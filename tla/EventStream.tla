----------------------------- MODULE EventStream -----------------------------
(***************************************************************************)
(* The notifications of one project: events in the database, the streams     *)
(* that the instances of the server send to the tabs of one user             *)
(* (server/src/collaboration.ts, server/src/routes/collaboration.ts), and     *)
(* the browser's EventSource (subscribeToProject in client/src/api.ts).       *)
(* A stream gets an event from its own instance as soon as it is committed,  *)
(* and every event from the database when it polls.  Without Redis.          *)
(***************************************************************************)
EXTENDS Integers, FiniteSets

CONSTANTS
  Hosts,        \* instances of the server
  Readers,      \* subscriptions in the browser, all of one user
  Streams,      \* connections; each has a reservation of its own
  NoReader, NoHost, NoStream,
  StreamLimit,  \* 10 connections of a user to a project
  Lease,        \* 45 s
  Batch,        \* 500 events of one poll
  MaxNotices, MaxTime   \* bounds

ASSUME StreamAssumption ==
  /\ NoReader \notin Readers /\ NoHost \notin Hosts /\ NoStream \notin Streams
  /\ IsFiniteSet(Streams)
  /\ StreamLimit \in Nat /\ Lease \in Nat \ {0} /\ Batch \in Nat \ {0}
  /\ MaxNotices \in Nat /\ MaxTime \in Nat

VARIABLES
  notices,      \* project_collaboration_events: their number is the latest id
  announced,   \* instance -> committed events it has yet to broadcast
  reserved,    \* project_presence: connection -> expires_at, 0 without a row
  stream,      \* what the instance knows of each connection
  reader,      \* the subscription of each tab
  moment

streamVars == <<notices, announced, reserved, stream, reader, moment>>

NoConnection == [pc |-> "none", host |-> NoHost, to |-> NoReader, after |-> 0, cursor |-> 0]

StreamState ==
  [pc : {"none", "reserved", "joined", "open", "closed"},
   host : Hosts \cup {NoHost}, to : Readers \cup {NoReader},
   after : Nat,    \* the Last-Event-ID of the request
   cursor : Nat]   \* lastEventId of the handler

ReaderState ==
  [on : Streams \cup {NoStream},
   heard : Nat,    \* the id the browser received last
   last : Nat,     \* lastEventId of the subscription
   told : SUBSET (Nat \ {0})]   \* events handed to onEvent

StreamTypeOK ==
  /\ notices \in Nat /\ moment \in Nat
  /\ announced \in [Hosts -> SUBSET (Nat \ {0})]
  /\ reserved \in [Streams -> Nat]
  /\ stream \in [Streams -> StreamState]
  /\ reader \in [Readers -> ReaderState]

StreamInit ==
  /\ notices = 0 /\ moment = 0
  /\ announced = [h \in Hosts |-> {}]
  /\ reserved = [s \in Streams |-> 0]
  /\ stream = [s \in Streams |-> NoConnection]
  /\ reader = [r \in Readers |-> [on |-> NoStream, heard |-> 0, last |-> 0, told |-> {}]]

-----------------------------------------------------------------------------
(* The reader of a stream, if it still listens to this one. *)
Listens(s, r) == stream[s].to = r /\ reader[r].on = s

(* The handler of "collaboration": what is not newer was told already. *)
Hears(r, n) ==
  [r EXCEPT !.heard = n,
            !.last = IF n <= r.last THEN r.last ELSE n,
            !.told = IF n <= r.last THEN r.told ELSE r.told \cup {n}]

(* The same for the events first..upTo, written one after the other. *)
HearsAll(r, first, upTo) ==
  IF upTo < first THEN r
  ELSE [r EXCEPT !.heard = upTo,
                 !.last = IF upTo <= r.last THEN r.last ELSE upTo,
                 !.told = @ \cup {n \in first..upTo : n > r.last}]

-----------------------------------------------------------------------------
(* emitProjectEvent: the row is committed; the broadcast follows, and commits  *)
(* on several connections may be answered in any order.                     *)
EmitNotice(h) ==
  /\ notices < MaxNotices                                               \* bound
  /\ notices' = notices + 1
  /\ announced' = [announced EXCEPT ![h] = @ \cup {notices'}]
  /\ UNCHANGED <<reserved, stream, reader, moment>>

Broadcast(h, n) ==
  /\ n \in announced[h]
  /\ announced' = [announced EXCEPT ![h] = @ \ {n}]
  /\ reader' = [r \in Readers |->
       IF \E s \in Streams : Listens(s, r) /\ stream[s].host = h /\ stream[s].pc \in {"joined", "open"}
         THEN Hears(reader[r], n) ELSE reader[r]]
  /\ UNCHANGED <<notices, reserved, stream, moment>>

-----------------------------------------------------------------------------
(* Reservations that have run out are removed before the others are counted. *)
Held == {s \in Streams : reserved[s] > moment}

(* reserveProjectSubscription: the EventSource connects, perhaps again. *)
Reserve(s, h, r) ==
  /\ reader[r].on = NoStream /\ stream[s].pc = "none" /\ s \notin Held
  /\ Cardinality(Held) < StreamLimit
  /\ reserved' = [t \in Streams |-> IF t = s THEN moment + Lease ELSE IF t \in Held THEN reserved[t] ELSE 0]
  /\ stream' = [stream EXCEPT ![s] = [pc |-> "reserved", host |-> h, to |-> r,
                                      after |-> reader[r].heard, cursor |-> 0]]
  /\ reader' = [reader EXCEPT ![r].on = s]
  /\ UNCHANGED <<notices, announced, moment>>

(* Mutant: the reservation is written whether or not the row is still there. *)
Renewed_Always(s) == [reserved EXCEPT ![s] = moment + Lease]

Renewed(s) == IF s \in Held THEN [reserved EXCEPT ![s] = moment + Lease] ELSE reserved

(* The stream ends: cleanup forgets it and gives its reservation back. *)
Shut(s) == [stream EXCEPT ![s] = [NoConnection EXCEPT !.pc = "closed"]]

Left(s) == [r \in Readers |-> IF reader[r].on = s THEN [reader[r] EXCEPT !.on = NoStream] ELSE reader[r]]

(* subscribeProject: renewed once, the stream gets what its instance emits. *)
Join(s) ==
  /\ stream[s].pc = "reserved"
  /\ reserved' = Renewed(s)
  /\ IF reserved'[s] > moment
       THEN /\ stream' = [stream EXCEPT ![s].pc = "joined"]
            /\ UNCHANGED reader
       ELSE stream' = Shut(s) /\ reader' = Left(s)
  /\ UNCHANGED <<notices, announced, moment>>

(* Every 15 s: who has lost the reservation ends the stream. *)
Renew(s) ==
  /\ stream[s].pc \in {"joined", "open"}
  /\ reserved' = Renewed(s)
  /\ IF reserved'[s] > moment
       THEN UNCHANGED <<stream, reader>>
       ELSE stream' = Shut(s) /\ reader' = Left(s)
  /\ UNCHANGED <<notices, announced, moment>>

(* Mutant: a poll that was cut short moves the cursor to the end. *)
Replayed_ToEnd(from) == notices

Replayed(from) == IF from + Batch <= notices THEN from + Batch ELSE notices

(* replayProjectEvents: from the Last-Event-ID first, then from the cursor. *)
Replay(s) ==
  LET from == IF stream[s].pc = "joined" THEN stream[s].after ELSE stream[s].cursor
      sent == IF from + Batch <= notices THEN from + Batch ELSE notices
  IN
  /\ stream[s].pc \in {"joined", "open"}
  /\ stream' = [stream EXCEPT ![s].pc = "open", ![s].cursor = Replayed(from)]
  /\ reader' = [r \in Readers |-> IF Listens(s, r) THEN HearsAll(reader[r], from + 1, sent) ELSE reader[r]]
  /\ UNCHANGED <<notices, announced, reserved, moment>>

(* The connection breaks, or the server ends it (a slow reader, access that   *)
(* was lost, a deadline), perhaps before the other side notices.            *)
Disconnect(r) ==
  /\ reader[r].on # NoStream
  /\ reader' = [reader EXCEPT ![r].on = NoStream]
  /\ UNCHANGED <<notices, announced, reserved, stream, moment>>

EndStream(s) ==
  /\ stream[s].pc \in {"reserved", "joined", "open"}
  /\ stream' = Shut(s) /\ reader' = Left(s)
  /\ UNCHANGED <<notices, announced, reserved, moment>>

(* releaseProjectSubscription, or the attempt fails and the row runs out. *)
Released(s) ==
  /\ stream[s].pc = "closed"
  /\ stream' = [stream EXCEPT ![s] = NoConnection]
  /\ reserved' \in {reserved, [reserved EXCEPT ![s] = 0]}
  /\ UNCHANGED <<notices, announced, reader, moment>>

(* An instance stops: its streams and what it had yet to broadcast are gone,  *)
(* the reservations stay until they run out.                                *)
HostStops(h) ==
  /\ announced' = [announced EXCEPT ![h] = {}]
  /\ stream' = [s \in Streams |-> IF stream[s].host = h THEN NoConnection ELSE stream[s]]
  /\ reader' = [r \in Readers |-> IF \E s \in Streams : Listens(s, r) /\ stream[s].host = h
                                    THEN [reader[r] EXCEPT !.on = NoStream] ELSE reader[r]]
  /\ UNCHANGED <<notices, reserved, moment>>

ClockTicks ==
  /\ moment < MaxTime                                                   \* bound
  /\ moment' = moment + 1
  /\ UNCHANGED <<notices, announced, reserved, stream, reader>>

StreamNext ==
  \/ \E h \in Hosts : EmitNotice(h) \/ HostStops(h) \/ \E n \in announced[h] : Broadcast(h, n)
  \/ \E s \in Streams : \/ Join(s) \/ Renew(s) \/ Replay(s) \/ EndStream(s) \/ Released(s)
                        \/ \E h \in Hosts, r \in Readers : Reserve(s, h, r)
  \/ \E r \in Readers : Disconnect(r)
  \/ ClockTicks

StreamSpec == StreamInit /\ [][StreamNext]_streamVars

-----------------------------------------------------------------------------
(* A user never holds more reservations than the limit, although streams are  *)
(* renewed, lost and opened again on several instances, and one that outlived *)
(* its reservation still renews it.                                         *)
SlotsKept == Cardinality(Held) <= StreamLimit

(* Whatever order broadcasts and replays arrive in, and wherever a reader     *)
(* connects again: a stream that has replayed up to an event has told its     *)
(* reader of that event or of a later one.  The newest revision is not missed *)
(* for good; an older event that comes after a newer one is not handed on.    *)
NewestTold ==
  \A s \in Streams, r \in Readers : Listens(s, r) => stream[s].cursor <= reader[r].last
=============================================================================
