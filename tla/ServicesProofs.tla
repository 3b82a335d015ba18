---------------------------- MODULE ServicesProofs ----------------------------
(***************************************************************************)
(* Theorems about four services of the server that share no state, each with  *)
(* an invariant of its own: the event stream, for any number of instances,   *)
(* tabs and connections, any limit, lease and size of a replay; the circuit   *)
(* breaker, for any number of calls, threshold and cooldown, and any deadline *)
(* shorter than the lease of a probe; an organization's workspace, for any    *)
(* number of pages, artifacts and clean-ups and any limits; and an account,    *)
(* for any number of sessions and mails, any lifetimes, and an attempt window  *)
(* no longer than the lock.                                                 *)
(***************************************************************************)
EXTENDS EventStream, OutboundCircuit, Workspaces, AccountSessions, FiniteSetTheorems, TLAPS

(* What the browser would resume from was handed on, or something newer was,  *)
(* and a stream is never ahead of the reader that listens to it.             *)
ReadersAhead ==
  /\ \A r \in Readers : reader[r].heard <= reader[r].last
  /\ \A s \in Streams, r \in Readers : Listens(s, r) =>
       stream[s].after <= reader[r].last /\ stream[s].cursor <= reader[r].last

StreamInv == StreamTypeOK /\ ReadersAhead

-----------------------------------------------------------------------------
LEMMA ReaderFields ==
  ASSUME StreamTypeOK
  PROVE  /\ notices \in Nat /\ moment \in Nat
         /\ \A r \in Readers : /\ reader[r] \in ReaderState
                               /\ reader[r].heard \in Nat /\ reader[r].last \in Nat
         /\ \A s \in Streams : /\ stream[s] \in StreamState /\ reserved[s] \in Nat
                               /\ stream[s].after \in Nat /\ stream[s].cursor \in Nat
  BY DEF StreamTypeOK, ReaderState, StreamState

LEMMA ReaderRow ==
  ASSUME NEW r \in ReaderState, NEW h \in Nat, NEW l \in Nat, NEW T \in SUBSET (Nat \ {0})
  PROVE  [r EXCEPT !.heard = h, !.last = l, !.told = T] \in ReaderState
  BY DEF ReaderState

(* Hearing events makes a reader newer, never older. *)
LEMMA HearsNewer ==
  ASSUME NEW r \in ReaderState, NEW n \in Nat \ {0}, r.heard <= r.last
  PROVE  /\ Hears(r, n) \in ReaderState /\ Hears(r, n).on = r.on
         /\ Hears(r, n).heard <= Hears(r, n).last
         /\ r.last <= Hears(r, n).last
  <1>1. r.last \in Nat /\ r.heard \in Nat /\ r.told \in SUBSET (Nat \ {0})
    BY DEF ReaderState
  <1>2. CASE n <= r.last
    <2>1. Hears(r, n) = [r EXCEPT !.heard = n, !.last = r.last, !.told = r.told]
      BY <1>2 DEF Hears
    <2>2. Hears(r, n).on = r.on /\ Hears(r, n).heard = n /\ Hears(r, n).last = r.last
      BY <2>1 DEF ReaderState
    <2>3. Hears(r, n) \in ReaderState
      <3>1. n \in Nat
        OBVIOUS
      <3>2. [r EXCEPT !.heard = n, !.last = r.last, !.told = r.told] \in ReaderState
        BY <1>1, <3>1, ReaderRow, Zenon
      <3> QED BY <2>1, <3>2
    <2> QED BY <1>1, <1>2, <2>2, <2>3
  <1>3. CASE ~(n <= r.last)
    <2>1. Hears(r, n) = [r EXCEPT !.heard = n, !.last = n, !.told = r.told \cup {n}]
      BY <1>3 DEF Hears
    <2>2. Hears(r, n).on = r.on /\ Hears(r, n).heard = n /\ Hears(r, n).last = n
      BY <2>1 DEF ReaderState
    <2>3. Hears(r, n) \in ReaderState
      <3>1. r.told \cup {n} \in SUBSET (Nat \ {0})
        BY <1>1
      <3>2. n \in Nat
        OBVIOUS
      <3>3. [r EXCEPT !.heard = n, !.last = n, !.told = r.told \cup {n}] \in ReaderState
        BY <3>1, <3>2, ReaderRow, Zenon
      <3> QED BY <2>1, <3>3
    <2> QED BY <1>1, <1>3, <2>2, <2>3
  <1> QED BY <1>2, <1>3

LEMMA HearsAllNewer ==
  ASSUME NEW r \in ReaderState, NEW a \in Nat, NEW z \in Nat, r.heard <= r.last
  PROVE  /\ HearsAll(r, a + 1, z) \in ReaderState /\ HearsAll(r, a + 1, z).on = r.on
         /\ HearsAll(r, a + 1, z).heard <= HearsAll(r, a + 1, z).last
         /\ r.last <= HearsAll(r, a + 1, z).last
         /\ a <= r.last => z <= HearsAll(r, a + 1, z).last
  <1>1. r.last \in Nat /\ r.heard \in Nat /\ r.told \in SUBSET (Nat \ {0})
    BY DEF ReaderState
  <1>2. CASE z < a + 1
    BY <1>1, <1>2 DEF HearsAll
  <1>3. CASE ~(z < a + 1)
    <2> DEFINE new == r.told \cup {n \in a + 1 .. z : n > r.last}
    <2>1. new \in SUBSET (Nat \ {0})
      BY <1>1
    <2> HIDE DEF new
    <2>2. CASE z <= r.last
      <3>1. HearsAll(r, a + 1, z) = [r EXCEPT !.heard = z, !.last = r.last, !.told = new]
        BY <1>3, <2>2 DEF HearsAll, new
      <3>2. /\ HearsAll(r, a + 1, z).on = r.on
            /\ HearsAll(r, a + 1, z).heard = z /\ HearsAll(r, a + 1, z).last = r.last
        BY <3>1 DEF ReaderState
      <3>3. HearsAll(r, a + 1, z) \in ReaderState
        <4>1. [r EXCEPT !.heard = z, !.last = r.last, !.told = new] \in ReaderState
          BY <1>1, <2>1, ReaderRow, Zenon
        <4> QED BY <3>1, <4>1
      <3> QED BY <1>1, <2>2, <3>2, <3>3
    <2>3. CASE ~(z <= r.last)
      <3>1. HearsAll(r, a + 1, z) = [r EXCEPT !.heard = z, !.last = z, !.told = new]
        BY <1>3, <2>3 DEF HearsAll, new
      <3>2. /\ HearsAll(r, a + 1, z).on = r.on
            /\ HearsAll(r, a + 1, z).heard = z /\ HearsAll(r, a + 1, z).last = z
        BY <3>1 DEF ReaderState
      <3>3. HearsAll(r, a + 1, z) \in ReaderState
        <4>1. [r EXCEPT !.heard = z, !.last = z, !.told = new] \in ReaderState
          BY <1>1, <2>1, ReaderRow, Zenon
        <4> QED BY <3>1, <4>1
      <3> QED BY <1>1, <2>3, <3>2, <3>3
    <2> QED BY <2>2, <2>3
  <1> QED BY <1>2, <1>3

LEMMA LaterMoment == ASSUME StreamTypeOK PROVE moment + Lease \in Nat
  BY StreamAssumption DEF StreamTypeOK

LEMMA RenewedType ==
  ASSUME StreamTypeOK, NEW s \in Streams
  PROVE  Renewed(s) \in [Streams -> Nat]
  BY LaterMoment DEF Renewed, StreamTypeOK

LEMMA StreamStart == StreamInit => StreamInv
  BY DEF StreamInit, StreamInv, StreamTypeOK, ReadersAhead, Listens, NoConnection, StreamState, ReaderState

-----------------------------------------------------------------------------
(* Nobody begins to listen and no stream moves. *)
Quiet ==
  /\ \A r \in Readers : reader'[r].heard = reader[r].heard /\ reader'[r].last = reader[r].last
  /\ \A s \in Streams, r \in Readers : Listens(s, r)' =>
       /\ Listens(s, r)
       /\ stream'[s].after = stream[s].after /\ stream'[s].cursor = stream[s].cursor

LEMMA QuietKeeps == ASSUME ReadersAhead, Quiet PROVE ReadersAhead'
  BY DEF ReadersAhead, Quiet

(* A stream that ends, on either side. *)
LEMMA ShutKeeps ==
  ASSUME StreamTypeOK, NEW s \in Streams, stream' = Shut(s), reader' = Left(s)
  PROVE  /\ stream' \in [Streams -> StreamState] /\ reader' \in [Readers -> ReaderState]
         /\ Quiet
  <1> DEFINE shut == [NoConnection EXCEPT !.pc = "closed"]
  <1>1. shut \in StreamState /\ shut.to = NoReader
    BY DEF NoConnection, StreamState
  <1>2. stream' = [stream EXCEPT ![s] = shut]
    BY DEF Shut
  <1>3. stream' \in [Streams -> StreamState]
    BY <1>1, <1>2 DEF StreamTypeOK
  <1>4. ASSUME NEW r \in Readers
        PROVE  /\ reader'[r] \in ReaderState
               /\ reader'[r].heard = reader[r].heard /\ reader'[r].last = reader[r].last
               /\ reader'[r].on = reader[r].on \/ reader'[r].on = NoStream
    <2>1. reader[r] \in ReaderState /\ [reader[r] EXCEPT !.on = NoStream] \in ReaderState
      BY DEF StreamTypeOK, ReaderState
    <2> QED BY <2>1 DEF Left, ReaderState
  <1>5. reader' \in [Readers -> ReaderState]
    <2>1. reader' = [r \in Readers |-> reader'[r]]
      BY DEF Left
    <2> QED BY <1>4, <2>1
  <1>6. Quiet
    <2> SUFFICES ASSUME NEW t \in Streams, NEW r \in Readers, stream'[t].to = r, reader'[r].on = t
                 PROVE  /\ Listens(t, r)
                        /\ stream'[t].after = stream[t].after /\ stream'[t].cursor = stream[t].cursor
      BY <1>4 DEF Quiet, Listens
    <2>1. t # s
      BY <1>1, <1>2, StreamAssumption DEF StreamTypeOK
    <2>2. stream'[t] = stream[t]
      BY <1>2, <2>1 DEF StreamTypeOK
    <2> QED BY <1>4, <2>2, StreamAssumption DEF Listens
  <1> QED BY <1>3, <1>5, <1>6

LEMMA EmitKeeps ==
  ASSUME StreamInv, NEW h \in Hosts, EmitNotice(h)
  PROVE  StreamInv'
  <1>1. notices + 1 \in Nat \ {0} /\ notices' = notices + 1
    BY ReaderFields DEF StreamInv, EmitNotice
  <1>2. announced' \in [Hosts -> SUBSET (Nat \ {0})]
    <2>1. announced' = [announced EXCEPT ![h] = announced[h] \cup {notices'}]
      BY DEF EmitNotice
    <2>2. announced[h] \cup {notices'} \in SUBSET (Nat \ {0})
      BY <1>1 DEF StreamInv, StreamTypeOK
    <2> QED BY <2>1, <2>2 DEF StreamInv, StreamTypeOK
  <1>3. StreamTypeOK'
    BY <1>1, <1>2 DEF StreamInv, StreamTypeOK, EmitNotice
  <1>4. Quiet
    BY DEF Quiet, EmitNotice, Listens
  <1> QED BY <1>3, <1>4, QuietKeeps DEF StreamInv

LEMMA BroadcastKeeps ==
  ASSUME StreamInv, NEW h \in Hosts, NEW n \in announced[h], Broadcast(h, n)
  PROVE  StreamInv'
  <1>1. StreamTypeOK /\ n \in Nat \ {0}
    BY DEF StreamInv, StreamTypeOK
  <1>2. ASSUME NEW r \in Readers
        PROVE  /\ reader'[r] \in ReaderState /\ reader'[r].on = reader[r].on
               /\ reader'[r].heard <= reader'[r].last /\ reader[r].last <= reader'[r].last
    <2>1. reader[r] \in ReaderState /\ reader[r].heard <= reader[r].last /\ reader[r].last \in Nat
      BY <1>1, ReaderFields DEF StreamInv, ReadersAhead
    <2>2. reader'[r] = Hears(reader[r], n) \/ reader'[r] = reader[r]
      BY DEF Broadcast
    <2> QED BY <1>1, <2>1, <2>2, HearsNewer
  <1>3. announced' \in [Hosts -> SUBSET (Nat \ {0})]
    BY <1>1 DEF StreamTypeOK, Broadcast
  <1>4. reader' = [r \in Readers |-> reader'[r]]
    BY DEF Broadcast
  <1>5. StreamTypeOK'
    BY <1>1, <1>2, <1>3, <1>4 DEF StreamTypeOK, Broadcast
  <1>6. ReadersAhead'
    <2>1. stream' = stream
      BY DEF Broadcast
    <2>2. ASSUME NEW s \in Streams, NEW r \in Readers, Listens(s, r)'
          PROVE  stream'[s].after <= reader'[r].last /\ stream'[s].cursor <= reader'[r].last
      <3>1. Listens(s, r)
        BY <1>2, <2>1, <2>2 DEF Listens
      <3>2. stream[s].after <= reader[r].last /\ stream[s].cursor <= reader[r].last
        BY <3>1 DEF StreamInv, ReadersAhead
      <3>3. reader'[r].last \in Nat
        BY <1>2 DEF ReaderState
      <3> QED BY <1>1, <1>2, <2>1, <3>2, <3>3, ReaderFields
    <2> QED BY <1>2, <2>2 DEF ReadersAhead
  <1> QED BY <1>5, <1>6 DEF StreamInv

LEMMA ReserveKeeps ==
  ASSUME StreamInv, NEW s \in Streams, NEW h \in Hosts, NEW r \in Readers, Reserve(s, h, r)
  PROVE  StreamInv'
  <1> DEFINE new == [pc |-> "reserved", host |-> h, to |-> r, after |-> reader[r].heard, cursor |-> 0]
             on  == [reader[r] EXCEPT !.on = s]
  <1>1. StreamTypeOK /\ reader[r] \in ReaderState /\ reader[r].heard \in Nat
    BY ReaderFields DEF StreamInv
  <1>2. new \in StreamState
    BY <1>1 DEF StreamState
  <1>3. on \in ReaderState /\ on.on = s /\ on.heard = reader[r].heard /\ on.last = reader[r].last
    BY <1>1 DEF ReaderState
  <1>4. stream' = [stream EXCEPT ![s] = new] /\ reader' = [reader EXCEPT ![r] = on]
    BY <1>1 DEF Reserve, StreamTypeOK
  <1>5. reserved' \in [Streams -> Nat]
    BY <1>1, LaterMoment DEF Reserve, StreamTypeOK
  <1>6. StreamTypeOK'
    BY <1>1, <1>2, <1>3, <1>4, <1>5 DEF StreamTypeOK, Reserve
  <1>7. /\ stream'[s] = new /\ \A t \in Streams \ {s} : stream'[t] = stream[t]
        /\ reader'[r] = on /\ \A q \in Readers \ {r} : reader'[q] = reader[q]
    BY <1>1, <1>4 DEF StreamTypeOK
  <1>8. \A q \in Readers : reader'[q].heard = reader[q].heard /\ reader'[q].last = reader[q].last
    BY <1>3, <1>7
  <1>9. ASSUME NEW t \in Streams, NEW q \in Readers, Listens(t, q)'
        PROVE  stream'[t].after <= reader'[q].last /\ stream'[t].cursor <= reader'[q].last
    <2>1. CASE t = s
      <3>1. q = r
        BY <1>7, <1>9, <2>1 DEF Listens
      <3>2. reader[r].heard <= reader[r].last /\ reader[r].last \in Nat
        BY <1>1, ReaderFields DEF StreamInv, ReadersAhead
      <3> QED BY <1>7, <1>8, <2>1, <3>1, <3>2
    <2>2. CASE t # s
      <3>1. q # r
        BY <1>3, <1>7, <1>9, <2>2 DEF Listens
      <3>2. Listens(t, q)
        BY <1>7, <1>9, <2>2, <3>1 DEF Listens
      <3> QED BY <1>7, <2>2, <3>1, <3>2 DEF StreamInv, ReadersAhead
    <2> QED BY <2>1, <2>2
  <1>10. ReadersAhead'
    BY <1>8, <1>9 DEF StreamInv, ReadersAhead
  <1> QED BY <1>6, <1>10 DEF StreamInv

LEMMA RenewKeeps ==
  ASSUME StreamInv, NEW s \in Streams, Join(s) \/ Renew(s)
  PROVE  StreamInv'
  <1>1. StreamTypeOK /\ UNCHANGED <<notices, announced, moment>> /\ reserved' \in [Streams -> Nat]
    BY RenewedType DEF StreamInv, Join, Renew
  <1>2. CASE stream' = Shut(s) /\ reader' = Left(s)
    BY <1>1, <1>2, ShutKeeps, QuietKeeps DEF StreamInv, StreamTypeOK
  <1>3. CASE UNCHANGED <<stream, reader>>
    <2>1. Quiet
      BY <1>3 DEF Quiet, Listens
    <2> QED BY <1>1, <1>3, <2>1, QuietKeeps DEF StreamInv, StreamTypeOK
  <1>4. CASE stream' = [stream EXCEPT ![s].pc = "joined"] /\ UNCHANGED reader
    <2> DEFINE joined == [stream[s] EXCEPT !.pc = "joined"]
    <2>1. stream' = [stream EXCEPT ![s] = joined] /\ stream[s] \in StreamState
      BY <1>1, <1>4 DEF StreamTypeOK
    <2>2. /\ joined \in StreamState /\ joined.to = stream[s].to
          /\ joined.after = stream[s].after /\ joined.cursor = stream[s].cursor
      BY <2>1 DEF StreamState
    <2>3. stream'[s] = joined /\ \A t \in Streams \ {s} : stream'[t] = stream[t]
      BY <1>1, <2>1 DEF StreamTypeOK
    <2> HIDE DEF joined
    <2>4. stream' \in [Streams -> StreamState]
      BY <1>1, <2>1, <2>2 DEF StreamTypeOK
    <2>5. Quiet
      BY <1>4, <2>2, <2>3 DEF Quiet, Listens
    <2> QED BY <1>1, <1>4, <2>4, <2>5, QuietKeeps DEF StreamInv, StreamTypeOK
  <1> QED BY <1>2, <1>3, <1>4 DEF Join, Renew

LEMMA ReplayKeeps ==
  ASSUME StreamInv, NEW s \in Streams, Replay(s)
  PROVE  StreamInv'
  <1> DEFINE from == IF stream[s].pc = "joined" THEN stream[s].after ELSE stream[s].cursor
             sent == IF from + Batch <= notices THEN from + Batch ELSE notices
             open == [stream[s] EXCEPT !.pc = "open", !.cursor = sent]
  <1>1. StreamTypeOK /\ stream[s] \in StreamState /\ from \in Nat
    BY ReaderFields DEF StreamInv
  <1>2. sent \in Nat
    BY <1>1, ReaderFields, StreamAssumption
  <1>3. /\ stream' = [stream EXCEPT ![s].pc = "open", ![s].cursor = sent]
        /\ reader' = [r \in Readers |-> IF Listens(s, r) THEN HearsAll(reader[r], from + 1, sent) ELSE reader[r]]
        /\ UNCHANGED <<notices, announced, reserved, moment>>
    BY DEF Replay, Replayed
  <1>4. stream[s].after \in Nat
    BY <1>1, ReaderFields
  <1> HIDE DEF sent
  <1>5. open \in StreamState
    BY <1>1, <1>2 DEF StreamState
  <1>6. open.to = stream[s].to /\ open.after = stream[s].after /\ open.cursor = sent
    BY <1>1 DEF StreamState
  <1>7. stream' = [stream EXCEPT ![s] = open]
    BY <1>1, <1>3 DEF StreamTypeOK
  <1>8. stream'[s] = open /\ \A t \in Streams \ {s} : stream'[t] = stream[t]
    BY <1>1, <1>7 DEF StreamTypeOK
  <1> HIDE DEF open
  <1>9. ASSUME NEW r \in Readers
        PROVE  /\ reader'[r] \in ReaderState /\ reader'[r].on = reader[r].on
               /\ reader'[r].heard <= reader'[r].last /\ reader[r].last <= reader'[r].last
               /\ Listens(s, r) => sent <= reader'[r].last
    <2>1. reader[r] \in ReaderState /\ reader[r].heard <= reader[r].last /\ reader[r].last \in Nat
      BY <1>1, ReaderFields DEF StreamInv, ReadersAhead
    <2>2. CASE Listens(s, r)
      <3>1. reader'[r] = HearsAll(reader[r], from + 1, sent)
        BY <1>3, <2>2
      <3>2. from <= reader[r].last
        BY <2>2 DEF StreamInv, ReadersAhead
      <3>3. reader'[r].on = reader[r].on /\ reader'[r] \in ReaderState
        <4> HIDE DEF from
        <4>1. /\ HearsAll(reader[r], from + 1, sent).on = reader[r].on
              /\ HearsAll(reader[r], from + 1, sent) \in ReaderState
          BY <1>1, <1>2, <2>1, HearsAllNewer, Zenon
        <4> QED BY <3>1, <4>1
      <3>4. /\ reader'[r].heard <= reader'[r].last /\ reader[r].last <= reader'[r].last
            /\ sent <= reader'[r].last
        <4> HIDE DEF from
        <4> QED BY <1>1, <1>2, <2>1, <3>1, <3>2, HearsAllNewer
      <3> QED BY <3>3, <3>4
    <2>3. CASE ~Listens(s, r)
      BY <1>3, <2>1, <2>3
    <2> QED BY <2>2, <2>3
  <1>10. reader' = [r \in Readers |-> reader'[r]]
    BY <1>3
  <1>11. StreamTypeOK'
    BY <1>1, <1>3, <1>5, <1>7, <1>9, <1>10 DEF StreamTypeOK
  <1>12. ASSUME NEW t \in Streams, NEW r \in Readers, Listens(t, r)'
         PROVE  stream'[t].after <= reader'[r].last /\ stream'[t].cursor <= reader'[r].last
    <2>1. Listens(t, r)
      BY <1>6, <1>8, <1>9, <1>12 DEF Listens
    <2>2. stream[t].after <= reader[r].last /\ stream[t].cursor <= reader[r].last
      BY <2>1 DEF StreamInv, ReadersAhead
    <2>3. reader[r].last \in Nat /\ reader'[r].last \in Nat /\ stream[t].after \in Nat /\ stream[t].cursor \in Nat
      BY <1>1, <1>9, ReaderFields DEF ReaderState
    <2>4. CASE t = s
      BY <1>6, <1>8, <1>9, <2>1, <2>2, <2>3, <2>4
    <2>5. CASE t # s
      BY <1>8, <1>9, <2>2, <2>3, <2>5
    <2> QED BY <2>4, <2>5
  <1>13. ReadersAhead'
    BY <1>9, <1>12 DEF ReadersAhead
  <1> QED BY <1>11, <1>13 DEF StreamInv

LEMMA EndKeeps ==
  ASSUME StreamInv, NEW s \in Streams, EndStream(s) \/ Released(s)
  PROVE  StreamInv'
  <1>1. StreamTypeOK
    BY DEF StreamInv
  <1>2. CASE EndStream(s)
    BY <1>1, <1>2, ShutKeeps, QuietKeeps DEF StreamInv, StreamTypeOK, EndStream
  <1>3. CASE Released(s)
    <2>1. NoConnection \in StreamState /\ NoConnection.to = NoReader
      BY DEF NoConnection, StreamState
    <2>2. /\ stream'[s] = NoConnection /\ \A t \in Streams \ {s} : stream'[t] = stream[t]
          /\ stream' \in [Streams -> StreamState] /\ reserved' \in [Streams -> Nat]
      BY <1>1, <1>3, <2>1 DEF Released, StreamTypeOK
    <2>3. Quiet
      BY <1>3, <2>1, <2>2, StreamAssumption DEF Released, Quiet, Listens
    <2> QED BY <1>1, <1>3, <2>2, <2>3, QuietKeeps DEF StreamInv, StreamTypeOK, Released
  <1> QED BY <1>2, <1>3

LEMMA LeaveKeeps ==
  ASSUME StreamInv, \/ \E h \in Hosts : HostStops(h)
                    \/ \E r \in Readers : Disconnect(r)
  PROVE  StreamInv'
  <1>1. StreamTypeOK
    BY DEF StreamInv
  <1>2. ASSUME NEW r \in Readers
        PROVE  /\ reader'[r] \in ReaderState
               /\ reader'[r].heard = reader[r].heard /\ reader'[r].last = reader[r].last
               /\ reader'[r].on = reader[r].on \/ reader'[r].on = NoStream
    <2>1. reader[r] \in ReaderState
      BY <1>1 DEF StreamTypeOK
    <2> DEFINE off == [reader[r] EXCEPT !.on = NoStream]
    <2>2. off \in ReaderState /\ off.heard = reader[r].heard /\ off.last = reader[r].last /\ off.on = NoStream
      BY <2>1 DEF ReaderState
    <2>3. reader'[r] = reader[r] \/ reader'[r] = off
      BY <1>1 DEF HostStops, Disconnect, StreamTypeOK
    <2> QED BY <2>1, <2>2, <2>3
  <1>3. reader' = [r \in Readers |-> reader'[r]]
    BY <1>1 DEF HostStops, Disconnect, StreamTypeOK
  <1>4. NoConnection \in StreamState /\ NoConnection.to = NoReader
    BY DEF NoConnection, StreamState
  <1>5. \A s \in Streams : stream'[s] = stream[s] \/ stream'[s] = NoConnection
    BY <1>1 DEF HostStops, Disconnect, StreamTypeOK
  <1>6. stream' = [s \in Streams |-> stream'[s]] /\ announced' \in [Hosts -> SUBSET (Nat \ {0})]
        /\ UNCHANGED <<notices, reserved, moment>>
    BY <1>1 DEF HostStops, Disconnect, StreamTypeOK
  <1>7. StreamTypeOK'
    BY <1>1, <1>2, <1>3, <1>4, <1>5, <1>6 DEF StreamTypeOK
  <1>8. Quiet
    BY <1>2, <1>4, <1>5, StreamAssumption DEF Quiet, Listens
  <1> QED BY <1>7, <1>8, QuietKeeps DEF StreamInv

LEMMA StreamStep == StreamInv /\ [StreamNext]_streamVars => StreamInv'
  <1> SUFFICES ASSUME StreamInv, [StreamNext]_streamVars
               PROVE  StreamInv'
    OBVIOUS
  <1>1. CASE UNCHANGED streamVars
    BY <1>1 DEF streamVars, StreamInv, StreamTypeOK, ReadersAhead, Listens
  <1>2. CASE ClockTicks
    <2>1. StreamTypeOK'
      BY <1>2 DEF ClockTicks, StreamInv, StreamTypeOK
    <2>2. Quiet
      BY <1>2 DEF ClockTicks, Quiet, Listens
    <2> QED BY <2>1, <2>2, QuietKeeps DEF StreamInv
  <1>3. ASSUME NEW h \in Hosts, EmitNotice(h)
        PROVE  StreamInv'
    BY <1>3, EmitKeeps
  <1>4. ASSUME NEW h \in Hosts, NEW n \in announced[h], Broadcast(h, n)
        PROVE  StreamInv'
    BY <1>4, BroadcastKeeps
  <1>5. ASSUME NEW s \in Streams, NEW h \in Hosts, NEW r \in Readers, Reserve(s, h, r)
        PROVE  StreamInv'
    BY <1>5, ReserveKeeps
  <1>6. ASSUME NEW s \in Streams, Join(s) \/ Renew(s)
        PROVE  StreamInv'
    BY <1>6, RenewKeeps
  <1>7. ASSUME NEW s \in Streams, Replay(s)
        PROVE  StreamInv'
    BY <1>7, ReplayKeeps
  <1>8. ASSUME NEW s \in Streams, EndStream(s) \/ Released(s)
        PROVE  StreamInv'
    BY <1>8, EndKeeps
  <1>9. CASE \/ \E h \in Hosts : HostStops(h)
             \/ \E r \in Readers : Disconnect(r)
    BY <1>9, LeaveKeeps
  <1> QED BY <1>1, <1>2, <1>3, <1>4, <1>5, <1>6, <1>7, <1>8, <1>9 DEF StreamNext

(* Events, streams and readers keep the shape the code gives them. *)
THEOREM StreamTypeCorrect == StreamSpec => []StreamTypeOK
  <1>1. StreamInv => StreamTypeOK
    BY DEF StreamInv
  <1> QED BY <1>1, StreamStart, StreamStep, PTL DEF StreamSpec

(* A stream that has replayed up to an event has told its reader of that      *)
(* event or of a later one (routes/collaboration.ts:115, api.ts:401).         *)
THEOREM NewestIsTold == StreamSpec => []NewestTold
  <1>1. StreamInv => NewestTold
    BY DEF StreamInv, ReadersAhead, NewestTold
  <1> QED BY <1>1, StreamStart, StreamStep, PTL DEF StreamSpec

-----------------------------------------------------------------------------
LEMMA SlotsStep == StreamTypeOK /\ SlotsKept /\ [StreamNext]_streamVars => SlotsKept'
  <1> SUFFICES ASSUME StreamTypeOK, SlotsKept, [StreamNext]_streamVars
               PROVE  SlotsKept'
    OBVIOUS
  <1>1. IsFiniteSet(Held) /\ Cardinality(Held) \in Nat /\ StreamLimit \in Nat
    <2>1. Held \subseteq Streams
      BY DEF Held
    <2>2. IsFiniteSet(Held)
      BY <2>1, FS_Subset, StreamAssumption
    <2> QED BY <2>2, FS_CardinalityType, StreamAssumption
  (* The reservations that run are the same, or fewer. *)
  <1>2. ASSUME Held' \subseteq Held
        PROVE  SlotsKept'
    <2>1. IsFiniteSet(Held') /\ Cardinality(Held') <= Cardinality(Held)
      BY <1>1, <1>2, FS_Subset
    <2>2. Cardinality(Held') \in Nat
      BY <2>1, FS_CardinalityType
    <2> QED BY <1>1, <2>1, <2>2 DEF SlotsKept
  <1>3. CASE reserved' = reserved /\ (moment' = moment \/ moment' = moment + 1)
    <2>1. Held' \subseteq Held
      BY <1>3, ReaderFields DEF Held
    <2> QED BY <1>2, <2>1
  <1>4. ASSUME NEW s \in Streams, NEW h \in Hosts, NEW r \in Readers, Reserve(s, h, r)
        PROVE  SlotsKept'
    <2>1. Held' \subseteq Held \cup {s}
      <3>1. ASSUME NEW t \in Streams, t # s, reserved'[t] > moment'
            PROVE  t \in Held
        <4>1. reserved'[t] = (IF t \in Held THEN reserved[t] ELSE 0) /\ moment' = moment
          BY <1>4, <3>1 DEF Reserve
        <4> QED BY <3>1, <4>1, ReaderFields
      <3> QED BY <3>1 DEF Held
    <2>2. IsFiniteSet(Held \cup {s}) /\ Cardinality(Held \cup {s}) = Cardinality(Held) + 1
      BY <1>1, <1>4, FS_AddElement DEF Reserve
    <2>3. IsFiniteSet(Held') /\ Cardinality(Held') <= Cardinality(Held \cup {s})
      BY <2>1, <2>2, FS_Subset
    <2>4. Cardinality(Held') \in Nat
      BY <2>3, FS_CardinalityType
    <2>5. Cardinality(Held) < StreamLimit
      BY <1>4 DEF Reserve
    <2> QED BY <1>1, <2>2, <2>3, <2>4, <2>5 DEF SlotsKept
  (* Whoever outlived its reservation does not get it back by renewing. *)
  <1>5. ASSUME NEW s \in Streams, Join(s) \/ Renew(s)
        PROVE  SlotsKept'
    <2>1. Held' \subseteq Held
      <3>1. moment' = moment /\ reserved' = Renewed(s)
        BY <1>5 DEF Join, Renew
      <3>2. \A t \in Streams \ {s} : reserved'[t] = reserved[t]
        BY <3>1 DEF Renewed, StreamTypeOK
      <3>3. s \in Held \/ reserved' = reserved
        BY <3>1 DEF Renewed
      <3> QED BY <3>1, <3>2, <3>3 DEF Held
    <2> QED BY <1>2, <2>1
  <1>6. ASSUME NEW s \in Streams, Released(s)
        PROVE  SlotsKept'
    <2>1. moment' = moment /\ reserved' \in {reserved, [reserved EXCEPT ![s] = 0]}
      BY <1>6 DEF Released
    <2>2. \A t \in Streams : reserved'[t] = reserved[t] \/ reserved'[t] = 0
      BY <2>1 DEF StreamTypeOK
    <2>3. Held' \subseteq Held
      BY <2>1, <2>2, ReaderFields DEF Held
    <2> QED BY <1>2, <2>3
  <1>7. CASE \/ UNCHANGED streamVars \/ ClockTicks
             \/ \E h \in Hosts : EmitNotice(h) \/ HostStops(h) \/ \E n \in announced[h] : Broadcast(h, n)
             \/ \E s \in Streams : Replay(s) \/ EndStream(s)
             \/ \E r \in Readers : Disconnect(r)
    <2>1. reserved' = reserved /\ (moment' = moment \/ moment' = moment + 1)
      BY <1>7 DEF streamVars, ClockTicks, EmitNotice, HostStops, Broadcast, Replay, EndStream, Disconnect
    <2> QED BY <1>3, <2>1
  <1> QED BY <1>4, <1>5, <1>6, <1>7 DEF StreamNext

(* Reservations never exceed the limit, on however many instances            *)
(* (collaboration.ts:147).                                                  *)
THEOREM SlotsBounded == StreamSpec => []SlotsKept
  <1>1. StreamInit => SlotsKept
    <2> SUFFICES ASSUME StreamInit PROVE SlotsKept
      OBVIOUS
    <2>1. Held = {}
      BY DEF StreamInit, Held
    <2> QED BY <2>1, FS_EmptySet, StreamAssumption DEF SlotsKept
  <1> QED BY <1>1, StreamTypeCorrect, SlotsStep, PTL DEF StreamSpec

-----------------------------------------------------------------------------
(* A permit is of this generation or of an earlier one, and one that still    *)
(* counts although the circuit is open was given after the cooldown.         *)
PermitsCount ==
  \A c \in Calls : calls[c].pc # "none" =>
    /\ calls[c].generation <= circuit.generation
    /\ calls[c].generation = circuit.generation /\ circuit.openUntil > 0
         => calls[c].since >= circuit.openUntil

(* A probe that is under way holds the only permit that counts, and its lease *)
(* has not run out.                                                         *)
ProbeHolds ==
  \A c \in Calls : calls[c].pc = "calling" /\ calls[c].probe =>
    /\ calls[c].generation = circuit.generation
    /\ circuit.openUntil > 0
    /\ circuit.probeUntil = calls[c].since + ProbeLease
    /\ tick <= calls[c].since + Deadline
    /\ \A d \in Calls \ {c} : calls[d].pc # "none" => calls[d].generation < circuit.generation

CircuitInv == CircuitTypeOK /\ PermitsCount /\ ProbeHolds

-----------------------------------------------------------------------------
LEMMA CallFields ==
  ASSUME CircuitTypeOK
  PROVE  /\ circuit.failures \in Nat /\ circuit.openUntil \in Nat
         /\ circuit.probeUntil \in Nat /\ circuit.generation \in Nat /\ tick \in Nat
         /\ \A c \in Calls : calls[c] \in CallState /\ calls[c].generation \in Nat
                             /\ calls[c].since \in Nat
  BY DEF CircuitTypeOK, Circuit, CallState

(* The records that the updates below make. *)
LEMMA OpenedRow ==
  ASSUME NEW r \in Circuit, NEW f \in Nat, NEW o \in Nat, NEW p \in Nat, NEW g \in Nat
  PROVE  [r EXCEPT !.failures = f, !.openUntil = o, !.probeUntil = p, !.generation = g] \in Circuit
  BY DEF Circuit

LEMMA ProbeRow ==
  ASSUME NEW r \in Circuit, NEW g \in Nat, NEW p \in Nat
  PROVE  [r EXCEPT !.generation = g, !.probeUntil = p] \in Circuit
  BY DEF Circuit

LEMMA PermitRow ==
  ASSUME NEW r \in CallState, NEW g \in Nat, NEW b \in BOOLEAN, NEW t \in Nat
  PROVE  [r EXCEPT !.pc = "calling", !.generation = g, !.probe = b, !.since = t] \in CallState
  BY DEF CallState

(* What the outcome of a call does to the circuit, by its generation. *)
LEMMA JudgedCases ==
  ASSUME CircuitTypeOK, NEW c \in Calls
  PROVE  /\ Judged(c) \in Circuit
         /\ calls[c].generation # circuit.generation => Judged(c) = circuit
         /\ \/ /\ Judged(c).openUntil = circuit.openUntil
               /\ Judged(c).generation = circuit.generation
            \/ /\ Judged(c).openUntil = 0 /\ calls[c].outcome = "success"
               /\ Judged(c).generation \in {circuit.generation, circuit.generation + 1}
            \/ /\ Judged(c).openUntil > 0
               /\ Judged(c).generation = circuit.generation + 1
  <1> DEFINE call == calls[c]
             shut == [failures |-> 0, openUntil |-> 0, probeUntil |-> 0,
                      generation |-> IF call.probe THEN circuit.generation + 1 ELSE circuit.generation]
  <1>1. /\ circuit \in Circuit /\ tick \in Nat
        /\ call.outcome \in {"success", "failure", "cancelled"}
    BY DEF CircuitTypeOK, CallState
  <1>2. tick + Cooldown \in Nat \ {0}
    BY <1>1, CircuitAssumption
  <1>3. CASE call.generation # circuit.generation
    BY <1>1, <1>3 DEF Judged
  <1>4. CASE call.generation = circuit.generation /\ call.outcome = "cancelled"
    BY <1>1, <1>4 DEF Judged, Circuit
  <1>5. CASE call.generation = circuit.generation /\ call.outcome = "success"
    <2>1. Judged(c) = shut
      BY <1>5 DEF Judged
    <2>2. shut \in Circuit /\ shut.openUntil = 0
          /\ shut.generation \in {circuit.generation, circuit.generation + 1}
      BY <1>1 DEF Circuit
    <2> QED BY <1>5, <2>1, <2>2
  <1>6. CASE call.generation = circuit.generation /\ call.outcome = "failure"
    <2>1. Opened(c) \in Circuit /\ Opened(c).openUntil > 0 /\ Opened(c).generation = circuit.generation + 1
      <3> DEFINE f == circuit.failures + 1
                 o == tick + Cooldown
                 p == 0
                 g == circuit.generation + 1
      <3>1. p \in Nat /\ f \in Nat /\ g \in Nat /\ o \in Nat /\ o > 0
        BY <1>2, CallFields
      <3>2. Opened(c) = [circuit EXCEPT !.failures = f, !.openUntil = o, !.probeUntil = p, !.generation = g]
        BY DEF Opened
      <3>3. Opened(c).openUntil = o /\ Opened(c).generation = g
        BY <1>1, <3>2 DEF Circuit
      <3>4. Opened(c) \in Circuit
        <4> HIDE DEF f, o, p, g
        <4>1. circuit \in Circuit
          BY <1>1
        <4>2. [circuit EXCEPT !.failures = f, !.openUntil = o, !.probeUntil = p, !.generation = g]
                \in Circuit
          BY <3>1, <4>1, OpenedRow, Zenon
        <4> QED BY <3>2, <4>2, Zenon
      <3> QED BY <3>1, <3>3, <3>4
    <2>2. CASE Judged(c) = Opened(c)
      BY <1>6, <2>1, <2>2
    <2>3. CASE Judged(c) = [circuit EXCEPT !.failures = @ + 1]
      BY <1>1, <1>6, <2>3 DEF Circuit
    <2> QED BY <1>6, <2>2, <2>3 DEF Judged
  <1> QED BY <1>1, <1>3, <1>4, <1>5, <1>6

-----------------------------------------------------------------------------
LEMMA CircuitStart == CircuitInit => CircuitInv
  BY DEF CircuitInit, CircuitInv, CircuitTypeOK, Circuit, CallState, NoCall, PermitsCount, ProbeHolds

LEMMA AcquireKeeps ==
  ASSUME CircuitInv, NEW c \in Calls, Acquire(c)
  PROVE  CircuitInv'
  <1> DEFINE probe == circuit.openUntil > 0
             held  == [circuit EXCEPT !.generation = @ + 1, !.probeUntil = tick + ProbeLease]
             next  == IF probe THEN held ELSE circuit
             call  == [NoCall EXCEPT !.pc = "calling", !.generation = next.generation,
                                     !.probe = probe, !.since = tick]
  <1>1. /\ calls[c].pc = "none" /\ tick' = tick
        /\ circuit.openUntil <= tick /\ circuit.probeUntil <= tick
        /\ circuit' = next /\ calls' = [calls EXCEPT ![c] = call]
    BY DEF Acquire, Admits
  <1>2. CircuitTypeOK /\ circuit \in Circuit /\ calls \in [Calls -> CallState]
    BY DEF CircuitInv, CircuitTypeOK
  <1>3. tick + ProbeLease \in Nat /\ ProbeLease \in Nat /\ Deadline \in Nat /\ Deadline < ProbeLease
    BY <1>2, CircuitAssumption DEF CircuitTypeOK
  <1>4. /\ held \in Circuit /\ held.generation = circuit.generation + 1
        /\ held.openUntil = circuit.openUntil /\ held.probeUntil = tick + ProbeLease
    <2> DEFINE g == circuit.generation + 1
               p == tick + ProbeLease
    <2>1. g \in Nat /\ p \in Nat
      BY <1>2, <1>3, CallFields
    <2>2. held = [circuit EXCEPT !.generation = g, !.probeUntil = p]
      OBVIOUS
    <2>3. held.generation = g /\ held.openUntil = circuit.openUntil /\ held.probeUntil = p
      BY <1>2, <2>2 DEF Circuit
    <2>4. held \in Circuit
      <3> HIDE DEF g, p, held
      <3> QED BY <1>2, <2>1, <2>2, ProbeRow
    <2> QED BY <2>3, <2>4
  <1>5. next \in Circuit
    BY <1>2, <1>4
  <1>6. /\ call.pc = "calling" /\ call.generation = next.generation /\ call.since = tick
        /\ call.probe = probe /\ call.outcome = "failure"
    BY DEF NoCall
  <1>7. call \in CallState
    <2>1. next.generation \in Nat /\ tick \in Nat
      BY <1>2, <1>5 DEF Circuit, CircuitTypeOK
    <2>2. NoCall \in CallState
      BY DEF CallState, NoCall
    <2>3. probe \in BOOLEAN
      OBVIOUS
    <2> HIDE DEF next, probe
    <2> QED BY <2>1, <2>2, <2>3, PermitRow
  <1> HIDE DEF held, call
  <1>8. CircuitTypeOK'
    BY <1>1, <1>2, <1>5, <1>7 DEF CircuitTypeOK
  (* No probe is under way, its lease would keep this call out. *)
  <1>9. \A d \in Calls : ~(calls[d].pc = "calling" /\ calls[d].probe)
    BY <1>1, <1>2, <1>3, CallFields DEF CircuitInv, ProbeHolds
  <1>10. calls'[c] = call /\ \A d \in Calls \ {c} : calls'[d] = calls[d]
    BY <1>1, <1>2
  <1>11. \A d \in Calls : calls[d].pc # "none" => calls[d].generation <= circuit.generation
    BY DEF CircuitInv, PermitsCount
  <1>12. CASE probe
    <2>1. circuit' = held
      BY <1>1, <1>12
    <2>2. PermitsCount'
      BY <1>1, <1>2, <1>4, <1>6, <1>10, <1>11, <1>12, <2>1, CallFields DEF PermitsCount
    <2>3. ProbeHolds'
      BY <1>1, <1>2, <1>3, <1>4, <1>6, <1>9, <1>10, <1>11, <1>12, <2>1, CallFields DEF ProbeHolds
    <2> QED BY <1>8, <2>2, <2>3 DEF CircuitInv
  <1>13. CASE ~probe
    <2>1. circuit' = circuit
      BY <1>1, <1>13
    <2>2. PermitsCount'
      BY <1>2, <1>6, <1>10, <1>11, <1>13, <2>1, CallFields DEF PermitsCount
    <2>3. ProbeHolds'
      BY <1>6, <1>9, <1>10, <1>13 DEF ProbeHolds
    <2> QED BY <1>8, <2>2, <2>3 DEF CircuitInv
  <1> QED BY <1>12, <1>13

(* A call that ends or is lost keeps its permit or gives it up. *)
LEMMA CallEndsKeeps ==
  ASSUME CircuitInv, NEW c \in Calls, NEW o \in {"success", "failure", "cancelled"},
         CallEnds(c, o) \/ CallLost(c)
  PROVE  CircuitInv'
  <1> DEFINE ended == [calls[c] EXCEPT !.pc = "ended", !.outcome = o]
  <1>1. /\ CircuitTypeOK /\ calls \in [Calls -> CallState] /\ calls[c] \in CallState
        /\ circuit' = circuit /\ tick' = tick
    BY DEF CircuitInv, CircuitTypeOK, CallEnds, CallLost
  <1>2. PICK r \in CallState :
          /\ calls' = [calls EXCEPT ![c] = r]
          /\ r.pc # "calling"
          /\ r.pc # "none" => /\ calls[c].pc # "none" /\ r.generation = calls[c].generation
                              /\ r.since = calls[c].since
    <2>1. CASE CallLost(c)
      <3>1. NoCall \in CallState /\ NoCall.pc = "none"
        BY DEF NoCall, CallState
      <3> QED BY <2>1, <3>1 DEF CallLost
    <2>2. CASE CallEnds(c, o)
      <3>1. ended \in CallState /\ ended.pc = "ended" /\ ended.generation = calls[c].generation
            /\ ended.since = calls[c].since
        BY <1>1 DEF CallState
      <3>2. calls' = [calls EXCEPT ![c] = ended] /\ calls[c].pc # "none"
        BY <1>1, <2>2 DEF CallEnds
      <3> QED BY <3>1, <3>2
    <2> QED BY <2>1, <2>2
  <1>3. calls'[c] = r /\ \A d \in Calls \ {c} : calls'[d] = calls[d]
    BY <1>1, <1>2
  <1>4. CircuitTypeOK'
    BY <1>1, <1>2 DEF CircuitTypeOK
  <1>5. PermitsCount'
    BY <1>1, <1>2, <1>3 DEF CircuitInv, PermitsCount
  <1>6. ProbeHolds'
    BY <1>1, <1>2, <1>3 DEF CircuitInv, ProbeHolds
  <1> QED BY <1>4, <1>5, <1>6 DEF CircuitInv

LEMMA CompleteKeeps ==
  ASSUME CircuitInv, NEW c \in Calls, Complete(c)
  PROVE  CircuitInv'
  <1>1. /\ CircuitTypeOK /\ calls \in [Calls -> CallState]
        /\ circuit' = Judged(c) /\ tick' = tick /\ calls[c].pc = "ended"
        /\ calls' = [calls EXCEPT ![c] = NoCall]
    BY DEF CircuitInv, CircuitTypeOK, Complete
  <1>2. NoCall \in CallState /\ NoCall.pc = "none"
    BY DEF NoCall, CallState
  <1>3. calls'[c] = NoCall /\ \A d \in Calls \ {c} : calls'[d] = calls[d]
    BY <1>1
  <1>4. CircuitTypeOK'
    BY <1>1, <1>2, JudgedCases DEF CircuitTypeOK
  <1>5. PermitsCount'
    BY <1>1, <1>2, <1>3, JudgedCases, CallFields DEF CircuitInv, PermitsCount
  (* A probe under way is another call, so this one's permit is out of date. *)
  <1>6. ProbeHolds'
    <2> SUFFICES ASSUME NEW d \in Calls, calls'[d].pc = "calling", calls'[d].probe
                 PROVE  ProbeHolds!(d)!2'
      BY DEF ProbeHolds
    <2>1. d # c /\ calls'[d] = calls[d]
      BY <1>2, <1>3
    <2>2. calls[c].generation < circuit.generation
      BY <1>1, <2>1 DEF CircuitInv, ProbeHolds
    <2>3. circuit' = circuit
      BY <1>1, <2>2, CallFields, JudgedCases
    <2> QED BY <1>1, <1>2, <1>3, <2>1, <2>3 DEF CircuitInv, ProbeHolds
  <1> QED BY <1>4, <1>5, <1>6 DEF CircuitInv

LEMMA TickKeeps ==
  ASSUME CircuitInv, TickPasses
  PROVE  CircuitInv'
  <1>1. /\ CircuitTypeOK /\ circuit' = circuit /\ calls' = calls /\ tick' = tick + 1
        /\ \A c \in Calls : calls[c].pc = "calling" => tick < calls[c].since + Deadline
    BY DEF CircuitInv, TickPasses
  <1>2. CircuitTypeOK' /\ PermitsCount'
    BY <1>1 DEF CircuitInv, CircuitTypeOK, PermitsCount
  <1>3. ProbeHolds'
    BY <1>1, CallFields, CircuitAssumption DEF CircuitInv, ProbeHolds
  <1> QED BY <1>2, <1>3 DEF CircuitInv

LEMMA CircuitStep == CircuitInv /\ [CircuitNext]_circuitVars => CircuitInv'
  <1> SUFFICES ASSUME CircuitInv, [CircuitNext]_circuitVars
               PROVE  CircuitInv'
    OBVIOUS
  <1>1. CASE UNCHANGED circuitVars
    BY <1>1 DEF circuitVars, CircuitInv, CircuitTypeOK, PermitsCount, ProbeHolds
  <1>2. ASSUME NEW c \in Calls, Acquire(c)
        PROVE  CircuitInv'
    BY <1>2, AcquireKeeps
  <1>3. ASSUME NEW c \in Calls, Complete(c)
        PROVE  CircuitInv'
    BY <1>3, CompleteKeeps
  <1>4. ASSUME NEW c \in Calls, NEW o \in {"success", "failure", "cancelled"},
               CallEnds(c, o) \/ CallLost(c)
        PROVE  CircuitInv'
    BY <1>4, CallEndsKeeps
  <1>5. CASE TickPasses
    BY <1>5, TickKeeps
  <1> QED BY <1>1, <1>2, <1>3, <1>4, <1>5 DEF CircuitNext

(* The row of the circuit and the calls keep the shape the code gives them. *)
THEOREM CircuitTypeCorrect == CircuitSpec => []CircuitTypeOK
  <1>1. CircuitInv => CircuitTypeOK
    BY DEF CircuitInv
  <1> QED BY <1>1, CircuitStart, CircuitStep, PTL DEF CircuitSpec

(* At most one probe is under way, whatever became of the earlier ones: the  *)
(* lease of a probe outlives the call (runtimeResilience.ts:38).             *)
THEOREM OneProbe == CircuitSpec => []ProbesApart
  <1>1. CircuitInv => ProbesApart
    <2> SUFFICES ASSUME CircuitInv
                 PROVE  Cardinality({c \in Calls : calls[c].pc = "calling" /\ calls[c].probe}) <= 1
      BY DEF ProbesApart
    <2> DEFINE P == {c \in Calls : calls[c].pc = "calling" /\ calls[c].probe}
    <2>1. CASE P = {}
      BY <2>1, FS_EmptySet
    <2>2. ASSUME NEW c \in P
          PROVE  Cardinality(P) <= 1
      <3>1. \A d \in P : d = c
        BY CallFields DEF CircuitInv, ProbeHolds
      <3>2. P = {c}
        BY <3>1
      <3> HIDE DEF P
      <3> QED BY <3>2, FS_Singleton
    <2> QED BY <2>1, <2>2
  <1> QED BY <1>1, CircuitStart, CircuitStep, PTL DEF CircuitSpec

(* The circuit closes only on the word of a call begun after its cooldown. *)
THEOREM ClosedByRecovery == CircuitSpec => RecoveryProven
  <1>1. CircuitInv /\ [CircuitNext]_circuitVars =>
          [circuit.openUntil > 0 /\ circuit'.openUntil = 0 =>
             \E c \in Calls : /\ calls[c].pc = "ended" /\ calls'[c].pc = "none"
                              /\ calls[c].outcome = "success"
                              /\ calls[c].since >= circuit.openUntil]_circuitVars
    <2> SUFFICES ASSUME CircuitInv, CircuitNext, circuit.openUntil > 0, circuit'.openUntil = 0
                 PROVE  \E c \in Calls : /\ calls[c].pc = "ended" /\ calls'[c].pc = "none"
                                         /\ calls[c].outcome = "success"
                                         /\ calls[c].since >= circuit.openUntil
      BY DEF circuitVars
    <2>1. CircuitTypeOK
      BY DEF CircuitInv
    <2>2. ASSUME NEW c \in Calls, Acquire(c)
          PROVE  FALSE
      <3>1. circuit'.openUntil = circuit.openUntil
        BY <2>1, <2>2 DEF Acquire, CircuitTypeOK, Circuit
      <3> QED BY <3>1, <2>1, CallFields
    <2>3. ASSUME NEW c \in Calls, Complete(c)
          PROVE  /\ calls[c].pc = "ended" /\ calls'[c].pc = "none"
                 /\ calls[c].outcome = "success" /\ calls[c].since >= circuit.openUntil
      <3>1. calls[c].pc = "ended" /\ calls'[c].pc = "none" /\ circuit' = Judged(c)
        BY <2>1, <2>3 DEF Complete, CircuitTypeOK, NoCall
      <3>2. calls[c].generation = circuit.generation /\ calls[c].outcome = "success"
        BY <2>1, <3>1, CallFields, JudgedCases
      <3>3. calls[c].since >= circuit.openUntil
        BY <3>1, <3>2 DEF CircuitInv, PermitsCount
      <3> QED BY <3>1, <3>2, <3>3
    <2>4. ASSUME NEW c \in Calls, \/ CallLost(c)
                                  \/ \E o \in {"success", "failure", "cancelled"} : CallEnds(c, o)
          PROVE  FALSE
      BY <2>1, <2>4, CallFields DEF CallLost, CallEnds
    <2>5. CASE TickPasses
      BY <2>1, <2>5, CallFields DEF TickPasses
    <2> QED BY <2>2, <2>3, <2>4, <2>5 DEF CircuitNext
  <1> QED BY <1>1, CircuitStart, CircuitStep, PTL DEF CircuitSpec, RecoveryProven

-----------------------------------------------------------------------------
(* The workspace. *)

(* Which rows of a page are typed, as one fact about the function. *)
LEMMA PanelTyped ==
  ASSUME WorkspaceTypeOK, NEW p \in Pages, NEW row \in Panel
  PROVE  [panel EXCEPT ![p] = row] \in [Pages -> Panel]
  BY DEF WorkspaceTypeOK

LEMMA StoreTyped ==
  ASSUME WorkspaceTypeOK, NEW a \in Artifacts, NEW v \in {"unused", "stored", "deleted"}
  PROVE  [store EXCEPT ![a] = v] \in [Artifacts -> {"unused", "stored", "deleted"}]
  BY DEF WorkspaceTypeOK

LEMMA TaskTyped ==
  ASSUME WorkspaceTypeOK, NEW t \in Tasks, NEW row \in Task
  PROVE  [task EXCEPT ![t] = row] \in [Tasks -> Task]
  BY DEF WorkspaceTypeOK

(* A page that only reads, edits or cleans up. *)
PageStep ==
  /\ panel' \in [Pages -> Panel]
  /\ UNCHANGED <<head, history, store, task, puts>>

LEMMA PageStepKeepsType ==
  ASSUME WorkspaceTypeOK, PageStep
  PROVE  WorkspaceTypeOK'
  BY DEF WorkspaceTypeOK, PageStep

LEMMA PagesStep ==
  ASSUME WorkspaceTypeOK, NEW p \in Pages,
         \/ Reload(p) \/ Refresh(p) \/ BeginSave(p) \/ Saved(p) \/ SaveFails(p) \/ CleanedUp(p)
         \/ \E r \in DOMAIN history : Restore(p, r)
         \/ \E a \in Artifacts : Detach(p, a)
  PROVE  PageStep
<1>0. panel[p] \in Panel
  BY DEF WorkspaceTypeOK
<1>1. CASE Reload(p)
  <2>1. RefsOf(head) \in SUBSET Artifacts
    BY DEF RefsOf, WorkspaceTypeOK, Snapshot
  <2>2. [pc |-> "idle", base |-> head, refs |-> RefsOf(head),
         payload |-> NoArtifact, uploaded |-> {}] \in Panel
    BY <2>1 DEF Panel, WorkspaceTypeOK
  <2> QED BY <1>1, <2>2, PanelTyped DEF Reload, PageStep
<1>2. CASE Refresh(p)
  <2>1. [panel[p] EXCEPT !.base = head] \in Panel
    BY <1>0 DEF Panel, WorkspaceTypeOK
  <2>2. panel' = [panel EXCEPT ![p] = [panel[p] EXCEPT !.base = head]]
    BY <1>2 DEF Refresh, WorkspaceTypeOK
  <2> QED BY <1>2, <2>1, <2>2, PanelTyped DEF Refresh, PageStep
<1>3. CASE BeginSave(p)
  <2>1. [panel[p] EXCEPT !.pc = "uploading"] \in Panel
    BY <1>0 DEF Panel
  <2>2. panel' = [panel EXCEPT ![p] = [panel[p] EXCEPT !.pc = "uploading"]]
    BY <1>3 DEF BeginSave, WorkspaceTypeOK
  <2> QED BY <1>3, <2>1, <2>2, PanelTyped DEF BeginSave, PageStep
<1>4. CASE Saved(p)
  <2> DEFINE row == [pc |-> "idle", base |-> panel[p].base + 1,
                     refs |-> panel[p].refs \cup (panel[p].uploaded \ {panel[p].payload}),
                     payload |-> NoArtifact, uploaded |-> {}]
  <2>1. row \in Panel
    BY <1>0 DEF Panel
  <2>2. panel' = [panel EXCEPT ![p] = row] /\ UNCHANGED <<head, history, store, task, puts>>
    BY <1>4 DEF Saved, WorkspaceTypeOK
  <2> HIDE DEF row
  <2> QED BY <2>1, <2>2, PanelTyped DEF PageStep
<1>5. CASE SaveFails(p)
  <2>1. [panel[p] EXCEPT !.pc = "cleaning"] \in Panel
    BY <1>0 DEF Panel
  <2>2. panel' = [panel EXCEPT ![p] = [panel[p] EXCEPT !.pc = "cleaning"]]
    BY <1>5 DEF SaveFails, WorkspaceTypeOK
  <2> QED BY <1>5, <2>1, <2>2, PanelTyped DEF SaveFails, PageStep
<1>6. CASE CleanedUp(p)
  <2>1. [panel[p] EXCEPT !.pc = "idle", !.payload = NoArtifact] \in Panel
    BY <1>0 DEF Panel
  <2>2. panel' = [panel EXCEPT ![p] = [panel[p] EXCEPT !.pc = "idle", !.payload = NoArtifact]]
    BY <1>6 DEF CleanedUp, WorkspaceTypeOK
  <2> QED BY <1>6, <2>1, <2>2, PanelTyped DEF CleanedUp, PageStep
<1>7. ASSUME NEW r \in DOMAIN history, Restore(p, r) PROVE PageStep
  <2>1. [panel[p] EXCEPT !.refs = history[r].refs] \in Panel
    BY <1>0 DEF Panel, WorkspaceTypeOK, Snapshot
  <2>2. panel' = [panel EXCEPT ![p] = [panel[p] EXCEPT !.refs = history[r].refs]]
    BY <1>7 DEF Restore, WorkspaceTypeOK
  <2> QED BY <1>7, <2>1, <2>2, PanelTyped DEF Restore, PageStep
<1>8. ASSUME NEW a \in Artifacts, Detach(p, a) PROVE PageStep
  <2>1. [panel[p] EXCEPT !.refs = @ \ {a}] \in Panel
    BY <1>0 DEF Panel
  <2>2. panel' = [panel EXCEPT ![p] = [panel[p] EXCEPT !.refs = @ \ {a}]]
    BY <1>8 DEF Detach, WorkspaceTypeOK
  <2> QED BY <1>8, <2>1, <2>2, PanelTyped DEF Detach, PageStep
<1> QED
  BY <1>1, <1>2, <1>3, <1>4, <1>5, <1>6, <1>7, <1>8

-----------------------------------------------------------------------------
(* As long as nothing in use is deleted, what the history shows stays whole. *)
LEMMA StoreKeepsWhole ==
  ASSUME HistoryWhole, UNCHANGED <<head, history, task>>,
         \A a \in Stored : Referenced(a) => a \in Stored'
  PROVE  HistoryWhole'
<1>1. \A r \in DOMAIN history : Uses(history[r]) \subseteq Stored'
  <2> SUFFICES ASSUME NEW r \in DOMAIN history, NEW a \in Uses(history[r]) PROVE a \in Stored'
    OBVIOUS
  <2>1. a \in Stored
    BY DEF HistoryWhole
  <2>2. Referenced(a)
    BY DEF Referenced
  <2> QED BY <2>1, <2>2
<1>2. \A t \in Tasks : task[t].state # "none" =>
        {task[t].input} \cup task[t].outputs \subseteq Stored'
  <2> SUFFICES ASSUME NEW t \in Tasks, task[t].state # "none",
                      NEW a \in {task[t].input} \cup task[t].outputs
               PROVE  a \in Stored'
    OBVIOUS
  <2>1. a \in Stored
    BY DEF HistoryWhole
  <2>2. Referenced(a)
    BY DEF Referenced
  <2> QED BY <2>1, <2>2
<1>3. (IF head = 0 THEN DOMAIN history = {}
                   ELSE head \in DOMAIN history /\ \A r \in DOMAIN history : r <= head)'
  BY DEF HistoryWhole
<1>4. (\A r \in DOMAIN history : Uses(history[r]) \subseteq Stored)'
  BY <1>1 DEF Uses
<1>5. (\A t \in Tasks : task[t].state # "none" =>
       /\ {task[t].input} \cup task[t].outputs \subseteq Stored
       /\ task[t].revision # 0 =>
            /\ task[t].revision \in DOMAIN history
            /\ task[t].input \in Uses(history[task[t].revision]))'
  BY <1>2 DEF HistoryWhole, Uses
<1> QED
  BY <1>3, <1>4, <1>5 DEF HistoryWhole

LEMMA PageStepKeepsWhole ==
  ASSUME HistoryWhole, PageStep
  PROVE  HistoryWhole'
  BY StoreKeepsWhole DEF PageStep, Stored

(* An artifact is stored, or deleted unless something refers to it. *)
LEMMA StoringIsSafe ==
  ASSUME WorkspaceTypeOK, NEW a \in Artifacts, Creates(a),
         store' = [store EXCEPT ![a] = "stored"]
  PROVE  /\ store' \in [Artifacts -> {"unused", "stored", "deleted"}]
         /\ \A x \in Stored : x \in Stored'
         /\ a \in Stored'
<1>1. store' \in [Artifacts -> {"unused", "stored", "deleted"}]
  BY StoreTyped
<1>2. \A x \in Stored : x \in Stored'
  BY DEF Stored, WorkspaceTypeOK
<1>3. a \in Stored'
  BY DEF Stored, WorkspaceTypeOK
<1> QED
  BY <1>1, <1>2, <1>3

LEMMA DeletingIsSafe ==
  ASSUME WorkspaceTypeOK, NEW a \in Artifacts, store' \in {store, Deleted(a)}
  PROVE  /\ store' \in [Artifacts -> {"unused", "stored", "deleted"}]
         /\ \A x \in Stored : Referenced(x) => x \in Stored'
<1>1. store' \in [Artifacts -> {"unused", "stored", "deleted"}]
  BY StoreTyped DEF Deleted, WorkspaceTypeOK
<1>2. ASSUME NEW x \in Stored, Referenced(x) PROVE x \in Stored'
  <2>1. CASE store' = store
    BY <2>1 DEF Stored
  <2>2. CASE x # a
    <3>1. store'[x] = store[x]
      BY <2>2 DEF Deleted, Stored, WorkspaceTypeOK
    <3> QED BY <3>1 DEF Stored
  <2>3. CASE x = a
    <3>1. Deleted(a) = store
      BY <2>3, <1>2 DEF Deleted
    <3> QED BY <3>1, <2>1
  <2> QED BY <2>1, <2>2, <2>3
<1> QED
  BY <1>1, <1>2

-----------------------------------------------------------------------------
LEMMA UploadsKeep ==
  ASSUME WorkspaceTypeOK, HistoryWhole, NEW p \in Pages, NEW a \in Artifacts,
         Upload(p, a) \/ UploadInputs(p, a) \/ UploadLost(p, a)
  PROVE  WorkspaceTypeOK' /\ HistoryWhole'
<1>0. panel[p] \in Panel
  BY DEF WorkspaceTypeOK
<1>1. Creates(a) /\ store' = [store EXCEPT ![a] = "stored"] /\ UNCHANGED <<head, history, task>>
  BY DEF Upload, UploadInputs, UploadLost
<1>2. HistoryWhole'
  BY <1>1, StoringIsSafe, StoreKeepsWhole
<1>3. panel' \in [Pages -> Panel]
  <2>1. CASE Upload(p, a)
    <3>1. [panel[p] EXCEPT !.uploaded = @ \cup {a}] \in Panel
      BY <1>0 DEF Panel
    <3>2. panel' = [panel EXCEPT ![p] = [panel[p] EXCEPT !.uploaded = @ \cup {a}]]
      BY <2>1 DEF Upload, WorkspaceTypeOK
    <3> QED BY <3>1, <3>2, PanelTyped
  <2>2. CASE UploadInputs(p, a)
    <3> DEFINE row == [panel[p] EXCEPT !.pc = "committing", !.payload = a,
                                       !.uploaded = panel[p].uploaded \cup {a}]
    <3>1. row \in Panel
      <4>1. panel[p].uploaded \cup {a} \in SUBSET Artifacts
        BY <1>0 DEF Panel
      <4> QED BY <1>0, <4>1 DEF Panel
    <3>2. panel' = [panel EXCEPT ![p] = row]
      BY <2>2 DEF UploadInputs, WorkspaceTypeOK
    <3> HIDE DEF row
    <3> QED BY <3>1, <3>2, PanelTyped
  <2>3. CASE UploadLost(p, a)
    <3>1. [panel[p] EXCEPT !.pc = "cleaning"] \in Panel
      BY <1>0 DEF Panel
    <3>2. panel' = [panel EXCEPT ![p] = [panel[p] EXCEPT !.pc = "cleaning"]]
      BY <2>3 DEF UploadLost, WorkspaceTypeOK
    <3> QED BY <3>1, <3>2, PanelTyped
  <2> QED BY <2>1, <2>2, <2>3
<1>4. puts' \subseteq Put
  <2>1. CASE UploadInputs(p, a)
    <3>1. [page |-> p, base |-> panel[p].base, payload |-> a,
           refs |-> panel[p].refs \cup panel[p].uploaded] \in Put
      BY <1>0 DEF Panel, Put
    <3> QED BY <2>1, <3>1 DEF UploadInputs, WorkspaceTypeOK
  <2> QED BY <2>1 DEF Upload, UploadLost, WorkspaceTypeOK
<1>5. store' \in [Artifacts -> {"unused", "stored", "deleted"}]
  BY <1>1, StoringIsSafe
<1>6. WorkspaceTypeOK'
  BY <1>1, <1>3, <1>4, <1>5 DEF WorkspaceTypeOK
<1> QED
  BY <1>2, <1>6

LEMMA DeletionsKeep ==
  ASSUME WorkspaceTypeOK, HistoryWhole, NEW a \in Artifacts,
         RemoveArtifact(a) \/ \E p \in Pages : CleanUp(p, a)
  PROVE  WorkspaceTypeOK' /\ HistoryWhole'
<1>1. store' \in {store, Deleted(a)} /\ UNCHANGED <<head, history, task, puts>>
  BY DEF RemoveArtifact, CleanUp
<1>2. HistoryWhole'
  BY <1>1, DeletingIsSafe, StoreKeepsWhole
<1>3. panel' \in [Pages -> Panel]
  <2>1. CASE RemoveArtifact(a)
    BY <2>1 DEF RemoveArtifact, WorkspaceTypeOK
  <2>2. ASSUME NEW p \in Pages, CleanUp(p, a) PROVE panel' \in [Pages -> Panel]
    <3>0. panel[p] \in Panel
      BY DEF WorkspaceTypeOK
    <3>1. [panel[p] EXCEPT !.uploaded = @ \ {a}] \in Panel
      BY <3>0 DEF Panel
    <3>2. panel' = [panel EXCEPT ![p] = [panel[p] EXCEPT !.uploaded = @ \ {a}]]
      BY <2>2 DEF CleanUp, WorkspaceTypeOK
    <3> QED BY <3>1, <3>2, PanelTyped
  <2> QED BY <2>1, <2>2
<1>4. store' \in [Artifacts -> {"unused", "stored", "deleted"}]
  BY <1>1, DeletingIsSafe
<1> QED
  BY <1>1, <1>2, <1>3, <1>4 DEF WorkspaceTypeOK

LEMMA ServePutKeeps ==
  ASSUME WorkspaceTypeOK, HistoryWhole, NEW put \in puts, ServePut(put)
  PROVE  WorkspaceTypeOK' /\ HistoryWhole'
<1>0. /\ put \in Put /\ put.page \in Pages /\ put.payload \in Artifacts
      /\ put.refs \in SUBSET Artifacts /\ panel[put.page] \in Panel
  BY DEF WorkspaceTypeOK, Put
<1>1. /\ DOMAIN history' = DOMAIN history \cup {head + 1}
      /\ history'[head + 1] = [payload |-> put.payload, refs |-> put.refs]
      /\ \A r \in DOMAIN history : r # head + 1 => history'[r] = history[r]
      /\ head' = head + 1 /\ UNCHANGED <<store, task>>
      /\ Uses(put) \subseteq Stored
  BY DEF ServePut, Commits
<1>2. /\ head \in Nat
      /\ \A r \in DOMAIN history : r \in Nat \ {0} /\ r <= head
  BY DEF WorkspaceTypeOK, HistoryWhole
<1>3. \A r \in DOMAIN history : history'[r] = history[r]
  BY <1>1, <1>2
<1>4. WorkspaceTypeOK'
  <2>1. head' \in Nat /\ DOMAIN history' \subseteq Nat \ {0}
    BY <1>1, <1>2
  <2>2. \A r \in DOMAIN history' : history'[r] \in Snapshot
    BY <1>0, <1>1, <1>3 DEF WorkspaceTypeOK, Snapshot
  <2>3. panel' \in [Pages -> Panel]
    <3>1. [panel[put.page] EXCEPT !.pc = "saved"] \in Panel
      BY <1>0 DEF Panel
    <3>2. \/ panel' = panel
          \/ panel' = [panel EXCEPT ![put.page] = [panel[put.page] EXCEPT !.pc = "saved"]]
      BY <1>0 DEF ServePut, WorkspaceTypeOK
    <3> QED BY <1>0, <3>1, <3>2, PanelTyped DEF WorkspaceTypeOK
  <2>4. puts' \subseteq Put
    BY DEF ServePut, WorkspaceTypeOK
  <2> QED BY <1>1, <2>1, <2>2, <2>3, <2>4 DEF WorkspaceTypeOK
<1>5. HistoryWhole'
  <2>1. head' # 0 /\ head' \in DOMAIN history' /\ \A r \in DOMAIN history' : r <= head'
    BY <1>1, <1>2
  <2>2. ASSUME NEW r \in DOMAIN history' PROVE Uses(history'[r]) \subseteq Stored
    <3>1. CASE r = head + 1
      <4>1. Uses(history'[r]) = {put.payload} \cup put.refs
        BY <1>1, <3>1 DEF Uses
      <4> QED BY <4>1, <1>1 DEF Uses
    <3>2. CASE r \in DOMAIN history
      BY <1>3, <3>2 DEF HistoryWhole
    <3> QED BY <1>1, <3>1, <3>2
  <2>3. Stored' = Stored
    BY <1>1 DEF Stored
  <2>4. ASSUME NEW t \in Tasks, task[t].state # "none"
        PROVE  /\ {task[t].input} \cup task[t].outputs \subseteq Stored
               /\ task[t].revision # 0 =>
                    /\ task[t].revision \in DOMAIN history'
                    /\ task[t].input \in Uses(history'[task[t].revision])
    BY <1>1, <1>3, <2>4 DEF HistoryWhole
  <2>5. (\A r \in DOMAIN history : Uses(history[r]) \subseteq Stored)'
    BY <2>2, <2>3 DEF Uses
  <2>6. (\A t \in Tasks : task[t].state # "none" =>
       /\ {task[t].input} \cup task[t].outputs \subseteq Stored
       /\ task[t].revision # 0 =>
            /\ task[t].revision \in DOMAIN history
            /\ task[t].input \in Uses(history[task[t].revision]))'
    BY <1>1, <2>3, <2>4 DEF Uses
  <2> QED BY <2>1, <2>5, <2>6 DEF HistoryWhole
<1> QED
  BY <1>4, <1>5

LEMMA RefusePutKeeps ==
  ASSUME WorkspaceTypeOK, HistoryWhole, NEW put \in puts, RefusePut(put)
  PROVE  WorkspaceTypeOK' /\ HistoryWhole'
<1>0. put.page \in Pages /\ panel[put.page] \in Panel
  BY DEF WorkspaceTypeOK, Put
<1>1. panel' \in [Pages -> Panel]
  <2>1. [panel[put.page] EXCEPT !.pc = "cleaning"] \in Panel
    BY <1>0 DEF Panel
  <2>2. \/ panel' = panel
        \/ panel' = [panel EXCEPT ![put.page] = [panel[put.page] EXCEPT !.pc = "cleaning"]]
    BY <1>0 DEF RefusePut, WorkspaceTypeOK
  <2> QED BY <1>0, <2>1, <2>2, PanelTyped DEF WorkspaceTypeOK
<1>2. WorkspaceTypeOK'
  BY <1>1 DEF RefusePut, WorkspaceTypeOK
<1>3. HistoryWhole'
  BY StoreKeepsWhole DEF RefusePut, Stored
<1> QED
  BY <1>2, <1>3

LEMMA PruneKeeps ==
  ASSUME WorkspaceTypeOK, HistoryWhole, NEW p \in Pages, NEW before \in DOMAIN history,
         Prune(p, before)
  PROVE  WorkspaceTypeOK' /\ HistoryWhole'
<1>0. panel[p] \in Panel
  BY DEF WorkspaceTypeOK
<1>1. /\ DOMAIN history' = {x \in DOMAIN history : x >= before \/ ~Prunable(x)}
      /\ \A r \in DOMAIN history' : history'[r] = history[r]
      /\ UNCHANGED <<head, store, task, puts>>
  BY DEF Prune
<1>2. WorkspaceTypeOK'
  <2>1. [panel[p] EXCEPT !.base = head] \in Panel
    BY <1>0 DEF Panel, WorkspaceTypeOK
  <2>2. panel' = [panel EXCEPT ![p] = [panel[p] EXCEPT !.base = head]]
    BY DEF Prune, WorkspaceTypeOK
  <2>3. panel' \in [Pages -> Panel]
    BY <2>1, <2>2, PanelTyped
  <2> QED BY <1>1, <2>3 DEF WorkspaceTypeOK
<1>3. HistoryWhole'
  <2>1. IF head = 0 THEN DOMAIN history' = {}
                    ELSE head \in DOMAIN history' /\ \A r \in DOMAIN history' : r <= head
    BY <1>1 DEF HistoryWhole, Prunable
  <2>2. Stored' = Stored
    BY <1>1 DEF Stored
  <2>3. (\A r \in DOMAIN history : Uses(history[r]) \subseteq Stored)'
    BY <1>1, <2>2 DEF HistoryWhole, Uses
  <2>4. ASSUME NEW t \in Tasks, task[t].state # "none"
        PROVE  /\ {task[t].input} \cup task[t].outputs \subseteq Stored
               /\ task[t].revision # 0 =>
                    /\ task[t].revision \in DOMAIN history'
                    /\ task[t].input \in Uses(history'[task[t].revision])
    <3>1. task[t].revision # 0 => task[t].revision \in DOMAIN history'
      <4>1. ~Prunable(task[t].revision)
        BY <2>4 DEF Prunable
      <4> QED BY <1>1, <2>4, <4>1 DEF HistoryWhole
    <3> QED BY <1>1, <2>4, <3>1 DEF HistoryWhole
  <2>5. (\A t \in Tasks : task[t].state # "none" =>
       /\ {task[t].input} \cup task[t].outputs \subseteq Stored
       /\ task[t].revision # 0 =>
            /\ task[t].revision \in DOMAIN history
            /\ task[t].input \in Uses(history[task[t].revision]))'
    BY <1>1, <2>2, <2>4 DEF Uses
  <2> QED BY <1>1, <2>1, <2>3, <2>5 DEF HistoryWhole
<1> QED
  BY <1>2, <1>3

-----------------------------------------------------------------------------
(* A step of a job, whose row becomes `row`. *)
LEMMA RowKeepsWhole ==
  ASSUME WorkspaceTypeOK, HistoryWhole, NEW t \in Tasks, NEW row \in Task,
         task' = [task EXCEPT ![t] = row], UNCHANGED <<head, history>>,
         \A a \in Stored : a \in Stored',
         row.state # "none" =>
           /\ {row.input} \cup row.outputs \subseteq Stored'
           /\ row.revision # 0 => /\ row.revision \in DOMAIN history
                                 /\ row.input \in Uses(history[row.revision])
  PROVE  HistoryWhole'
<1>1. task'[t] = row /\ \A x \in Tasks : x # t => task'[x] = task[x]
  BY DEF WorkspaceTypeOK
<1>2. (IF head = 0 THEN DOMAIN history = {}
                   ELSE head \in DOMAIN history /\ \A r \in DOMAIN history : r <= head)'
  BY DEF HistoryWhole
<1>3. (\A r \in DOMAIN history : Uses(history[r]) \subseteq Stored)'
  BY DEF HistoryWhole, Uses
<1>4. ASSUME NEW x \in Tasks, task'[x].state # "none"
      PROVE  /\ {task'[x].input} \cup task'[x].outputs \subseteq Stored'
             /\ task'[x].revision # 0 =>
                  /\ task'[x].revision \in DOMAIN history
                  /\ task'[x].input \in Uses(history[task'[x].revision])
  <2>1. CASE x = t
    BY <1>1, <1>4, <2>1
  <2>2. CASE x # t
    BY <1>1, <1>4, <2>2 DEF HistoryWhole
  <2> QED BY <2>1, <2>2
<1>5. (\A x \in Tasks : task[x].state # "none" =>
       /\ {task[x].input} \cup task[x].outputs \subseteq Stored
       /\ task[x].revision # 0 =>
            /\ task[x].revision \in DOMAIN history
            /\ task[x].input \in Uses(history[task[x].revision]))'
  BY <1>4 DEF Uses
<1> QED
  BY <1>2, <1>3, <1>5 DEF HistoryWhole

LEMMA JobsKeep ==
  ASSUME WorkspaceTypeOK, HistoryWhole, NEW t \in Tasks,
         \/ Fails(t) \/ DeleteTask(t)
         \/ \E a \in Artifacts : Finish(t, a) \/ Submit(t, a, 0)
         \/ \E a \in Artifacts : \E r \in DOMAIN history : Submit(t, a, r)
  PROVE  WorkspaceTypeOK' /\ HistoryWhole'
<1>0. task[t] \in Task
  BY DEF WorkspaceTypeOK
<1>1. ASSUME NEW row \in Task, task' = [task EXCEPT ![t] = row],
             UNCHANGED <<head, history, panel, puts>>,
             store' \in [Artifacts -> {"unused", "stored", "deleted"}]
      PROVE  WorkspaceTypeOK'
  BY <1>1, TaskTyped DEF WorkspaceTypeOK
<1>2. CASE Fails(t)
  <2> DEFINE row == [task[t] EXCEPT !.state = "over"]
  <2>1. row \in Task /\ row.input = task[t].input /\ row.outputs = task[t].outputs
        /\ row.revision = task[t].revision /\ task[t].state # "none"
    BY <1>0, <1>2 DEF Task, Fails
  <2>2. task' = [task EXCEPT ![t] = row] /\ UNCHANGED <<head, history, store, panel, puts>>
    BY <1>2 DEF Fails, WorkspaceTypeOK
  <2>3. Stored' = Stored
    BY <2>2 DEF Stored
  <2> HIDE DEF row
  <2>4. HistoryWhole'
    BY <2>1, <2>2, <2>3, RowKeepsWhole DEF HistoryWhole
  <2> QED BY <1>1, <2>1, <2>2, <2>4 DEF WorkspaceTypeOK
<1>3. CASE DeleteTask(t)
  <2>1. NoTask \in Task /\ NoTask.state = "none"
    BY DEF Task, NoTask
  <2>2. task' = [task EXCEPT ![t] = NoTask] /\ UNCHANGED <<head, history, store, panel, puts>>
    BY <1>3 DEF DeleteTask
  <2>3. HistoryWhole'
    BY <2>1, <2>2, RowKeepsWhole DEF Stored
  <2> QED BY <1>1, <2>1, <2>2, <2>3 DEF WorkspaceTypeOK
<1>4. ASSUME NEW a \in Artifacts, Finish(t, a) PROVE WorkspaceTypeOK' /\ HistoryWhole'
  <2> DEFINE row == [task[t] EXCEPT !.state = "over", !.outputs = {a}]
  <2>1. row \in Task /\ row.input = task[t].input /\ row.outputs = {a}
        /\ row.revision = task[t].revision /\ task[t].state # "none"
    BY <1>0, <1>4 DEF Task, Finish
  <2>2. task' = [task EXCEPT ![t] = row] /\ UNCHANGED <<head, history, panel, puts>>
    BY <1>4 DEF Finish, WorkspaceTypeOK
  <2>3. /\ store' \in [Artifacts -> {"unused", "stored", "deleted"}]
        /\ \A x \in Stored : x \in Stored'
        /\ a \in Stored'
    BY <1>4, StoringIsSafe DEF Finish
  <2> HIDE DEF row
  <2>4. HistoryWhole'
    BY <2>1, <2>2, <2>3, RowKeepsWhole DEF HistoryWhole
  <2> QED BY <1>1, <2>1, <2>2, <2>3, <2>4
<1>5. ASSUME NEW a \in Artifacts, NEW r \in {0} \cup DOMAIN history, Submit(t, a, r)
      PROVE  WorkspaceTypeOK' /\ HistoryWhole'
  <2> DEFINE row == [state |-> "active", input |-> a, revision |-> r, outputs |-> {}]
  <2>1. row \in Task /\ row.input = a /\ row.outputs = {} /\ row.revision = r
    BY DEF Task, WorkspaceTypeOK
  <2>2. /\ task' = [task EXCEPT ![t] = row] /\ UNCHANGED <<head, history, store, panel, puts>>
        /\ a \in Stored /\ (r # 0 => r \in DOMAIN history /\ a \in Uses(history[r]))
    BY <1>5 DEF Submit
  <2>3. Stored' = Stored
    BY <2>2 DEF Stored
  <2> HIDE DEF row
  <2>4. HistoryWhole'
    BY <2>1, <2>2, <2>3, RowKeepsWhole
  <2> QED BY <1>1, <2>1, <2>2, <2>4 DEF WorkspaceTypeOK
<1> QED
  BY <1>2, <1>3, <1>4, <1>5

-----------------------------------------------------------------------------
LEMMA WorkspaceStep ==
  ASSUME WorkspaceTypeOK, HistoryWhole, [WorkspaceNext]_workspaceVars
  PROVE  WorkspaceTypeOK' /\ HistoryWhole'
<1>1. CASE UNCHANGED workspaceVars
  <2>1. PageStep
    BY <1>1 DEF workspaceVars, PageStep, WorkspaceTypeOK
  <2> QED BY <2>1, PageStepKeepsType, PageStepKeepsWhole
<1>2. ASSUME NEW p \in Pages,
             \/ Reload(p) \/ Refresh(p) \/ BeginSave(p) \/ Saved(p) \/ SaveFails(p) \/ CleanedUp(p)
             \/ \E r \in DOMAIN history : Restore(p, r)
             \/ \E a \in Artifacts : Detach(p, a)
      PROVE  WorkspaceTypeOK' /\ HistoryWhole'
  BY <1>2, PagesStep, PageStepKeepsType, PageStepKeepsWhole
<1>3. ASSUME NEW p \in Pages, NEW r \in DOMAIN history, Prune(p, r)
      PROVE  WorkspaceTypeOK' /\ HistoryWhole'
  BY <1>3, PruneKeeps
<1>4. ASSUME NEW p \in Pages, NEW a \in Artifacts,
             Upload(p, a) \/ UploadInputs(p, a) \/ UploadLost(p, a)
      PROVE  WorkspaceTypeOK' /\ HistoryWhole'
  BY <1>4, UploadsKeep
<1>5. ASSUME NEW a \in Artifacts, RemoveArtifact(a) \/ \E p \in Pages : CleanUp(p, a)
      PROVE  WorkspaceTypeOK' /\ HistoryWhole'
  BY <1>5, DeletionsKeep
<1>6. ASSUME NEW put \in puts, ServePut(put) \/ RefusePut(put)
      PROVE  WorkspaceTypeOK' /\ HistoryWhole'
  BY <1>6, ServePutKeeps, RefusePutKeeps
<1>7. ASSUME NEW t \in Tasks,
             \/ Fails(t) \/ DeleteTask(t)
             \/ \E a \in Artifacts : Finish(t, a) \/ Submit(t, a, 0)
             \/ \E a \in Artifacts : \E r \in DOMAIN history : Submit(t, a, r)
      PROVE  WorkspaceTypeOK' /\ HistoryWhole'
  BY <1>7, JobsKeep
<1> QED
  BY <1>1, <1>2, <1>3, <1>4, <1>5, <1>6, <1>7 DEF WorkspaceNext

(* The rows of the workspaces and the pages are of their types                *)
(* (server/src/workspaces.ts:78, 155).                                      *)
THEOREM WorkspaceTypeCorrect == WorkspaceSpec => []WorkspaceTypeOK
<1>1. WorkspaceInit => WorkspaceTypeOK /\ HistoryWhole
  BY DEF WorkspaceInit, WorkspaceTypeOK, HistoryWhole, Panel, Task, NoTask
<1>2. WorkspaceTypeOK /\ HistoryWhole /\ [WorkspaceNext]_workspaceVars
        => (WorkspaceTypeOK /\ HistoryWhole)'
  BY WorkspaceStep
<1> QED
  BY <1>1, <1>2, PTL DEF WorkspaceSpec

(* Whatever is uploaded, committed late, given up, pruned, computed or        *)
(* removed, by however many pages and jobs: the history a reader is shown is  *)
(* consistent, and all it and the jobs refer to is stored                    *)
(* (server/src/workspaces.ts:149, 162, 305).                                *)
THEOREM HistoryIsWhole == WorkspaceSpec => []HistoryWhole
<1>1. WorkspaceInit => WorkspaceTypeOK /\ HistoryWhole
  BY DEF WorkspaceInit, WorkspaceTypeOK, HistoryWhole, Panel, Task, NoTask
<1>2. WorkspaceTypeOK /\ HistoryWhole /\ [WorkspaceNext]_workspaceVars
        => (WorkspaceTypeOK /\ HistoryWhole)'
  BY WorkspaceStep
<1> QED
  BY <1>1, <1>2, PTL DEF WorkspaceSpec

-----------------------------------------------------------------------------
(* The account. *)

LEMMA Settings ==
  /\ GuessLimit \in Nat /\ GuessLimit >= 2
  /\ AttemptWindow \in Nat /\ LockTime \in Nat /\ AttemptWindow <= LockTime
  BY AccountAssumption

(* The changes of the account's row keep its type. *)
LEMMA CodeFieldsTyped ==
  ASSUME NEW a \in Account, NEW m \in Mails \cup {NoMail}, NEW n \in Nat, NEW k \in Nat
  PROVE  [a EXCEPT !.code = m, !.codeAt = n, !.codeTries = k] \in Account
  BY DEF Account

LEMMA NoCodeTyped ==
  ASSUME NEW a \in Account
  PROVE  NoCode(a) \in Account
  BY CodeFieldsTyped DEF NoCode

LEMMA TriesTyped ==
  ASSUME NEW a \in Account
  PROVE  [a EXCEPT !.codeTries = @ + 1] \in Account
  BY DEF Account

LEMMA MissesTyped ==
  ASSUME NEW a \in Account, NEW n \in Nat, NEW k \in Nat
  PROVE  [a EXCEPT !.misses = n, !.closedUntil = k] \in Account
  BY DEF Account

LEMMA VerifiedTyped ==
  ASSUME NEW a \in Account
  PROVE  [a EXCEPT !.verified = TRUE] \in Account
  BY DEF Account

LEMMA VerifiedTyped2 ==
  ASSUME NEW a \in Account
  PROVE  [a EXCEPT !.verified = TRUE, !.misses = 0, !.closedUntil = 0] \in Account
  BY DEF Account

LEMMA VersionTyped ==
  ASSUME NEW a \in Account
  PROVE  [a EXCEPT !.version = @ + 1] \in Account
  BY DEF Account

LEMMA PasswordTyped ==
  ASSUME NEW a \in Account
  PROVE  [a EXCEPT !.password = @ + 1] \in Account
  BY DEF Account

LEMMA BudgetTyped ==
  ASSUME NEW a \in Account, NEW f \in Nat, NEW w \in Nat, NEW l \in Nat
  PROVE  [a EXCEPT !.failed = f, !.windowStart = w, !.lockedUntil = l] \in Account
  BY DEF Account

LEMMA AcceptedTyped ==
  ASSUME account \in Account, NEW n \in Nat
  PROVE  Accepted(n) \in Account
  BY DEF Account, Accepted

LEMMA SecretTyped ==
  ASSUME NEW a \in Account, NEW k \in Nat, NEW n \in Nat
  PROVE  [a EXCEPT !.secret = k, !.secrets = n, !.lastUsed = 0] \in Account
  BY DEF Account

LEMMA EnabledTyped ==
  ASSUME NEW a \in Account
  PROVE  /\ [a EXCEPT !.enabled = TRUE] \in Account
         /\ [a EXCEPT !.enabled = FALSE, !.secret = 0, !.lastUsed = 0] \in Account
  BY DEF Account

-----------------------------------------------------------------------------
(* What a row of sessions has shown, measured by what the account asks for. *)
RowVouched(row, a) ==
  row.status # "none" =>
    /\ a.verified
    /\ row.version = a.version =>
         /\ row.under = a.password
         /\ a.enabled /\ row.status = "active" => row.shown = a.secret

VouchInv ==
  /\ account.enabled => account.verified
  /\ \A s \in Sessions : RowVouched(session[s], account)

(* The wrong codes of the present window are the last `failed` ones; the      *)
(* GuessLimit - 1 before them may be recent too, no others.                 *)
Guesses(codes, failed, start, lock, now) ==
  /\ now >= 1
  /\ \A i \in 1..Len(codes) : codes[i] <= now
  /\ \A i, j \in 1..Len(codes) : i <= j => codes[i] <= codes[j]
  /\ start = 0 => Len(codes) = 0
  /\ start # 0 =>
       /\ 1 <= failed /\ failed <= GuessLimit /\ failed <= Len(codes)
       /\ codes[Len(codes) - failed + 1] = start
       /\ failed = GuessLimit => lock >= codes[Len(codes)] + LockTime
       /\ \A i \in 1..Len(codes) : i + GuessLimit <= Len(codes) - failed + 2 =>
            start - codes[i] >= AttemptWindow
  /\ \A i \in 1..Len(codes) : i + 2 * GuessLimit - 2 <= Len(codes) =>
       codes[i + 2 * GuessLimit - 2] - codes[i] >= AttemptWindow

GuessInv == Guesses(wrong, account.failed, account.windowStart, account.lockedUntil, step)

AccountInv == AccountTypeOK /\ VouchInv /\ GuessInv

(* The columns the second factor's budget is kept in, and the ones a session  *)
(* is measured by.                                                          *)
SameBudget(a, b) ==
  a.failed = b.failed /\ a.windowStart = b.windowStart /\ a.lockedUntil = b.lockedUntil

SameStanding(a, b) ==
  /\ a.password = b.password /\ a.version = b.version
  /\ a.enabled = b.enabled /\ a.secret = b.secret
  /\ b.verified => a.verified

LEMMA RowTyped ==
  ASSUME AccountTypeOK, NEW s \in Sessions, NEW row \in Session
  PROVE  [session EXCEPT ![s] = row] \in [Sessions -> Session]
  BY DEF AccountTypeOK

LEMMA GuessesKept ==
  ASSUME GuessInv, SameBudget(account', account), wrong' = wrong, step' = step
  PROVE  GuessInv'
  BY DEF GuessInv, SameBudget

LEMMA GuessesForgotten ==
  ASSUME GuessInv, account'.windowStart = 0, wrong' = <<>>, step' = step
  PROVE  GuessInv'
<1>1. Len(wrong') = 0 /\ \A i \in 1..Len(wrong') : FALSE
  OBVIOUS
<1>2. step' >= 1
  BY DEF GuessInv, Guesses
<1> QED
  BY <1>1, <1>2 DEF GuessInv, Guesses

LEMMA StandingKept ==
  ASSUME VouchInv, SameStanding(account', account), session' = session
  PROVE  VouchInv'
  BY DEF VouchInv, SameStanding, RowVouched

LEMMA RowReplaced ==
  ASSUME AccountTypeOK, VouchInv, NEW s \in Sessions, NEW row \in Session,
         session' = [session EXCEPT ![s] = row],
         SameStanding(account', account), RowVouched(row, account'),
         account'.enabled => account'.verified
  PROVE  VouchInv'
<1>1. session'[s] = row /\ \A x \in Sessions : x # s => session'[x] = session[x]
  BY DEF AccountTypeOK
<1>2. \A x \in Sessions : RowVouched(session'[x], account')
  BY <1>1 DEF VouchInv, SameStanding, RowVouched
<1> QED
  BY <1>2 DEF VouchInv, RowVouched

(* The account has a new version, and s the only session of it. *)
LEMMA OthersEndedTyped ==
  ASSUME AccountTypeOK, NEW s \in Sessions, NEW rows \in [Sessions -> Session]
  PROVE  OthersEnded(rows, s) \in [Sessions -> Session]
<1>1. account.version + 1 \in Nat
  BY DEF AccountTypeOK, Account
<1>2. [rows[s] EXCEPT !.version = account.version + 1] \in Session
  BY <1>1 DEF Session
<1>3. NoSession \in Session
  BY DEF NoSession, Session
<1> QED
  BY <1>2, <1>3 DEF OthersEnded

LEMMA OthersEndedVouched ==
  ASSUME AccountTypeOK, NEW s \in Sessions, NEW rows \in [Sessions -> Session],
         session' = OthersEnded(rows, s),
         account'.verified, account'.version = account.version + 1,
         rows[s].under = account'.password,
         account'.enabled => rows[s].shown = account'.secret
  PROVE  VouchInv'
<1>1. ASSUME NEW x \in Sessions PROVE RowVouched(session'[x], account')
  <2>1. CASE x = s
    <3>1. session'[x] = [rows[s] EXCEPT !.version = account.version + 1]
      BY <2>1 DEF OthersEnded
    <3>2. rows[s] \in Session
      OBVIOUS
    <3>3. session'[x].under = rows[s].under /\ session'[x].shown = rows[s].shown
      BY <3>1, <3>2 DEF Session
    <3> QED BY <3>3 DEF RowVouched
  <2>2. CASE x # s
    BY <2>2 DEF OthersEnded, NoSession, RowVouched
  <2> QED BY <2>1, <2>2
<1> QED
  BY <1>1 DEF VouchInv

-----------------------------------------------------------------------------
(* The helpers that change the account's row. *)
LEMMA NoCodeKeeps ==
  ASSUME NEW a \in Account
  PROVE  /\ NoCode(a) \in Account
         /\ SameBudget(NoCode(a), a) /\ SameStanding(NoCode(a), a)
         /\ NoCode(a).verified = a.verified
<1>1. SameBudget(NoCode(a), a) /\ SameStanding(NoCode(a), a) /\ NoCode(a).verified = a.verified
  BY DEF NoCode, Account, SameBudget, SameStanding
<1> QED
  BY <1>1, NoCodeTyped

LEMMA NewVersionKeeps ==
  ASSUME NEW a \in Account
  PROVE  /\ NewVersion(a) \in Account
         /\ SameBudget(NewVersion(a), a)
         /\ NewVersion(a).version = a.version + 1
         /\ NewVersion(a).verified = a.verified /\ NewVersion(a).password = a.password
         /\ NewVersion(a).enabled = a.enabled /\ NewVersion(a).secret = a.secret
<1>1. PICK b \in Account : /\ b = NoCode(a) /\ SameBudget(b, a) /\ SameStanding(b, a)
                           /\ b.verified = a.verified
  BY NoCodeKeeps
<1>2. NewVersion(a) = [b EXCEPT !.version = @ + 1]
  BY <1>1 DEF NewVersion
<1>3. NewVersion(a) \in Account
  BY <1>2, VersionTyped
<1>4. /\ [b EXCEPT !.version = @ + 1].version = b.version + 1
      /\ [b EXCEPT !.version = @ + 1].verified = b.verified
      /\ [b EXCEPT !.version = @ + 1].password = b.password
      /\ [b EXCEPT !.version = @ + 1].enabled = b.enabled
      /\ [b EXCEPT !.version = @ + 1].secret = b.secret
      /\ SameBudget([b EXCEPT !.version = @ + 1], b)
  BY DEF Account, SameBudget
<1> QED
  BY <1>1, <1>2, <1>3, <1>4 DEF SameBudget, SameStanding

LEMMA AcceptedKeeps ==
  ASSUME account \in Account, NEW n \in Nat
  PROVE  /\ Accepted(n) \in Account
         /\ Accepted(n).windowStart = 0
         /\ SameStanding(Accepted(n), account) /\ Accepted(n).verified = account.verified
<1>1. /\ Accepted(n).windowStart = 0
      /\ SameStanding(Accepted(n), account) /\ Accepted(n).verified = account.verified
  BY DEF Accepted, Account, SameStanding
<1> QED
  BY <1>1, AcceptedTyped

-----------------------------------------------------------------------------
LEMMA MailSteps ==
  ASSUME AccountInv, NEW m \in Mails, RequestCode(m) \/ MailSent(m) \/ MailFails(m)
  PROVE  AccountInv'
<1>1. account \in Account /\ step \in Nat
  BY DEF AccountInv, AccountTypeOK
<1>2. /\ account' \in Account
      /\ SameBudget(account', account) /\ SameStanding(account', account)
  <2>1. CASE RequestCode(m)
    <3>1. account' = [account EXCEPT !.code = m, !.codeAt = step, !.codeTries = 0]
      BY <2>1 DEF RequestCode
    <3>2. account' \in Account
      BY <1>1, <3>1, CodeFieldsTyped
    <3>3. SameBudget(account', account) /\ SameStanding(account', account)
      BY <1>1, <3>1 DEF Account, SameBudget, SameStanding
    <3> QED BY <3>2, <3>3
  <2>2. CASE MailSent(m)
    BY <1>1, <2>2 DEF MailSent, SameBudget, SameStanding
  <2>3. CASE MailFails(m)
    BY <1>1, <2>3, NoCodeKeeps DEF MailFails, Withdrawn, SameBudget, SameStanding
  <2> QED BY <2>1, <2>2, <2>3
<1>3. /\ UNCHANGED <<session, wrong, step>> /\ sending' \subseteq Mails
  BY DEF RequestCode, MailSent, MailFails, AccountInv, AccountTypeOK
<1>4. AccountTypeOK'
  BY <1>2, <1>3 DEF AccountInv, AccountTypeOK
<1> QED
  BY <1>2, <1>3, <1>4, GuessesKept, StandingKept DEF AccountInv

(* A wrong code of a mail, or a wrong password. *)
LEMMA WrongSteps ==
  ASSUME AccountInv, WrongMailCode \/ WrongPassword
  PROVE  AccountInv'
<1>1. account \in Account /\ step \in Nat
  BY DEF AccountInv, AccountTypeOK
<1>2. /\ account' \in Account
      /\ SameBudget(account', account) /\ SameStanding(account', account)
  <2>1. CASE WrongMailCode
    <3>1. account' = [account EXCEPT !.codeTries = @ + 1]
      BY <2>1 DEF WrongMailCode
    <3>2. SameBudget(account', account) /\ SameStanding(account', account)
      BY <1>1, <3>1 DEF Account, SameBudget, SameStanding
    <3> QED BY <1>1, <3>1, <3>2, TriesTyped
  <2>2. CASE WrongPassword
    <3>1. PICK n \in Nat, k \in Nat : account' = [account EXCEPT !.misses = n, !.closedUntil = k]
      <4>1. account.misses + 1 \in Nat
        BY <1>1 DEF Account
      <4>2. (IF account.misses + 1 >= GuessLimit THEN step + LockTime ELSE 0) \in Nat
        BY <1>1, Settings
      <4> QED BY <2>2, <4>1, <4>2 DEF WrongPassword
    <3>2. SameBudget(account', account) /\ SameStanding(account', account)
      BY <1>1, <3>1 DEF Account, SameBudget, SameStanding
    <3> QED BY <1>1, <3>1, <3>2, MissesTyped
  <2> QED BY <2>1, <2>2
<1>3. UNCHANGED <<session, sending, wrong, step>>
  BY DEF WrongMailCode, WrongPassword
<1>4. AccountTypeOK'
  BY <1>2, <1>3 DEF AccountInv, AccountTypeOK
<1> QED
  BY <1>2, <1>3, <1>4, GuessesKept, StandingKept DEF AccountInv

-----------------------------------------------------------------------------
LEMMA OpenedTyped ==
  ASSUME account \in Account, NEW status \in {"pending_2fa", "active"}
  PROVE  OpenedAs(status) \in Session
  BY DEF OpenedAs, Session, Account

(* A session is opened: the account asks for a second factor only once it is  *)
(* verified, and then the session is pending.                               *)
LEMMA LogInSteps ==
  ASSUME AccountInv, NEW s \in Sessions,
         VerifyEmail(s) \/ CodeLogIn(s) \/ LogIn(s) \/ SsoLogIn(s)
  PROVE  AccountInv'
<1>1. account \in Account /\ (account.enabled => account.verified)
  BY DEF AccountInv, AccountTypeOK, VouchInv
<1>2. PICK status \in {"pending_2fa", "active"} :
        /\ session' = [session EXCEPT ![s] = OpenedAs(status)]
        /\ account.enabled => status = "pending_2fa"
  BY <1>1 DEF VerifyEmail, CodeLogIn, LogIn, SsoLogIn, Entrance
<1>3. UNCHANGED <<sending, wrong, step>>
  BY DEF VerifyEmail, CodeLogIn, LogIn, SsoLogIn
<1>4. /\ account' \in Account /\ SameBudget(account', account)
      /\ SameStanding(account', account) /\ account'.verified
  <2>1. CASE VerifyEmail(s)
    <3>1. PICK a \in Account : /\ a = NoCode(account) /\ SameBudget(a, account)
                               /\ SameStanding(a, account)
      BY <1>1, NoCodeKeeps
    <3>2. account' = [a EXCEPT !.verified = TRUE]
      BY <2>1, <3>1 DEF VerifyEmail
    <3>3. /\ SameBudget(account', a) /\ account'.password = a.password
          /\ account'.version = a.version /\ account'.enabled = a.enabled
          /\ account'.secret = a.secret /\ account'.verified = TRUE
      BY <3>2 DEF Account, SameBudget
    <3> QED BY <3>1, <3>2, <3>3, VerifiedTyped DEF SameBudget, SameStanding
  <2>2. CASE CodeLogIn(s)
    <3>1. PICK a \in Account : /\ a = NoCode(account) /\ SameBudget(a, account)
                               /\ SameStanding(a, account)
      BY <1>1, NoCodeKeeps
    <3>2. account' = [a EXCEPT !.verified = TRUE, !.misses = 0, !.closedUntil = 0]
      BY <2>2, <3>1 DEF CodeLogIn
    <3>3. /\ SameBudget(account', a) /\ account'.password = a.password
          /\ account'.version = a.version /\ account'.enabled = a.enabled
          /\ account'.secret = a.secret /\ account'.verified = TRUE
      BY <3>2 DEF Account, SameBudget
    <3> QED BY <3>1, <3>2, <3>3, VerifiedTyped2 DEF SameBudget, SameStanding
  <2>3. CASE LogIn(s)
    <3>1. account' = [account EXCEPT !.misses = 0, !.closedUntil = 0] /\ account.verified
      BY <2>3 DEF LogIn
    <3>2. /\ SameBudget(account', account) /\ SameStanding(account', account)
          /\ account'.verified = account.verified
      BY <1>1, <3>1 DEF Account, SameBudget, SameStanding
    <3> QED BY <1>1, <3>1, <3>2, MissesTyped
  <2>4. CASE SsoLogIn(s)
    BY <1>1, <2>4 DEF SsoLogIn, SameBudget, SameStanding
  <2> QED BY <2>1, <2>2, <2>3, <2>4
<1>5. OpenedAs(status) \in Session
  BY <1>1, OpenedTyped
<1>6. RowVouched(OpenedAs(status), account')
  BY <1>2, <1>4 DEF OpenedAs, RowVouched, SameStanding
<1>7. VouchInv'
  <2>1. PICK row \in Session : row = OpenedAs(status)
    BY <1>5
  <2> QED BY <1>2, <1>4, <1>6, <2>1, RowReplaced DEF AccountInv
<1>8. session' \in [Sessions -> Session]
  BY <1>2, <1>5, RowTyped DEF AccountInv
<1> QED
  BY <1>3, <1>4, <1>7, <1>8, GuessesKept DEF AccountInv, AccountTypeOK

(* A session ends, or a request of it begins or is over. *)
LEMMA RequestTyped ==
  ASSUME AccountTypeOK, NEW s \in Sessions
  PROVE  /\ session[s] \in Session
         /\ RequestOver(s) = [session EXCEPT ![s] = [@ EXCEPT !.request = "none", !.read = 0]]
         /\ RequestOver(s) \in [Sessions -> Session]
         /\ RequestOver(s)[s] = [session[s] EXCEPT !.request = "none", !.read = 0]
         /\ RequestOver(s)[s] \in Session
<1>1. session[s] \in Session
  BY DEF AccountTypeOK
<1>2. [session[s] EXCEPT !.request = "none", !.read = 0] \in Session
  BY <1>1 DEF Session
<1>3. RequestOver(s) = [session EXCEPT ![s] = [@ EXCEPT !.request = "none", !.read = 0]]
  BY DEF RequestOver, AccountTypeOK
<1>4. RequestOver(s)[s] = [session[s] EXCEPT !.request = "none", !.read = 0]
  BY <1>3 DEF AccountTypeOK
<1>5. RequestOver(s) \in [Sessions -> Session]
  BY <1>2, <1>3, RowTyped
<1> QED
  BY <1>1, <1>2, <1>3, <1>4, <1>5

LEMMA RequestOverKeeps ==
  ASSUME AccountTypeOK, NEW s \in Sessions, NEW x \in Sessions
  PROVE  /\ RequestOver(s)[x].status = session[x].status
         /\ RequestOver(s)[x].version = session[x].version
         /\ RequestOver(s)[x].under = session[x].under
         /\ RequestOver(s)[x].shown = session[x].shown
<1>1. CASE x = s
  <2>1. RequestOver(s)[x] = [session[s] EXCEPT !.request = "none", !.read = 0]
    BY <1>1, RequestTyped
  <2>2. session[s] \in Session
    BY DEF AccountTypeOK
  <2> QED BY <1>1, <2>1, <2>2 DEF Session
<1>2. CASE x # s
  <2>1. RequestOver(s) = [session EXCEPT ![s] = [@ EXCEPT !.request = "none", !.read = 0]]
    BY RequestTyped
  <2>2. RequestOver(s)[x] = session[x]
    BY <1>2, <2>1 DEF AccountTypeOK
  <2> QED BY <2>2
<1> QED
  BY <1>1, <1>2

LEMMA SessionSteps ==
  ASSUME AccountInv, NEW s \in Sessions,
         \/ SessionEnds(s) \/ RequestEnds(s)
         \/ \E r \in {"password", "setup", "others"} : BeginRequest(s, r)
  PROVE  AccountInv'
<1>1. account \in Account /\ session[s] \in Session
  BY DEF AccountInv, AccountTypeOK
<1>2. UNCHANGED <<account, sending, wrong, step>>
  BY DEF SessionEnds, RequestEnds, BeginRequest
<1>3. PICK row \in Session :
        session' = [session EXCEPT ![s] = row] /\ RowVouched(row, account)
  <2>0. RowVouched(session[s], account)
    BY DEF AccountInv, VouchInv
  <2>1. CASE SessionEnds(s)
    <3>1. NoSession \in Session /\ RowVouched(NoSession, account)
      BY DEF NoSession, Session, RowVouched
    <3> QED BY <2>1, <3>1 DEF SessionEnds
  <2>2. CASE RequestEnds(s)
    <3>1. PICK row \in Session : row = [session[s] EXCEPT !.request = "none", !.read = 0]
      BY RequestTyped DEF AccountInv
    <3>2. session' = [session EXCEPT ![s] = row]
      BY <2>2, <3>1, RequestTyped DEF RequestEnds, AccountInv
    <3>3. RowVouched(row, account)
      BY <1>1, <2>0, <3>1 DEF RowVouched, Session
    <3> QED BY <3>2, <3>3
  <2>3. ASSUME NEW r \in {"password", "setup", "others"}, BeginRequest(s, r)
        PROVE  \E row \in Session :
                 session' = [session EXCEPT ![s] = row] /\ RowVouched(row, account)
    <3>1. account.password \in Nat
      BY <1>1 DEF Account
    <3>2. PICK row \in Session : row = [session[s] EXCEPT !.request = r, !.read = account.password]
      BY <1>1, <3>1 DEF Session
    <3>3. session' = [session EXCEPT ![s] = row]
      BY <2>3, <3>2 DEF BeginRequest, AccountInv, AccountTypeOK
    <3>4. RowVouched(row, account)
      BY <1>1, <2>0, <3>2 DEF RowVouched, Session
    <3> QED BY <3>3, <3>4
  <2> QED BY <2>1, <2>2, <2>3
<1>4. VouchInv'
  BY <1>2, <1>3, RowReplaced DEF AccountInv, VouchInv, SameStanding
<1>5. session' \in [Sessions -> Session]
  BY <1>3, RowTyped DEF AccountInv
<1> QED
  BY <1>2, <1>4, <1>5, GuessesKept DEF AccountInv, AccountTypeOK, SameBudget

(* The password changes, or all others are logged out: only s is left. *)
LEMMA RevocationSteps ==
  ASSUME AccountInv, NEW s \in Sessions, ChangePassword(s) \/ RevokeOthers(s)
  PROVE  AccountInv'
<1>1. account \in Account /\ session[s] \in Session /\ SignedIn(s)
  BY DEF AccountInv, AccountTypeOK, ChangePassword, RevokeOthers
<1>2. /\ account.verified /\ session[s].under = account.password
      /\ account.enabled => session[s].shown = account.secret
  BY <1>1 DEF AccountInv, VouchInv, RowVouched, SignedIn, Usable
<1>3. UNCHANGED <<sending, wrong, step>>
  BY DEF ChangePassword, RevokeOthers
<1>4. CASE RevokeOthers(s)
  <2>1. /\ account' = NewVersion(account) /\ session' = OthersEnded(RequestOver(s), s)
    BY <1>4 DEF RevokeOthers
  <2>2. /\ account' \in Account /\ SameBudget(account', account)
        /\ account'.version = account.version + 1 /\ account'.verified
        /\ account'.password = account.password /\ account'.enabled = account.enabled
        /\ account'.secret = account.secret
    BY <1>1, <1>2, <2>1, NewVersionKeeps
  <2>3. PICK rows \in [Sessions -> Session] :
          /\ rows = RequestOver(s)
          /\ rows[s].under = session[s].under /\ rows[s].shown = session[s].shown
    BY RequestTyped, RequestOverKeeps DEF AccountInv
  <2>4. VouchInv'
    BY <1>2, <2>1, <2>2, <2>3, OthersEndedVouched DEF AccountInv
  <2>5. session' \in [Sessions -> Session]
    BY <2>1, <2>3, OthersEndedTyped DEF AccountInv
  <2> QED BY <1>3, <2>2, <2>4, <2>5, GuessesKept DEF AccountInv, AccountTypeOK
<1>5. CASE ChangePassword(s)
  <2>1. /\ account' = [NewVersion(account) EXCEPT !.password = @ + 1]
        /\ session' = OthersEnded([RequestOver(s) EXCEPT ![s].under = account.password + 1], s)
    BY <1>5 DEF ChangePassword
  <2>2. PICK a \in Account :
          /\ a = NewVersion(account) /\ SameBudget(a, account)
          /\ a.version = account.version + 1 /\ a.verified = account.verified
          /\ a.password = account.password /\ a.enabled = account.enabled
          /\ a.secret = account.secret
    BY <1>1, NewVersionKeeps
  <2>3. account' = [a EXCEPT !.password = @ + 1]
    BY <2>1, <2>2
  <2>4. /\ SameBudget(account', a) /\ account'.version = a.version
        /\ account'.verified = a.verified /\ account'.password = a.password + 1
        /\ account'.enabled = a.enabled /\ account'.secret = a.secret
    BY <2>3 DEF Account, SameBudget
  <2>5. account' \in Account
    BY <2>3, PasswordTyped
  <2>6. PICK over \in [Sessions -> Session] :
          over = RequestOver(s) /\ over[s].shown = session[s].shown
    BY RequestTyped, RequestOverKeeps DEF AccountInv
  <2>7. account.password + 1 \in Nat
    BY <1>1 DEF Account
  <2>8. /\ [over[s] EXCEPT !.under = account.password + 1] \in Session
        /\ [over[s] EXCEPT !.under = account.password + 1].under = account.password + 1
        /\ [over[s] EXCEPT !.under = account.password + 1].shown = over[s].shown
    <3>1. over[s] \in Session
      OBVIOUS
    <3> QED BY <2>7, <3>1 DEF Session
  <2>9. PICK rows \in [Sessions -> Session] :
          /\ rows = [over EXCEPT ![s].under = account.password + 1]
          /\ rows[s].under = account.password + 1 /\ rows[s].shown = session[s].shown
    <3>1. PICK row \in Session : /\ row = [over[s] EXCEPT !.under = account.password + 1]
                                 /\ row.under = account.password + 1 /\ row.shown = over[s].shown
      BY <2>8
    <3>2. [over EXCEPT ![s].under = account.password + 1] = [over EXCEPT ![s] = row]
      BY <3>1
    <3>3. [over EXCEPT ![s] = row] \in [Sessions -> Session] /\ [over EXCEPT ![s] = row][s] = row
      OBVIOUS
    <3> QED BY <2>6, <3>1, <3>2, <3>3
  <2>10. session' = OthersEnded(rows, s)
    BY <2>1, <2>6, <2>9
  <2>11. VouchInv'
    BY <1>2, <2>2, <2>4, <2>9, <2>10, OthersEndedVouched DEF AccountInv
  <2>12. session' \in [Sessions -> Session]
    BY <2>9, <2>10, OthersEndedTyped DEF AccountInv
  <2>13. SameBudget(account', account)
    BY <2>2, <2>4 DEF SameBudget
  <2> QED BY <1>3, <2>5, <2>11, <2>12, <2>13, GuessesKept DEF AccountInv, AccountTypeOK
<1> QED
  BY <1>4, <1>5

(* A new secret: the account asks for no second factor yet. *)
LEMMA SetUpStep ==
  ASSUME AccountInv, NEW s \in Sessions, SetUp(s)
  PROVE  AccountInv'
<1>1. account \in Account /\ session[s] \in Session /\ account.secrets + 1 \in Nat
  BY DEF AccountInv, AccountTypeOK, Account
<1>2. /\ account' = [account EXCEPT !.secret = account.secrets + 1,
                       !.secrets = account.secrets + 1, !.lastUsed = 0]
      /\ session' = RequestOver(s) /\ UNCHANGED <<sending, wrong, step>> /\ ~account.enabled
  BY DEF SetUp
<1>3. account' \in Account
  BY <1>1, <1>2, SecretTyped
<1>4. /\ SameBudget(account', account) /\ account'.enabled = account.enabled
      /\ account'.password = account.password /\ account'.version = account.version
      /\ account'.verified = account.verified
  BY <1>1, <1>2 DEF Account, SameBudget
<1>5. ASSUME NEW x \in Sessions PROVE RowVouched(session'[x], account')
  <2>1. /\ session'[x].status = session[x].status /\ session'[x].version = session[x].version
        /\ session'[x].under = session[x].under
    BY <1>2, RequestOverKeeps DEF AccountInv
  <2>2. RowVouched(session[x], account)
    BY DEF AccountInv, VouchInv
  <2> QED BY <1>2, <1>4, <2>1, <2>2 DEF RowVouched
<1>6. VouchInv'
  BY <1>2, <1>4, <1>5 DEF VouchInv
<1>7. session' \in [Sessions -> Session]
  BY <1>2, RequestTyped DEF AccountInv
<1> QED
  BY <1>2, <1>3, <1>4, <1>6, <1>7, GuessesKept DEF AccountInv, AccountTypeOK

-----------------------------------------------------------------------------
(* One more wrong code opens a window: the codes before it that are            *)
(* GuessLimit - 1 or more away are old, since the window before was not full, *)
(* or the account was locked since.                                         *)
LEMMA AppendedCodes ==
  ASSUME NEW codes \in Seq(Nat), NEW now \in Nat,
         \A i \in 1..Len(codes) : codes[i] <= now,
         \A i, j \in 1..Len(codes) : i <= j => codes[i] <= codes[j]
  PROVE  /\ Len(Append(codes, now)) = Len(codes) + 1
         /\ Append(codes, now)[Len(codes) + 1] = now
         /\ \A i \in 1..Len(codes) : Append(codes, now)[i] = codes[i]
         /\ \A i \in 1..(Len(codes) + 1) : Append(codes, now)[i] <= now
         /\ \A i, j \in 1..(Len(codes) + 1) :
               i <= j => Append(codes, now)[i] <= Append(codes, now)[j]
<1>1. \A i \in 1..Len(codes) : codes[i] \in Nat
  OBVIOUS
<1>2. /\ Len(Append(codes, now)) = Len(codes) + 1
      /\ Append(codes, now)[Len(codes) + 1] = now
      /\ \A i \in 1..Len(codes) : Append(codes, now)[i] = codes[i]
  OBVIOUS
<1>3. \A i \in 1..(Len(codes) + 1) : i = Len(codes) + 1 \/ i \in 1..Len(codes)
  OBVIOUS
<1>4. \A i \in 1..(Len(codes) + 1) : Append(codes, now)[i] <= now
  BY <1>1, <1>2, <1>3
<1>5. \A i, j \in 1..(Len(codes) + 1) :
         i <= j => Append(codes, now)[i] <= Append(codes, now)[j]
  <2>1. TAKE i, j \in 1..(Len(codes) + 1)
  <2>2. HAVE i <= j
  <2>3. CASE j = Len(codes) + 1
    BY <1>2, <1>4, <2>3
  <2>4. CASE j \in 1..Len(codes)
    <3>1. i \in 1..Len(codes)
      BY <2>2, <2>4
    <3> QED BY <1>2, <2>2, <2>4, <3>1
  <2> QED BY <1>3, <2>3, <2>4
<1> QED
  BY <1>2, <1>4, <1>5

(* What the last code adds to the bound: the codes that are so many places     *)
(* before it are old.                                                       *)
LEMMA BoundExtends ==
  ASSUME NEW codes \in Seq(Nat), NEW more \in Seq(Nat), NEW now \in Nat,
         Len(more) = Len(codes) + 1, more[Len(codes) + 1] = now,
         \A i \in 1..Len(codes) : more[i] = codes[i],
         \A i \in 1..Len(codes) : i + 2 * GuessLimit - 2 <= Len(codes) =>
           codes[i + 2 * GuessLimit - 2] - codes[i] >= AttemptWindow,
         \A i \in 1..Len(codes) : i + 2 * GuessLimit - 2 = Len(codes) + 1 =>
           now - codes[i] >= AttemptWindow
  PROVE  \A i \in 1..Len(more) : i + 2 * GuessLimit - 2 <= Len(more) =>
           more[i + 2 * GuessLimit - 2] - more[i] >= AttemptWindow
<1>1. GuessLimit \in Nat /\ GuessLimit >= 2 /\ AttemptWindow \in Nat
  BY Settings
<1>2. TAKE i \in 1..Len(more)
<1>3. HAVE i + 2 * GuessLimit - 2 <= Len(more)
<1>4. i \in 1..Len(codes) /\ more[i] = codes[i]
  <2>1. Len(codes) \in Nat
    OBVIOUS
  <2>2. i <= Len(codes)
    BY <1>1, <1>3, <2>1
  <2> QED BY <2>1, <2>2
<1>5. PICK k \in 1..Len(more) : k = i + 2 * GuessLimit - 2
  BY <1>1, <1>3
<1>6. CASE k = Len(codes) + 1
  <2>1. now - codes[i] >= AttemptWindow
    BY <1>4, <1>5, <1>6
  <2>2. more[k] = now
    BY <1>6
  <2>3. more[k] - more[i] >= AttemptWindow
    BY <1>4, <2>1, <2>2
  <2> QED BY <1>5, <2>3
<1>7. CASE k \in 1..Len(codes)
  <2>1. codes[k] - codes[i] >= AttemptWindow
    BY <1>4, <1>5, <1>7
  <2>2. more[k] = codes[k]
    BY <1>7
  <2>3. more[k] - more[i] >= AttemptWindow
    BY <1>4, <2>1, <2>2
  <2> QED BY <1>5, <2>3
<1>8. k = Len(codes) + 1 \/ k \in 1..Len(codes)
  OBVIOUS
<1> QED
  BY <1>6, <1>7, <1>8

LEMMA WindowOpens ==
  ASSUME NEW codes \in Seq(Nat), NEW failed \in Nat, NEW start \in Nat, NEW lock \in Nat,
         NEW now \in Nat, NEW lockNow \in Nat,
         Guesses(codes, failed, start, lock, now),
         lock <= now, start = 0 \/ now - start >= AttemptWindow
  PROVE  Guesses(Append(codes, now), 1, now, lockNow, now)
<1> DEFINE n == Len(codes)
           more == Append(codes, now)
<1>1. /\ GuessLimit \in Nat /\ GuessLimit >= 2 /\ AttemptWindow \in Nat
      /\ LockTime \in Nat /\ AttemptWindow <= LockTime /\ n \in Nat /\ now >= 1
      /\ more \in Seq(Nat)
  BY Settings, AppendedCodes DEF Guesses
<1>2. \A i \in 1..n : codes[i] \in Nat
  OBVIOUS
<1>3. /\ Len(more) = n + 1 /\ more[n + 1] = now
      /\ \A i \in 1..n : more[i] = codes[i]
      /\ \A i \in 1..(n + 1) : more[i] <= now
      /\ \A i, j \in 1..(n + 1) : i <= j => more[i] <= more[j]
  BY AppendedCodes DEF Guesses
<1>4. \A i \in 1..n : i + GuessLimit <= n + 2 => now - codes[i] >= AttemptWindow
  <2>1. TAKE i \in 1..n
  <2>2. HAVE i + GuessLimit <= n + 2
  <2>3. PICK v \in Nat : v = codes[i]
    BY <1>2
  <2>4. start # 0 /\ 1 <= failed /\ failed <= GuessLimit /\ failed <= n
    BY DEF Guesses
  <2>5. CASE failed = GuessLimit
    <3>1. n \in 1..n
      BY <1>1, <2>4
    <3>2. PICK u \in Nat : u = codes[n]
      BY <1>2, <3>1
    <3>3. lock >= u + LockTime
      <4>1. lock >= codes[n] + LockTime
        BY <2>4, <2>5 DEF Guesses
      <4> QED BY <3>2, <4>1
    <3>4. v <= u
      BY <2>3, <3>1, <3>2 DEF Guesses
    <3>5. now - v >= AttemptWindow
      BY <1>1, <3>3, <3>4
    <3> QED BY <2>3, <3>5
  <2>6. CASE failed # GuessLimit
    <3>1. n - failed + 1 \in 1..n /\ i <= n - failed + 1
      BY <1>1, <2>2, <2>4, <2>6
    <3>2. codes[n - failed + 1] = start
      BY <2>4 DEF Guesses
    <3>3. v <= start
      BY <2>3, <3>1, <3>2 DEF Guesses
    <3>4. now - v >= AttemptWindow
      BY <1>1, <2>4, <3>3
    <3> QED BY <2>3, <3>4
  <2> QED BY <2>5, <2>6
<1>5. \A i \in 1..(n + 1) : i + GuessLimit <= n + 2 => now - more[i] >= AttemptWindow
  <2>1. TAKE i \in 1..(n + 1)
  <2>2. HAVE i + GuessLimit <= n + 2
  <2>3. i \in 1..n
    BY <1>1, <2>2
  <2>4. more[i] = codes[i] /\ now - codes[i] >= AttemptWindow
    BY <1>3, <1>4, <2>2, <2>3
  <2> QED BY <2>4
<1>6. \A i \in 1..n : i + 2 * GuessLimit - 2 = n + 1 => now - codes[i] >= AttemptWindow
  <2>1. TAKE i \in 1..n
  <2>2. HAVE i + 2 * GuessLimit - 2 = n + 1
  <2>3. i + GuessLimit <= n + 2
    BY <1>1, <2>2
  <2> QED BY <1>4, <2>3
<1>7. \A i \in 1..Len(more) : i + 2 * GuessLimit - 2 <= Len(more) =>
         more[i + 2 * GuessLimit - 2] - more[i] >= AttemptWindow
  BY <1>1, <1>3, <1>6, BoundExtends DEF Guesses
<1>8. Len(more) - 1 + 1 = n + 1 /\ Len(more) - 1 + 2 = n + 2 /\ 1 <= Len(more) /\ 1 # GuessLimit
  BY <1>1, <1>3
<1> HIDE DEF n, more
<1>9. Guesses(more, 1, now, lockNow, now)
  BY <1>1, <1>3, <1>5, <1>7, <1>8 DEF Guesses
<1> QED
  BY <1>9 DEF more

(* One more wrong code falls into the window, which was not full: it would    *)
(* have locked the account for longer than it lasts.                        *)
LEMMA WindowContinues ==
  ASSUME NEW codes \in Seq(Nat), NEW failed \in Nat, NEW start \in Nat, NEW lock \in Nat,
         NEW now \in Nat, NEW lockNow \in Nat,
         Guesses(codes, failed, start, lock, now),
         lock <= now, start # 0, ~(now - start >= AttemptWindow),
         failed + 1 >= GuessLimit => lockNow = now + LockTime
  PROVE  Guesses(Append(codes, now), failed + 1, start, lockNow, now)
<1> DEFINE n == Len(codes)
           more == Append(codes, now)
<1>1. /\ GuessLimit \in Nat /\ GuessLimit >= 2 /\ AttemptWindow \in Nat
      /\ LockTime \in Nat /\ AttemptWindow <= LockTime /\ n \in Nat /\ now >= 1
      /\ more \in Seq(Nat)
  BY Settings, AppendedCodes DEF Guesses
<1>2. \A i \in 1..n : codes[i] \in Nat
  OBVIOUS
<1>3. /\ Len(more) = n + 1 /\ more[n + 1] = now
      /\ \A i \in 1..n : more[i] = codes[i]
      /\ \A i \in 1..(n + 1) : more[i] <= now
      /\ \A i, j \in 1..(n + 1) : i <= j => more[i] <= more[j]
  BY AppendedCodes DEF Guesses
<1>4. 1 <= failed /\ failed <= GuessLimit /\ failed <= n /\ codes[n - failed + 1] = start
  BY DEF Guesses
<1>5. n \in 1..n /\ n - failed + 1 \in 1..n /\ n - failed + 1 <= n
  BY <1>1, <1>4
<1>6. PICK u \in Nat : u = codes[n]
  BY <1>2, <1>5
<1>7. start <= u /\ start <= now
  BY <1>4, <1>5, <1>6 DEF Guesses
<1>8. failed < GuessLimit
  <2>1. failed = GuessLimit => lock >= u + LockTime
    BY <1>6 DEF Guesses
  <2> QED BY <1>1, <1>4, <1>7, <2>1
<1>9. \A i \in 1..n : i + GuessLimit <= n - failed + 2 => start - codes[i] >= AttemptWindow
  BY DEF Guesses
<1>10. \A i \in 1..(n + 1) : i + GuessLimit <= n - failed + 2 => start - more[i] >= AttemptWindow
  <2>1. TAKE i \in 1..(n + 1)
  <2>2. HAVE i + GuessLimit <= n - failed + 2
  <2>3. i \in 1..n
    BY <1>1, <1>4, <2>2
  <2>4. more[i] = codes[i] /\ start - codes[i] >= AttemptWindow
    BY <1>3, <1>9, <2>2, <2>3
  <2> QED BY <2>4
<1>11. \A i \in 1..n : i + 2 * GuessLimit - 2 = n + 1 => now - codes[i] >= AttemptWindow
  <2>1. TAKE i \in 1..n
  <2>2. HAVE i + 2 * GuessLimit - 2 = n + 1
  <2>3. i + GuessLimit <= n - failed + 2
    BY <1>1, <1>8, <2>2
  <2>4. PICK v \in Nat : v = codes[i]
    BY <1>2
  <2>5. start - v >= AttemptWindow
    BY <1>9, <2>3, <2>4
  <2>6. now - v >= AttemptWindow
    BY <1>1, <1>7, <2>5
  <2> QED BY <2>4, <2>6
<1>12. \A i \in 1..Len(more) : i + 2 * GuessLimit - 2 <= Len(more) =>
          more[i + 2 * GuessLimit - 2] - more[i] >= AttemptWindow
  BY <1>1, <1>3, <1>11, BoundExtends DEF Guesses
<1>13. /\ Len(more) - (failed + 1) + 1 = n - failed + 1
       /\ Len(more) - (failed + 1) + 2 = n - failed + 2
       /\ 1 <= failed + 1 /\ failed + 1 <= GuessLimit /\ failed + 1 <= Len(more)
  <2> DEFINE k == Len(more)
  <2>1. k = n + 1
    BY <1>3
  <2> HIDE DEF k, more, n
  <2>2. /\ k - (failed + 1) + 1 = n - failed + 1
        /\ k - (failed + 1) + 2 = n - failed + 2
        /\ 1 <= failed + 1 /\ failed + 1 <= GuessLimit /\ failed + 1 <= k
    BY <1>1, <1>4, <1>8, <2>1
  <2> QED BY <2>2 DEF k
<1>14. more[n - failed + 1] = start
  BY <1>3, <1>4, <1>5
<1>15. failed + 1 = GuessLimit => lockNow >= more[Len(more)] + LockTime
  BY <1>1, <1>3
<1> HIDE DEF n, more
<1>16. Guesses(more, failed + 1, start, lockNow, now)
  BY <1>1, <1>3, <1>10, <1>12, <1>13, <1>14, <1>15 DEF Guesses
<1> QED
  BY <1>16 DEF more

LEMMA GuessAdded ==
  ASSUME AccountTypeOK, GuessInv, ~Locked,
         wrong' = Append(wrong, step), step' = step,
         account'.failed = Failures,
         account'.windowStart = (IF FreshWindow THEN step ELSE account.windowStart),
         account'.lockedUntil = LockedUntil
  PROVE  GuessInv'
<1>1. /\ wrong \in Seq(Nat) /\ step \in Nat /\ account.failed \in Nat
      /\ account.windowStart \in Nat /\ account.lockedUntil \in Nat
  BY DEF AccountTypeOK, Account
<1>2. account.lockedUntil <= step /\ LockedUntil \in Nat
  BY <1>1, Settings DEF Locked, LockedUntil, Failures
<1>3. CASE FreshWindow
  <2>1. account.windowStart = 0 \/ step - account.windowStart >= AttemptWindow
    BY <1>3 DEF FreshWindow
  <2>2. Guesses(Append(wrong, step), 1, step, LockedUntil, step)
    BY <1>1, <1>2, <2>1, WindowOpens DEF GuessInv
  <2>3. account'.failed = 1 /\ account'.windowStart = step
    BY <1>3 DEF Failures
  <2> QED BY <2>2, <2>3 DEF GuessInv
<1>4. CASE ~FreshWindow
  <2>1. account.windowStart # 0 /\ ~(step - account.windowStart >= AttemptWindow)
    BY <1>4 DEF FreshWindow
  <2>2. account'.failed = account.failed + 1 /\ account'.windowStart = account.windowStart
    BY <1>4 DEF Failures
  <2>3. account.failed + 1 >= GuessLimit => LockedUntil = step + LockTime
    BY <1>4 DEF Failures, LockedUntil
  <2>4. Guesses(Append(wrong, step), account.failed + 1, account.windowStart, LockedUntil, step)
    BY <1>1, <1>2, <2>1, <2>3, WindowContinues DEF GuessInv
  <2> QED BY <2>2, <2>4 DEF GuessInv
<1> QED
  BY <1>3, <1>4

(* A wrong code: the session that wanted to log in by it may end. *)
LEMMA WrongCodeStep ==
  ASSUME AccountInv, NEW s \in Sessions, NEW purpose \in {"login", "enable", "disable"},
         WrongCode(s, purpose)
  PROVE  AccountInv'
<1>1. account \in Account /\ session[s] \in Session /\ step \in Nat
  BY DEF AccountInv, AccountTypeOK
<1>2. Failures \in Nat /\ LockedUntil \in Nat
  BY <1>1, Settings DEF Failures, LockedUntil, Account
<1>3. PICK w \in Nat : w = IF FreshWindow THEN step ELSE account.windowStart
  BY <1>1 DEF Account
<1>4. account' = [account EXCEPT !.failed = Failures, !.windowStart = w, !.lockedUntil = LockedUntil]
  BY <1>3 DEF WrongCode
<1>5. /\ account'.failed = Failures /\ account'.windowStart = w
      /\ account'.lockedUntil = LockedUntil
      /\ SameStanding(account', account) /\ account'.verified = account.verified
  BY <1>1, <1>4 DEF Account, SameStanding
<1>6. account' \in Account
  BY <1>1, <1>2, <1>4, BudgetTyped
<1>7. ~Locked /\ wrong' = Append(wrong, step) /\ UNCHANGED <<sending, step>>
  BY DEF WrongCode, MayEnter
<1>8. GuessInv'
  BY <1>3, <1>5, <1>7, GuessAdded DEF AccountInv
<1>9. wrong' \in Seq(Nat)
  BY <1>1, <1>7 DEF AccountInv, AccountTypeOK
<1>10. VouchInv' /\ session' \in [Sessions -> Session]
  <2>1. CASE purpose # "login"
    <3>1. session' = session
      BY <2>1 DEF WrongCode
    <3> QED BY <1>5, <3>1, StandingKept DEF AccountInv, AccountTypeOK
  <2>2. CASE purpose = "login"
    <3>1. PICK row \in Session :
            session' = [session EXCEPT ![s] = row] /\ RowVouched(row, account')
      <4>1. NoSession \in Session /\ RowVouched(NoSession, account')
        BY DEF NoSession, Session, RowVouched
      <4>2. PICK row \in Session : row = [session[s] EXCEPT !.tries = @ + 1]
        <5>1. [session[s] EXCEPT !.tries = @ + 1] \in Session
          BY <1>1 DEF Session
        <5> QED BY <5>1
      <4>3. RowVouched(session[s], account)
        BY DEF AccountInv, VouchInv
      <4>4. /\ row.status = session[s].status /\ row.version = session[s].version
            /\ row.under = session[s].under /\ row.shown = session[s].shown
        BY <1>1, <4>2 DEF Session
      <4>5. RowVouched(row, account')
        BY <1>5, <4>3, <4>4 DEF RowVouched, SameStanding
      <4>6. session' = [session EXCEPT ![s] = AfterWrongCode(session[s])]
        BY <2>2 DEF WrongCode
      <4>7. AfterWrongCode(session[s]) = NoSession \/ AfterWrongCode(session[s]) = row
        BY <4>2 DEF AfterWrongCode
      <4> QED BY <4>1, <4>5, <4>6, <4>7
    <3>2. account'.enabled => account'.verified
      BY <1>5 DEF AccountInv, VouchInv, SameStanding
    <3> QED BY <1>5, <3>1, <3>2, RowReplaced, RowTyped DEF AccountInv
  <2> QED BY <2>1, <2>2
<1> QED
  BY <1>6, <1>7, <1>8, <1>9, <1>10 DEF AccountInv, AccountTypeOK

(* A right code: the wrong ones are forgotten. *)
LEMMA RightCodeFacts ==
  ASSUME AccountInv, NEW s \in Sessions, NEW purpose \in {"login", "enable", "disable"},
         NEW n \in (step - 1)..(step + 1), RightCode(s, purpose, n)
  PROVE  /\ n \in Nat /\ session[s] \in Session /\ account.verified
         /\ session[s].under = account.password
         /\ purpose # "login" => session[s].status = "active"
         /\ purpose = "disable" => account.enabled /\ session[s].shown = account.secret
<1>1. account \in Account /\ session[s] \in Session /\ step \in Nat
  BY DEF AccountInv, AccountTypeOK
<1>2. n \in Nat
  BY <1>1 DEF RightCode, Account
<1>3. /\ Usable(s)
      /\ purpose # "login" => session[s].status = "active"
      /\ account.enabled = (purpose # "enable")
  BY DEF RightCode, MayEnter, Pending, SignedIn
<1>4. RowVouched(session[s], account)
  BY DEF AccountInv, VouchInv
<1>5. account.verified /\ session[s].under = account.password
  BY <1>3, <1>4 DEF Usable, RowVouched
<1>6. purpose = "disable" => account.enabled /\ session[s].shown = account.secret
  BY <1>3, <1>4 DEF Usable, RowVouched
<1> QED
  BY <1>1, <1>2, <1>3, <1>5, <1>6

LEMMA VerifySecondFactorStep ==
  ASSUME AccountInv, NEW s \in Sessions, NEW n \in (step - 1)..(step + 1),
         VerifySecondFactor(s, n)
  PROVE  AccountInv'
<1>1. account \in Account /\ account.secret \in Nat
  BY DEF AccountInv, AccountTypeOK, Account
<1>2. RightCode(s, "login", n)
  BY DEF VerifySecondFactor
<1>3. /\ n \in Nat /\ session[s] \in Session /\ account.verified
      /\ session[s].under = account.password
  BY <1>2, RightCodeFacts
<1>4. /\ account' \in Account /\ account'.windowStart = 0
      /\ SameStanding(account', account) /\ account'.verified = account.verified
  BY <1>1, <1>3, AcceptedKeeps DEF VerifySecondFactor
<1>5. PICK row \in Session : row = [session[s] EXCEPT !.status = "active", !.shown = account.secret]
  BY <1>1, <1>3 DEF Session
<1>6. row.under = session[s].under /\ row.shown = account.secret
  BY <1>3, <1>5 DEF Session
<1>7. session' = [session EXCEPT ![s] = row]
  BY <1>5 DEF VerifySecondFactor, AccountInv, AccountTypeOK
<1>8. RowVouched(row, account')
  BY <1>3, <1>4, <1>6 DEF RowVouched, SameStanding
<1>9. VouchInv'
  BY <1>3, <1>4, <1>7, <1>8, RowReplaced DEF AccountInv
<1>10. session' \in [Sessions -> Session]
  BY <1>7, RowTyped DEF AccountInv
<1>11. wrong' = <<>> /\ UNCHANGED <<sending, step>>
  BY DEF VerifySecondFactor
<1>12. GuessInv'
  BY <1>4, <1>11, GuessesForgotten DEF AccountInv
<1>13. wrong' \in Seq(Nat)
  BY <1>11
<1> QED
  BY <1>4, <1>9, <1>10, <1>11, <1>12, <1>13 DEF AccountInv, AccountTypeOK

(* The authenticator is switched on, or off: a new version of the account. *)
LEMMA SwitchSteps ==
  ASSUME AccountInv, NEW s \in Sessions, NEW n \in (step - 1)..(step + 1),
         Enable(s, n) \/ Disable(s, n)
  PROVE  AccountInv'
<1>1. account \in Account /\ account.secret \in Nat
  BY DEF AccountInv, AccountTypeOK, Account
<1>2. RightCode(s, "enable", n) \/ RightCode(s, "disable", n)
  BY DEF Enable, Disable
<1>3. /\ n \in Nat /\ session[s] \in Session /\ account.verified
      /\ session[s].under = account.password
  BY <1>2, RightCodeFacts
<1>4. PICK a \in Account :
        /\ a = NewVersion(Accepted(n)) /\ a.windowStart = 0
        /\ a.version = account.version + 1 /\ a.verified
        /\ a.password = account.password /\ a.secret = account.secret
  <2>1. PICK b \in Account : /\ b = Accepted(n) /\ b.windowStart = 0
                             /\ SameStanding(b, account) /\ b.verified = account.verified
    BY <1>1, <1>3, AcceptedKeeps
  <2>2. /\ NewVersion(b) \in Account /\ NewVersion(b).version = b.version + 1
        /\ NewVersion(b).verified = b.verified /\ NewVersion(b).password = b.password
        /\ NewVersion(b).secret = b.secret /\ SameBudget(NewVersion(b), b)
    BY NewVersionKeeps
  <2>3. PICK c \in Account : c = NewVersion(b)
    BY <2>2
  <2>4. b.version = account.version /\ b.password = account.password /\ b.secret = account.secret
    BY <2>1 DEF SameStanding
  <2>5. c.windowStart = 0
    BY <2>1, <2>2, <2>3 DEF SameBudget
  <2> QED BY <1>3, <2>1, <2>2, <2>3, <2>4, <2>5
<1>5. wrong' = <<>> /\ UNCHANGED <<sending, step>>
  BY DEF Enable, Disable
<1>6. /\ account' \in Account /\ account'.windowStart = 0 /\ VouchInv'
      /\ session' \in [Sessions -> Session]
  <2>1. CASE Enable(s, n)
    <3>1. account' = [a EXCEPT !.enabled = TRUE]
      BY <1>4, <2>1 DEF Enable
    <3>2. /\ account'.windowStart = 0 /\ account'.version = a.version /\ account'.verified = a.verified
          /\ account'.password = a.password /\ account'.secret = a.secret
      BY <1>4, <3>1 DEF Account
    <3>3. PICK rows \in [Sessions -> Session] :
            /\ rows = [session EXCEPT ![s].shown = account.secret]
            /\ rows[s].under = session[s].under /\ rows[s].shown = account.secret
      <4>1. PICK row \in Session : row = [session[s] EXCEPT !.shown = account.secret]
        BY <1>1, <1>3 DEF Session
      <4>2. row.under = session[s].under /\ row.shown = account.secret
        BY <1>3, <4>1 DEF Session
      <4>3. [session EXCEPT ![s].shown = account.secret] = [session EXCEPT ![s] = row]
        BY <4>1 DEF AccountInv, AccountTypeOK
      <4>4. [session EXCEPT ![s] = row] \in [Sessions -> Session]
        BY RowTyped DEF AccountInv
      <4>5. [session EXCEPT ![s] = row][s] = row
        BY DEF AccountInv, AccountTypeOK
      <4> QED BY <4>2, <4>3, <4>4, <4>5
    <3>4. session' = OthersEnded(rows, s)
      BY <2>1, <3>3 DEF Enable
    <3>5. VouchInv'
      BY <1>3, <1>4, <3>2, <3>3, <3>4, OthersEndedVouched DEF AccountInv
    <3>6. session' \in [Sessions -> Session]
      BY <3>3, <3>4, OthersEndedTyped DEF AccountInv
    <3> QED BY <3>1, <3>2, <3>5, <3>6, EnabledTyped
  <2>2. CASE Disable(s, n)
    <3>1. account' = [a EXCEPT !.enabled = FALSE, !.secret = 0, !.lastUsed = 0]
      BY <1>4, <2>2 DEF Disable
    <3>2. /\ account'.windowStart = 0 /\ account'.version = a.version /\ account'.verified = a.verified
          /\ account'.password = a.password /\ ~account'.enabled
      BY <1>4, <3>1 DEF Account
    <3>3. session' = OthersEnded(session, s) /\ session \in [Sessions -> Session]
      BY <2>2 DEF Disable, AccountInv, AccountTypeOK
    <3>4. VouchInv'
      BY <1>3, <1>4, <3>2, <3>3, OthersEndedVouched DEF AccountInv
    <3>5. session' \in [Sessions -> Session]
      BY <3>3, OthersEndedTyped DEF AccountInv
    <3> QED BY <3>1, <3>2, <3>4, <3>5, EnabledTyped
  <2> QED BY <2>1, <2>2
<1>7. GuessInv'
  BY <1>5, <1>6, GuessesForgotten DEF AccountInv
<1>8. wrong' \in Seq(Nat)
  BY <1>5
<1> QED
  BY <1>5, <1>6, <1>7, <1>8 DEF AccountInv, AccountTypeOK

LEMMA StepPassesStep ==
  ASSUME AccountInv, StepPasses
  PROVE  AccountInv'
<1>1. step' = step + 1 /\ step \in Nat /\ UNCHANGED <<account, session, sending, wrong>>
  BY DEF StepPasses, AccountInv, AccountTypeOK
<1>2. \A i \in 1..Len(wrong) : wrong[i] \in Nat
  BY DEF AccountInv, AccountTypeOK
<1>3. step' >= 1 /\ \A i \in 1..Len(wrong) : wrong[i] <= step'
  BY <1>1, <1>2 DEF AccountInv, GuessInv, Guesses
<1>4. GuessInv'
  BY <1>1, <1>3 DEF AccountInv, GuessInv, Guesses
<1>5. VouchInv'
  BY <1>1 DEF AccountInv, VouchInv, RowVouched
<1>6. AccountTypeOK'
  BY <1>1 DEF AccountInv, AccountTypeOK
<1> QED
  BY <1>4, <1>5, <1>6 DEF AccountInv

LEMMA AccountStep ==
  ASSUME AccountInv, [AccountNext]_accountVars
  PROVE  AccountInv'
<1>1. CASE UNCHANGED accountVars
  <2>1. UNCHANGED <<account, session, sending, wrong, step>>
    BY <1>1 DEF accountVars
  <2>2. SameBudget(account', account) /\ SameStanding(account', account)
    BY <2>1 DEF SameBudget, SameStanding
  <2>3. AccountTypeOK'
    BY <2>1 DEF AccountInv, AccountTypeOK
  <2> QED BY <2>1, <2>2, <2>3, GuessesKept, StandingKept DEF AccountInv
<1>2. ASSUME NEW m \in Mails, RequestCode(m) \/ MailSent(m) \/ MailFails(m)
      PROVE  AccountInv'
  BY <1>2, MailSteps
<1>3. CASE WrongMailCode \/ WrongPassword
  BY <1>3, WrongSteps
<1>4. ASSUME NEW s \in Sessions, VerifyEmail(s) \/ CodeLogIn(s) \/ LogIn(s) \/ SsoLogIn(s)
      PROVE  AccountInv'
  BY <1>4, LogInSteps
<1>5. ASSUME NEW s \in Sessions,
             \/ SessionEnds(s) \/ RequestEnds(s)
             \/ \E r \in {"password", "setup", "others"} : BeginRequest(s, r)
      PROVE  AccountInv'
  BY <1>5, SessionSteps
<1>6. ASSUME NEW s \in Sessions, ChangePassword(s) \/ RevokeOthers(s)
      PROVE  AccountInv'
  BY <1>6, RevocationSteps
<1>7. ASSUME NEW s \in Sessions, SetUp(s)
      PROVE  AccountInv'
  BY <1>7, SetUpStep
<1>8. ASSUME NEW s \in Sessions, NEW purpose \in {"login", "enable", "disable"},
             WrongCode(s, purpose)
      PROVE  AccountInv'
  BY <1>8, WrongCodeStep
<1>9. ASSUME NEW s \in Sessions, NEW n \in (step - 1)..(step + 1), VerifySecondFactor(s, n)
      PROVE  AccountInv'
  BY <1>9, VerifySecondFactorStep
<1>10. ASSUME NEW s \in Sessions, NEW n \in (step - 1)..(step + 1), Enable(s, n) \/ Disable(s, n)
       PROVE  AccountInv'
  BY <1>10, SwitchSteps
<1>11. CASE StepPasses
  BY <1>11, StepPassesStep
<1> QED
  BY <1>1, <1>2, <1>3, <1>4, <1>5, <1>6, <1>7, <1>8, <1>9, <1>10, <1>11 DEF AccountNext

LEMMA AccountStart ==
  ASSUME AccountInit
  PROVE  AccountInv
<1>1. AccountTypeOK
  <2>1. account \in Account
    BY DEF AccountInit, Account
  <2>2. session \in [Sessions -> Session]
    BY DEF AccountInit, NoSession, Session
  <2> QED BY <2>1, <2>2 DEF AccountInit, AccountTypeOK
<1>2. VouchInv
  BY DEF AccountInit, VouchInv, RowVouched, NoSession
<1>3. Len(wrong) = 0 /\ step >= 1 /\ account.windowStart = 0
  BY DEF AccountInit
<1>4. GuessInv
  BY <1>3 DEF GuessInv, Guesses
<1> QED
  BY <1>1, <1>2, <1>4 DEF AccountInv

THEOREM AccountInvariant == AccountSpec => []AccountInv
  BY AccountStart, AccountStep, PTL DEF AccountSpec

(* The row of the account and the sessions have their types (auth.ts). *)
THEOREM AccountTypeCorrect == AccountSpec => []AccountTypeOK
<1>1. AccountInv => AccountTypeOK
  BY DEF AccountInv
<1> QED
  BY <1>1, AccountInvariant, PTL

(* Every session that is accepted was opened under the present password, and  *)
(* past the second step has entered a code of the present authenticator       *)
(* (auth.ts:126, 177).                                                      *)
THEOREM SessionsAreVouched == AccountSpec => []SessionsVouched
<1>1. AccountInv => SessionsVouched
  BY DEF AccountInv, VouchInv, RowVouched, SessionsVouched, Usable
<1> QED
  BY <1>1, AccountInvariant, PTL

(* Between two right codes, 2 * GuessLimit - 1 wrong ones never fall into one *)
(* window, in however many sessions they are entered (auth.ts:146-160).       *)
THEOREM GuessesAreBounded == AccountSpec => []GuessesBounded
<1>1. AccountInv => GuessesBounded
  BY DEF AccountInv, GuessInv, Guesses, GuessesBounded
<1> QED
  BY <1>1, AccountInvariant, PTL
===============================================================================
