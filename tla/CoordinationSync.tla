-------------------------- MODULE CoordinationSync --------------------------
(***************************************************************************)
(* The coordination board: registers of a project that the last writer wins *)
(* (server/src/routes/sync.ts) and the pages that edit them without a        *)
(* connection (client/src/lib/operationSync.ts).  Tabs of one account share *)
(* the browser's storage and may each send the same operation; a request or  *)
(* its answer can be lost, and a request may arrive after its tab has gone. *)
(***************************************************************************)
EXTENDS Integers, Sequences, FiniteSets

CONSTANTS
  Fields,        \* one register for each field of each issue
  Tabs,
  Accounts,
  Signed,        \* tab -> account
  Clients,       \* client identities, in the order that breaks a tie
  NoClient, NoOp,
  PageSize,      \* operations in one answer
  MaxPending,    \* operations a browser keeps
  MaxLog, MaxRegisters, MaxAhead,   \* limits of the server
  MaxStamp, MaxLate  \* bounds of the logical clock and of pushes under way

ASSUME SyncAssumption ==
  /\ Clients \subseteq Nat /\ NoClient \notin Clients
  /\ Signed \in [Tabs -> Accounts]
  /\ PageSize \in Nat \ {0}
  /\ MaxPending \in Nat /\ MaxLog \in Nat /\ MaxRegisters \in Nat /\ MaxAhead \in Nat
  /\ MaxStamp \in Nat /\ MaxLate \in Nat

(* An operation is identified by the client that made it and its clock. *)
Op == [client : Clients, clock : 1..MaxStamp, field : Fields]

ASSUME NoOpAssumption == NoOp \notin Op

VARIABLES
  log,        \* project_sync_operations
  register,   \* project_sync_registers
  highest,    \* MAX(logical_clock), a key of its own at Redis
  stored,     \* localStorage: account -> operations
  tab,       \* the CoordinationSync object of each tab
  fresh,      \* identities nobody has drawn yet
  late        \* pushes whose tab no longer waits

syncVars == <<log, register, highest, stored, tab, fresh, late>>

InLog == {log[i] : i \in DOMAIN log}

Board == [Fields -> Op \cup {NoOp}]

EmptyBoard == [f \in Fields |-> NoOp]

Stopped == [pc |-> "closed", client |-> NoClient, clock |-> 0, cursor |-> 0, board |-> EmptyBoard,
           pending |-> {}, blocked |-> FALSE, whole |-> FALSE, sent |-> NoOp, got |-> {},
           upTo |-> 0, told |-> 0]

Tab ==
  [pc : {"closed", "idle", "pulling", "pulled", "pushing", "applied", "pushed"},
   client : Clients \cup {NoClient}, clock : Nat, cursor : Nat, board : Board,
   pending : SUBSET Op,        \* kept sorted by clock
   blocked : BOOLEAN,          \* more was stored than a tab may hold
   whole : BOOLEAN,            \* this pull asks for a snapshot
   sent : Op \cup {NoOp},      \* the operation being pushed
   got : SUBSET Op, upTo : Nat, told : Nat]  \* the answer: registers, cursor, clock

SyncTypeOK ==
  /\ log \in Seq(Op)
  /\ register \in Board
  /\ highest \in Nat
  /\ stored \in [Accounts -> SUBSET Op]
  /\ tab \in [Tabs -> Tab]
  /\ fresh \in SUBSET Clients
  /\ late \in SUBSET Op

SyncInit ==
  /\ log = <<>> /\ register = EmptyBoard /\ highest = 0
  /\ stored = [a \in Accounts |-> {}]
  /\ tab = [p \in Tabs |-> Stopped]
  /\ fresh = Clients
  /\ late = {}

-----------------------------------------------------------------------------
(* The order of operations on one register: clock, then client. *)
Beats(o, r) ==
  \/ r = NoOp
  \/ o.clock > r.clock
  \/ o.clock = r.clock /\ o.client > r.client

(* A board after the operations of S were taken in, one after the other. *)
Merged(b, S) ==
  [f \in Fields |->
     LET best == {o \in S : /\ o.field = f /\ Beats(o, b[f])
                           /\ \A q \in S : q.field = f /\ q # o => Beats(o, q)}
     IN  IF best = {} THEN b[f] ELSE CHOOSE o \in best : TRUE]

(* loadPending: what other tabs of the account have stored is queued too.    *)
(* Beyond the limit it is left where it is, and the tab makes no more edits.  *)
Loads(p) ==
  LET all  == tab[p].pending \cup stored[Signed[p]]
      seen == {tab[p].clock} \cup {o.clock : o \in all}
  IN
  IF Cardinality(all) <= MaxPending
    THEN {[tab[p] EXCEPT !.pending = all, !.clock = CHOOSE c \in seen : \A d \in seen : c >= d]}
    ELSE {[tab[p] EXCEPT !.pending = S, !.blocked = TRUE] :
            S \in {S \in SUBSET all : tab[p].pending \subseteq S /\ Cardinality(S) <= MaxPending}}

Later(a, b) == IF a >= b THEN a ELSE b

-----------------------------------------------------------------------------
(* The workspace is opened: a tab with an identity of its own begins with    *)
(* what is stored and asks for a snapshot.                                   *)
OpenBoard(p, c) ==
  /\ tab[p].pc = "closed" /\ c \in fresh
  /\ fresh' = fresh \ {c}
  /\ \E l \in Loads(p) :
       tab' = [tab EXCEPT ![p] = [l EXCEPT !.pc = "pulling", !.client = c, !.whole = TRUE]]
  /\ UNCHANGED <<log, register, highest, stored, late>>

(* enqueue, at any time; the storage may refuse the record. *)
Write(p, f) ==
  /\ tab[p].pc # "closed" /\ ~tab[p].blocked
  /\ \E l \in Loads(p) :
       LET o == [client |-> l.client, clock |-> l.clock + 1, field |-> f] IN
       /\ ~l.blocked /\ Cardinality(l.pending) < MaxPending
       /\ o.clock <= MaxStamp                                        \* bound
       /\ \/ stored' = [stored EXCEPT ![Signed[p]] = @ \cup {o}]
          \/ UNCHANGED stored
       /\ tab' = [tab EXCEPT ![p] = [l EXCEPT !.clock = o.clock, !.pending = l.pending \cup {o}]]
  /\ UNCHANGED <<log, register, highest, fresh, late>>

(* synchronize: by the timer, after an edit or by the button. *)
Synchronize(p) ==
  /\ tab[p].pc = "idle"
  /\ \E l \in Loads(p) :
       tab' = [tab EXCEPT ![p] = [l EXCEPT !.pc = "pulling", !.whole = FALSE]]
  /\ UNCHANGED <<log, register, highest, stored, fresh, late>>

(* Mutant: the cursor is the end of the journal, whatever was sent. *)
CursorAfter_End(n) == Len(log)

CursorAfter(n) == n

(* GET: the registers and the end of the journal, or one page of it. *)
ServePull(p) ==
  LET s == tab[p]
      n == IF s.cursor + PageSize <= Len(log) THEN s.cursor + PageSize ELSE Len(log)
  IN
  /\ s.pc = "pulling"
  /\ tab' = [tab EXCEPT ![p] =
       [s EXCEPT !.pc   = "pulled",
                 !.told = highest,
                 !.upTo = IF s.whole THEN Len(log) ELSE CursorAfter(n),
                 !.got  = IF s.whole THEN {register[f] : f \in Fields} \ {NoOp}
                          ELSE {log[i] : i \in s.cursor + 1 .. n}]]
  /\ UNCHANGED <<log, register, highest, stored, fresh, late>>

(* The request is over, whatever it was and however it ended. *)
Answered(p) == [tab[p] EXCEPT !.whole = FALSE, !.sent = NoOp, !.got = {}, !.upTo = 0, !.told = 0]

(* The loop goes on at once: the next pending operation is sent, in the order *)
(* of the clock, until nothing is pending.                                   *)
Continues(s) ==
  IF s.pending = {} THEN {[s EXCEPT !.pc = "idle"]}
  ELSE {[s EXCEPT !.pc = "pushing", !.sent = o] :
          o \in {o \in s.pending : \A q \in s.pending : o.clock <= q.clock}}

(* The answer is taken in; after a full page the next one may be asked for.   *)
TakePull(p) ==
  LET s     == tab[p]
      base  == IF s.whole THEN EmptyBoard ELSE s.board
      taken == [Answered(p) EXCEPT !.board = Merged(base, s.got), !.cursor = s.upTo,
                                   !.clock = Later(s.clock, s.told)]
  IN
  /\ s.pc = "pulled"
  /\ \/ \E t \in Continues(taken) : tab' = [tab EXCEPT ![p] = t]
     \/ /\ ~s.whole /\ Cardinality(s.got) = PageSize
        /\ tab' = [tab EXCEPT ![p] = [taken EXCEPT !.pc = "pulling"]]
  /\ UNCHANGED <<log, register, highest, stored, fresh, late>>

(* Mutant: a push is appended without a look at its identity. *)
Known_Never(o) == FALSE

Known(o) == o \in InLog

(* POST: accepted once and appended; the register follows if it wins. *)
Accepts(o) ==
  /\ Len(log) < MaxLog
  /\ o.clock <= highest + MaxAhead
  /\ register[o.field] = NoOp => Cardinality({f \in Fields : register[f] # NoOp}) < MaxRegisters

Apply(o) ==
  IF Known(o)
    THEN UNCHANGED <<log, register, highest>>
    ELSE /\ Accepts(o)
         /\ log' = Append(log, o)
         /\ register' = IF Beats(o, register[o.field]) THEN [register EXCEPT ![o.field] = o]
                                                        ELSE register
         /\ highest' = Later(highest, o.clock)

ServePush(p) ==
  /\ tab[p].pc = "pushing"
  /\ Apply(tab[p].sent)
  /\ tab' = [tab EXCEPT ![p].pc = "applied",
                          ![p].told = IF Known(tab[p].sent) THEN 0 ELSE highest']
  /\ UNCHANGED <<stored, fresh, late>>

(* The register is read for the answer after the transaction. *)
AnswerPush(p) ==
  /\ tab[p].pc = "applied"
  /\ tab' = [tab EXCEPT ![p].pc = "pushed", ![p].got = {register[tab[p].sent.field]}]
  /\ UNCHANGED <<log, register, highest, stored, fresh, late>>

(* Mutant: the clock follows the server's, not the register's. *)
ClockAfter_Told(s, r) == Later(s.clock, s.told)

ClockAfter(s, r) == Later(Later(s.clock, s.told), r.clock)

(* Mutant: the operation at the head of the queue is the one acknowledged. *)
Acknowledged_Head(s) == CHOOSE o \in s.pending : \A q \in s.pending : o.clock <= q.clock

Acknowledged(s) == s.sent

TakePush(p) ==
  LET s == tab[p] IN
  /\ s.pc = "pushed"
  /\ \E r \in s.got :
       \E t \in Continues([Answered(p) EXCEPT !.board = Merged(s.board, {r}), !.clock = ClockAfter(s, r),
                                              !.pending = @ \ {Acknowledged(s)}]) :
         tab' = [tab EXCEPT ![p] = t]
  /\ stored' = [stored EXCEPT ![Signed[p]] = @ \ {Acknowledged(s)}]
  /\ UNCHANGED <<log, register, highest, fresh, late>>

(* A push that nobody waits for any more may still arrive. *)
Abandoned(p) ==
  \/ UNCHANGED late
  \/ /\ tab[p].pc = "pushing"
     /\ late' = late \cup {tab[p].sent}
     /\ Len(log) + Cardinality(late') <= MaxLate                      \* bound

ServeLate(o) ==
  /\ o \in late
  /\ Apply(o)
  /\ late' = late \ {o}
  /\ UNCHANGED <<stored, tab, fresh>>

(* A request is refused, times out or gets no answer: the edits stay queued.   *)
(* A pull that nobody served leaves the same behind as one whose answer is    *)
(* lost, and an answered push the same as an applied one.                   *)
Fail(p) ==
  /\ tab[p].pc \in {"pulled", "pushing", "applied"}
  /\ tab' = [tab EXCEPT ![p] = [Answered(p) EXCEPT !.pc = "idle"]]
  /\ Abandoned(p)
  /\ UNCHANGED <<log, register, highest, stored, fresh>>

(* stop: what is pending is written once more, although another tab may have *)
(* sent it and removed the record; or the tab is gone without that.           *)
StopSync(p) ==
  /\ tab[p].pc # "closed"
  /\ \/ stored' = [stored EXCEPT ![Signed[p]] = @ \cup tab[p].pending]
     \/ UNCHANGED stored
  /\ tab' = [tab EXCEPT ![p] = Stopped]
  /\ Abandoned(p)
  /\ UNCHANGED <<log, register, highest, fresh>>

SyncNext ==
  \/ \E p \in Tabs :
       \/ Synchronize(p) \/ ServePull(p) \/ TakePull(p) \/ ServePush(p)
       \/ AnswerPush(p) \/ TakePush(p) \/ Fail(p) \/ StopSync(p)
       \/ \E c \in Clients : OpenBoard(p, c)
       \/ \E f \in Fields : Write(p, f)
  \/ \E o \in late : ServeLate(o)

SyncSpec == SyncInit /\ [][SyncNext]_syncVars

-----------------------------------------------------------------------------
(* Whoever has read the journal up to a place shows, in every register, at    *)
(* least the winner of what was accepted so far, and nothing that was not     *)
(* accepted: pages that have read the same agree, in whatever order answers,  *)
(* snapshots and acknowledgements reached them.                             *)
Shows(b, n) ==
  /\ \A f \in Fields : b[f] # NoOp => b[f] \in InLog /\ b[f].field = f
  /\ \A i \in 1..n : ~Beats(log[i], b[log[i].field])

Converged ==
  /\ Shows(register, Len(log))
  /\ \A p \in Tabs : tab[p].cursor <= Len(log) /\ Shows(tab[p].board, tab[p].cursor)

(* An operation that several tabs send, or one tab again after a lost       *)
(* answer, is in the journal once.                                          *)
EachOnce == \A i, j \in DOMAIN log : log[i] = log[j] => i = j

(* An edit is later than everything its author could see when making it, so   *)
(* that it is never undone by what it was meant to change.                   *)
EditsSupersede ==
  [][\A p \in Tabs : \A o \in tab'[p].pending \ (tab[p].pending \cup stored[Signed[p]]) :
       /\ \A f \in Fields : tab[p].board[f] # NoOp => tab[p].board[f].clock < o.clock
       /\ \A q \in tab[p].pending : q.clock < o.clock]_syncVars

(* The record of an edit leaves the browser only when the server has it. *)
EditsKept ==
  [][\A a \in Accounts : stored[a] \ stored'[a] \subseteq InLog]_syncVars
=============================================================================
