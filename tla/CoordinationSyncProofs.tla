----------------------- MODULE CoordinationSyncProofs -----------------------
(***************************************************************************)
(* Theorems about the coordination board, for any number of tabs, accounts, *)
(* clients and registers and any size of pages, queues and journal.         *)
(***************************************************************************)
EXTENDS CoordinationSync, FiniteSetTheorems, WellFoundedInduction, TLAPS

(* The operations on one register are ordered by clock, then client. *)
LEMMA OpFields ==
  ASSUME NEW o \in Op
  PROVE  o.clock \in Nat /\ o.client \in Nat /\ o.field \in Fields /\ o # NoOp
  <1>1. o.clock \in Nat /\ o.field \in Fields /\ o.client \in Clients
    BY DEF Op
  <1>2. o.client \in Nat
    BY <1>1, SyncAssumption
  <1>3. o # NoOp
    BY NoOpAssumption
  <1> QED BY <1>1, <1>2, <1>3

LEMMA SameOp ==
  ASSUME NEW o \in Op, NEW q \in Op, o.clock = q.clock, o.client = q.client, o.field = q.field
  PROVE  o = q
  BY DEF Op

LEMMA BeatsTransitive ==
  ASSUME NEW o \in Op, NEW q \in Op, NEW r \in Op \cup {NoOp}, Beats(o, q), Beats(q, r)
  PROVE  Beats(o, r)
  BY OpFields DEF Beats

LEMMA BeatsIrreflexive == ASSUME NEW o \in Op PROVE ~Beats(o, o)
  BY OpFields DEF Beats

LEMMA BeatsTotal ==
  ASSUME NEW o \in Op, NEW q \in Op, o.field = q.field, o # q, ~Beats(o, q)
  PROVE  Beats(q, o)
  BY OpFields, SameOp DEF Beats

LEMMA BeatenBy ==
  ASSUME NEW o \in Op, NEW q \in Op, NEW r \in Op \cup {NoOp}, ~Beats(o, r), Beats(q, r)
  PROVE  ~Beats(o, q)
  BY OpFields DEF Beats

(* A set of natural numbers has a least member, a bounded one a greatest. *)
LEMMA Least ==
  ASSUME NEW N \in SUBSET Nat, N # {}
  PROVE  \E n \in N : \A m \in N : n <= m
  <1>1. PICK n \in N : \A m \in N : ~(<<m, n>> \in OpToRel(<, Nat))
    BY NatLessThanWellFounded, WFMin
  <1>2. \A m \in N : ~(m < n)
    BY <1>1 DEF OpToRel
  <1> QED BY <1>2

(* Finitely many operations on one register have a last one. *)
LEMMA LastOp ==
  ASSUME NEW S \in SUBSET Op, IsFiniteSet(S), S # {},
         \A o, q \in S : o.field = q.field
  PROVE  \E o \in S : \A q \in S : q # o => Beats(o, q)
  <1> DEFINE Above(o) == {q \in S : Beats(q, o)}
             N == {Cardinality(Above(o)) : o \in S}
  <1>1. \A o \in S : IsFiniteSet(Above(o)) /\ Cardinality(Above(o)) \in Nat
    <2> TAKE o \in S
    <2>1. Above(o) \in SUBSET S
      OBVIOUS
    <2>2. IsFiniteSet(Above(o))
      BY <2>1, FS_Subset
    <2> QED BY <2>2, FS_CardinalityType
  <1>2. N \in SUBSET Nat /\ N # {}
    BY <1>1
  <1>3. PICK n \in N : \A m \in N : n <= m
    <2> HIDE DEF N
    <2> QED BY <1>2, Least
  <1>4. PICK o \in S : n = Cardinality(Above(o))
    OBVIOUS
  <1>5. ASSUME NEW q \in S, q # o
        PROVE  Beats(o, q)
    <2> SUFFICES ASSUME ~Beats(o, q)
                 PROVE  FALSE
      OBVIOUS
    <2>1. Beats(q, o)
      BY <1>5, BeatsTotal
    <2>2. Above(q) \subseteq Above(o)
      BY <2>1, BeatsTransitive
    <2>3. q \in Above(o) /\ q \notin Above(q)
      BY <2>1, BeatsIrreflexive
    <2>4. Cardinality(Above(o)) <= Cardinality(Above(q))
      BY <1>3, <1>4
    <2>5. Cardinality(Above(q)) <= Cardinality(Above(o))
      BY <1>1, <2>2, FS_Subset
    <2>6. Cardinality(Above(q)) = Cardinality(Above(o))
      <3>1. Cardinality(Above(q)) \in Nat /\ Cardinality(Above(o)) \in Nat
        BY <1>1
      <3> QED BY <3>1, <2>4, <2>5
    <2>7. Above(o) = Above(q)
      BY <1>1, <2>2, <2>6, FS_Subset
    <2> QED BY <2>3, <2>7
  <1> QED BY <1>5

(* What a register shows after some operations were taken in: the old one or  *)
(* one of these, beaten by none of them nor by what lost already.            *)
Joins(b, S, f, m) ==
  /\ \/ m = b[f]
     \/ m \in S /\ m.field = f
  /\ \A o \in S : o.field = f => ~Beats(o, m)
  /\ \A o \in Op : ~Beats(o, b[f]) => ~Beats(o, m)

LEMMA MergedBoard ==
  ASSUME NEW b \in Board, NEW S \in SUBSET Op, IsFiniteSet(S)
  PROVE  /\ Merged(b, S) \in Board
         /\ \A f \in Fields : Joins(b, S, f, Merged(b, S)[f])
  <1> SUFFICES ASSUME NEW f \in Fields
               PROVE  /\ Merged(b, S)[f] \in Op \cup {NoOp}
                      /\ Joins(b, S, f, Merged(b, S)[f])
    BY DEF Merged, Board
  <1> DEFINE best == {o \in S : /\ o.field = f /\ Beats(o, b[f])
                                /\ \A q \in S : q.field = f /\ q # o => Beats(o, q)}
             new == {o \in S : o.field = f /\ Beats(o, b[f])}
             m == Merged(b, S)[f]
  <1>1. m = IF best = {} THEN b[f] ELSE CHOOSE o \in best : TRUE
    BY DEF Merged
  <1>2. b[f] \in Op \cup {NoOp}
    BY DEF Board
  <1>3. CASE best = {}
    <2>1. new = {}
      <3> SUFFICES ASSUME new # {}
                   PROVE  FALSE
        OBVIOUS
      <3>1. new \in SUBSET S
        OBVIOUS
      <3>2. IsFiniteSet(new)
        BY <3>1, FS_Subset
      <3>3. PICK o \in new : \A q \in new : q # o => Beats(o, q)
        BY <3>1, <3>2, LastOp
      (* What is not new is beaten by the register, and so by the last. *)
      <3>4. ASSUME NEW q \in S, q.field = f, q # o
            PROVE  Beats(o, q)
        <4>1. CASE q \in new
          BY <3>3, <3>4, <4>1
        <4>2. CASE ~Beats(q, b[f])
          <5>1. ~Beats(q, o)
            BY <1>2, <4>2, BeatenBy
          <5> QED BY <3>4, <5>1, BeatsTotal
        <4> QED BY <3>4, <4>1, <4>2
      <3> QED BY <1>3, <3>4
    <2>2. m = b[f]
      BY <1>1, <1>3
    <2>3. \A o \in S : o.field = f => ~Beats(o, b[f])
      BY <2>1
    <2> HIDE DEF m
    <2>4. Joins(b, S, f, m)
      BY <2>2, <2>3 DEF Joins
    <2> QED BY <1>2, <2>2, <2>4 DEF m
  <1>4. CASE best # {}
    <2>1. PICK o \in best : m = o
      BY <1>1, <1>4
    <2>2. o \in S /\ o \in Op /\ o.field = f /\ Beats(o, b[f])
      BY <2>1
    <2>3. ASSUME NEW q \in S, q.field = f
          PROVE  ~Beats(q, o)
      <3>1. CASE q = o
        BY <2>2, <3>1, BeatsIrreflexive
      <3>2. CASE q # o
        <4>1. Beats(o, q)
          BY <2>1, <2>3, <3>2
        <4> QED BY <2>2, <4>1, BeatsIrreflexive, BeatsTransitive
      <3> QED BY <3>1, <3>2
    <2>4. \A q \in Op : ~Beats(q, b[f]) => ~Beats(q, o)
      BY <1>2, <2>2, BeatenBy
    <2> HIDE DEF m, best
    <2>5. Joins(b, S, f, m)
      BY <2>1, <2>2, <2>3, <2>4 DEF Joins
    <2> QED BY <2>1, <2>2, <2>5 DEF m
  <1> QED BY <1>3, <1>4

-----------------------------------------------------------------------------
(* What a journal holds, and what a board that has read a part of it shows. *)
Logged(o, l) == \E i \in 1..Len(l) : l[i] = o

Sees(b, n, l) ==
  /\ \A f \in Fields : b[f] # NoOp => Logged(b[f], l) /\ b[f].field = f
  /\ \A i \in 1..n : ~Beats(l[i], b[l[i].field])

Grows(l, m) == /\ Len(l) <= Len(m)
               /\ \A i \in 1..Len(l) : m[i] = l[i]

LEMMA LoggedGrows ==
  ASSUME NEW l \in Seq(Op), NEW m \in Seq(Op), Grows(l, m), NEW o, Logged(o, l)
  PROVE  Logged(o, m)
  <1>1. PICK i \in 1..Len(l) : l[i] = o
    BY DEF Logged
  <1>2. i \in 1..Len(m) /\ m[i] = o
    BY <1>1 DEF Grows
  <1> QED BY <1>2 DEF Logged

LEMMA SeesGrows ==
  ASSUME NEW l \in Seq(Op), NEW m \in Seq(Op), Grows(l, m), NEW b, NEW n \in 0..Len(l),
         Sees(b, n, l)
  PROVE  Sees(b, n, m)
  <1>1. \A i \in 1..n : i \in 1..Len(l) /\ m[i] = l[i]
    BY DEF Grows
  <1> QED BY <1>1, LoggedGrows DEF Sees

LEMMA LoggedFinite ==
  ASSUME NEW l \in Seq(Op), NEW S, \A o \in S : Logged(o, l)
  PROVE  IsFiniteSet(S)
  <1> DEFINE All == {o \in Op : Logged(o, l)}
             f == [i \in 1..Len(l) |-> l[i]]
  <1>1. Len(l) \in Nat /\ \A i \in 1..Len(l) : l[i] \in Op
    OBVIOUS
  <1>2. f \in Surjection(1..Len(l), All)
    BY <1>1 DEF Surjection, Logged
  <1>3. IsFiniteSet(1..Len(l))
    BY <1>1, FS_Interval
  <1>4. IsFiniteSet(All)
    <2> HIDE DEF f, All
    <2> QED BY <1>2, <1>3, FS_Surjection
  <1>5. S \in SUBSET All
    BY <1>1 DEF Logged
  <1> HIDE DEF All
  <1> QED BY <1>4, <1>5, FS_Subset

(* A board that took in what it had not read sees as far as that goes. *)
LEMMA MergeSees ==
  ASSUME NEW l \in Seq(Op), NEW b \in Board, NEW n \in 0..Len(l), Sees(b, n, l),
         NEW S \in SUBSET Op, \A o \in S : Logged(o, l),
         NEW k \in 0..Len(l),
         \A i \in 1..k : \/ i \in 1..n
                         \/ \E o \in S : o.field = l[i].field /\ ~Beats(l[i], o)
  PROVE  Merged(b, S) \in Board /\ Sees(Merged(b, S), k, l)
  <1> DEFINE M == Merged(b, S)
  <1>1. M \in Board /\ \A f \in Fields : Joins(b, S, f, M[f])
    BY LoggedFinite, MergedBoard
  <1> HIDE DEF M
  <1>2. ASSUME NEW f \in Fields, M[f] # NoOp
        PROVE  Logged(M[f], l) /\ M[f].field = f
    BY <1>1, <1>2 DEF Joins, Sees
  <1>3. ASSUME NEW i \in 1..k
        PROVE  ~Beats(l[i], M[l[i].field])
    <2> DEFINE x == l[i]
               f == x.field
    <2>1. x \in Op /\ f \in Fields
      <3>1. x \in Op
        OBVIOUS
      <3> QED BY <3>1, OpFields
    <2>2. Joins(b, S, f, M[f]) /\ M[f] \in Op \cup {NoOp}
      BY <1>1, <2>1 DEF Board
    <2>3. CASE i \in 1..n
      <3>1. ~Beats(x, b[f])
        BY <2>3 DEF Sees
      <3> HIDE DEF x, f
      <3> QED BY <2>1, <2>2, <3>1 DEF Joins, x, f
    <2>4. CASE \E o \in S : o.field = f /\ ~Beats(x, o)
      <3>1. PICK o \in S : o.field = f /\ ~Beats(x, o)
        BY <2>4
      <3>2. o \in Op /\ ~Beats(o, M[f])
        BY <2>2, <3>1 DEF Joins
      <3> HIDE DEF x
      <3> SUFFICES ASSUME Beats(x, M[f])
                   PROVE  FALSE
        BY DEF x
      <3>3. x # o
        BY <3>2
      <3>4. Beats(o, x)
        BY <2>1, <3>1, <3>2, <3>3, BeatsTotal
      <3> QED BY <2>1, <2>2, <3>2, <3>4, BeatsTransitive
    <2> QED BY <2>3, <2>4
  <1>4. Sees(M, k, l)
    BY <1>2, <1>3 DEF Sees
  <1> QED BY <1>1, <1>4 DEF M

(* The clocks of a board stay below a clock that is late enough. *)
Within(b, c) == \A f \in Fields : b[f] # NoOp => b[f].clock <= c

LEMMA MergeWithin ==
  ASSUME NEW b \in Board, NEW S \in SUBSET Op, IsFiniteSet(S), NEW c \in Nat,
         Within(b, c), \A o \in S : o.clock <= c
  PROVE  Within(Merged(b, S), c)
  BY MergedBoard DEF Within, Joins

LEMMA LaterNat ==
  ASSUME NEW a \in Nat, NEW b \in Nat
  PROVE  Later(a, b) \in Nat /\ a <= Later(a, b) /\ b <= Later(a, b)
  BY DEF Later

LEMMA WithinLater ==
  ASSUME NEW b \in Board, NEW c \in Nat, NEW d \in Nat, Within(b, c), c <= d
  PROVE  Within(b, d)
  <1> SUFFICES ASSUME NEW f \in Fields, b[f] # NoOp
               PROVE  b[f].clock <= d
    BY DEF Within
  <1>1. b[f] \in Op
    BY DEF Board
  <1>2. b[f].clock \in Nat /\ b[f].clock <= c
    BY <1>1, OpFields DEF Within
  <1> QED BY <1>2

-----------------------------------------------------------------------------
(* The invariant: the clock of the server is past every operation, the        *)
(* registers see the whole journal, a tab's board sees it as far as its       *)
(* cursor, its clock is past what it shows and it has an identity, and an answer under way was    *)
(* true of the journal when it was given and still is, since that only grows. *)
Core(s, l) ==
  /\ s.cursor <= Len(l)
  /\ Sees(s.board, s.cursor, l)
  /\ Within(s.board, s.clock)
  /\ s.pc # "closed" => s.client \in Clients

Reply(s, l) ==
  /\ \A o \in s.got : Logged(o, l)
  /\ s.pc = "pulled" =>
       /\ s.upTo <= Len(l)
       /\ \A o \in s.got : o.clock <= s.told
       /\ \A i \in 1..s.upTo : \/ ~s.whole /\ i \in 1..s.cursor
                               \/ \E o \in s.got : o.field = l[i].field /\ ~Beats(l[i], o)
  /\ s.pc = "pushing" => s.sent \in Op
  /\ s.pc \in {"applied", "pushed"} => Logged(s.sent, l)

JournalInv ==
  /\ \A i \in 1..Len(log) : log[i].clock <= highest
  /\ Sees(register, Len(log), log)

TabsInv == \A p \in Tabs : Core(tab[p], log) /\ Reply(tab[p], log)

SyncInv == SyncTypeOK /\ JournalInv /\ TabsInv

-----------------------------------------------------------------------------
LEMMA TabFields ==
  ASSUME NEW s \in Tab
  PROVE  /\ s.clock \in Nat /\ s.cursor \in Nat /\ s.upTo \in Nat /\ s.told \in Nat
         /\ s.board \in Board /\ s.got \in SUBSET Op /\ s.pending \in SUBSET Op
         /\ s.sent \in Op \cup {NoOp} /\ s.whole \in BOOLEAN /\ s.blocked \in BOOLEAN
         /\ s.client \in Clients \cup {NoClient}
  BY DEF Tab

LEMMA LogFields ==
  ASSUME NEW l \in Seq(Op)
  PROVE  /\ Len(l) \in Nat /\ DOMAIN l = 1..Len(l)
         /\ \A i \in 1..Len(l) : l[i] \in Op
         /\ \A o : Logged(o, l) => o \in Op
  BY DEF Logged

LEMMA CoreGrows ==
  ASSUME NEW l \in Seq(Op), NEW m \in Seq(Op), Grows(l, m), NEW s \in Tab, Core(s, l)
  PROVE  Core(s, m)
  <1>1. s.cursor \in 0..Len(l)
    BY LogFields, TabFields DEF Core
  <1>2. Sees(s.board, s.cursor, m)
    BY <1>1, SeesGrows DEF Core
  <1>3. s.cursor <= Len(m)
    BY <1>1, LogFields DEF Grows
  <1> QED BY <1>2, <1>3 DEF Core

LEMMA ReplyGrows ==
  ASSUME NEW l \in Seq(Op), NEW m \in Seq(Op), Grows(l, m), NEW s \in Tab, Reply(s, l)
  PROVE  Reply(s, m)
  <1>1. /\ \A o \in s.got : Logged(o, m)
        /\ s.pc \in {"applied", "pushed"} => Logged(s.sent, m)
    BY LoggedGrows DEF Reply
  <1>2. ASSUME s.pc = "pulled"
        PROVE  /\ s.upTo <= Len(m)
               /\ \A i \in 1..s.upTo :
                    \/ ~s.whole /\ i \in 1..s.cursor
                    \/ \E o \in s.got : o.field = m[i].field /\ ~Beats(m[i], o)
    <2>1. s.upTo \in Nat /\ s.upTo <= Len(l) /\ Len(l) \in Nat /\ Len(m) \in Nat /\ Len(l) <= Len(m)
      BY <1>2, TabFields, LogFields DEF Reply, Grows
    <2>2. \A i \in 1..s.upTo : m[i] = l[i]
      BY <2>1 DEF Grows
    <2> QED BY <1>2, <2>1, <2>2 DEF Reply
  <1> QED BY <1>1, <1>2 DEF Reply

(* A tab moves on and the journal stays. *)
LEMMA TabMoves ==
  ASSUME SyncInv, NEW p \in Tabs, NEW t \in Tab, tab' = [tab EXCEPT ![p] = t],
         Core(t, log), Reply(t, log), UNCHANGED <<log, register, highest>>,
         stored' \in [Accounts -> SUBSET Op], fresh' \in SUBSET Clients, late' \in SUBSET Op
  PROVE  SyncInv'
  <1>1. SyncTypeOK'
    BY DEF SyncInv, SyncTypeOK
  <1>2. JournalInv'
    BY DEF SyncInv, JournalInv
  <1>3. TabsInv'
    <2> SUFFICES ASSUME NEW q \in Tabs
                 PROVE  Core(tab'[q], log) /\ Reply(tab'[q], log)
      BY DEF TabsInv
    <2>1. tab'[q] = IF q = p THEN t ELSE tab[q]
      BY DEF SyncInv, SyncTypeOK
    <2> QED BY <2>1 DEF SyncInv, TabsInv
  <1> QED BY <1>1, <1>2, <1>3 DEF SyncInv

(* The stored edits taken in: nothing else of the tab changes, and a tab that *)
(* may make edits has a clock past all of them.                              *)
LEMMA Greatest ==
  ASSUME NEW N \in SUBSET Nat, N # {}, NEW k \in Nat, \A n \in N : n <= k
  PROVE  \E n \in N : \A m \in N : n >= m
  <1> DEFINE D == {k - n : n \in N}
  <1>1. D \in SUBSET Nat /\ D # {}
    <2>1. \A n \in N : k - n \in Nat
      <3> TAKE n \in N
      <3>1. n \in Nat /\ n <= k
        OBVIOUS
      <3> QED BY <3>1
    <2> QED BY <2>1
  <1>2. PICK d \in D : \A e \in D : d <= e
    <2> HIDE DEF D
    <2> QED BY <1>1, Least
  <1>3. PICK n \in N : d = k - n
    OBVIOUS
  <1>4. ASSUME NEW m \in N PROVE n >= m
    <2>1. d <= k - m
      BY <1>2
    <2>2. n \in Nat /\ m \in Nat
      OBVIOUS
    <2> QED BY <1>3, <2>1, <2>2
  <1> QED BY <1>4

LEMMA LoadsGood ==
  ASSUME SyncTypeOK, NEW p \in Tabs, NEW l \in Loads(p)
  PROVE  /\ l \in Tab
         /\ l.pc = tab[p].pc /\ l.client = tab[p].client /\ l.cursor = tab[p].cursor
         /\ l.board = tab[p].board /\ l.whole = tab[p].whole /\ l.sent = tab[p].sent
         /\ l.got = tab[p].got /\ l.upTo = tab[p].upTo /\ l.told = tab[p].told
         /\ tab[p].clock <= l.clock
         /\ l.pending \subseteq tab[p].pending \cup stored[Signed[p]]
         /\ ~l.blocked =>
              \A o \in tab[p].pending \cup stored[Signed[p]] : o \in l.pending /\ o.clock <= l.clock
  <1> DEFINE s    == tab[p]
             all  == s.pending \cup stored[Signed[p]]
             seen == {s.clock} \cup {o.clock : o \in all}
             c    == CHOOSE c \in seen : \A d \in seen : c >= d
  <1>1. s \in Tab /\ all \in SUBSET Op
    BY SyncAssumption, TabFields DEF SyncTypeOK
  <1>2. CASE Cardinality(all) <= MaxPending
    <2>1. l = [s EXCEPT !.pending = all, !.clock = c]
      BY <1>2 DEF Loads
    <2>2. seen \in SUBSET Nat /\ s.clock \in seen
      BY <1>1, TabFields, OpFields
    <2>3. s.clock \in Nat /\ MaxStamp \in Nat
      BY <1>1, TabFields, SyncAssumption
    <2>4. \A n \in seen : n <= Later(s.clock, MaxStamp)
      <3>1. \A o \in all : o.clock <= MaxStamp /\ o.clock \in Nat
        BY <1>1, <2>3 DEF Op
      <3>2. \A n \in seen : n = s.clock \/ (n <= MaxStamp /\ n \in Nat)
        BY <3>1
      <3> HIDE DEF seen, s
      <3> QED BY <2>3, <3>2, LaterNat DEF Later
    <2>5. \E n \in seen : \A m \in seen : n >= m
      <3>1. Later(s.clock, MaxStamp) \in Nat
        BY <2>3, LaterNat
      <3> HIDE DEF seen, s
      <3> QED BY <2>2, <2>4, <3>1, Greatest
    <2>6. c \in seen /\ \A d \in seen : c >= d
      <3> HIDE DEF seen
      <3> QED BY <2>5
    <2>7. c \in Nat /\ s.clock <= c /\ \A o \in all : o.clock <= c
      <3>1. \A d \in seen : d <= c
        <4> HIDE DEF seen, c
        <4> QED BY <2>2, <2>6
      <3> QED BY <2>2, <2>6, <3>1
    <2> HIDE DEF c, all, seen
    <2>8. l \in Tab
      BY <1>1, <2>1, <2>7 DEF Tab
    <2>9. /\ l.pc = s.pc /\ l.client = s.client /\ l.cursor = s.cursor
          /\ l.board = s.board /\ l.whole = s.whole /\ l.sent = s.sent
          /\ l.got = s.got /\ l.upTo = s.upTo /\ l.told = s.told
          /\ l.clock = c /\ l.pending = all
      BY <1>1, <2>1 DEF Tab
    <2> HIDE DEF s
    <2> QED BY <2>7, <2>8, <2>9 DEF s, all
  <1>3. CASE ~(Cardinality(all) <= MaxPending)
    <2>1. PICK S \in SUBSET all : l = [s EXCEPT !.pending = S, !.blocked = TRUE]
      BY <1>3 DEF Loads
    <2>2. S \in SUBSET Op
      BY <1>1
    <2> HIDE DEF all
    <2>3. l \in Tab
      BY <1>1, <2>1, <2>2 DEF Tab
    <2>4. /\ l.pc = s.pc /\ l.client = s.client /\ l.cursor = s.cursor
          /\ l.board = s.board /\ l.whole = s.whole /\ l.sent = s.sent
          /\ l.got = s.got /\ l.upTo = s.upTo /\ l.told = s.told
          /\ l.clock = s.clock /\ l.blocked /\ l.pending = S
      BY <1>1, <2>1 DEF Tab
    <2>5. s.clock <= l.clock
      BY <1>1, <2>4, TabFields
    <2> HIDE DEF s
    <2> QED BY <2>3, <2>4, <2>5 DEF s, all
  <1> QED BY <1>2, <1>3

-----------------------------------------------------------------------------
LEMMA CoreLater ==
  ASSUME NEW l \in Seq(Op), NEW s \in Tab, NEW t \in Tab, Core(s, l),
         t.cursor = s.cursor, t.board = s.board, s.clock <= t.clock,
         t.pc # "closed" => t.client \in Clients
  PROVE  Core(t, l)
  <1>1. Within(t.board, t.clock)
    BY TabFields, WithinLater DEF Core
  <1> QED BY <1>1 DEF Core

(* After an answer the next operation is sent, or there is none. *)
LEMMA ContinuesGood ==
  ASSUME NEW l \in Seq(Op), NEW s \in Tab, Core(s, l), s.got = {}, s.pc # "closed",
         NEW t \in Continues(s)
  PROVE  t \in Tab /\ Core(t, l) /\ Reply(t, l) /\ t.pending = s.pending
  <1>1. CASE t = [s EXCEPT !.pc = "idle"]
    <2>1. t \in Tab
      BY <1>1 DEF Tab
    <2>2. /\ t.pc = "idle" /\ t.cursor = s.cursor /\ t.board = s.board /\ t.clock = s.clock
          /\ t.client = s.client /\ t.got = s.got /\ t.pending = s.pending
      BY <1>1 DEF Tab
    <2>3. s.clock <= t.clock
      BY <2>2, TabFields
    <2>4. Core(t, l)
      BY <2>1, <2>2, <2>3, CoreLater DEF Core
    <2> QED BY <2>1, <2>2, <2>4 DEF Reply
  <1>2. CASE \E o \in s.pending : t = [s EXCEPT !.pc = "pushing", !.sent = o]
    <2>0. PICK o \in s.pending : t = [s EXCEPT !.pc = "pushing", !.sent = o]
      BY <1>2
    <2>1. o \in Op
      BY <2>0, TabFields
    <2>2. t \in Tab
      BY <2>0, <2>1 DEF Tab
    <2>3. /\ t.pc = "pushing" /\ t.cursor = s.cursor /\ t.board = s.board /\ t.clock = s.clock
          /\ t.client = s.client /\ t.got = s.got /\ t.sent = o /\ t.pending = s.pending
      BY <2>0 DEF Tab
    <2>4. s.clock <= t.clock
      BY <2>3, TabFields
    <2>5. Core(t, l)
      BY <2>2, <2>3, <2>4, CoreLater DEF Core
    <2> QED BY <2>1, <2>2, <2>3, <2>5 DEF Reply
  <1> QED BY <1>1, <1>2 DEF Continues

LEMMA AnsweredGood ==
  ASSUME NEW p \in Tabs, tab[p] \in Tab
  PROVE  /\ Answered(p) \in Tab
         /\ Answered(p).pc = tab[p].pc /\ Answered(p).client = tab[p].client
         /\ Answered(p).clock = tab[p].clock /\ Answered(p).cursor = tab[p].cursor
         /\ Answered(p).board = tab[p].board /\ Answered(p).pending = tab[p].pending
         /\ Answered(p).got = {}
  BY DEF Answered, Tab

(* What a push does to the journal and the registers. *)
LEMMA ApplyKeeps ==
  ASSUME SyncInv, NEW o \in Op, Apply(o)
  PROVE  /\ log' \in Seq(Op) /\ register' \in Board /\ highest' \in Nat
         /\ Grows(log, log') /\ Logged(o, log') /\ JournalInv'
  <1> USE DEF SyncInv, SyncTypeOK
  <1>0. Len(log) \in Nat /\ DOMAIN log = 1..Len(log) /\ \A i \in 1..Len(log) : log[i] \in Op
    BY LogFields
  <1>1. CASE Known(o)
    <2>1. UNCHANGED <<log, register, highest>>
      BY <1>1 DEF Apply
    <2>2. Logged(o, log)
      BY <1>0, <1>1 DEF Known, InLog, Logged
    <2> QED BY <1>0, <2>1, <2>2 DEF Grows, JournalInv
  <1>2. CASE ~Known(o)
    <2> DEFINE f == o.field
    <2>1. /\ log' = Append(log, o)
          /\ register' = IF Beats(o, register[f]) THEN [register EXCEPT ![f] = o] ELSE register
          /\ highest' = Later(highest, o.clock)
      BY <1>2 DEF Apply
    <2>2. f \in Fields /\ o.clock \in Nat /\ register[f] \in Op \cup {NoOp}
      BY OpFields DEF Board
    <2>3. /\ log' \in Seq(Op) /\ Len(log') = Len(log) + 1 /\ log'[Len(log) + 1] = o
          /\ \A i \in 1..Len(log) : log'[i] = log[i]
      BY <1>0, <2>1
    <2>4. register' \in Board
      BY <2>1, <2>2 DEF Board
    <2>5. highest' \in Nat /\ highest <= highest' /\ o.clock <= highest'
      BY <2>1, <2>2, LaterNat
    <2>6. Grows(log, log') /\ Logged(o, log')
      BY <1>0, <2>3 DEF Grows, Logged
    <2>7. \A i \in 1..Len(log') : i \in 1..Len(log) \/ i = Len(log) + 1
      BY <1>0, <2>3
    <2>8. \A i \in 1..Len(log') : log'[i].clock <= highest'
      <3> SUFFICES ASSUME NEW i \in 1..Len(log')
                   PROVE  log'[i].clock <= highest'
        OBVIOUS
      <3>1. CASE i \in 1..Len(log)
        <4>1. log[i].clock \in Nat /\ log[i].clock <= highest
          BY <1>0, <3>1, OpFields DEF JournalInv
        <4> QED BY <2>3, <2>5, <3>1, <4>1
      <3>2. CASE i = Len(log) + 1
        BY <2>3, <2>5, <3>2
      <3> QED BY <2>7, <3>1, <3>2
    <2>9. ASSUME NEW g \in Fields, register'[g] # NoOp
          PROVE  Logged(register'[g], log') /\ register'[g].field = g
      <3>1. CASE register'[g] = register[g]
        <4>1. Logged(register[g], log) /\ register[g].field = g
          BY <2>9, <3>1 DEF JournalInv, Sees
        <4> QED BY <2>3, <2>6, <3>1, <4>1, LoggedGrows
      <3>2. CASE g = f /\ register'[g] = o
        BY <2>6, <3>2
      <3> QED BY <2>1, <3>1, <3>2 DEF Board
    <2>10. ASSUME NEW i \in 1..Len(log')
           PROVE  ~Beats(log'[i], register'[log'[i].field])
      <3> DEFINE x == log'[i]
      <3>1. x \in Op /\ x.field \in Fields
        <4>1. x \in Op
          BY <2>3, LogFields
        <4> QED BY <4>1, OpFields
      <3>2. CASE i \in 1..Len(log)
        <4>1. x = log[i] /\ ~Beats(x, register[x.field])
          BY <2>3, <3>2 DEF JournalInv, Sees
        <4>2. CASE register'[x.field] = register[x.field]
          BY <4>1, <4>2
        <4>3. CASE x.field = f /\ register'[x.field] = o /\ Beats(o, register[f])
          <5>1. ~Beats(x, o)
            <6> HIDE DEF x
            <6> QED BY <2>2, <3>1, <4>1, <4>3, BeatenBy
          <5> QED BY <4>3, <5>1
        <4> QED BY <2>1, <2>2, <3>1, <4>2, <4>3 DEF Board
      <3>3. CASE i = Len(log) + 1
        <4>1. x = o
          BY <2>3, <3>3
        <4>2. CASE Beats(o, register[f])
          <5>1. register'[f] = o
            BY <2>1, <2>2, <4>2 DEF Board
          <5> QED BY <4>1, <5>1, BeatsIrreflexive
        <4>3. CASE ~Beats(o, register[f])
          <5>1. register'[f] = register[f]
            BY <2>1, <4>3
          <5> QED BY <4>1, <4>3, <5>1
        <4> QED BY <4>2, <4>3
      <3> QED BY <2>7, <3>2, <3>3
    <2>11. JournalInv'
      BY <2>8, <2>9, <2>10 DEF JournalInv, Sees
    <2> QED BY <2>3, <2>4, <2>5, <2>6, <2>11
  <1> QED BY <1>1, <1>2

-----------------------------------------------------------------------------
(* The steps.  None but Write adds an edit to what a tab or the storage had. *)
NoEdit ==
  \A p \in Tabs : tab'[p].pending \subseteq tab[p].pending \cup stored[Signed[p]]

LEMMA TabEdits ==
  ASSUME SyncTypeOK, NEW p \in Tabs, NEW t, tab' = [tab EXCEPT ![p] = t],
         t.pending \subseteq tab[p].pending \cup stored[Signed[p]]
  PROVE  NoEdit
  <1>1. \A q \in Tabs : tab'[q] = IF q = p THEN t ELSE tab[q]
    BY DEF SyncTypeOK
  <1> QED BY <1>1 DEF NoEdit

LEMMA SyncStart == SyncInit => SyncInv
  <1> SUFFICES ASSUME SyncInit
               PROVE  SyncInv
    OBVIOUS
  <1>1. EmptyBoard \in Board /\ \A f \in Fields : EmptyBoard[f] = NoOp
    BY DEF EmptyBoard, Board
  <1>2. Stopped \in Tab
    BY <1>1 DEF Stopped, Tab
  <1>3. log = <<>> /\ log \in Seq(Op) /\ Len(log) = 0
    BY DEF SyncInit
  <1>4. SyncTypeOK
    BY <1>1, <1>2, <1>3 DEF SyncInit, SyncTypeOK
  <1>5. Sees(EmptyBoard, 0, log)
    BY <1>1 DEF Sees
  <1>6. JournalInv
    BY <1>3, <1>5 DEF JournalInv, SyncInit
  <1>7. Core(Stopped, log) /\ Reply(Stopped, log)
    BY <1>1, <1>3, <1>5 DEF Core, Reply, Stopped, Within
  <1>8. TabsInv
    BY <1>7 DEF TabsInv, SyncInit
  <1> QED BY <1>4, <1>6, <1>8 DEF SyncInv

(* A tab that loads what is stored and begins a request. *)
LEMMA LoadsKeeps ==
  ASSUME SyncInv, NEW p \in Tabs, NEW l \in Loads(p), NEW c \in Clients, NEW w \in BOOLEAN,
         tab' = [tab EXCEPT ![p] = [l EXCEPT !.pc = "pulling", !.client = c, !.whole = w]],
         UNCHANGED <<log, register, highest, stored, late>>, fresh' \in SUBSET Clients
  PROVE  SyncInv' /\ NoEdit
  <1> DEFINE t == [l EXCEPT !.pc = "pulling", !.client = c, !.whole = w]
  <1>1. SyncTypeOK /\ tab[p] \in Tab /\ Core(tab[p], log) /\ Reply(tab[p], log)
    BY DEF SyncInv, SyncTypeOK, TabsInv
  <1>2. /\ l \in Tab /\ l.cursor = tab[p].cursor /\ l.board = tab[p].board
        /\ l.got = tab[p].got /\ tab[p].clock <= l.clock
        /\ l.pending \subseteq tab[p].pending \cup stored[Signed[p]]
    BY <1>1, LoadsGood
  <1>3. t \in Tab
    BY <1>2 DEF Tab
  <1>4. /\ t.pc = "pulling" /\ t.client = c /\ t.cursor = l.cursor /\ t.board = l.board
        /\ t.got = l.got /\ t.clock = l.clock /\ t.pending = l.pending
    BY <1>2 DEF Tab
  <1> HIDE DEF t
  <1>5. Core(t, log)
    BY <1>1, <1>2, <1>3, <1>4, CoreLater DEF SyncTypeOK
  <1>6. Reply(t, log)
    BY <1>1, <1>2, <1>4 DEF Reply
  <1>7. tab' = [tab EXCEPT ![p] = t]
    BY DEF t
  <1>8. stored' \in [Accounts -> SUBSET Op] /\ late' \in SUBSET Op
    BY <1>1 DEF SyncTypeOK
  <1>9. SyncInv'
    BY <1>3, <1>5, <1>6, <1>7, <1>8, TabMoves
  <1> QED BY <1>1, <1>2, <1>4, <1>7, <1>9, TabEdits

LEMMA OpenKeeps ==
  ASSUME SyncInv, NEW p \in Tabs, NEW c \in Clients, OpenBoard(p, c)
  PROVE  SyncInv' /\ NoEdit
  <1>1. PICK l \in Loads(p) :
          tab' = [tab EXCEPT ![p] = [l EXCEPT !.pc = "pulling", !.client = c, !.whole = TRUE]]
    BY DEF OpenBoard
  <1>2. fresh' \in SUBSET Clients
    BY DEF OpenBoard, SyncInv, SyncTypeOK
  <1> QED BY <1>1, <1>2, LoadsKeeps DEF OpenBoard

LEMMA SynchronizeKeeps ==
  ASSUME SyncInv, NEW p \in Tabs, Synchronize(p)
  PROVE  SyncInv' /\ NoEdit
  <1>1. PICK l \in Loads(p) : tab' = [tab EXCEPT ![p] = [l EXCEPT !.pc = "pulling", !.whole = FALSE]]
    BY DEF Synchronize
  <1> DEFINE c == tab[p].client
  <1>2. c \in Clients
    BY DEF Synchronize, SyncInv, TabsInv, Core
  <1>3. l \in Tab /\ l.client = c
    BY LoadsGood DEF SyncInv
  <1>4. [l EXCEPT !.pc = "pulling", !.whole = FALSE]
          = [l EXCEPT !.pc = "pulling", !.client = c, !.whole = FALSE]
    BY <1>3 DEF Tab
  <1>5. fresh' \in SUBSET Clients
    BY DEF Synchronize, SyncInv, SyncTypeOK
  <1> HIDE DEF c
  <1>6. tab' = [tab EXCEPT ![p] = [l EXCEPT !.pc = "pulling", !.client = c, !.whole = FALSE]]
    BY <1>1, <1>4
  <1> QED BY <1>2, <1>5, <1>6, LoadsKeeps DEF Synchronize

(* An edit is made with a clock past the board and all that is queued. *)
Superseding ==
  \A p \in Tabs : \A o \in tab'[p].pending \ (tab[p].pending \cup stored[Signed[p]]) :
    /\ \A f \in Fields : tab[p].board[f] # NoOp => tab[p].board[f].clock < o.clock
    /\ \A q \in tab[p].pending : q.clock < o.clock

LEMMA WriteKeeps ==
  ASSUME SyncInv, NEW p \in Tabs, NEW f \in Fields, Write(p, f)
  PROVE  SyncInv' /\ Superseding
  <1> DEFINE s == tab[p]
  <1>1. SyncTypeOK /\ s \in Tab /\ Core(s, log) /\ Reply(s, log) /\ s.pc # "closed"
    BY DEF SyncInv, SyncTypeOK, TabsInv, Write
  <1>2. PICK l \in Loads(p) :
          LET o == [client |-> l.client, clock |-> l.clock + 1, field |-> f]
          IN  /\ ~l.blocked /\ o.clock <= MaxStamp
              /\ \/ stored' = [stored EXCEPT ![Signed[p]] = @ \cup {o}]
                 \/ UNCHANGED stored
              /\ tab' = [tab EXCEPT ![p] =
                   [l EXCEPT !.clock = o.clock, !.pending = l.pending \cup {o}]]
    BY DEF Write
  <1> DEFINE k == l.clock + 1
             o == [client |-> l.client, clock |-> k, field |-> f]
             t == [l EXCEPT !.clock = k, !.pending = l.pending \cup {o}]
  <1>3. /\ l \in Tab /\ l.cursor = s.cursor /\ l.board = s.board /\ l.client = s.client
        /\ l.pc = s.pc /\ l.got = s.got /\ l.upTo = s.upTo /\ l.told = s.told
        /\ l.whole = s.whole /\ l.sent = s.sent
        /\ s.clock <= l.clock /\ l.pending \subseteq s.pending \cup stored[Signed[p]]
        /\ \A q \in s.pending \cup stored[Signed[p]] : q.clock <= l.clock
    <2>1. ~l.blocked
      BY <1>2
    <2> QED BY <1>1, <2>1, LoadsGood
  <1>4. l.clock \in Nat /\ s.clock \in Nat /\ MaxStamp \in Nat /\ l.client \in Clients
    BY <1>1, <1>3, TabFields, SyncAssumption DEF Core
  <1>5. k \in Nat /\ k \in 1..MaxStamp /\ l.clock < k
    <2>1. k <= MaxStamp
      BY <1>2
    <2> QED BY <1>4, <2>1
  <1>6. o \in Op /\ o.clock = k
    <2> HIDE DEF k
    <2> QED BY <1>4, <1>5 DEF Op
  <1>7. tab' = [tab EXCEPT ![p] = t]
    BY <1>2
  <1>8. stored' \in [Accounts -> SUBSET Op]
    <2>1. stored' = [stored EXCEPT ![Signed[p]] = @ \cup {o}] \/ UNCHANGED stored
      BY <1>2
    <2> HIDE DEF o
    <2> QED BY <1>1, <1>6, <2>1 DEF SyncTypeOK
  <1> HIDE DEF o, k
  <1>9. t \in Tab
    <2>1. l.pending \cup {o} \in SUBSET Op
      BY <1>3, <1>6, TabFields
    <2> QED BY <1>3, <1>5, <2>1 DEF Tab
  <1>10. /\ t.pc = s.pc /\ t.client = s.client /\ t.cursor = s.cursor /\ t.board = s.board
         /\ t.got = s.got /\ t.upTo = s.upTo /\ t.told = s.told /\ t.whole = s.whole
         /\ t.sent = s.sent /\ t.clock = k /\ t.pending = l.pending \cup {o}
    BY <1>3 DEF Tab
  <1> HIDE DEF t, s
  <1>11. Core(t, log)
    <2>1. s.clock <= t.clock
      BY <1>3, <1>4, <1>5, <1>10
    <2> QED BY <1>1, <1>3, <1>4, <1>9, <1>10, <2>1, CoreLater DEF SyncTypeOK
  <1>12. Reply(t, log)
    BY <1>1, <1>10 DEF Reply
  <1>13. SyncInv'
    <2>1. fresh' \in SUBSET Clients /\ late' \in SUBSET Op /\ UNCHANGED <<log, register, highest>>
      BY <1>1 DEF Write, SyncTypeOK
    <2> QED BY <1>7, <1>8, <1>9, <1>11, <1>12, <2>1, TabMoves
  <1>14. Superseding
    <2> SUFFICES ASSUME NEW q \in Tabs,
                        NEW e \in tab'[q].pending \ (tab[q].pending \cup stored[Signed[q]])
                 PROVE  /\ \A g \in Fields : tab[q].board[g] # NoOp => tab[q].board[g].clock < e.clock
                        /\ \A x \in tab[q].pending : x.clock < e.clock
      BY DEF Superseding
    <2>1. q = p
      BY <1>1, <1>7 DEF SyncTypeOK
    <2>2. tab'[q] = t /\ tab[q] = s
      BY <1>1, <1>7, <2>1 DEF SyncTypeOK, s
    <2>3. e = o /\ e.clock = k
      BY <1>3, <1>6, <1>10, <2>1, <2>2
    <2>4. ASSUME NEW g \in Fields, s.board[g] # NoOp
          PROVE  s.board[g].clock < k
      <3>1. s.board[g] \in Op
        BY <1>1, <2>4, TabFields DEF Board
      <3>2. s.board[g].clock \in Nat /\ s.board[g].clock <= s.clock
        BY <1>1, <2>4, <3>1, OpFields DEF Core, Within
      <3> QED BY <1>3, <1>4, <1>5, <3>2
    <2>5. ASSUME NEW x \in s.pending
          PROVE  x.clock < k
      <3>1. x.clock \in Nat /\ x.clock <= l.clock
        BY <1>1, <1>3, TabFields, OpFields
      <3> QED BY <1>4, <1>5, <3>1
    <2> QED BY <2>2, <2>3, <2>4, <2>5
  <1> QED BY <1>13, <1>14

LEMMA NoEditSupersedes == NoEdit => Superseding
  BY DEF NoEdit, Superseding

(* The server answers a pull with its registers or with a page of the journal. *)
LEMMA ServePullKeeps ==
  ASSUME SyncInv, NEW p \in Tabs, ServePull(p)
  PROVE  SyncInv' /\ NoEdit
  <1> DEFINE s == tab[p]
             n == IF s.cursor + PageSize <= Len(log) THEN s.cursor + PageSize ELSE Len(log)
             u == IF s.whole THEN Len(log) ELSE n
             G == IF s.whole THEN {register[f] : f \in Fields} \ {NoOp}
                             ELSE {log[i] : i \in s.cursor + 1 .. n}
             t == [s EXCEPT !.pc = "pulled", !.told = highest, !.upTo = u, !.got = G]
  <1>1. SyncTypeOK /\ s \in Tab /\ Core(s, log) /\ Reply(s, log) /\ s.pc = "pulling"
    BY DEF SyncInv, SyncTypeOK, TabsInv, ServePull
  <1>2. /\ Len(log) \in Nat /\ s.cursor \in 0..Len(log) /\ PageSize \in Nat \ {0}
        /\ highest \in Nat /\ \A i \in 1..Len(log) : log[i] \in Op
    BY <1>1, LogFields, TabFields, SyncAssumption DEF SyncTypeOK, Core
  <1>3. n \in s.cursor..Len(log) /\ u \in 0..Len(log)
    BY <1>2
  <1>4. tab' = [tab EXCEPT ![p] = t]
    BY DEF ServePull, CursorAfter
  <1> HIDE DEF n
  <1>5. \A o \in G : o \in Op /\ Logged(o, log) /\ o.clock <= highest
    <2>1. CASE s.whole
      <3>1. \A f \in Fields : register[f] # NoOp => Logged(register[f], log)
        BY DEF SyncInv, JournalInv, Sees
      <3>2. \A o \in G : Logged(o, log)
        BY <2>1, <3>1
      <3> HIDE DEF G
      <3> QED BY <1>2, <3>2 DEF Logged, SyncInv, JournalInv
    <2>2. CASE ~s.whole
      <3>1. \A o \in G : \E i \in 1..Len(log) : o = log[i]
        BY <1>2, <1>3, <2>2
      <3> HIDE DEF G
      <3> QED BY <1>2, <3>1 DEF Logged, SyncInv, JournalInv
    <2> QED BY <1>1, <2>1, <2>2, TabFields
  <1>6. \A i \in 1..u : \/ ~s.whole /\ i \in 1..s.cursor
                        \/ \E o \in G : o.field = log[i].field /\ ~Beats(log[i], o)
    <2> SUFFICES ASSUME NEW i \in 1..u, ~(~s.whole /\ i \in 1..s.cursor)
                 PROVE  \E o \in G : o.field = log[i].field /\ ~Beats(log[i], o)
      OBVIOUS
    <2>0. i \in 1..Len(log) /\ log[i] \in Op
      BY <1>2, <1>3
    <2>1. CASE s.whole
      <3> DEFINE r == register[log[i].field]
      <3>1. ~Beats(log[i], r) /\ log[i].field \in Fields
        BY <2>0, OpFields DEF SyncInv, JournalInv, Sees
      <3>2. r # NoOp
        BY <3>1 DEF Beats
      <3>3. r.field = log[i].field
        BY <3>1, <3>2 DEF SyncInv, JournalInv, Sees
      <3>4. r \in G
        BY <2>1, <3>1, <3>2
      <3> HIDE DEF r, G
      <3> QED BY <3>1, <3>3, <3>4 DEF r
    <2>2. CASE ~s.whole
      <3>1. i \in s.cursor + 1 .. n
        BY <1>2, <1>3, <2>0, <2>2
      <3>2. log[i] \in G
        BY <2>2, <3>1
      <3> HIDE DEF G
      <3> QED BY <2>0, <3>2, BeatsIrreflexive
    <2> QED BY <1>1, <2>1, <2>2, TabFields
  <1>7. G \in SUBSET Op
    BY <1>5
  <1> HIDE DEF G, u
  <1>8. t \in Tab
    <2>1. u \in Nat /\ highest \in Nat
      BY <1>2, <1>3
    <2> HIDE DEF s
    <2> QED BY <1>1, <1>7, <2>1 DEF Tab
  <1>9. /\ t.pc = "pulled" /\ t.told = highest /\ t.upTo = u /\ t.got = G
        /\ t.cursor = s.cursor /\ t.board = s.board /\ t.clock = s.clock /\ t.client = s.client
        /\ t.whole = s.whole /\ t.pending = s.pending
    BY <1>1 DEF Tab
  <1> HIDE DEF t, s
  <1>10. Core(t, log)
    <2>1. s.clock <= t.clock
      BY <1>1, <1>9, TabFields
    <2> QED BY <1>1, <1>8, <1>9, <2>1, CoreLater DEF SyncTypeOK, Core
  <1>11. Reply(t, log)
    BY <1>3, <1>5, <1>6, <1>9 DEF Reply
  <1>12. /\ stored' \in [Accounts -> SUBSET Op] /\ fresh' \in SUBSET Clients
         /\ late' \in SUBSET Op /\ UNCHANGED <<log, register, highest>>
    BY <1>1 DEF ServePull, SyncTypeOK
  <1>13. SyncInv'
    BY <1>4, <1>8, <1>10, <1>11, <1>12, TabMoves
  <1>14. t.pending \subseteq tab[p].pending \cup stored[Signed[p]]
    BY <1>9 DEF s
  <1> QED BY <1>1, <1>4, <1>13, <1>14, TabEdits

(* The page takes the answer in and goes on. *)
LEMMA TakePullKeeps ==
  ASSUME SyncInv, NEW p \in Tabs, TakePull(p)
  PROVE  SyncInv' /\ NoEdit
  <1> DEFINE s == tab[p]
             base == IF s.whole THEN EmptyBoard ELSE s.board
             b == Merged(base, s.got)
             c == Later(s.clock, s.told)
             t == [Answered(p) EXCEPT !.board = b, !.cursor = s.upTo, !.clock = c]
  <1>1. SyncTypeOK /\ s \in Tab /\ Core(s, log) /\ Reply(s, log) /\ s.pc = "pulled"
    BY DEF SyncInv, SyncTypeOK, TabsInv, TakePull
  <1>2. /\ log \in Seq(Op) /\ Len(log) \in Nat /\ s.got \in SUBSET Op
        /\ s.upTo \in 0..Len(log) /\ s.cursor \in 0..Len(log)
        /\ s.clock \in Nat /\ s.told \in Nat /\ s.board \in Board /\ s.whole \in BOOLEAN
    <2>1. log \in Seq(Op) /\ s.upTo <= Len(log) /\ s.cursor <= Len(log)
      BY <1>1 DEF SyncTypeOK, Core, Reply
    <2>2. Len(log) \in Nat
      BY <2>1, LogFields
    <2> HIDE DEF s
    <2> QED BY <1>1, <2>1, <2>2, TabFields
  <1>3. b \in Board /\ Sees(b, s.upTo, log)
    <2>1. CASE s.whole
      <3>1. EmptyBoard \in Board /\ Sees(EmptyBoard, 0, log) /\ 0 \in 0..Len(log)
        BY <1>2 DEF EmptyBoard, Board, Sees
      <3>2. \A i \in 1..s.upTo : \/ i \in 1..0
                                 \/ \E o \in s.got : o.field = log[i].field /\ ~Beats(log[i], o)
        BY <1>1, <2>1 DEF Reply
      <3>3. \A o \in s.got : Logged(o, log)
        BY <1>1 DEF Reply
      <3> HIDE DEF s
      <3>4. Merged(EmptyBoard, s.got) \in Board /\ Sees(Merged(EmptyBoard, s.got), s.upTo, log)
        BY <1>2, <3>1, <3>2, <3>3, MergeSees
      <3> QED BY <2>1, <3>4
    <2>2. CASE ~s.whole
      <3>1. Sees(s.board, s.cursor, log) /\ \A o \in s.got : Logged(o, log)
        BY <1>1 DEF Core, Reply
      <3>2. \A i \in 1..s.upTo : \/ i \in 1..s.cursor
                                 \/ \E o \in s.got : o.field = log[i].field /\ ~Beats(log[i], o)
        BY <1>1 DEF Reply
      <3> HIDE DEF s
      <3>3. Merged(s.board, s.got) \in Board /\ Sees(Merged(s.board, s.got), s.upTo, log)
        BY <1>2, <3>1, <3>2, MergeSees
      <3> QED BY <2>2, <3>3
    <2> QED BY <1>2, <2>1, <2>2
  <1>4. c \in Nat /\ s.clock <= c /\ s.told <= c
    BY <1>2, LaterNat
  <1>5. Within(b, c)
    <2>1. base \in Board /\ Within(base, c)
      <3>1. EmptyBoard \in Board /\ Within(EmptyBoard, c)
        BY DEF EmptyBoard, Board, Within
      <3>2. Within(s.board, c)
        <4>1. Within(s.board, s.clock)
          BY <1>1 DEF Core
        <4> HIDE DEF s, c
        <4> QED BY <1>2, <1>4, <4>1, WithinLater
      <3> HIDE DEF s, c
      <3> QED BY <1>2, <3>1, <3>2
    <2>2. IsFiniteSet(s.got)
      <3>1. \A o \in s.got : Logged(o, log)
        BY <1>1 DEF Reply
      <3> HIDE DEF s
      <3> QED BY <1>2, <3>1, LoggedFinite
    <2>3. \A o \in s.got : o.clock <= c
      <3>1. \A o \in s.got : o.clock \in Nat /\ o.clock <= s.told
        BY <1>1, <1>2, OpFields DEF Reply
      <3> HIDE DEF s, c
      <3> QED BY <1>2, <1>4, <3>1
    <2> HIDE DEF s, base, c
    <2> QED BY <1>2, <1>4, <2>1, <2>2, <2>3, MergeWithin
  <1> HIDE DEF b, c, base
  <1>6. /\ Answered(p) \in Tab /\ Answered(p).pc = s.pc /\ Answered(p).client = s.client
        /\ Answered(p).pending = s.pending /\ Answered(p).got = {}
    BY <1>1, AnsweredGood
  <1>7. t \in Tab
    <2>1. s.upTo \in Nat
      BY <1>2
    <2> HIDE DEF s
    <2> QED BY <1>3, <1>4, <1>6, <2>1 DEF Tab
  <1>8. /\ t.pc = "pulled" /\ t.client = s.client /\ t.pending = s.pending /\ t.got = {}
        /\ t.board = b /\ t.cursor = s.upTo /\ t.clock = c
    <2> HIDE DEF s
    <2> QED BY <1>1, <1>6 DEF Tab
  <1>9. Core(t, log)
    <2>1. s.upTo <= Len(log) /\ s.client \in Clients
      BY <1>1, <1>2 DEF Core
    <2> HIDE DEF t, s
    <2> QED BY <1>3, <1>5, <1>8, <2>1 DEF Core
  <1>10. PICK u \in Tab : /\ Core(u, log) /\ Reply(u, log) /\ u.pending = s.pending
                          /\ tab' = [tab EXCEPT ![p] = u]
    <2>1. CASE \E u \in Continues(t) : tab' = [tab EXCEPT ![p] = u]
      <3>1. PICK u \in Continues(t) : tab' = [tab EXCEPT ![p] = u]
        BY <2>1
      <3> HIDE DEF t, s
      <3> QED BY <1>2, <1>7, <1>8, <1>9, <3>1, ContinuesGood
    <2>2. CASE tab' = [tab EXCEPT ![p] = [t EXCEPT !.pc = "pulling"]]
      <3> DEFINE u == [t EXCEPT !.pc = "pulling"]
      <3> HIDE DEF t
      <3>1. u \in Tab
        BY <1>7 DEF Tab
      <3>2. /\ u.pc = "pulling" /\ u.client = t.client /\ u.pending = t.pending /\ u.got = t.got
            /\ u.board = t.board /\ u.cursor = t.cursor /\ u.clock = t.clock
        BY <1>7 DEF Tab
      <3> HIDE DEF u, s
      <3>3. Core(u, log)
        BY <1>8, <1>9, <3>2 DEF Core
      <3>4. Reply(u, log)
        BY <1>8, <3>2 DEF Reply
      <3> QED BY <1>8, <2>2, <3>1, <3>2, <3>3, <3>4 DEF u
    <2> QED BY <2>1, <2>2 DEF TakePull, b, base, c
  <1>11. /\ stored' \in [Accounts -> SUBSET Op] /\ fresh' \in SUBSET Clients
         /\ late' \in SUBSET Op /\ UNCHANGED <<log, register, highest>>
    BY <1>1 DEF TakePull, SyncTypeOK
  <1>12. SyncInv'
    BY <1>10, <1>11, TabMoves
  <1> QED BY <1>1, <1>10, <1>12, TabEdits

(* An operation reaches the server, from a tab that waits or from none. *)
LEMMA ApplyStep ==
  ASSUME SyncInv, NEW o \in Op, Apply(o),
         tab' \in [Tabs -> Tab],
         \A p \in Tabs : tab'[p] = tab[p] \/ (Core(tab'[p], log') /\ Reply(tab'[p], log')),
         UNCHANGED <<stored, fresh>>, late' \in SUBSET Op
  PROVE  SyncInv'
  <1>1. /\ log' \in Seq(Op) /\ register' \in Board /\ highest' \in Nat
        /\ Grows(log, log') /\ JournalInv'
    BY ApplyKeeps
  <1>2. SyncTypeOK'
    BY <1>1 DEF SyncInv, SyncTypeOK
  <1>3. ASSUME NEW q \in Tabs
        PROVE  Core(tab'[q], log') /\ Reply(tab'[q], log')
    <2>1. CASE Core(tab'[q], log') /\ Reply(tab'[q], log')
      BY <2>1
    <2>2. CASE tab'[q] = tab[q]
      <3>1. /\ tab'[q] = tab[q] /\ tab[q] \in Tab /\ log \in Seq(Op)
            /\ Core(tab[q], log) /\ Reply(tab[q], log)
        BY <2>2 DEF SyncInv, SyncTypeOK, TabsInv
      <3> QED BY <1>1, <3>1, CoreGrows, ReplyGrows
    <2> QED BY <2>1, <2>2
  <1>4. TabsInv'
    BY <1>3 DEF TabsInv
  <1> QED BY <1>1, <1>2, <1>4 DEF SyncInv

LEMMA ServePushKeeps ==
  ASSUME SyncInv, NEW p \in Tabs, ServePush(p)
  PROVE  SyncInv' /\ NoEdit
  <1> DEFINE s == tab[p]
             o == s.sent
             k == IF Known(o) THEN 0 ELSE highest'
             t == [s EXCEPT !.pc = "applied", !.told = k]
  <1>1. /\ SyncTypeOK /\ s \in Tab /\ Core(s, log) /\ Reply(s, log) /\ s.pc = "pushing"
        /\ o \in Op /\ Apply(o) /\ log \in Seq(Op)
    BY DEF SyncInv, SyncTypeOK, TabsInv, ServePush, Reply
  <1>2. /\ log' \in Seq(Op) /\ highest' \in Nat /\ Grows(log, log') /\ Logged(o, log')
    BY <1>1, ApplyKeeps
  <1>3. k \in Nat
    BY <1>2
  <1>4. tab' = [tab EXCEPT ![p] = t]
    BY DEF ServePush
  <1> HIDE DEF k
  <1>5. t \in Tab
    BY <1>1, <1>3 DEF Tab
  <1>6. /\ t.pc = "applied" /\ t.client = s.client /\ t.pending = s.pending /\ t.got = s.got
        /\ t.board = s.board /\ t.cursor = s.cursor /\ t.clock = s.clock /\ t.sent = s.sent
    BY <1>1 DEF Tab
  <1> HIDE DEF t, s
  <1>7. Core(t, log')
    <2>1. Core(s, log')
      BY <1>1, <1>2, CoreGrows
    <2> QED BY <1>1, <1>6, <2>1 DEF Core
  <1>8. Reply(t, log')
    <2>1. Reply(s, log')
      BY <1>1, <1>2, ReplyGrows
    <2> QED BY <1>2, <1>6, <2>1 DEF Reply
  <1>9. UNCHANGED <<stored, fresh>> /\ late' \in SUBSET Op
    BY <1>1 DEF ServePush, SyncTypeOK
  <1>10. SyncInv'
    <2>1. tab' \in [Tabs -> Tab] /\ \A q \in Tabs : tab'[q] = tab[q] \/ (q = p /\ tab'[q] = t)
      BY <1>1, <1>4, <1>5 DEF SyncTypeOK
    <2> QED BY <1>1, <1>7, <1>8, <1>9, <2>1, ApplyStep
  <1>11. t.pending \subseteq tab[p].pending \cup stored[Signed[p]]
    BY <1>6 DEF s
  <1> QED BY <1>1, <1>4, <1>10, <1>11, TabEdits

LEMMA AnswerPushKeeps ==
  ASSUME SyncInv, NEW p \in Tabs, AnswerPush(p)
  PROVE  SyncInv' /\ NoEdit
  <1> DEFINE s == tab[p]
             r == register[s.sent.field]
             t == [s EXCEPT !.pc = "pushed", !.got = {r}]
  <1>1. /\ SyncTypeOK /\ s \in Tab /\ Core(s, log) /\ Reply(s, log) /\ s.pc = "applied"
        /\ log \in Seq(Op)
    BY DEF SyncInv, SyncTypeOK, TabsInv, AnswerPush
  (* What was applied is in the journal, so its register holds an operation. *)
  <1>2. r \in Op /\ Logged(r, log)
    <2>1. PICK i \in 1..Len(log) : log[i] = s.sent
      BY <1>1 DEF Reply, Logged
    <2>2. log[i] \in Op /\ log[i].field \in Fields
      <3>1. log[i] \in Op
        BY <1>1, LogFields
      <3> QED BY <3>1, OpFields
    <2>3. ~Beats(log[i], r)
      BY <2>1 DEF SyncInv, JournalInv, Sees
    <2>4. r # NoOp
      BY <2>3 DEF Beats
    <2>5. Logged(r, log)
      BY <2>1, <2>2, <2>4 DEF SyncInv, JournalInv, Sees
    <2> HIDE DEF r
    <2> QED BY <1>1, <2>5, LogFields
  <1>3. tab' = [tab EXCEPT ![p] = t]
    BY DEF AnswerPush
  <1> HIDE DEF r
  <1>4. t \in Tab
    BY <1>1, <1>2 DEF Tab
  <1>5. /\ t.pc = "pushed" /\ t.client = s.client /\ t.pending = s.pending /\ t.got = {r}
        /\ t.board = s.board /\ t.cursor = s.cursor /\ t.clock = s.clock /\ t.sent = s.sent
    BY <1>1 DEF Tab
  <1> HIDE DEF t, s
  <1>6. Core(t, log)
    BY <1>1, <1>5 DEF Core
  <1>7. Reply(t, log)
    BY <1>1, <1>2, <1>5 DEF Reply
  <1>8. /\ stored' \in [Accounts -> SUBSET Op] /\ fresh' \in SUBSET Clients
        /\ late' \in SUBSET Op /\ UNCHANGED <<log, register, highest>>
    BY <1>1 DEF AnswerPush, SyncTypeOK
  <1>9. SyncInv'
    BY <1>3, <1>4, <1>6, <1>7, <1>8, TabMoves
  <1>10. t.pending \subseteq tab[p].pending \cup stored[Signed[p]]
    BY <1>5 DEF s
  <1> QED BY <1>1, <1>3, <1>9, <1>10, TabEdits

(* The page learns the winner, and forgets the operation it had sent. *)
LEMMA TakePushKeeps ==
  ASSUME SyncInv, NEW p \in Tabs, TakePush(p)
  PROVE  SyncInv' /\ NoEdit
  <1> DEFINE s == tab[p]
  <1>1. /\ SyncTypeOK /\ s \in Tab /\ Core(s, log) /\ Reply(s, log) /\ s.pc = "pushed"
        /\ log \in Seq(Op)
    BY DEF SyncInv, SyncTypeOK, TabsInv, TakePush
  <1>2. PICK r \in s.got :
          \E u \in Continues([Answered(p) EXCEPT !.board = Merged(s.board, {r}),
                                                 !.clock = ClockAfter(s, r),
                                                 !.pending = @ \ {Acknowledged(s)}]) :
            tab' = [tab EXCEPT ![p] = u]
    BY DEF TakePush
  <1> DEFINE b == Merged(s.board, {r})
             c == Later(Later(s.clock, s.told), r.clock)
             e == s.pending \ {s.sent}
             t == [Answered(p) EXCEPT !.board = b, !.clock = c, !.pending = e]
  <1>3. /\ r \in Op /\ Logged(r, log) /\ r.clock \in Nat /\ Len(log) \in Nat
        /\ s.cursor \in 0..Len(log)
        /\ s.clock \in Nat /\ s.told \in Nat /\ s.board \in Board /\ s.pending \in SUBSET Op
    <2>1. r \in Op /\ Logged(r, log) /\ s.cursor <= Len(log)
      BY <1>1, TabFields DEF Reply, Core
    <2> HIDE DEF s
    <2> QED BY <1>1, <2>1, TabFields, LogFields, OpFields
  <1>4. b \in Board /\ Sees(b, s.cursor, log)
    <2>1. Sees(s.board, s.cursor, log) /\ \A i \in 1..s.cursor : i \in 1..s.cursor
      BY <1>1 DEF Core
    <2>2. {r} \in SUBSET Op /\ \A o \in {r} : Logged(o, log)
      BY <1>3
    <2> DEFINE R == {r}
    <2> HIDE DEF s, R
    <2>3. Merged(s.board, R) \in Board /\ Sees(Merged(s.board, R), s.cursor, log)
      BY <1>1, <1>3, <2>1, <2>2, MergeSees DEF R
    <2> QED BY <2>3 DEF R
  <1>5. c \in Nat /\ s.clock <= c /\ r.clock <= c
    <2>1. Later(s.clock, s.told) \in Nat /\ s.clock <= Later(s.clock, s.told)
      BY <1>3, LaterNat
    <2> DEFINE d == Later(s.clock, s.told)
    <2> HIDE DEF d, s
    <2>2. Later(d, r.clock) \in Nat /\ d <= Later(d, r.clock) /\ r.clock <= Later(d, r.clock)
      BY <1>3, <2>1, LaterNat DEF d
    <2>3. s.clock <= Later(d, r.clock)
      BY <1>3, <2>1, <2>2 DEF d
    <2> QED BY <2>2, <2>3 DEF d
  <1>6. Within(b, c)
    <2>1. Within(s.board, c)
      <3>1. Within(s.board, s.clock)
        BY <1>1 DEF Core
      <3> HIDE DEF s, c
      <3> QED BY <1>3, <1>5, <3>1, WithinLater
    <2>2. {r} \in SUBSET Op /\ IsFiniteSet({r}) /\ \A o \in {r} : o.clock <= c
      BY <1>3, <1>5, FS_Singleton
    <2> DEFINE R == {r}
    <2> HIDE DEF s, c, R
    <2> QED BY <1>3, <1>5, <2>1, <2>2, MergeWithin DEF R
  <1>7. e \in SUBSET Op /\ e \subseteq s.pending
    BY <1>3
  <1>8. \E u \in Continues(t) : tab' = [tab EXCEPT ![p] = u]
    <2>1. Answered(p).pending = s.pending
      BY <1>1, AnsweredGood
    <2>2. [Answered(p) EXCEPT !.board = b, !.clock = c, !.pending = @ \ {s.sent}]
            = [Answered(p) EXCEPT !.board = b, !.clock = c, !.pending = e]
      BY <2>1
    <2> QED BY <1>2, <2>2 DEF ClockAfter, Acknowledged
  <1> HIDE DEF b, c, e
  <1>9. /\ Answered(p) \in Tab /\ Answered(p).pc = s.pc /\ Answered(p).client = s.client
        /\ Answered(p).cursor = s.cursor /\ Answered(p).got = {}
    BY <1>1, AnsweredGood
  <1>10. t \in Tab
    <2> HIDE DEF s
    <2> QED BY <1>4, <1>5, <1>7, <1>9 DEF Tab
  <1>11. /\ t.pc = "pushed" /\ t.client = s.client /\ t.pending = e /\ t.got = {}
         /\ t.board = b /\ t.cursor = s.cursor /\ t.clock = c
    <2> HIDE DEF s
    <2> QED BY <1>1, <1>9 DEF Tab
  <1>12. Core(t, log)
    <2>1. s.cursor <= Len(log) /\ s.client \in Clients
      BY <1>1 DEF Core
    <2> HIDE DEF t, s
    <2> QED BY <1>4, <1>6, <1>11, <2>1 DEF Core
  <1>13. PICK u \in Tab : /\ Core(u, log) /\ Reply(u, log) /\ u.pending = e
                          /\ tab' = [tab EXCEPT ![p] = u]
    <2>1. PICK u \in Continues(t) : tab' = [tab EXCEPT ![p] = u]
      BY <1>8
    <2> HIDE DEF t, s
    <2> QED BY <1>1, <1>10, <1>11, <1>12, <2>1, ContinuesGood
  <1>14. /\ stored' \in [Accounts -> SUBSET Op] /\ fresh' \in SUBSET Clients
         /\ late' \in SUBSET Op /\ UNCHANGED <<log, register, highest>>
    BY <1>1 DEF TakePush, SyncTypeOK
  <1>15. SyncInv'
    BY <1>13, <1>14, TabMoves
  <1> QED BY <1>1, <1>7, <1>13, <1>15, TabEdits

LEMMA ServeLateKeeps ==
  ASSUME SyncInv, NEW o \in late, ServeLate(o)
  PROVE  SyncInv' /\ NoEdit
  <1>1. o \in Op /\ Apply(o) /\ late' \in SUBSET Op
    BY DEF ServeLate, SyncInv, SyncTypeOK
  <1>2. tab' \in [Tabs -> Tab] /\ \A p \in Tabs : tab'[p] = tab[p]
    BY DEF ServeLate, SyncInv, SyncTypeOK
  <1>3. UNCHANGED <<stored, fresh>>
    BY DEF ServeLate
  <1>4. SyncInv'
    BY <1>1, <1>2, <1>3, ApplyStep
  <1> QED BY <1>2, <1>4 DEF NoEdit

LEMMA AbandonedLate ==
  ASSUME SyncInv, NEW p \in Tabs, Abandoned(p)
  PROVE  late' \in SUBSET Op
  BY DEF Abandoned, SyncInv, SyncTypeOK, TabsInv, Reply

LEMMA FailKeeps ==
  ASSUME SyncInv, NEW p \in Tabs, Fail(p)
  PROVE  SyncInv' /\ NoEdit
  <1> DEFINE s == tab[p]
             t == [Answered(p) EXCEPT !.pc = "idle"]
  <1>1. SyncTypeOK /\ s \in Tab /\ Core(s, log) /\ s.pc # "closed" /\ log \in Seq(Op)
    BY DEF SyncInv, SyncTypeOK, TabsInv, Fail
  <1>2. /\ Answered(p) \in Tab /\ Answered(p).client = s.client /\ Answered(p).clock = s.clock
        /\ Answered(p).cursor = s.cursor /\ Answered(p).board = s.board
        /\ Answered(p).pending = s.pending /\ Answered(p).got = {}
    BY <1>1, AnsweredGood
  <1>3. t \in Tab
    BY <1>2 DEF Tab
  <1>4. /\ t.pc = "idle" /\ t.client = s.client /\ t.clock = s.clock /\ t.cursor = s.cursor
        /\ t.board = s.board /\ t.pending = s.pending /\ t.got = {}
    BY <1>2 DEF Tab
  <1>5. tab' = [tab EXCEPT ![p] = t]
    BY DEF Fail
  <1> HIDE DEF t, s
  <1>6. Core(t, log)
    BY <1>1, <1>4 DEF Core
  <1>7. Reply(t, log)
    BY <1>4 DEF Reply
  <1>8. /\ stored' \in [Accounts -> SUBSET Op] /\ fresh' \in SUBSET Clients
        /\ late' \in SUBSET Op /\ UNCHANGED <<log, register, highest>>
    BY <1>1, AbandonedLate DEF Fail, SyncTypeOK
  <1>9. SyncInv'
    BY <1>3, <1>5, <1>6, <1>7, <1>8, TabMoves
  <1>10. t.pending \subseteq tab[p].pending \cup stored[Signed[p]]
    BY <1>4 DEF s
  <1> QED BY <1>1, <1>5, <1>9, <1>10, TabEdits

LEMMA StopKeeps ==
  ASSUME SyncInv, NEW p \in Tabs, StopSync(p)
  PROVE  SyncInv' /\ NoEdit
  <1>1. SyncTypeOK /\ tab[p] \in Tab /\ log \in Seq(Op)
    BY DEF SyncInv, SyncTypeOK
  <1>2. EmptyBoard \in Board /\ \A f \in Fields : EmptyBoard[f] = NoOp
    BY DEF EmptyBoard, Board
  <1>3. Stopped \in Tab
    BY <1>2 DEF Stopped, Tab
  <1>4. Core(Stopped, log) /\ Reply(Stopped, log)
    BY <1>1, <1>2, LogFields DEF Core, Reply, Stopped, Within, Sees
  <1>5. tab' = [tab EXCEPT ![p] = Stopped] /\ Stopped.pending = {}
    BY DEF StopSync, Stopped
  <1>6. stored' \in [Accounts -> SUBSET Op]
    <2>1. tab[p].pending \in SUBSET Op
      BY <1>1, TabFields
    <2> QED BY <1>1, <2>1 DEF StopSync, SyncTypeOK
  <1>7. fresh' \in SUBSET Clients /\ late' \in SUBSET Op /\ UNCHANGED <<log, register, highest>>
    BY <1>1, AbandonedLate DEF StopSync, SyncTypeOK
  <1>8. SyncInv'
    BY <1>3, <1>4, <1>5, <1>6, <1>7, TabMoves
  <1> QED BY <1>1, <1>5, <1>8, TabEdits

LEMMA SyncStep ==
  ASSUME SyncInv, [SyncNext]_syncVars
  PROVE  SyncInv' /\ Superseding
  <1>1. CASE \E p \in Tabs : \/ Synchronize(p) \/ ServePull(p) \/ TakePull(p) \/ ServePush(p)
                             \/ AnswerPush(p) \/ TakePush(p) \/ Fail(p) \/ StopSync(p)
    BY <1>1, NoEditSupersedes, SynchronizeKeeps, ServePullKeeps, TakePullKeeps, ServePushKeeps,
       AnswerPushKeeps, TakePushKeeps, FailKeeps, StopKeeps
  <1>2. CASE \E p \in Tabs, c \in Clients : OpenBoard(p, c)
    BY <1>2, NoEditSupersedes, OpenKeeps
  <1>3. CASE \E p \in Tabs, f \in Fields : Write(p, f)
    BY <1>3, WriteKeeps
  <1>4. CASE \E o \in late : ServeLate(o)
    BY <1>4, NoEditSupersedes, ServeLateKeeps
  <1>5. CASE UNCHANGED syncVars
    BY <1>5 DEF syncVars, SyncInv, SyncTypeOK, JournalInv, TabsInv, Superseding
  <1> QED BY <1>1, <1>2, <1>3, <1>4, <1>5 DEF SyncNext

(* The invariant holds in every state: the tabs have the types given, each    *)
(* board shows the journal up to its cursor.                                 *)
THEOREM SyncCorrect == SyncSpec => []SyncInv
  <1>1. SyncInv /\ [SyncNext]_syncVars => SyncInv'
    BY SyncStep
  <1> QED BY <1>1, SyncStart, PTL DEF SyncSpec

THEOREM SyncTypeCorrect == SyncSpec => []SyncTypeOK
  <1>1. SyncInv => SyncTypeOK
    BY DEF SyncInv
  <1> QED BY <1>1, SyncCorrect, PTL

(* Pages that have read the same part of the journal agree on the registers,  *)
(* whatever was answered, lost or sent twice, and in which order.            *)
THEOREM BoardsConverge == SyncSpec => []Converged
  <1>1. ASSUME SyncInv
        PROVE  Converged
    <2>1. log \in Seq(Op)
      BY <1>1 DEF SyncInv, SyncTypeOK
    <2>2. \A o : Logged(o, log) => o \in InLog
      BY <2>1, LogFields DEF Logged, InLog
    <2>3. Shows(register, Len(log))
      BY <1>1, <2>2 DEF SyncInv, JournalInv, Sees, Shows
    <2>4. \A p \in Tabs : tab[p].cursor <= Len(log) /\ Shows(tab[p].board, tab[p].cursor)
      BY <1>1, <2>2 DEF SyncInv, TabsInv, Core, Sees, Shows
    <2> QED BY <2>3, <2>4 DEF Converged
  <1> QED BY <1>1, SyncCorrect, PTL

(* An operation is in the journal once, however often it is sent. *)
THEOREM AcceptedOnce == SyncSpec => []EachOnce
  <1>1. SyncInit => EachOnce
    BY DEF SyncInit, EachOnce
  <1>2. ASSUME SyncInv, EachOnce, [SyncNext]_syncVars
        PROVE  EachOnce'
    <2>1. log \in Seq(Op) /\ Len(log) \in Nat /\ DOMAIN log = 1..Len(log)
      BY <1>2, LogFields DEF SyncInv, SyncTypeOK
    <2>2. CASE UNCHANGED log
      BY <1>2, <2>2 DEF EachOnce
    <2>3. CASE \E o \in Op : Apply(o)
      <3>1. PICK o \in Op : Apply(o)
        BY <2>3
      <3>2. CASE Known(o)
        BY <1>2, <3>1, <3>2 DEF Apply, EachOnce
      <3>3. CASE ~Known(o)
        <4>1. log' = Append(log, o) /\ \A i \in 1..Len(log) : log[i] # o
          BY <2>1, <3>1, <3>3 DEF Apply, Known, InLog
        <4>2. /\ DOMAIN log' = 1..Len(log) + 1 /\ log'[Len(log) + 1] = o
              /\ \A i \in 1..Len(log) : log'[i] = log[i]
          BY <2>1, <4>1
        <4>3. \A i \in 1..Len(log) + 1 : i \in 1..Len(log) \/ i = Len(log) + 1
          BY <2>1
        <4> QED BY <1>2, <2>1, <4>1, <4>2, <4>3 DEF EachOnce
      <3> QED BY <3>2, <3>3
    <2>4. ASSUME NEW p \in Tabs, ServePush(p)
          PROVE  \E o \in Op : Apply(o)
      BY <1>2, <2>4 DEF ServePush, SyncInv, TabsInv, Reply
    <2>5. ASSUME NEW o \in late, ServeLate(o)
          PROVE  \E q \in Op : Apply(q)
      BY <1>2, <2>5 DEF ServeLate, SyncInv, SyncTypeOK
    <2> QED BY <1>2, <2>2, <2>3, <2>4, <2>5
         DEF SyncNext, syncVars, Synchronize, ServePull, TakePull, AnswerPush, TakePush, Fail,
             StopSync, OpenBoard, Write
  <1> QED BY <1>1, <1>2, SyncCorrect, PTL DEF SyncSpec

(* A new edit is later than everything its author could see. *)
THEOREM EditsAreLater == SyncSpec => EditsSupersede
  <1>1. SyncInv /\ [SyncNext]_syncVars => [Superseding]_syncVars
    BY SyncStep
  <1> QED BY <1>1, SyncCorrect, PTL DEF SyncSpec, EditsSupersede, Superseding

(* The record of an edit leaves the browser only when the server has it. *)
THEOREM EditsAreKept == SyncSpec => EditsKept
  <1> DEFINE Keeps == \A a \in Accounts : stored[a] \ stored'[a] \subseteq InLog
  <1>1. ASSUME SyncInv, [SyncNext]_syncVars
        PROVE  Keeps
    <2>1. stored \in [Accounts -> SUBSET Op] /\ Signed \in [Tabs -> Accounts]
      BY <1>1, SyncAssumption DEF SyncInv, SyncTypeOK
    <2>2. CASE \E p \in Tabs : TakePush(p)
      <3>1. PICK p \in Tabs : TakePush(p)
        BY <2>2
      <3>2. tab[p].pc = "pushed" /\ stored' = [stored EXCEPT ![Signed[p]] = @ \ {tab[p].sent}]
        BY <3>1 DEF TakePush, Acknowledged
      <3>3. tab[p].sent \in InLog
        <4>1. Logged(tab[p].sent, log) /\ DOMAIN log = 1..Len(log)
          BY <1>1, <3>2, LogFields DEF SyncInv, SyncTypeOK, TabsInv, Reply
        <4> QED BY <4>1 DEF Logged, InLog
      <3> QED BY <2>1, <3>2, <3>3
    <2>3. CASE \E p \in Tabs, f \in Fields : Write(p, f)
      <3>1. PICK p \in Tabs, f \in Fields : Write(p, f)
        BY <2>3
      <3>2. \E o : stored' = [stored EXCEPT ![Signed[p]] = @ \cup {o}] \/ UNCHANGED stored
        BY <3>1 DEF Write
      <3> QED BY <2>1, <3>2
    <2>4. CASE \E p \in Tabs : StopSync(p)
      <3>1. PICK p \in Tabs : StopSync(p)
        BY <2>4
      <3> QED BY <2>1, <3>1 DEF StopSync
    <2>5. CASE UNCHANGED stored
      BY <2>5
    <2> QED BY <1>1, <2>2, <2>3, <2>4, <2>5
         DEF SyncNext, syncVars, Synchronize, ServePull, TakePull, ServePush, AnswerPush, Fail,
             OpenBoard, ServeLate
  <1>2. SyncInv /\ [SyncNext]_syncVars => [Keeps]_syncVars
    BY <1>1
  <1> QED BY <1>2, SyncCorrect, PTL DEF SyncSpec, EditsKept
=============================================================================
