---------------------------- MODULE PrepaidSeats ----------------------------
(***************************************************************************)
(* What a tenant that buys seats is promised, without orders, sessions,     *)
(* provider calls and webhooks: a payment is settled once, it buys exactly   *)
(* what was offered or nothing at all, and nothing but a payment made for    *)
(* the present state of the subscription changes the paid seats.            *)
(***************************************************************************)
EXTENDS Integers

CONSTANTS
  Payments,
  Seats,       \* paid seats that are offered
  Length,      \* how long a paid term lasts
  NoOffer, NoTerm

VARIABLES
  offers,      \* payment -> what it buys and the revision it was offered at
  paid,        \* payments the customer has made
  settled,     \* payments that were granted or referred to an operator
  term,        \* the paid term that was bought last
  revision,    \* of the subscription: which state an offer was made for
  force,       \* paid seats in force
  now

vars == <<offers, paid, settled, term, revision, force, now>>

InForce(t, at) == IF t # NoTerm /\ at < t.until THEN t.seats ELSE 0

Init ==
  /\ offers = [p \in Payments |-> NoOffer]
  /\ paid = {} /\ settled = {}
  /\ term = NoTerm
  /\ revision = 0 /\ force = 0 /\ now = 0

(* A payment can be offered for a state of the subscription that has passed. *)
Offer(p) ==
  /\ offers[p] = NoOffer
  /\ offers'[p] \in [seats : Seats, at : 0..revision]
  /\ offers' = [offers EXCEPT ![p] = offers'[p]]
  /\ UNCHANGED <<paid, settled, term, revision, now>>

Pay(p) ==
  /\ offers[p] # NoOffer /\ p \notin paid
  /\ paid' = paid \cup {p}
  /\ UNCHANGED <<offers, settled, term, revision, now>>

(* The whole term is replaced and begins with the settlement. *)
Grant(p) ==
  /\ offers[p].at = revision
  /\ settled' = settled \cup {p}
  /\ term' = [payment |-> p, seats |-> offers[p].seats, until |-> now + Length, ends |-> FALSE]
  /\ revision' = revision + 1
  /\ UNCHANGED <<offers, paid, now>>

Refer(p) ==
  /\ settled' = settled \cup {p}
  /\ UNCHANGED <<offers, paid, term, revision, now>>

(* A running term is marked to end, or not to; its length stays. *)
Mark ==
  /\ term # NoTerm /\ now < term.until
  /\ \E b \in BOOLEAN : term' = [term EXCEPT !.ends = b]
  /\ revision' = revision + 1
  /\ UNCHANGED <<offers, paid, settled, now>>

Tick == now' = now + 1 /\ UNCHANGED <<offers, paid, settled, term, revision>>

Next ==
  /\ \/ Mark \/ Tick
     \/ \E p \in Payments : Offer(p) \/ Pay(p)
     \/ \E p \in paid \ settled : Grant(p) \/ Refer(p)
  /\ force' = InForce(term', now')

Spec == Init /\ [][Next]_vars
=============================================================================
