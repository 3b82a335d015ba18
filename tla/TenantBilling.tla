---------------------------- MODULE TenantBilling ----------------------------
(***************************************************************************)
(* Prepaid seats of one organization: checkouts and their hosted payment    *)
(* links (server/src/payments/tenantBilling.ts), the receipts the provider  *)
(* reports, and the entitlement that follows (server/src/organization.ts).   *)
(* A checkout calls the provider between two transactions; its answer, the  *)
(* payment and the webhook come in any order, late, twice or never.          *)
(***************************************************************************)
EXTENDS Integers, FiniteSets

CONSTANTS
  Keys,          \* idempotency keys; an order keeps the one it was made with
  Links, NoLink, \* payment links at the provider
  NoOrder,
  Owners,         \* members who may come to own the organization
  Founder,
  Seats,         \* paid seat counts that are asked for
  BaseSeats,     \* organizationBaseSeats()
  SeatLimit,     \* the owner's administrative limit
  Window,        \* how long a checkout stays open
  Term,          \* how long a paid term lasts
  LastDay, LastRevision   \* bounds

ASSUME BillingAssumption ==
  /\ NoLink \notin Links /\ NoOrder \notin Keys
  /\ Founder \in Owners /\ IsFiniteSet(Owners)
  /\ Seats \subseteq Nat \ {0}
  /\ BaseSeats \in Nat \ {0} /\ SeatLimit \in Nat
  /\ Window \in Nat \ {0} /\ Term \in Nat \ {0} /\ LastDay \in Nat /\ LastRevision \in Nat
  /\ Cardinality(Owners) <= BaseSeats

(* What stands for nothing is no offer and no term. *)
ASSUME NothingAssumption ==
  /\ NoOrder \notin [seats : Nat, at : Nat]
  /\ NoLink \notin [payment : Links, seats : Nat, until : Nat, ends : BOOLEAN]

VARIABLES
  orders,    \* tenant_billing_orders
  links,     \* the provider's payment links: order, and whether it was paid
  receipts,  \* payment_receipts: link -> disposition
  sub,       \* organization_subscriptions
  staff,     \* how many members there are
  ownedBy,   \* the owner
  signedIn,  \* users with an active session
  checkout,  \* the request that made an order, around its call to the provider
  today

billingVars == <<orders, links, receipts, sub, staff, ownedBy, signedIn, checkout, today>>

Open == {"creating", "pending", "creation_unknown"}

Order == [status : {"none", "verified", "requires_review", "expired"} \cup Open,
          owner : Owners, seats : Nat, base : Nat, expires : Nat, completed : Nat,
          link : Links \cup {NoLink}]

Request == [pc : {"none", "calling", "answered", "failed"}, sent : BOOLEAN, signed : BOOLEAN,
            link : Links \cup {NoLink}]

BillingTypeOK ==
  /\ orders \in [Keys -> Order]
  /\ links \in [Links -> [order : Keys \cup {NoOrder}, paid : BOOLEAN]]
  /\ receipts \in [Links -> {"none", "applied", "requires_review"}]
  /\ sub \in [seats : Nat, start : Nat, end : Nat, ends : BOOLEAN, revision : Nat,
              order : Keys \cup {NoOrder}]
  /\ staff \in Nat
  /\ ownedBy \in Owners /\ signedIn \in SUBSET Owners
  /\ checkout \in [Keys -> Request]
  /\ today \in Nat

Done == [pc |-> "none", sent |-> FALSE, signed |-> FALSE, link |-> NoLink]

BillingInit ==
  /\ orders = [k \in Keys |-> [status |-> "none", owner |-> Founder, seats |-> 0, base |-> 0,
                               expires |-> 0, completed |-> 0, link |-> NoLink]]
  /\ links = [l \in Links |-> [order |-> NoOrder, paid |-> FALSE]]
  /\ receipts = [l \in Links |-> "none"]
  /\ sub = [seats |-> 0, start |-> 0, end |-> 0, ends |-> FALSE, revision |-> 0, order |-> NoOrder]
  /\ staff = Cardinality(Owners)
  /\ ownedBy = Founder /\ signedIn = {Founder}
  /\ checkout = [k \in Keys |-> Done]
  /\ today = 0

-----------------------------------------------------------------------------
(* The entitlement: paid seats count while the order that proves them, its   *)
(* receipt and the subscription agree and the term runs.                    *)
Applied(k) == \E l \in Links : links[l].order = k /\ receipts[l] = "applied"

Verified ==
  /\ sub.order # NoOrder
  /\ orders[sub.order].status = "verified" /\ Applied(sub.order)
  /\ orders[sub.order].seats = sub.seats
  /\ orders[sub.order].completed = sub.start
  /\ sub.end = sub.start + Term

PaidSeats == IF Verified /\ today < sub.end THEN sub.seats ELSE 0

Smaller(a, b) == IF a <= b THEN a ELSE b

Available == Smaller(BaseSeats + PaidSeats, SeatLimit)

(* A request of the owner's, from a session that is still active. *)
OwnerActs(u) == u = ownedBy /\ u \in signedIn

-----------------------------------------------------------------------------
Swept ==
  [k \in Keys |-> IF orders[k].status \in Open /\ orders[k].expires <= today
                    THEN [orders[k] EXCEPT !.status = "expired"] ELSE orders[k]]

NoneOpen == \A k \in Keys : Swept[k].status \notin Open

(* The first transaction of createTenantSeatCheckout.  A key that is used    *)
(* already is answered with its order, whatever became of it.              *)
Checkout(k, u, n) ==
  /\ OwnerActs(u)
  /\ orders[k].status = "none"
  /\ BaseSeats + n >= staff
  /\ NoneOpen
  /\ orders' = [Swept EXCEPT ![k] = [status |-> "creating", owner |-> u, seats |-> n,
                                      base |-> sub.revision, expires |-> today + Window,
                                      completed |-> 0, link |-> NoLink]]
  /\ checkout' = [checkout EXCEPT ![k] = [Done EXCEPT !.pc = "calling", !.sent = TRUE, !.signed = TRUE]]
  /\ UNCHANGED <<links, receipts, sub, staff, ownedBy, signedIn, today>>

(* Mutant: a key whose creation is uncertain calls the provider again. *)
Repeat_CallsAgain(k) ==
  /\ orders[k].status = "creation_unknown" /\ checkout[k].pc = "none"
  /\ checkout' = [checkout EXCEPT ![k] = [Done EXCEPT !.pc = "calling", !.sent = TRUE, !.signed = TRUE]]
  /\ UNCHANGED <<orders, links, receipts, sub, staff, ownedBy, signedIn, today>>

(* The key is sent again: the owner is answered with the order. *)
Repeat(k) == orders[k].status # "none" /\ UNCHANGED billingVars

(* The provider makes a link, perhaps after the caller has given up. *)
ProviderCreates(k, l) ==
  LET c == checkout[k] IN
  /\ c.sent /\ links[l].order = NoOrder
  /\ links' = [links EXCEPT ![l].order = k]
  /\ checkout' = [checkout EXCEPT ![k] =
       [c EXCEPT !.sent = FALSE,
                 !.pc   = IF c.pc = "calling" THEN "answered" ELSE c.pc,
                 !.link = IF c.pc = "calling" THEN l ELSE c.link]]
  /\ UNCHANGED <<orders, receipts, sub, staff, ownedBy, signedIn, today>>

(* Mutant: an answer to an intent that is no longer being created opens it. *)
InTime_AnyStatus(k) == today < orders[k].expires

InTime(k) == orders[k].status = "creating" /\ today < orders[k].expires

(* The second transaction: the link is stored in any case. *)
Completed(k) ==
  LET c    == checkout[k]
      good == c.signed /\ ownedBy = orders[k].owner /\ InTime(k)
  IN
  /\ c.pc = "answered"
  /\ orders' = [orders EXCEPT ![k].link = c.link,
                              ![k].status = IF good THEN "pending" ELSE "requires_review"]
  /\ checkout' = [checkout EXCEPT ![k] = Done]
  /\ UNCHANGED <<links, receipts, sub, staff, ownedBy, signedIn, today>>

(* No answer, one that does not match, or the second transaction fails. *)
CallFails(k) ==
  /\ checkout[k].pc \in {"calling", "answered"}
  /\ checkout' = [checkout EXCEPT ![k].pc = "failed", ![k].link = NoLink]
  /\ UNCHANGED <<orders, links, receipts, sub, staff, ownedBy, signedIn, today>>

Uncertain(k) ==
  /\ checkout[k].pc = "failed"
  /\ orders' = IF orders[k].status = "creating"
                 THEN [orders EXCEPT ![k].status = "creation_unknown"] ELSE orders
  /\ checkout' = [checkout EXCEPT ![k].pc = "none"]
  /\ UNCHANGED <<links, receipts, sub, staff, ownedBy, signedIn, today>>

(* The server stops; a call that was sent is still on its way. *)
CheckoutLost(k) ==
  /\ checkout[k].pc # "none"
  /\ checkout' = [checkout EXCEPT ![k].pc = "none", ![k].link = NoLink]
  /\ UNCHANGED <<orders, links, receipts, sub, staff, ownedBy, signedIn, today>>

-----------------------------------------------------------------------------
(* The customer pays in full; the provider closes a link when it expires. *)
Pay(l) ==
  /\ links[l].order # NoOrder /\ ~links[l].paid
  /\ today < orders[links[l].order].expires
  /\ links' = [links EXCEPT ![l].paid = TRUE]
  /\ UNCHANGED <<orders, receipts, sub, staff, ownedBy, signedIn, checkout, today>>

(* No receipt of this payment, nor another one for its order. *)
Unrecorded(l) == \A m \in Links : receipts[m] = "none" \/ links[m].order # links[l].order

(* Mutant: the subscription may have changed since the checkout. *)
Fits_AnyRevision(k, l) ==
  /\ orders[k].link = l
  /\ orders[k].status = "pending" /\ today < orders[k].expires
  /\ ownedBy = orders[k].owner
  /\ BaseSeats + orders[k].seats >= staff

(* The receipt is for this order as it was priced, and it is still due. *)
Fits(k, l) ==
  /\ orders[k].link = l
  /\ orders[k].status = "pending" /\ today < orders[k].expires
  /\ ownedBy = orders[k].owner
  /\ sub.revision = orders[k].base
  /\ BaseSeats + orders[k].seats >= staff

(* applyTenantReceipt.  The webhook is sent until it is answered, and again;  *)
(* a repeated one finds its receipt and changes nothing.                    *)
Webhook(l) ==
  LET k == links[l].order IN
  /\ links[l].paid /\ Unrecorded(l)
  /\ receipts' = [receipts EXCEPT ![l] = IF Fits(k, l) THEN "applied" ELSE "requires_review"]
  /\ orders' = [orders EXCEPT ![k].completed = today,
                              ![k].status = IF Fits(k, l) THEN "verified" ELSE "requires_review"]
  /\ sub' = IF Fits(k, l)
              THEN [seats |-> orders[k].seats, start |-> today, end |-> today + Term, ends |-> FALSE,
                    revision |-> sub.revision + 1, order |-> k]
              ELSE sub
  /\ UNCHANGED <<links, staff, ownedBy, signedIn, checkout, today>>

(* applyBillingTransition: cancel and reactivate only mark a running term. *)
MarkTerm(u, b) ==
  /\ OwnerActs(u)
  /\ Verified /\ today < sub.end
  /\ sub.revision < LastRevision                                     \* bound
  /\ sub' = [sub EXCEPT !.ends = b, !.revision = @ + 1]
  /\ UNCHANGED <<orders, links, receipts, staff, ownedBy, signedIn, checkout, today>>

-----------------------------------------------------------------------------
MemberJoins ==
  /\ staff < Available
  /\ staff' = staff + 1
  /\ UNCHANGED <<orders, links, receipts, sub, ownedBy, signedIn, checkout, today>>

MemberLeaves ==
  /\ staff > Cardinality(Owners)
  /\ staff' = staff - 1
  /\ UNCHANGED <<orders, links, receipts, sub, ownedBy, signedIn, checkout, today>>

TransferOwner(u) ==
  /\ ownedBy \in signedIn /\ u \in Owners \ {ownedBy}
  /\ ownedBy' = u
  /\ UNCHANGED <<orders, links, receipts, sub, staff, signedIn, checkout, today>>

SignIn(u) ==
  /\ signedIn' = signedIn \cup {u}
  /\ UNCHANGED <<orders, links, receipts, sub, staff, ownedBy, checkout, today>>

(* The session of a checkout that is under way is gone for good. *)
SignOut(u) ==
  /\ signedIn' = signedIn \ {u}
  /\ checkout' = [k \in Keys |-> IF orders[k].owner = u THEN [checkout[k] EXCEPT !.signed = FALSE]
                                                       ELSE checkout[k]]
  /\ UNCHANGED <<orders, links, receipts, sub, staff, ownedBy, today>>

DayPasses ==
  /\ today < LastDay
  /\ today' = today + 1
  /\ UNCHANGED <<orders, links, receipts, sub, staff, ownedBy, signedIn, checkout>>

BillingNext ==
  \/ \E k \in Keys, u \in Owners, n \in Seats : Checkout(k, u, n)
  \/ \E k \in Keys : \/ Repeat(k) \/ Completed(k) \/ CallFails(k) \/ Uncertain(k) \/ CheckoutLost(k)
                     \/ \E l \in Links : ProviderCreates(k, l)
  \/ \E l \in Links : Pay(l) \/ Webhook(l)
  \/ \E u \in Owners, b \in BOOLEAN : MarkTerm(u, b)
  \/ \E u \in Owners : TransferOwner(u) \/ SignIn(u) \/ SignOut(u)
  \/ MemberJoins \/ MemberLeaves \/ DayPasses

BillingSpec == BillingInit /\ [][BillingNext]_billingVars

-----------------------------------------------------------------------------
(* However its request is repeated, interrupted or answered late, a checkout *)
(* never leads to two links that could both be paid                         *)
(* (docs/PHASE-7-ENTERPRISE-AUTHORITY.md:31).                               *)
ChargedOnce ==
  \A l, m \in Links : links[l].order # NoOrder /\ links[l].order = links[m].order => l = m

(* Orders and receipts tell one story: an order is verified exactly by the   *)
(* receipt of its own link, one that can still be paid for has no receipt,   *)
(* and at most one checkout is open, although the answer of the provider,    *)
(* the webhook and the expiry each write the status on their own.           *)
BooksAgree ==
  /\ \A k \in Keys :
       /\ orders[k].status = "verified" <=> Applied(k)
       /\ orders[k].status = "pending" =>
            \A l \in Links : links[l].order = k => l = orders[k].link /\ receipts[l] = "none"
  /\ \A j, k \in Keys : {orders[j].status, orders[k].status} \subseteq Open => j = k

(* The paid seats follow the payments as PrepaidSeats says: one settlement   *)
(* per payment, all or nothing, for the subscription it was offered for.     *)
PS == INSTANCE PrepaidSeats WITH
  Payments <- Links,
  Length   <- Term,
  NoOffer  <- NoOrder,
  NoTerm   <- NoLink,
  offers   <- [l \in Links |-> IF links[l].order = NoOrder THEN NoOrder
                 ELSE [seats |-> orders[links[l].order].seats, at |-> orders[links[l].order].base]],
  paid     <- {l \in Links : links[l].paid},
  settled  <- {l \in Links : receipts[l] # "none"},
  term     <- IF sub.order = NoOrder THEN NoLink
                ELSE [payment |-> orders[sub.order].link, seats |-> sub.seats, until |-> sub.end,
                      ends |-> sub.ends],
  revision <- sub.revision,
  force    <- PaidSeats,
  now      <- today

Prepaid == PS!Spec
=============================================================================
