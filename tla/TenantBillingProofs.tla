------------------------- MODULE TenantBillingProofs -------------------------
(***************************************************************************)
(* Theorems about prepaid seats, for any number of checkouts, links, owners  *)
(* and members and any window, term and limits.                             *)
(***************************************************************************)
EXTENDS TenantBilling, FiniteSetTheorems, TLAPS

(* A link is made by the one call that was sent for its order, and the order *)
(* knows no other.                                                          *)
CallsInv ==
  /\ \A k \in Keys : orders[k].status = "none" =>
       /\ checkout[k].pc = "none" /\ ~checkout[k].sent /\ orders[k].link = NoLink
       /\ \A l \in Links : links[l].order # k
  /\ \A k \in Keys : checkout[k].sent => \A l \in Links : links[l].order # k
  /\ \A k \in Keys : orders[k].link # NoLink =>
       links[orders[k].link].order = k /\ checkout[k].pc = "none"
  /\ \A k \in Keys : checkout[k].pc = "answered" =>
       checkout[k].link # NoLink /\ links[checkout[k].link].order = k

(* What the receipts say of the orders. *)
ReceiptsInv ==
  /\ \A l \in Links : links[l].paid => links[l].order # NoOrder
  /\ \A l \in Links : receipts[l] # "none" =>
       /\ links[l].order # NoOrder /\ links[l].paid
       /\ orders[links[l].order].status \in {"verified", "requires_review"}
  /\ \A l \in Links : receipts[l] = "applied" => orders[links[l].order].status = "verified"
  /\ \A k \in Keys : orders[k].status = "verified" => Applied(k)
  /\ \A k \in Keys : orders[k].status \in {"pending", "verified"} => orders[k].link # NoLink

OneOpen ==
  \A j, k \in Keys : orders[j].status \in Open /\ orders[k].status \in Open => j = k

BillingInv == BillingTypeOK /\ ChargedOnce /\ CallsInv /\ ReceiptsInv /\ OneOpen

-----------------------------------------------------------------------------
LEMMA OrderFields ==
  ASSUME NEW o \in Order
  PROVE  /\ o.status \in {"none", "verified", "requires_review", "expired"} \cup Open
         /\ o.owner \in Owners /\ o.seats \in Nat /\ o.base \in Nat /\ o.expires \in Nat
         /\ o.completed \in Nat /\ o.link \in Links \cup {NoLink}
  BY DEF Order

LEMMA RequestFields ==
  ASSUME NEW c \in Request
  PROVE  /\ c.pc \in {"none", "calling", "answered", "failed"} /\ c.sent \in BOOLEAN
         /\ c.signed \in BOOLEAN /\ c.link \in Links \cup {NoLink}
  BY DEF Request

LEMMA Rows ==
  ASSUME BillingTypeOK
  PROVE  /\ \A k \in Keys : orders[k] \in Order /\ checkout[k] \in Request
         /\ \A l \in Links : /\ links[l].order \in Keys \cup {NoOrder}
                             /\ links[l].paid \in BOOLEAN
                             /\ receipts[l] \in {"none", "applied", "requires_review"}
         /\ sub.order \in Keys \cup {NoOrder} /\ sub.seats \in Nat /\ sub.start \in Nat
         /\ sub.end \in Nat /\ sub.revision \in Nat
         /\ NoOrder \notin Keys /\ NoLink \notin Links
  BY BillingAssumption DEF BillingTypeOK

LEMMA StatusRow ==
  ASSUME NEW o \in Order, NEW s \in {"verified", "requires_review", "expired"} \cup Open
  PROVE  /\ [o EXCEPT !.status = s] \in Order
         /\ [o EXCEPT !.status = s].status = s
         /\ [o EXCEPT !.status = s].owner = o.owner
         /\ [o EXCEPT !.status = s].seats = o.seats
         /\ [o EXCEPT !.status = s].base = o.base
         /\ [o EXCEPT !.status = s].expires = o.expires
         /\ [o EXCEPT !.status = s].completed = o.completed
         /\ [o EXCEPT !.status = s].link = o.link
  BY DEF Order

(* Sweeping expires open orders and changes nothing else. *)
LEMMA SweptRows ==
  ASSUME BillingTypeOK
  PROVE  /\ Swept \in [Keys -> Order]
         /\ \A k \in Keys : /\ Swept[k].link = orders[k].link
                            /\ Swept[k].seats = orders[k].seats
                            /\ Swept[k].base = orders[k].base
                            /\ Swept[k].completed = orders[k].completed
                            /\ \/ Swept[k].status = orders[k].status
                               \/ orders[k].status \in Open /\ Swept[k].status = "expired"
  <1> SUFFICES ASSUME NEW k \in Keys
               PROVE  /\ Swept[k] \in Order
                      /\ Swept[k].link = orders[k].link
                      /\ Swept[k].seats = orders[k].seats
                      /\ Swept[k].base = orders[k].base
                      /\ Swept[k].completed = orders[k].completed
                      /\ \/ Swept[k].status = orders[k].status
                         \/ orders[k].status \in Open /\ Swept[k].status = "expired"
    BY DEF Swept
  <1> DEFINE o == orders[k]
  <1>1. o \in Order
    BY Rows
  <1>2. Swept[k] = IF o.status \in Open /\ o.expires <= today
                     THEN [o EXCEPT !.status = "expired"] ELSE o
    BY DEF Swept
  <1> HIDE DEF o
  <1>3. CASE o.status \in Open /\ o.expires <= today
    BY <1>1, <1>2, <1>3, StatusRow DEF o
  <1>4. CASE ~(o.status \in Open /\ o.expires <= today)
    BY <1>1, <1>2, <1>4 DEF o
  <1> QED BY <1>3, <1>4

LEMMA BillingStart == BillingInit => BillingInv
  <1> SUFFICES ASSUME BillingInit
               PROVE  BillingInv
    OBVIOUS
  <1>1. Cardinality(Owners) \in Nat /\ Founder \in Owners /\ NoOrder \notin Keys
    BY BillingAssumption, FS_CardinalityType
  <1>2. BillingTypeOK
    BY <1>1 DEF BillingInit, BillingTypeOK, Order, Request, Done, Open
  <1>3. \A k \in Keys : orders[k].status = "none" /\ orders[k].link = NoLink
                        /\ checkout[k].pc = "none" /\ checkout[k].sent = FALSE
    BY DEF BillingInit, Done
  <1>4. \A l \in Links : links[l].order = NoOrder /\ ~links[l].paid /\ receipts[l] = "none"
    BY DEF BillingInit
  <1> QED BY <1>1, <1>2, <1>3, <1>4
       DEF BillingInv, ChargedOnce, CallsInv, ReceiptsInv, OneOpen, Applied, Open

(* Steps that touch neither orders nor links, receipts nor calls. *)
LEMMA ElsewhereKeeps ==
  ASSUME BillingInv, UNCHANGED <<orders, links, receipts, checkout>>, BillingTypeOK'
  PROVE  BillingInv'
  BY DEF BillingInv, ChargedOnce, CallsInv, ReceiptsInv, OneOpen, Applied

(* A call moves on; orders, links and receipts stay. *)
LEMMA CallKeeps ==
  ASSUME BillingInv, NEW k \in Keys, NEW c \in Request, checkout' = [checkout EXCEPT ![k] = c],
         UNCHANGED <<orders, links, receipts, sub, staff, ownedBy, signedIn, today>>,
         c.pc \in {"none", "failed"}, c.sent = checkout[k].sent,
         c.pc = "none" \/ checkout[k].pc # "none"
  PROVE  BillingInv'
  <1>1. \A j \in Keys : checkout'[j] = IF j = k THEN c ELSE checkout[j]
    BY DEF BillingInv, BillingTypeOK
  <1>2. BillingTypeOK'
    BY DEF BillingInv, BillingTypeOK
  <1>3. CallsInv'
    BY <1>1 DEF BillingInv, CallsInv
  <1> QED BY <1>2, <1>3 DEF BillingInv, ChargedOnce, ReceiptsInv, OneOpen, Applied

-----------------------------------------------------------------------------
LEMMA CheckoutKeeps ==
  ASSUME BillingInv, NEW k \in Keys, NEW u \in Owners, NEW n \in Seats, Checkout(k, u, n)
  PROVE  BillingInv'
  <1> DEFINE o == [status |-> "creating", owner |-> u, seats |-> n, base |-> sub.revision,
                   expires |-> today + Window, completed |-> 0, link |-> NoLink]
             c == [Done EXCEPT !.pc = "calling", !.sent = TRUE, !.signed = TRUE]
  <1>1. BillingTypeOK /\ today \in Nat /\ sub.revision \in Nat
    BY Rows DEF BillingInv, BillingTypeOK
  <1>2. o \in Order
    <2> DEFINE e == today + Window
    <2>1. n \in Nat /\ e \in Nat
      BY <1>1, BillingAssumption
    <2> HIDE DEF e
    <2>2. [status |-> "creating", owner |-> u, seats |-> n, base |-> sub.revision,
           expires |-> e, completed |-> 0, link |-> NoLink] \in Order
      BY <1>1, <2>1 DEF Order, Open
    <2> QED BY <2>2 DEF e
  <1>3. c \in Request /\ c.pc = "calling" /\ c.sent
    BY DEF Done, Request
  <1>4. o.status = "creating" /\ o.link = NoLink
    OBVIOUS
  <1>5. /\ orders' = [Swept EXCEPT ![k] = o] /\ checkout' = [checkout EXCEPT ![k] = c]
        /\ orders[k].status = "none" /\ NoneOpen
        /\ UNCHANGED <<links, receipts, sub, staff, ownedBy, signedIn, today>>
    BY DEF Checkout
  <1> HIDE DEF o, c
  <1>6. /\ \A j \in Keys : orders'[j] = IF j = k THEN o ELSE Swept[j]
        /\ \A j \in Keys : checkout'[j] = IF j = k THEN c ELSE checkout[j]
        /\ BillingTypeOK'
    BY <1>1, <1>2, <1>3, <1>5, SweptRows DEF BillingTypeOK
  <1>7. \A l \in Links : links[l].order # k
    BY <1>5 DEF BillingInv, CallsInv
  <1>8. ChargedOnce'
    BY <1>5 DEF BillingInv, ChargedOnce
  <1>9. \A j \in Keys : /\ Swept[j].link = orders[j].link
                        /\ Swept[j].status \notin Open
                        /\ \/ Swept[j].status = orders[j].status
                           \/ orders[j].status \in Open /\ Swept[j].status = "expired"
    BY <1>1, <1>5, SweptRows DEF NoneOpen
  <1>10. CallsInv'
    <2>1. \A j \in Keys : Swept[j].status = "none" => orders[j].status = "none"
      BY <1>9
    <2> QED BY <1>3, <1>4, <1>5, <1>6, <1>7, <1>9, <2>1 DEF BillingInv, CallsInv
  <1>11. ReceiptsInv'
    <2>1. \A j \in Keys : /\ orders[j].status \in {"verified", "requires_review"} =>
                               j # k /\ Swept[j].status = orders[j].status
                          /\ Swept[j].status \in {"pending", "verified"} =>
                               Swept[j].status = orders[j].status
      BY <1>5, <1>9 DEF Open
    <2>2. \A l \in Links : links[l].order # NoOrder => links[l].order \in Keys
      BY <1>1, Rows
    <2>3. \A j \in Keys : Applied(j)' <=> Applied(j)
      BY <1>5 DEF Applied
    <2> QED BY <1>4, <1>5, <1>6, <1>9, <2>1, <2>2, <2>3 DEF BillingInv, ReceiptsInv, Applied
  <1>12. OneOpen'
    BY <1>6, <1>9 DEF OneOpen
  <1> QED BY <1>6, <1>8, <1>10, <1>11, <1>12 DEF BillingInv

LEMMA ProviderKeeps ==
  ASSUME BillingInv, NEW k \in Keys, NEW l \in Links, ProviderCreates(k, l)
  PROVE  BillingInv'
  <1> DEFINE c == checkout[k]
             pc == IF c.pc = "calling" THEN "answered" ELSE c.pc
             link == IF c.pc = "calling" THEN l ELSE c.link
             d == [c EXCEPT !.sent = FALSE, !.pc = pc, !.link = link]
             m == [links[l] EXCEPT !.order = k]
  <1>1. BillingTypeOK /\ c \in Request
    BY Rows DEF BillingInv
  <1>2. /\ c.sent /\ links[l].order = NoOrder
        /\ checkout' = [checkout EXCEPT ![k] = d] /\ links' = [links EXCEPT ![l] = m]
        /\ UNCHANGED <<orders, receipts, sub, staff, ownedBy, signedIn, today>>
    BY DEF ProviderCreates
  <1>3. d \in Request /\ d.sent = FALSE /\ d.pc = pc /\ d.link = link
    <2>1. pc \in {"none", "calling", "answered", "failed"} /\ link \in Links \cup {NoLink}
      BY <1>1, RequestFields
    <2> HIDE DEF c, pc, link
    <2> QED BY <1>1, <2>1 DEF Request
  <1>4. m.order = k /\ m.paid = links[l].paid /\ m \in [order : Keys \cup {NoOrder}, paid : BOOLEAN]
    BY <1>1 DEF BillingTypeOK
  <1>5. NoOrder \notin Keys /\ NoLink \notin Links /\ receipts[l] = "none"
    BY <1>1, <1>2, Rows DEF BillingInv, ReceiptsInv
  <1> HIDE DEF d, m
  <1>6. /\ \A j \in Keys : checkout'[j] = IF j = k THEN d ELSE checkout[j]
        /\ \A i \in Links : links'[i] = IF i = l THEN m ELSE links[i]
        /\ BillingTypeOK'
    BY <1>1, <1>2, <1>3, <1>4 DEF BillingTypeOK
  <1>7. orders[k].status # "none" /\ \A i \in Links : links[i].order # k
    BY <1>2 DEF BillingInv, CallsInv
  <1>8. ChargedOnce'
    BY <1>4, <1>6, <1>7 DEF BillingInv, ChargedOnce
  <1>9. CallsInv'
    <2>1. ASSUME NEW j \in Keys, orders[j].status = "none"
          PROVE  /\ checkout'[j].pc = "none" /\ ~checkout'[j].sent /\ orders[j].link = NoLink
                 /\ \A i \in Links : links'[i].order # j
      BY <1>4, <1>6, <1>7, <2>1 DEF BillingInv, CallsInv
    <2>2. ASSUME NEW j \in Keys, checkout'[j].sent
          PROVE  \A i \in Links : links'[i].order # j
      <3>1. j # k
        BY <1>3, <1>6, <2>2
      <3> QED BY <1>4, <1>6, <2>2, <3>1 DEF BillingInv, CallsInv
    <2>3. ASSUME NEW j \in Keys, orders[j].link # NoLink
          PROVE  links'[orders[j].link].order = j /\ checkout'[j].pc = "none"
      <3>1. orders[j].link \in Links /\ links[orders[j].link].order = j /\ checkout[j].pc = "none"
        BY <1>1, <2>3, Rows, OrderFields DEF BillingInv, CallsInv
      <3>2. j # k /\ orders[j].link # l
        BY <1>2, <1>5, <1>7, <3>1
      <3> QED BY <1>6, <3>1, <3>2
    <2>4. ASSUME NEW j \in Keys, checkout'[j].pc = "answered"
          PROVE  checkout'[j].link # NoLink /\ links'[checkout'[j].link].order = j
      <3>1. CASE j = k
        <4>1. pc = "answered"
          BY <1>3, <1>6, <2>4, <3>1
        <4>2. c.pc = "calling" \/ c.pc = "answered"
          BY <4>1
        <4>3. c.pc # "answered"
          <5>1. c.pc = "answered" => links[c.link].order = k /\ c.link # NoLink
            BY DEF BillingInv, CallsInv
          <5> QED BY <1>1, <1>7, <5>1, RequestFields
        <4> QED BY <1>3, <1>4, <1>5, <1>6, <3>1, <4>2, <4>3
      <3>2. CASE j # k
        <4>1. checkout'[j] = checkout[j] /\ checkout[j] \in Request
          BY <1>1, <1>6, <3>2, Rows
        <4>2. checkout[j].link # NoLink /\ links[checkout[j].link].order = j
          BY <2>4, <4>1 DEF BillingInv, CallsInv
        <4>3. checkout[j].link \in Links /\ checkout[j].link # l
          BY <1>2, <1>5, <4>1, <4>2, RequestFields
        <4> QED BY <1>6, <4>1, <4>2, <4>3
      <3> QED BY <3>1, <3>2
    <2> QED BY <1>2, <2>1, <2>2, <2>3, <2>4 DEF CallsInv
  <1>10. ReceiptsInv'
    <2>1. \A i \in Links : receipts[i] # "none" => i # l /\ links'[i] = links[i]
      BY <1>5, <1>6
    <2>2. \A j \in Keys : Applied(j) => Applied(j)'
      BY <1>2, <2>1 DEF Applied
    <2>3. \A i \in Links : links'[i].paid => links'[i].order # NoOrder
      BY <1>4, <1>5, <1>6 DEF BillingInv, ReceiptsInv
    <2> QED BY <1>2, <2>1, <2>2, <2>3 DEF BillingInv, ReceiptsInv
  <1>11. OneOpen'
    BY <1>2 DEF BillingInv, OneOpen
  <1> QED BY <1>6, <1>8, <1>9, <1>10, <1>11 DEF BillingInv

(* The answer is stored: its order was being created or is under review. *)
LEMMA CompletedKeeps ==
  ASSUME BillingInv, NEW k \in Keys, Completed(k)
  PROVE  BillingInv'
  <1> DEFINE c == checkout[k]
             good == c.signed /\ ownedBy = orders[k].owner /\ InTime(k)
             st == IF good THEN "pending" ELSE "requires_review"
             o == [orders[k] EXCEPT !.link = c.link, !.status = st]
  <1>1. BillingTypeOK /\ c \in Request /\ orders[k] \in Order
    BY Rows DEF BillingInv
  <1>2. /\ c.pc = "answered" /\ orders' = [orders EXCEPT ![k] = o]
        /\ checkout' = [checkout EXCEPT ![k] = Done]
        /\ UNCHANGED <<links, receipts, sub, staff, ownedBy, signedIn, today>>
    BY DEF Completed
  <1>3. c.link \in Links /\ links[c.link].order = k
    BY <1>1, <1>2, RequestFields DEF BillingInv, CallsInv
  <1>4. st \in {"pending", "requires_review"} /\ (st = "pending" => orders[k].status = "creating")
    BY DEF InTime
  <1>5. o \in Order /\ o.link = c.link /\ o.status = st
    <2>1. st \in {"none", "verified", "requires_review", "expired"} \cup Open
      BY <1>4 DEF Open
    <2>2. c.link \in Links \cup {NoLink}
      BY <1>3
    <2> HIDE DEF st, c
    <2> QED BY <1>1, <2>1, <2>2 DEF Order
  <1>6. Done \in Request /\ Done.pc = "none" /\ Done.sent = FALSE
    BY DEF Done, Request
  <1> HIDE DEF o, st
  <1>7. /\ \A j \in Keys : orders'[j] = IF j = k THEN o ELSE orders[j]
        /\ \A j \in Keys : checkout'[j] = IF j = k THEN Done ELSE checkout[j]
        /\ BillingTypeOK'
    BY <1>1, <1>2, <1>5, <1>6 DEF BillingTypeOK
  <1>8. NoLink \notin Links /\ NoOrder \notin Keys
    BY <1>1, Rows
  (* It was not verified: that takes a link, and with one no call waits. *)
  <1>9. orders[k].status # "verified" /\ orders[k].link = NoLink
    BY <1>2 DEF BillingInv, CallsInv, ReceiptsInv
  <1>10. ChargedOnce'
    BY <1>2 DEF BillingInv, ChargedOnce
  <1>11. CallsInv'
    BY <1>2, <1>3, <1>4, <1>5, <1>6, <1>7, <1>8 DEF BillingInv, CallsInv
  <1>12. ReceiptsInv'
    <2>1. ASSUME NEW l \in Links, receipts[l] # "none"
          PROVE  /\ orders'[links[l].order].status \in {"verified", "requires_review"}
                 /\ receipts[l] = "applied" => orders'[links[l].order].status = "verified"
      <3>1. /\ links[l].order \in Keys
            /\ orders[links[l].order].status \in {"verified", "requires_review"}
            /\ receipts[l] = "applied" => orders[links[l].order].status = "verified"
        BY <1>1, <2>1, Rows DEF BillingInv, ReceiptsInv
      <3> QED BY <1>4, <1>5, <1>7, <1>9, <3>1
    <2>2. ASSUME NEW j \in Keys, orders'[j].status = "verified"
          PROVE  Applied(j)'
      <3>1. j # k /\ orders[j].status = "verified"
        BY <1>4, <1>5, <1>7, <2>2
      <3> QED BY <1>2, <3>1 DEF BillingInv, ReceiptsInv, Applied
    <2>3. ASSUME NEW j \in Keys, orders'[j].status \in {"pending", "verified"}
          PROVE  orders'[j].link # NoLink
      BY <1>3, <1>5, <1>7, <1>8, <2>3 DEF BillingInv, ReceiptsInv
    <2>4. UNCHANGED <<links, receipts>>
      BY <1>2
    <2> QED BY <2>1, <2>2, <2>3, <2>4 DEF BillingInv, ReceiptsInv
  <1>13. OneOpen'
    <2>1. \A j \in Keys : orders'[j].status \in Open => orders[j].status \in Open
      BY <1>4, <1>5, <1>7 DEF Open
    <2> QED BY <2>1 DEF BillingInv, OneOpen
  <1> QED BY <1>7, <1>10, <1>11, <1>12, <1>13 DEF BillingInv

LEMMA CallFailsKeeps ==
  ASSUME BillingInv, NEW k \in Keys, CallFails(k)
  PROVE  BillingInv'
  <1> DEFINE c == [checkout[k] EXCEPT !.pc = "failed", !.link = NoLink]
  <1>1. c \in Request /\ c.pc = "failed" /\ c.sent = checkout[k].sent
    BY Rows DEF BillingInv, Request
  <1>2. checkout' = [checkout EXCEPT ![k] = c]
    BY DEF CallFails
  <1> HIDE DEF c
  <1> QED BY <1>1, <1>2, CallKeeps DEF CallFails

LEMMA LostKeeps ==
  ASSUME BillingInv, NEW k \in Keys, CheckoutLost(k)
  PROVE  BillingInv'
  <1> DEFINE c == [checkout[k] EXCEPT !.pc = "none", !.link = NoLink]
  <1>1. c \in Request /\ c.pc = "none" /\ c.sent = checkout[k].sent
    BY Rows DEF BillingInv, Request
  <1>2. checkout' = [checkout EXCEPT ![k] = c]
    BY DEF CheckoutLost
  <1> HIDE DEF c
  <1> QED BY <1>1, <1>2, CallKeeps DEF CheckoutLost

LEMMA UncertainKeeps ==
  ASSUME BillingInv, NEW k \in Keys, Uncertain(k)
  PROVE  BillingInv'
  <1> DEFINE c == [checkout[k] EXCEPT !.pc = "none"]
             o == IF orders[k].status = "creating"
                    THEN [orders[k] EXCEPT !.status = "creation_unknown"] ELSE orders[k]
  <1>1. BillingTypeOK /\ orders[k] \in Order
    BY Rows DEF BillingInv
  <1>2. c \in Request /\ c.pc = "none" /\ c.sent = checkout[k].sent
    BY Rows DEF BillingInv, Request
  <1>3. /\ o \in Order /\ o.link = orders[k].link
        /\ \/ o.status = orders[k].status
           \/ orders[k].status = "creating" /\ o.status = "creation_unknown"
    BY <1>1, StatusRow DEF Open
  <1>4. orders' = [orders EXCEPT ![k] = o] /\ checkout' = [checkout EXCEPT ![k] = c]
    BY <1>1 DEF Uncertain, BillingTypeOK
  <1>5. UNCHANGED <<links, receipts, sub, staff, ownedBy, signedIn, today>>
    BY DEF Uncertain
  <1> HIDE DEF c, o
  <1>6. /\ \A j \in Keys : checkout'[j] = IF j = k THEN c ELSE checkout[j]
        /\ \A j \in Keys : orders'[j] = IF j = k THEN o ELSE orders[j]
        /\ BillingTypeOK'
    BY <1>1, <1>2, <1>3, <1>4, <1>5 DEF BillingTypeOK
  <1>7. \A j \in Keys :
          /\ orders'[j].link = orders[j].link
          /\ \/ orders'[j].status = orders[j].status
             \/ orders[j].status = "creating" /\ orders'[j].status = "creation_unknown"
    BY <1>3, <1>6
  <1>8. CallsInv'
    BY <1>2, <1>5, <1>6, <1>7 DEF BillingInv, CallsInv
  <1>9. ReceiptsInv'
    <2>1. \A l \in Links : links[l].order # NoOrder => links[l].order \in Keys
      BY <1>1, Rows
    <2> QED BY <1>5, <1>7, <2>1 DEF BillingInv, ReceiptsInv, Applied
  <1>10. OneOpen'
    BY <1>7 DEF BillingInv, OneOpen, Open
  <1>11. ChargedOnce'
    BY <1>5 DEF BillingInv, ChargedOnce
  <1> QED BY <1>6, <1>8, <1>9, <1>10, <1>11 DEF BillingInv

LEMMA PayKeeps ==
  ASSUME BillingInv, NEW l \in Links, Pay(l)
  PROVE  BillingInv'
  <1> DEFINE m == [links[l] EXCEPT !.paid = TRUE]
  <1>1. BillingTypeOK
    BY DEF BillingInv
  <1>2. m.order = links[l].order /\ m.paid = TRUE /\ m \in [order : Keys \cup {NoOrder}, paid : BOOLEAN]
    <2>1. links[l] \in [order : Keys \cup {NoOrder}, paid : BOOLEAN]
      BY <1>1 DEF BillingTypeOK
    <2> QED BY <2>1
  <1>3. /\ links' = [links EXCEPT ![l] = m]
        /\ UNCHANGED <<orders, receipts, sub, staff, ownedBy, signedIn, checkout, today>>
    BY DEF Pay
  <1> HIDE DEF m
  <1>4. /\ \A i \in Links : links'[i].order = links[i].order /\ (links[i].paid => links'[i].paid)
        /\ BillingTypeOK'
    BY <1>1, <1>2, <1>3 DEF BillingTypeOK
  <1>5. \A k \in Keys : orders[k].link \in Links \cup {NoLink} /\ checkout[k].link \in Links \cup {NoLink}
    BY <1>1, Rows, OrderFields, RequestFields
  <1>6. CallsInv'
    BY <1>3, <1>4, <1>5 DEF BillingInv, CallsInv
  <1>7. ReceiptsInv'
    <2>1. \A i \in Links : links'[i].paid => links'[i].order # NoOrder
      <3>1. links[l].order # NoOrder /\ \A i \in Links \ {l} : links'[i] = links[i]
        BY <1>1, <1>3 DEF Pay, BillingTypeOK
      <3> QED BY <1>4, <3>1 DEF BillingInv, ReceiptsInv
    <2> QED BY <1>3, <1>4, <2>1 DEF BillingInv, ReceiptsInv, Applied
  <1>8. ChargedOnce' /\ OneOpen'
    BY <1>3, <1>4 DEF BillingInv, ChargedOnce, OneOpen
  <1> QED BY <1>4, <1>6, <1>7, <1>8 DEF BillingInv

(* A receipt is recorded: for a verified order it would be a second one. *)
LEMMA WebhookRows ==
  ASSUME BillingInv, NEW l \in Links, Webhook(l)
  PROVE  LET k == links[l].order IN
         /\ k \in Keys
         /\ receipts[l] = "none" /\ ~Applied(k) /\ orders[k].status # "verified"
         /\ orders'[k].status = IF Fits(k, l) THEN "verified" ELSE "requires_review"
         /\ orders'[k].completed = today
         /\ orders'[k].seats = orders[k].seats /\ orders'[k].link = orders[k].link
         /\ orders'[k].base = orders[k].base
         /\ \A j \in Keys \ {k} : orders'[j] = orders[j]
         /\ receipts'[l] = IF Fits(k, l) THEN "applied" ELSE "requires_review"
         /\ \A m \in Links \ {l} : receipts'[m] = receipts[m]
         /\ orders' \in [Keys -> Order]
         /\ receipts' \in [Links -> {"none", "applied", "requires_review"}]
  <1> DEFINE k == links[l].order
             st == IF Fits(k, l) THEN "verified" ELSE "requires_review"
             re == IF Fits(k, l) THEN "applied" ELSE "requires_review"
             o == [orders[k] EXCEPT !.completed = today, !.status = st]
  <1>1. BillingTypeOK /\ today \in Nat
    BY DEF BillingInv, BillingTypeOK
  <1>2. k \in Keys
    BY <1>1, Rows DEF BillingInv, ReceiptsInv, Webhook
  <1>3. orders' = [orders EXCEPT ![k] = o] /\ receipts' = [receipts EXCEPT ![l] = re] /\ Unrecorded(l)
    BY <1>1, <1>2 DEF Webhook, BillingTypeOK
  <1>4. receipts[l] = "none" /\ ~Applied(k) /\ orders[k].status # "verified"
    BY <1>2, <1>3 DEF Unrecorded, Applied, BillingInv, ReceiptsInv
  <1>5. orders[k] \in Order /\ st \in {"verified", "requires_review"} /\ re \in {"applied", "requires_review"}
    BY <1>1, <1>2, Rows
  <1>6. o \in Order /\ o.status = st /\ o.completed = today /\ o.seats = orders[k].seats
          /\ o.link = orders[k].link /\ o.base = orders[k].base
    <2> HIDE DEF st
    <2> QED BY <1>1, <1>5 DEF Order
  <1> HIDE DEF o
  <1>7. /\ orders'[k] = o /\ \A j \in Keys \ {k} : orders'[j] = orders[j]
        /\ orders' \in [Keys -> Order]
    BY <1>1, <1>2, <1>3, <1>6 DEF BillingTypeOK
  <1>8. /\ receipts'[l] = re /\ \A m \in Links \ {l} : receipts'[m] = receipts[m]
        /\ receipts' \in [Links -> {"none", "applied", "requires_review"}]
    BY <1>1, <1>3, <1>5 DEF BillingTypeOK
  <1> QED BY <1>2, <1>4, <1>6, <1>7, <1>8

LEMMA WebhookKeeps ==
  ASSUME BillingInv, NEW l \in Links, Webhook(l)
  PROVE  BillingInv'
  <1> DEFINE k == links[l].order
             fit == Fits(k, l)
  <1>1. BillingTypeOK /\ today \in Nat /\ Term \in Nat /\ sub.revision \in Nat
    BY BillingAssumption, Rows DEF BillingInv, BillingTypeOK
  <1>2. /\ k \in Keys
        /\ receipts[l] = "none" /\ ~Applied(k) /\ orders[k].status # "verified"
        /\ orders'[k].status = IF fit THEN "verified" ELSE "requires_review"
        /\ orders'[k].link = orders[k].link
        /\ \A j \in Keys \ {k} : orders'[j] = orders[j]
        /\ receipts'[l] = IF fit THEN "applied" ELSE "requires_review"
        /\ \A m \in Links \ {l} : receipts'[m] = receipts[m]
        /\ orders' \in [Keys -> Order]
        /\ receipts' \in [Links -> {"none", "applied", "requires_review"}]
    BY WebhookRows
  <1>3. UNCHANGED <<links, staff, ownedBy, signedIn, checkout, today>> /\ links[l].paid
    BY DEF Webhook
  <1>4. fit => orders[k].link = l /\ orders[k].status = "pending"
    BY DEF Fits
  <1>5. orders[k].status # "none"
    BY <1>2 DEF BillingInv, CallsInv
  <1>6. sub' \in [seats : Nat, start : Nat, end : Nat, ends : BOOLEAN, revision : Nat,
                  order : Keys \cup {NoOrder}]
    <2> DEFINE e == today + Term
               r == sub.revision + 1
               n == orders[k].seats
    <2>1. e \in Nat /\ r \in Nat /\ n \in Nat
      BY <1>1, <1>2, Rows, OrderFields
    <2>2. \/ sub' = sub
          \/ sub' = [seats |-> n, start |-> today, end |-> e, ends |-> FALSE, revision |-> r, order |-> k]
      BY DEF Webhook
    <2>3. sub \in [seats : Nat, start : Nat, end : Nat, ends : BOOLEAN, revision : Nat,
                   order : Keys \cup {NoOrder}]
      BY <1>1 DEF BillingTypeOK
    <2>4. k \in Keys \cup {NoOrder}
      BY <1>2
    <2> HIDE DEF e, r, n, k
    <2>5. [seats |-> n, start |-> today, end |-> e, ends |-> FALSE, revision |-> r, order |-> k]
            \in [seats : Nat, start : Nat, end : Nat, ends : BOOLEAN, revision : Nat,
                 order : Keys \cup {NoOrder}]
      BY <1>1, <2>1, <2>4
    <2> QED BY <2>2, <2>3, <2>5
  <1> HIDE DEF fit, k
  <1>7. BillingTypeOK'
    BY <1>1, <1>2, <1>3, <1>6 DEF BillingTypeOK
  <1>8. ChargedOnce'
    BY <1>3 DEF BillingInv, ChargedOnce
  <1>9. CallsInv'
    BY <1>2, <1>3, <1>5 DEF BillingInv, CallsInv
  <1>10. \A m \in Links : links[m].order = k /\ receipts'[m] # "none" => m = l
    BY <1>1, <1>2, Rows DEF BillingInv, ChargedOnce, k
  <1>11. ReceiptsInv'
    <2>1. \A m \in Links : links[m].paid => links[m].order # NoOrder
      BY DEF BillingInv, ReceiptsInv
    <2>2. ASSUME NEW m \in Links, receipts'[m] # "none"
          PROVE  /\ links[m].order # NoOrder /\ links[m].paid
                 /\ orders'[links[m].order].status \in {"verified", "requires_review"}
                 /\ receipts'[m] = "applied" => orders'[links[m].order].status = "verified"
      <3>1. CASE m = l
        BY <1>2, <1>3, <2>1, <3>1 DEF k
      <3>2. CASE m # l
        <4>1. receipts[m] = receipts'[m] /\ links[m].order # NoOrder /\ links[m].paid
          BY <1>2, <2>2, <3>2 DEF BillingInv, ReceiptsInv
        <4>2. links[m].order \in Keys \ {k}
          BY <1>1, <1>10, <2>2, <3>2, <4>1, Rows
        <4> QED BY <1>2, <2>2, <4>1, <4>2 DEF BillingInv, ReceiptsInv
      <3> QED BY <3>1, <3>2
    <2>3. ASSUME NEW j \in Keys, orders'[j].status = "verified"
          PROVE  \E m \in Links : links[m].order = j /\ receipts'[m] = "applied"
      <3>1. CASE j = k
        BY <1>2, <2>3, <3>1 DEF k
      <3>2. CASE j # k
        <4>1. PICK m \in Links : links[m].order = j /\ receipts[m] = "applied"
          BY <1>2, <2>3, <3>2 DEF BillingInv, ReceiptsInv, Applied
        <4>2. m # l
          BY <3>2, <4>1 DEF k
        <4> QED BY <1>2, <4>1, <4>2
      <3> QED BY <3>1, <3>2
    <2>4. ASSUME NEW j \in Keys, orders'[j].status \in {"pending", "verified"}
          PROVE  orders'[j].link # NoLink
      BY <1>2, <1>4, <2>4 DEF BillingInv, ReceiptsInv
    <2> QED BY <1>3, <2>1, <2>2, <2>3, <2>4 DEF ReceiptsInv, Applied
  <1>12. OneOpen'
    <2>1. \A j \in Keys : orders'[j].status \in Open => j # k /\ orders[j].status \in Open
      BY <1>2 DEF Open
    <2> QED BY <2>1 DEF BillingInv, OneOpen
  <1> QED BY <1>7, <1>8, <1>9, <1>11, <1>12 DEF BillingInv

LEMMA SignOutKeeps ==
  ASSUME BillingInv, NEW u \in Owners, SignOut(u)
  PROVE  BillingInv'
  <1>1. BillingTypeOK
    BY DEF BillingInv
  <1>2. ASSUME NEW k \in Keys
        PROVE  /\ checkout'[k] \in Request
               /\ checkout'[k].pc = checkout[k].pc /\ checkout'[k].sent = checkout[k].sent
               /\ checkout'[k].link = checkout[k].link
    <2> DEFINE c == checkout[k]
    <2>1. c \in Request
      BY <1>1, Rows
    <2>2. checkout'[k] = [c EXCEPT !.signed = FALSE] \/ checkout'[k] = c
      BY DEF SignOut
    <2> HIDE DEF c
    <2>3. checkout'[k] \in Request /\ checkout'[k].pc = c.pc /\ checkout'[k].sent = c.sent
            /\ checkout'[k].link = c.link
      BY <2>1, <2>2 DEF Request
    <2> QED BY <2>3 DEF c
  <1>3. /\ signedIn' \in SUBSET Owners
        /\ UNCHANGED <<orders, links, receipts, sub, staff, ownedBy, today>>
        /\ checkout' = [k \in Keys |-> checkout'[k]]
    BY <1>1 DEF SignOut, BillingTypeOK
  <1>4. BillingTypeOK'
    BY <1>1, <1>2, <1>3 DEF BillingTypeOK
  <1>5. CallsInv'
    BY <1>2, <1>3 DEF BillingInv, CallsInv
  <1> QED BY <1>3, <1>4, <1>5 DEF BillingInv, ChargedOnce, ReceiptsInv, OneOpen, Applied

(* The steps of the subscription, the members, the owner and the time. *)
LEMMA OtherKeeps ==
  ASSUME BillingInv,
         \/ \E u \in Owners, b \in BOOLEAN : MarkTerm(u, b)
         \/ \E u \in Owners : TransferOwner(u) \/ SignIn(u)
         \/ MemberJoins \/ MemberLeaves \/ DayPasses \/ UNCHANGED billingVars
  PROVE  BillingInv'
  <1>1. BillingTypeOK /\ Cardinality(Owners) \in Nat /\ staff \in Nat /\ today \in Nat
    BY BillingAssumption, FS_CardinalityType DEF BillingInv, BillingTypeOK
  <1>2. UNCHANGED <<orders, links, receipts, checkout>>
    BY DEF MarkTerm, TransferOwner, SignIn, MemberJoins, MemberLeaves, DayPasses, billingVars
  <1>3. CASE \E u \in Owners, b \in BOOLEAN : MarkTerm(u, b)
    <2>1. PICK u \in Owners, b \in BOOLEAN : MarkTerm(u, b)
      BY <1>3
    <2> DEFINE r == sub.revision + 1
    <2>2. r \in Nat
      BY <1>1, Rows
    <2>3. sub' = [sub EXCEPT !.ends = b, !.revision = r]
      BY <2>1 DEF MarkTerm
    <2> HIDE DEF r
    <2>4. sub' \in [seats : Nat, start : Nat, end : Nat, ends : BOOLEAN, revision : Nat,
                    order : Keys \cup {NoOrder}]
      BY <1>1, <2>2, <2>3 DEF BillingTypeOK
    <2>5. BillingTypeOK'
      BY <1>1, <1>2, <2>1, <2>4 DEF MarkTerm, BillingTypeOK
    <2> QED BY <1>2, <2>5, ElsewhereKeeps
  <1>4. CASE \E u \in Owners : TransferOwner(u) \/ SignIn(u)
    <2>1. BillingTypeOK'
      BY <1>1, <1>2, <1>4 DEF TransferOwner, SignIn, BillingTypeOK
    <2> QED BY <1>2, <2>1, ElsewhereKeeps
  <1>5. CASE MemberJoins \/ MemberLeaves
    <2>1. staff' \in Nat
      BY <1>1, <1>5 DEF MemberJoins, MemberLeaves
    <2>2. BillingTypeOK'
      BY <1>1, <1>2, <1>5, <2>1 DEF MemberJoins, MemberLeaves, BillingTypeOK
    <2> QED BY <1>2, <2>2, ElsewhereKeeps
  <1>6. CASE DayPasses
    <2>1. today' \in Nat
      BY <1>1, <1>6 DEF DayPasses
    <2>2. BillingTypeOK'
      BY <1>1, <1>2, <1>6, <2>1 DEF DayPasses, BillingTypeOK
    <2> QED BY <1>2, <2>2, ElsewhereKeeps
  <1>7. CASE UNCHANGED billingVars
    <2>1. BillingTypeOK'
      BY <1>1, <1>7 DEF billingVars, BillingTypeOK
    <2> QED BY <1>2, <2>1, ElsewhereKeeps
  <1> QED BY <1>3, <1>4, <1>5, <1>6, <1>7

LEMMA BillingStep == BillingInv /\ [BillingNext]_billingVars => BillingInv'
  <1> SUFFICES ASSUME BillingInv, [BillingNext]_billingVars
               PROVE  BillingInv'
    OBVIOUS
  <1>1. CASE \E k \in Keys, u \in Owners, n \in Seats : Checkout(k, u, n)
    BY <1>1, CheckoutKeeps
  <1>2. CASE \E k \in Keys : \/ Completed(k) \/ CallFails(k) \/ Uncertain(k) \/ CheckoutLost(k)
                             \/ \E l \in Links : ProviderCreates(k, l)
    BY <1>2, CompletedKeeps, CallFailsKeeps, UncertainKeeps, LostKeeps, ProviderKeeps
  <1>3. CASE \E l \in Links : Pay(l) \/ Webhook(l)
    BY <1>3, PayKeeps, WebhookKeeps
  <1>4. CASE \E u \in Owners : SignOut(u)
    BY <1>4, SignOutKeeps
  <1>5. CASE \/ \E u \in Owners, b \in BOOLEAN : MarkTerm(u, b)
             \/ \E u \in Owners : TransferOwner(u) \/ SignIn(u)
             \/ MemberJoins \/ MemberLeaves \/ DayPasses \/ UNCHANGED billingVars
    BY <1>5, OtherKeeps
  <1>6. CASE \E k \in Keys : Repeat(k)
    BY <1>6, OtherKeeps DEF Repeat
  <1> QED BY <1>1, <1>2, <1>3, <1>4, <1>5, <1>6 DEF BillingNext

(* The invariant holds in every state: each link belongs to the one call that *)
(* was sent for its order, and receipts and orders agree.                    *)
THEOREM BillingCorrect == BillingSpec => []BillingInv
  BY BillingStart, BillingStep, PTL DEF BillingSpec

THEOREM BillingTypeCorrect == BillingSpec => []BillingTypeOK
  <1>1. BillingInv => BillingTypeOK
    BY DEF BillingInv
  <1> QED BY <1>1, BillingCorrect, PTL

(* A checkout never leads to two links that could both be paid, however its   *)
(* request is repeated, interrupted or answered late.                        *)
THEOREM NobodyChargedTwice == BillingSpec => []ChargedOnce
  <1>1. BillingInv => ChargedOnce
    BY DEF BillingInv
  <1> QED BY <1>1, BillingCorrect, PTL

(* Orders and receipts tell one story, whichever writes the status last. *)
THEOREM BooksAlwaysAgree == BillingSpec => []BooksAgree
  <1>1. ASSUME BillingInv
        PROVE  BooksAgree
    <2>1. \A l \in Links : links[l].order # NoOrder => links[l].order \in Keys
      BY <1>1, Rows DEF BillingInv
    <2>2. ASSUME NEW k \in Keys
          PROVE  orders[k].status = "verified" <=> Applied(k)
      BY <1>1, <2>1 DEF BillingInv, ReceiptsInv, Applied
    <2>3. ASSUME NEW k \in Keys, orders[k].status = "pending", NEW l \in Links, links[l].order = k
          PROVE  l = orders[k].link /\ receipts[l] = "none"
      <3>1. orders[k].link \in Links /\ links[orders[k].link].order = k
        BY <1>1, <2>3, Rows, OrderFields DEF BillingInv, ReceiptsInv, CallsInv
      <3>2. links[l].order # NoOrder
        BY <1>1, <2>3, Rows DEF BillingInv
      <3> QED BY <1>1, <2>3, <3>1, <3>2 DEF BillingInv, ChargedOnce, ReceiptsInv
    <2>4. \A j, k \in Keys : {orders[j].status, orders[k].status} \subseteq Open => j = k
      BY <1>1 DEF BillingInv, OneOpen
    <2> QED BY <2>2, <2>3, <2>4 DEF BooksAgree
  <1> QED BY <1>1, BillingCorrect, PTL

-----------------------------------------------------------------------------
(* The refinement.  What was offered stays, a verified order stays as it is,   *)
(* and the subscription is the one that the last verified order bought.      *)
OrdersStay ==
  \A k \in Keys : orders[k].status # "none" =>
    /\ orders'[k].status # "none"
    /\ orders'[k].seats = orders[k].seats /\ orders'[k].base = orders[k].base
    /\ orders[k].status = "verified" =>
         /\ orders'[k].status = "verified" /\ orders'[k].completed = orders[k].completed
         /\ orders'[k].link = orders[k].link

TermInv ==
  /\ \A k \in Keys : orders[k].status # "none" =>
       orders[k].seats \in Seats /\ orders[k].base <= sub.revision
  /\ sub.order # NoOrder =>
       /\ orders[sub.order].status = "verified"
       /\ orders[sub.order].seats = sub.seats
       /\ orders[sub.order].completed = sub.start
       /\ sub.end = sub.start + Term

LEMMA OrdersStayed ==
  ASSUME BillingInv, [BillingNext]_billingVars
  PROVE  OrdersStay
  <1>1. BillingTypeOK
    BY DEF BillingInv
  <1>2. CASE \E k \in Keys, u \in Owners, n \in Seats : Checkout(k, u, n)
    <2>1. PICK k \in Keys, u \in Owners, n \in Seats : Checkout(k, u, n)
      BY <1>2
    <2>2. orders[k].status = "none" /\ \A j \in Keys \ {k} : orders'[j] = Swept[j]
      BY <1>1, <2>1, SweptRows DEF Checkout
    <2> QED BY <1>1, <2>2, SweptRows DEF OrdersStay, Open
  <1>3. CASE \E k \in Keys : Completed(k)
    <2>1. PICK k \in Keys : Completed(k)
      BY <1>3
    <2> DEFINE st == IF /\ checkout[k].signed /\ ownedBy = orders[k].owner /\ InTime(k)
                       THEN "pending" ELSE "requires_review"
    <2>2. orders' = [orders EXCEPT ![k] = [orders[k] EXCEPT !.link = checkout[k].link, !.status = st]]
      BY <1>1, <2>1 DEF Completed, BillingTypeOK
    <2>3. orders[k] \in Order /\ orders[k].status # "verified"
      BY <1>1, <2>1, Rows DEF BillingInv, CallsInv, ReceiptsInv, Completed
    <2>4. st # "none"
      OBVIOUS
    <2> HIDE DEF st
    <2>5. /\ orders'[k].status = st /\ orders'[k].seats = orders[k].seats
          /\ orders'[k].base = orders[k].base /\ \A j \in Keys \ {k} : orders'[j] = orders[j]
      BY <1>1, <2>2, <2>3 DEF BillingTypeOK, Order
    <2> QED BY <2>3, <2>4, <2>5 DEF OrdersStay
  <1>4. CASE \E k \in Keys : Uncertain(k)
    <2>1. PICK k \in Keys : Uncertain(k)
      BY <1>4
    <2>2. CASE orders[k].status = "creating"
      <3>1. orders' = [orders EXCEPT ![k] = [orders[k] EXCEPT !.status = "creation_unknown"]]
        BY <1>1, <2>1, <2>2 DEF Uncertain, BillingTypeOK
      <3>2. orders[k] \in Order
        BY <1>1, Rows
      <3>3. /\ orders'[k].status = "creation_unknown" /\ orders'[k].seats = orders[k].seats
            /\ orders'[k].base = orders[k].base /\ \A j \in Keys \ {k} : orders'[j] = orders[j]
        BY <1>1, <3>1, <3>2 DEF BillingTypeOK, Order
      <3> QED BY <2>2, <3>3 DEF OrdersStay
    <2>3. CASE orders[k].status # "creating"
      BY <2>1, <2>3 DEF Uncertain, OrdersStay
    <2> QED BY <2>2, <2>3
  <1>5. CASE \E l \in Links : Webhook(l)
    <2>1. PICK l \in Links : Webhook(l)
      BY <1>5
    <2>2. PICK k \in Keys : /\ orders[k].status # "verified"
                            /\ orders'[k].status \in {"verified", "requires_review"}
                            /\ orders'[k].seats = orders[k].seats /\ orders'[k].base = orders[k].base
                            /\ \A j \in Keys \ {k} : orders'[j] = orders[j]
      BY <2>1, WebhookRows
    <2> QED BY <2>2 DEF OrdersStay
  <1>6. CASE UNCHANGED orders
    BY <1>6 DEF OrdersStay
  <1> QED BY <1>2, <1>3, <1>4, <1>5, <1>6
       DEF BillingNext, billingVars, Repeat, CallFails, CheckoutLost, ProviderCreates, Pay, MarkTerm,
           TransferOwner, SignIn, SignOut, MemberJoins, MemberLeaves, DayPasses

LEMMA TermStart == BillingInit => TermInv
  BY BillingAssumption DEF BillingInit, TermInv

LEMMA TermStep ==
  ASSUME BillingInv, TermInv, [BillingNext]_billingVars
  PROVE  TermInv'
  <1>1. BillingTypeOK /\ OrdersStay /\ sub.revision \in Nat
    BY OrdersStayed, Rows DEF BillingInv
  <1>2. ASSUME NEW k \in Keys, orders[k].status # "none", sub'.revision \in Nat,
               sub.revision <= sub'.revision
        PROVE  orders'[k].seats \in Seats /\ orders'[k].base <= sub'.revision
    <2>1. /\ orders'[k].seats \in Seats /\ orders'[k].base = orders[k].base
          /\ orders[k].base \in Nat /\ orders[k].base <= sub.revision
      BY <1>1, <1>2, Rows, OrderFields DEF OrdersStay, TermInv
    <2> QED BY <1>1, <1>2, <2>1
  <1>3. ASSUME sub'.order = sub.order, sub'.seats = sub.seats, sub'.start = sub.start,
               sub'.end = sub.end, sub.order # NoOrder
        PROVE  /\ orders'[sub.order].status = "verified"
               /\ orders'[sub.order].seats = sub'.seats
               /\ orders'[sub.order].completed = sub'.start
               /\ sub'.end = sub'.start + Term
    BY <1>1, <1>3, Rows DEF OrdersStay, TermInv
  <1>4. CASE \E k \in Keys, u \in Owners, n \in Seats : Checkout(k, u, n)
    <2>1. PICK k \in Keys, u \in Owners, n \in Seats : Checkout(k, u, n)
      BY <1>4
    <2>2. /\ sub' = sub /\ \A j \in Keys \ {k} : orders'[j].status # "none" => orders[j].status # "none"
          /\ orders'[k].seats = n /\ orders'[k].base = sub.revision
      <3>1. /\ Swept \in [Keys -> Order]
            /\ \A j \in Keys : Swept[j].status # "none" => orders[j].status # "none"
        BY <1>1, SweptRows DEF Open
      <3>2. /\ sub' = sub /\ \A j \in Keys \ {k} : orders'[j] = Swept[j]
            /\ orders'[k].seats = n /\ orders'[k].base = sub.revision
        BY <2>1, <3>1 DEF Checkout
      <3> QED BY <3>1, <3>2
    <2>3. ASSUME NEW j \in Keys, orders'[j].status # "none"
          PROVE  orders'[j].seats \in Seats /\ orders'[j].base <= sub'.revision
      <3>1. CASE j = k
        BY <1>1, <2>2, <3>1
      <3>2. CASE j # k
        BY <1>1, <1>2, <2>2, <2>3, <3>2
      <3> QED BY <3>1, <3>2
    <2> QED BY <1>3, <2>2, <2>3 DEF TermInv
  <1>5. CASE \E l \in Links : Webhook(l)
    <2>1. PICK l \in Links : Webhook(l)
      BY <1>5
    <2> DEFINE k == links[l].order
               fit == Fits(k, l)
    <2>2. /\ k \in Keys /\ orders[k].status # "verified"
          /\ orders'[k].status = IF fit THEN "verified" ELSE "requires_review"
          /\ orders'[k].completed = today /\ orders'[k].seats = orders[k].seats
          /\ \A j \in Keys \ {k} : orders'[j] = orders[j]
      BY <2>1, WebhookRows
    <2>3. orders[k].status # "none"
      BY <2>2 DEF BillingInv, CallsInv
    <2>4. CASE fit
      <3> DEFINE e == today + Term
                 r == sub.revision + 1
                 n == orders[k].seats
      <3>1. sub' = [seats |-> n, start |-> today, end |-> e, ends |-> FALSE, revision |-> r, order |-> k]
        BY <2>1, <2>4 DEF Webhook
      <3>2. r \in Nat /\ sub.revision <= r
        BY <1>1
      <3> HIDE DEF r, e, k
      <3>3. /\ sub'.seats = n /\ sub'.start = today /\ sub'.end = e /\ sub'.revision = r
            /\ sub'.order = k
        BY <3>1
      <3>4. \A j \in Keys : orders'[j].status # "none" => orders[j].status # "none"
        BY <2>2, <2>3
      <3>5. sub'.end = sub'.start + Term
        BY <3>3 DEF e
      <3> HIDE DEF fit
      <3> QED BY <1>2, <2>2, <2>4, <3>2, <3>3, <3>4, <3>5 DEF TermInv
    <2>5. CASE ~fit
      <3>1. sub' = sub
        BY <2>1, <2>5 DEF Webhook
      <3>2. \A j \in Keys : orders'[j].status # "none" => orders[j].status # "none"
        BY <2>2, <2>3
      <3>3. sub.revision <= sub'.revision
        BY <1>1, <3>1
      <3> QED BY <1>1, <1>2, <1>3, <3>1, <3>2, <3>3 DEF TermInv
    <2> QED BY <2>4, <2>5
  <1>6. CASE \E u \in Owners, b \in BOOLEAN : MarkTerm(u, b)
    <2>1. PICK u \in Owners, b \in BOOLEAN : MarkTerm(u, b)
      BY <1>6
    <2> DEFINE r == sub.revision + 1
    <2>2. r \in Nat /\ sub.revision <= r
      BY <1>1
    <2>3. sub' = [sub EXCEPT !.ends = b, !.revision = r] /\ orders' = orders
      BY <2>1 DEF MarkTerm
    <2> HIDE DEF r
    <2>4. /\ sub'.order = sub.order /\ sub'.seats = sub.seats /\ sub'.start = sub.start
          /\ sub'.end = sub.end /\ sub'.revision = r
      BY <1>1, <2>3 DEF BillingTypeOK
    <2> QED BY <1>2, <1>3, <2>2, <2>3, <2>4 DEF TermInv
  <1>7. CASE /\ UNCHANGED sub
             /\ \A k \in Keys : orders'[k].status # "none" => orders[k].status # "none"
    <2>1. sub.revision <= sub'.revision
      BY <1>1, <1>7
    <2> QED BY <1>1, <1>2, <1>3, <1>7, <2>1 DEF TermInv
  <1>8. CASE \E k \in Keys : Completed(k) \/ Uncertain(k)
    <2>1. PICK k \in Keys : Completed(k) \/ Uncertain(k)
      BY <1>8
    <2>2. orders[k].status # "none" /\ UNCHANGED sub
      BY <2>1 DEF BillingInv, CallsInv, Completed, Uncertain
    <2>3. \A j \in Keys \ {k} : orders'[j] = orders[j]
      BY <1>1, <2>1 DEF Completed, Uncertain, BillingTypeOK
    <2> QED BY <1>7, <2>2, <2>3
  <1>9. CASE UNCHANGED <<orders, sub>>
    BY <1>7, <1>9
  <1> QED BY <1>4, <1>5, <1>6, <1>8, <1>9
       DEF BillingNext, billingVars, Repeat, CallFails, CheckoutLost, ProviderCreates, Pay,
           TransferOwner, SignIn, SignOut, MemberJoins, MemberLeaves, DayPasses

(* The variables of PrepaidSeats, as `PS` maps them. *)
OffersOf ==
  [l \in Links |-> IF links[l].order = NoOrder THEN NoOrder
     ELSE [seats |-> orders[links[l].order].seats, at |-> orders[links[l].order].base]]
PaidOf    == {l \in Links : links[l].paid}
SettledOf == {l \in Links : receipts[l] # "none"}
TermOf ==
  IF sub.order = NoOrder THEN NoLink
  ELSE [payment |-> orders[sub.order].link, seats |-> sub.seats, until |-> sub.end,
        ends |-> sub.ends]

(* A subscription bought by an order is verified, so its seats are in force   *)
(* just while its term runs.                                                *)
ForceMatches == PaidSeats = PS!InForce(TermOf, today)

LEMMA ForceOf == BillingInv /\ TermInv => ForceMatches
  <1> SUFFICES ASSUME BillingInv, TermInv
               PROVE  ForceMatches
    OBVIOUS
  <1>1. CASE sub.order = NoOrder
    <2>1. ~Verified /\ TermOf = NoLink
      BY <1>1 DEF Verified, TermOf
    <2> QED BY <2>1 DEF PaidSeats, PS!InForce, ForceMatches
  <1>2. CASE sub.order # NoOrder
    <2> DEFINE t == TermOf
    <2>1. t = [payment |-> orders[sub.order].link, seats |-> sub.seats, until |-> sub.end,
               ends |-> sub.ends]
      BY <1>2 DEF TermOf
    <2>2. /\ sub.order \in Keys /\ orders[sub.order] \in Order /\ sub.seats \in Nat
          /\ sub.end \in Nat /\ sub.ends \in BOOLEAN
      BY <1>2 DEF BillingInv, BillingTypeOK
    <2>3. orders[sub.order].status = "verified"
      BY <1>2 DEF TermInv
    <2>4. Verified
      <3>1. Applied(sub.order)
        BY <2>2, <2>3 DEF BillingInv, ReceiptsInv
      <3> QED BY <1>2, <2>3, <3>1 DEF TermInv, Verified
    <2>5. t # NoLink
      <3>1. orders[sub.order].link \in Links
        BY <2>2, <2>3, OrderFields DEF BillingInv, ReceiptsInv
      <3> HIDE DEF t
      <3>2. t \in [payment : Links, seats : Nat, until : Nat, ends : BOOLEAN]
        BY <2>1, <2>2, <3>1
      <3> QED BY <3>2, NothingAssumption
    <2>6. t.seats = sub.seats /\ t.until = sub.end
      BY <2>1
    <2>7. PaidSeats = IF today < sub.end THEN sub.seats ELSE 0
      BY <2>4 DEF PaidSeats
    <2>8. PS!InForce(TermOf, today) = IF today < t.until THEN t.seats ELSE 0
      BY <2>5 DEF PS!InForce
    <2> QED BY <2>6, <2>7, <2>8 DEF ForceMatches
  <1> QED BY <1>1, <1>2

LEMMA ForceNext == BillingInv' /\ TermInv' => ForceMatches'
  BY ForceOf, PTL

(* What a step that neither makes nor settles a payment leaves as it is. *)
LEMMA OffersStay ==
  ASSUME BillingInv, OrdersStay, UNCHANGED <<links, receipts>>
  PROVE  OffersOf' = OffersOf /\ PaidOf' = PaidOf /\ SettledOf' = SettledOf
  <1>1. ASSUME NEW l \in Links, links[l].order # NoOrder
        PROVE  /\ orders'[links[l].order].seats = orders[links[l].order].seats
               /\ orders'[links[l].order].base = orders[links[l].order].base
    <2>1. links[l].order \in Keys
      BY <1>1, Rows DEF BillingInv
    <2>2. orders[links[l].order].status # "none"
      BY <1>1, <2>1 DEF BillingInv, CallsInv
    <2> QED BY <2>1, <2>2 DEF OrdersStay
  <1> QED BY <1>1 DEF OffersOf, PaidOf, SettledOf

LEMMA TermStays ==
  ASSUME BillingInv, TermInv, OrdersStay, UNCHANGED sub
  PROVE  TermOf' = TermOf
  BY Rows DEF BillingInv, OrdersStay, TermInv, TermOf

LEMMA OfferRow ==
  ASSUME BillingInv, TermInv, NEW l \in Links
  PROVE  /\ links[l].order = NoOrder => OffersOf[l] = NoOrder
         /\ links[l].order # NoOrder =>
              /\ OffersOf[l] # NoOrder
              /\ OffersOf[l].seats = orders[links[l].order].seats
              /\ OffersOf[l].at = orders[links[l].order].base
              /\ OffersOf[l] \in [seats : Seats, at : 0..sub.revision]
  <1>1. CASE links[l].order = NoOrder
    BY <1>1 DEF OffersOf
  <1>2. CASE links[l].order # NoOrder
    <2> DEFINE o == orders[links[l].order]
               f == OffersOf[l]
    <2>1. links[l].order \in Keys /\ o \in Order /\ o.status # "none"
      BY <1>2, Rows DEF BillingInv, CallsInv
    <2>2. o.seats \in Seats /\ o.base \in Nat /\ o.base <= sub.revision /\ o.seats \in Nat
          /\ sub.revision \in Nat
      BY <2>1, OrderFields, Rows DEF BillingInv, TermInv
    <2>3. f = [seats |-> o.seats, at |-> o.base]
      BY <1>2 DEF OffersOf
    <2>4. o.base \in 0..sub.revision
      BY <2>2
    <2> HIDE DEF o, f
    <2>5. f \in [seats : Nat, at : Nat] /\ f \in [seats : Seats, at : 0..sub.revision]
      BY <2>2, <2>3, <2>4
    <2>6. f # NoOrder
      BY <2>5, NothingAssumption
    <2>7. f.seats = o.seats /\ f.at = o.base
      BY <2>3
    <2> QED BY <1>2, <2>5, <2>6, <2>7 DEF f, o
  <1> QED BY <1>1, <1>2

(* Every offer is one of PrepaidSeats. *)
OffersFit ==
  \A l \in Links : links[l].order # NoOrder => OffersOf[l] \in [seats : Seats, at : 0..sub.revision]

LEMMA OffersFitNext == BillingInv' /\ TermInv' => OffersFit'
  <1>1. BillingInv /\ TermInv => OffersFit
    BY OfferRow DEF OffersFit
  <1> QED BY <1>1, PTL

LEMMA PrepaidStart == BillingInit => PS!Init
  <1> SUFFICES ASSUME BillingInit
               PROVE  PS!Init
    OBVIOUS
  <1>1. \A l \in Links : links[l].order = NoOrder /\ ~links[l].paid /\ receipts[l] = "none"
    BY DEF BillingInit
  <1>2. sub.order = NoOrder /\ sub.revision = 0 /\ today = 0
    BY DEF BillingInit
  <1>3. PaidSeats = 0
    BY <1>2 DEF PaidSeats, Verified
  <1> QED BY <1>1, <1>2, <1>3 DEF PS!Init

-----------------------------------------------------------------------------
(* Each step of the code is a step of PrepaidSeats, or none. *)
LEMMA OfferStep ==
  ASSUME BillingInv, TermInv, BillingInv', TermInv',
         NEW k \in Keys, NEW l \in Links, ProviderCreates(k, l)
  PROVE  PS!Next
  <1>1. /\ links[l].order = NoOrder /\ BillingTypeOK
        /\ links' = [links EXCEPT ![l].order = k]
        /\ UNCHANGED <<orders, receipts, sub, staff, ownedBy, signedIn, today>>
    BY DEF ProviderCreates, BillingInv
  <1>2. k # NoOrder
    BY <1>1, Rows
  <1>3. /\ links'[l].order = k /\ links'[l].paid = links[l].paid
        /\ \A m \in Links \ {l} : links'[m] = links[m]
    BY <1>1 DEF BillingTypeOK
  <1>4. OffersOf[l] = NoOrder
    BY <1>1, OfferRow
  <1>5. OffersOf' = [OffersOf EXCEPT ![l] = OffersOf'[l]]
    BY <1>1, <1>3 DEF OffersOf
  <1>6. OffersOf'[l] \in [seats : Seats, at : 0..sub.revision]
    BY <1>1, <1>2, <1>3, OffersFitNext DEF OffersFit
  <1>7. PaidOf' = PaidOf /\ SettledOf' = SettledOf /\ TermOf' = TermOf /\ today' = today
        /\ sub'.revision = sub.revision
    BY <1>1, <1>3 DEF PaidOf, SettledOf, TermOf
  <1>8. PaidSeats' = PS!InForce(TermOf', today')
    BY ForceNext DEF ForceMatches
  <1>9. PS!Offer(l)
    BY <1>4, <1>5, <1>6, <1>7 DEF PS!Offer, OffersOf, PaidOf, SettledOf, TermOf
  <1> QED BY <1>8, <1>9 DEF PS!Next, TermOf

LEMMA PaidStep ==
  ASSUME BillingInv, TermInv, BillingInv', TermInv', NEW l \in Links, Pay(l)
  PROVE  PS!Next
  <1>1. /\ links[l].order # NoOrder /\ ~links[l].paid /\ BillingTypeOK
        /\ links' = [links EXCEPT ![l].paid = TRUE]
        /\ UNCHANGED <<orders, receipts, sub, staff, ownedBy, signedIn, checkout, today>>
    BY DEF Pay, BillingInv
  <1>2. /\ links'[l].paid /\ \A m \in Links : links'[m].order = links[m].order
        /\ \A m \in Links \ {l} : links'[m] = links[m]
    BY <1>1 DEF BillingTypeOK
  <1>3. OffersOf[l] # NoOrder /\ l \notin PaidOf
    BY <1>1, OfferRow DEF PaidOf
  <1>4. PaidOf' = PaidOf \cup {l}
    BY <1>2 DEF PaidOf
  <1>5. OffersOf' = OffersOf /\ SettledOf' = SettledOf /\ TermOf' = TermOf /\ today' = today
        /\ sub'.revision = sub.revision
    BY <1>1, <1>2 DEF OffersOf, SettledOf, TermOf
  <1>6. PaidSeats' = PS!InForce(TermOf', today')
    BY ForceNext DEF ForceMatches
  <1>7. PS!Pay(l)
    BY <1>3, <1>4, <1>5 DEF PS!Pay, OffersOf, PaidOf, SettledOf, TermOf
  <1> QED BY <1>6, <1>7 DEF PS!Next, TermOf

(* A receipt that fits is a grant, any other is referred to an operator. *)
LEMMA SettledStep ==
  ASSUME BillingInv, TermInv, BillingInv', TermInv', OrdersStay, NEW l \in Links, Webhook(l)
  PROVE  PS!Next
  <1> DEFINE k == links[l].order
             fit == Fits(k, l)
  <1>1. /\ k \in Keys /\ receipts[l] = "none" /\ orders[k].status # "none"
        /\ orders'[k].seats = orders[k].seats /\ orders'[k].link = orders[k].link
        /\ receipts'[l] # "none" /\ \A m \in Links \ {l} : receipts'[m] = receipts[m]
    BY WebhookRows DEF BillingInv, CallsInv
  <1>2. links[l].paid /\ UNCHANGED <<links, staff, ownedBy, signedIn, checkout, today>>
    BY DEF Webhook
  <1>3. l \in PaidOf \ SettledOf /\ PaidOf' = PaidOf /\ SettledOf' = SettledOf \cup {l}
    BY <1>1, <1>2 DEF PaidOf, SettledOf
  <1>4. OffersOf' = OffersOf
    <2>1. ASSUME NEW m \in Links, links[m].order # NoOrder
          PROVE  /\ orders'[links[m].order].seats = orders[links[m].order].seats
                 /\ orders'[links[m].order].base = orders[links[m].order].base
      <3>1. links[m].order \in Keys /\ orders[links[m].order].status # "none"
        BY <2>1, Rows DEF BillingInv, CallsInv
      <3> QED BY <3>1 DEF OrdersStay
    <2> QED BY <1>2, <2>1 DEF OffersOf
  <1>5. PaidSeats' = PS!InForce(TermOf', today')
    BY ForceNext DEF ForceMatches
  <1>6. NoOrder \notin Keys /\ l # NoLink
    BY Rows DEF BillingInv
  <1>7. OffersOf[l].seats = orders[k].seats /\ OffersOf[l].at = orders[k].base
    BY <1>1, <1>6, OfferRow
  <1>8. CASE fit
    <2> DEFINE e == today + Term
               r == sub.revision + 1
               n == orders[k].seats
    <2>1. /\ sub' = [seats |-> n, start |-> today, end |-> e, ends |-> FALSE, revision |-> r, order |-> k]
          /\ orders[k].link = l /\ sub.revision = orders[k].base
      BY <1>8 DEF Webhook, Fits
    <2> HIDE DEF e, r, n, k
    <2>2. /\ sub'.seats = n /\ sub'.end = e /\ sub'.ends = FALSE /\ sub'.revision = r
          /\ sub'.order = k
      BY <2>1
    <2>3. TermOf' = [payment |-> l, seats |-> n, until |-> e, ends |-> FALSE]
      BY <1>1, <1>6, <2>1, <2>2 DEF TermOf
    <2> USE DEF e, r, n, k
    <2>4. TermOf' = [payment |-> l, seats |-> OffersOf[l].seats, until |-> today + Term, ends |-> FALSE]
      BY <1>7, <2>3
    <2>5. PS!Grant(l)
      BY <1>2, <1>3, <1>4, <1>7, <2>1, <2>2, <2>4
         DEF PS!Grant, OffersOf, PaidOf, SettledOf, TermOf
    <2> QED BY <1>3, <1>5, <2>5 DEF PS!Next, PaidOf, SettledOf, TermOf
  <1>9. CASE ~fit
    <2>1. sub' = sub
      BY <1>9 DEF Webhook
    <2>2. TermOf' = TermOf
      BY <2>1, TermStays
    <2>3. PS!Refer(l)
      BY <1>2, <1>3, <1>4, <2>1, <2>2 DEF PS!Refer, OffersOf, PaidOf, SettledOf, TermOf
    <2> QED BY <1>3, <1>5, <2>3 DEF PS!Next, PaidOf, SettledOf, TermOf
  <1> QED BY <1>8, <1>9

LEMMA MarkedStep ==
  ASSUME BillingInv, TermInv, BillingInv', TermInv', NEW u \in Owners, NEW b \in BOOLEAN,
         MarkTerm(u, b)
  PROVE  PS!Next
  <1> DEFINE r == sub.revision + 1
             t == TermOf
  <1>1. /\ sub.order # NoOrder /\ today < sub.end
        /\ sub' = [sub EXCEPT !.ends = b, !.revision = r] /\ BillingTypeOK
        /\ UNCHANGED <<orders, links, receipts, staff, ownedBy, signedIn, checkout, today>>
    BY DEF MarkTerm, Verified, BillingInv
  <1>2. t = [payment |-> orders[sub.order].link, seats |-> sub.seats, until |-> sub.end,
             ends |-> sub.ends]
    BY <1>1 DEF TermOf
  <1>3. orders[sub.order].link \in Links
    BY <1>1, Rows, OrderFields DEF BillingInv, TermInv, ReceiptsInv
  <1> HIDE DEF r, t
  <1>4. /\ sub'.order = sub.order /\ sub'.seats = sub.seats /\ sub'.end = sub.end
        /\ sub'.ends = b /\ sub'.revision = r
    BY <1>1 DEF BillingTypeOK
  <1>5. t # NoLink /\ t.until = sub.end
    <2>1. sub.seats \in Nat /\ sub.end \in Nat /\ sub.ends \in BOOLEAN
      BY <1>1 DEF BillingTypeOK
    <2>2. t \in [payment : Links, seats : Nat, until : Nat, ends : BOOLEAN]
      BY <1>2, <1>3, <2>1
    <2> QED BY <1>2, <2>2, NothingAssumption
  <1>6. TermOf' = [t EXCEPT !.ends = b]
    <2>1. TermOf' = [payment |-> orders[sub.order].link, seats |-> sub.seats, until |-> sub.end,
                     ends |-> b]
      BY <1>1, <1>4 DEF TermOf
    <2> QED BY <1>2, <2>1
  <1>7. OffersOf' = OffersOf /\ PaidOf' = PaidOf /\ SettledOf' = SettledOf
    BY <1>1 DEF OffersOf, PaidOf, SettledOf
  <1>8. PaidSeats' = PS!InForce(TermOf', today')
    BY ForceNext DEF ForceMatches
  <1>9. PS!Mark
    BY <1>1, <1>4, <1>5, <1>6, <1>7 DEF PS!Mark, OffersOf, PaidOf, SettledOf, TermOf, t, r
  <1> QED BY <1>8, <1>9 DEF PS!Next, TermOf

LEMMA TickStep ==
  ASSUME BillingInv', TermInv', DayPasses
  PROVE  PS!Next
  <1>1. today' = today + 1 /\ UNCHANGED <<orders, links, receipts, sub>>
    BY DEF DayPasses
  <1>2. OffersOf' = OffersOf /\ PaidOf' = PaidOf /\ SettledOf' = SettledOf /\ TermOf' = TermOf
    BY <1>1 DEF OffersOf, PaidOf, SettledOf, TermOf
  <1>3. PaidSeats' = PS!InForce(TermOf', today')
    BY ForceNext DEF ForceMatches
  <1>4. PS!Tick
    BY <1>1, <1>2 DEF PS!Tick, OffersOf, PaidOf, SettledOf, TermOf
  <1> QED BY <1>3, <1>4 DEF PS!Next, TermOf

LEMMA SilentStep ==
  ASSUME BillingInv, TermInv, BillingInv', TermInv', OrdersStay,
         UNCHANGED <<links, receipts, sub, today>>
  PROVE  UNCHANGED PS!vars
  <1>1. OffersOf' = OffersOf /\ PaidOf' = PaidOf /\ SettledOf' = SettledOf /\ TermOf' = TermOf
    BY OffersStay, TermStays
  <1>2. PaidSeats' = PaidSeats
    <2>1. PaidSeats = PS!InForce(TermOf, today) /\ PaidSeats' = PS!InForce(TermOf', today')
      BY ForceOf, ForceNext DEF ForceMatches
    <2> QED BY <1>1, <2>1
  <1> QED BY <1>1, <1>2 DEF PS!vars, OffersOf, PaidOf, SettledOf, TermOf

LEMMA PrepaidStep ==
  ASSUME BillingInv, TermInv, BillingInv', TermInv', [BillingNext]_billingVars
  PROVE  [PS!Next]_(PS!vars)
  <1> USE OrdersStayed
  <1>1. CASE \E k \in Keys, l \in Links : ProviderCreates(k, l)
    BY <1>1, OfferStep
  <1>2. CASE \E l \in Links : Pay(l)
    BY <1>2, PaidStep
  <1>3. CASE \E l \in Links : Webhook(l)
    BY <1>3, SettledStep
  <1>4. CASE \E u \in Owners, b \in BOOLEAN : MarkTerm(u, b)
    BY <1>4, MarkedStep
  <1>5. CASE DayPasses
    BY <1>5, TickStep
  <1>6. CASE UNCHANGED <<links, receipts, sub, today>>
    BY <1>6, SilentStep
  <1> QED BY <1>1, <1>2, <1>3, <1>4, <1>5, <1>6
       DEF BillingNext, billingVars, Repeat, Checkout, Completed, CallFails, Uncertain, CheckoutLost,
           TransferOwner, SignIn, SignOut, MemberJoins, MemberLeaves

(* The checkouts, calls, receipts and sweeps of the code implement            *)
(* PrepaidSeats: a payment is settled once, buys exactly what was offered for *)
(* the subscription as it then is, or nothing.                              *)
THEOREM PrepaidImplemented == BillingSpec => Prepaid
  <1>1. BillingInit => PS!Init /\ BillingInv /\ TermInv
    BY PrepaidStart, BillingStart, TermStart
  <1>2. BillingInv /\ TermInv /\ [BillingNext]_billingVars => BillingInv' /\ TermInv'
    BY BillingStep, TermStep
  <1>3. BillingInv /\ TermInv /\ BillingInv' /\ TermInv' /\ [BillingNext]_billingVars
          => [PS!Next]_(PS!vars)
    BY PrepaidStep
  <1> QED BY <1>1, <1>2, <1>3, PTL DEF BillingSpec, Prepaid, PS!Spec
=============================================================================
