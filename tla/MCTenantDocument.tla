--------------------------- MODULE MCTenantDocument ---------------------------
(***************************************************************************)
(* The document and the tenant's billing, checked side by side: in each        *)
(* behaviour one of them moves and the other stays in its initial state.      *)
(***************************************************************************)
EXTENDS MCProjectDocument, TenantBilling

VARIABLE part

CONSTANTS ann, bob, m1, m2

SideBySideInit == part \in {"document", "billing"} /\ Init /\ BillingInit

SideBySideNext ==
  /\ \/ part = "document" /\ Next        /\ UNCHANGED billingVars
     \/ part = "billing"  /\ BillingNext /\ UNCHANGED vars
  /\ UNCHANGED part

SideBySideSpec == SideBySideInit /\ [][SideBySideNext]_<<vars, billingVars, part>>

(* No action names a handler, a checkout or a payment link. *)
SideBySideSymmetry == Permutations(Handlers) \cup Permutations(Links)
===============================================================================
