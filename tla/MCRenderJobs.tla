----------------------------- MODULE MCRenderJobs -----------------------------
(* Instances of RenderJobs for TLC; the cfg files choose the rest. *)
EXTENDS RenderJobs, TLC

CONSTANTS r1, r2, ann, bob, house, one, two, m1, m2, m3

(* Every user may spend one request a day, all of them together two. *)
OneEach == [s \in Users \cup {Everyone} |-> IF s = Everyone THEN 2 ELSE 1]

(* The user may spend what all may. *)
TwoInAll == [s \in Users \cup {Everyone} |-> 2]

RenderSymmetry == Permutations(Jobs) \cup Permutations(Instances) \cup Permutations(Artifacts)
                    \cup Permutations(Users)

(* Who may write does not change: an executor may fail at every step anyway. *)
ProgressSpec == Init /\ [][Next /\ UNCHANGED allowed]_vars /\ Fairness
===============================================================================
