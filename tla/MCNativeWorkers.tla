--------------------------- MODULE MCNativeWorkers ---------------------------
(* Instances of NativeWorkers for TLC; the cfg files choose the rest. *)
EXTENDS NativeWorkers, TLC

CONSTANTS j1, j2, house, ann, inside, outside

Everywhere == [w \in Workers |-> Projects]
=============================================================================
