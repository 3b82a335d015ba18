-------------------------- MODULE MCProjectDocument --------------------------
(* Instances of ProjectDocument for TLC; the cfg files choose the rest. *)
EXTENDS ProjectDocument, TLC

CONSTANTS owner, editor, wall, roof, present, h1, h2, op1, op2, snap1

(* Handlers are interchangeable: no action names one. *)
HandlerSymmetry == Permutations(Handlers)
=============================================================================
