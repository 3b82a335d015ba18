---------------------------- MODULE MCOfflineSync ----------------------------
(* Instances of OfflineSync for TLC; the cfg files choose the rest. *)
EXTENDS OfflineSync, TLC

CONSTANTS p1, p2

(* Pages are interchangeable: no action names one. *)
PageSymmetry == Permutations(Pages)
=============================================================================
