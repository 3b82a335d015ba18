------------------------------ MODULE MCServices ------------------------------
(***************************************************************************)
(* The coordination board, the notifications, the circuit breaker and the      *)
(* saved workspaces share no state here and are checked side by side: all of   *)
(* them are in their initial states, and in each behaviour the one named by   *)
(* `part` moves.                                                            *)
(***************************************************************************)
EXTENDS CoordinationSync, EventStream, OutboundCircuit, Workspaces, TLC

VARIABLE part

CONSTANTS ann, f1, h1, h2, c3, a1, a2, a3, t1

(* Two tabs of one account. *)
OneAccount == [p \in Tabs |-> ann]

ServicesInit ==
  /\ part \in {"sync", "stream", "circuit", "workspace"}
  /\ SyncInit /\ StreamInit /\ CircuitInit /\ WorkspaceInit

ServicesNext ==
  /\ \/ /\ part = "sync" /\ SyncNext
        /\ UNCHANGED <<streamVars, circuitVars, workspaceVars>>
     \/ /\ part = "stream" /\ StreamNext
        /\ UNCHANGED <<syncVars, circuitVars, workspaceVars>>
     \/ /\ part = "circuit" /\ CircuitNext
        /\ UNCHANGED <<syncVars, streamVars, workspaceVars>>
     \/ /\ part = "workspace" /\ WorkspaceNext
        /\ UNCHANGED <<syncVars, streamVars, circuitVars>>
  /\ UNCHANGED part

ServicesSpec ==
  ServicesInit /\ [][ServicesNext]_<<syncVars, streamVars, circuitVars, workspaceVars, part>>

(* Tabs, pages, instances of the server, streams and two of the calls share their *)
(* values: no action names one, so that renaming all of them together         *)
(* changes nothing.                                                         *)
ServicesSymmetry == Permutations(Tabs)
===============================================================================
