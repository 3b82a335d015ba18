---------------------------- MODULE MCAccountQueue ----------------------------
(***************************************************************************)
(* The limits of the native queue and those of one account's guesses, checked *)
(* side by side: in each behaviour one of them moves and the other stays in   *)
(* its initial state.                                                       *)
(***************************************************************************)
EXTENDS MCNativeWorkers, AccountSessions

VARIABLE part

CONSTANTS j3, barn, shed, s1, s2, m1

LimitsInit == part \in {"queue", "account"} /\ Init /\ AccountInit

(* No action names a job or a project: they are called in the order of use.  *)
Known(j) == jobs[j].state # "none"
Used(p)  == \E j \in Jobs : Known(j) /\ jobs[j].project = p
InOrder  == /\ (Known(j2) => Known(j1)) /\ (Known(j3) => Known(j2))
            /\ (Used(barn) => Used(house)) /\ (Used(shed) => Used(barn))

(* Beside the limits, who may write does not change and projects stay.       *)
QueueNext ==
  \/ /\ \/ \E j \in Jobs, u \in Users, p \in Projects : Submit(j, u, p)
        \/ \E j \in Jobs : Cancel(j) \/ Delete(j)
     /\ UNCHANGED worker
  \/ \E w \in Workers : Claim(w) \/ Heartbeat(w) \/ PublishFails(w) \/ Works(w) \/ Crash(w)
  \/ TimePasses

LimitsNext ==
  /\ \/ part = "queue"   /\ QueueNext   /\ InOrder' /\ UNCHANGED accountVars
     \/ part = "account" /\ AccountNext /\ UNCHANGED vars
  /\ UNCHANGED part

LimitsSpec == LimitsInit /\ [][LimitsNext]_<<vars, accountVars, part>>

(* Nor does one name a session. *)
SessionSymmetry == Permutations(Sessions)
===============================================================================
