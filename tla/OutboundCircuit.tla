--------------------------- MODULE OutboundCircuit ---------------------------
(***************************************************************************)
(* The circuit breaker in front of one provider, shared by all instances of  *)
(* the server (server/src/runtimeResilience.ts over outboundCircuitStore.ts), *)
(* and the calls it lets through (performOutboundRequest in outbound.ts).     *)
(* A call reports its outcome when it has ended, which may be long after the  *)
(* circuit opened, closed or let a probe through.                           *)
(***************************************************************************)
EXTENDS Integers, FiniteSets

CONSTANTS
  Calls,        \* calls that are made at the same time
  Threshold,    \* failures that open the circuit
  Cooldown,     \* how long it stays open
  Deadline,      \* the deadline of a call, at most 300 s
  ProbeLease,   \* 310 s
  LastTick, MaxGeneration   \* bounds

ASSUME CircuitAssumption ==
  /\ IsFiniteSet(Calls)
  /\ Threshold \in Nat \ {0} /\ Cooldown \in Nat \ {0} /\ LastTick \in Nat /\ MaxGeneration \in Nat
  /\ Deadline \in Nat /\ ProbeLease \in Nat /\ Deadline < ProbeLease

VARIABLES
  circuit,  \* the row of outbound_circuits
  calls,
  tick

circuitVars == <<circuit, calls, tick>>

Circuit == [failures : Nat, openUntil : Nat, probeUntil : Nat, generation : Nat]

NoCall == [pc |-> "none", generation |-> 0, probe |-> FALSE, since |-> 0, outcome |-> "failure"]

CallState == [pc : {"none", "calling", "ended"}, generation : Nat, probe : BOOLEAN, since : Nat,
         outcome : {"success", "failure", "cancelled"}]

CircuitTypeOK ==
  /\ circuit \in Circuit
  /\ calls \in [Calls -> CallState]
  /\ tick \in Nat

CircuitInit ==
  /\ circuit = [failures |-> 0, openUntil |-> 0, probeUntil |-> 0, generation |-> 0]
  /\ calls = [c \in Calls |-> NoCall]
  /\ tick = 0

-----------------------------------------------------------------------------
(* Mutant: a probe that is under way does not hold the others back. *)
Admits_WhileProbing == circuit.openUntil <= tick

Admits == circuit.openUntil <= tick /\ circuit.probeUntil <= tick

(* acquire: a circuit that was open lets one call through, for a while. *)
Acquire(c) ==
  LET probe == circuit.openUntil > 0
      next  == IF probe THEN [circuit EXCEPT !.generation = @ + 1, !.probeUntil = tick + ProbeLease]
                        ELSE circuit
  IN
  /\ calls[c].pc = "none"
  /\ Admits
  /\ probe => circuit.generation < MaxGeneration                       \* bound
  /\ circuit' = next
  /\ calls' = [calls EXCEPT ![c] = [NoCall EXCEPT !.pc = "calling", !.generation = next.generation,
                                                  !.probe = probe, !.since = tick]]
  /\ UNCHANGED tick

(* The provider answers, the deadline passes or the caller goes away. *)
CallEnds(c, outcome) ==
  /\ calls[c].pc = "calling"
  /\ calls' = [calls EXCEPT ![c].pc = "ended", ![c].outcome = outcome]
  /\ UNCHANGED <<circuit, tick>>

(* Mutant: results of before the circuit opened still count. *)
Opened_SameGeneration(c) ==
  [circuit EXCEPT !.failures = @ + 1, !.openUntil = tick + Cooldown, !.probeUntil = 0]

Opened(c) ==
  [circuit EXCEPT !.failures = @ + 1, !.openUntil = tick + Cooldown, !.probeUntil = 0,
                  !.generation = @ + 1]

(* complete: only a permit of the present generation has a say. *)
Judged(c) ==
  LET call == calls[c] IN
  IF call.generation # circuit.generation THEN circuit
  ELSE CASE call.outcome = "cancelled" ->
              IF call.probe THEN [circuit EXCEPT !.probeUntil = 0] ELSE circuit
         [] call.outcome = "success" ->
              [failures |-> 0, openUntil |-> 0, probeUntil |-> 0,
               generation |-> IF call.probe THEN circuit.generation + 1 ELSE circuit.generation]
         [] call.outcome = "failure" ->
              IF call.probe \/ circuit.failures + 1 >= Threshold
                THEN Opened(c) ELSE [circuit EXCEPT !.failures = @ + 1]

Complete(c) ==
  /\ calls[c].pc = "ended"
  /\ circuit' = Judged(c)
  /\ calls' = [calls EXCEPT ![c] = NoCall]
  /\ UNCHANGED tick

(* The instance stops before the outcome is reported. *)
CallLost(c) ==
  /\ calls[c].pc # "none"
  /\ calls' = [calls EXCEPT ![c] = NoCall]
  /\ UNCHANGED <<circuit, tick>>

(* The deadline ends a call in time, so that its lease outlives it. *)
TickPasses ==
  /\ tick < LastTick                                                  \* bound
  /\ \A c \in Calls : calls[c].pc = "calling" => tick < calls[c].since + Deadline
  /\ tick' = tick + 1
  /\ UNCHANGED <<circuit, calls>>

CircuitNext ==
  \/ \E c \in Calls : \/ Acquire(c) \/ Complete(c) \/ CallLost(c)
                      \/ \E o \in {"success", "failure", "cancelled"} : CallEnds(c, o)
  \/ TickPasses

CircuitSpec == CircuitInit /\ [][CircuitNext]_circuitVars

-----------------------------------------------------------------------------
(* A provider that is failing is tried by one call at a time, although a      *)
(* probe may be lost with its instance, or report after its lease.           *)
ProbesApart == Cardinality({c \in Calls : calls[c].pc = "calling" /\ calls[c].probe}) <= 1

(* An open circuit closes only on a success that was begun after its          *)
(* cooldown: what was under way when it opened, or what an earlier probe      *)
(* reports late, proves nothing about the provider.                         *)
RecoveryProven ==
  [][circuit.openUntil > 0 /\ circuit'.openUntil = 0 =>
       \E c \in Calls : /\ calls[c].pc = "ended" /\ calls'[c].pc = "none"
                        /\ calls[c].outcome = "success"
                        /\ calls[c].since >= circuit.openUntil]_circuitVars
=============================================================================
