--------------------------- MODULE ModuleLifecycle ---------------------------
(***************************************************************************)
(* What the operator promises about the life of a Module: it comes to own  *)
(* Flux objects only once the finalizer guards it, the guard stays until   *)
(* its deletion was asked for, and a Module that was never guarded goes    *)
(* without leaving anything behind.                                        *)
(***************************************************************************)
CONSTANTS Names, Objects

VARIABLES
  stage,     \* where each Module is in its life
  deployed   \* the Flux objects that the living Module owns

vars == <<stage, deployed>>

Stages == {"absent", "open", "guarded", "leaving"}

Init == stage = [n \in Names |-> "absent"] /\ deployed = [n \in Names |-> {}]

Becomes(n, s) == stage' = [stage EXCEPT ![n] = s]

Create(n) == stage[n] = "absent" /\ Becomes(n, "open") /\ UNCHANGED deployed
Guard(n)  == stage[n] = "open" /\ Becomes(n, "guarded") /\ UNCHANGED deployed
Retire(n) == stage[n] = "guarded" /\ Becomes(n, "leaving") /\ UNCHANGED deployed

(* A run that began before the deletion may deploy after it. *)
Deploy(n) ==
  /\ stage[n] \in {"guarded", "leaving"}
  /\ \E o \in Objects : deployed' = [deployed EXCEPT ![n] = @ \cup {o}]
  /\ UNCHANGED stage

Lose(n) ==
  /\ \E o \in deployed[n] : deployed' = [deployed EXCEPT ![n] = @ \ {o}]
  /\ UNCHANGED stage

Withdraw(n) ==
  /\ stage[n] = "open" /\ deployed[n] = {}
  /\ Becomes(n, "absent") /\ UNCHANGED deployed

(* What is left then belongs to nobody: it is the garbage collector's. *)
Release(n) ==
  /\ stage[n] = "leaving"
  /\ Becomes(n, "absent")
  /\ deployed' = [deployed EXCEPT ![n] = {}]

Next == \E n \in Names :
  Create(n) \/ Guard(n) \/ Deploy(n) \/ Lose(n) \/ Retire(n) \/ Withdraw(n) \/ Release(n)

Spec == Init /\ [][Next]_vars
=============================================================================
