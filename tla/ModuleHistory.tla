---------------------------- MODULE ModuleHistory ----------------------------
(***************************************************************************)
(* The Module controller with a memory of the reports that went by an old  *)
(* status: the one updateStatus compares with and patches against is the   *)
(* one the reconcile read when it began, or got from the finalizer patch.  *)
(* The history variable restricts no step of the controller.               *)
(***************************************************************************)
EXTENDS ModuleController

VARIABLE overlooked   \* Modules whose latest report went by an old status, or was lost

hvars == <<vars, overlooked>>

(* The reconcile ends, and not because its process does. *)
Concludes == run # None /\ run' = None /\ left'["restart"] = left["restart"]

(* What it read is not what is stored, or its report does not arrive. *)
Overlooks ==
  \/ mods[run.name] # None /\ mods[run.name].status # run.m.status
  \/ left'["report"] # left["report"]

Remember ==
  overlooked' = IF Concludes
                THEN IF Overlooks THEN overlooked \cup {run.name} ELSE overlooked \ {run.name}
                ELSE overlooked

HInit == Init /\ overlooked = {}

HNext == Next /\ Remember

HSpec == HInit /\ [][HNext]_hvars

HFairSpec == HSpec /\ Fairness

-----------------------------------------------------------------------------
(* At rest, however late any informer delivers, a status that does not mirror
   what there is has one cause: the latest report on that Module was compared
   with a status that was no longer stored (updateStatus), or was lost
   (setReadyConditionFalse).  The next report that compares with what is stored
   puts it right. *)
UnmirroredOverlooked ==
  AtRest => \A n \in Names : mods[n] # None => Mirrors(n) \/ n \in overlooked
=============================================================================
