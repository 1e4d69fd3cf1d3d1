-------------------------- MODULE WorkspaceHistory --------------------------
(***************************************************************************)
(* The Workspace controller with a memory of the reports that went by an   *)
(* old status.                                                             *)
(*                                                                         *)
(* updateStatus compares the status it has come to with the one the        *)
(* reconcile read from its cache, patches only what differs, and nothing   *)
(* at all if nothing does.  If something else has been stored meanwhile,   *)
(* what ought to be corrected is overlooked.  The history variable records *)
(* for whom that happened last; it restricts no step of the controller.    *)
(***************************************************************************)
EXTENDS WorkspaceController

VARIABLE overlooked   \* Workspaces whose latest report went by an old status, or was lost

hvars == <<vars, overlooked>>

(* The reconcile ends, and not because its process does. *)
Concludes == run # None /\ run' = None /\ standby' = standby

(* What it read is not what is stored, or its report does not arrive. *)
Overlooks ==
  \/ ws[run.name] # None /\ ws[run.name].status # run.w.status
  \/ left'["report"] # left["report"]

Remember ==
  overlooked' = IF Concludes
                THEN IF Overlooks THEN overlooked \cup {run.name} ELSE overlooked \ {run.name}
                ELSE overlooked

HInit == Init /\ overlooked = {}

HNext == Next /\ Remember

HSpec == HInit /\ [][HNext]_hvars

-----------------------------------------------------------------------------
(* At rest, however late any informer delivers, a status that does not tell how
   it went has one cause: the latest report on that Workspace was compared with a
   cached status that was no longer stored (updateStatus), or was lost
   (setReadyConditionFalse).  The next report that compares with what is stored
   puts it right. *)
UntruthOverlooked ==
  AtRest => \A n \in Names : ws[n] # None => Truthful(n) \/ n \in overlooked
=============================================================================
