--------------------------- MODULE NamespaceLease ---------------------------
(***************************************************************************)
(* What the operator promises about Namespaces: each is held by one        *)
(* claimant at a time, and changes hands only through being free.  The     *)
(* operator never takes over a Namespace that a stranger or another        *)
(* Workspace (or an earlier one of the same name) holds.                   *)
(***************************************************************************)
CONSTANTS Namespaces, Claimants, Free, Stranger

VARIABLE holder

Holders == Claimants \cup {Free, Stranger}

Init == holder = [ns \in Namespaces |-> Free]

Acquire(ns) == holder[ns] = Free /\ holder'[ns] \in Claimants
Appear(ns)  == holder[ns] = Free /\ holder'[ns] = Stranger
Vacate(ns)  == holder[ns] # Free /\ holder'[ns] = Free
Disown(ns)  == holder[ns] \in Claimants /\ holder'[ns] = Stranger

Next ==
  /\ holder' \in [Namespaces -> Holders]
  /\ \E ns \in Namespaces :
       /\ Acquire(ns) \/ Appear(ns) \/ Vacate(ns) \/ Disown(ns)
       /\ \A other \in Namespaces \ {ns} : holder'[other] = holder[other]

Spec == Init /\ [][Next]_holder
=============================================================================
