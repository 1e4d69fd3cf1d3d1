---------------------------- MODULE MCWorkspace ----------------------------
(***************************************************************************)
(* Instances of WorkspaceController for TLC: the specs users submit and    *)
(* the budgets of disturbances of each run.                                *)
(***************************************************************************)
EXTENDS WorkspaceController, TLC

CONSTANTS u1, u2, ns1, ns2, lim

Members(a, b) == u1 :> a @@ u2 :> b

(* A workspace with every kind of child, and one with few. *)
Full  == [ namespace |-> ns1, members |-> Members("admin", "view"), quota |-> {lim},
           limitRange |-> {}, isolated |-> TRUE, allowed |-> {ns2} ]
Plain == [ namespace |-> ns1, members |-> Members("admin", None), quota |-> {},
           limitRange |-> {lim}, isolated |-> FALSE, allowed |-> {} ]

(* One that Istio concerns, and no more; the same without isolation. *)
Sealed == [ namespace |-> ns1, members |-> Members("admin", None), quota |-> {},
           limitRange |-> {}, isolated |-> TRUE, allowed |-> {ns2} ]
Opened == [Sealed EXCEPT !.isolated = FALSE, !.allowed = {}]

TwoSpecs == {Full, Plain}
SmallSpecs == {Sealed, Opened}
PlainSpec == {Plain}
SealedSpec == {Sealed}

Calm == [x \in Nuisances |-> 0]
With(budget) == budget @@ Calm

ProvisionBudget == With("create" :> 1 @@ "edit" :> 1 @@ "drift" :> 1 @@ "disown" :> 1 @@ "api" :> 1)
RivalBudget     == With("create" :> 2 @@ "delete" :> 1 @@ "foreground" :> 1 @@ "squat" :> 1)
IstioBudget     == With("create" :> 1 @@ "crd" :> 2 @@ "transport" :> 1 @@ "api" :> 1
                        @@ "report" :> 1 @@ "restart" :> 1)
SettleBudget    == With("create" :> 1 @@ "delete" :> 1 @@ "crd" :> 1 @@ "restart" :> 1)

ThrottledBudget == With("create" :> 1 @@ "crd" :> 1 @@ "status" :> 1)
=============================================================================
