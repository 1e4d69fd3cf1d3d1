------------------------------ MODULE MCModule ------------------------------
(***************************************************************************)
(* Instances of ModuleController for TLC: the specs users submit and the   *)
(* budgets of disturbances of each run.                                    *)
(***************************************************************************)
EXTENDS ModuleController, TLC

CONSTANTS t1, ns1, ns2, c1, c2, v1

Default  == [template |-> t1, namespace |-> None, values |-> None]
Override == [template |-> t1, namespace |-> ns2,  values |-> v1]

OneSpec  == {Default}
TwoSpecs == {Default, Override}

Helm      == [namespace |-> ns1, type |-> "HelmRelease",   chart |-> c1]
Upgraded  == [namespace |-> ns1, type |-> "HelmRelease",   chart |-> c2]
Kustomize == [namespace |-> ns2, type |-> "Kustomization", chart |-> c1]

OneTemplate  == {Helm}
TwoTemplates == {Helm, Upgraded}
AllTemplates == {Helm, Upgraded, Kustomize}

Calm == [x \in Nuisances |-> 0]
With(budget) == budget @@ Calm

InstallBudget  == With("create" :> 1 @@ "template" :> 2 @@ "edit" :> 1 @@ "flux" :> 1
                       @@ "plant" :> 1 @@ "api" :> 1)
HandoverBudget == With("create" :> 2 @@ "template" :> 2 @@ "delete" :> 1 @@ "drift" :> 1
                       @@ "api" :> 1 @@ "report" :> 1 @@ "restart" :> 1)
RemoveBudget   == With("create" :> 2 @@ "template" :> 2 @@ "delete" :> 1 @@ "api" :> 1
                       @@ "report" :> 1 @@ "restart" :> 1)

MissingBudget == With("create" :> 1)
RaceBudget    == With("create" :> 1 @@ "template" :> 1 @@ "delete" :> 1)
MovedBudget   == With("create" :> 1 @@ "template" :> 1 @@ "edit" :> 1)
=============================================================================
