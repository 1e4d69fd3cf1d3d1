----------------------- MODULE ModuleControllerProofs -----------------------
(***************************************************************************)
(* Proofs about the Module controller, for any number of Modules,          *)
(* templates, namespaces and charts, any lag of the informers and any      *)
(* budget of disturbances.                                                 *)
(*                                                                         *)
(* The finalizer is safe although the controller patches by name and reads *)
(* from a cache that may still show a predecessor of the Module: the       *)
(* invariant says how far a cached copy and the copy of a running          *)
(* reconcile can be behind what is stored.                                 *)
(***************************************************************************)
EXTENDS ModuleController, TLAPS

Retiring == {"resolve", "cleanup"}
Working  == {"template", "sync", "status", "failed"}

(* The uid of a Module is never given twice. *)
Incarnations ==
  /\ \A n \in Names : mods[n] # None => mods[n].inc = born[n]
  /\ \A n \in Names : modCache[n] # None => modCache[n].inc <= born[n]
  /\ run # None => run.m.inc <= born[run.name]

OwnersKnown ==
  \A o \in Releases : rel[o] # None /\ Owned(rel[o]) =>
    rel[o].owner[1] = o[3] /\ rel[o].owner[2] <= born[o[3]]

(* A copy c of Module n tells of a deletion only after it was asked for; and a
   successor of a Module that is copied as being deleted is not yet guarded. *)
CopyHonest(n, c) ==
  c # None /\ c.deleting /\ mods[n] # None =>
    IF c.inc = mods[n].inc THEN mods[n].deleting ELSE ~mods[n].finalizer

CacheHonest ==
  \A n \in Names :
    /\ CopyHonest(n, modCache[n])
    /\ modCache[n] # None /\ modCache[n].finalizer /\ ~modCache[n].deleting =>
         mods[n] # None /\ mods[n].inc = modCache[n].inc /\ mods[n].finalizer

(* What the phase of a reconcile says about the Module, stored and cached. *)
GuardingInv ==
  At("guard") /\ modCache[run.name] # None /\ modCache[run.name].deleting =>
    mods[run.name] # None /\ mods[run.name].inc = modCache[run.name].inc

WorkingInv ==
  run # None /\ run.phase \in Working =>
    mods[run.name] # None /\ mods[run.name].inc = run.m.inc /\ mods[run.name].finalizer

RetiringInv ==
  run # None /\ run.phase \in Retiring =>
    /\ run.m.deleting /\ CopyHonest(run.name, run.m)
    /\ modCache[run.name] # None =>
         /\ run.m.inc <= modCache[run.name].inc
         /\ run.m.inc = modCache[run.name].inc => modCache[run.name].deleting

WellFormed(r) ==
  /\ r.phase \in {"sync", "status"} => r.t # None
  /\ r.todo # {} => r.namespace # None

RunWellFormed == run # None => WellFormed(run)

Copies == Incarnations /\ CacheHonest /\ GuardingInv /\ WorkingInv /\ RetiringInv
Owners == OwnersKnown /\ FinalizerGuards

Inv == Typed /\ RunWellFormed /\ Copies /\ Owners
-----------------------------------------------------------------------------
(* Types. *)

LEMMA NoneApart ==
  /\ None \notin ModuleRecords /\ None \notin ReleaseRecords /\ None \notin TemplateRecords
  /\ None \notin Uids /\ None \notin Namespaces /\ None \notin Names
  /\ NoOwner \notin Uids /\ Stranger \notin Uids
BY NoneAssumption

LEMMA ModuleUpdates ==
  ASSUME NEW m \in ModuleRecords
  PROVE  /\ m.inc \in Nat /\ m.gen \in Nat /\ m.spec \in SpecRecords /\ m.status \in StatusRecords
         /\ m.finalizer \in BOOLEAN /\ m.deleting \in BOOLEAN
         /\ \A b \in BOOLEAN : [m EXCEPT !.finalizer = b] \in ModuleRecords
         /\ [m EXCEPT !.deleting = TRUE, !.gen = @ + 1] \in ModuleRecords
         /\ \A s \in StatusRecords : [m EXCEPT !.status = s] \in ModuleRecords
         /\ \A s \in SpecRecords : [m EXCEPT !.spec = s, !.gen = @ + 1] \in ModuleRecords
<1>1. /\ m.inc \in Nat /\ m.gen \in Nat /\ m.gen + 1 \in Nat
      /\ m.spec \in SpecRecords /\ m.status \in StatusRecords
      /\ m.finalizer \in BOOLEAN /\ m.deleting \in BOOLEAN
  BY DEF ModuleRecords
<1>2. \A b \in BOOLEAN : [m EXCEPT !.finalizer = b] \in ModuleRecords
  BY DEF ModuleRecords
<1>3. [m EXCEPT !.deleting = TRUE, !.gen = @ + 1] \in ModuleRecords
  BY <1>1 DEF ModuleRecords
<1>4. \A s \in StatusRecords : [m EXCEPT !.status = s] \in ModuleRecords
  BY DEF ModuleRecords
<1>5. \A s \in SpecRecords : [m EXCEPT !.spec = s, !.gen = @ + 1] \in ModuleRecords
  BY <1>1 DEF ModuleRecords
<1> QED BY <1>1, <1>2, <1>3, <1>4, <1>5

LEMMA ReleaseUpdates ==
  ASSUME NEW x \in ReleaseRecords
  PROVE  /\ [x EXCEPT !.deleting = TRUE] \in ReleaseRecords
         /\ [x EXCEPT !.labelled = FALSE] \in ReleaseRecords
         /\ [x EXCEPT !.owner = NoOwner] \in ReleaseRecords
         /\ \A c \in Charts \X (Values \cup {None}) : [x EXCEPT !.content = c] \in ReleaseRecords
         /\ \A c \in Conditions : [x EXCEPT !.ready = c] \in ReleaseRecords
         /\ \A u \in Uids, c \in Charts \X (Values \cup {None}) :
              [x EXCEPT !.owner = u, !.content = c, !.labelled = TRUE] \in ReleaseRecords
BY DEF ReleaseRecords

(* What StoreModule leaves behind, whichever informers lag. *)
LEMMA ModuleStored ==
  ASSUME Typed, NEW n \in Names, NEW m \in ModuleRecords \cup {None},
         NEW q \in SUBSET Names, StoreModule(n, m, q)
  PROVE  /\ mods' \in [Names -> ModuleRecords \cup {None}]
         /\ modCache' \in [Names -> ModuleRecords \cup {None}]
         /\ modPend' \subseteq Names /\ queue' \subseteq Names
         /\ mods' = [mods EXCEPT ![n] = m]
         /\ modCache' = modCache \/ modCache' = [modCache EXCEPT ![n] = m]
<1> DEFINE woken == IF PassesPredicate(mods[n], m) THEN {n} ELSE {}
<1>1. woken \subseteq Names
  OBVIOUS
<1> HIDE DEF woken
<1>2. /\ mods' = [mods EXCEPT ![n] = m]
      /\ modCache' = IF "module" \notin Lagging THEN [modCache EXCEPT ![n] = m] ELSE modCache
      /\ modPend' = IF "module" \notin Lagging THEN modPend ELSE modPend \cup woken
      /\ queue' = IF "module" \notin Lagging THEN q \cup woken ELSE q
  BY DEF StoreModule, woken
<1> QED BY <1>1, <1>2 DEF Typed, ClusterTypeOK

(* The same for StoreRelease. *)
LEMMA ReleaseStored ==
  ASSUME Typed, NEW o \in Releases, NEW x \in ReleaseRecords \cup {None},
         NEW q \in SUBSET Names, StoreRelease(o, x, q)
  PROVE  /\ rel' \in [Releases -> ReleaseRecords \cup {None}]
         /\ relCache' \in [Releases -> ReleaseRecords \cup {None}]
         /\ relPend' \subseteq Releases /\ queue' \subseteq Names
         /\ rel' = [rel EXCEPT ![o] = x]
<1> DEFINE woken == IF x # rel[o] /\ Wakes(rel[o], x) THEN {o} ELSE {}
<1>1. woken \subseteq Releases
  OBVIOUS
<1>2. {p[3] : p \in woken} \subseteq Names
  BY <1>1 DEF Releases
<1> HIDE DEF woken
<1>3. /\ rel' = [rel EXCEPT ![o] = x]
      /\ relCache' = IF "release" \notin Lagging THEN rel' ELSE relCache
      /\ relPend' = IF "release" \notin Lagging THEN relPend ELSE relPend \cup woken
      /\ queue' = IF "release" \notin Lagging THEN q \cup {p[3] : p \in woken} ELSE q
  BY DEF StoreRelease, woken
<1>4. rel' \in [Releases -> ReleaseRecords \cup {None}]
  BY <1>3 DEF Typed, ClusterTypeOK
<1> QED BY <1>1, <1>2, <1>3, <1>4 DEF Typed, ClusterTypeOK

LEMMA BudgetSpent ==
  ASSUME Typed, NEW x \in Nuisances, Spend(x)
  PROVE  left' \in [Nuisances -> Nat]
BY DEF Spend, Typed, ClusterTypeOK

LEMMA StatusValues ==
  /\ NoStatus \in StatusRecords
  /\ \A m \in ModuleRecords, t \in TemplateRecords, x \in ReleaseRecords \cup {None} :
       Reconciled(m, t, x) \in StatusRecords
  /\ \A m \in ModuleRecords, e \in {"", "TemplateNotFound", "ReconcileError"} :
       NotReady(m, e) \in StatusRecords
  /\ \A s, b, x \in StatusRecords : MergePatch(s, b, x) \in StatusRecords
<1>1. NoStatus \in StatusRecords
  BY DEF NoStatus, StatusRecords, Reasons
<1>2. ASSUME NEW m \in ModuleRecords, NEW t \in TemplateRecords,
             NEW x \in ReleaseRecords \cup {None}
      PROVE  Reconciled(m, t, x) \in StatusRecords
  <2>1. Observed(x) \in Reasons
    BY DEF Observed, Reasons, ReleaseRecords
  <2>2. TargetNamespace(m, t) \in Namespaces
    BY DEF TargetNamespace, ModuleRecords, SpecRecords, TemplateRecords
  <2>3. m.gen \in Nat /\ t.gen \in Nat
    BY DEF ModuleRecords, TemplateRecords
  <2> QED BY <2>1, <2>2, <2>3 DEF Reconciled, StatusRecords
<1>3. ASSUME NEW m \in ModuleRecords, NEW e \in {"", "TemplateNotFound", "ReconcileError"}
      PROVE  NotReady(m, e) \in StatusRecords
  <2>1. m.gen \in Nat /\ m.status \in StatusRecords
    BY DEF ModuleRecords
  <2> QED BY <2>1 DEF NotReady, StatusRecords, Reasons
<1>4. ASSUME NEW s \in StatusRecords, NEW b \in StatusRecords, NEW x \in StatusRecords
      PROVE  MergePatch(s, b, x) \in StatusRecords
  BY DEF MergePatch, StatusRecords
<1> QED BY <1>1, <1>2, <1>3, <1>4

LEMMA RunTypes ==
  ASSUME NEW r \in Runs
  PROVE  /\ r.name \in Names /\ r.m \in ModuleRecords /\ r.phase \in Phases
         /\ r.t \in TemplateRecords \cup {None}
         /\ r.error \in {"", "TemplateNotFound", "ReconcileError"}
         /\ r.namespace \in Namespaces \cup {None} /\ r.todo \subseteq FluxKinds
BY DEF Runs

(* How the steps of a reconcile change what it knows. *)
LEMMA RunSteps ==
  ASSUME run \in Runs, WellFormed(run)
  PROVE  /\ \A e \in {"TemplateNotFound", "ReconcileError"} : Fail(e) => run' \in Runs /\ WellFormed(run')
         /\ GoTo("status") /\ run.t # None => run' \in Runs /\ WellFormed(run')
         /\ GoTo("template") => run' \in Runs /\ WellFormed(run')
         /\ \A m \in ModuleRecords : run' = [run EXCEPT !.m = m, !.phase = "template"] =>
              run' \in Runs /\ WellFormed(run')
         /\ \A x \in TemplateRecords : run' = [run EXCEPT !.t = x, !.phase = "sync"] =>
              run' \in Runs /\ WellFormed(run')
         /\ \A ns \in Namespaces \cup {None}, k \in SUBSET FluxKinds :
              run' = [run EXCEPT !.phase = "cleanup", !.namespace = ns,
                                 !.todo = IF ns = None THEN {} ELSE k] =>
                run' \in Runs /\ WellFormed(run')
         /\ \A k \in FluxKinds : run' = [run EXCEPT !.todo = @ \ {k}] => run' \in Runs /\ WellFormed(run')
<1>1. run.todo \subseteq FluxKinds
  BY DEF Runs
<1>2. ASSUME NEW e \in {"TemplateNotFound", "ReconcileError"}, Fail(e)
      PROVE  run' \in Runs /\ WellFormed(run')
  BY <1>2 DEF Fail, Runs, Phases, WellFormed
<1>3. ASSUME GoTo("status"), run.t # None PROVE run' \in Runs /\ WellFormed(run')
  BY <1>3 DEF GoTo, Runs, Phases, WellFormed
<1>4. ASSUME GoTo("template") PROVE run' \in Runs /\ WellFormed(run')
  BY <1>4 DEF GoTo, Runs, Phases, WellFormed
<1>5. ASSUME NEW m \in ModuleRecords, run' = [run EXCEPT !.m = m, !.phase = "template"]
      PROVE  run' \in Runs /\ WellFormed(run')
  BY <1>5 DEF Runs, Phases, WellFormed
<1>6. ASSUME NEW x \in TemplateRecords, run' = [run EXCEPT !.t = x, !.phase = "sync"]
      PROVE  run' \in Runs /\ WellFormed(run')
  BY <1>6, NoneApart DEF Runs, Phases, WellFormed
<1>7. ASSUME NEW ns \in Namespaces \cup {None}, NEW k \in SUBSET FluxKinds,
             run' = [run EXCEPT !.phase = "cleanup", !.namespace = ns,
                                !.todo = IF ns = None THEN {} ELSE k]
      PROVE  run' \in Runs /\ WellFormed(run')
  BY <1>7 DEF Runs, Phases, WellFormed
<1>8. ASSUME NEW k \in FluxKinds, run' = [run EXCEPT !.todo = @ \ {k}]
      PROVE  run' \in Runs /\ WellFormed(run')
  BY <1>1, <1>8 DEF Runs, WellFormed
<1> QED BY <1>2, <1>3, <1>4, <1>5, <1>6, <1>7, <1>8

(* The Flux object a reconcile works on. *)
LEMMA TargetTypes ==
  ASSUME Typed, run # None, run.t # None
  PROVE  /\ Target \in Releases /\ Target[3] = run.name
         /\ Seen \in ReleaseRecords \cup {None} /\ There \in ReleaseRecords \cup {None}
         /\ RunUid \in Uids
         /\ Sent \in ReleaseRecords /\ Sent.owner = RunUid
         /\ NewStatus \in StatusRecords
<1>1. run \in Runs
  BY DEF Typed
<1>2. run.name \in Names /\ run.m \in ModuleRecords /\ run.t \in TemplateRecords
  BY <1>1, RunTypes
<1>3. /\ TargetNamespace(run.m, run.t) \in Namespaces /\ run.t.type \in FluxKinds
      /\ run.t.chart \in Charts /\ run.m.spec.values \in Values \cup {None} /\ run.m.inc \in Nat
  BY <1>2 DEF TargetNamespace, ModuleRecords, SpecRecords, TemplateRecords
<1>4. Target \in Releases /\ Target[3] = run.name
  BY <1>2, <1>3 DEF Target, Wanted, Releases
<1>5. Seen \in ReleaseRecords \cup {None} /\ There \in ReleaseRecords \cup {None}
  BY <1>4 DEF Seen, There, Typed, ClusterTypeOK
<1>6. RunUid \in Uids
  BY <1>2, <1>3 DEF RunUid, Uids
<1>7. WantedContent(run.m, run.t) \in Charts \X (Values \cup {None})
  BY <1>3 DEF WantedContent
<1>8. Sent \in ReleaseRecords /\ Sent.owner = RunUid
  <2>1. CASE Seen = None
    BY <2>1, <1>6, <1>7 DEF Sent, ReleaseRecords, Conditions
  <2>2. CASE Seen # None
    BY <2>2, <1>5, <1>6, <1>7 DEF Sent, ReleaseRecords
  <2> QED BY <2>1, <2>2
<1>9. NewStatus \in StatusRecords
  BY <1>2, <1>5, StatusValues DEF NewStatus
<1> QED BY <1>4, <1>5, <1>6, <1>8, <1>9

(* The Flux object that cleanup deletes next. *)
LEMMA DoomedTypes ==
  ASSUME Typed, RunWellFormed, At("cleanup"), run.todo # {}
  PROVE  /\ Doomed \in Releases /\ Marked \in ReleaseRecords \cup {None}
         /\ rel[Doomed] \in ReleaseRecords \cup {None} /\ NextKind \in FluxKinds
<1>1. run \in Runs
  BY DEF Typed, At
<1>2. NextKind \in FluxKinds
  BY DEF NextKind, FluxKinds
<1>3. run.namespace \in Namespaces /\ run.name \in Names
  BY <1>1, RunTypes DEF RunWellFormed, WellFormed, At
<1>4. Doomed \in Releases
  BY <1>2, <1>3 DEF Doomed, Releases
<1>5. rel[Doomed] \in ReleaseRecords \cup {None}
  BY <1>4 DEF Typed, ClusterTypeOK
<1> QED BY <1>2, <1>4, <1>5, ReleaseUpdates DEF Marked

LEMMA CleanupNamespaceType ==
  ASSUME NEW m \in ModuleRecords, NEW t \in TemplateRecords \cup {None}
  PROVE  CleanupNamespace(m, t) \in Namespaces \cup {None}
<1>1. m.status \in StatusRecords /\ m.spec \in SpecRecords
  BY DEF ModuleRecords
<1>2. m.status.refs \in [FluxKinds -> Namespaces \cup {None}] /\ m.spec.namespace \in Namespaces \cup {None}
  BY <1>1 DEF StatusRecords, SpecRecords
<1>3. t # None => t.namespace \in Namespaces
  BY DEF TemplateRecords
<1> QED BY <1>2, <1>3 DEF CleanupNamespace, FluxKinds

LEMMA EnvironmentTypes ==
  ASSUME Typed, Environment, UNCHANGED run
  PROVE  Typed'
<1> USE DEF Typed, ClusterTypeOK, modVars, tplVars, relVars, Nuisances
<1>1. ASSUME NEW n \in Names, DeliverModule(n) PROVE Typed'
  BY <1>1 DEF DeliverModule
<1>2. ASSUME NEW n \in Names, DeleteModule(n) PROVE Typed'
  <2> DEFINE m == IF mods[n].finalizer
                  THEN [mods[n] EXCEPT !.deleting = TRUE, !.gen = @ + 1] ELSE None
  <2>1. m \in ModuleRecords \cup {None}
    BY <1>2, ModuleUpdates DEF DeleteModule
  <2> HIDE DEF m
  <2>2. StoreModule(n, m, queue) /\ Spend("delete") /\ UNCHANGED <<born, tplVars, relVars>>
    BY <1>2 DEF DeleteModule, m
  <2> QED BY <2>1, <2>2, ModuleStored, BudgetSpent
<1>3. ASSUME NEW n \in Names, NEW s \in Specs, CreateModule(n, s) PROVE Typed'
  <2> DEFINE m == [inc |-> born[n] + 1, gen |-> 1, spec |-> s, status |-> NoStatus,
                   finalizer |-> FALSE, deleting |-> FALSE]
  <2>1. m \in ModuleRecords
    <3>1. born[n] + 1 \in Nat
      OBVIOUS
    <3>2. s \in SpecRecords
      BY SpecsAssumption
    <3> QED BY <3>1, <3>2, StatusValues DEF ModuleRecords
  <2>2. born' \in [Names -> Nat]
    BY <1>3 DEF CreateModule
  <2> HIDE DEF m
  <2>3. StoreModule(n, m, queue) /\ Spend("create") /\ UNCHANGED <<tplVars, relVars>>
    BY <1>3 DEF CreateModule, m
  <2> QED BY <2>1, <2>2, <2>3, ModuleStored, BudgetSpent
<1>4. ASSUME NEW n \in Names, NEW s \in Specs, EditModule(n, s) PROVE Typed'
  <2> DEFINE m == [mods[n] EXCEPT !.spec = s, !.gen = @ + 1]
  <2>1. m \in ModuleRecords
    BY <1>4, SpecsAssumption, ModuleUpdates DEF EditModule
  <2> HIDE DEF m
  <2>2. StoreModule(n, m, queue) /\ Spend("edit") /\ UNCHANGED <<born, tplVars, relVars>>
    BY <1>4 DEF EditModule, m
  <2> QED BY <2>1, <2>2, ModuleStored, BudgetSpent
<1>5. ASSUME NEW t \in Templates, NEW x \in TemplateRecords \cup {None}, StoreTemplate(t, x),
             Spend("template"), UNCHANGED <<modVars, relVars>>
      PROVE  Typed'
  <2>1. Referencing(t) \subseteq Names
    BY DEF Referencing
  <2>2. left' \in [Nuisances -> Nat]
    BY <1>5, BudgetSpent
  <2> QED BY <1>5, <2>1, <2>2 DEF StoreTemplate
<1>6. ASSUME NEW t \in Templates, NEW s \in TemplateSpecs, PutTemplate(t, s) PROVE Typed'
  <2> DEFINE x == [gen |-> IF tpl[t] = None THEN 1 ELSE tpl[t].gen + 1,
                   namespace |-> s.namespace, type |-> s.type, chart |-> s.chart]
  <2>1. tpl[t] # None => tpl[t].gen \in Nat
    BY DEF TemplateRecords
  <2>2. x \in TemplateRecords
    BY <2>1, TemplatesAssumption DEF TemplateRecords
  <2> HIDE DEF x
  <2>3. StoreTemplate(t, x) /\ Spend("template") /\ UNCHANGED <<modVars, relVars>>
    BY <1>6 DEF PutTemplate, x
  <2> QED BY <2>2, <2>3, <1>5
<1>7. ASSUME NEW t \in Templates, DeleteTemplate(t) PROVE Typed'
  BY <1>5, <1>7 DEF DeleteTemplate
<1>8. ASSUME NEW t \in Templates, DeliverTemplate(t) PROVE Typed'
  <2>1. Referencing(t) \subseteq Names
    BY DEF Referencing
  <2> QED BY <1>8, <2>1 DEF DeliverTemplate
<1>9. ASSUME NEW o \in Releases, DeliverRelease(o) PROVE Typed'
  <2>1. {p[3] : p \in relPend \cap {o}} \subseteq Names
    BY DEF Releases
  <2> QED BY <1>9, <2>1 DEF DeliverRelease
<1>10. ASSUME NEW o \in Releases, NEW x \in ReleaseRecords \cup {None}, StoreRelease(o, x, queue),
              left' \in [Nuisances -> Nat], UNCHANGED <<modVars, tplVars>>
       PROVE  Typed'
  BY <1>10, ReleaseStored
<1>11. ASSUME NEW o \in Releases, FluxReports(o) PROVE Typed'
  BY <1>10, <1>11, ReleaseUpdates, BudgetSpent DEF FluxReports
<1>12. ASSUME NEW o \in Releases, FluxUninstalls(o) PROVE Typed'
  BY <1>10, <1>12 DEF FluxUninstalls
<1>13. ASSUME NEW o \in Releases, CollectGarbage(o) PROVE Typed'
  BY <1>10, <1>13, ReleaseUpdates DEF CollectGarbage
<1>14. ASSUME NEW o \in Releases, Drift(o) PROVE Typed'
  <2>1. rel[o] \in ReleaseRecords
    BY <1>14 DEF Drift
  <2>2. left' \in [Nuisances -> Nat]
    BY <1>14, BudgetSpent DEF Drift
  <2>3. \A c \in Charts : [rel[o] EXCEPT !.content = <<c, None>>] \in ReleaseRecords
    BY <2>1, ReleaseUpdates
  <2>4. PICK x \in { [rel[o] EXCEPT !.deleting = TRUE], [rel[o] EXCEPT !.labelled = FALSE],
                     [rel[o] EXCEPT !.owner = NoOwner] }
                   \cup {[rel[o] EXCEPT !.content = <<c, None>>] : c \in Charts} :
          StoreRelease(o, x, queue)
    BY <1>14 DEF Drift
  <2>5. x \in ReleaseRecords
    BY <2>1, <2>3, <2>4, ReleaseUpdates
  <2> QED BY <1>10, <1>14, <2>2, <2>4, <2>5 DEF Drift
<1>15. ASSUME NEW o \in Releases, Plant(o) PROVE Typed'
  <2> DEFINE x(owner) == [ owner |-> owner, content |-> <<CHOOSE c \in Charts : TRUE, None>>,
                           labelled |-> FALSE, ready |-> "Pending", deleting |-> FALSE ]
  <2>1. (CHOOSE c \in Charts : TRUE) \in Charts
    BY ChartsAssumption
  <2>2. \A owner \in {NoOwner, Stranger} : x(owner) \in ReleaseRecords
    BY <2>1 DEF ReleaseRecords, Conditions
  <2> HIDE DEF x
  <2>3. PICK owner \in {NoOwner, Stranger} : StoreRelease(o, x(owner), queue)
    BY <1>15 DEF Plant, x
  <2>4. left' \in [Nuisances -> Nat]
    BY <1>15, BudgetSpent DEF Plant
  <2> QED BY <1>10, <1>15, <2>2, <2>3, <2>4 DEF Plant
<1> QED BY <1>1, <1>2, <1>3, <1>4, <1>6, <1>7, <1>8, <1>9, <1>11, <1>12, <1>13, <1>14, <1>15
        DEF Environment

LEMMA PatchTypes ==
  ASSUME Typed, NEW n \in Names, NEW m, mods[n] # None => m \in ModuleRecords \cup {None},
         run # None, run.name = n, PatchFails(n, m)
  PROVE  Typed' /\ run' = None
<1> USE DEF Typed, ClusterTypeOK, modVars, tplVars, relVars, Nuisances
<1>1. Again \subseteq Names
  BY DEF Again
<1>2. CASE mods[n] = None /\ queue' = Again /\ UNCHANGED <<modVars, left>>
  BY <1>1, <1>2 DEF PatchFails
<1>3. ASSUME mods[n] # None, Spend("api"), UNCHANGED born, NEW x \in {mods[n], m},
             StoreModule(n, x, Again)
      PROVE  Typed' /\ run' = None
  <2>1. x \in ModuleRecords \cup {None}
    BY <1>3
  <2> QED BY <1>1, <1>3, <2>1, ModuleStored, BudgetSpent DEF PatchFails
<1> QED BY <1>2, <1>3 DEF PatchFails

(* What the controller would store of a Module has its type. *)
LEMMA PatchValues ==
  ASSUME Typed, run # None, mods[run.name] # None
  PROVE  /\ Guarded(run.name) \in ModuleRecords
         /\ Released(run.name) \in ModuleRecords \cup {None}
         /\ \A s \in StatusRecords : Patched(s) \in ModuleRecords
<1>1. run.name \in Names /\ run.m \in ModuleRecords
  BY RunTypes DEF Typed
<1>2. mods[run.name] \in ModuleRecords
  BY <1>1 DEF Typed, ClusterTypeOK
<1>3. run.m.status \in StatusRecords /\ mods[run.name].status \in StatusRecords
  BY <1>1, <1>2 DEF ModuleRecords
<1>4. ASSUME NEW s \in StatusRecords PROVE Patched(s) \in ModuleRecords
  <2>1. MergePatch(mods[run.name].status, run.m.status, s) \in StatusRecords
    BY <1>3, StatusValues
  <2> QED BY <1>2, <2>1, ModuleUpdates DEF Patched
<1> QED BY <1>2, <1>4, ModuleUpdates DEF Guarded, Released

LEMMA FetchTypes ==
  ASSUME Typed, NEW n \in Names, FetchNothing(n) \/ Fetch(n)
  PROVE  Typed' /\ RunWellFormed'
<1> USE DEF Typed, ClusterTypeOK, modVars, tplVars, relVars
<1>1. CASE FetchNothing(n)
  BY <1>1 DEF FetchNothing, RunWellFormed
<1>2. CASE Fetch(n)
  <2>1. modCache[n] \in ModuleRecords
    BY <1>2 DEF Fetch, ToReconcile
  <2>2. FirstPhase(modCache[n]) \in Phases \ {"sync", "status"}
    BY DEF FirstPhase, Phases
  <2>3. run' = [ name |-> n, m |-> modCache[n], phase |-> FirstPhase(modCache[n]),
                 t |-> None, error |-> "", namespace |-> None, todo |-> {} ]
    BY <1>2 DEF Fetch
  <2>4. run' \in Runs
    BY <2>1, <2>2, <2>3 DEF Runs
  <2>5. RunWellFormed'
    BY <2>2, <2>3 DEF RunWellFormed, WellFormed
  <2> QED BY <1>2, <2>4, <2>5 DEF Fetch
<1> QED BY <1>1, <1>2

LEMMA SyncTypes ==
  ASSUME Typed, RunWellFormed, ReadTemplate \/ SyncWrite \/ SyncNothing \/ SyncRejected \/ SyncFault
  PROVE  Typed' /\ RunWellFormed'
<1> USE DEF Typed, ClusterTypeOK, modVars, tplVars, relVars, Nuisances
<1>1. run # None /\ run \in Runs /\ WellFormed(run)
  BY DEF ReadTemplate, SyncWrite, SyncNothing, SyncRejected, SyncFault, At, RunWellFormed
<1>2. CASE ReadTemplate
  <2>1. run.m.spec.template \in Templates
    BY <1>1, RunTypes DEF ModuleRecords, SpecRecords
  <2> DEFINE t == tplCache[run.m.spec.template]
  <2>2. t \in TemplateRecords \cup {None}
    BY <2>1
  <2> HIDE DEF t
  <2>3. \/ t = None /\ Fail("TemplateNotFound")
        \/ t # None /\ run' = [run EXCEPT !.t = t, !.phase = "sync"]
    BY <1>2 DEF ReadTemplate, t
  <2>4. run' \in Runs /\ WellFormed(run')
    BY <1>1, <2>2, <2>3, RunSteps
  <2> QED BY <1>2, <2>4 DEF ReadTemplate, RunWellFormed
<1>3. SyncWrite \/ SyncNothing \/ SyncRejected \/ SyncFault => run.t # None
  BY <1>1 DEF WellFormed, SyncWrite, SyncNothing, SyncRejected, SyncFault, At
<1>4. SyncWrite \/ SyncNothing \/ SyncRejected \/ SyncFault => run' \in Runs /\ RunWellFormed'
  BY <1>1, <1>3, RunSteps DEF SyncWrite, SyncNothing, SyncRejected, SyncFault, RunWellFormed
<1>5. CASE SyncWrite
  BY <1>1, <1>3, <1>4, <1>5, TargetTypes, ReleaseStored DEF SyncWrite
<1>6. CASE SyncNothing
  BY <1>4, <1>6 DEF SyncNothing
<1>7. CASE SyncRejected
  BY <1>4, <1>7 DEF SyncRejected
<1>8. CASE SyncFault
  <2>1. PICK x \in {There, Sent} : StoreRelease(Target, x, queue)
    BY <1>8 DEF SyncFault
  <2>2. x \in ReleaseRecords \cup {None} /\ Target \in Releases
    BY <1>1, <1>3, <1>8, TargetTypes
  <2>3. left' \in [Nuisances -> Nat]
    BY <1>8, BudgetSpent DEF SyncFault
  <2> QED BY <1>4, <1>8, <2>1, <2>2, <2>3, ReleaseStored DEF SyncFault
<1> QED BY <1>2, <1>5, <1>6, <1>7, <1>8

LEMMA FinalizerTypes ==
  ASSUME Typed, RunWellFormed, AddFinalizer \/ AddFinalizerFails \/ RemoveFinalizer \/ RemoveFinalizerFails
  PROVE  Typed' /\ RunWellFormed'
<1> USE DEF Typed, ClusterTypeOK, modVars, tplVars, relVars, Nuisances
<1>1. run # None /\ run \in Runs /\ WellFormed(run) /\ run.name \in Names
  BY RunTypes DEF AddFinalizer, AddFinalizerFails, RemoveFinalizer, RemoveFinalizerFails, At, RunWellFormed
<1>2. CASE AddFinalizer
  <2>1. Guarded(run.name) \in ModuleRecords
    BY <1>1, <1>2, PatchValues DEF AddFinalizer
  <2>2. run' \in Runs /\ RunWellFormed'
    BY <1>1, <1>2, <2>1, RunSteps DEF AddFinalizer, RunWellFormed
  <2> QED BY <1>1, <1>2, <2>1, <2>2, ModuleStored DEF AddFinalizer
<1>3. CASE AddFinalizerFails
  BY <1>1, <1>3, PatchValues, PatchTypes DEF AddFinalizerFails, RunWellFormed
<1>4. CASE RemoveFinalizer
  BY <1>1, <1>4, PatchValues, ModuleStored DEF RemoveFinalizer, RunWellFormed
<1>5. CASE RemoveFinalizerFails
  BY <1>1, <1>5, PatchValues, PatchTypes DEF RemoveFinalizerFails, RunWellFormed
<1> QED BY <1>2, <1>3, <1>4, <1>5

LEMMA StatusTypes ==
  ASSUME Typed, RunWellFormed,
         StatusUnchanged \/ StatusPatch \/ StatusFails \/ ReportError \/ ReportLost
  PROVE  Typed' /\ RunWellFormed'
<1> USE DEF Typed, ClusterTypeOK, modVars, tplVars, relVars, Nuisances
<1>1. run # None /\ run \in Runs /\ WellFormed(run) /\ run.name \in Names /\ run.m \in ModuleRecords
  BY RunTypes DEF StatusUnchanged, StatusPatch, StatusFails, ReportError, ReportLost, At, RunWellFormed
<1>2. EventQueue \subseteq Names /\ Requeued \subseteq Names
  BY <1>1 DEF EventQueue, Requeued, Again
<1>3. StatusUnchanged \/ StatusPatch \/ StatusFails => run.t # None
  BY <1>1 DEF WellFormed, StatusUnchanged, StatusPatch, StatusFails, At
<1>4. CASE StatusUnchanged
  BY <1>4 DEF StatusUnchanged, RunWellFormed
<1>5. CASE StatusPatch
  BY <1>1, <1>2, <1>3, <1>5, TargetTypes, PatchValues, ModuleStored DEF StatusPatch, RunWellFormed
<1>6. CASE StatusFails
  BY <1>1, <1>3, <1>6, TargetTypes, PatchValues, PatchTypes DEF StatusFails, RunWellFormed
<1>7. CASE ReportError
  <2>1. NotReady(run.m, run.error) \in StatusRecords
    BY <1>1, RunTypes, StatusValues
  <2>2. CASE mods[run.name] = None
    BY <1>2, <1>7, <2>2 DEF ReportError, RunWellFormed
  <2>3. CASE mods[run.name] # None
    BY <1>1, <1>2, <1>7, <2>1, <2>3, PatchValues, ModuleStored DEF ReportError, RunWellFormed
  <2> QED BY <2>2, <2>3
<1>8. CASE ReportLost
  BY <1>2, <1>8, BudgetSpent DEF ReportLost, RunWellFormed
<1> QED BY <1>4, <1>5, <1>6, <1>7, <1>8

LEMMA CleanupTypes ==
  ASSUME Typed, RunWellFormed, ResolveNamespace \/ DeleteFlux \/ DeleteFluxFails
  PROVE  Typed' /\ RunWellFormed'
<1> USE DEF Typed, ClusterTypeOK, modVars, tplVars, relVars, Nuisances
<1>1. run # None /\ run \in Runs /\ WellFormed(run) /\ run.name \in Names /\ run.m \in ModuleRecords
  BY RunTypes DEF ResolveNamespace, DeleteFlux, DeleteFluxFails, At, RunWellFormed
<1>2. CASE ResolveNamespace
  <2> DEFINE namespace == CleanupNamespace(run.m, tplCache[run.m.spec.template])
  <2>1. run.m.spec.template \in Templates
    BY <1>1 DEF ModuleRecords, SpecRecords
  <2>2. namespace \in Namespaces \cup {None}
    BY <1>1, <2>1, CleanupNamespaceType
  <2>3. Referred(run.m) \subseteq FluxKinds
    BY DEF Referred
  <2> HIDE DEF namespace
  <2>4. run' = [run EXCEPT !.phase = "cleanup", !.namespace = namespace,
                           !.todo = IF namespace = None THEN {} ELSE Referred(run.m)]
    BY <1>2 DEF ResolveNamespace, namespace
  <2>5. run' \in Runs /\ WellFormed(run')
    BY <1>1, <2>2, <2>3, <2>4, RunSteps
  <2> QED BY <1>2, <2>5 DEF ResolveNamespace, RunWellFormed
<1>3. CASE DeleteFlux
  <2>1. run' \in Runs /\ WellFormed(run')
    BY <1>1, <1>3, DoomedTypes, RunSteps DEF DeleteFlux
  <2> QED BY <1>3, <2>1, DoomedTypes, ReleaseStored DEF DeleteFlux, RunWellFormed
<1>4. CASE DeleteFluxFails
  <2>1. PICK x \in {rel[Doomed], Marked} : StoreRelease(Doomed, x, Again)
    BY <1>4 DEF DeleteFluxFails
  <2>2. x \in ReleaseRecords \cup {None} /\ Doomed \in Releases
    BY <1>4, <2>1, DoomedTypes DEF DeleteFluxFails
  <2>3. Again \subseteq Names
    BY <1>1 DEF Again
  <2>4. left' \in [Nuisances -> Nat]
    BY <1>4, BudgetSpent DEF DeleteFluxFails
  <2> QED BY <1>4, <2>1, <2>2, <2>3, <2>4, ReleaseStored DEF DeleteFluxFails, RunWellFormed
<1> QED BY <1>2, <1>3, <1>4

LEMMA RestartTypes ==
  ASSUME Typed, Restart
  PROVE  Typed' /\ RunWellFormed'
<1>1. queue' \subseteq Names
  BY DEF Restart, Releases
<1> QED BY <1>1, BudgetSpent DEF Restart, Typed, ClusterTypeOK, RunWellFormed, Nuisances

LEMMA TypesKept ==
  ASSUME Typed, RunWellFormed, [Next]_vars
  PROVE  Typed' /\ RunWellFormed'
<1>1. CASE Work
  BY <1>1, FetchTypes, FinalizerTypes, SyncTypes, StatusTypes, CleanupTypes DEF Work
<1>2. CASE Environment /\ UNCHANGED run
  BY <1>2, EnvironmentTypes DEF RunWellFormed
<1>3. CASE UNCHANGED vars
  BY <1>3 DEF vars, Typed, ClusterTypeOK, RunWellFormed
<1> QED BY <1>1, <1>2, <1>3, SyncTypes, CleanupTypes, StatusTypes, RestartTypes DEF Next
-----------------------------------------------------------------------------
(* The copies of a Module and what is stored. *)

LEMMA ModuleTyped ==
  ASSUME Typed
  PROVE  /\ \A n \in Names : mods[n] \in ModuleRecords \cup {None} /\ modCache[n] \in ModuleRecords \cup {None}
         /\ \A n \in Names : born[n] \in Nat
         /\ \A n \in Names : mods[n] # None => mods[n].inc \in Nat
         /\ \A n \in Names : modCache[n] # None => modCache[n].inc \in Nat
         /\ run # None => run.name \in Names /\ run.m.inc \in Nat /\ run.m \in ModuleRecords
BY RunTypes, ModuleUpdates DEF Typed, ClusterTypeOK

(* A step of a reconcile that stores no Module. *)
LEMMA CopiesOfRun ==
  ASSUME Typed, Copies, UNCHANGED <<mods, born, modCache>>,
         \/ run' = None \/ run' = run
         \/ /\ run # None /\ run'.name = run.name /\ run'.m = run.m
            /\ \/ run.phase \in Working /\ run'.phase \in Working
               \/ run.phase \in Retiring /\ run'.phase \in Retiring
  PROVE  Copies'
<1>1. Incarnations' /\ CacheHonest'
  BY DEF Copies, Incarnations, CacheHonest, CopyHonest
<1>2. GuardingInv'
  BY DEF Copies, GuardingInv, At, Working, Retiring
<1>3. WorkingInv'
  BY DEF Copies, WorkingInv, Working, Retiring
<1>4. RetiringInv'
  BY DEF Copies, RetiringInv, CopyHonest, Working, Retiring
<1> QED BY <1>1, <1>2, <1>3, <1>4 DEF Copies

LEMMA CopiesFetched ==
  ASSUME Typed, Copies, NEW n \in Names, FetchNothing(n) \/ Fetch(n)
  PROVE  Copies'
<1>1. CASE FetchNothing(n)
  BY <1>1, CopiesOfRun DEF FetchNothing, modVars
<1>2. CASE Fetch(n)
  <2>1. /\ run'.name = n /\ run'.m = modCache[n] /\ run'.phase = FirstPhase(modCache[n])
        /\ modCache[n] # None /\ UNCHANGED <<mods, born, modCache>>
    BY <1>2 DEF Fetch, ToReconcile, modVars
  <2>2. Incarnations' /\ CacheHonest'
    BY <2>1 DEF Copies, Incarnations, CacheHonest, CopyHonest
  <2>3. GuardingInv'
    BY <2>1 DEF GuardingInv, At, FirstPhase
  <2>4. WorkingInv'
    BY <2>1 DEF Copies, CacheHonest, WorkingInv, Working, FirstPhase
  <2>5. RetiringInv'
    BY <2>1, ModuleTyped DEF Copies, CacheHonest, CopyHonest, RetiringInv, Retiring, FirstPhase
  <2> QED BY <2>2, <2>3, <2>4, <2>5 DEF Copies
<1> QED BY <1>1, <1>2

(* A retiring reconcile stays behind the cache while the cache stays or catches up. *)
LEMMA RetiringKept ==
  ASSUME Typed, RetiringInv, Incarnations', run' = run \/ run' = None,
         run' = run /\ run # None /\ run.phase \in Retiring =>
           /\ CopyHonest(run.name, run.m)'
           /\ modCache'[run.name] = modCache[run.name] \/ modCache'[run.name] = mods'[run.name]
  PROVE  RetiringInv'
<1>1. CASE run' = run /\ run # None /\ run.phase \in Retiring
  <2> DEFINE n == run.name
             c == modCache'[n]
  <2>1. n \in Names /\ run.m # None
    BY <1>1, RunTypes, NoneApart DEF Typed
  <2>2. run.m.deleting /\ CopyHonest(n, run.m)'
    BY <1>1 DEF RetiringInv
  <2>3. CASE c = modCache[n]
    BY <1>1, <2>2, <2>3 DEF RetiringInv
  <2>4. CASE c = mods'[n] /\ c # None
    <3>1. run.m.inc <= born'[n] /\ c.inc = born'[n]
      BY <1>1, <2>1, <2>4 DEF Incarnations
    <3>2. run.m.inc = c.inc => c.deleting
      BY <1>1, <2>1, <2>2, <2>4 DEF CopyHonest
    <3> QED BY <1>1, <2>2, <3>1, <3>2 DEF RetiringInv
  <2>5. CASE c = None
    BY <1>1, <2>2, <2>5 DEF RetiringInv
  <2> QED BY <1>1, <2>3, <2>4, <2>5
<1> QED BY <1>1 DEF RetiringInv

(* A write that leaves finalizer and deletion alone. *)
LEMMA CopiesOfUpdate ==
  ASSUME Typed, Copies, NEW n \in Names, mods[n] # None, NEW m \in ModuleRecords,
         m.inc = mods[n].inc, m.finalizer = mods[n].finalizer, m.deleting = mods[n].deleting,
         mods' = [mods EXCEPT ![n] = m], UNCHANGED born,
         modCache' = modCache \/ modCache' = [modCache EXCEPT ![n] = m],
         run' = run \/ run' = None
  PROVE  Copies'
<1>1. mods \in [Names -> ModuleRecords \cup {None}] /\ modCache \in [Names -> ModuleRecords \cup {None}]
  BY DEF Typed, ClusterTypeOK
<1>2. m # None
  BY NoneApart
<1>3. Incarnations'
  BY <1>1, <1>2, ModuleTyped DEF Copies, Incarnations
<1>4. CacheHonest'
  BY <1>1, <1>2 DEF Copies, CacheHonest, CopyHonest
<1>5. GuardingInv'
  BY <1>1, <1>2, ModuleTyped DEF Copies, GuardingInv, At
<1>6. WorkingInv'
  BY <1>1, <1>2, ModuleTyped DEF Copies, WorkingInv
<1>7. RetiringInv'
  <2>1. run' = run /\ run # None /\ run.phase \in Retiring => CopyHonest(run.name, run.m)'
    BY <1>1, <1>2, ModuleTyped DEF Copies, RetiringInv, CopyHonest
  <2> QED BY <1>1, <1>3, <2>1, RetiringKept, ModuleTyped DEF Copies
<1> QED BY <1>3, <1>4, <1>5, <1>6, <1>7 DEF Copies

LEMMA CopiesCreated ==
  ASSUME Typed, Copies, NEW n \in Names, NEW s \in Specs, CreateModule(n, s), UNCHANGED run
  PROVE  Copies'
<1> DEFINE m == [inc |-> born[n] + 1, gen |-> 1, spec |-> s, status |-> NoStatus,
                 finalizer |-> FALSE, deleting |-> FALSE]
<1>1. mods \in [Names -> ModuleRecords \cup {None}] /\ modCache \in [Names -> ModuleRecords \cup {None}]
      /\ born \in [Names -> Nat]
  BY DEF Typed, ClusterTypeOK
<1>2. m \in ModuleRecords
  <2>1. born[n] + 1 \in Nat /\ s \in SpecRecords
    BY <1>1, SpecsAssumption
  <2> QED BY <2>1, StatusValues DEF ModuleRecords
<1>3. m # None /\ m.inc = born[n] + 1 /\ ~m.finalizer /\ ~m.deleting
  BY <1>2, NoneApart
<1> HIDE DEF m
<1>4. /\ mods[n] = None /\ mods' = [mods EXCEPT ![n] = m] /\ born' = [born EXCEPT ![n] = @ + 1]
      /\ modCache' = modCache \/ modCache' = [modCache EXCEPT ![n] = m]
  BY <1>2, ModuleStored DEF CreateModule, m, Typed, ClusterTypeOK
<1>5. \A x \in Names : born[x] <= born'[x]
  BY <1>1, <1>4
<1>6. Incarnations'
  BY <1>1, <1>3, <1>4, <1>5, ModuleTyped DEF Copies, Incarnations
<1>7. CacheHonest'
  <2>1. ASSUME NEW x \in Names, x # n
        PROVE  mods'[x] = mods[x] /\ modCache'[x] = modCache[x]
    BY <1>1, <1>4, <2>1
  <2>2. mods'[n] = m /\ (modCache'[n] = modCache[n] \/ modCache'[n] = m)
    BY <1>1, <1>4
  <2>3. modCache'[n] # None => ~modCache'[n].finalizer \/ modCache'[n].deleting
    BY <1>3, <1>4, <2>2 DEF Copies, CacheHonest
  <2>4. CopyHonest(n, modCache[n])'
    BY <1>1, <1>3, <1>4, <2>2, ModuleTyped DEF Copies, Incarnations, CopyHonest
  <2> QED BY <2>1, <2>3, <2>4 DEF Copies, CacheHonest, CopyHonest
<1>8. GuardingInv'
  BY <1>1, <1>3, <1>4, ModuleTyped DEF Copies, GuardingInv, At
<1>9. WorkingInv'
  BY <1>1, <1>3, <1>4, ModuleTyped DEF Copies, WorkingInv
<1>10. RetiringInv'
  <2>1. run' = run /\ run # None /\ run.phase \in Retiring => CopyHonest(run.name, run.m)'
    BY <1>1, <1>3, <1>4, ModuleTyped DEF Copies, Incarnations, RetiringInv, CopyHonest
  <2> QED BY <1>1, <1>4, <1>6, <2>1, RetiringKept, ModuleTyped DEF Copies
<1> QED BY <1>6, <1>7, <1>8, <1>9, <1>10 DEF Copies

LEMMA CopiesDeleted ==
  ASSUME Typed, Copies, NEW n \in Names, DeleteModule(n), UNCHANGED run
  PROVE  Copies'
<1> DEFINE m == IF mods[n].finalizer
                THEN [mods[n] EXCEPT !.deleting = TRUE, !.gen = @ + 1] ELSE None
<1>1. mods \in [Names -> ModuleRecords \cup {None}] /\ modCache \in [Names -> ModuleRecords \cup {None}]
  BY DEF Typed, ClusterTypeOK
<1>2. m \in ModuleRecords \cup {None}
  BY <1>1, ModuleUpdates DEF DeleteModule
<1>3. \/ m = None /\ ~mods[n].finalizer
      \/ m # None /\ mods[n].finalizer /\ m.inc = mods[n].inc /\ m.finalizer = mods[n].finalizer /\ m.deleting
  <2>1. mods[n] \in ModuleRecords
    BY <1>1 DEF DeleteModule
  <2>2. mods[n].finalizer \in BOOLEAN
    BY <2>1, ModuleUpdates
  <2>3. CASE mods[n].finalizer
    <3>1. m = [mods[n] EXCEPT !.deleting = TRUE, !.gen = @ + 1]
      BY <2>3
    <3>2. m.inc = mods[n].inc /\ m.finalizer = mods[n].finalizer /\ m.deleting
      BY <2>1, <3>1 DEF ModuleRecords
    <3>3. m # None
      BY <2>1, <3>1, ModuleUpdates, NoneApart
    <3> QED BY <2>3, <3>2, <3>3
  <2> QED BY <2>2, <2>3
<1> HIDE DEF m
<1>4. /\ mods[n] # None /\ ~mods[n].deleting /\ mods' = [mods EXCEPT ![n] = m] /\ UNCHANGED born
      /\ modCache' = modCache \/ modCache' = [modCache EXCEPT ![n] = m]
  BY <1>2, ModuleStored DEF DeleteModule, m, Typed, ClusterTypeOK
<1>5. Incarnations'
  BY <1>1, <1>3, <1>4, ModuleTyped DEF Copies, Incarnations
<1>6. CacheHonest'
  <2>1. ASSUME NEW x \in Names, x # n
        PROVE  mods'[x] = mods[x] /\ modCache'[x] = modCache[x]
    BY <1>1, <1>4, <2>1
  <2>2. mods'[n] = m /\ (modCache'[n] = modCache[n] \/ modCache'[n] = m)
    BY <1>1, <1>4
  <2> QED BY <1>3, <1>4, <2>1, <2>2 DEF Copies, CacheHonest, CopyHonest
<1>7. GuardingInv'
  BY <1>1, <1>3, <1>4, ModuleTyped DEF Copies, GuardingInv, CacheHonest, CopyHonest, At
<1>8. WorkingInv'
  BY <1>1, <1>3, <1>4, ModuleTyped DEF Copies, WorkingInv
<1>9. RetiringInv'
  <2>1. run' = run /\ run # None /\ run.phase \in Retiring => CopyHonest(run.name, run.m)'
    BY <1>1, <1>3, <1>4, ModuleTyped DEF Copies, Incarnations, RetiringInv, CopyHonest
  <2> QED BY <1>1, <1>4, <1>5, <2>1, RetiringKept, ModuleTyped DEF Copies
<1> QED BY <1>5, <1>6, <1>7, <1>8, <1>9 DEF Copies

(* An informer catches up, with one Module or with all. *)
LEMMA CopiesRefreshed ==
  ASSUME Typed, Copies, UNCHANGED <<mods, born>>, run' = run \/ run' = None,
         NEW N \in SUBSET Names,
         modCache' = [n \in Names |-> IF n \in N THEN mods[n] ELSE modCache[n]]
  PROVE  Copies'
<1>1. Incarnations'
  BY ModuleTyped DEF Copies, Incarnations
<1>2. CacheHonest'
  BY DEF Copies, CacheHonest, CopyHonest
<1>3. GuardingInv'
  BY ModuleTyped DEF Copies, GuardingInv, At
<1>4. WorkingInv'
  BY DEF Copies, WorkingInv
<1>5. RetiringInv'
  BY <1>1, RetiringKept, ModuleTyped DEF Copies, RetiringInv, CopyHonest
<1> QED BY <1>1, <1>2, <1>3, <1>4, <1>5 DEF Copies

(* The finalizer goes on, whether or not the answer arrives. *)
LEMMA CopiesGuarded ==
  ASSUME Typed, Copies, At("guard"), mods[run.name] # None,
         mods' = [mods EXCEPT ![run.name] = Guarded(run.name)], UNCHANGED born,
         \/ modCache' = modCache
         \/ modCache' = [modCache EXCEPT ![run.name] = Guarded(run.name)],
         \/ run' = [run EXCEPT !.m = Guarded(run.name), !.phase = "template"]
         \/ run' = None
  PROVE  Copies'
<1>0. PICK n \in Names, m \in {Guarded(run.name)} : n = run.name /\ m = Guarded(n)
  BY RunTypes DEF Typed, At
<1>1. mods \in [Names -> ModuleRecords \cup {None}] /\ modCache \in [Names -> ModuleRecords \cup {None}]
      /\ run \in Runs /\ mods[n] \in ModuleRecords /\ born[n] \in Nat
  BY <1>0 DEF Typed, ClusterTypeOK, At
<1>2. m \in ModuleRecords /\ m.inc = mods[n].inc /\ m.deleting = mods[n].deleting /\ m.finalizer
  BY <1>0, <1>1 DEF Guarded, ModuleRecords
<1>3. m # None
  BY <1>2, NoneApart
<1>4. /\ mods'[n] = m /\ (modCache'[n] = modCache[n] \/ modCache'[n] = m)
      /\ \A x \in Names : x # n => mods'[x] = mods[x] /\ modCache'[x] = modCache[x]
  BY <1>0, <1>1
<1>5. run' = None \/ (run'.name = n /\ run'.m = m /\ run'.phase = "template")
  BY <1>0, <1>1 DEF Runs
<1>6. Incarnations'
  <2>1. mods[n] # None /\ m.inc = born[n] /\ m.inc <= born[n]
    BY <1>0, <1>1, <1>2 DEF Copies, Incarnations
  <2>2. \A x \in Names : mods'[x] # None => mods'[x].inc = born'[x]
    BY <1>4, <2>1 DEF Copies, Incarnations
  <2>3. \A x \in Names : modCache'[x] # None => modCache'[x].inc <= born'[x]
    BY <1>4, <2>1 DEF Copies, Incarnations
  <2>4. run' # None => run'.m.inc <= born'[run'.name]
    BY <1>5, <2>1
  <2> QED BY <2>2, <2>3, <2>4 DEF Incarnations
<1>7. CacheHonest'
  <2>1. CopyHonest(n, modCache[n])'
    BY <1>1, <1>2, <1>3, <1>4, <1>0 DEF Copies, CacheHonest, CopyHonest, GuardingInv
  <2>2. modCache'[n] # None /\ modCache'[n].finalizer /\ ~modCache'[n].deleting =>
          mods'[n] # None /\ mods'[n].inc = modCache'[n].inc /\ mods'[n].finalizer
    BY <1>1, <1>2, <1>3, <1>4 DEF Copies, CacheHonest
  <2> QED BY <1>4, <2>1, <2>2 DEF Copies, CacheHonest, CopyHonest
<1>8. GuardingInv' /\ WorkingInv' /\ RetiringInv'
  BY <1>1, <1>2, <1>3, <1>4, <1>5 DEF GuardingInv, WorkingInv, RetiringInv, At, Retiring
<1> QED BY <1>6, <1>7, <1>8 DEF Copies

(* The finalizer comes off: of a Module that is being deleted, and then the
   Module is gone; or of a successor that was not guarded anyway. *)
LEMMA CopiesReleased ==
  ASSUME Typed, Copies, At("cleanup"), mods[run.name] # None,
         mods' = [mods EXCEPT ![run.name] = Released(run.name)], UNCHANGED born,
         \/ modCache' = modCache
         \/ modCache' = [modCache EXCEPT ![run.name] = Released(run.name)],
         run' = None
  PROVE  /\ Copies' 
         /\ Released(run.name) = IF mods[run.name].deleting THEN None ELSE mods[run.name]
<1> DEFINE n == run.name
           m == Released(n)
<1>1. mods \in [Names -> ModuleRecords \cup {None}] /\ modCache \in [Names -> ModuleRecords \cup {None}]
      /\ run \in Runs /\ n \in Names /\ mods[n] \in ModuleRecords /\ born[n] \in Nat /\ run # None
      /\ run.m \in ModuleRecords
  BY RunTypes DEF Typed, ClusterTypeOK, At
<1>2. run.m.deleting /\ CopyHonest(n, run.m) /\ run.m # None
  BY <1>1, NoneApart DEF Copies, RetiringInv, Retiring, At
<1>3. ~mods[n].deleting => ~mods[n].finalizer /\ mods[n].inc # run.m.inc
  BY <1>1, <1>2 DEF CopyHonest
<1>4. m = IF mods[n].deleting THEN None ELSE mods[n]
  BY <1>1, <1>3 DEF Released, ModuleRecords
<1>5. /\ mods'[n] = m /\ (modCache'[n] = modCache[n] \/ modCache'[n] = m)
      /\ \A x \in Names : x # n => mods'[x] = mods[x] /\ modCache'[x] = modCache[x]
  BY <1>1
<1> HIDE DEF m
<1>6. Incarnations'
  BY <1>1, <1>4, <1>5, ModuleTyped DEF Copies, Incarnations
<1>7. CacheHonest'
  <2>1. CASE ~mods[n].deleting
    BY <1>1, <1>3, <1>4, <1>5, <2>1 DEF Copies, CacheHonest, CopyHonest
  <2>2. CASE mods[n].deleting
    <3>1. ~(modCache[n] # None /\ modCache[n].finalizer /\ ~modCache[n].deleting)
      <4>1. SUFFICES ASSUME modCache[n] # None, modCache[n].finalizer, ~modCache[n].deleting PROVE FALSE
        OBVIOUS
      <4>2. modCache[n].inc = mods[n].inc /\ mods[n].finalizer
        BY <1>1, <4>1 DEF Copies, CacheHonest
      <4>3. run.m.inc = mods[n].inc
        BY <1>1, <1>2, <4>2 DEF CopyHonest
      <4> QED BY <1>1, <4>1, <4>2, <4>3 DEF Copies, RetiringInv, Retiring, At
    <3> QED BY <1>1, <1>4, <1>5, <2>2, <3>1 DEF Copies, CacheHonest, CopyHonest
  <2> QED BY <2>1, <2>2
<1>8. GuardingInv' /\ WorkingInv' /\ RetiringInv'
  BY DEF GuardingInv, WorkingInv, RetiringInv, At
<1> QED BY <1>4, <1>6, <1>7, <1>8 DEF Copies, m

LEMMA CopiesPatched ==
  ASSUME Typed, RunWellFormed, Copies, run # None, NEW m, PatchFails(run.name, m),
         \/ At("guard") /\ m = Guarded(run.name)
         \/ At("cleanup") /\ m = Released(run.name)
         \/ \E s \in StatusRecords : m = Patched(s)
  PROVE  Copies'
<1>1. run.name \in Names /\ run' = None
  BY RunTypes DEF Typed, PatchFails
<1>2. CASE UNCHANGED modVars
  BY <1>1, <1>2, CopiesOfRun DEF modVars
<1>3. ASSUME mods[run.name] # None, UNCHANGED born, NEW x \in {mods[run.name], m},
             StoreModule(run.name, x, Again)
      PROVE  Copies'
  <2>1. Again \subseteq Names /\ mods[run.name] \in ModuleRecords /\ x \in ModuleRecords \cup {None}
    BY <1>1, <1>3, PatchValues DEF Again, Typed, ClusterTypeOK
  <2>2. /\ mods' = [mods EXCEPT ![run.name] = x]
        /\ modCache' = modCache \/ modCache' = [modCache EXCEPT ![run.name] = x]
    BY <1>1, <1>3, <2>1, ModuleStored
  <2>3. CASE x = mods[run.name]
    BY <1>1, <1>3, <2>1, <2>2, <2>3, CopiesOfUpdate
  <2>4. CASE At("guard") /\ x = Guarded(run.name)
    BY <1>1, <1>3, <2>2, <2>4, CopiesGuarded
  <2>5. CASE At("cleanup") /\ x = Released(run.name)
    BY <1>1, <1>3, <2>2, <2>5, CopiesReleased
  <2>6. ASSUME NEW s \in StatusRecords, x = Patched(s) PROVE Copies'
    <3>1. /\ x \in ModuleRecords /\ x.inc = mods[run.name].inc
          /\ x.finalizer = mods[run.name].finalizer /\ x.deleting = mods[run.name].deleting
      BY <1>3, <2>1, <2>6, PatchValues DEF Patched, ModuleRecords
    <3> QED BY <1>1, <1>3, <2>2, <3>1, CopiesOfUpdate
  <2> QED BY <1>3, <2>3, <2>4, <2>5, <2>6
<1> QED BY <1>2, <1>3 DEF PatchFails, modVars

LEMMA CopiesKept ==
  ASSUME Typed, RunWellFormed, Copies, [Next]_vars
  PROVE  Copies'
<1> USE DEF modVars
<1>1. run # None => run \in Runs /\ run.name \in Names
  BY RunTypes DEF Typed
<1>2. ASSUME NEW n \in Names, FetchNothing(n) \/ Fetch(n) PROVE Copies'
  BY <1>2, CopiesFetched
<1>3. CASE AddFinalizer
  BY <1>1, <1>3, PatchValues, ModuleStored, CopiesGuarded
     DEF AddFinalizer, At, Typed, ClusterTypeOK
<1>4. CASE AddFinalizerFails
  BY <1>4, CopiesPatched DEF AddFinalizerFails, At
<1>5. CASE ReadTemplate \/ SyncWrite \/ SyncNothing \/ SyncRejected \/ SyncFault
  <2>1. run # None /\ run \in Runs /\ run.phase \in Working /\ UNCHANGED <<mods, born, modCache>>
    BY <1>1, <1>5 DEF ReadTemplate, SyncWrite, SyncNothing, SyncRejected, SyncFault, At, Working
  <2>2. \A e : Fail(e) => run'.name = run.name /\ run'.m = run.m /\ run'.phase \in Working
    BY <2>1 DEF Fail, Runs, Working
  <2>3. GoTo("status") => run'.name = run.name /\ run'.m = run.m /\ run'.phase \in Working
    BY <2>1 DEF GoTo, Runs, Working
  <2>4. \A t : run' = [run EXCEPT !.t = t, !.phase = "sync"] =>
          run'.name = run.name /\ run'.m = run.m /\ run'.phase \in Working
    BY <2>1 DEF Runs, Working
  <2>5. run'.name = run.name /\ run'.m = run.m /\ run'.phase \in Working
    BY <1>5, <2>2, <2>3, <2>4 DEF ReadTemplate, SyncWrite, SyncNothing, SyncRejected, SyncFault
  <2> QED BY <2>1, <2>5, CopiesOfRun
<1>6. CASE ResolveNamespace \/ DeleteFlux
  <2>1. run # None /\ run \in Runs /\ run.phase \in Retiring /\ UNCHANGED <<mods, born, modCache>>
    BY <1>1, <1>6 DEF ResolveNamespace, DeleteFlux, At, Retiring
  <2>2. run'.name = run.name /\ run'.m = run.m /\ run'.phase \in Retiring
    BY <1>6, <2>1 DEF ResolveNamespace, DeleteFlux, Runs, Retiring
  <2> QED BY <2>1, <2>2, CopiesOfRun
<1>7. CASE DeleteFluxFails \/ StatusUnchanged \/ ReportLost
  BY <1>7, CopiesOfRun DEF DeleteFluxFails, StatusUnchanged, ReportLost
<1>8. ASSUME run # None, mods[run.name] # None, NEW s \in StatusRecords, NEW q \in SUBSET Names,
             StoreModule(run.name, Patched(s), q), UNCHANGED born, run' = None
      PROVE  Copies'
  <2>1. mods[run.name] \in ModuleRecords /\ Patched(s) \in ModuleRecords
    BY <1>1, <1>8, PatchValues DEF Typed, ClusterTypeOK
  <2>2. /\ Patched(s).inc = mods[run.name].inc /\ Patched(s).finalizer = mods[run.name].finalizer
        /\ Patched(s).deleting = mods[run.name].deleting
    BY <2>1 DEF Patched, ModuleRecords
  <2> QED BY <1>1, <1>8, <2>1, <2>2, ModuleStored, CopiesOfUpdate
<1>9. run # None => EventQueue \subseteq Names /\ Requeued \subseteq Names /\ queue \subseteq Names
  BY <1>1 DEF EventQueue, Requeued, Again, Typed, ClusterTypeOK
<1>10. CASE StatusPatch
  <2>1. NewStatus \in StatusRecords
    BY <1>10, TargetTypes DEF StatusPatch, At, RunWellFormed, WellFormed
  <2> QED BY <1>8, <1>9, <1>10, <2>1 DEF StatusPatch, At
<1>11. CASE StatusFails
  <2>1. NewStatus \in StatusRecords
    BY <1>11, TargetTypes DEF StatusFails, At, RunWellFormed, WellFormed
  <2> QED BY <1>11, <2>1, CopiesPatched DEF StatusFails, At
<1>12. CASE ReportError
  <2>1. NotReady(run.m, run.error) \in StatusRecords
    BY <1>1, <1>12, RunTypes, StatusValues DEF ReportError, At
  <2> QED BY <1>8, <1>9, <1>12, <2>1, CopiesOfRun DEF ReportError, At
<1>13. CASE RemoveFinalizer
  BY <1>1, <1>9, <1>13, PatchValues, ModuleStored, CopiesReleased DEF RemoveFinalizer, At
<1>14. CASE RemoveFinalizerFails
  BY <1>14, CopiesPatched DEF RemoveFinalizerFails, At
<1>15. CASE Restart
  <2>1. modCache' = [n \in Names |-> IF n \in Names THEN mods[n] ELSE modCache[n]]
    BY <1>15 DEF Restart, Typed, ClusterTypeOK
  <2> QED BY <1>15, <2>1, CopiesRefreshed DEF Restart
<1>16. CASE Environment /\ UNCHANGED run
  <2>1. ASSUME NEW n \in Names, DeliverModule(n) PROVE Copies'
    <3>1. modCache' = [x \in Names |-> IF x \in {n} THEN mods[x] ELSE modCache[x]]
      BY <2>1 DEF DeliverModule, Typed, ClusterTypeOK
    <3> QED BY <1>16, <2>1, <3>1, CopiesRefreshed DEF DeliverModule
  <2>2. ASSUME NEW n \in Names, NEW s \in Specs, EditModule(n, s) PROVE Copies'
    <3> DEFINE m == [mods[n] EXCEPT !.spec = s, !.gen = @ + 1]
    <3>1. mods[n] # None /\ mods[n] \in ModuleRecords
      BY <2>2 DEF EditModule, Typed, ClusterTypeOK
    <3>2. m \in ModuleRecords
      BY <3>1, SpecsAssumption, ModuleUpdates
    <3>3. m.inc = mods[n].inc /\ m.finalizer = mods[n].finalizer /\ m.deleting = mods[n].deleting
      BY <3>1 DEF ModuleRecords
    <3> HIDE DEF m
    <3>4. StoreModule(n, m, queue) /\ UNCHANGED born /\ queue \in SUBSET Names
      BY <2>2 DEF EditModule, m, Typed, ClusterTypeOK
    <3> QED BY <1>16, <3>1, <3>2, <3>3, <3>4, ModuleStored, CopiesOfUpdate
  <2>3. ASSUME UNCHANGED <<mods, born, modCache>> PROVE Copies'
    BY <1>16, <2>3, CopiesOfRun
  <2>4. ASSUME NEW n \in Names, NEW s \in Specs, CreateModule(n, s) PROVE Copies'
    BY <1>16, <2>4, CopiesCreated
  <2>5. ASSUME NEW n \in Names, DeleteModule(n) PROVE Copies'
    BY <1>16, <2>5, CopiesDeleted
  <2>6. ASSUME NEW t \in Templates,
               DeliverTemplate(t) \/ DeleteTemplate(t) \/ \E s \in TemplateSpecs : PutTemplate(t, s)
        PROVE  Copies'
    BY <2>3, <2>6 DEF DeliverTemplate, DeleteTemplate, PutTemplate
  <2>7. ASSUME NEW o \in Releases, DeliverRelease(o) \/ FluxReports(o) \/ FluxUninstalls(o)
                                    \/ CollectGarbage(o) \/ Drift(o) \/ Plant(o)
        PROVE  Copies'
    BY <2>3, <2>7 DEF DeliverRelease, FluxReports, FluxUninstalls, CollectGarbage, Drift, Plant
  <2> QED BY <1>16, <2>1, <2>2, <2>4, <2>5, <2>6, <2>7 DEF Environment
<1>17. CASE UNCHANGED vars
  BY <1>17, CopiesOfRun DEF vars
<1> QED BY <1>2, <1>3, <1>4, <1>5, <1>6, <1>7, <1>10, <1>11, <1>12, <1>13, <1>14, <1>15, <1>16, <1>17
        DEF Next, Work

-----------------------------------------------------------------------------
(* What a step can do to Modules and to the ownership of Flux objects. *)

Same(m, x) == m.inc = x.inc /\ m.finalizer = x.finalizer /\ m.deleting = x.deleting

(* Module n becomes m. *)
ModuleStep(n, m) ==
  /\ mods' = [mods EXCEPT ![n] = m] /\ UNCHANGED rel
  /\ \/ /\ mods[n] = None /\ born' = [born EXCEPT ![n] = @ + 1] /\ m \in ModuleRecords
        /\ m.inc = born[n] + 1 /\ ~m.finalizer /\ ~m.deleting
     \/ /\ mods[n] # None /\ born' = born /\ m \in ModuleRecords /\ m.inc = mods[n].inc
        /\ \/ m.finalizer = mods[n].finalizer /\ m.deleting = mods[n].deleting
           \/ m.finalizer /\ m.deleting = mods[n].deleting
           \/ mods[n].finalizer /\ ~mods[n].deleting /\ m.finalizer /\ m.deleting
     \/ /\ mods[n] # None /\ born' = born /\ m = None
        /\ ~mods[n].finalizer \/ mods[n].deleting

(* The Flux object o becomes x: it is given up, stays with its owner, or comes
   to the Module that a reconcile is working for. *)
ReleaseStep(o, x) ==
  /\ rel' = [rel EXCEPT ![o] = x] /\ UNCHANGED <<mods, born>>
  /\ \/ x = None \/ (x \in ReleaseRecords /\ x.owner \in {NoOwner, Stranger})
     \/ x \in ReleaseRecords /\ rel[o] # None /\ x.owner = rel[o].owner
     \/ /\ x \in ReleaseRecords /\ x.owner = <<o[3], born[o[3]]>>
        /\ mods[o[3]] # None /\ mods[o[3]].finalizer

Shape ==
  \/ UNCHANGED <<mods, born, rel>>
  \/ \E n \in Names, m \in ModuleRecords \cup {None} : ModuleStep(n, m)
  \/ \E o \in Releases, x \in ReleaseRecords \cup {None} : ReleaseStep(o, x)

LEMMA EnvironmentShape ==
  ASSUME Typed, Environment
  PROVE  Shape
<1> USE DEF modVars, tplVars, relVars
<1>1. ASSUME NEW n \in Names, DeliverModule(n) PROVE Shape
  BY <1>1 DEF DeliverModule, Shape
<1>2. ASSUME NEW n \in Names, DeleteModule(n) PROVE Shape
  <2> DEFINE m == IF mods[n].finalizer
                  THEN [mods[n] EXCEPT !.deleting = TRUE, !.gen = @ + 1] ELSE None
  <2>1. mods[n] \in ModuleRecords /\ queue \in SUBSET Names /\ mods[n] # None
    BY <1>2 DEF DeleteModule, Typed, ClusterTypeOK
  <2>2. m \in ModuleRecords \cup {None}
    BY <2>1, ModuleUpdates
  <2>3. mods[n].finalizer => m \in ModuleRecords /\ m.inc = mods[n].inc /\ m.finalizer /\ m.deleting
    BY <2>1, ModuleUpdates DEF ModuleRecords
  <2>4. ~mods[n].finalizer => m = None
    OBVIOUS
  <2> HIDE DEF m
  <2>5. StoreModule(n, m, queue) /\ ~mods[n].deleting /\ UNCHANGED <<born, rel>>
    BY <1>2 DEF DeleteModule, m
  <2>6. mods' = [mods EXCEPT ![n] = m]
    BY <2>1, <2>2, <2>5, ModuleStored
  <2>7. ModuleStep(n, m)
    BY <2>1, <2>3, <2>4, <2>5, <2>6 DEF ModuleStep
  <2> QED BY <2>2, <2>7 DEF Shape
<1>3. ASSUME NEW n \in Names, NEW s \in Specs, CreateModule(n, s) PROVE Shape
  <2> DEFINE m == [inc |-> born[n] + 1, gen |-> 1, spec |-> s, status |-> NoStatus,
                   finalizer |-> FALSE, deleting |-> FALSE]
  <2>1. born[n] + 1 \in Nat /\ s \in SpecRecords /\ queue \in SUBSET Names
    BY SpecsAssumption DEF Typed, ClusterTypeOK
  <2>2. m \in ModuleRecords /\ m.inc = born[n] + 1 /\ ~m.finalizer /\ ~m.deleting
    BY <2>1, StatusValues DEF ModuleRecords
  <2> HIDE DEF m
  <2>3. StoreModule(n, m, queue) /\ mods[n] = None /\ UNCHANGED rel /\ born' = [born EXCEPT ![n] = @ + 1]
    BY <1>3 DEF CreateModule, m
  <2>4. ModuleStep(n, m)
    BY <2>1, <2>2, <2>3, ModuleStored DEF ModuleStep
  <2> QED BY <2>2, <2>4 DEF Shape
<1>4. ASSUME NEW n \in Names, NEW s \in Specs, EditModule(n, s) PROVE Shape
  <2> DEFINE m == [mods[n] EXCEPT !.spec = s, !.gen = @ + 1]
  <2>1. mods[n] \in ModuleRecords /\ mods[n] # None /\ s \in SpecRecords /\ queue \in SUBSET Names
    BY <1>4, SpecsAssumption DEF EditModule, Typed, ClusterTypeOK
  <2>2. m \in ModuleRecords /\ Same(m, mods[n])
    BY <2>1, ModuleUpdates DEF ModuleRecords, Same
  <2> HIDE DEF m
  <2>3. StoreModule(n, m, queue) /\ UNCHANGED <<born, rel>>
    BY <1>4 DEF EditModule, m
  <2>4. ModuleStep(n, m)
    BY <2>1, <2>2, <2>3, ModuleStored DEF ModuleStep, Same
  <2> QED BY <2>2, <2>4 DEF Shape
<1>5. ASSUME NEW t \in Templates,
             DeliverTemplate(t) \/ DeleteTemplate(t) \/ \E s \in TemplateSpecs : PutTemplate(t, s)
      PROVE  Shape
  BY <1>5 DEF DeliverTemplate, DeleteTemplate, PutTemplate, Shape
<1>6. ASSUME NEW o \in Releases, DeliverRelease(o) PROVE Shape
  BY <1>6 DEF DeliverRelease, Shape
<1>7. ASSUME NEW o \in Releases, NEW x \in ReleaseRecords \cup {None}, StoreRelease(o, x, queue),
             UNCHANGED modVars,
             \/ x = None \/ x.owner \in {NoOwner, Stranger}
             \/ rel[o] # None /\ x.owner = rel[o].owner
      PROVE  Shape
  <2>1. rel' = [rel EXCEPT ![o] = x]
    BY <1>7, ReleaseStored DEF Typed, ClusterTypeOK
  <2>2. ReleaseStep(o, x)
    BY <1>7, <2>1 DEF ReleaseStep
  <2> QED BY <2>2 DEF Shape
<1>8. ASSUME NEW o \in Releases, FluxReports(o) PROVE Shape
  <2>1. rel[o] \in ReleaseRecords
    BY <1>8 DEF FluxReports, Typed, ClusterTypeOK
  <2>2. \A c \in Conditions : [rel[o] EXCEPT !.ready = c].owner = rel[o].owner
    BY <2>1 DEF ReleaseRecords
  <2> QED BY <1>7, <1>8, <2>1, <2>2, ReleaseUpdates DEF FluxReports
<1>9. ASSUME NEW o \in Releases, FluxUninstalls(o) PROVE Shape
  BY <1>7, <1>9 DEF FluxUninstalls
<1>10. ASSUME NEW o \in Releases, CollectGarbage(o) PROVE Shape
  <2>1. rel[o] \in ReleaseRecords
    BY <1>10 DEF CollectGarbage, Typed, ClusterTypeOK
  <2>2. [rel[o] EXCEPT !.deleting = TRUE].owner = rel[o].owner
    BY <2>1 DEF ReleaseRecords
  <2> QED BY <1>7, <1>10, <2>1, <2>2, ReleaseUpdates DEF CollectGarbage
<1>11. ASSUME NEW o \in Releases, Drift(o) PROVE Shape
  <2>1. rel[o] \in ReleaseRecords
    BY <1>11 DEF Drift, Typed, ClusterTypeOK
  <2>2. ASSUME NEW c \in Charts
        PROVE  /\ [rel[o] EXCEPT !.content = <<c, None>>] \in ReleaseRecords
               /\ [rel[o] EXCEPT !.content = <<c, None>>].owner = rel[o].owner
    <3>1. [rel[o] EXCEPT !.content = <<c, None>>] \in ReleaseRecords
      BY <2>1, ReleaseUpdates
    <3> QED BY <2>1, <3>1 DEF ReleaseRecords
  <2>3. /\ [rel[o] EXCEPT !.deleting = TRUE].owner = rel[o].owner
        /\ [rel[o] EXCEPT !.labelled = FALSE].owner = rel[o].owner
        /\ [rel[o] EXCEPT !.owner = NoOwner].owner = NoOwner
    BY <2>1 DEF ReleaseRecords
  <2>4. PICK x \in { [rel[o] EXCEPT !.deleting = TRUE], [rel[o] EXCEPT !.labelled = FALSE],
                     [rel[o] EXCEPT !.owner = NoOwner] }
                   \cup {[rel[o] EXCEPT !.content = <<c, None>>] : c \in Charts} :
          StoreRelease(o, x, queue)
    BY <1>11 DEF Drift
  <2>5. x \in ReleaseRecords /\ (x.owner = NoOwner \/ x.owner = rel[o].owner)
    BY <2>1, <2>2, <2>3, <2>4, ReleaseUpdates
  <2> QED BY <1>7, <1>11, <2>4, <2>5 DEF Drift
<1>12. ASSUME NEW o \in Releases, Plant(o) PROVE Shape
  <2> DEFINE x(owner) == [ owner |-> owner, content |-> <<CHOOSE c \in Charts : TRUE, None>>,
                           labelled |-> FALSE, ready |-> "Pending", deleting |-> FALSE ]
  <2>1. (CHOOSE c \in Charts : TRUE) \in Charts
    BY ChartsAssumption
  <2>2. \A owner \in {NoOwner, Stranger} : x(owner) \in ReleaseRecords /\ x(owner).owner = owner
    BY <2>1 DEF ReleaseRecords, Conditions
  <2> HIDE DEF x
  <2>3. PICK owner \in {NoOwner, Stranger} : StoreRelease(o, x(owner), queue)
    BY <1>12 DEF Plant, x
  <2> QED BY <1>7, <1>12, <2>2, <2>3 DEF Plant
<1> QED BY <1>1, <1>2, <1>3, <1>4, <1>5, <1>6, <1>8, <1>9, <1>10, <1>11, <1>12 DEF Environment

LEMMA WorkShape ==
  ASSUME Typed, RunWellFormed, Copies, Next, ~(Environment /\ UNCHANGED run)
  PROVE  Shape
<1> USE DEF modVars, tplVars, relVars
<1>1. run # None => run \in Runs /\ run.name \in Names
  BY RunTypes DEF Typed
<1>2. run # None => EventQueue \subseteq Names /\ Requeued \subseteq Names /\ Again \subseteq Names
                    /\ queue \subseteq Names
  BY <1>1 DEF EventQueue, Requeued, Again, Typed, ClusterTypeOK
<1>3. CASE \/ \E n \in Names : FetchNothing(n) \/ Fetch(n)
           \/ ReadTemplate \/ SyncNothing \/ SyncRejected \/ StatusUnchanged \/ ResolveNamespace
           \/ ReportLost \/ Restart
  BY <1>3 DEF FetchNothing, Fetch, ReadTemplate, SyncNothing, SyncRejected, StatusUnchanged,
              ResolveNamespace, ReportLost, Restart, Shape
<1> DEFINE Offered(m) ==
             \/ At("guard") /\ m = Guarded(run.name)
             \/ At("cleanup") /\ m = Released(run.name)
             \/ \E s \in StatusRecords : m = Patched(s)
<1> HIDE DEF Offered
<1>offers. /\ At("guard") => Offered(Guarded(run.name))
           /\ At("cleanup") => Offered(Released(run.name))
           /\ \A s \in StatusRecords : Offered(Patched(s))
  <2>1. ASSUME NEW s \in StatusRecords PROVE Offered(Patched(s))
    <3>1. \E x \in StatusRecords : Patched(s) = Patched(x)
      BY Zenon
    <3> QED BY <3>1 DEF Offered
  <2>2. ASSUME At("guard") PROVE Offered(Guarded(run.name))
    BY <2>2 DEF Offered
  <2>3. ASSUME At("cleanup") PROVE Offered(Released(run.name))
    BY <2>3 DEF Offered
  <2> QED BY <2>1, <2>2, <2>3
<1>4. ASSUME run # None, mods[run.name] # None, NEW m \in ModuleRecords \cup {None}, NEW q \in SUBSET Names,
             StoreModule(run.name, m, q), UNCHANGED <<born, rel>>,
             m = mods[run.name] \/ Offered(m)
      PROVE  Shape
  <2>1. mods[run.name] \in ModuleRecords /\ mods' = [mods EXCEPT ![run.name] = m]
        /\ mods[run.name].finalizer \in BOOLEAN
    BY <1>1, <1>4, ModuleStored, ModuleUpdates DEF Typed, ClusterTypeOK
  <2>2. \/ m \in ModuleRecords /\ Same(m, mods[run.name])
        \/ m \in ModuleRecords /\ m.inc = mods[run.name].inc /\ m.finalizer
           /\ m.deleting = mods[run.name].deleting
        \/ m = None /\ mods[run.name].deleting
    <3>1. CASE m = mods[run.name]
      BY <2>1, <3>1 DEF Same
    <3>2. CASE m = Guarded(run.name)
      BY <2>1, <3>2, ModuleUpdates DEF Guarded, ModuleRecords
    <3>3. ASSUME NEW s \in StatusRecords, m = Patched(s) PROVE m \in ModuleRecords /\ Same(m, mods[run.name])
      <4>1. m \in ModuleRecords
        BY <1>4, <3>3, PatchValues
      <4> QED BY <2>1, <3>3, <4>1 DEF Patched, ModuleRecords, Same
    <3>4. CASE At("cleanup") /\ m = Released(run.name)
      <4>1. run.m \in ModuleRecords /\ run.m # None
        BY <1>4, RunTypes, NoneApart DEF Typed
      <4>2. ~mods[run.name].deleting => ~mods[run.name].finalizer
        BY <1>4, <3>4, <4>1 DEF Copies, RetiringInv, Retiring, At, CopyHonest
      <4>3. Released(run.name) = IF mods[run.name].deleting THEN None ELSE mods[run.name]
        BY <2>1, <4>2 DEF Released, ModuleRecords
      <4> QED BY <2>1, <3>4, <4>3 DEF Same
    <3> QED BY <1>4, <3>1, <3>2, <3>3, <3>4 DEF Offered
  <2>3. ModuleStep(run.name, m)
    BY <1>1, <1>4, <2>1, <2>2 DEF ModuleStep, Same
  <2> QED BY <1>1, <1>4, <2>3 DEF Shape
<1>5. ASSUME run # None, NEW m, PatchFails(run.name, m),
             mods[run.name] # None => m \in ModuleRecords \cup {None},
             Offered(m)
      PROVE  Shape
  <2>1. mods[run.name] = None => UNCHANGED <<mods, born, rel>>
    BY <1>5 DEF PatchFails
  <2>2. ASSUME mods[run.name] # None PROVE Shape
    <3>1. PICK x \in {mods[run.name], m} : StoreModule(run.name, x, Again)
      BY <1>5, <2>2 DEF PatchFails
    <3>2. x \in ModuleRecords \cup {None}
      BY <1>1, <1>5, <2>2, <3>1 DEF Typed, ClusterTypeOK
    <3>3. UNCHANGED <<born, rel>> /\ Again \in SUBSET Names
      BY <1>2, <1>5, <2>2 DEF PatchFails
    <3>4. CASE x = mods[run.name]
      BY <1>4, <1>5, <2>2, <3>1, <3>2, <3>3, <3>4
    <3>5. CASE x = m
      BY <1>4, <1>5, <2>2, <3>1, <3>2, <3>3, <3>5
    <3> QED BY <3>4, <3>5
  <2> QED BY <2>1, <2>2 DEF Shape
<1>6. CASE AddFinalizer \/ RemoveFinalizer
  <2>1. CASE AddFinalizer
    <3>1. Guarded(run.name) \in ModuleRecords \cup {None} /\ queue \in SUBSET Names
      BY <1>2, <2>1, PatchValues DEF AddFinalizer, At
    <3> QED BY <1>offers, <1>4, <2>1, <3>1 DEF AddFinalizer, At
  <2>2. CASE RemoveFinalizer
    <3>1. Released(run.name) \in ModuleRecords \cup {None} /\ queue \in SUBSET Names
      BY <1>2, <2>2, PatchValues DEF RemoveFinalizer, At
    <3> QED BY <1>offers, <1>4, <2>2, <3>1 DEF RemoveFinalizer, At
  <2> QED BY <1>6, <2>1, <2>2
<1>7. CASE AddFinalizerFails \/ RemoveFinalizerFails
  BY <1>offers, <1>5, <1>7, PatchValues DEF AddFinalizerFails, RemoveFinalizerFails, At
<1>8. CASE StatusPatch \/ StatusFails
  <2>1. run # None /\ NewStatus \in StatusRecords
    BY <1>8, TargetTypes DEF StatusPatch, StatusFails, At, RunWellFormed, WellFormed
  <2> QED BY <1>offers, <1>2, <1>4, <1>5, <1>8, <2>1, PatchValues DEF StatusPatch, StatusFails
<1>9. CASE ReportError
  <2>1. run # None /\ NotReady(run.m, run.error) \in StatusRecords
    BY <1>1, <1>9, RunTypes, StatusValues DEF ReportError, At
  <2>2. CASE mods[run.name] = None
    BY <1>9, <2>2 DEF ReportError, Shape
  <2>3. CASE mods[run.name] # None
    BY <1>offers, <1>2, <1>4, <1>9, <2>1, <2>3, PatchValues DEF ReportError
  <2> QED BY <2>2, <2>3
<1>10. ASSUME NEW o \in Releases, NEW x \in ReleaseRecords \cup {None}, NEW q \in SUBSET Names,
              StoreRelease(o, x, q), UNCHANGED modVars,
              \/ x = None \/ x = rel[o]
              \/ rel[o] # None /\ x.owner = rel[o].owner
              \/ x.owner = <<o[3], born[o[3]]>> /\ mods[o[3]] # None /\ mods[o[3]].finalizer
       PROVE  Shape
  <2>1. rel' = [rel EXCEPT ![o] = x]
    BY <1>10, ReleaseStored
  <2>2. ReleaseStep(o, x)
    BY <1>10, <2>1 DEF ReleaseStep
  <2> QED BY <2>2 DEF Shape
<1>11. CASE SyncWrite \/ SyncFault
  <2>1. run # None /\ run.t # None /\ run.phase \in Working
    BY <1>11 DEF SyncWrite, SyncFault, At, RunWellFormed, WellFormed, Working
  <2>2. /\ Target \in Releases /\ Target[3] = run.name /\ There \in ReleaseRecords \cup {None}
        /\ Sent \in ReleaseRecords /\ Sent.owner = RunUid
    BY <2>1, TargetTypes
  <2>3. /\ mods[run.name] # None /\ mods[run.name].finalizer /\ RunUid = <<run.name, born[run.name]>>
    BY <1>1, <2>1 DEF Copies, WorkingInv, Incarnations, RunUid
  <2>4. PICK x \in {There, Sent} : StoreRelease(Target, x, queue)
    BY <1>11 DEF SyncWrite, SyncFault
  <2>5. CASE x = Sent
    BY <1>2, <1>10, <1>11, <2>1, <2>2, <2>3, <2>4, <2>5 DEF SyncWrite, SyncFault
  <2>6. CASE x = There
    BY <1>2, <1>10, <1>11, <2>1, <2>2, <2>4, <2>6 DEF SyncWrite, SyncFault, There
  <2> QED BY <2>4, <2>5, <2>6
<1>12. CASE DeleteFlux \/ DeleteFluxFails
  <2>1. /\ run # None /\ Doomed \in Releases /\ Marked \in ReleaseRecords \cup {None}
        /\ rel[Doomed] \in ReleaseRecords \cup {None}
    BY <1>12, DoomedTypes DEF DeleteFlux, DeleteFluxFails, At
  <2>2. Marked = None \/ (rel[Doomed] # None /\ Marked.owner = rel[Doomed].owner)
    BY <2>1 DEF Marked, ReleaseRecords
  <2>3. PICK x \in {rel[Doomed], Marked} :
          StoreRelease(Doomed, x, queue) \/ StoreRelease(Doomed, x, Again)
    BY <1>12 DEF DeleteFlux, DeleteFluxFails
  <2> QED BY <1>2, <1>10, <1>12, <2>1, <2>2, <2>3 DEF DeleteFlux, DeleteFluxFails
<1> QED BY <1>3, <1>6, <1>7, <1>8, <1>9, <1>11, <1>12 DEF Next, Work

LEMMA OwnersKept ==
  ASSUME Typed, Incarnations, Owners, Shape
  PROVE  Owners'
<1>1. /\ mods \in [Names -> ModuleRecords \cup {None}] /\ rel \in [Releases -> ReleaseRecords \cup {None}]
      /\ born \in [Names -> Nat]
  BY DEF Typed, ClusterTypeOK
<1>2. \A o \in Releases : o[3] \in Names
  BY DEF Releases
<1>3. CASE UNCHANGED <<mods, born, rel>>
  BY <1>3 DEF Owners, OwnersKnown, FinalizerGuards, Live
<1>4. ASSUME NEW n \in Names, NEW m \in ModuleRecords \cup {None}, ModuleStep(n, m) PROVE Owners'
  <2>1. \A x \in Names : born'[x] \in Nat /\ born[x] <= born'[x]
    BY <1>1, <1>4 DEF ModuleStep
  <2>2. ASSUME NEW o \in Releases, rel[o] # None, Owned(rel[o])
        PROVE  rel[o].owner[1] = o[3] /\ rel[o].owner[2] <= born'[o[3]] /\ rel[o].owner[2] \in Nat
    <3>1. rel[o].owner \in Uids /\ rel[o].owner[1] = o[3] /\ rel[o].owner[2] <= born[o[3]]
      BY <1>1, <2>2 DEF ReleaseRecords, Owned, Owners, OwnersKnown
    <3>2. rel[o].owner[2] \in Nat
      BY <3>1 DEF Uids
    <3> QED BY <1>1, <1>2, <2>1, <3>1, <3>2
  <2>3. OwnersKnown'
    BY <1>4, <2>2 DEF OwnersKnown, ModuleStep, Owned
  <2>4. FinalizerGuards'
    <3> SUFFICES ASSUME NEW o \in Releases, rel[o] # None, Owned(rel[o]), mods'[o[3]] # None,
                        mods'[o[3]].inc = rel[o].owner[2]
                 PROVE  mods'[o[3]].finalizer
      BY <1>4, <2>2 DEF FinalizerGuards, Live, Owned, ModuleStep
    <3>1. CASE o[3] # n
      BY <1>1, <1>2, <1>4, <2>2, <3>1 DEF Owners, FinalizerGuards, Live, ModuleStep
    <3>2. CASE o[3] = n
      <4>1. mods'[n] = m /\ rel[o].owner[1] = n /\ rel[o].owner[2] <= born[n] /\ rel[o].owner[2] \in Nat
        BY <1>1, <1>4, <2>2, <3>2 DEF ModuleStep, Owners, OwnersKnown
      <4>2. mods[n] # None
        BY <1>1, <1>4, <3>2, <4>1 DEF ModuleStep
      <4>3. mods[n].finalizer
        BY <1>2, <1>4, <3>2, <4>1, <4>2, NoneApart DEF Owners, FinalizerGuards, Live, ModuleStep
      <4> QED BY <1>4, <3>2, <4>1, <4>2, <4>3 DEF ModuleStep
    <3> QED BY <3>1, <3>2
  <2> QED BY <2>3, <2>4 DEF Owners
<1>5. ASSUME NEW o \in Releases, NEW x \in ReleaseRecords \cup {None}, ReleaseStep(o, x) PROVE Owners'
  <2>1. rel'[o] = x /\ (\A p \in Releases : p # o => rel'[p] = rel[p]) /\ UNCHANGED <<mods, born>>
    BY <1>1, <1>5 DEF ReleaseStep
  <2>2. x # None /\ Owned(x) => x.owner[1] = o[3] /\ x.owner[2] <= born[o[3]]
    BY <1>1, <1>2, <1>5 DEF ReleaseStep, Owned, Owners, OwnersKnown
  <2>3. x # None /\ Owned(x) /\ Live(x.owner) => mods[o[3]].finalizer
    BY <1>1, <1>2, <1>5 DEF ReleaseStep, Owned, Owners, FinalizerGuards
  <2>4. OwnersKnown'
    BY <2>1, <2>2 DEF Owners, OwnersKnown, Owned
  <2>5. FinalizerGuards'
    BY <2>1, <2>3 DEF Owners, FinalizerGuards, Owned, Live
  <2> QED BY <2>4, <2>5 DEF Owners
<1> QED BY <1>3, <1>4, <1>5 DEF Shape
-----------------------------------------------------------------------------
(* The theorems. *)

LEMMA InvHolds == Spec => []Inv
<1>1. Init => Inv
  <2> SUFFICES ASSUME Init PROVE Inv
    OBVIOUS
  <2> USE DEF Init
  <2>1. Typed /\ RunWellFormed
    BY BudgetAssumption DEF Typed, ClusterTypeOK, RunWellFormed
  <2>2. Copies
    BY DEF Copies, Incarnations, CacheHonest, CopyHonest, GuardingInv, WorkingInv, RetiringInv, At
  <2>3. Owners
    BY DEF Owners, OwnersKnown, FinalizerGuards
  <2> QED BY <2>1, <2>2, <2>3 DEF Inv
<1>2. Inv /\ [Next]_vars => Inv'
  <2> SUFFICES ASSUME Inv, [Next]_vars PROVE Inv'
    OBVIOUS
  <2>1. Typed' /\ RunWellFormed' /\ Copies'
    BY TypesKept, CopiesKept DEF Inv
  <2>2. Shape
    BY WorkShape, EnvironmentShape DEF Inv, vars, Shape
  <2> QED BY <2>1, <2>2, OwnersKept DEF Inv, Copies
<1> QED BY <1>1, <1>2, PTL DEF Spec

(* A reconcile keeps what its phase needs: only the answer to the finalizer
   patch, a template that was found, and a Module being deleted lead on. *)
LEMMA RunFitsKept ==
  ASSUME Inv, RunFits, [Next]_vars
  PROVE  RunFits'
<1>1. run # None => run \in Runs /\ WellFormed(run)
  BY DEF Inv, Typed, RunWellFormed
<1>2. RunWellFormed'
  BY TypesKept DEF Inv
<1>3. ASSUME NEW n \in Names, Fetch(n) PROVE RunFits'
  <2>1. /\ run'.m = modCache[n] /\ run'.phase = FirstPhase(modCache[n])
        /\ ToReconcile(modCache[n])
    BY <1>3 DEF Fetch
  <2> QED BY <2>1 DEF RunFits, ToReconcile, FirstPhase
<1>4. CASE AddFinalizer
  <2>1. /\ run'.phase = "template" /\ run'.m = Guarded(run.name)
        /\ run.name \in Names /\ mods[run.name] \in ModuleRecords
    BY <1>1, <1>4, RunTypes DEF AddFinalizer, At, Runs, Inv, Typed, ClusterTypeOK
  <2>2. Guarded(run.name).finalizer
    BY <2>1 DEF Guarded, ModuleRecords
  <2> QED BY <2>1, <2>2 DEF RunFits
<1>5. CASE ReadTemplate
  <2>1. run'.m = run.m /\ run.m.finalizer
    BY <1>1, <1>5 DEF ReadTemplate, Fail, At, RunFits, Runs
  <2>2. \/ run'.phase = "failed" /\ run'.error = "TemplateNotFound"
        \/ run'.phase = "sync"
    BY <1>1, <1>5 DEF ReadTemplate, Fail, At, Runs
  <2> QED BY <1>2, <2>1, <2>2 DEF RunFits, RunWellFormed, WellFormed
<1>6. CASE SyncWrite \/ SyncNothing \/ SyncRejected \/ SyncFault
  <2>1. run # None /\ run'.m = run.m /\ run.m.finalizer
    BY <1>1, <1>6 DEF SyncWrite, SyncNothing, SyncRejected, SyncFault, Fail, GoTo, At, RunFits, Runs
  <2>2. \/ run'.phase = "failed" /\ run'.error = "ReconcileError"
        \/ run'.phase = "status"
    BY <1>1, <1>6 DEF SyncWrite, SyncNothing, SyncRejected, SyncFault, Fail, GoTo, At, Runs
  <2> QED BY <1>2, <2>1, <2>2 DEF RunFits, RunWellFormed, WellFormed
<1>7. CASE ResolveNamespace \/ DeleteFlux
  <2>1. /\ run # None /\ run'.m = run.m /\ run'.phase = "cleanup"
        /\ run.m.finalizer /\ run.m.deleting
    BY <1>1, <1>7 DEF ResolveNamespace, DeleteFlux, At, RunFits, Runs
  <2> QED BY <2>1 DEF RunFits
<1>8. ASSUME run' = run \/ run' = None PROVE RunFits'
  BY <1>8 DEF RunFits
<1>9. \/ run' = run \/ run' = None \/ \E n \in Names : Fetch(n)
      \/ AddFinalizer \/ ReadTemplate \/ SyncWrite \/ SyncNothing \/ SyncRejected \/ SyncFault
      \/ ResolveNamespace \/ DeleteFlux
  BY DEF Next, Work, vars, FetchNothing, AddFinalizerFails, PatchFails, StatusUnchanged, StatusPatch,
         StatusFails, ReportError, ReportLost, DeleteFluxFails, RemoveFinalizer, RemoveFinalizerFails, Restart
<1> QED BY <1>3, <1>4, <1>5, <1>6, <1>7, <1>8, <1>9

(* Every variable of the Module controller keeps its type, and every reconcile
   has what its phase needs: past ensureFinalizer the Module at hand carries the
   finalizer, whatever the cache showed and whichever patch failed. *)
THEOREM ModuleTypeCorrect == Spec => []TypeOK
<1>1. Init => RunFits
  BY DEF Init, RunFits
<1>2. Inv /\ RunFits /\ [Next]_vars => RunFits'
  BY RunFitsKept
<1>3. Inv /\ RunFits => TypeOK
  BY DEF Inv, TypeOK
<1> QED BY <1>1, <1>2, <1>3, InvHolds, PTL DEF Spec

(* A living Module that owns a Flux object is guarded by the finalizer,
   although the controller patches by name and its cache may still show a
   predecessor that was deleted (ensureFinalizer, reconcileDelete). *)
THEOREM FinalizerGuarded == Spec => []FinalizerGuards
<1>1. Inv => FinalizerGuards
  BY DEF Inv, Owners
<1> QED BY <1>1, InvHolds, PTL

(* No sync touches a Flux object that somebody else controls, however stale
   the cache is (SetControllerReference and the resource version). *)
THEOREM StrangersSafe == Spec => StrangersKept
<1>1. ASSUME Inv, [Next]_vars, At("sync"), run' # run
      PROVE  \A o \in Releases : rel[o] # None /\ rel[o].owner = Stranger => rel'[o] = rel[o]
  <2>1. run # None /\ run \in Runs /\ run.phase = "sync" /\ run.t # None
    BY <1>1 DEF Inv, Typed, At, RunWellFormed, WellFormed
  <2>2. SyncWrite \/ SyncFault \/ UNCHANGED rel
    BY <1>1, <2>1 DEF Next, Work, vars, relVars, At, FetchNothing, Fetch, AddFinalizer, AddFinalizerFails,
       ReadTemplate, SyncNothing, SyncRejected, StatusUnchanged, StatusPatch, StatusFails,
       ReportError, ResolveNamespace, DeleteFlux, RemoveFinalizer, RemoveFinalizerFails,
       DeleteFluxFails, ReportLost, Restart
  <2>3. ASSUME SyncWrite \/ SyncFault
        PROVE  /\ There # None => There.owner # Stranger
               /\ \E x \in ReleaseRecords \cup {None} : rel' = [rel EXCEPT ![Target] = x]
    <3>1. There = Seen /\ ~Refused
      BY <2>3 DEF SyncWrite, SyncFault
    <3>2. PICK x \in {There, Sent} : StoreRelease(Target, x, queue)
      BY <2>3 DEF SyncWrite, SyncFault
    <3>3. x \in ReleaseRecords \cup {None} /\ Target \in Releases /\ queue \in SUBSET Names
      BY <1>1, <2>1, TargetTypes DEF Inv, Typed, ClusterTypeOK
    <3>4. rel' = [rel EXCEPT ![Target] = x]
      BY <1>1, <3>2, <3>3, ReleaseStored DEF Inv
    <3>5. Seen # None => Seen.owner # Stranger
      BY <3>1, NoneAssumption DEF Refused, MayTake
    <3> QED BY <3>1, <3>3, <3>4, <3>5
  <2> QED BY <1>1, <2>2, <2>3 DEF There, Inv, Typed, ClusterTypeOK
<1>2. Inv /\ [Next]_vars =>
        [At("sync") /\ run' # run => \A o \in Releases :
           rel[o] # None /\ rel[o].owner = Stranger => rel'[o] = rel[o]]_vars
  BY <1>1
<1> QED BY <1>2, InvHolds, PTL DEF Spec, StrangersKept

LEMMA LifeStarts == Init => Life!Init
<1> SUFFICES ASSUME Init PROVE Life!Init
  OBVIOUS
<1>1. \A n \in Names : Stage(n) = "absent" /\ OwnedBy(n) = {}
  BY DEF Init, Stage, OwnedBy
<1> QED BY <1>1 DEF Life!Init

LEMMA LifeSteps ==
  ASSUME Inv, Shape
  PROVE  [Life!Next]_(Life!vars)
<1> DEFINE stage == [n \in Names |-> Stage(n)]
           deployed == [n \in Names |-> OwnedBy(n)]
<1>1. /\ mods \in [Names -> ModuleRecords \cup {None}] /\ rel \in [Releases -> ReleaseRecords \cup {None}]
      /\ born \in [Names -> Nat] /\ Incarnations /\ OwnersKnown /\ FinalizerGuards
      /\ \A o \in Releases : o[3] \in Names
  BY DEF Inv, Typed, ClusterTypeOK, Copies, Owners, Releases
(* Only Module o[3] can own the Flux object o. *)
<1>2. ASSUME NEW n \in Names, NEW o \in OwnedBy(n)
      PROVE  o[3] = n /\ o \in Releases /\ rel[o] # None /\ mods[n] # None /\ mods[n].finalizer
             /\ rel[o].owner = <<n, mods[n].inc>>
  <2>1. mods[n] # None /\ o \in Releases /\ rel[o] # None /\ rel[o].owner = <<n, mods[n].inc>>
    BY <1>2 DEF OwnedBy, UidOf
  <2>2. Owned(rel[o])
    BY <1>1, <2>1, ModuleTyped, NoneApart DEF Owned, Uids, Inv
  <2>3. o[3] = n
    BY <1>1, <2>1, <2>2 DEF OwnersKnown
  <2> QED BY <1>1, <2>1, <2>2, <2>3 DEF FinalizerGuards, Live
<1>3. CASE UNCHANGED <<mods, born, rel>>
  <2>1. \A n \in Names : Stage(n)' = Stage(n) /\ OwnedBy(n)' = OwnedBy(n)
    BY <1>3 DEF Stage, OwnedBy, UidOf
  <2> QED BY <2>1 DEF Life!vars
<1>4. ASSUME NEW n \in Names, NEW m \in ModuleRecords \cup {None}, ModuleStep(n, m)
      PROVE  [Life!Next]_(Life!vars)
  <2>1. mods'[n] = m /\ (\A x \in Names : x # n => mods'[x] = mods[x]) /\ rel' = rel
    BY <1>1, <1>4 DEF ModuleStep
  <2>2. \A x \in Names : x # n => Stage(x)' = Stage(x) /\ OwnedBy(x)' = OwnedBy(x)
    BY <2>1 DEF Stage, OwnedBy, UidOf
  <2>3. stage' = [stage EXCEPT ![n] = Stage(n)'] /\ deployed' = [deployed EXCEPT ![n] = OwnedBy(n)']
    BY <2>2
  <2>4. CASE mods[n] = None
    <3>1. m # None /\ m.inc = born[n] + 1 /\ ~m.finalizer /\ ~m.deleting
      BY <1>4, <2>4, NoneApart DEF ModuleStep
    <3>2. OwnedBy(n)' = {} /\ OwnedBy(n) = {}
      <4>1. OwnedBy(n) = {}
        BY <2>4 DEF OwnedBy
      <4>2. ASSUME NEW o \in Releases, rel[o] # None, rel[o].owner = <<n, m.inc>> PROVE FALSE
        <5>1. Owned(rel[o])
          BY <1>1, <3>1, <4>2, NoneApart DEF Owned, Uids
        <5> QED BY <1>1, <3>1, <4>2, <5>1 DEF OwnersKnown
      <4> QED BY <2>1, <4>1, <4>2 DEF OwnedBy, UidOf
    <3>3. Stage(n) = "absent" /\ Stage(n)' = "open"
      BY <2>1, <2>4, <3>1 DEF Stage
    <3>4. Life!Create(n)
      BY <2>3, <3>2, <3>3 DEF Life!Create, Life!Becomes
    <3> QED BY <3>4 DEF Life!Next
  <2>5. CASE mods[n] # None /\ m # None
    <3>1. m.inc = mods[n].inc /\ m \in ModuleRecords
      BY <1>4, <2>5 DEF ModuleStep
    <3>2. OwnedBy(n)' = OwnedBy(n)
      BY <2>1, <2>5, <3>1 DEF OwnedBy, UidOf
    <3>3. deployed' = deployed
      BY <2>3, <3>2
    <3>4. /\ mods[n].finalizer \in BOOLEAN /\ mods[n].deleting \in BOOLEAN
          /\ m.finalizer \in BOOLEAN /\ m.deleting \in BOOLEAN
      BY <1>1, <2>5, <3>1, ModuleUpdates
    <3>5. \/ Stage(n)' = Stage(n)
          \/ Stage(n) = "open" /\ Stage(n)' = "guarded"
          \/ Stage(n) = "guarded" /\ Stage(n)' = "leaving"
      BY <1>4, <2>1, <2>5, <3>4 DEF ModuleStep, Stage
    <3>6. CASE Stage(n)' = Stage(n)
      BY <2>3, <3>3, <3>6 DEF Life!vars
    <3>7. CASE Stage(n) = "open" /\ Stage(n)' = "guarded"
      BY <2>3, <3>3, <3>7 DEF Life!Next, Life!Guard, Life!Becomes
    <3>8. CASE Stage(n) = "guarded" /\ Stage(n)' = "leaving"
      BY <2>3, <3>3, <3>8 DEF Life!Next, Life!Retire, Life!Becomes
    <3> QED BY <3>5, <3>6, <3>7, <3>8
  <2>6. CASE mods[n] # None /\ m = None
    <3>1. Stage(n)' = "absent" /\ OwnedBy(n)' = {}
      BY <2>1, <2>6 DEF Stage, OwnedBy
    <3>2. CASE mods[n].deleting
      <4>1. Stage(n) = "leaving"
        BY <2>6, <3>2 DEF Stage
      <4> QED BY <2>3, <3>1, <4>1 DEF Life!Next, Life!Release, Life!Becomes
    <3>3. CASE ~mods[n].deleting
      <4>1. ~mods[n].finalizer
        BY <1>4, <2>6, <3>3, NoneApart DEF ModuleStep
      <4>2. Stage(n) = "open" /\ OwnedBy(n) = {}
        BY <1>2, <2>6, <3>3, <4>1 DEF Stage
      <4> QED BY <2>3, <3>1, <4>2 DEF Life!Next, Life!Withdraw, Life!Becomes
    <3> QED BY <3>2, <3>3
  <2> QED BY <2>4, <2>5, <2>6
<1>5. ASSUME NEW o \in Releases, NEW x \in ReleaseRecords \cup {None}, ReleaseStep(o, x)
      PROVE  [Life!Next]_(Life!vars)
  <2> DEFINE n == o[3]
  <2>1. rel'[o] = x /\ (\A p \in Releases : p # o => rel'[p] = rel[p]) /\ UNCHANGED <<mods, born>> /\ n \in Names
    BY <1>1, <1>5 DEF ReleaseStep
  <2>2. \A k \in Names : Stage(k)' = Stage(k)
    BY <2>1 DEF Stage
  <2>3. ASSUME NEW k \in Names, k # n PROVE OwnedBy(k)' = OwnedBy(k)
    <3>1. o \notin OwnedBy(k)
      BY <1>2, <2>3
    <3>2. o \notin OwnedBy(k)'
      <4>1. SUFFICES ASSUME mods[k] # None, x # None, x.owner = <<k, mods[k].inc>> PROVE FALSE
        BY <2>1 DEF OwnedBy, UidOf
      <4>2. <<k, mods[k].inc>> \notin {NoOwner, Stranger}
        BY <2>3, <4>1, ModuleTyped, NoneApart DEF Uids, Inv
      <4>3. CASE rel[o] # None /\ x.owner = rel[o].owner
        BY <2>3, <3>1, <4>1, <4>3 DEF OwnedBy, UidOf
      <4>4. CASE x.owner = <<n, born[n]>>
        BY <2>3, <4>1, <4>4
      <4> QED BY <1>5, <4>1, <4>2, <4>3, <4>4 DEF ReleaseStep
    <3> QED BY <2>1, <3>1, <3>2 DEF OwnedBy, UidOf
  <2>4. OwnedBy(n)' = OwnedBy(n) \/ OwnedBy(n)' = OwnedBy(n) \cup {o} \/ OwnedBy(n)' = OwnedBy(n) \ {o}
    BY <2>1 DEF OwnedBy, UidOf
  <2>5. stage' = stage /\ deployed' = [deployed EXCEPT ![n] = OwnedBy(n)']
    BY <2>1, <2>2, <2>3
  <2>6. CASE OwnedBy(n)' = OwnedBy(n)
    BY <2>5, <2>6 DEF Life!vars
  <2>7. CASE o \in OwnedBy(n) /\ OwnedBy(n)' = OwnedBy(n) \ {o}
    <3>1. Life!Lose(n)
      BY <2>1, <2>5, <2>7 DEF Life!Lose
    <3> QED BY <2>1, <3>1 DEF Life!Next
  <2>8. CASE o \notin OwnedBy(n) /\ OwnedBy(n)' = OwnedBy(n) \cup {o}
    <3>1. mods[n] # None /\ x # None /\ x.owner = <<n, mods[n].inc>>
      <4>1. o \in OwnedBy(n)'
        BY <2>8
      <4> QED BY <2>1, <4>1 DEF OwnedBy, UidOf
    <3>2. x.owner \notin {NoOwner, Stranger}
      BY <2>1, <3>1, ModuleTyped, NoneApart DEF Uids, Inv
    <3>3. ~(rel[o] # None /\ x.owner = rel[o].owner)
      BY <2>1, <2>8, <3>1 DEF OwnedBy, UidOf
    <3>4. mods[n].finalizer
      BY <1>5, <3>1, <3>2, <3>3 DEF ReleaseStep
    <3>5. Stage(n) \in {"guarded", "leaving"}
      BY <3>1, <3>4 DEF Stage
    <3>6. Life!Deploy(n)
      BY <2>1, <2>5, <2>8, <3>5 DEF Life!Deploy
    <3> QED BY <2>1, <3>6 DEF Life!Next
  <2> QED BY <2>4, <2>6, <2>7, <2>8
<1> QED BY <1>3, <1>4, <1>5 DEF Shape

(* The controller implements ModuleLifecycle, for any Modules, any lag and any
   faults: what owns Flux objects is guarded, and nothing is inherited. *)
THEOREM LifecycleRefinement == Spec => LifecycleHonoured
<1>1. Inv /\ [Next]_vars => [Life!Next]_(Life!vars)
  <2> SUFFICES ASSUME Inv, [Next]_vars PROVE [Life!Next]_(Life!vars)
    OBVIOUS
  <2>1. Shape
    BY WorkShape, EnvironmentShape DEF Inv, vars, Shape
  <2> QED BY <2>1, LifeSteps
<1> QED BY <1>1, LifeStarts, InvHolds, PTL DEF Spec, LifecycleHonoured, Life!Spec
=============================================================================
