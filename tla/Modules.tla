------------------------------ MODULE Modules ------------------------------
(***************************************************************************)
(* Modules and ModuleTemplates: what a Module asks Flux to deploy, and     *)
(* what its status says about it.                                          *)
(*                                                                         *)
(* A chart stands for the whole Flux spec of a template; a Module may      *)
(* override the target namespace and, for a HelmRelease, the values.       *)
(***************************************************************************)
EXTENDS Naturals, FiniteSets

CONSTANTS
  Names,        \* names of Modules (cluster-scoped)
  Templates,    \* names of ModuleTemplates
  Namespaces,   \* target namespaces
  Charts,       \* the Flux specs of templates
  Values,       \* value overrides of Modules
  None,         \* no object, no override, no reference, no run
  NoOwner,      \* the owner of an object without a controller reference
  Stranger      \* a controller that is not a Module

FluxKinds == {"HelmRelease", "Kustomization"}

(* A Flux object is named after its Module. *)
Releases == FluxKinds \X Namespaces \X Names

Uids == Names \X Nat

SpecRecords ==
  [template : Templates, namespace : Namespaces \cup {None}, values : Values \cup {None}]

(* Exactly one of helmRelease and kustomization is set. *)
TemplateRecords == [gen : Nat, namespace : Namespaces, type : FluxKinds, chart : Charts]

Conditions == {"Pending", "True", "False"}

(* labelled: the standard labels are on, so that an event of the object finds
   its Module. *)
ReleaseRecords ==
  [ owner : Uids \cup {NoOwner, Stranger}, content : Charts \X (Values \cup {None}),
    labelled : BOOLEAN, ready : Conditions, deleting : BOOLEAN ]

(* It is under the control of a Module. *)
Owned(x) == x.owner \notin {NoOwner, Stranger}

Reasons == {"", "TemplateNotFound", "ReconcileError", "NotFound"} \cup Conditions

StatusRecords ==
  [ observedGeneration : Nat, templateGeneration : Nat,
    refs  : [FluxKinds -> Namespaces \cup {None}],
    ready : [reason : Reasons, generation : Nat] ]

NoStatus ==
  [ observedGeneration |-> 0, templateGeneration |-> 0,
    refs  |-> [k \in FluxKinds |-> None],
    ready |-> [reason |-> "", generation |-> 0] ]

ModuleRecords ==
  [ inc : Nat, gen : Nat, spec : SpecRecords, status : StatusRecords,
    finalizer : BOOLEAN, deleting : BOOLEAN ]

ASSUME ChartsAssumption == Charts # {}

ASSUME NoneAssumption ==
  /\ None \notin Uids \cup ReleaseRecords \cup ModuleRecords \cup TemplateRecords
  /\ None \notin Namespaces \cup Values \cup Names
  /\ {NoOwner, Stranger} \cap Uids = {} /\ None \notin {NoOwner, Stranger} /\ NoOwner # Stranger

-----------------------------------------------------------------------------
TargetNamespace(m, t) == IF m.spec.namespace # None THEN m.spec.namespace ELSE t.namespace

(* The Flux object of Module n. *)
Wanted(n, m, t)  == <<t.type, TargetNamespace(m, t), n>>
WantedContent(m, t) == <<t.chart, IF t.type = "HelmRelease" THEN m.spec.values ELSE None>>

(* Mutant: whoever controls it, it is taken. *)
MayTakeAny(owner, uid) == TRUE

(* SetControllerReference goes by name: it refuses an object that somebody else
   controls, adopts one that nobody does, and takes on its namesake's. *)
MayTake(owner, uid) == owner = NoOwner \/ (owner # Stranger /\ owner \in {uid[1]} \X Nat)

(* observeFluxResourceStatus: the Ready condition of the Flux object x. *)
Observed(x) == IF x = None THEN "NotFound" ELSE x.ready

(* Mutant: the reference of the other kind stays. *)
ReconciledKeepsRefs(m, t, x) ==
  [ observedGeneration |-> m.gen, templateGeneration |-> t.gen,
    refs  |-> [m.status.refs EXCEPT ![t.type] = TargetNamespace(m, t)],
    ready |-> [reason |-> Observed(x), generation |-> m.gen] ]

(* updateStatus, when the Flux object reads x. *)
Reconciled(m, t, x) ==
  [ observedGeneration |-> m.gen, templateGeneration |-> t.gen,
    refs  |-> [k \in FluxKinds |-> IF k = t.type THEN TargetNamespace(m, t) ELSE None],
    ready |-> [reason |-> Observed(x), generation |-> m.gen] ]

(* Mutant: the generation is in the condition only. *)
NotReadyUnobserved(m, reason) ==
  [m.status EXCEPT !.ready = [reason |-> reason, generation |-> m.gen]]

(* setReadyConditionFalse. *)
NotReady(m, reason) ==
  [ m.status EXCEPT !.observedGeneration = m.gen,
                    !.ready = [reason |-> reason, generation |-> m.gen] ]

(* A merge patch carries what differs between base and next. *)
MergePatch(stored, base, next) ==
  LET Field(s, b, x) == IF b = x THEN s ELSE x
  IN [ observedGeneration |-> Field(stored.observedGeneration, base.observedGeneration,
                                    next.observedGeneration),
       templateGeneration |-> Field(stored.templateGeneration, base.templateGeneration,
                                    next.templateGeneration),
       refs  |-> [k \in FluxKinds |-> Field(stored.refs[k], base.refs[k], next.refs[k])],
       ready |-> Field(stored.ready, base.ready, next.ready) ]

(* Where cleanup looks: the status references, then the override, then the
   template t (or None, if it cannot be read). *)
CleanupNamespace(m, t) ==
  LET r == m.status.refs
  IN IF r["HelmRelease"] # None THEN r["HelmRelease"]
     ELSE IF r["Kustomization"] # None THEN r["Kustomization"]
     ELSE IF m.spec.namespace # None THEN m.spec.namespace
     ELSE IF t # None THEN t.namespace ELSE None
=============================================================================
