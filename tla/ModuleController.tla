-------------------------- MODULE ModuleController --------------------------
(***************************************************************************)
(* The Module controller: one worker that takes a name from the queue,     *)
(* guards the Module with a finalizer, brings its Flux object into line    *)
(* with the template, and copies the object's health into the status; or,  *)
(* for a Module that is being deleted, asks Flux to uninstall and lets the *)
(* Module go.                                                              *)
(*                                                                         *)
(* Every API call is a step of its own.  Reads come from the caches; the   *)
(* read that observes the Flux object is taken together with the patch     *)
(* that follows it, since a lagging cache gives the same staleness.        *)
(***************************************************************************)
EXTENDS ModuleCluster

CONSTANT Recorder   \* whether the reconciler has an event recorder

ASSUME RecorderAssumption == Recorder \in BOOLEAN

VARIABLE run        \* the reconcile in progress, or None

vars == <<mods, born, modCache, modPend, tpl, tplCache, tplPend, rel, relCache, relPend,
          queue, left, run>>

Phases == {"guard", "template", "sync", "status", "failed", "resolve", "cleanup"}

Runs == [ name : Names, m : ModuleRecords, phase : Phases,
          t : TemplateRecords \cup {None}, error : {"", "TemplateNotFound", "ReconcileError"},
          namespace : Namespaces \cup {None}, todo : SUBSET FluxKinds ]

ASSUME RunsAssumption == None \notin Runs

Typed ==
  /\ ClusterTypeOK
  /\ run \in Runs \cup {None}

(* What a reconcile in some phase has at hand. *)
RunFits ==
  run # None =>
    /\ run.phase # "guard" => run.m.finalizer
    /\ run.phase \in {"resolve", "cleanup"} => run.m.deleting
    /\ run.phase \in {"sync", "status"} => run.t # None
    /\ run.phase = "failed" => run.error \in {"TemplateNotFound", "ReconcileError"}

(* Every variable keeps its type (a Flux object's owner is a Module, a stranger
   or nobody), and a reconcile has what its phase needs: past the guard it works
   on a Module with the finalizer, that is on the answer to the patch and no
   longer on what was read; it cleans up only after a Module being deleted; and
   it builds a Flux object only from a template it has found. *)
TypeOK == Typed /\ RunFits

Init ==
  /\ mods = [n \in Names |-> None] /\ modCache = mods /\ modPend = {}
  /\ born = [n \in Names |-> 0]
  /\ tpl = [t \in Templates |-> None] /\ tplCache = tpl /\ tplPend = {}
  /\ rel = [o \in Releases |-> None] /\ relCache = rel /\ relPend = {}
  /\ queue = {} /\ run = None
  /\ left = Budget

-----------------------------------------------------------------------------
(* Fetch. *)

ToReconcile(m) == m # None /\ (m.deleting => m.finalizer)

(* Mutant: a Module is guarded only once it has a Flux object. *)
PhaseUnguarded(m) == IF m.deleting THEN "resolve" ELSE "template"

(* Where the reconcile of Module m starts. *)
FirstPhase(m) ==
  IF m.deleting THEN "resolve" ELSE IF m.finalizer THEN "template" ELSE "guard"

FetchNothing(n) ==
  /\ run = None
  /\ n \in queue /\ ~ToReconcile(modCache[n])
  /\ queue' = queue \ {n}
  /\ UNCHANGED <<modVars, tplVars, relVars, left, run>>

Fetch(n) ==
  /\ run = None
  /\ n \in queue /\ ToReconcile(modCache[n])
  /\ queue' = queue \ {n}
  /\ run' = [ name |-> n, m |-> modCache[n], phase |-> FirstPhase(modCache[n]),
              t |-> None, error |-> "", namespace |-> None, todo |-> {} ]
  /\ UNCHANGED <<modVars, tplVars, relVars, left>>

At(phase) == run # None /\ run.phase = phase
GoTo(phase) == run' = [run EXCEPT !.phase = phase]
Fail(e) == run' = [run EXCEPT !.phase = "failed", !.error = e]

RunUid == <<run.name, run.m.inc>>
Again  == queue \cup {run.name}

-----------------------------------------------------------------------------
(* Finalizer.  The patch names the Module, not its UID; the answer replaces
   the snapshot. *)

Guarded(n) == [mods[n] EXCEPT !.finalizer = TRUE]

(* Mutant: the answer is dropped, the run goes on with what was read. *)
AddFinalizerStale ==
  /\ At("guard") /\ mods[run.name] # None
  /\ StoreModule(run.name, Guarded(run.name), queue)
  /\ GoTo("template")
  /\ UNCHANGED <<born, tplVars, relVars, left>>

AddFinalizer ==
  /\ At("guard") /\ mods[run.name] # None
  /\ StoreModule(run.name, Guarded(run.name), queue)
  /\ run' = [run EXCEPT !.m = Guarded(run.name), !.phase = "template"]
  /\ UNCHANGED <<born, tplVars, relVars, left>>

(* A patch of Module n to m is refused because the Module is gone, or fails
   and may have had its effect; the error is returned. *)
PatchFails(n, m) ==
  /\ \/ mods[n] = None /\ queue' = Again /\ UNCHANGED <<modVars, left>>
     \/ /\ mods[n] # None /\ Spend("api") /\ UNCHANGED born
        /\ \E x \in {mods[n], m} : StoreModule(n, x, Again)
  /\ run' = None
  /\ UNCHANGED <<tplVars, relVars>>

(* Mutant: the error of the patch is not returned. *)
AddFinalizerIgnored ==
  /\ At("guard") /\ mods[run.name] # None /\ Spend("api")
  /\ \E x \in {mods[run.name], Guarded(run.name)} : StoreModule(run.name, x, queue)
  /\ GoTo("template")
  /\ UNCHANGED <<born, tplVars, relVars>>

AddFinalizerFails == At("guard") /\ PatchFails(run.name, Guarded(run.name))

-----------------------------------------------------------------------------
(* Template, and Flux object. *)

ReadTemplate ==
  /\ At("template")
  /\ LET t == tplCache[run.m.spec.template]
     IN IF t = None THEN Fail("TemplateNotFound")
                    ELSE run' = [run EXCEPT !.t = t, !.phase = "sync"]
  /\ UNCHANGED <<modVars, tplVars, relVars, queue, left>>

Target == Wanted(run.name, run.m, run.t)
Seen   == relCache[Target]
There  == rel[Target]

(* What CreateOrUpdate makes of what it has read. *)
Sent ==
  LET content == WantedContent(run.m, run.t)
  IN IF Seen = None
     THEN [owner |-> RunUid, content |-> content, labelled |-> TRUE, ready |-> "Pending",
           deleting |-> FALSE]
     ELSE [Seen EXCEPT !.owner = RunUid, !.content = content, !.labelled = TRUE]

(* AlreadyOwnedError. *)
Refused == Seen # None /\ ~MayTake(Seen.owner, RunUid)

SyncWrite ==
  /\ At("sync") /\ ~Refused /\ Sent # Seen /\ There = Seen
  /\ StoreRelease(Target, Sent, queue)
  /\ GoTo("status")
  /\ UNCHANGED <<modVars, tplVars, left>>

SyncNothing ==
  /\ At("sync") /\ Sent = Seen
  /\ GoTo("status")
  /\ UNCHANGED <<modVars, tplVars, relVars, queue, left>>

(* Somebody else controls the object; or the cache was behind, and the API
   server answers AlreadyExists, Conflict or NotFound. *)
SyncRejected ==
  /\ At("sync")
  /\ Refused \/ (Sent # Seen /\ There # Seen)
  /\ Fail("ReconcileError")
  /\ UNCHANGED <<modVars, tplVars, relVars, queue, left>>

SyncFault ==
  /\ At("sync") /\ ~Refused /\ Sent # Seen /\ There = Seen
  /\ Spend("api")
  /\ \E x \in {There, Sent} : StoreRelease(Target, x, queue)
  /\ Fail("ReconcileError")
  /\ UNCHANGED <<modVars, tplVars>>

-----------------------------------------------------------------------------
(* Status. *)

NewStatus == Reconciled(run.m, run.t, Seen)

Patched(next) == [mods[run.name] EXCEPT !.status = MergePatch(@, run.m.status, next)]

(* Without a recorder, reporting the event panics; the panic is recovered
   and counts as an error. *)
EventQueue == IF Recorder THEN queue ELSE Again

StatusUnchanged ==
  /\ At("status") /\ NewStatus = run.m.status
  /\ run' = None
  /\ UNCHANGED <<modVars, tplVars, relVars, queue, left>>

StatusPatch ==
  /\ At("status") /\ NewStatus # run.m.status /\ mods[run.name] # None
  /\ StoreModule(run.name, Patched(NewStatus), EventQueue)
  /\ run' = None
  /\ UNCHANGED <<born, tplVars, relVars, left>>

StatusFails ==
  /\ At("status") /\ NewStatus # run.m.status
  /\ PatchFails(run.name, Patched(NewStatus))

(* Mutant: no error is returned to the work queue. *)
RequeuedNever == queue

(* handleReconcileError: a permanent error is not requeued, a transient one is. *)
Requeued == IF run.error = "ReconcileError" THEN Again ELSE EventQueue

ReportError ==
  /\ At("failed")
  /\ IF mods[run.name] = None
     THEN queue' = Requeued /\ UNCHANGED modVars
     ELSE StoreModule(run.name, Patched(NotReady(run.m, run.error)), Requeued) /\ UNCHANGED born
  /\ run' = None
  /\ UNCHANGED <<tplVars, relVars, left>>

(* setReadyConditionFalse fails: that is logged, no more. *)
ReportLost ==
  /\ At("failed")
  /\ Spend("report")
  /\ queue' = Requeued
  /\ run' = None
  /\ UNCHANGED <<modVars, tplVars, relVars>>

-----------------------------------------------------------------------------
(* Deletion. *)

(* Mutant: cleanup goes by the template, the status is not asked. *)
ReferredNone(m) == {}

(* The kinds of Flux object that the status refers to. *)
Referred(m) == {k \in FluxKinds : m.status.refs[k] # None}

ResolveNamespace ==
  /\ At("resolve")
  /\ LET namespace == CleanupNamespace(run.m, tplCache[run.m.spec.template])
     IN run' = [run EXCEPT !.phase = "cleanup", !.namespace = namespace,
                           !.todo = IF namespace = None THEN {} ELSE Referred(run.m)]
  /\ UNCHANGED <<modVars, tplVars, relVars, queue, left>>

NextKind == IF "HelmRelease" \in run.todo THEN "HelmRelease" ELSE "Kustomization"
Doomed   == <<NextKind, run.namespace, run.name>>
Marked   == IF rel[Doomed] = None THEN None ELSE [rel[Doomed] EXCEPT !.deleting = TRUE]

(* Delete, by name; what is not there is as good as deleted. *)
DeleteFlux ==
  /\ At("cleanup") /\ run.todo # {}
  /\ StoreRelease(Doomed, Marked, queue)
  /\ run' = [run EXCEPT !.todo = @ \ {NextKind}]
  /\ UNCHANGED <<modVars, tplVars, left>>

DeleteFluxFails ==
  /\ At("cleanup") /\ run.todo # {}
  /\ Spend("api")
  /\ \E x \in {rel[Doomed], Marked} : StoreRelease(Doomed, x, Again)
  /\ run' = None
  /\ UNCHANGED <<modVars, tplVars>>

(* The last finalizer gone, so is the Module. *)
Released(n) == IF mods[n].deleting THEN None ELSE [mods[n] EXCEPT !.finalizer = FALSE]

RemoveFinalizer ==
  /\ At("cleanup") /\ run.todo = {} /\ mods[run.name] # None
  /\ StoreModule(run.name, Released(run.name), queue)
  /\ run' = None
  /\ UNCHANGED <<born, tplVars, relVars, left>>

RemoveFinalizerFails ==
  /\ At("cleanup") /\ run.todo = {} /\ PatchFails(run.name, Released(run.name))

-----------------------------------------------------------------------------
(* The operator stops and starts again: the caches are filled from the API
   server, and every object they hold counts as created. *)
Restart ==
  /\ Spend("restart")
  /\ run' = None
  /\ modCache' = mods /\ modPend' = {}
  /\ tplCache' = tpl /\ tplPend' = {}
  /\ relCache' = rel /\ relPend' = {}
  /\ queue' = {n \in Names : mods[n] # None}
                \cup {o[3] : o \in {p \in Releases : rel[p] # None /\ rel[p].labelled}}
  /\ UNCHANGED <<mods, born, tpl, rel>>

Work ==
  \/ \E n \in Names : FetchNothing(n) \/ Fetch(n)
  \/ AddFinalizer \/ AddFinalizerFails
  \/ ReadTemplate \/ SyncWrite \/ SyncNothing \/ SyncRejected
  \/ StatusUnchanged \/ StatusPatch \/ StatusFails \/ ReportError
  \/ ResolveNamespace \/ DeleteFlux \/ RemoveFinalizer \/ RemoveFinalizerFails

Next ==
  \/ Work
  \/ SyncFault \/ DeleteFluxFails \/ ReportLost
  \/ Restart
  \/ Environment /\ UNCHANGED run

Spec == Init /\ [][Next]_vars

(* What goes on by itself: the worker keeps working and retrying, informers
   deliver, Flux uninstalls what it is asked to, and so does the garbage
   collector. *)
Fairness ==
  /\ WF_vars(Work)
  /\ WF_vars((\E n \in Names : DeliverModule(n)) /\ UNCHANGED run)
  /\ WF_vars((\E t \in Templates : DeliverTemplate(t)) /\ UNCHANGED run)
  /\ WF_vars((\E o \in Releases : DeliverRelease(o)) /\ UNCHANGED run)
  /\ WF_vars((\E o \in Releases : FluxUninstalls(o)) /\ UNCHANGED run)
  /\ WF_vars((\E o \in Releases : CollectGarbage(o)) /\ UNCHANGED run)

FairSpec == Spec /\ Fairness

-----------------------------------------------------------------------------
UidOf(n) == <<n, mods[n].inc>>

(* Rest: nothing is queued, running, undelivered or being deleted. *)
AtRest ==
  /\ run = None /\ queue = {}
  /\ modCache = mods /\ modPend = {} /\ tplPend = {} /\ relCache = rel /\ relPend = {}
  /\ \A n \in Names : mods[n] # None => ~mods[n].deleting
  /\ \A o \in Releases : rel[o] # None =>
       ~rel[o].deleting /\ (Owned(rel[o]) => Live(rel[o].owner))

TemplateOf(n) == tpl[mods[n].spec.template]
TargetOf(n)   == Wanted(n, mods[n], TemplateOf(n))

(* At rest, a Module whose template exists has its Flux object, in the target
   namespace, with the template's spec and the Module's own values: no error,
   race, lag, deletion or template change leaves it half-way. *)
Deployed ==
  AtRest => \A n \in Names : mods[n] # None /\ TemplateOf(n) # None =>
    /\ rel[TargetOf(n)] # None
    /\ rel[TargetOf(n)].owner = UidOf(n)
    /\ rel[TargetOf(n)].content = WantedContent(mods[n], TemplateOf(n))
    /\ rel[TargetOf(n)].labelled

(* The status of Module n refers to its Flux object and repeats its health, or
   says that there is no template. *)
Mirrors(n) ==
  LET s == mods[n].status
  IN IF TemplateOf(n) # None
     THEN /\ s.observedGeneration = mods[n].gen
          /\ s.templateGeneration = TemplateOf(n).gen
          /\ \A k \in FluxKinds : s.refs[k] # None <=> <<k, s.refs[k], n>> = TargetOf(n)
          /\ s.ready = [reason |-> Observed(rel[TargetOf(n)]), generation |-> mods[n].gen]
     ELSE /\ s.observedGeneration = mods[n].gen
          /\ s.ready = [reason |-> "TemplateNotFound", generation |-> mods[n].gen]

(* "It contains references to the actual FluxCD resources created by the
   controller and reflects their health status", at rest. *)
StatusMirrors == AtRest => \A n \in Names : mods[n] # None => Mirrors(n)

(* A living Module that owns a Flux object is guarded by the finalizer: no
   order of creation, deletion and re-creation lets it slip away unnoticed. *)
FinalizerGuards ==
  \A o \in Releases :
    rel[o] # None /\ Owned(rel[o]) /\ Live(rel[o].owner) => mods[o[3]].finalizer

Stage(n) ==
  CASE mods[n] = None -> "absent"
    [] mods[n] # None /\ mods[n].deleting -> "leaving"
    [] mods[n] # None /\ ~mods[n].deleting /\ mods[n].finalizer -> "guarded"
    [] mods[n] # None /\ ~mods[n].deleting /\ ~mods[n].finalizer -> "open"

(* What the living Module n owns. *)
OwnedBy(n) ==
  IF mods[n] = None THEN {}
  ELSE {o \in Releases : rel[o] # None /\ rel[o].owner = UidOf(n)}

Life == INSTANCE ModuleLifecycle WITH
  Objects  <- Releases,
  stage    <- [n \in Names |-> Stage(n)],
  deployed <- [n \in Names |-> OwnedBy(n)]

(* The controller implements ModuleLifecycle: through stale reads, failed
   patches, restarts and re-creation under one name, a Module owns Flux objects
   only while it is guarded, keeps the finalizer until it is deleted, and
   inherits nothing from its predecessor. *)
LifecycleHonoured == Life!Spec

(* A sync leaves a Flux object alone that somebody else controls, whenever it
   came and whatever the cache says (SetControllerReference in both syncs, and
   the resource version of the update).  Cleanup does not ask: it deletes by name. *)
StrangersKept ==
  [][ At("sync") /\ run' # run => \A o \in Releases :
        rel[o] # None /\ rel[o].owner = Stranger => rel'[o] = rel[o] ]_vars

(* When a Module goes away, Flux has been asked to uninstall what the Module
   owned and its status referred to: neither a restart nor a failed patch or
   call lets it go before (reconcileDelete: delete, then remove the finalizer).
   What is asked is that the deletion is requested, not that it is done. *)
AskedBeforeGone ==
  [][ \A n \in Names : mods[n] # None /\ mods'[n] = None =>
        \A o \in OwnedBy(n) : mods[n].status.refs[o[1]] = o[2] => rel[o].deleting ]_vars

(* Once the disturbances are over everything comes to rest: no reconcile
   loops, no Module hangs in deletion. *)
Settles == <>[]AtRest

-----------------------------------------------------------------------------
(* Statements of the repository about the controller. *)

(* "It contains references to the actual FluxCD resources created by the
   controller": at rest, the status refers to every Flux object that the
   controller made for the Module. *)
CreatedAreReferenced ==
  AtRest => \A o \in Releases :
    rel[o] # None /\ Owned(rel[o]) => mods[o[3]].status.refs[o[1]] = o[2]
=============================================================================
