# A verification of the OtterScale operator

The OtterScale operator is a Kubernetes operator with two controllers. This
directory holds TLA+ models of both, of the webhooks, and of the parts of the
cluster they rely on; TLC configurations that check them on small instances; and
theorems about them that TLAPS proves for every value of the constants.

    tlc -config Rival.cfg MCWorkspace          # one run
    tlapm WorkspaceControllerProofs.tla        # the proofs of one module

## 1. The system

| part | source | state it keeps | operations |
|---|---|---|---|
| Workspace API | `api/tenant/v1alpha1/workspace_types.go` | spec, status, generation | users create, edit, delete |
| Workspace controller | `internal/controller/tenant/workspace_controller.go` | none but the run in progress and the work queue | fetch, domain sync, status, error report, CRD handler, watches |
| domain sync | `internal/core/workspace/*.go` | the nine kinds of children | delete, create, update, leave alone |
| Istio detector | `internal/controller/tenant/istio_detector.go` | an atomic flag | refresh |
| webhooks | `internal/webhook/tenant/v1alpha1`, `core/workspace/authorization.go` | the admitted Workspace | default labels, authorize update and delete |
| Module, ModuleTemplate API | `api/addons/v1alpha1` | specs, status, finalizer | users create, edit, delete |
| Module controller | `internal/controller/addons/module_controller.go` | the run in progress and the queue | finalizer, template, sync, status, cleanup |
| Flux sync | `internal/core/module/*.go` | a HelmRelease or Kustomization | create, update, delete |
| process | `cmd/main.go` | the detector's first answer and the watches decided on | set-up, waiting for the lease, start |

How they interact. Nothing calls anything directly. A controller reads objects
from informer caches, which follow the API server at their own pace, and writes to
the API server; the write causes an event, the event moves a cache and puts a name
into a work queue, and one worker takes names from the queue. The queue forgets
what the event was: a reconcile works from what the caches say when it runs. The
garbage collector, the namespace controller, Flux, users and other operators write
to the same objects. The two controllers share nothing but the process. The
detector's flag is shared by the CRD handler, which writes it in the goroutine of
the watch, and the worker, which reads it twice per run. The webhooks run inside
requests to the API server and see no cache.

What is hard: a run of up to nine writes without a transaction; stale reads;
writes that fail and have happened; status patches relative to a stale base and
without UID; errors that are not retried; events that are filtered by generation;
deletion and re-creation under one name; restarts between any two writes. The full
list is under `hazards` in `PROJECT.json`.

What makes each part correct:

- Workspace controller: once things calm down, the children are exactly what the
  spec asks for, the status says so for the current generation, and the
  controller comes to rest; `Ready` never precedes the children; a namespace that
  is there is never taken from whoever holds it.
- Istio detector: it changes its mind only when the API server says so, and ends up
  right, whichever process leads.
- Webhooks: member labels mirror members; who was not admitted by an admin
  never gets hold of a Workspace; an admin remains.
- Module controller: the Flux object is what template and overrides ask for, the
  status mirrors its health; a Module that owns a Flux object carries the
  finalizer and does not go before Flux was asked to uninstall; a Flux object that
  somebody else controls is left alone.

## 2. The modules

| module | models | state |
|---|---|---|
| `Workspace` | specs, statuses, what the children must hold, merge patches | none |
| `IstioDetector` | the flag and the discovery call | `crds served enabled crdEvent` |
| `WorkspaceCluster` | API server, informers, queue, garbage collector, users | `ws born wsCache wsPend obj cache pend queue watched left` |
| `WorkspaceController` | the worker, the CRD handler, the processes; all properties | `run mapping standby` |
| `NamespaceLease` | abstract specification: who holds a namespace | `holder` |
| `WorkspaceAdmission` | both webhooks and the schema's rules | `workspace founder` |
| `Modules` | specs, templates, statuses, where cleanup looks | none |
| `ModuleCluster` | API server, informers, queue, Flux, garbage collector, users | `mods born modCache modPend tpl… rel… queue left` |
| `ModuleController` | the worker, restart; all properties | `run` |
| `WorkspaceHistory`, `ModuleHistory` | a controller that remembers whose last report was compared with an old status, or lost | `overlooked` |
| `ModuleLifecycle` | abstract specification: the stages of a Module's life and what it owns in each | `stage deployed` |
| `MCWorkspace`, `MCModule` | specs and budgets of the runs | |
| `MCWorkspaceHistory`, `MCModuleHistory` | the same instances with that memory | |
| `WorkspaceControllerProofs`, `ModuleControllerProofs`, `WorkspaceAdmissionProofs` | theorems: types, refinements, what holds in every step | |
| `WorkspaceConvergenceProofs`, `ModuleConvergenceProofs` | theorems: what the cluster holds at rest | |
| `WorkspaceRivalProofs` | theorem: who may be without a Namespace at rest | |
| `WorkspaceStatusProofs`, `ModuleStatusProofs` | theorems: what the status says | |

`WorkspaceController` extends `WorkspaceCluster`, which extends `Workspace` and
`IstioDetector`; its `Next` is a step of the worker, of the CRD handler, of a process
that comes to lead, or a step of the environment. It instantiates `NamespaceLease` with the refinement
mapping `holder[ns] = the owner of Namespace ns`. `ModuleController` is built the
same way, and instantiates `ModuleLifecycle` with a Module's stage (absent, open,
guarded by the finalizer, leaving) and the Flux objects that carry its UID.

`WorkspaceHistory` and `ModuleHistory` extend the controllers by a history variable. It is
set from the step that ends a reconcile (`Concludes`), and records whether the status the
reconcile had read was still the stored one and whether its report arrived (`Overlooks`).
`HNext` is `Next /\ Remember` and `Remember` only assigns `overlooked'`, so no behaviour of
the controller is lost. TLC reports `HNext` as one action; the runs that use it show the
actions of `Next` only together.

### How code and model correspond

**A reconcile** is the record `run`: the snapshot that `Reconcile` fetched, the flag
it read, and how far it is. One API call is one step, so anything may happen
between two calls, a restart included. Reads of caches are taken with the call that
follows: a cache that moves between the two is the same as a cache that moves
before both. There is one worker per controller (`MaxConcurrentReconciles` is left
at 1), so runs do not overlap.

**`CreateOrUpdate`** reads the cached child (`Seen`) and takes one of the branches
`Creates`, `Updates`, `Settled`, `Refuses`; `Deletes` is the branch where the child
is not wanted. The API server takes a creation if nothing is there, and an update
if the object is still what was read. Value equality stands in for
`resourceVersion`: an object that changed and changed back is accepted where the
API server would answer Conflict, which only adds behaviours and was checked to
break nothing. `SyncFault` is a call that fails, with or without having taken
effect.

**A child's content** is a set of atoms: users bound, limits, namespaces admitted,
labels. The empty set is "not wanted", as in the code, where a role without members
or a missing quota deletes the object. `Mutated` says that a Namespace keeps foreign
labels and every other kind is overwritten. `MayTake` says who may be taken over: a
Namespace only by the UID that owns it (`IsOwned`), any other kind unless another
name controls it (`SetControllerReference` goes by name, so a namesake's is taken).

**Status** patches are merge patches (`MergePatch`): what differs between the
snapshot and the new status is written over what is stored, by name. No patch is
made if nothing differs. Reasons of conditions are kept, messages are not. In
`updateStatus` the reads, the second read of the Istio flag included, and the patch are
one step; section 5 says what that leaves out.

**The queue** is a set of names. `Woken` is `EnqueueRequestForOwner` (by name, old
and new owner), `PassesPredicate` is `GenerationChangedPredicate`, which compares
generations and nothing else, so that deletion and re-creation delivered as one update of
equal generation wake nobody, in the models as in the code. `Referencing` and `Wakes` are the
map functions of `module_controller.go`.
Backoff is the queue itself: a name that is requeued will be taken some time.

**Caches** follow at once or, for the informers in `Lagging`, by a step of their
own. An informer delivers the latest object; intermediate ones are skipped, which
loses nothing for a level-triggered reader, and the names that the skipped events
would have enqueued are kept in `pend`.

**Processes.** `main` first sets a process up, then starts it, and with leader election
(off by default, on in the manifests) the start may come much later. `SetUp` is
`SetupWithManager`: one discovery call, from which both the flag and the set of
watches follow (`standby`). `TakeOver` is `mgr.Start`, once the lease is won: run and
queue of the process before are lost, caches are filled from the API server,
every object they hold counts as created, and the CRD watch replays the CRDs that
are there (`Replayed`). A process that has decided to watch Istio kinds cannot start
without their CRDs: its caches never fill, `main` exits, and it is set up anew
(`StartFails`). Between the two steps the process before may still work, which
includes the case of one process that crashes and starts again. `ModuleController` has
no state that is decided at set-up, so there a restart is a single step.

**Ownership and labels of Flux objects.** `Plant` lets somebody make a Flux object of the
name the operator would use, controlled by nobody or by another controller.
`Sent` sets content, labels and owner, `Refused` is `AlreadyOwnedError` (by name and
kind of the owner, so a namesake's object is taken on and ownerless ones are
adopted). Drift of a Flux object is its deletion or the loss of its labels;
`Wakes` says that an update is mapped with the labels before and after, as
controller-runtime's handlers do.

**Deletion.** A Workspace deleted in the background is gone at once; in the
foreground it stays until its children are gone and its finalizer is taken off
(`FinishForeground` in both models). In `WorkspaceCluster` that may happen or not, and
whoever does it is left open; `WorkspaceAdmission` says who may: to the webhook it is an
update like any other, so the garbage collector, which `authorization.go:38` does not know,
is refused, and an admin or a privileged identity has to do it. A Namespace goes only when
it is empty. A Module with finalizer stays until `RemoveFinalizer`. A deletion bumps the
generation, which is why the predicate lets it pass.

**Recorder.** `main.go` builds the Module reconciler without an event recorder,
the tests build it with one. `Recorder` is a constant: with `FALSE` a run that
reports an event panics after its patch, and the panic counts as an error that is
retried. `Handover` and `Missing` have `FALSE`; the others `TRUE`, since with an error
that is retried forever nothing comes to rest.

## 3. The runs

`Budget` bounds each kind of disturbance (creations, edits, deletions, drift,
failed calls, restarts, changes of Istio, …), which also bounds generations and
incarnations; everything else is unbounded. Budgets were raised until a run took
a minute or two; each property's mutants fall within them, and what the runs that
fail show needs at most two of any disturbance. Two namespaces are one to hold and
one to admit (or to move to), two users are one per role. Where two Workspaces or
two incarnations meet, one small spec is enough, since they meet at the Namespace
and the children are alike. Every run is without symmetry.

`CHECK_DEADLOCK FALSE` appears in the runs whose system may really stop: when the
budget is used up and nothing is left to do.

### Runs that pass

| run | what happens | properties |
|---|---|---|
| `Provision` | create, edit, drift, a stripped owner, a failed call, Workspace informer behind | `TypeOK` `TargetsConverged` `UntruthOverlooked` `ReadyIsReal` `ObservedGenerationAdvances` |
| `Rival` | two Workspaces and an outsider want one namespace, deletion either way and re-creation, Namespace informer behind | `StatusTruthful` `StrandedByRivalsOnly` `LeaseHonoured` |
| `Istio` | Istio comes and goes, discovery and a role binding's informer behind, a failed call, a discovery call and a report lost, a process is set up and takes over | `TargetsConverged` `DetectorFollowsTruth` |
| `Settle` | deletion, Istio comes or goes, a process is set up and takes over at any time, Workspace informer behind | `BeliefTrue` `Settles` |
| `Install` | templates of both types, an edit, Flux reports, a failed call, Flux objects of others in the way, Flux informers behind | `TypeOK` `Deployed` `StatusMirrors` `StrangersKept` |
| `Handover` | two Modules of one template, template changes, deletion, drift, a failed call, a lost report, restart, template informer behind, no recorder | `Deployed` `AskedBeforeGone` |
| `Remove` | create, delete, create again, upgrade, failed call, lost report, restart, Module and Flux informers behind | `Deployed` `FinalizerGuards` `UnmirroredOverlooked` `LifecycleHonoured` `Settles` |
| `Admission` | all requests of two trusted users, one other, the operator, the garbage collector and a privileged identity, foreground deletion included | `TypeOK` `LabelsMirror` `Governed` |

The properties "at rest" (`TargetsConverged`, `StatusTruthful`, `UntruthOverlooked`,
`Deployed`, `StatusMirrors`, `UnmirroredOverlooked`) say what must hold when nothing is queued, running, undelivered or
being deleted: whatever went wrong on the way, no half-way state may be left with
nothing to finish it. `Settles` says that rest is reached. Together they are
eventual convergence. `StatusTruthful` and `StatusMirrors` are plain claims about the status,
checked where the informer of the reported object keeps up and no report is lost. It may not
keep up, and then they are false: a report that is compared with a status no longer stored
overlooks the difference. `UntruthOverlooked` and `UnmirroredOverlooked` say that there is no
other cause, in any state at rest, and that the next report that compares with what is stored
repairs it. `StrandedByRivalsOnly` bounds what the missing wake-up of a
rival costs: whoever is without a namespace at rest may have lost it to somebody who is
gone, or has gone and come back for another namespace.
`BeliefTrue` says the flag is right at rest. Others hold at all times: `ReadyIsReal`, `FinalizerGuards`,
and the action properties.

### Runs that fail: where the code does not do what its text says

| run | what happens | finding at |
|---|---|---|
| `Throttled` | a 429 or 500 from discovery turns the flag off | `istio_detector.go:83` |
| `Missing` | no recorder: a missing template is retried forever | `main.go:229` |
| `Race` | a deletion is read from a cache without the status references: the finalizer goes, Flux is not asked | `module_controller.go:171` |
| `Moved` | a new target namespace leaves the old release behind | `helmrelease.go:53` |

For `Race` the garbage collector deletes the Flux object afterwards, so Flux does
uninstall; what is lost is that it does so before the Module is gone.

### What the passing runs leave out

A passing run is a claim about the disturbances of its budget and the informers of
its `Lagging`, and about no others. These leave the properties false; the first
four are the runs above, the others can be seen by giving the named run the named
disturbance.

| disturbance | what gives way |
|---|---|
| `status` in `Istio` | `DetectorFollowsTruth`: `Throttled` |
| no recorder in `Remove` | `Settles`: `Missing` |
| Module informer behind in `Handover` | `AskedBeforeGone`: `Race` |
| target namespace that changes | a Flux object nobody refers to: `Moved` |
| (`StatusTruthful` in place of `UntruthOverlooked` in `Provision`) | the retry compares with the status from before the report of the failure, sees no difference and patches nothing; the Workspace stays `Ready=False` (`workspace_controller.go:348`) |
| two edits and the NetworkPolicy informer behind in `Provision` | `ReadyIsReal`: a spec that comes back is compared with a policy as it was before |
| re-creation, `foreground`, or `status` in `Provision` | `ReadyIsReal`: a late report of the predecessor's reconcile says Ready for the same generation; the children go before the Workspace; the flag turns under a Workspace that was Ready |
| `crd`, `restart` and the PeerAuthentication informer behind in `Provision`, one isolated Workspace | `TargetsConverged`: a process that was set up before Istio came takes over and deletes the policy; the reconcile after the CRD event finds it still in its cache and passes it, and no event of a kind that is not watched wakes anybody (`workspace_controller.go:212`) |
| `disown` and `drift`, or `squat` and `drift`, in `Rival` | `StrandedByRivalsOnly`: a namespace that nobody owns goes, and no Workspace hears of it |
| `report` and `disown` in `Provision` | `StatusTruthful`: a conflict is reported once, and the report may be lost |
| Module informer behind in `Install`, hence (`StatusMirrors` in place of `UnmirroredOverlooked`) in `Remove` | `StatusMirrors`: health that goes and comes back before the first patch is delivered (`module_controller.go:299`) |
| `report` in `Install` | `StatusMirrors`: the report of a missing template is not repeated (`module_controller.go:253`) |
| (`AskedBeforeGone` in `Handover` for whatever a Module owns, referred to or not) | a restart, a failed status patch or a failed finalizer removal leaves a Flux object that no status refers to yet; the Module is deleted and goes without Flux being asked, and the garbage collector deletes the object afterwards (`module_controller.go:166`) |
| `foreground` in `Settle` | `Settles`: the Workspace is reconciled as if it lived, and its children are made again as they go (`workspace_controller.go:91`) |
| `discovery` behind in `Settle` | `BeliefTrue`, `Settles`: Istio goes, its event is handled before the discovery document knows, and the Workspace retries an Istio policy for ever (`istio_detector.go:61`) |
| `plant` in `Remove` | `Settles`: an object that somebody else controls is refused and the Module retried for as long as it stands (`helmrelease.go:81`); when the Module is deleted, cleanup deletes that object by name (`helmrelease.go:102`) |

Six more shortcomings are in the models and in no property, so that they can
be read off the steps but no run reports them: a foreground deletion of a Workspace waits for
an update that the garbage collector is refused (`FinishForeground`), although
`workspace_controller.go:82-84` leaves deletion to the garbage collector altogether; the loser of a namespace is not told
when it is free (`Requeued`, `Woken`; `StrandedByRivalsOnly` says that only it is concerned); a namespace that changes hands in the middle
of a run gets children of both parties (`MayTake` asks for the Namespace only); the
NetworkPolicy goes before the AuthorizationPolicy comes (`Plan`); the discovery call
of a CRD event that does not get through is not repeated (`RefreshDetector`);
a status patch names no UID and can hit a successor of the same name (`StatusPatch`).

In some of them the periodic resync of informers (ten hours by default), the next
event or a restart would repair the state: the models leave resyncs out, so "at
rest" means "until somebody or something stirs".

### Fairness

Liveness runs use `FairSpec`: weak fairness of the worker, of the CRD handler, of
a process that is set up (the lease is free once the one before has ended), of
delivery by each kind of informer, of the garbage collector, the namespace
controller, Flux' uninstallation and the discovery document. controller-runtime
keeps its workers and watches running and retries with backoff for as long as the
process runs; the cluster's own controllers do the same. Nothing that users, faults
or restarts do is fair. In `WorkspaceController`, fairness is per kind of step and
not per name: a queue that holds one name needs no more, and the liveness runs have
one. `FinishForeground` is not fair, since the webhook may refuse it, and `Settle` has
no foreground deletion.
`WorkspaceAdmission` states no fairness: requests are what users make.

## 4. The proofs

The theorems hold for all names, users, namespaces, specs, templates, sets of lagging
informers and budgets. The assumptions on constants are `SpecsAssumption` (specs are
those the schema admits), `LaggingAssumption`, `BudgetAssumption`, and `NoneAssumption`
and `RunsAssumption`, which say that `None` is none of the names, records, runs and flags
it stands beside. What a theorem needs beyond that is in its `ASSUME`: which informers do
not lag. What must not have happened is in its statement.

`WorkspaceControllerProofs`:

- `TypeCorrect`: `Spec => []TypeOK`. `TypeOK` is inductive. The work is in lemmas on
  what the controller computes: `DesiredType`, `StatusType`, `PatchType`, `SentType`
  for what is sent, `CommitType`, `WriteType`, `StoreType` for what writes and their
  events leave, and one lemma per group of actions.
- `LeaseRefinement`: `Spec => LeaseHonoured`, that is, the controller implements
  `NamespaceLease` under the mapping of section 2. The initial states map to the
  initial state. For steps, `SentIsLeaseMove` shows that a reconcile leaves a
  Namespace with the owner it had or makes one where none was: a creation is taken
  only if nothing is there, an update only if the Namespace still is what was read,
  and what was read has passed `IsOwned` by UID. `LeaseWrite` turns this into a step
  or a stutter of the abstract specification; the outside steps (garbage collector,
  drift, strangers) are cases of their own. No strengthening beyond `TypeOK` is
  needed because the API server's check of the version makes the stale cache
  harmless.

- `DetectorKnows`: `BeliefTrue`, if the discovery document does not lag. `Believing` is
  inductive: as long as every discovery call was answered, either the flag is right
  or a CRD event is still to be handled; a process that comes to lead with an old answer
  either finds the CRDs replayed to it or cannot start.
- `GenerationAdvances`: `Spec /\ []NamesUsedOnce => ObservedGenerationAdvances`. The premise
  is needed: a patch names no UID, so a run that read the predecessor can write
  its generation to the successor. The invariant `InOrder` puts the four copies of a
  Workspace's generation in order: reported, read by the run, cached, stored. The lemma
  `StoreKeepsOrder` shows it for whatever may be stored (`Succeeds`), `PatchSucceeds`
  that a status patch is of that kind.

`WorkspaceConvergenceProofs`:

- `ChildrenFollow`: `TargetsConverged`, if the informers of the two Istio kinds do not lag
  (`IstioInformed`). `AtRest` says nothing of the way there, so the invariant `Conv`
  must say of every state who still has to look. `Converging`: each child of each
  Workspace is in line, or out of sight, or the Workspace is excused (it is going, or does not hold its
  Namespace), or its name is awaited (queued, or an event that will queue it is under
  way), or a reconcile of it has not passed that child yet or has failed and is
  retried. `RunFresh` and `NoRival` say what a reconcile's snapshot is worth if the name
  is not awaited: spec and flag are those of now, and nobody else holds the Namespace.
  `Fresh` says the same of the caches: they are behind only where an event is pending
  for whoever they concern. The central lemma is `ChangeHeard`, that a child which
  changes wakes its owners; `KeptByCommit` turns it into what every write of anybody
  keeps (`Kept`), and each action is an instance of that, or moves `run`.

`WorkspaceRivalProofs`:

- `OnlyRivalsStrand`: `NoOrphan => StrandedByRivalsOnly`. `NoOrphan` (no owner reference
  stripped; not both an outsider's namespace and a deletion by hand) is needed, see section 3.
  `Known` says that every UID, wherever it turns up, was given to an incarnation that
  wanted that namespace. `Stranding` is the claim for all states: a namespace that is
  wanted and not there is being pursued by somebody who wants it, or the loser has a rival
  that is gone. `StrandingKept` reduces a step to three facts: a Namespace that vanishes
  wakes a name that owned it (`HomesMove`), who owned it either wants it still or is such
  a rival (`SomebodyBlamed`), and who pursues it goes on to do so until it is there
  (`ChasesSynced`). `IstioInformed` is there because `Conv` asks for it; nothing shows that it is needed here.

`WorkspaceStatusProofs`:

- `OnlyOverlookedLie`: `HSpec => []UntruthOverlooked`, however late the Workspace informer is, if
  those of the Istio kinds do not lag (`IstioInformed`, which `Conv` asks for). `Telling` is `Conv`
  for the status: the status of every Workspace tells how it went, or its name is awaited, or a
  reconcile of it is in progress, or its last report is in `overlooked`. When a reconcile
  concludes, either what it read is what is stored, and with an equal base a merge patch says
  all of the new status (`PatchSaysAll`), or the history variable notes it.
- `ReadyMeansBuilt`: `Undisturbed => ReadyIsReal`, if no informer of a child lags; the Workspace informer may.
  `ReadyIsReal` says nothing of a reconcile, so `Built` adds that one of the current
  generation has brought in line every child before its step. `Generations` orders
  reported, read, cached and stored generation and says that equal ones are of the same
  spec, so that a reconcile whose generation is current has the current spec.
  `HomesSafe` says that no Namespace of a living Workspace goes away, from which
  `CollectedSpares` and `SyncSpares` show that neither the garbage collector nor another
  Workspace's reconcile touches what is in line. `Clear` says that caches and flag are
  up to date. Beyond `NoOutsideHand`, which the property itself has, `Undisturbed` excludes
  re-creation of a name, foreground deletion and a discovery call that ends in another HTTP
  status, each of which makes it false (section 3).

`ModuleControllerProofs` (from the assumptions named in `Modules` and `ModuleCluster`):

- `ModuleTypeCorrect`: `TypeOK`, which includes what a reconcile must hold in each phase (`RunFits`):
  past the finalizer patch it works on the patch's answer, and it builds from a template it found.
- `FinalizerGuarded`: `FinalizerGuards` is not inductive: a run past the guard works from a
  snapshot. `Inv` adds what snapshots are worth. `Incarnations`: nothing is ahead of the
  last creation. `CacheHonest`: a cached Module that shows the finalizer and
  no deletion is the one that is there, and has it still; a cached deletion is either
  that Module's or of a predecessor of one that is not guarded yet. `GuardingInv`, `WorkingInv`,
  `RetiringInv`: the same for the run before the guard, between guard and status, and
  in deletion. `OwnersKnown`: owners are Modules that were created. The steps are
  classified once (`Shape`): those that store a Module and those that store a Flux object.
- `StrangersSafe`: `StrangersKept`; a refused object is not written, and one that changed
  hands since it was read is not either, because the update names its version.
- `LifecycleRefinement`: `LifecycleHonoured`, that every step of the controller and of the
  cluster is a step of `ModuleLifecycle` or a stutter. The invariant says why no
  Module comes to own anything unguarded and why nobody inherits: a Flux object made for
  a predecessor carries the predecessor's UID.

`ModuleConvergenceProofs`:

- `NothingHalfway`: `Spec => []Deployed`, without any premise. `Conv` says that each Module with
  a template has its Flux object in order, or its name is awaited, or an event of that
  object is under way, or a reconcile of it still comes to the object or failed at it and
  is retried; that caches are behind only where an event is under way; and that a
  reconcile works from what is stored, or another follows. `Inv` of `FinalizerGuarded`
  carries the incarnations.

`ModuleStatusProofs`:

- `OnlyOverlookedUnmirrored`: `HSpec => []UnmirroredOverlooked`, without any premise. The
  invariant adds to `Conv` that the status mirrors the Flux object, or the name is awaited, an
  event of that object is under way, a reconcile goes on, or the last report is in
  `overlooked`; and that a template which a reconcile did not find is still missing or another
  reconcile follows.

`WorkspaceAdmissionProofs` (from `IdentitiesAssumption`, `NoneAssumption`):

- `AdmissionTypeCorrect`: `TypeOK`; `LabelsFollow`: `LabelsMirror`, inductive with
  `TypeOK`.
- `StaysGoverned`: `Governed`. Its existential ("a trusted user may modify it") is not
  convenient to carry through steps; `InTrustInv` says that the members are trusted and
  one is an admin. `TrustKept` shows that whoever may modify such a Workspace asks for
  trusted members only, `TrustGoverns` that an admin among them may modify it.

Each run satisfies the premises of the theorems about its properties, so it is an instance of
them: the runs show on small instances what the theorems say of all, and section 3 what lies
beyond the premises. Only model-checked:

- `StatusTruthful` in `Rival` and `StatusMirrors` in `Install`: they ask for an informer that keeps
  up and reports that arrive. What holds without that is proved (`OnlyOverlookedLie`,
  `OnlyOverlookedUnmirrored`).
- `DetectorFollowsTruth`: it holds only as long as discovery answers with no status of another
  kind, which is what `Throttled` is about.
- `AskedBeforeGone`: it fails if the Module informer lags (`Race`), so that a theorem would be one
  about an informer that does not; `Handover` checks what is left, through restarts, failed
  calls and template changes.
- `Settles`: liveness under fairness, and with it `ENABLED`, is out of the
  prover's reach.

## 5. Not modelled, and why

- Time: backoff, resync periods, timeouts. Order is all that the properties need.
- The contents of Flux specs, messages, events, logs, display names, versions.
- `TemplateInvalid`: the schema requires exactly one of the two Flux specs, so the
  default branches cannot be reached.
- A missing target namespace of a Module: a failed call, like an `api` fault that does
  not end.
- A RoleBinding with a foreign `roleRef` and names that do not fit a label: listed
  as hazards.
- Two processes at work at once: leader election excludes it, and without leader
  election the manifests run one replica.
- What happens inside one step: `CreateOrUpdate` reads the cache and writes in one (`Sync…`), so a
  Conflict of its own making comes only from a cache that lags or from an `api` fault; the second
  read of the Istio flag (`workspace_controller.go:309`) and the status patch (351) are one, so a
  flip between them is left out, which the re-enqueue of every Workspace after it heals.
- A partial installation of Istio: `istio_detector.go:77` asks for the group version, which is
  served as soon as one of its CRDs is; `Supported` and the watches take all CRDs together.
- Foreground deletion of Modules and finalizers that others put on them: a Module stays for its
  own finalizer only.
- Errors of the cached lists in the map functions and of `resolveCleanupNamespace`: they read
  synced caches.
- The text of labels: only whether those of a Flux object are on.
- Metrics, probes, TLS, manifests, generated code: no state of the program's own.

## 6. The plan

Done, in this order: the Workspace controller and the lease of namespaces; the Module
controller; the webhooks; ownership and labels of Flux objects; the processes; the
life cycle of a Module and the proofs about it; the proofs about the detector and the
observed generation; the proofs about what holds at rest and that Ready is true. What a
continuation would take up:

1. `OnlyRivalsStrand` without `IstioInformed`, from an invariant of Namespaces alone.
2. The composition of the admission model with the Workspace controller, so that
   edits and deletions are those the webhooks admit.
3. Convergence of Workspaces whose discovery document lags, should the detector be
   asked again after a failed Istio write.
4. A model of two workers, should `MaxConcurrentReconciles` be raised.
