------------------------ MODULE WorkspaceController ------------------------
(***************************************************************************)
(* The Workspace controller: one worker that takes a name from the queue,  *)
(* reads the Workspace and the detector's flag, brings the children into   *)
(* line one API call at a time, and reports in the status; and the handler *)
(* that turns CRD events into a refreshed flag and a full queue.           *)
(*                                                                         *)
(* Every API call is a step of its own: between any two of them the        *)
(* cluster may change, caches may move, and the operator may restart.      *)
(***************************************************************************)
EXTENDS WorkspaceCluster

VARIABLES
  run,       \* the reconcile in progress, or None
  mapping,   \* the CRD handler is between Refresh and its answer
  standby    \* the flag of a process that is set up and waits for the lease, or None

vars == <<ws, born, wsCache, wsPend, obj, cache, pend, crds, served, enabled, crdEvent,
          queue, watched, left, run, mapping, standby>>

Runs == [ name : Names, w : WorkspaceRecords, istio : BOOLEAN,
          step : 1 .. Len(Plan) + 1, error : {"", "NamespaceConflict", "ReconcileError"} ]

ASSUME RunsAssumption == None \notin Runs /\ None \notin BOOLEAN

(* Every variable keeps its type: in particular a run never gets past the end
   of the plan, and what is cached, stored and sent are objects of the model. *)
TypeOK ==
  /\ ClusterTypeOK
  /\ run \in Runs \cup {None}
  /\ mapping \in BOOLEAN
  /\ standby \in BOOLEAN \cup {None}

Init ==
  /\ ws = [n \in Names |-> None] /\ wsCache = ws /\ wsPend = {}
  /\ born = [n \in Names |-> 0]
  /\ obj = [o \in Objects |-> None] /\ cache = obj
  /\ pend = [o \in Objects |-> {}]
  /\ crds \in BOOLEAN /\ served = crds /\ enabled = crds /\ watched = crds
  /\ crdEvent = crds /\ mapping = FALSE
  /\ queue = {} /\ run = None /\ standby = None
  /\ left = Budget

-----------------------------------------------------------------------------
(* Fetch. *)

FetchNotFound(n) ==
  /\ run = None
  /\ n \in queue /\ wsCache[n] = None
  /\ queue' = queue \ {n}
  /\ UNCHANGED <<wsVars, objVars, detectorVars, watched, standby, left, run, mapping>>

Fetch(n) ==
  /\ run = None
  /\ n \in queue /\ wsCache[n] # None
  /\ queue' = queue \ {n}
  /\ run' = [name |-> n, w |-> wsCache[n], istio |-> enabled, step |-> 1, error |-> ""]
  /\ UNCHANGED <<wsVars, objVars, detectorVars, watched, standby, left, mapping>>

-----------------------------------------------------------------------------
(* Domain sync: the child of Plan[run.step]. *)

Syncing  == run # None /\ run.error = "" /\ run.step <= Len(Plan)
Kind     == Plan[run.step]
Target   == <<Kind, run.w.spec.namespace>>
RunUid   == <<run.name, run.w.inc>>
Want     == Desired(run.w.spec, Kind, run.istio)
Seen     == cache[Target]
There    == obj[Target]

(* Mutant: a child that is deleted takes the next kind's turn with it. *)
AdvanceSkips == run' = [run EXCEPT !.step = @ + (IF Want = {} THEN 2 ELSE 1)]

Advance  == run' = [run EXCEPT !.step = @ + 1]
Fail(e)  == run' = [run EXCEPT !.error = e]

(* What CreateOrUpdate sends for the child. *)
Created == [owner |-> RunUid, content |-> Want, deleting |-> FALSE]
Updated == [Seen EXCEPT !.owner = RunUid, !.content = Mutated(Kind, @, Want)]

(* The branch the code takes on what it reads. *)
Deletes == Want = {}
Creates == Want # {} /\ Seen = None
Refuses == Want # {} /\ Seen # None /\ ~MayTake(Kind, Seen.owner, RunUid)
Settled == Want # {} /\ Seen # None /\ MayTake(Kind, Seen.owner, RunUid) /\ Updated = Seen
Updates == Want # {} /\ Seen # None /\ MayTake(Kind, Seen.owner, RunUid) /\ Updated # Seen

(* The API server takes a new object into a Namespace that is there and not
   going away, and only of a kind it knows. *)
Creatable(o) ==
  \/ o[1] = "Namespace"
  \/ /\ obj[<<"Namespace", o[2]>>] # None /\ ~Terminating(o[2])
     /\ o[1] \in IstioKinds => crds

(* The call the step makes leaves Sent in the target's place ... *)
Sent == CASE Deletes -> None [] Creates -> Created [] Updates -> Updated

(* ... if the API server takes it. *)
Accepted ==
  \/ Deletes
  \/ Creates /\ There = None /\ Creatable(Target)
  \/ Updates /\ There = Seen

SyncWrite ==
  /\ Syncing /\ Accepted
  /\ Write(Target, Sent, queue)
  /\ Advance
  /\ UNCHANGED <<wsVars, detectorVars, watched, standby, left, mapping>>

(* Nothing differs: no call is made. *)
SyncNothing ==
  /\ Syncing /\ Settled
  /\ Advance
  /\ UNCHANGED <<wsVars, objVars, detectorVars, queue, watched, standby, left, mapping>>

(* NamespaceConflictError. *)
SyncConflict ==
  /\ Syncing /\ Refuses /\ Kind = "Namespace"
  /\ Fail("NamespaceConflict")
  /\ UNCHANGED <<wsVars, objVars, detectorVars, queue, watched, standby, left, mapping>>

(* Another controller owns the child; or the cache was behind, and the API
   server answers AlreadyExists, Conflict or NotFound; or the Namespace is
   gone or going; or Istio's CRDs are not there. *)
SyncRejected ==
  /\ Syncing
  /\ \/ Refuses /\ Kind # "Namespace"
     \/ Creates /\ ~(There = None /\ Creatable(Target))
     \/ Updates /\ There # Seen
  /\ Fail("ReconcileError")
  /\ UNCHANGED <<wsVars, objVars, detectorVars, queue, watched, standby, left, mapping>>

(* Mutant: the error of a failed call is swallowed. *)
SyncFaultIgnored ==
  /\ Syncing /\ Accepted
  /\ Spend("api")
  /\ \E x \in {There, Sent} : Write(Target, x, queue)
  /\ Advance
  /\ UNCHANGED <<wsVars, detectorVars, watched, standby, mapping>>

(* The call fails, and may have had its effect nonetheless. *)
SyncFault ==
  /\ Syncing /\ Accepted
  /\ Spend("api")
  /\ \E x \in {There, Sent} : Write(Target, x, queue)
  /\ Fail("ReconcileError")
  /\ UNCHANGED <<wsVars, detectorVars, watched, standby, mapping>>

-----------------------------------------------------------------------------
(* Status. *)

Reporting == run # None /\ run.error = "" /\ run.step > Len(Plan)

(* The flag is read once more, not taken from the start of the run. *)
NewStatus == Reconciled(run.w, enabled)

(* A status patch names the Workspace, not its UID or resourceVersion. *)
Patched(n, next) ==
  [ws[n] EXCEPT !.status = MergePatch(@, run.w.status, next)]

StatusUnchanged ==
  /\ Reporting
  /\ NewStatus = run.w.status
  /\ run' = None
  /\ UNCHANGED <<wsVars, objVars, detectorVars, queue, watched, standby, left, mapping>>

StatusPatch ==
  /\ Reporting
  /\ NewStatus # run.w.status /\ ws[run.name] # None
  /\ Store(run.name, Patched(run.name, NewStatus), queue)
  /\ run' = None
  /\ UNCHANGED <<born, objVars, detectorVars, watched, standby, left, mapping>>

(* The Workspace is gone, or the call fails: the error is returned, and the
   name requeued. *)
StatusFails ==
  /\ Reporting
  /\ NewStatus # run.w.status
  /\ \/ ws[run.name] = None /\ UNCHANGED <<left, wsVars>> /\ queue' = queue \cup {run.name}
     \/ /\ ws[run.name] # None /\ Spend("api") /\ UNCHANGED born
        /\ \E w \in {ws[run.name], Patched(run.name, NewStatus)} :
             Store(run.name, w, queue \cup {run.name})
  /\ run' = None
  /\ UNCHANGED <<objVars, detectorVars, watched, standby, mapping>>

(* handleReconcileError: patch Ready=False, and requeue a transient error. *)
Requeued == IF run.error = "ReconcileError" THEN queue \cup {run.name} ELSE queue

ReportError ==
  /\ run # None /\ run.error # ""
  /\ IF ws[run.name] = None
     THEN queue' = Requeued /\ UNCHANGED wsVars
     ELSE Store(run.name, Patched(run.name, NotReady(run.w, run.error)), Requeued)
            /\ UNCHANGED born
  /\ run' = None
  /\ UNCHANGED <<objVars, detectorVars, watched, standby, left, mapping>>

(* setReadyConditionFalse fails: that is logged, no more. *)
ReportLost ==
  /\ run # None /\ run.error # ""
  /\ Spend("report")
  /\ queue' = Requeued
  /\ run' = None
  /\ UNCHANGED <<wsVars, objVars, detectorVars, watched, standby, mapping>>

-----------------------------------------------------------------------------
(* The CRD watch: mapCRDToWorkspaces refreshes the flag, then lists. *)

Discovery(outcome) == IF outcome = "answer" THEN UNCHANGED left ELSE Spend(outcome)

RefreshDetector ==
  /\ crdEvent /\ ~mapping
  /\ \E outcome \in Outcomes : Discovery(outcome) /\ RefreshFlag(outcome)
  /\ crdEvent' = FALSE
  /\ mapping' = TRUE
  /\ UNCHANGED <<wsVars, objVars, crds, served, queue, watched, standby, run>>

(* Mutant: only the isolated Workspaces are thought to depend on Istio. *)
EnqueueIsolated ==
  /\ mapping
  /\ mapping' = FALSE
  /\ queue' = queue \cup {n \in Names : wsCache[n] # None /\ wsCache[n].spec.isolated}
  /\ UNCHANGED <<wsVars, objVars, detectorVars, watched, standby, left, run>>

EnqueueAll ==
  /\ mapping
  /\ mapping' = FALSE
  /\ queue' = queue \cup {n \in Names : wsCache[n] # None}
  /\ UNCHANGED <<wsVars, objVars, detectorVars, watched, standby, left, run>>

-----------------------------------------------------------------------------
(* The operator's process: one leads, and another may be set up to follow it
   (an upgrade, or the container starts again after a crash).  SetupWithManager
   asks for Istio once and decides on the watches, before the lease is won. *)

SetUp ==
  /\ standby = None /\ left["restart"] > 0
  /\ \E outcome \in Outcomes :
       /\ standby' = NewDetector(outcome)
       /\ outcome # "answer" => left[outcome] > 0
       /\ left' = [x \in Nuisances |-> IF x \in {"restart", outcome} THEN left[x] - 1 ELSE left[x]]
  /\ UNCHANGED <<wsVars, objVars, detectorVars, queue, watched, run, mapping>>

(* Mutant: nothing is made of the CRDs that are there already. *)
ReplayedNever == FALSE

(* The watch on CRDs begins with those that are there. *)
Replayed == crds

(* mgr.Start, once the lease is won: the caches are filled from the API server,
   and every object they hold counts as created. *)
TakeOver ==
  /\ standby # None /\ (standby => crds)
  /\ standby' = None
  /\ enabled' = standby /\ watched' = standby
  /\ run' = None /\ mapping' = FALSE
  /\ wsCache' = ws /\ wsPend' = {}
  /\ cache' = obj /\ pend' = [o \in Objects |-> {}]
  /\ queue' = {n \in Names : ws[n] # None}
                \cup UNION {OwnerName(obj[o]) : o \in {p \in Objects : p[1] \in IstioKinds => watched'}}
  /\ crdEvent' = Replayed
  /\ UNCHANGED <<ws, born, obj, crds, served, left>>

(* Istio went after the watches were decided on: the caches never fill,
   mgr.Start gives up, the process exits and is set up anew. *)
StartFails ==
  /\ standby = TRUE /\ ~crds
  /\ \E outcome \in Outcomes : Discovery(outcome) /\ standby' = NewDetector(outcome)
  /\ UNCHANGED <<wsVars, objVars, detectorVars, queue, watched, run, mapping>>

Process   == SetUp \/ TakeOver \/ StartFails
Sync      == SyncWrite \/ SyncNothing \/ SyncConflict \/ SyncRejected
Conclude  == StatusUnchanged \/ StatusPatch \/ StatusFails \/ ReportError
Worker    == (\E n \in Names : FetchNotFound(n) \/ Fetch(n)) \/ Sync \/ SyncFault
               \/ Conclude \/ ReportLost
CRDWatch  == RefreshDetector \/ EnqueueAll

Next ==
  \/ Worker
  \/ CRDWatch
  \/ Process
  \/ Environment /\ UNCHANGED <<run, mapping, standby>>

Spec == Init /\ [][Next]_vars

(* What goes on by itself: the worker keeps working and retrying, a process
   that is set up wins the lease in the end, informers deliver, the cluster's
   own controllers finish what they are asked. *)
Fairness ==
  /\ WF_vars((\E n \in Names : FetchNotFound(n) \/ Fetch(n)) \/ Sync \/ Conclude)
  /\ WF_vars(CRDWatch)
  /\ WF_vars(TakeOver \/ StartFails)
  /\ WF_vars((\E o \in Objects : Deliver(o)) /\ UNCHANGED <<run, mapping, standby>>)
  /\ WF_vars((\E n \in Names : DeliverWorkspace(n)) /\ UNCHANGED <<run, mapping, standby>>)
  /\ WF_vars((\E o \in Objects : CollectGarbage(o)) /\ UNCHANGED <<run, mapping, standby>>)
  /\ WF_vars((\E o \in Objects : DrainNamespace(o)) /\ UNCHANGED <<run, mapping, standby>>)
  /\ WF_vars((\E ns \in Namespaces : FinalizeNamespace(ns)) /\ UNCHANGED <<run, mapping, standby>>)
  /\ WF_vars(DiscoveryStep /\ UNCHANGED <<run, mapping, standby>>)

FairSpec == Spec /\ Fairness

-----------------------------------------------------------------------------
(* Rest: nothing is queued, running, undelivered or being deleted, and no
   process is on its way. *)
AtRest ==
  /\ run = None /\ queue = {} /\ ~mapping /\ ~crdEvent /\ served = crds /\ standby = None
  /\ wsCache = ws /\ wsPend = {}
  /\ cache = obj /\ \A o \in Objects : pend[o] = {} /\ ~Doomed(o)
  /\ \A ns \in Namespaces : ~Terminating(ns)
  /\ \A n \in Names : ws[n] # None => ~ws[n].deleting

UidOf(n)     == <<n, ws[n].inc>>
HomeOf(n)    == <<"Namespace", ws[n].spec.namespace>>
HoldsHome(n) == obj[HomeOf(n)] # None /\ obj[HomeOf(n)].owner = UidOf(n)

(* The child of kind k is what Workspace n asks for. *)
InLine(n, k) ==
  LET o    == <<k, ws[n].spec.namespace>>
      want == Desired(ws[n].spec, k, enabled)
  IN IF want = {} THEN obj[o] = None
     ELSE /\ obj[o] # None
          /\ obj[o].owner = UidOf(n)
          /\ Mutated(k, obj[o].content, want) = obj[o].content

(* Drift of an Istio object goes unseen while its kind is not watched. *)
Unseen(k) ==
  /\ k \in IstioKinds /\ ~watched
  /\ \E x \in {"drift", "disown"} : left[x] < Budget[x]

(* At rest, the children of a Workspace that holds its namespace are exactly
   the ones its spec asks for: no error, race, lag or drift leaves the
   cluster half-way with nothing left in the queue to finish it. *)
TargetsConverged ==
  AtRest => \A n \in Names : ws[n] # None /\ HoldsHome(n) =>
              \A k \in Kinds : Unseen(k) \/ InLine(n, k)

(* The status of Workspace n tells how it went: if it holds its namespace, Ready,
   and a reference to each child that is there and to no other; if not,
   NamespaceConflict; and either for the generation that is current. *)
Truthful(n) ==
  LET s == ws[n].status
  IN IF HoldsHome(n)
     THEN /\ s.observedGeneration = ws[n].gen
          /\ s.ready = [reason |-> "Reconciled", generation |-> ws[n].gen]
          /\ \A k \in Kinds :
               Unseen(k) \/ (k \in s.refs <=> obj[<<k, ws[n].spec.namespace>>] # None)
     ELSE /\ s.observedGeneration = ws[n].gen
          /\ s.ready = [reason |-> "NamespaceConflict", generation |-> ws[n].gen]

(* At rest every status tells how it went (updateStatus, and
   handleReconcileError), as long as the Workspace informer keeps up. *)
StatusTruthful == AtRest => \A n \in Names : ws[n] # None => Truthful(n)

(* At rest a Workspace does without a namespace only if a rival it may have lost
   it to is gone, or has gone and come back for another namespace: nothing wakes
   the loser then (NamespaceConflict is not requeued, and an event of a Namespace
   wakes its owner's name).  One that is created again while its namesake's
   namespace still goes away gets its own in the end. *)
GoneRival(n) == \E m \in Names \ {n} : born[m] > 1 \/ (born[m] > 0 /\ ws[m] = None)

StrandedByRivalsOnly ==
  AtRest => \A n \in Names : ws[n] # None /\ obj[HomeOf(n)] = None => GoneRival(n)

(* Nobody but the operator and the users of Workspaces has done anything. *)
NoOutsideHand ==
  \A x \in {"drift", "disown", "squat", "crd", "restart"} : left[x] = Budget[x]

ReadyNow(n) == /\ ws[n] # None
               /\ ws[n].status.ready = [reason |-> "Reconciled", generation |-> ws[n].gen]

(* Whenever, not only at rest, the status of a Workspace says it is Ready for
   its current generation, every child is in line: a failed call, a retry or
   an edit in the middle of a run never lets Ready get ahead of the children. *)
ReadyIsReal ==
  NoOutsideHand => \A n \in Names : ReadyNow(n) => \A k \in Kinds : InLine(n, k)

(* While a Workspace lives, its observed generation never goes back. *)
ObservedGenerationAdvances ==
  [][ \A n \in Names :
        ws[n] # None /\ ws'[n] # None /\ ws'[n].inc = ws[n].inc =>
          ws'[n].status.observedGeneration >= ws[n].status.observedGeneration ]_vars

(* While a process leads, its detector changes its mind only for the truth: no
   failed discovery call flips the flag (Refresh keeps the previous state on error). *)
DetectorFollowsTruth ==
  [][ enabled' # enabled /\ standby' = standby => enabled' = served ]_vars

(* At rest the operator knows whether Istio is there, unless a discovery call
   failed: not even a process that asked long before it came to lead, when
   Istio was not there yet or still was, is left with a stale answer. *)
BeliefTrue ==
  AtRest /\ (\A x \in {"transport", "status"} : left[x] = Budget[x]) => enabled = crds

(* Who holds a Namespace. *)
Holder(ns) ==
  IF obj[<<"Namespace", ns>>] = None THEN None ELSE obj[<<"Namespace", ns>>].owner

Lease == INSTANCE NamespaceLease WITH
  Claimants <- Uids,
  Free      <- None,
  Stranger  <- NoOwner,
  holder    <- [ns \in Namespaces |-> Holder(ns)]

(* The controller implements NamespaceLease: a Namespace that exists changes
   hands only by going away first, or by losing its owner reference to an
   outsider; ReconcileNamespace takes over nobody's. *)
LeaseHonoured == Lease!Spec

(* Once the disturbances are over everything comes to rest: no reconcile
   loops, no deletion hangs. *)
Settles == <>[]AtRest
=============================================================================
