---------------------- MODULE WorkspaceControllerProofs ----------------------
(***************************************************************************)
(* Theorems about the Workspace controller, for every value of the         *)
(* constants: any names, users, namespaces and specs, any informers that   *)
(* lag, and any number of disturbances.                                    *)
(***************************************************************************)
EXTENDS WorkspaceController, TLAPS

(* The plan names the nine kinds, each once. *)
LEMMA PlanKinds ==
  /\ Len(Plan) = 9
  /\ \A i \in 1 .. 9 : Plan[i] \in Kinds
  /\ Kinds = { "Namespace", "admin", "edit", "view", "ResourceQuota", "LimitRange",
               "NetworkPolicy", "PeerAuthentication", "AuthorizationPolicy" }
<1>1. Len(Plan) = 9
  BY DEF Plan
<1>2. Kinds = { "Namespace", "admin", "edit", "view", "ResourceQuota", "LimitRange",
                "NetworkPolicy", "PeerAuthentication", "AuthorizationPolicy" }
  BY DEF Kinds, Plan
<1>3. \A i \in 1 .. 9 : Plan[i] \in Kinds
  BY DEF Kinds
<1> QED
  BY <1>1, <1>2, <1>3

LEMMA PlanLength == Len(Plan) = 9
BY PlanKinds

LEMMA RunsUnfolded ==
  Runs = [ name : Names, w : WorkspaceRecords, istio : BOOLEAN,
           step : 1 .. 10, error : {"", "NamespaceConflict", "ReconcileError"} ]
<1>1. Len(Plan) + 1 = 10
  BY PlanLength
<1> QED
  BY <1>1 DEF Runs

(* What a spec asks for is a set of atoms, whatever the kind. *)
LEMMA DesiredType ==
  ASSUME NEW s \in Specs, NEW k \in Kinds, NEW istio \in BOOLEAN
  PROVE  Desired(s, k, istio) \subseteq Atoms
<1>1. s \in SpecRecords
  BY SpecsAssumption
<1>2. /\ s.namespace \in Namespaces /\ s.quota \subseteq Limits /\ s.limitRange \subseteq Limits
      /\ s.isolated \in BOOLEAN /\ s.allowed \subseteq Namespaces
  BY <1>1 DEF SpecRecords
<1>3. Admits(s) \subseteq Atoms
  BY <1>2 DEF Admits, Atoms
<1> QED
  BY <1>2, <1>3, PlanKinds DEF Desired, Atoms, Roles

(* The statuses the controller computes and the ones a patch leaves. *)
LEMMA StatusType ==
  ASSUME NEW w \in WorkspaceRecords, NEW istio \in BOOLEAN, NEW reason \in Reasons
  PROVE  /\ Reconciled(w, istio) \in StatusRecords
         /\ NotReady(w, reason) \in StatusRecords
BY DEF WorkspaceRecords, StatusRecords, Reconciled, NotReady, Reasons

LEMMA PatchType ==
  ASSUME NEW stored \in StatusRecords, NEW base \in StatusRecords, NEW next \in StatusRecords
  PROVE  MergePatch(stored, base, next) \in StatusRecords
BY DEF StatusRecords, MergePatch

(* The names an event enqueues. *)
LEMMA WokenType ==
  ASSUME NEW o \in Objects, NEW new \in [Objects -> ObjectRecords \cup {None}],
         obj \in [Objects -> ObjectRecords \cup {None}]
  PROVE  Woken(o, new) \subseteq Names
<1>1. ASSUME NEW x \in ObjectRecords \cup {None} PROVE OwnerName(x) \subseteq Names
  BY <1>1, NoneAssumption DEF OwnerName, ObjectRecords, Uids
<1> QED
  BY <1>1 DEF Woken

(* What a write to the children, or to a Workspace, leaves well typed. *)
LEMMA CommitType ==
  ASSUME ClusterTypeOK,
         NEW new \in [Objects -> ObjectRecords \cup {None}], NEW q \in SUBSET Names,
         Commit(new, q)
  PROVE  /\ obj' \in [Objects -> ObjectRecords \cup {None}]
         /\ cache' \in [Objects -> ObjectRecords \cup {None}]
         /\ pend' \in [Objects -> SUBSET Names]
         /\ queue' \subseteq Names
<1>1. \A o \in Objects : Woken(o, new) \subseteq Names
  BY WokenType DEF ClusterTypeOK
<1> QED
  BY <1>1 DEF Commit, ClusterTypeOK

LEMMA WriteType ==
  ASSUME ClusterTypeOK,
         NEW o \in Objects, NEW x \in ObjectRecords \cup {None}, NEW q \in SUBSET Names,
         Write(o, x, q)
  PROVE  /\ obj' \in [Objects -> ObjectRecords \cup {None}]
         /\ cache' \in [Objects -> ObjectRecords \cup {None}]
         /\ pend' \in [Objects -> SUBSET Names]
         /\ queue' \subseteq Names
<1>1. [obj EXCEPT ![o] = x] \in [Objects -> ObjectRecords \cup {None}]
  BY DEF ClusterTypeOK
<1> QED
  BY <1>1, CommitType DEF Write

LEMMA StoreType ==
  ASSUME ClusterTypeOK,
         NEW n \in Names, NEW w \in WorkspaceRecords \cup {None}, NEW q \in SUBSET Names,
         Store(n, w, q)
  PROVE  /\ ws' \in [Names -> WorkspaceRecords \cup {None}]
         /\ wsCache' \in [Names -> WorkspaceRecords \cup {None}]
         /\ wsPend' \subseteq Names
         /\ queue' \subseteq Names
BY DEF Store, ClusterTypeOK

LEMMA SpendType ==
  ASSUME ClusterTypeOK, NEW x \in Nuisances, Spend(x)
  PROVE  left' \in [Nuisances -> Nat]
BY DEF Spend, ClusterTypeOK

(* What is there of an object, and what a deletion leaves of it. *)
LEMMA ObjectType ==
  ASSUME ClusterTypeOK, NEW o \in Objects, obj[o] # None
  PROVE  /\ obj[o] \in ObjectRecords
         /\ AfterDelete(o) \in ObjectRecords \cup {None}
<1>1. obj[o] \in ObjectRecords
  BY DEF ClusterTypeOK
<1>2. [obj[o] EXCEPT !.deleting = TRUE] \in ObjectRecords
  BY <1>1 DEF ObjectRecords
<1> QED
  BY <1>1, <1>2 DEF AfterDelete

LEMMA WorkspaceType ==
  ASSUME ClusterTypeOK, NEW n \in Names, ws[n] # None
  PROVE  /\ ws[n] \in WorkspaceRecords
         /\ \A st \in StatusRecords : [ws[n] EXCEPT !.status = st] \in WorkspaceRecords
<1>1. ws[n] \in WorkspaceRecords
  BY DEF ClusterTypeOK
<1> QED
  BY <1>1 DEF WorkspaceRecords

(* A change of a Workspace that makes a new generation of it. *)
LEMMA GenerationType ==
  ASSUME NEW w \in WorkspaceRecords, NEW s \in Specs, NEW d \in BOOLEAN
  PROVE  /\ [w EXCEPT !.spec = s, !.gen = @ + 1] \in WorkspaceRecords
         /\ [w EXCEPT !.deleting = d, !.gen = @ + 1] \in WorkspaceRecords
<1>1. w.gen + 1 \in Nat
  BY DEF WorkspaceRecords
<1>2. /\ [w EXCEPT !.spec = s, !.gen = w.gen + 1] \in WorkspaceRecords
      /\ [w EXCEPT !.deleting = d, !.gen = w.gen + 1] \in WorkspaceRecords
  BY <1>1 DEF WorkspaceRecords
<1> QED
  BY <1>2, Zenon

(* The current step of a reconcile: the object it is about, and what it
   sends, are well typed. *)
LEMMA StepType ==
  ASSUME TypeOK, Syncing
  PROVE  /\ run \in Runs /\ run.name \in Names /\ run.w \in WorkspaceRecords
         /\ run.step \in 1 .. 9
         /\ Kind \in Kinds /\ Target \in Objects
         /\ RunUid \in Uids
         /\ Want \in SUBSET Atoms
         /\ Created \in ObjectRecords
         /\ Seen # None => Updated \in ObjectRecords
<1>1. run \in Runs
  BY DEF TypeOK, Syncing
<1>2. /\ run.name \in Names /\ run.w \in WorkspaceRecords /\ run.istio \in BOOLEAN
      /\ run.step \in 1 .. 10
  BY <1>1, RunsUnfolded
<1>3. run.step \in 1 .. 9
  <2>1. run.step <= Len(Plan)
    BY DEF Syncing
  <2>2. run.step <= 9
    BY <2>1, PlanLength, Zenon
  <2> QED
    BY <2>2, <1>2
<1>4. Kind \in Kinds
  BY <1>3, PlanKinds DEF Kind
<1>5. /\ run.w.inc \in Nat /\ run.w.spec \in Specs /\ run.w.spec.namespace \in Namespaces
  BY <1>2, SpecsAssumption DEF WorkspaceRecords, SpecRecords
<1>6. Target \in Objects
  BY <1>4, <1>5 DEF Target, Objects
<1>7. RunUid \in Uids
  BY <1>2, <1>5 DEF RunUid, Uids
<1>8. Want \in SUBSET Atoms
  BY <1>2, <1>4, <1>5, DesiredType DEF Want
<1>9. Created \in ObjectRecords
  BY <1>7, <1>8 DEF Created, ObjectRecords
<1>10. ASSUME Seen # None PROVE Updated \in ObjectRecords
  <2>1. Seen \in ObjectRecords
    BY <1>6, <1>10 DEF TypeOK, ClusterTypeOK, Seen
  <2>2. Mutated(Kind, Seen.content, Want) \in SUBSET Atoms
    BY <2>1, <1>8 DEF Mutated, ObjectRecords
  <2> QED
    BY <2>1, <2>2, <1>7 DEF Updated, ObjectRecords
<1> QED
  BY <1>1, <1>2, <1>3, <1>4, <1>6, <1>7, <1>8, <1>9, <1>10

LEMMA SentType ==
  ASSUME TypeOK, Syncing, Accepted
  PROVE  Sent \in ObjectRecords \cup {None}
<1>1. CASE Deletes
  BY <1>1 DEF Sent, Deletes, Creates, Updates
<1>2. CASE Creates
  BY <1>2, StepType DEF Sent, Deletes, Creates, Updates
<1>3. CASE Updates
  BY <1>3, StepType DEF Sent, Deletes, Creates, Updates
<1> QED
  BY <1>1, <1>2, <1>3 DEF Accepted

(* The next run, whatever a step of a reconcile does to it. *)
LEMMA RunType ==
  ASSUME TypeOK, Syncing,
         Advance \/ Fail("NamespaceConflict") \/ Fail("ReconcileError")
  PROVE  run' \in Runs
<1>1. run \in Runs /\ run.step \in 1 .. 9
  BY StepType
<1>2. run.step + 1 \in 1 .. 10
  BY <1>1
<1> QED
  BY <1>1, <1>2, RunsUnfolded DEF Advance, Fail

-----------------------------------------------------------------------------
(* Type correctness, one lemma for each group of actions. *)

(* The Workspace as a status patch leaves it. *)
LEMMA PatchedType ==
  ASSUME TypeOK, run # None, ws[run.name] # None, NEW next \in StatusRecords
  PROVE  /\ run.name \in Names
         /\ Patched(run.name, next) \in WorkspaceRecords
<1> USE DEF TypeOK
<1>1. run.name \in Names /\ run.w.status \in StatusRecords
  BY RunsUnfolded DEF WorkspaceRecords
<1>2. ws[run.name].status \in StatusRecords
  BY <1>1, WorkspaceType DEF WorkspaceRecords
<1>3. MergePatch(ws[run.name].status, run.w.status, next) \in StatusRecords
  BY <1>1, <1>2, PatchType
<1> QED
  BY <1>1, <1>3, WorkspaceType DEF Patched

LEMMA WorkerTypes ==
  ASSUME TypeOK, Worker
  PROVE  TypeOK'
<1> USE DEF TypeOK, wsVars, objVars, detectorVars
<1>1. ASSUME NEW n \in Names, FetchNotFound(n) PROVE TypeOK'
  BY <1>1 DEF FetchNotFound, ClusterTypeOK, DetectorTypeOK
<1>2. ASSUME NEW n \in Names, Fetch(n) PROVE TypeOK'
  <2>1. wsCache[n] \in WorkspaceRecords /\ enabled \in BOOLEAN
    BY <1>2 DEF Fetch, ClusterTypeOK, DetectorTypeOK
  <2>2. run' = [name |-> n, w |-> wsCache[n], istio |-> enabled, step |-> 1, error |-> ""]
    BY <1>2 DEF Fetch
  <2>3. 1 \in 1 .. 10
    OBVIOUS
  <2>4. run' \in Runs
    BY <2>1, <2>2, <2>3, RunsUnfolded
  <2> QED
    BY <1>2, <2>4 DEF Fetch, ClusterTypeOK, DetectorTypeOK
<1>3. CASE SyncWrite
  <2>1. run' \in Runs
    BY <1>3, RunType DEF SyncWrite
  <2>2. Target \in Objects /\ Sent \in ObjectRecords \cup {None}
    BY <1>3, StepType, SentType DEF SyncWrite
  <2>3. /\ obj' \in [Objects -> ObjectRecords \cup {None}]
        /\ cache' \in [Objects -> ObjectRecords \cup {None}]
        /\ pend' \in [Objects -> SUBSET Names]
        /\ queue' \subseteq Names
    <3>1. queue \in SUBSET Names /\ ClusterTypeOK
      BY DEF ClusterTypeOK
    <3> QED
      BY <1>3, <2>2, <3>1, WriteType DEF SyncWrite
  <2> QED
    BY <1>3, <2>1, <2>3 DEF SyncWrite, ClusterTypeOK, DetectorTypeOK
<1>4. CASE SyncNothing
  BY <1>4, RunType DEF SyncNothing, ClusterTypeOK, DetectorTypeOK
<1>5. CASE SyncConflict
  BY <1>5, RunType DEF SyncConflict, ClusterTypeOK, DetectorTypeOK
<1>6. CASE SyncRejected
  BY <1>6, RunType DEF SyncRejected, ClusterTypeOK, DetectorTypeOK
<1>7. CASE SyncFault
  <2>1. run' \in Runs
    BY <1>7, RunType DEF SyncFault
  <2>2. PICK x \in {There, Sent} : Write(Target, x, queue)
    BY <1>7 DEF SyncFault
  <2>3. Target \in Objects /\ x \in ObjectRecords \cup {None}
    BY <1>7, StepType, SentType DEF SyncFault, There, ClusterTypeOK
  <2>4. queue \in SUBSET Names /\ ClusterTypeOK
    BY DEF ClusterTypeOK
  <2>5. /\ obj' \in [Objects -> ObjectRecords \cup {None}]
        /\ cache' \in [Objects -> ObjectRecords \cup {None}]
        /\ pend' \in [Objects -> SUBSET Names]
        /\ queue' \subseteq Names
    BY <2>2, <2>3, <2>4, WriteType
  <2>6. left' \in [Nuisances -> Nat]
    BY <1>7, SpendType, "api" \in Nuisances DEF SyncFault, Nuisances
  <2> QED
    BY <1>7, <2>1, <2>5, <2>6 DEF SyncFault, ClusterTypeOK, DetectorTypeOK
<1>8. CASE StatusUnchanged
  BY <1>8 DEF StatusUnchanged, ClusterTypeOK, DetectorTypeOK
<1>9. ASSUME run # None,
             NEW next \in StatusRecords, ws[run.name] # None
      PROVE  /\ run.name \in Names
             /\ Patched(run.name, next) \in WorkspaceRecords
  BY <1>9, PatchedType
<1>10. ASSUME run # None PROVE NewStatus \in StatusRecords
  BY <1>10, StatusType, RunsUnfolded DEF NewStatus, ClusterTypeOK, DetectorTypeOK, Reasons
<1>11. CASE StatusPatch
  <2>1. run.name \in Names /\ Patched(run.name, NewStatus) \in WorkspaceRecords
    BY <1>9, <1>10, <1>11 DEF StatusPatch, Reporting
  <2>2. queue \in SUBSET Names /\ ClusterTypeOK
    BY DEF ClusterTypeOK
  <2>3. /\ ws' \in [Names -> WorkspaceRecords \cup {None}]
        /\ wsCache' \in [Names -> WorkspaceRecords \cup {None}]
        /\ wsPend' \subseteq Names
        /\ queue' \subseteq Names
    BY <1>11, <2>1, <2>2, StoreType DEF StatusPatch
  <2> QED
    BY <1>11, <2>3 DEF StatusPatch, ClusterTypeOK, DetectorTypeOK
<1>12. CASE StatusFails
  <2>1. run # None /\ run.name \in Names
    BY <1>12, RunsUnfolded DEF StatusFails, Reporting
  <2>2. CASE ws[run.name] = None
    BY <1>12, <2>1, <2>2 DEF StatusFails, ClusterTypeOK, DetectorTypeOK
  <2>3. CASE ws[run.name] # None
    <3>1. PICK w \in {ws[run.name], Patched(run.name, NewStatus)} :
            Store(run.name, w, queue \cup {run.name})
      BY <1>12, <2>3 DEF StatusFails
    <3>2. w \in WorkspaceRecords \cup {None}
      BY <1>9, <1>10, <2>1, <2>3, <3>1, WorkspaceType
    <3>3. queue \cup {run.name} \in SUBSET Names /\ ClusterTypeOK
      BY <2>1 DEF ClusterTypeOK
    <3>4. /\ ws' \in [Names -> WorkspaceRecords \cup {None}]
          /\ wsCache' \in [Names -> WorkspaceRecords \cup {None}]
          /\ wsPend' \subseteq Names
          /\ queue' \subseteq Names
      BY <2>1, <3>1, <3>2, <3>3, StoreType
    <3>5. left' \in [Nuisances -> Nat]
      BY <1>12, <2>3, SpendType, "api" \in Nuisances DEF StatusFails, Nuisances
    <3> QED
      BY <1>12, <2>3, <3>4, <3>5 DEF StatusFails, ClusterTypeOK, DetectorTypeOK
  <2> QED
    BY <2>2, <2>3
<1>13. ASSUME run # None PROVE Requeued \in SUBSET Names
  BY <1>13, RunsUnfolded DEF Requeued, ClusterTypeOK
<1>14. CASE ReportError
  <2>1. run # None /\ run.name \in Names /\ Requeued \in SUBSET Names
    BY <1>13, <1>14, RunsUnfolded DEF ReportError
  <2>2. CASE ws[run.name] = None
    BY <1>14, <2>1, <2>2 DEF ReportError, ClusterTypeOK, DetectorTypeOK
  <2>3. CASE ws[run.name] # None
    <3>1. NotReady(run.w, run.error) \in StatusRecords
      BY <1>14, <2>1, StatusType, RunsUnfolded DEF ReportError, Reasons
    <3>2. Patched(run.name, NotReady(run.w, run.error)) \in WorkspaceRecords
      BY <1>9, <2>1, <2>3, <3>1
    <3>3. /\ ws' \in [Names -> WorkspaceRecords \cup {None}]
          /\ wsCache' \in [Names -> WorkspaceRecords \cup {None}]
          /\ wsPend' \subseteq Names
          /\ queue' \subseteq Names
      BY <1>14, <2>1, <2>3, <3>2, StoreType DEF ReportError
    <3> QED
      BY <1>14, <2>3, <3>3 DEF ReportError, ClusterTypeOK, DetectorTypeOK
  <2> QED
    BY <2>2, <2>3
<1>15. CASE ReportLost
  <2>1. left' \in [Nuisances -> Nat]
    BY <1>15, SpendType, "report" \in Nuisances DEF ReportLost, Nuisances
  <2> QED
    BY <1>13, <1>15, <2>1 DEF ReportLost, ClusterTypeOK, DetectorTypeOK
<1> QED
  BY <1>1, <1>2, <1>3, <1>4, <1>5, <1>6, <1>7, <1>8, <1>11, <1>12, <1>14, <1>15
     DEF Worker, Sync, Conclude

LEMMA CRDWatchTypes ==
  ASSUME TypeOK, CRDWatch
  PROVE  TypeOK'
<1> USE DEF TypeOK, ClusterTypeOK, DetectorTypeOK, wsVars, objVars, detectorVars
<1>1. CASE RefreshDetector
  <2>1. PICK outcome \in Outcomes : Discovery(outcome) /\ RefreshFlag(outcome)
    BY <1>1 DEF RefreshDetector
  <2>2. enabled' \in BOOLEAN
    BY <2>1 DEF RefreshFlag, Refreshed, Supported
  <2>3. left' \in [Nuisances -> Nat]
    BY <2>1, SpendType DEF Discovery, Outcomes, Nuisances
  <2> QED
    BY <1>1, <2>2, <2>3 DEF RefreshDetector
<1>2. CASE EnqueueAll
  BY <1>2 DEF EnqueueAll
<1> QED
  BY <1>1, <1>2 DEF CRDWatch

LEMMA ProcessTypes ==
  ASSUME TypeOK, Process
  PROVE  TypeOK'
<1> USE DEF TypeOK, ClusterTypeOK, DetectorTypeOK, wsVars, objVars, detectorVars
<1>d. \A outcome \in Outcomes : NewDetector(outcome) \in BOOLEAN
  BY DEF NewDetector, Refreshed, Supported
<1>1. CASE SetUp
  <2>1. PICK outcome \in Outcomes :
          /\ standby' = NewDetector(outcome)
          /\ outcome # "answer" => left[outcome] > 0
          /\ left' = [x \in Nuisances |-> IF x \in {"restart", outcome} THEN left[x] - 1 ELSE left[x]]
    BY <1>1 DEF SetUp
  <2>2. \A x \in Nuisances : x \in {"restart", outcome} => left[x] \in Nat /\ left[x] > 0
    BY <1>1, <2>1 DEF SetUp, Outcomes, Nuisances
  <2>3. left' \in [Nuisances -> Nat]
    BY <2>1, <2>2
  <2> QED
    BY <1>1, <1>d, <2>1, <2>3 DEF SetUp
<1>2. CASE TakeOver
  <2>1. standby \in BOOLEAN
    BY <1>2 DEF TakeOver
  <2>2. \A o \in Objects : OwnerName(obj[o]) \subseteq Names
    BY NoneAssumption DEF OwnerName, ObjectRecords, Uids
  <2>3. queue' \subseteq Names
    BY <1>2, <2>2 DEF TakeOver
  <2>4. crdEvent' \in BOOLEAN
    BY <1>2 DEF TakeOver, Replayed
  <2> QED
    BY <1>2, <2>1, <2>3, <2>4 DEF TakeOver
<1>3. CASE StartFails
  <2>1. PICK outcome \in Outcomes : Discovery(outcome) /\ standby' = NewDetector(outcome)
    BY <1>3 DEF StartFails
  <2>2. left' \in [Nuisances -> Nat]
    BY <2>1, SpendType DEF Discovery, Outcomes, Nuisances
  <2> QED
    BY <1>3, <1>d, <2>1, <2>2 DEF StartFails
<1> QED
  BY <1>1, <1>2, <1>3 DEF Process

(* A write of the environment to one child, with nothing else changed. *)
LEMMA OutsideWriteTypes ==
  ASSUME TypeOK, NEW o \in Objects, NEW x \in ObjectRecords \cup {None},
         Write(o, x, queue), left' \in [Nuisances -> Nat],
         UNCHANGED <<wsVars, detectorVars, watched, run, mapping, standby>>
  PROVE  TypeOK'
<1>1. queue \in SUBSET Names /\ ClusterTypeOK
  BY DEF TypeOK, ClusterTypeOK
<1>2. /\ obj' \in [Objects -> ObjectRecords \cup {None}]
      /\ cache' \in [Objects -> ObjectRecords \cup {None}]
      /\ pend' \in [Objects -> SUBSET Names]
      /\ queue' \subseteq Names
  BY <1>1, WriteType
<1> QED
  BY <1>2 DEF TypeOK, ClusterTypeOK, DetectorTypeOK, wsVars, detectorVars

(* The same for a Workspace. *)
LEMMA OutsideStoreTypes ==
  ASSUME TypeOK, NEW n \in Names, NEW w \in WorkspaceRecords \cup {None},
         Store(n, w, queue), left' \in [Nuisances -> Nat], born' \in [Names -> Nat],
         UNCHANGED <<objVars, detectorVars, watched, run, mapping, standby>>
  PROVE  TypeOK'
<1>1. queue \in SUBSET Names /\ ClusterTypeOK
  BY DEF TypeOK, ClusterTypeOK
<1>2. /\ ws' \in [Names -> WorkspaceRecords \cup {None}]
      /\ wsCache' \in [Names -> WorkspaceRecords \cup {None}]
      /\ wsPend' \subseteq Names
      /\ queue' \subseteq Names
  BY <1>1, StoreType
<1> QED
  BY <1>2 DEF TypeOK, ClusterTypeOK, DetectorTypeOK, objVars, detectorVars

LEMMA EnvironmentTypes ==
  ASSUME TypeOK, Environment, UNCHANGED <<run, mapping, standby>>
  PROVE  TypeOK'
<1> USE DEF wsVars, objVars, detectorVars
<1>t. /\ ClusterTypeOK /\ left \in [Nuisances -> Nat] /\ born \in [Names -> Nat]
      /\ queue \in SUBSET Names
  BY DEF TypeOK, ClusterTypeOK
<1>s. ASSUME NEW x \in Nuisances, Spend(x) PROVE left' \in [Nuisances -> Nat]
  BY <1>s, <1>t, SpendType
<1>n. /\ \A ns \in Namespaces : <<"Namespace", ns>> \in Objects
      /\ {"create", "edit", "delete", "foreground", "squat", "drift", "disown", "crd"}
           \subseteq Nuisances
  BY PlanKinds DEF Objects, Nuisances
<1>1. ASSUME NEW o \in Objects, Deliver(o) PROVE TypeOK'
  BY <1>1 DEF Deliver, TypeOK, ClusterTypeOK, DetectorTypeOK
<1>2. ASSUME NEW o \in Objects, CollectGarbage(o) PROVE TypeOK'
  <2>1. AfterDelete(o) \in ObjectRecords \cup {None}
    BY <1>2, <1>t, ObjectType DEF CollectGarbage, Doomed
  <2> QED
    BY <1>2, <1>t, <2>1, OutsideWriteTypes DEF CollectGarbage
<1>3. ASSUME NEW o \in Objects, DrainNamespace(o) PROVE TypeOK'
  BY <1>3, <1>t, OutsideWriteTypes DEF DrainNamespace
<1>4. ASSUME NEW ns \in Namespaces, FinalizeNamespace(ns) PROVE TypeOK'
  BY <1>4, <1>t, <1>n, OutsideWriteTypes DEF FinalizeNamespace
<1>5. ASSUME NEW o \in Objects, Drift(o) PROVE TypeOK'
  <2>1. PICK x \in {AfterDelete(o), [obj[o] EXCEPT !.content = {}]} : Write(o, x, queue)
    BY <1>5 DEF Drift
  <2>2. obj[o] \in ObjectRecords /\ AfterDelete(o) \in ObjectRecords \cup {None}
    BY <1>5, <1>t, ObjectType DEF Drift
  <2>3. [obj[o] EXCEPT !.content = {}] \in ObjectRecords
    BY <2>2 DEF ObjectRecords
  <2>4. left' \in [Nuisances -> Nat]
    BY <1>5, <1>s, <1>n DEF Drift
  <2> QED
    BY <1>5, <2>1, <2>2, <2>3, <2>4, OutsideWriteTypes DEF Drift
<1>6. ASSUME NEW o \in Objects, Disown(o) PROVE TypeOK'
  <2>1. obj[o] \in ObjectRecords
    BY <1>6, <1>t, ObjectType DEF Disown
  <2>2. [obj[o] EXCEPT !.owner = NoOwner] \in ObjectRecords
    BY <2>1 DEF ObjectRecords
  <2>3. left' \in [Nuisances -> Nat]
    BY <1>6, <1>s, <1>n DEF Disown
  <2> QED
    BY <1>6, <2>2, <2>3, OutsideWriteTypes DEF Disown
<1>7. ASSUME NEW ns \in Namespaces, Squat(ns) PROVE TypeOK'
  <2>1. [owner |-> NoOwner, content |-> {}, deleting |-> FALSE] \in ObjectRecords
    BY DEF ObjectRecords
  <2>2. left' \in [Nuisances -> Nat]
    BY <1>7, <1>s, <1>n DEF Squat
  <2> QED
    BY <1>7, <1>n, <2>1, <2>2, OutsideWriteTypes DEF Squat
<1>8. ASSUME NEW n \in Names, DeliverWorkspace(n) PROVE TypeOK'
  BY <1>8 DEF DeliverWorkspace, TypeOK, ClusterTypeOK, DetectorTypeOK
<1>9. ASSUME NEW n \in Names, FinishForeground(n) PROVE TypeOK'
  BY <1>9, <1>t, OutsideStoreTypes DEF FinishForeground
<1>10. ASSUME NEW n \in Names, DeleteWorkspace(n) PROVE TypeOK'
  BY <1>10, <1>t, <1>s, <1>n, OutsideStoreTypes DEF DeleteWorkspace
<1>11. ASSUME NEW n \in Names, DeleteInForeground(n) PROVE TypeOK'
  <2>1. ws[n] \in WorkspaceRecords
    BY <1>11, <1>t, WorkspaceType DEF DeleteInForeground
  <2>2. [ws[n] EXCEPT !.deleting = TRUE, !.gen = @ + 1] \in WorkspaceRecords
    BY <2>1, SpecsAssumption, GenerationType DEF WorkspaceRecords
  <2> QED
    BY <1>11, <1>t, <1>s, <1>n, <2>2, OutsideStoreTypes DEF DeleteInForeground
<1>12. ASSUME NEW n \in Names, NEW s \in Specs, CreateWorkspace(n, s) PROVE TypeOK'
  <2>1. [inc |-> born[n] + 1, gen |-> 1, spec |-> s, status |-> NoStatus, deleting |-> FALSE]
          \in WorkspaceRecords
    BY <1>t DEF WorkspaceRecords, StatusRecords, NoStatus, Reasons
  <2>2. born' \in [Names -> Nat]
    BY <1>12, <1>t DEF CreateWorkspace
  <2> QED
    BY <1>12, <1>t, <1>s, <1>n, <2>1, <2>2, OutsideStoreTypes DEF CreateWorkspace
<1>13. ASSUME NEW n \in Names, NEW s \in Specs, EditWorkspace(n, s) PROVE TypeOK'
  <2>1. ws[n] \in WorkspaceRecords
    BY <1>13, <1>t, WorkspaceType DEF EditWorkspace
  <2>2. [ws[n] EXCEPT !.spec = s, !.gen = @ + 1] \in WorkspaceRecords
    BY <2>1, GenerationType
  <2> QED
    BY <1>13, <1>t, <1>s, <1>n, <2>2, OutsideStoreTypes DEF EditWorkspace
<1>14. CASE InstallOrRemoveIstio
  <2> DEFINE new == [o \in Objects |-> IF crds /\ o[1] \in IstioKinds THEN None ELSE obj[o]]
  <2>1. new \in [Objects -> ObjectRecords \cup {None}]
    BY <1>t DEF ClusterTypeOK
  <2>2. Commit(new, queue)
    BY <1>14 DEF InstallOrRemoveIstio
  <2>3. /\ obj' \in [Objects -> ObjectRecords \cup {None}]
        /\ cache' \in [Objects -> ObjectRecords \cup {None}]
        /\ pend' \in [Objects -> SUBSET Names]
        /\ queue' \subseteq Names
    BY <1>t, <2>1, <2>2, CommitType
  <2>4. left' \in [Nuisances -> Nat]
    BY <1>14, <1>s, <1>n DEF InstallOrRemoveIstio
  <2> QED
    BY <1>14, <2>3, <2>4
       DEF InstallOrRemoveIstio, FlipCRDs, TypeOK, ClusterTypeOK, DetectorTypeOK
<1>15. CASE TouchIstio
  <2>1. left' \in [Nuisances -> Nat]
    BY <1>15, <1>s, <1>n DEF TouchIstio
  <2> QED
    BY <1>15, <2>1 DEF TouchIstio, TouchCRDs, TypeOK, ClusterTypeOK, DetectorTypeOK
<1>16. CASE DiscoveryStep
  BY <1>16 DEF DiscoveryStep, DiscoveryCatchesUp, TypeOK, ClusterTypeOK, DetectorTypeOK
<1> QED
  BY <1>1, <1>2, <1>3, <1>4, <1>5, <1>6, <1>7, <1>8, <1>9, <1>10, <1>11, <1>12, <1>13,
     <1>14, <1>15, <1>16 DEF Environment

(* The controller's state keeps its types: what it reads is always a
   Workspace or nothing, a reconcile never runs past its plan, and what it
   writes is something the API server can hold. *)
THEOREM TypeCorrect == Spec => []TypeOK
<1>1. Init => TypeOK
  <2> SUFFICES ASSUME Init PROVE TypeOK
    OBVIOUS
  <2> QED
    BY BudgetAssumption DEF Init, TypeOK, ClusterTypeOK, DetectorTypeOK
<1>2. TypeOK /\ [Next]_vars => TypeOK'
  <2> SUFFICES ASSUME TypeOK, [Next]_vars PROVE TypeOK'
    OBVIOUS
  <2>1. CASE UNCHANGED vars
    BY <2>1 DEF vars, TypeOK, ClusterTypeOK, DetectorTypeOK
  <2> QED
    BY <2>1, WorkerTypes, CRDWatchTypes, ProcessTypes, EnvironmentTypes DEF Next
<1> QED
  BY <1>1, <1>2, PTL DEF Spec

(* What the variables hold. *)
LEMMA StateTypes ==
  ASSUME TypeOK
  PROVE  /\ ws \in [Names -> WorkspaceRecords \cup {None}]
         /\ wsCache \in [Names -> WorkspaceRecords \cup {None}] /\ wsPend \in SUBSET Names
         /\ obj \in [Objects -> ObjectRecords \cup {None}]
         /\ cache \in [Objects -> ObjectRecords \cup {None}] /\ pend \in [Objects -> SUBSET Names]
         /\ queue \in SUBSET Names /\ enabled \in BOOLEAN /\ left \in [Nuisances -> Nat]
         /\ born \in [Names -> Nat]
BY DEF TypeOK, ClusterTypeOK, DetectorTypeOK

-----------------------------------------------------------------------------
(* The budget of disturbances. *)

(* Whatever may happen is paid for, and nothing is paid back. *)
Paid == \A x \in Nuisances : left'[x] <= left[x]

LEMMA SpendPaid ==
  ASSUME TypeOK, NEW x \in Nuisances, Spend(x)
  PROVE  Paid
BY StateTypes DEF Spend, Paid

(* Every disturbance is paid for. *)
LEMMA BudgetSteps ==
  ASSUME TypeOK, [Next]_vars
  PROVE  Paid
<1>0. left \in [Nuisances -> Nat]
  BY StateTypes
<1>s. ASSUME left' = left \/ \E x \in Nuisances : Spend(x) PROVE Paid
  <2>1. CASE left' = left
    BY <1>0, <2>1 DEF Paid
  <2>2. CASE \E x \in Nuisances : Spend(x)
    BY <2>2, SpendPaid
  <2> QED BY <1>s, <2>1, <2>2
<1> USE DEF Nuisances
<1>1. CASE Worker
  <2>1. left' = left \/ Spend("api") \/ Spend("report")
    BY <1>1 DEF Worker, Sync, Conclude, FetchNotFound, Fetch, SyncWrite, SyncNothing, SyncConflict,
       SyncRejected, SyncFault, StatusUnchanged, StatusPatch, StatusFails, ReportError, ReportLost
  <2> QED BY <1>s, <2>1
<1>2. CASE CRDWatch \/ StartFails
  <2>1. ASSUME NEW outcome \in Outcomes, Discovery(outcome)
        PROVE  left' = left \/ Spend("transport") \/ Spend("status")
    BY <2>1 DEF Discovery, Outcomes
  <2>2. left' = left \/ Spend("transport") \/ Spend("status")
    BY <1>2, <2>1 DEF CRDWatch, RefreshDetector, EnqueueAll, StartFails
  <2> QED BY <1>s, <2>2
<1>3. CASE SetUp
  <2>1. PICK outcome \in Outcomes :
          left' = [x \in Nuisances |-> IF x \in {"restart", outcome} THEN left[x] - 1 ELSE left[x]]
    BY <1>3 DEF SetUp
  <2> QED BY <1>0, <2>1 DEF Paid
<1>4. CASE TakeOver
  BY <1>s, <1>4 DEF TakeOver
<1>5. CASE Environment
  <2>1. left' = left \/ \E x \in Nuisances : Spend(x)
    BY <1>5 DEF Environment, Deliver, CollectGarbage, DrainNamespace, Drift, Disown, DeliverWorkspace,
       FinishForeground, DeleteWorkspace, DeleteInForeground, CreateWorkspace, EditWorkspace,
       FinalizeNamespace, Squat, InstallOrRemoveIstio, TouchIstio, DiscoveryStep
  <2> QED BY <1>s, <2>1
<1>6. CASE UNCHANGED vars
  BY <1>s, <1>6 DEF vars
<1> QED BY <1>1, <1>2, <1>3, <1>4, <1>5, <1>6 DEF Next, Process

(* What is left of the budget was in it. *)
Ledger == \A x \in Nuisances : left[x] <= Budget[x]

LEMMA LedgerHolds == Spec => []Ledger
<1>1. Init => Ledger
  BY BudgetAssumption DEF Init, Ledger
<1>2. TypeOK /\ TypeOK' /\ Ledger /\ [Next]_vars => Ledger'
  <2> SUFFICES ASSUME TypeOK, TypeOK', Ledger, [Next]_vars, NEW x \in Nuisances
               PROVE  left'[x] <= Budget[x]
    BY DEF Ledger
  <2>1. left[x] \in Nat /\ left'[x] \in Nat /\ Budget[x] \in Nat
    BY BudgetAssumption DEF TypeOK, ClusterTypeOK
  <2>2. left'[x] <= left[x] /\ left[x] <= Budget[x]
    BY BudgetSteps DEF Paid, Ledger
  <2> QED BY <2>1, <2>2
<1> QED BY <1>1, <1>2, TypeCorrect, PTL DEF Spec

-----------------------------------------------------------------------------
(* The controller implements NamespaceLease. *)

Holders == [ns \in Namespaces |-> Holder(ns)]

(* The ways a Namespace may change from a to b. *)
LeaseMove(a, b) ==
  \/ a = None
  \/ b = None
  \/ a # None /\ b # None /\ (b.owner = a.owner \/ b.owner = NoOwner)

(* A step that moves at most one Namespace, and moves it as a lease may
   move, is a step of the abstract specification or changes nothing of it. *)
LEMMA LeaseStep ==
  ASSUME TypeOK, TypeOK', NEW o \in Objects,
         \A p \in Objects : p # o /\ p[1] = "Namespace" => obj'[p] = obj[p],
         o[1] = "Namespace" => LeaseMove(obj[o], obj'[o])
  PROVE  [Lease!Next]_Holders
<1> DEFINE Home(ns) == <<"Namespace", ns>>
<1>1. \A ns \in Namespaces : Home(ns) \in Objects /\ Home(ns)[1] = "Namespace"
  BY PlanKinds DEF Objects
<1>2. \A ns \in Namespaces : Holder(ns) \in Uids \cup {None, NoOwner}
  BY <1>1 DEF Holder, TypeOK, ClusterTypeOK, ObjectRecords
<1>3. \A ns \in Namespaces : Holder(ns)' \in Uids \cup {None, NoOwner}
  BY <1>1 DEF Holder, TypeOK, ClusterTypeOK, ObjectRecords
<1>4. \A ns \in Namespaces : Home(ns) # o => Holder(ns)' = Holder(ns)
  BY <1>1 DEF Holder
<1>5. CASE \A ns \in Namespaces : Holder(ns)' = Holder(ns)
  BY <1>5 DEF Holders
<1>6. ASSUME NEW ns \in Namespaces, Holder(ns)' # Holder(ns)
      PROVE  Lease!Next
  <2>1. Home(ns) = o
    BY <1>4, <1>6
  <2>2. \A other \in Namespaces \ {ns} : Holder(other)' = Holder(other)
    BY <1>4, <2>1
  <2>3. LeaseMove(obj[Home(ns)], obj'[Home(ns)])
    BY <1>1, <2>1
  <2>4. \/ Holder(ns) = None /\ Holder(ns)' \in Uids
        \/ Holder(ns) = None /\ Holder(ns)' = NoOwner
        \/ Holder(ns) # None /\ Holder(ns)' = None
        \/ Holder(ns) \in Uids /\ Holder(ns)' = NoOwner
    BY <1>2, <1>3, <1>6, <2>3, NoneAssumption DEF Holder, LeaseMove
  <2>5. \/ Lease!Acquire(ns) \/ Lease!Appear(ns) \/ Lease!Vacate(ns) \/ Lease!Disown(ns)
    BY <2>4 DEF Lease!Acquire, Lease!Appear, Lease!Vacate, Lease!Disown
  <2> QED
    BY <1>3, <2>2, <2>5 DEF Lease!Next, Lease!Holders
<1> QED
  BY <1>5, <1>6

(* A reconcile writes a Namespace that it has created or that it has seen to
   be its own, as it still is. *)
LEMMA SentIsLeaseMove ==
  ASSUME TypeOK, Syncing, Accepted, Kind = "Namespace"
  PROVE  LeaseMove(There, Sent)
<1>1. CASE Deletes
  BY <1>1 DEF Deletes, Creates, Updates, Sent, LeaseMove
<1>2. CASE Creates
  BY <1>2 DEF Accepted, Deletes, Creates, Updates, LeaseMove
<1>3. CASE Updates
  <2>1. There = Seen /\ Seen # None /\ Seen.owner = RunUid /\ Sent = Updated
    BY <1>3 DEF Accepted, Deletes, Creates, Updates, Sent, MayTake
  <2>2. Seen \in ObjectRecords /\ Updated.owner = RunUid
    BY <2>1, StepType DEF TypeOK, ClusterTypeOK, Seen, Updated, ObjectRecords
  <2> QED
    BY <2>1, <2>2, StepType, NoneAssumption DEF LeaseMove
<1> QED
  BY <1>1, <1>2, <1>3 DEF Accepted

(* Everything that does not write children leaves every holder alone. *)
LEMMA LeaseStutter ==
  ASSUME UNCHANGED obj
  PROVE  [Lease!Next]_Holders
BY DEF Holders, Holder

(* One write is one lease step. *)
LEMMA LeaseWrite ==
  ASSUME TypeOK, TypeOK', NEW o \in Objects, NEW x, NEW q, Write(o, x, q),
         o[1] = "Namespace" => LeaseMove(obj[o], x)
  PROVE  [Lease!Next]_Holders
<1>1. obj' = [obj EXCEPT ![o] = x]
  BY DEF Write, Commit
<1>2. obj'[o] = x /\ \A p \in Objects : p # o => obj'[p] = obj[p]
  BY <1>1 DEF TypeOK, ClusterTypeOK
<1> QED
  BY <1>2, LeaseStep

(* For all values of the constants the controller is a lease of Namespaces. *)
THEOREM LeaseRefinement == Spec => LeaseHonoured
<1>1. Init => Lease!Init
  BY PlanKinds DEF Init, Lease!Init, Holder, Objects
<1>2. TypeOK /\ TypeOK' /\ [Next]_vars => [Lease!Next]_Holders
  <2> SUFFICES ASSUME TypeOK, TypeOK', [Next]_vars PROVE [Lease!Next]_Holders
    OBVIOUS
  <2>n. \A ns \in Namespaces : <<"Namespace", ns>> \in Objects
    BY PlanKinds DEF Objects
  <2>1. CASE UNCHANGED vars
    BY <2>1, LeaseStutter DEF vars
  <2>2. CASE SyncWrite
    BY <2>2, StepType, SentIsLeaseMove, LeaseWrite DEF SyncWrite, There, Target
  <2>3. CASE SyncFault
    <3>1. PICK x \in {There, Sent} : Write(Target, x, queue)
      BY <2>3 DEF SyncFault
    <3>2. Target[1] = "Namespace" => LeaseMove(There, x)
      BY <2>3, SentIsLeaseMove DEF SyncFault, Target, LeaseMove
    <3> QED
      BY <2>3, <3>1, <3>2, StepType, LeaseWrite DEF SyncFault, There
  <2>4. CASE Worker /\ ~SyncWrite /\ ~SyncFault
    BY <2>4, LeaseStutter
       DEF Worker, Sync, Conclude, FetchNotFound, Fetch, SyncNothing, SyncConflict, SyncRejected,
           StatusUnchanged, StatusPatch, StatusFails, ReportError, ReportLost, objVars
  <2>5. CASE CRDWatch \/ Process
    BY <2>5, LeaseStutter
       DEF CRDWatch, RefreshDetector, EnqueueAll, Process, SetUp, TakeOver, StartFails, objVars
  <2>6. ASSUME NEW o \in Objects,
               \/ CollectGarbage(o) \/ DrainNamespace(o) \/ Drift(o) \/ Disown(o)
        PROVE  [Lease!Next]_Holders
    <3>1. obj[o] # None => obj[o] \in ObjectRecords
      BY ObjectType DEF TypeOK
    <3>2. CASE CollectGarbage(o) \/ DrainNamespace(o)
      BY <3>1, <3>2, LeaseWrite
         DEF CollectGarbage, DrainNamespace, Doomed, AfterDelete, LeaseMove, ObjectRecords
    <3>3. CASE Drift(o)
      <4>1. PICK x \in {AfterDelete(o), [obj[o] EXCEPT !.content = {}]} : Write(o, x, queue)
        BY <3>3 DEF Drift
      <4>2. o[1] = "Namespace" => LeaseMove(obj[o], x)
        BY <3>1, <3>3, <4>1 DEF Drift, AfterDelete, LeaseMove, ObjectRecords
      <4> QED
        BY <4>1, <4>2, LeaseWrite
    <3>4. CASE Disown(o)
      BY <3>1, <3>4, LeaseWrite DEF Disown, LeaseMove, ObjectRecords
    <3> QED
      BY <2>6, <3>2, <3>3, <3>4
  <2>7. ASSUME NEW ns \in Namespaces, FinalizeNamespace(ns) \/ Squat(ns)
        PROVE  [Lease!Next]_Holders
    BY <2>7, <2>n, LeaseWrite DEF FinalizeNamespace, Squat, LeaseMove
  <2>8. CASE InstallOrRemoveIstio
    <3>1. \A p \in Objects : p[1] = "Namespace" => obj'[p] = obj[p]
      BY <2>8 DEF InstallOrRemoveIstio, Commit, IstioKinds
    <3> QED
      BY <2>n, <3>1 DEF Holders, Holder
  <2>9. ASSUME NEW n \in Names,
               \/ DeliverWorkspace(n) \/ FinishForeground(n) \/ DeleteWorkspace(n)
               \/ DeleteInForeground(n)
               \/ \E s \in Specs : CreateWorkspace(n, s) \/ EditWorkspace(n, s)
        PROVE  [Lease!Next]_Holders
    BY <2>9, LeaseStutter
       DEF DeliverWorkspace, FinishForeground, DeleteWorkspace, DeleteInForeground,
           CreateWorkspace, EditWorkspace, objVars
  <2>10. CASE TouchIstio \/ DiscoveryStep \/ \E o \in Objects : Deliver(o)
    BY <2>10, LeaseStutter DEF TouchIstio, DiscoveryStep, Deliver, objVars
  <2> QED
    BY <2>1, <2>2, <2>3, <2>4, <2>5, <2>6, <2>7, <2>8, <2>9, <2>10
       DEF Next, Environment
<1>3. Spec => [][Lease!Next]_Holders
  BY <1>2, TypeCorrect, PTL DEF Spec
<1> QED
  BY <1>1, <1>3, PTL DEF Spec, LeaseHonoured, Lease!Spec, Holders

-----------------------------------------------------------------------------
(* The detector's flag. *)

(* The steps that concern the detector. *)
LEMMA DetectorSteps ==
  ASSUME [Next]_vars
  PROVE  \/ UNCHANGED detectorVars
         \/ RefreshDetector \/ TakeOver \/ InstallOrRemoveIstio \/ TouchIstio \/ DiscoveryStep
<1>1. CASE Worker
  <2>1. CASE \E n \in Names : FetchNotFound(n) \/ Fetch(n)
    BY <2>1 DEF FetchNotFound, Fetch
  <2>2. CASE Sync \/ SyncFault
    BY <2>2 DEF Sync, SyncWrite, SyncNothing, SyncConflict, SyncRejected, SyncFault
  <2>3. CASE Conclude \/ ReportLost
    BY <2>3 DEF Conclude, StatusUnchanged, StatusPatch, StatusFails, ReportError, ReportLost
  <2> QED
    BY <1>1, <2>1, <2>2, <2>3 DEF Worker
<1>2. CASE CRDWatch \/ Process
  BY <1>2 DEF CRDWatch, Process, EnqueueAll, SetUp, StartFails
<1>3. CASE Environment
  <2>1. CASE \E o \in Objects : Deliver(o) \/ CollectGarbage(o) \/ DrainNamespace(o)
                                  \/ Drift(o) \/ Disown(o)
    BY <2>1 DEF Deliver, CollectGarbage, DrainNamespace, Drift, Disown
  <2>2. CASE \E n \in Names : \/ DeliverWorkspace(n) \/ FinishForeground(n)
                              \/ DeleteWorkspace(n) \/ DeleteInForeground(n)
                              \/ \E s \in Specs : CreateWorkspace(n, s) \/ EditWorkspace(n, s)
    BY <2>2 DEF DeliverWorkspace, FinishForeground, DeleteWorkspace, DeleteInForeground,
                CreateWorkspace, EditWorkspace
  <2>3. CASE \E ns \in Namespaces : FinalizeNamespace(ns) \/ Squat(ns)
    BY <2>3 DEF FinalizeNamespace, Squat
  <2> QED
    BY <1>3, <2>1, <2>2, <2>3 DEF Environment
<1>4. CASE UNCHANGED vars
  BY <1>4 DEF vars, detectorVars
<1> QED
  BY <1>1, <1>2, <1>3, <1>4 DEF Next

(* No discovery call has failed. *)
Answered == \A x \in {"transport", "status"} : left[x] = Budget[x]

(* Discovery is up to date, and the flag says what it says unless an event of a
   CRD is under way. *)
Believing == served = crds /\ (Answered => crdEvent \/ enabled = crds)

LEMMA AnsweredBefore ==
  ASSUME TypeOK, TypeOK', Ledger, Paid, Answered'
  PROVE  Answered /\ \A x \in {"transport", "status"} : ~Spend(x)
<1> SUFFICES ASSUME NEW x \in {"transport", "status"} PROVE left[x] = Budget[x] /\ ~Spend(x)
  BY DEF Answered
<1>1. x \in Nuisances /\ left'[x] = Budget[x] /\ Budget[x] \in Nat
  BY BudgetAssumption DEF Nuisances, Answered
<1>2. left[x] \in Nat /\ left'[x] <= left[x] /\ left[x] <= Budget[x]
  BY <1>1, StateTypes DEF Paid, Ledger
<1>3. left[x] = Budget[x]
  BY <1>1, <1>2
<1>4. Spend(x) => left'[x] = left[x] - 1
  BY <1>1, StateTypes DEF Spend
<1> QED BY <1>1, <1>2, <1>3, <1>4

(* If discovery is not behind the CRDs when an event of theirs arrives, and every
   call is answered, then the operator knows at rest whether Istio is there:
   whatever a process that waited for the lease was told when it was set up, the
   CRDs that are there are replayed to it as it takes over. *)
THEOREM DetectorKnows ==
  ASSUME "discovery" \notin Lagging
  PROVE  Spec => []BeliefTrue
<1>1. Init => Believing
  BY DEF Init, Believing
<1>2. TypeOK /\ TypeOK' /\ Ledger /\ Believing /\ [Next]_vars => Believing'
  <2> SUFFICES ASSUME TypeOK, TypeOK', Ledger, Believing, [Next]_vars PROVE Believing'
    OBVIOUS
  <2>1. served = crds /\ (Answered' => Answered /\ (crdEvent \/ enabled = crds))
    BY BudgetSteps, AnsweredBefore DEF Believing
  <2>2. CASE RefreshDetector
    <3>1. PICK outcome \in Outcomes : Discovery(outcome) /\ RefreshFlag(outcome)
      BY <2>2 DEF RefreshDetector
    <3>2. UNCHANGED <<crds, served>>
      BY <2>2 DEF RefreshDetector
    <3>3. Answered' => outcome = "answer"
      BY <3>1, BudgetSteps, AnsweredBefore DEF Discovery, Outcomes
    <3>4. outcome = "answer" => enabled' = served
      BY <3>1 DEF TypeOK, ClusterTypeOK, DetectorTypeOK, RefreshFlag, Refreshed, Definitive, Supported
    <3> QED BY <2>1, <3>2, <3>3, <3>4 DEF Believing
  <2>3. CASE TakeOver
    <3>1. UNCHANGED <<crds, served>> /\ crdEvent' = crds /\ enabled' = standby /\ (standby => crds)
      BY <2>3 DEF TakeOver, Replayed
    <3>2. standby \in BOOLEAN /\ crds \in BOOLEAN
      BY <2>3 DEF TakeOver, TypeOK, ClusterTypeOK, DetectorTypeOK
    <3> QED BY <2>1, <3>1, <3>2 DEF Believing
  <2>4. CASE InstallOrRemoveIstio
    BY <2>1, <2>4 DEF InstallOrRemoveIstio, FlipCRDs, Believing
  <2>5. CASE TouchIstio \/ DiscoveryStep
    BY <2>1, <2>5 DEF TouchIstio, TouchCRDs, DiscoveryStep, DiscoveryCatchesUp, Believing
  <2>6. CASE UNCHANGED detectorVars
    BY <2>1, <2>6 DEF detectorVars, Believing
  <2> QED BY <2>2, <2>3, <2>4, <2>5, <2>6, DetectorSteps
<1>3. Believing => BeliefTrue
  BY DEF Believing, BeliefTrue, AtRest, Answered
<1> QED
  BY <1>1, <1>2, <1>3, TypeCorrect, LedgerHolds, PTL DEF Spec

-----------------------------------------------------------------------------
(* The observed generation. *)

(* No name has been given to a second Workspace. *)
NamesUsedOnce == \A n \in Names : born[n] <= 1

Observed(n) == ws[n].status.observedGeneration

(* Of a Workspace that was never created nobody has a copy. *)
Unborn ==
  \A n \in Names : born[n] = 0 =>
    ws[n] = None /\ wsCache[n] = None /\ (run # None => run.name # n)

(* What was reported, what the cache holds and what is stored come in this
   order, ... *)
SeenInOrder ==
  \A n \in Names : ws[n] # None =>
    /\ Observed(n) <= ws[n].gen
    /\ wsCache[n] # None => Observed(n) <= wsCache[n].gen /\ wsCache[n].gen <= ws[n].gen

(* ... and what a reconcile has read stands between the first two. *)
RunInOrder ==
  run # None /\ ws[run.name] # None =>
    /\ wsCache[run.name] # None
    /\ Observed(run.name) <= run.w.gen
    /\ run.w.gen <= wsCache[run.name].gen

InOrder == Unborn /\ SeenInOrder /\ RunInOrder

(* The step that ObservedGenerationAdvances allows. *)
Advances ==
  \A n \in Names :
    ws[n] # None /\ ws'[n] # None /\ ws'[n].inc = ws[n].inc =>
      ws'[n].status.observedGeneration >= ws[n].status.observedGeneration

(* What a Workspace record holds. *)
LEMMA RecordNumbers ==
  ASSUME NEW w \in WorkspaceRecords
  PROVE  w.gen \in Nat /\ w.status.observedGeneration \in Nat
BY DEF WorkspaceRecords, StatusRecords

(* The numbers that InOrder compares are numbers. *)
LEMMA StateNumbers ==
  ASSUME TypeOK
  PROVE  /\ \A n \in Names : ws[n] # None => ws[n].gen \in Nat /\ Observed(n) \in Nat
         /\ \A n \in Names : wsCache[n] # None => wsCache[n].gen \in Nat
         /\ run # None => run.name \in Names /\ run.w \in WorkspaceRecords /\ run.w.gen \in Nat
<1>1. /\ \A n \in Names : ws[n] # None => ws[n] \in WorkspaceRecords
      /\ \A n \in Names : wsCache[n] # None => wsCache[n] \in WorkspaceRecords
  BY DEF TypeOK, ClusterTypeOK
<1>2. run # None => run.name \in Names /\ run.w \in WorkspaceRecords
  BY RunsUnfolded DEF TypeOK
<1> QED
  BY <1>1, <1>2, RecordNumbers DEF Observed

(* A step that touches no Workspace and goes on with the run or ends it. *)
LEMMA KeepsOrder ==
  ASSUME TypeOK, InOrder, UNCHANGED <<ws, wsCache, born>>,
         run' # None => run # None /\ run'.name = run.name /\ run'.w = run.w
  PROVE  InOrder' /\ Advances
<1>1. Unborn' /\ SeenInOrder'
  BY DEF InOrder, Unborn, SeenInOrder, Observed
<1>2. RunInOrder'
  BY DEF InOrder, RunInOrder, Observed
<1>3. Advances
  BY StateNumbers DEF Advances, Observed
<1> QED
  BY <1>1, <1>2, <1>3 DEF InOrder

(* What may be stored for Workspace n: nothing, a successor of what is there
   that reports no more than the cache knows, or the first. *)
Succeeds(n, w) ==
  \/ w = None
  \/ /\ ws[n] # None
     /\ w.gen >= ws[n].gen
     /\ w.status.observedGeneration >= Observed(n)
     /\ w.status.observedGeneration <= ws[n].gen
     /\ wsCache[n] # None => w.status.observedGeneration <= wsCache[n].gen
  \/ born[n] = 0 /\ w.status.observedGeneration = 0

(* Storing what may be stored keeps the order, if the run ends with it or has
   no part in it. *)
LEMMA StoreKeepsOrder ==
  ASSUME TypeOK, InOrder, NEW n \in Names, NEW w \in WorkspaceRecords \cup {None}, NEW q,
         Store(n, w, q), Succeeds(n, w),
         w # None => born'[n] # 0,
         \A m \in Names : born'[m] = 0 => born[m] = 0,
         \/ run' = None
         \/ /\ run' = run
            /\ ws[n] # None /\ w # None => w.status.observedGeneration = Observed(n)
  PROVE  InOrder' /\ Advances
<1>1. /\ ws'[n] = w /\ \A m \in Names : m # n => ws'[m] = ws[m]
      /\ wsCache'[n] \in {wsCache[n], w} /\ \A m \in Names : m # n => wsCache'[m] = wsCache[m]
  BY DEF Store, TypeOK, ClusterTypeOK
<1>2. w # None => w.gen \in Nat /\ w.status.observedGeneration \in Nat
  BY RecordNumbers
<1>3. /\ ws[n] # None => ws[n].gen \in Nat /\ Observed(n) \in Nat
      /\ wsCache[n] # None => wsCache[n].gen \in Nat
      /\ run # None => run.name \in Names /\ run.w.gen \in Nat
  BY StateNumbers
<1>4. born[n] = 0 => ws[n] = None /\ wsCache[n] = None /\ (run # None => run.name # n)
  BY DEF InOrder, Unborn
<1>5. Unborn'
  <2> SUFFICES ASSUME NEW m \in Names, born'[m] = 0
               PROVE  ws'[m] = None /\ wsCache'[m] = None /\ (run' # None => run'.name # m)
    BY DEF Unborn
  <2>1. ws[m] = None /\ wsCache[m] = None /\ (run # None => run.name # m)
    BY DEF InOrder, Unborn
  <2> QED
    BY <1>1, <2>1
<1>6. ws[n] # None =>
        /\ Observed(n) <= ws[n].gen
        /\ wsCache[n] # None => Observed(n) <= wsCache[n].gen /\ wsCache[n].gen <= ws[n].gen
  BY DEF InOrder, SeenInOrder
<1>7. SeenInOrder'
  <2> SUFFICES ASSUME NEW m \in Names, ws'[m] # None
               PROVE  /\ Observed(m)' <= ws'[m].gen
                      /\ wsCache'[m] # None => Observed(m)' <= wsCache'[m].gen
                                                 /\ wsCache'[m].gen <= ws'[m].gen
    BY DEF SeenInOrder
  <2>1. CASE m # n
    BY <1>1, <2>1 DEF InOrder, SeenInOrder, Observed
  <2>2. CASE m = n /\ born[n] = 0
    BY <1>1, <1>2, <1>4, <2>2 DEF Succeeds, Observed
  <2>3. CASE m = n /\ born[n] # 0
    <3>1. /\ w.gen >= ws[n].gen /\ w.status.observedGeneration <= ws[n].gen
          /\ wsCache[n] # None => w.status.observedGeneration <= wsCache[n].gen
          /\ ws[n] # None
      BY <1>1, <2>3 DEF Succeeds
    <3>2. CASE wsCache'[n] = w
      BY <1>1, <1>2, <1>3, <2>3, <3>1, <3>2 DEF Observed
    <3>3. CASE wsCache'[n] = wsCache[n]
      BY <1>1, <1>2, <1>3, <1>6, <2>3, <3>1, <3>3 DEF Observed
    <3> QED
      BY <1>1, <3>2, <3>3
  <2> QED
    BY <2>1, <2>2, <2>3
<1>8. RunInOrder'
  <2> SUFFICES ASSUME run' # None, ws'[run'.name] # None
               PROVE  /\ wsCache'[run'.name] # None
                      /\ ws'[run'.name].status.observedGeneration <= run'.w.gen
                      /\ run'.w.gen <= wsCache'[run'.name].gen
    BY DEF RunInOrder, Observed
  <2>1. run' = run
    OBVIOUS
  <2>2. CASE run.name # n
    BY <1>1, <1>3, <2>1, <2>2 DEF InOrder, RunInOrder, Observed
  <2>3. CASE run.name = n
    <3>1. born[n] # 0 /\ w # None
      BY <1>1, <1>4, <2>1, <2>3
    <3>2. ws[n] # None /\ w.gen >= ws[n].gen /\ w.status.observedGeneration = Observed(n)
      BY <3>1, <2>1 DEF Succeeds
    <3>3. wsCache[n] # None /\ Observed(n) <= run.w.gen /\ run.w.gen <= wsCache[n].gen
      BY <2>1, <2>3, <3>2 DEF InOrder, RunInOrder
    <3>4. CASE wsCache'[n] = w
      BY <1>1, <1>2, <1>3, <1>6, <2>1, <2>3, <3>1, <3>2, <3>3, <3>4 DEF Observed
    <3>5. CASE wsCache'[n] = wsCache[n]
      BY <1>1, <2>1, <2>3, <3>2, <3>3, <3>5 DEF Observed
    <3> QED
      BY <1>1, <3>4, <3>5
  <2> QED
    BY <2>2, <2>3
<1>9. Advances
  <2> SUFFICES ASSUME NEW m \in Names, ws[m] # None, ws'[m] # None
               PROVE  ws'[m].status.observedGeneration >= ws[m].status.observedGeneration
    BY DEF Advances
  <2>1. CASE m # n
    BY <1>1, <2>1, StateNumbers DEF Observed
  <2>2. CASE m = n
    BY <1>1, <1>4, <2>2 DEF Succeeds, Observed
  <2> QED
    BY <2>1, <2>2
<1> QED
  BY <1>5, <1>7, <1>8, <1>9 DEF InOrder

(* A status patch stores a successor: its generation is the one that was read. *)
LEMMA PatchSucceeds ==
  ASSUME TypeOK, InOrder, run # None, ws[run.name] # None,
         NEW next \in StatusRecords, next.observedGeneration = run.w.gen
  PROVE  /\ Succeeds(run.name, Patched(run.name, next))
         /\ Succeeds(run.name, ws[run.name])
<1> DEFINE n == run.name
<1>1. n \in Names /\ Patched(n, next) \in WorkspaceRecords
  BY PatchedType
<1>2. ws[n] \in WorkspaceRecords
  BY <1>1 DEF TypeOK, ClusterTypeOK
<1>3. /\ Patched(n, next).gen = ws[n].gen
      /\ Patched(n, next).status = MergePatch(ws[n].status, run.w.status, next)
  BY <1>2 DEF Patched, WorkspaceRecords
<1>4. Patched(n, next).status.observedGeneration \in {Observed(n), run.w.gen}
  BY <1>3 DEF MergePatch, Observed
<1>5. /\ Observed(n) <= ws[n].gen /\ wsCache[n] # None
      /\ Observed(n) <= wsCache[n].gen /\ wsCache[n].gen <= ws[n].gen
      /\ Observed(n) <= run.w.gen /\ run.w.gen <= wsCache[n].gen
  BY <1>1 DEF InOrder, SeenInOrder, RunInOrder
<1>6. /\ ws[n].gen \in Nat /\ Observed(n) \in Nat /\ run.w.gen \in Nat /\ wsCache[n].gen \in Nat
  BY <1>1, <1>5, StateNumbers
<1>7. Succeeds(n, Patched(n, next))
  BY <1>3, <1>4, <1>5, <1>6 DEF Succeeds
<1>8. Succeeds(n, ws[n])
  BY <1>5, <1>6 DEF Succeeds, Observed
<1> QED
  BY <1>7, <1>8

(* The patch, made or lost, ends the run. *)
LEMMA PatchKeepsOrder ==
  ASSUME TypeOK, InOrder, run # None, ws[run.name] # None, run' = None, UNCHANGED born,
         NEW next \in StatusRecords, next.observedGeneration = run.w.gen,
         NEW w \in {ws[run.name], Patched(run.name, next)}, NEW q, Store(run.name, w, q)
  PROVE  InOrder' /\ Advances
<1>1. run.name \in Names /\ w \in WorkspaceRecords \cup {None}
  BY PatchedType DEF TypeOK, ClusterTypeOK
<1>2. Succeeds(run.name, w)
  BY PatchSucceeds
<1>3. born'[run.name] # 0
  BY <1>1 DEF InOrder, Unborn
<1> QED
  BY <1>1, <1>2, <1>3, StoreKeepsOrder

LEMMA WorkerKeepsOrder ==
  ASSUME TypeOK, InOrder, Worker
  PROVE  InOrder' /\ Advances
<1> USE DEF wsVars
<1>1. CASE \E n \in Names : FetchNotFound(n)
  BY <1>1, KeepsOrder DEF FetchNotFound
<1>2. ASSUME NEW n \in Names, Fetch(n) PROVE InOrder' /\ Advances
  <2>1. /\ UNCHANGED <<ws, wsCache, born>> /\ wsCache[n] # None
        /\ run'.name = n /\ run'.w = wsCache[n]
    BY <1>2 DEF Fetch
  <2>2. born[n] # 0
    BY <2>1 DEF InOrder, Unborn
  <2>3. Unborn' /\ SeenInOrder'
    BY <2>1, <2>2 DEF InOrder, Unborn, SeenInOrder, Observed
  <2>4. wsCache[n].gen \in Nat
    BY <2>1, StateNumbers
  <2>5. RunInOrder'
    BY <2>1, <2>4 DEF InOrder, SeenInOrder, RunInOrder, Observed
  <2>6. Advances
    BY <2>1, StateNumbers DEF Advances, Observed
  <2> QED
    BY <2>3, <2>5, <2>6 DEF InOrder
<1>3. CASE Sync \/ SyncFault
  <2>1. run # None /\ run \in Runs
    BY <1>3 DEF Sync, SyncWrite, SyncNothing, SyncConflict, SyncRejected, SyncFault, Syncing, TypeOK
  <2>2. UNCHANGED <<ws, wsCache, born>>
    BY <1>3 DEF Sync, SyncWrite, SyncNothing, SyncConflict, SyncRejected, SyncFault
  <2>3. \/ run' = [run EXCEPT !.step = @ + 1]
        \/ \E e \in {"NamespaceConflict", "ReconcileError"} : run' = [run EXCEPT !.error = e]
    BY <1>3 DEF Sync, SyncWrite, SyncNothing, SyncConflict, SyncRejected, SyncFault, Advance, Fail
  <2>4. run'.name = run.name /\ run'.w = run.w
    BY <2>1, <2>3, RunsUnfolded
  <2> QED
    BY <2>1, <2>2, <2>4, KeepsOrder
<1>4. CASE StatusUnchanged \/ ReportLost
  BY <1>4, KeepsOrder DEF StatusUnchanged, ReportLost
<1>5. run # None => NewStatus \in StatusRecords /\ NewStatus.observedGeneration = run.w.gen
  BY StatusType, RunsUnfolded
     DEF NewStatus, Reconciled, Reasons, TypeOK, ClusterTypeOK, DetectorTypeOK
<1>6. CASE StatusPatch
  BY <1>5, <1>6, PatchKeepsOrder DEF StatusPatch, Reporting
<1>7. CASE StatusFails
  <2>1. run # None /\ run' = None
    BY <1>7 DEF StatusFails, Reporting
  <2>2. CASE ws[run.name] = None
    BY <1>7, <2>1, <2>2, KeepsOrder DEF StatusFails
  <2>3. CASE ws[run.name] # None
    BY <1>5, <1>7, <2>1, <2>3, PatchKeepsOrder DEF StatusFails
  <2> QED
    BY <2>2, <2>3
<1>8. CASE ReportError
  <2>1. run # None /\ run' = None
    BY <1>8 DEF ReportError
  <2>2. CASE ws[run.name] = None
    BY <1>8, <2>1, <2>2, KeepsOrder DEF ReportError
  <2>3. CASE ws[run.name] # None
    <3>1. run.w \in WorkspaceRecords /\ run.error \in Reasons
      BY <1>8, <2>1, RunsUnfolded DEF ReportError, TypeOK, Reasons
    <3>2. /\ NotReady(run.w, run.error) \in StatusRecords
          /\ NotReady(run.w, run.error).observedGeneration = run.w.gen
      BY <3>1, StatusType DEF NotReady, WorkspaceRecords, StatusRecords
    <3> QED
      BY <1>8, <2>1, <2>3, <3>2, PatchKeepsOrder DEF ReportError
  <2> QED
    BY <2>2, <2>3
<1> QED
  BY <1>1, <1>2, <1>3, <1>4, <1>6, <1>7, <1>8 DEF Worker, Conclude

(* A process that takes over starts from what is stored. *)
LEMMA TakeOverKeepsOrder ==
  ASSUME TypeOK, InOrder, TakeOver
  PROVE  InOrder' /\ Advances
<1>1. ws' = ws /\ born' = born /\ wsCache' = ws /\ run' = None
  BY DEF TakeOver
<1>2. Unborn' /\ RunInOrder'
  BY <1>1 DEF InOrder, Unborn, RunInOrder
<1>3. SeenInOrder'
  BY <1>1, StateNumbers DEF InOrder, SeenInOrder, Observed
<1>4. Advances
  BY <1>1, StateNumbers DEF Advances, Observed
<1> QED
  BY <1>2, <1>3, <1>4 DEF InOrder

(* What users and the API server do to a Workspace. *)
LEMMA UsersKeepOrder ==
  ASSUME TypeOK, TypeOK', InOrder, NamesUsedOnce', run' = run, NEW n \in Names,
         \/ FinishForeground(n) \/ DeleteWorkspace(n) \/ DeleteInForeground(n)
         \/ \E s \in Specs : CreateWorkspace(n, s) \/ EditWorkspace(n, s)
  PROVE  InOrder' /\ Advances
<1>1. \A m \in Names : born[m] \in Nat
  BY DEF TypeOK, ClusterTypeOK
<1>2. ws[n] # None =>
        /\ ws[n] \in WorkspaceRecords /\ ws[n].gen \in Nat /\ Observed(n) \in Nat
        /\ born[n] # 0 /\ Observed(n) <= ws[n].gen
        /\ wsCache[n] # None => Observed(n) <= wsCache[n].gen
  BY StateNumbers DEF InOrder, Unborn, SeenInOrder, TypeOK, ClusterTypeOK
<1>3. CASE FinishForeground(n) \/ DeleteWorkspace(n)
  <2>1. Succeeds(n, None)
    BY DEF Succeeds
  <2> QED
    BY <1>3, <2>1, StoreKeepsOrder DEF FinishForeground, DeleteWorkspace
<1>4. CASE DeleteInForeground(n)
  <2> DEFINE w == [ws[n] EXCEPT !.deleting = TRUE, !.gen = @ + 1]
  <2>1. ws[n] # None /\ Store(n, w, queue) /\ UNCHANGED born
    BY <1>4 DEF DeleteInForeground
  <2>2. w \in WorkspaceRecords
    BY <1>2, <2>1, SpecsAssumption, GenerationType DEF WorkspaceRecords
  <2>3. w.gen = ws[n].gen + 1 /\ w.status = ws[n].status
    BY <1>2, <2>1 DEF WorkspaceRecords
  <2>4. w.status.observedGeneration = Observed(n)
    BY <2>3 DEF Observed
  <2> HIDE DEF w
  <2>5. Succeeds(n, w)
    BY <1>2, <2>1, <2>3, <2>4 DEF Succeeds
  <2> QED
    BY <1>2, <2>1, <2>2, <2>4, <2>5, StoreKeepsOrder
<1>5. ASSUME NEW s \in Specs, EditWorkspace(n, s) PROVE InOrder' /\ Advances
  <2> DEFINE w == [ws[n] EXCEPT !.spec = s, !.gen = @ + 1]
  <2>1. ws[n] # None /\ Store(n, w, queue) /\ UNCHANGED born
    BY <1>5 DEF EditWorkspace
  <2>2. w \in WorkspaceRecords
    BY <1>2, <2>1, GenerationType
  <2>3. w.gen = ws[n].gen + 1 /\ w.status = ws[n].status
    BY <1>2, <2>1 DEF WorkspaceRecords
  <2>4. w.status.observedGeneration = Observed(n)
    BY <2>3 DEF Observed
  <2> HIDE DEF w
  <2>5. Succeeds(n, w)
    BY <1>2, <2>1, <2>3, <2>4 DEF Succeeds
  <2> QED
    BY <1>2, <2>1, <2>2, <2>4, <2>5, StoreKeepsOrder
<1>6. ASSUME NEW s \in Specs, CreateWorkspace(n, s) PROVE InOrder' /\ Advances
  <2> DEFINE w == [inc |-> born[n] + 1, gen |-> 1, spec |-> s, status |-> NoStatus,
                   deleting |-> FALSE]
  <2>1. ws[n] = None /\ Store(n, w, queue) /\ born' = [born EXCEPT ![n] = @ + 1]
    BY <1>6 DEF CreateWorkspace
  <2>2. born'[n] = born[n] + 1 /\ \A m \in Names : m # n => born'[m] = born[m]
    BY <2>1 DEF TypeOK, ClusterTypeOK
  <2>3. born[n] = 0
    BY <1>1, <2>2 DEF NamesUsedOnce
  <2>4. w \in WorkspaceRecords
    BY <1>1 DEF WorkspaceRecords, StatusRecords, NoStatus, Reasons
  <2>5. Succeeds(n, w)
    BY <2>3 DEF Succeeds, NoStatus
  <2>6. born'[n] # 0 /\ \A m \in Names : born'[m] = 0 => born[m] = 0
    BY <1>1, <2>2, <2>3
  <2> HIDE DEF w
  <2> QED
    BY <2>1, <2>4, <2>5, <2>6, StoreKeepsOrder
<1> QED
  BY <1>3, <1>4, <1>5, <1>6

(* A lagging informer skips to what is stored. *)
LEMMA DeliveryKeepsOrder ==
  ASSUME TypeOK, InOrder, run' = run, NEW n \in Names, DeliverWorkspace(n)
  PROVE  InOrder' /\ Advances
<1>1. ws' = ws /\ born' = born /\ wsCache' = [wsCache EXCEPT ![n] = ws[n]]
  BY DEF DeliverWorkspace
<1>2. wsCache'[n] = ws[n] /\ \A m \in Names : m # n => wsCache'[m] = wsCache[m]
  BY <1>1 DEF TypeOK, ClusterTypeOK
<1>3. Unborn'
  BY <1>1, <1>2 DEF InOrder, Unborn
<1>4. SeenInOrder'
  BY <1>1, <1>2, StateNumbers DEF InOrder, SeenInOrder, Observed
<1>5. RunInOrder'
  <2> SUFFICES ASSUME run # None, ws[run.name] # None
               PROVE  /\ wsCache'[run.name] # None
                      /\ Observed(run.name) <= run.w.gen
                      /\ run.w.gen <= wsCache'[run.name].gen
    BY <1>1 DEF RunInOrder, Observed
  <2>1. /\ run.name \in Names /\ run.w.gen \in Nat /\ ws[run.name].gen \in Nat
        /\ wsCache[run.name] # None /\ wsCache[run.name].gen \in Nat
    BY StateNumbers DEF InOrder, RunInOrder
  <2>2. /\ Observed(run.name) <= run.w.gen /\ run.w.gen <= wsCache[run.name].gen
        /\ wsCache[run.name].gen <= ws[run.name].gen
    BY <2>1 DEF InOrder, RunInOrder, SeenInOrder
  <2> QED
    BY <1>2, <2>1, <2>2
<1>6. Advances
  BY <1>1, StateNumbers DEF Advances, Observed
<1> QED
  BY <1>3, <1>4, <1>5, <1>6 DEF InOrder

LEMMA EnvironmentKeepsOrder ==
  ASSUME TypeOK, TypeOK', InOrder, NamesUsedOnce', Environment,
         UNCHANGED <<run, mapping, standby>>
  PROVE  InOrder' /\ Advances
<1> USE DEF wsVars
<1>1. CASE \E o \in Objects : Deliver(o) \/ CollectGarbage(o) \/ DrainNamespace(o)
                                \/ Drift(o) \/ Disown(o)
  BY <1>1, KeepsOrder DEF Deliver, CollectGarbage, DrainNamespace, Drift, Disown
<1>2. CASE \E n \in Names : DeliverWorkspace(n)
  BY <1>2, DeliveryKeepsOrder
<1>3. CASE \E n \in Names : \/ FinishForeground(n) \/ DeleteWorkspace(n) \/ DeleteInForeground(n)
                            \/ \E s \in Specs : CreateWorkspace(n, s) \/ EditWorkspace(n, s)
  BY <1>3, UsersKeepOrder
<1>4. CASE \/ \E ns \in Namespaces : FinalizeNamespace(ns) \/ Squat(ns)
           \/ InstallOrRemoveIstio \/ TouchIstio \/ DiscoveryStep
  BY <1>4, KeepsOrder
     DEF FinalizeNamespace, Squat, InstallOrRemoveIstio, TouchIstio, DiscoveryStep
<1> QED
  BY <1>1, <1>2, <1>3, <1>4 DEF Environment

LEMMA OrderKept ==
  ASSUME TypeOK, TypeOK', InOrder, NamesUsedOnce', [Next]_vars
  PROVE  InOrder' /\ Advances
<1>1. CASE UNCHANGED vars
  BY <1>1, KeepsOrder DEF vars
<1>2. CASE CRDWatch \/ SetUp \/ StartFails
  BY <1>2, KeepsOrder DEF CRDWatch, RefreshDetector, EnqueueAll, SetUp, StartFails, wsVars
<1> QED
  BY <1>1, <1>2, WorkerKeepsOrder, TakeOverKeepsOrder, EnvironmentKeepsOrder DEF Next, Process

(* As long as no name is used twice, a status never goes back to an older
   generation, whatever lags, fails or starts again: a reconcile that reads an
   older copy reports no generation older than one that is reported already. *)
THEOREM GenerationAdvances == Spec /\ []NamesUsedOnce => ObservedGenerationAdvances
<1>1. Init => InOrder
  <2> SUFFICES ASSUME Init PROVE InOrder
    OBVIOUS
  <2> QED
    BY DEF Init, InOrder, Unborn, SeenInOrder, RunInOrder
<1>2. TypeOK /\ TypeOK' /\ InOrder /\ NamesUsedOnce' /\ [Next]_vars => InOrder' /\ [Advances]_vars
  BY OrderKept
<1> QED
  BY <1>1, <1>2, TypeCorrect, PTL DEF Spec, ObservedGenerationAdvances, Advances
=============================================================================
