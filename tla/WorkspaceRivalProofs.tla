------------------------- MODULE WorkspaceRivalProofs -------------------------
(***************************************************************************)
(* Proofs about Workspaces that want the same Namespace.                   *)
(*                                                                         *)
(* A name may be given to one Workspace after the other, and what they     *)
(* leave behind (children, copies in caches, a reconcile in progress)      *)
(* outlives them.  The first part says what can be told of an incarnation  *)
(* wherever its UID turns up; the second who is to be blamed, or is about  *)
(* to act, if a Workspace is without a Namespace.                          *)
(***************************************************************************)
EXTENDS WorkspaceConvergenceProofs

(* There has been such an incarnation. *)
KnownUid(u) == 1 <= u[2] /\ u[2] <= born[u[1]]

(* ... and if it still lives it wants Namespace ns. *)
AtHome(u, ns) == KnownUid(u) /\ (Live(u) => ws[u[1]].spec.namespace = ns)

(* An object with a controller. *)
Owned(x) == x # None /\ x.owner # NoOwner

(* What is stored, what is cached, what is being reconciled, and the owners of
   all children are incarnations that there have been. *)
WsKnown ==
  \A n \in Names :
    /\ ws[n] # None => ws[n].inc = born[n] /\ 1 <= born[n]
    /\ wsCache[n] # None => AtHome(<<n, wsCache[n].inc>>, wsCache[n].spec.namespace)

RunKnown == run # None => AtHome(RunUid, run.w.spec.namespace)

ObjKnown ==
  \A o \in Objects : /\ Owned(obj[o]) => AtHome(obj[o].owner, o[2])
                     /\ Owned(cache[o]) => AtHome(cache[o].owner, o[2])

Known == WsKnown /\ RunKnown /\ ObjKnown
-----------------------------------------------------------------------------
(* Where they come from, in every step. *)

(* A Workspace stays the one it was, or is a new one; a cache gets what is
   stored. *)
WsHeritage ==
  \A n \in Names :
    /\ born[n] <= born'[n]
    /\ ws'[n] # None =>
         \/ /\ ws[n] # None /\ ws'[n].inc = ws[n].inc /\ born'[n] = born[n]
            /\ ws'[n].spec.namespace = ws[n].spec.namespace
         \/ ws[n] = None /\ ws'[n].inc = born[n] + 1 /\ born'[n] = born[n] + 1
    /\ wsCache'[n] = wsCache[n] \/ wsCache'[n] = ws'[n]

RunHeritage ==
  run' # None =>
    \/ run # None /\ run'.name = run.name /\ run'.w = run.w
    \/ \E n \in Names : wsCache[n] # None /\ run'.name = n /\ run'.w = wsCache[n]

(* A child keeps its owner, or the reconcile in progress has taken it. *)
TakenBy(o, x) ==
  \/ obj[o] # None /\ x.owner = obj[o].owner
  \/ run # None /\ x.owner = RunUid /\ o[2] = run.w.spec.namespace

ObjHeritage ==
  \A o \in Objects :
    /\ Owned(obj'[o]) => TakenBy(o, obj'[o])
    /\ cache'[o] = cache[o] \/ cache'[o] = obj'[o]

LEMMA StoredHeritage ==
  ASSUME TypeOK, NEW n \in Names, NEW w, NEW q, Store(n, w, q), UNCHANGED born,
         w # None => /\ ws[n] # None /\ w.inc = ws[n].inc
                     /\ w.spec.namespace = ws[n].spec.namespace
  PROVE  WsHeritage
<1>1. \A m \in Names : ws'[m] = IF m = n THEN w ELSE ws[m]
  BY StateTypes DEF Store
<1>2. \A m \in Names : wsCache'[m] = wsCache[m] \/ wsCache'[m] = ws'[m]
  BY StateTypes DEF Store
<1>3. \A m \in Names : born[m] <= born'[m]
  BY StateTypes
<1> QED BY <1>1, <1>2, <1>3 DEF WsHeritage

LEMMA CreatedHeritage ==
  ASSUME TypeOK, NEW n \in Names, NEW s \in Specs, CreateWorkspace(n, s)
  PROVE  WsHeritage
<1> DEFINE w == [inc |-> born[n] + 1, gen |-> 1, spec |-> s, status |-> NoStatus, deleting |-> FALSE]
<1>1. Store(n, w, queue) /\ born' = [born EXCEPT ![n] = @ + 1] /\ ws[n] = None
  BY DEF CreateWorkspace
<1>2. w.inc = born[n] + 1
  OBVIOUS
<1> HIDE DEF w
<1>3. /\ \A m \in Names : ws'[m] = IF m = n THEN w ELSE ws[m]
      /\ \A m \in Names : wsCache'[m] = wsCache[m] \/ wsCache'[m] = ws'[m]
  BY <1>1, StateTypes DEF Store
<1>4. \A m \in Names : born'[m] = (IF m = n THEN born[m] + 1 ELSE born[m]) /\ born[m] <= born'[m]
  BY <1>1, StateTypes
<1> QED BY <1>1, <1>2, <1>3, <1>4 DEF WsHeritage

LEMMA WsInherited ==
  ASSUME TypeOK, [Next]_vars
  PROVE  WsHeritage
<1>1. CASE UNCHANGED wsVars
  BY <1>1, StateTypes DEF wsVars, WsHeritage
<1>2. CASE Worker
  <2>1. CASE \E n \in Names : FetchNotFound(n) \/ Fetch(n)
    BY <1>1, <2>1 DEF FetchNotFound, Fetch
  <2>2. CASE Sync \/ SyncFault
    BY <1>1, <2>2 DEF Sync, SyncWrite, SyncNothing, SyncConflict, SyncRejected, SyncFault
  <2>3. CASE StatusUnchanged \/ ReportLost
    BY <1>1, <2>3 DEF StatusUnchanged, ReportLost
  <2>4. CASE StatusPatch \/ StatusFails \/ ReportError
    <3>1. run # None /\ run.name \in Names /\ NewStatus \in StatusRecords
          /\ NotReady(run.w, run.error) \in StatusRecords
      BY <2>4, ReportTypes DEF StatusPatch, StatusFails, ReportError, Reporting
    <3>2. \/ UNCHANGED wsVars
          \/ /\ UNCHANGED born /\ ws[run.name] # None
             /\ \E w \in {ws[run.name]} \cup {Patched(run.name, st) : st \in StatusRecords} :
                  \E q : Store(run.name, w, q)
      BY <2>4, <3>1 DEF StatusPatch, StatusFails, ReportError
    <3>3. ASSUME ws[run.name] # None,
                 NEW w \in {ws[run.name]} \cup {Patched(run.name, st) : st \in StatusRecords}
          PROVE  w.inc = ws[run.name].inc /\ w.spec.namespace = ws[run.name].spec.namespace
      BY <3>1, <3>3, PatchAbreast DEF Abreast
    <3> QED BY <1>1, <3>1, <3>2, <3>3, StoredHeritage
  <2> QED BY <1>2, <2>1, <2>2, <2>3, <2>4 DEF Worker, Conclude
<1>3. CASE CRDWatch
  BY <1>1, <1>3 DEF CRDWatch, RefreshDetector, EnqueueAll
<1>4. CASE Process
  <2>1. CASE TakeOver
    BY <2>1, StateTypes DEF TakeOver, WsHeritage
  <2> QED BY <1>1, <1>4, <2>1 DEF Process, SetUp, StartFails
<1>5. CASE Environment
  <2>1. CASE \E o \in Objects : Deliver(o) \/ CollectGarbage(o) \/ DrainNamespace(o)
                                  \/ Drift(o) \/ Disown(o)
    BY <1>1, <2>1 DEF Deliver, CollectGarbage, DrainNamespace, Drift, Disown
  <2>2. ASSUME NEW n \in Names, DeliverWorkspace(n) PROVE WsHeritage
    BY <2>2, StateTypes DEF DeliverWorkspace, WsHeritage
  <2>3. ASSUME NEW n \in Names, FinishForeground(n) \/ DeleteWorkspace(n) PROVE WsHeritage
    BY <2>3, StoredHeritage DEF FinishForeground, DeleteWorkspace
  <2>4. ASSUME NEW n \in Names, DeleteInForeground(n) PROVE WsHeritage
    <3>1. ws[n] \in WorkspaceRecords /\ ws[n] # None
      BY <2>4, SpecTypes DEF DeleteInForeground
    <3>2. /\ [ws[n] EXCEPT !.deleting = TRUE, !.gen = @ + 1].inc = ws[n].inc
          /\ [ws[n] EXCEPT !.deleting = TRUE, !.gen = @ + 1].spec = ws[n].spec
      BY <3>1 DEF WorkspaceRecords
    <3> QED BY <2>4, <3>1, <3>2, StoredHeritage DEF DeleteInForeground
  <2>5. ASSUME NEW n \in Names, NEW s \in Specs, EditWorkspace(n, s) PROVE WsHeritage
    <3>1. ws[n] \in WorkspaceRecords /\ ws[n] # None /\ s.namespace = ws[n].spec.namespace
      BY <2>5, SpecTypes DEF EditWorkspace
    <3>2. /\ [ws[n] EXCEPT !.spec = s, !.gen = @ + 1].inc = ws[n].inc
          /\ [ws[n] EXCEPT !.spec = s, !.gen = @ + 1].spec = s
      BY <3>1 DEF WorkspaceRecords
    <3> QED BY <2>5, <3>1, <3>2, StoredHeritage DEF EditWorkspace
  <2>6. CASE \/ \E ns \in Namespaces : FinalizeNamespace(ns) \/ Squat(ns)
             \/ InstallOrRemoveIstio \/ TouchIstio \/ DiscoveryStep
    BY <1>1, <2>6 DEF FinalizeNamespace, Squat, InstallOrRemoveIstio, TouchIstio, DiscoveryStep
  <2> QED BY <1>5, <2>1, <2>2, <2>3, <2>4, <2>5, <2>6, CreatedHeritage DEF Environment
<1>6. CASE UNCHANGED vars
  BY <1>1, <1>6 DEF vars, wsVars
<1> QED BY <1>2, <1>3, <1>4, <1>5, <1>6 DEF Next

LEMMA RunInherited ==
  ASSUME TypeOK, [Next]_vars
  PROVE  RunHeritage
<1>1. CASE run' = run \/ run' = None
  BY <1>1 DEF RunHeritage
<1>2. ASSUME NEW n \in Names, Fetch(n) PROVE RunHeritage
  <2>1. /\ wsCache[n] # None
        /\ run' = [name |-> n, w |-> wsCache[n], istio |-> enabled, step |-> 1, error |-> ""]
    BY <1>2 DEF Fetch
  <2>2. run'.name = n /\ run'.w = wsCache[n]
    BY <2>1
  <2> QED BY <2>1, <2>2 DEF RunHeritage
<1>3. CASE Sync \/ SyncFault
  <2>1. Syncing /\ (Advance \/ Fail("ReconcileError") \/ Fail("NamespaceConflict"))
    BY <1>3 DEF Sync, SyncWrite, SyncNothing, SyncConflict, SyncRejected, SyncFault
  <2>2. run # None /\ run'.name = run.name /\ run'.w = run.w
    BY <2>1, Moves, SyncTypes, GoingOn
  <2> QED BY <2>2 DEF RunHeritage
<1>4. CASE Conclude \/ ReportLost \/ \E n \in Names : FetchNotFound(n)
  BY <1>1, <1>4 DEF Conclude, StatusUnchanged, StatusPatch, StatusFails, ReportError, ReportLost, FetchNotFound
<1>5. CASE CRDWatch \/ Process
  BY <1>1, <1>5 DEF CRDWatch, RefreshDetector, EnqueueAll, Process, SetUp, TakeOver, StartFails
<1>6. CASE UNCHANGED vars
  BY <1>1, <1>6 DEF vars
<1> QED BY <1>1, <1>2, <1>3, <1>4, <1>5, <1>6 DEF Next, Worker

LEMMA WrittenHeritage ==
  ASSUME TypeOK, NEW o \in Objects, NEW x, NEW q, Write(o, x, q), Owned(x) => TakenBy(o, x)
  PROVE  ObjHeritage
<1>1. /\ \A p \in Objects : obj'[p] = IF p = o THEN x ELSE obj[p]
      /\ \A p \in Objects : cache'[p] = cache[p] \/ cache'[p] = obj'[p]
  BY StateTypes DEF Write, Commit
<1> QED BY <1>1 DEF ObjHeritage, Owned, TakenBy

LEMMA ObjInherited ==
  ASSUME TypeOK, [Next]_vars
  PROVE  ObjHeritage
<1>1. CASE UNCHANGED objVars
  BY <1>1 DEF objVars, ObjHeritage, Owned, TakenBy
<1>2. CASE SyncWrite \/ SyncFault
  <2>1. PICK x \in {There, Sent} : Write(Target, x, queue)
    BY <1>2 DEF SyncWrite, SyncFault
  <2>2. Syncing /\ Accepted
    BY <1>2 DEF SyncWrite, SyncFault
  <2>3. run # None /\ Target \in Objects /\ Target[2] = run.w.spec.namespace
    BY <2>2, SyncTypes, GoingOn
  <2>4. Owned(x) => TakenBy(Target, x)
    BY <2>2, <2>3, SentWanted DEF Owned, TakenBy, There
  <2> QED BY <2>1, <2>3, <2>4, WrittenHeritage
<1>3. CASE Worker
  <2>1. CASE \E n \in Names : FetchNotFound(n) \/ Fetch(n)
    BY <1>1, <2>1 DEF FetchNotFound, Fetch
  <2>2. CASE SyncNothing \/ SyncConflict \/ SyncRejected
    BY <1>1, <2>2 DEF SyncNothing, SyncConflict, SyncRejected
  <2>3. CASE Conclude \/ ReportLost
    BY <1>1, <2>3 DEF Conclude, StatusUnchanged, StatusPatch, StatusFails, ReportError, ReportLost
  <2> QED BY <1>2, <1>3, <2>1, <2>2, <2>3 DEF Worker, Sync
<1>4. CASE CRDWatch
  BY <1>1, <1>4 DEF CRDWatch, RefreshDetector, EnqueueAll
<1>5. CASE Process
  <2>1. CASE TakeOver
    BY <2>1 DEF TakeOver, ObjHeritage, Owned, TakenBy
  <2> QED BY <1>1, <1>5, <2>1 DEF Process, SetUp, StartFails
<1>6. CASE Environment
  <2>1. ASSUME NEW o \in Objects, Deliver(o) PROVE ObjHeritage
    BY <2>1, StateTypes DEF Deliver, ObjHeritage, Owned, TakenBy
  <2>2. ASSUME NEW o \in Objects, CollectGarbage(o) \/ DrainNamespace(o) \/ Drift(o) \/ Disown(o)
        PROVE  ObjHeritage
    <3>1. obj[o] # None
      BY <2>2 DEF CollectGarbage, Doomed, DrainNamespace, Drift, Disown
    <3>2. PICK x \in {None, AfterDelete(o), [obj[o] EXCEPT !.content = {}], [obj[o] EXCEPT !.owner = NoOwner]} :
            Write(o, x, queue)
      BY <2>2 DEF CollectGarbage, DrainNamespace, Drift, Disown
    <3>3. obj[o] \in ObjectRecords
      BY <3>1, Remains
    <3>4. /\ [obj[o] EXCEPT !.content = {}].owner = obj[o].owner
          /\ [obj[o] EXCEPT !.deleting = TRUE].owner = obj[o].owner
          /\ [obj[o] EXCEPT !.owner = NoOwner].owner = NoOwner
      BY <3>3 DEF ObjectRecords
    <3>5. Owned(x) => TakenBy(o, x)
      BY <3>1, <3>4 DEF AfterDelete, Owned, TakenBy
    <3> QED BY <3>2, <3>5, WrittenHeritage
  <2>3. ASSUME NEW ns \in Namespaces, FinalizeNamespace(ns) \/ Squat(ns) PROVE ObjHeritage
    <3>1. PICK x : Write(Home(ns), x, queue) /\ ~Owned(x)
      BY <2>3 DEF FinalizeNamespace, Squat, Home, Owned
    <3> QED BY <3>1, Homes, WrittenHeritage
  <2>4. CASE InstallOrRemoveIstio
    <3>1. /\ \A o \in Objects : obj'[o] = obj[o] \/ obj'[o] = None
          /\ \A o \in Objects : cache'[o] = cache[o] \/ cache'[o] = obj'[o]
      BY <2>4 DEF InstallOrRemoveIstio, Commit
    <3> QED BY <3>1 DEF ObjHeritage, Owned, TakenBy
  <2>5. CASE \E n \in Names : \/ DeliverWorkspace(n) \/ FinishForeground(n)
                              \/ DeleteWorkspace(n) \/ DeleteInForeground(n)
                              \/ \E s \in Specs : CreateWorkspace(n, s) \/ EditWorkspace(n, s)
    BY <1>1, <2>5 DEF DeliverWorkspace, FinishForeground, DeleteWorkspace, DeleteInForeground,
                CreateWorkspace, EditWorkspace
  <2>6. CASE TouchIstio \/ DiscoveryStep
    BY <1>1, <2>6 DEF TouchIstio, DiscoveryStep
  <2> QED BY <1>6, <2>1, <2>2, <2>3, <2>4, <2>5, <2>6 DEF Environment
<1>7. CASE UNCHANGED vars
  BY <1>1, <1>7 DEF vars, objVars
<1> QED BY <1>3, <1>4, <1>5, <1>6, <1>7 DEF Next
-----------------------------------------------------------------------------
(* So all of them stay known. *)

LEMMA StaysAtHome ==
  ASSUME TypeOK, WsKnown, WsHeritage, born' \in [Names -> Nat], NEW u \in Uids, NEW ns, AtHome(u, ns)
  PROVE  AtHome(u, ns)'
<1>1. PICK n \in Names, i \in Nat : u = <<n, i>>
  BY DEF Uids
<1>2. u[1] = n /\ u[2] = i
  BY <1>1
<1>3. 1 <= i /\ i <= born[n] /\ (ws[n] # None /\ ws[n].inc = i => ws[n].spec.namespace = ns)
  BY <1>2 DEF AtHome, KnownUid, Live
<1>4. born[n] \in Nat /\ born'[n] \in Nat /\ born[n] <= born'[n]
  BY StateTypes DEF WsHeritage
<1>5. 1 <= i /\ i <= born'[n] /\ i # born[n] + 1
  BY <1>3, <1>4
<1>6. ws'[n] # None /\ ws'[n].inc = i => ws'[n].spec.namespace = ns
  BY <1>3, <1>5 DEF WsHeritage
<1> QED BY <1>2, <1>5, <1>6 DEF AtHome, KnownUid, Live

(* The UIDs there are. *)
LEMMA UidTypes ==
  ASSUME TypeOK
  PROVE  /\ \A n \in Names : wsCache[n] # None => <<n, wsCache[n].inc>> \in Uids
         /\ run # None => RunUid \in Uids
         /\ \A o \in Objects : /\ Owned(obj[o]) => obj[o].owner \in Uids
                               /\ Owned(cache[o]) => cache[o].owner \in Uids
<1>1. \A n \in Names : wsCache[n] # None => wsCache[n].inc \in Nat
  BY StateTypes DEF WorkspaceRecords
<1>2. run # None => run.name \in Names /\ run.w.inc \in Nat
  BY RunTypes DEF WorkspaceRecords
<1>3. \A o \in Objects : /\ Owned(obj[o]) => obj[o].owner \in Uids
                         /\ Owned(cache[o]) => cache[o].owner \in Uids
  BY StateTypes DEF Owned, ObjectRecords
<1> QED BY <1>1, <1>2, <1>3 DEF Uids, RunUid

LEMMA KnownKept ==
  ASSUME TypeOK, TypeOK', Known, [Next]_vars
  PROVE  Known'
<1>1. WsHeritage /\ RunHeritage /\ ObjHeritage
  BY WsInherited, RunInherited, ObjInherited
<1>2. born' \in [Names -> Nat] /\ ws' \in [Names -> WorkspaceRecords \cup {None}]
  BY DEF TypeOK, ClusterTypeOK
<1>3. ASSUME NEW u \in Uids, NEW ns, AtHome(u, ns) PROVE AtHome(u, ns)'
  BY <1>1, <1>2, <1>3, StaysAtHome DEF Known
<1>4. ASSUME NEW n \in Names, ws'[n] # None
      PROVE  ws'[n].inc = born'[n] /\ 1 <= born'[n]
  <2>1. born[n] \in Nat
    BY StateTypes
  <2>2. (ws[n] # None /\ ws[n].inc = born[n] /\ 1 <= born[n] /\ ws'[n].inc = ws[n].inc /\ born'[n] = born[n])
        \/ (ws'[n].inc = born[n] + 1 /\ born'[n] = born[n] + 1)
    BY <1>1, <1>4 DEF Known, WsKnown, WsHeritage
  <2> QED BY <2>1, <2>2
<1>5. ASSUME NEW n \in Names, wsCache'[n] # None,
             NEW u, u = <<n, wsCache'[n].inc>>, NEW ns, ns = wsCache'[n].spec.namespace
      PROVE  AtHome(u, ns)'
  <2>1. CASE wsCache'[n] = wsCache[n]
    <3>1. u \in Uids /\ AtHome(u, ns)
      BY <1>5, <2>1, UidTypes DEF Known, WsKnown
    <3> QED BY <1>3, <3>1
  <2>2. CASE wsCache'[n] = ws'[n]
    <3>1. u[1] = n /\ u[2] = born'[n] /\ 1 <= born'[n] /\ born'[n] \in Nat
      BY <1>2, <1>4, <1>5, <2>2
    <3> QED BY <1>5, <2>2, <3>1 DEF AtHome, KnownUid, Live
  <2> QED BY <1>1, <2>1, <2>2 DEF WsHeritage
<1>6. ASSUME run' # None,
             NEW u, u = <<run'.name, run'.w.inc>>, NEW ns, ns = run'.w.spec.namespace
      PROVE  AtHome(u, ns)'
  <2>1. u \in Uids /\ AtHome(u, ns)
    BY <1>1, <1>6, UidTypes DEF RunHeritage, Known, WsKnown, RunKnown, RunUid
  <2> QED BY <1>3, <2>1
<1>7. ASSUME NEW o \in Objects, NEW x, Owned(x), x = obj[o] \/ x = cache[o] \/ x = obj'[o],
             NEW u, u = x.owner, NEW ns, ns = o[2]
      PROVE  AtHome(u, ns)'
  <2>1. CASE x = obj[o] \/ x = cache[o]
    <3>1. u \in Uids /\ AtHome(u, ns)
      BY <1>7, <2>1, UidTypes DEF Known, ObjKnown
    <3> QED BY <1>3, <3>1
  <2>2. CASE x = obj'[o]
    <3>1. TakenBy(o, x)
      BY <1>1, <1>7, <2>2 DEF ObjHeritage
    <3>2. CASE obj[o] # None /\ x.owner = obj[o].owner
      <4>1. u \in Uids /\ AtHome(u, ns)
        BY <1>7, <3>2, UidTypes DEF Known, ObjKnown, Owned
      <4> QED BY <1>3, <4>1
    <3>3. CASE run # None /\ x.owner = RunUid /\ o[2] = run.w.spec.namespace
      <4>1. u \in Uids /\ AtHome(u, ns)
        BY <1>7, <3>3, UidTypes DEF Known, RunKnown
      <4> QED BY <1>3, <4>1
    <3> QED BY <3>1, <3>2, <3>3 DEF TakenBy
  <2> QED BY <1>7, <2>1, <2>2
<1>8. WsKnown'
  BY <1>4, <1>5 DEF WsKnown, AtHome, KnownUid, Live
<1>9. RunKnown'
  BY <1>6 DEF RunKnown, RunUid, AtHome, KnownUid, Live
<1>10. ObjKnown'
  <2> SUFFICES ASSUME NEW o \in Objects
               PROVE  (Owned(obj[o]) => AtHome(obj[o].owner, o[2]))' /\ (Owned(cache[o]) => AtHome(cache[o].owner, o[2]))'
    BY DEF ObjKnown
  <2>1. cache'[o] = cache[o] \/ cache'[o] = obj'[o]
    BY <1>1 DEF ObjHeritage
  <2> QED BY <1>7, <2>1 DEF Owned, AtHome, KnownUid, Live
<1> QED BY <1>8, <1>9, <1>10 DEF Known

LEMMA KnownHolds == Spec => []Known
<1>1. Init => Known
  <2> SUFFICES ASSUME Init PROVE Known
    OBVIOUS
  <2> QED BY DEF Init, Known, WsKnown, RunKnown, ObjKnown, Owned
<1>2. TypeOK /\ TypeOK' /\ Known /\ [Next]_vars => Known'
  BY KnownKept
<1> QED BY <1>1, <1>2, TypeCorrect, PTL DEF Spec
-----------------------------------------------------------------------------
(* What becomes of a Namespace. *)

(* No child was stripped of its owner, and no Namespace of an outsider deleted. *)
NoOrphan ==
  /\ left["disown"] = Budget["disown"]
  /\ left["drift"] = Budget["drift"] \/ left["squat"] = Budget["squat"]

(* A Namespace without an owner is an outsider's, and there to stay. *)
Squatted ==
  \A ns \in Namespaces : \A x \in {obj[Home(ns)], cache[Home(ns)]} :
    x # None /\ x.owner = NoOwner =>
      /\ left["squat"] < Budget["squat"]
      /\ obj[Home(ns)] # None /\ obj[Home(ns)].owner = NoOwner /\ ~obj[Home(ns)].deleting

(* A Namespace goes only from an owner, who hears of it; or it gets an owner or
   keeps the one it has, who may be to blame if it is then going away; or an
   outsider creates it. *)
HomeMove(ns) ==
  \/ obj'[Home(ns)] = obj[Home(ns)]
  \/ /\ Owned(obj'[Home(ns)])
     /\ obj[Home(ns)] # None => obj'[Home(ns)].owner = obj[Home(ns)].owner
     /\ obj'[Home(ns)].deleting =>
          /\ obj[Home(ns)] # None
          /\ obj[Home(ns)].deleting \/ Doomed(Home(ns)) \/ Spend("drift")
  \/ /\ Owned(obj[Home(ns)])
     /\ obj'[Home(ns)] = None
     /\ \E m \in Names : m = obj[Home(ns)].owner[1] /\ Awaited(m)'
  \/ /\ obj[Home(ns)] = None
     /\ obj'[Home(ns)] # None /\ obj'[Home(ns)].owner = NoOwner /\ ~obj'[Home(ns)].deleting
     /\ left'["squat"] < Budget["squat"]

LEMMA BudgetOf ==
  ASSUME TypeOK, TypeOK', Ledger, Paid, NEW x \in Nuisances
  PROVE  /\ left'[x] = Budget[x] => left[x] = Budget[x] /\ ~Spend(x)
         /\ left[x] < Budget[x] => left'[x] < Budget[x]
         /\ Spend(x) => left'[x] < Budget[x]
<1>1. left[x] \in Nat /\ left'[x] \in Nat /\ Budget[x] \in Nat /\ left'[x] <= left[x] /\ left[x] <= Budget[x]
  BY StateTypes, BudgetAssumption DEF TypeOK, ClusterTypeOK, Paid, Ledger
<1>2. Spend(x) => left'[x] = left[x] - 1
  BY StateTypes DEF Spend
<1> QED BY <1>1, <1>2

LEMMA OrphanSteps ==
  ASSUME TypeOK, TypeOK', Ledger, Paid, NoOrphan'
  PROVE  /\ NoOrphan /\ ~Spend("disown")
         /\ Spend("drift") => ~(left["squat"] < Budget["squat"])
         /\ Spend("squat") => left'["squat"] < Budget["squat"]
<1>1. {"disown", "drift", "squat"} \subseteq Nuisances
  BY DEF Nuisances
<1>2. /\ left'["disown"] = Budget["disown"]
      /\ left'["drift"] = Budget["drift"] \/ left'["squat"] = Budget["squat"]
  BY DEF NoOrphan
<1>3. left["squat"] \in Nat /\ Budget["squat"] \in Nat
  BY <1>1, StateTypes, BudgetAssumption
<1>4. left["squat"] = Budget["squat"] => ~(left["squat"] < Budget["squat"])
  BY <1>3
<1> QED BY <1>1, <1>2, <1>4, BudgetOf DEF NoOrphan

LEMMA HomesMove ==
  ASSUME TypeOK, TypeOK', Ledger, Paid, Squatted, NoOrphan', [Next]_vars, NEW ns \in Namespaces
  PROVE  HomeMove(ns)
<1> DEFINE h == Home(ns)
<1>1. h \in Objects /\ h[1] = "Namespace" /\ "Namespace" \notin IstioKinds
  BY Homes DEF IstioKinds
<1>2. CASE UNCHANGED obj
  BY <1>2 DEF HomeMove
<1>3. ASSUME NEW o \in Objects, NEW x, NEW q, Write(o, x, q), o # h PROVE HomeMove(ns)
  BY <1>1, <1>3, StateTypes DEF Write, Commit, HomeMove
<1>4. ASSUME NEW x, NEW q, Write(h, x, q) PROVE obj'[h] = x
  BY <1>1, <1>4, StateTypes DEF Write, Commit
<1>5. CASE SyncWrite \/ SyncFault
  <2>1. Syncing /\ Accepted
    BY <1>5 DEF SyncWrite, SyncFault
  <2>2. PICK x \in {There, Sent} : Write(Target, x, queue)
    BY <1>5 DEF SyncWrite, SyncFault
  <2>3. \/ obj'[h] = obj[h]
        \/ /\ obj'[h] # None /\ obj'[h].owner = RunUid
           /\ obj[h] # None => obj[h].owner = RunUid /\ obj'[h].deleting = obj[h].deleting
           /\ obj[h] = None => ~obj'[h].deleting
    BY <2>1, <2>2, HomesWritten
  <2>4. RunUid # NoOwner
    BY <2>1, SyncTypes, NoneAssumption
  <2> QED BY <2>3, <2>4 DEF HomeMove, Owned
<1>6. CASE Worker
  <2>1. CASE \E n \in Names : FetchNotFound(n) \/ Fetch(n)
    BY <1>2, <2>1 DEF FetchNotFound, Fetch, objVars
  <2>2. CASE SyncNothing \/ SyncConflict \/ SyncRejected
    BY <1>2, <2>2 DEF SyncNothing, SyncConflict, SyncRejected, objVars
  <2>3. CASE Conclude \/ ReportLost
    BY <1>2, <2>3
       DEF Conclude, StatusUnchanged, StatusPatch, StatusFails, ReportError, ReportLost, objVars
  <2> QED BY <1>5, <1>6, <2>1, <2>2, <2>3 DEF Worker, Sync
<1>7. CASE CRDWatch \/ Process
  BY <1>2, <1>7 DEF CRDWatch, RefreshDetector, EnqueueAll, Process, SetUp, TakeOver, StartFails, objVars
<1>8. CASE Environment
  <2>1. ASSUME NEW o \in Objects, DrainNamespace(o) PROVE HomeMove(ns)
    BY <1>1, <1>3, <2>1 DEF DrainNamespace
  <2>2. ASSUME NEW o \in Objects, CollectGarbage(o) \/ Drift(o) PROVE HomeMove(ns)
    <3>1. obj[o] # None
      BY <2>2 DEF CollectGarbage, Doomed, Drift
    <3>2. PICK x \in {AfterDelete(o), [obj[o] EXCEPT !.content = {}]} : Write(o, x, queue)
      BY <2>2 DEF CollectGarbage, Drift
    <3>3. CASE o # h
      BY <1>3, <3>2, <3>3
    <3>4. CASE o = h
      <4>1. obj'[h] # None /\ obj'[h].owner = obj[h].owner
        BY <1>1, <1>4, <3>1, <3>2, <3>4, Remains
      <4>2. obj[h].owner # NoOwner
        <5>1. CASE CollectGarbage(h)
          BY <5>1 DEF CollectGarbage, Doomed
        <5>2. CASE Drift(h)
          <6>1. ~(left["squat"] < Budget["squat"])
            BY <5>2, OrphanSteps DEF Drift
          <6> QED BY <3>1, <3>4, <6>1 DEF Squatted
        <5> QED BY <2>2, <3>4, <5>1, <5>2
      <4>3. Doomed(h) \/ Spend("drift")
        BY <2>2, <3>4 DEF CollectGarbage, Drift
      <4> QED BY <3>1, <3>4, <4>1, <4>2, <4>3 DEF HomeMove, Owned
    <3> QED BY <3>3, <3>4
  <2>3. ASSUME NEW o \in Objects, Disown(o) PROVE HomeMove(ns)
    BY <2>3, OrphanSteps DEF Disown
  <2>4. ASSUME NEW n \in Namespaces, FinalizeNamespace(n) PROVE HomeMove(ns)
    <3>1. Write(Home(n), None, queue) /\ Terminating(n)
      BY <2>4 DEF FinalizeNamespace, Home
    <3>2. CASE Home(n) # h
      BY <1>3, <3>1, <3>2, Homes
    <3>3. CASE Home(n) = h
      <4>1. Write(h, None, queue) /\ obj[h] # None /\ obj[h].deleting
        BY <3>1, <3>3 DEF Terminating, Home
      <4>2. Owned(obj[h])
        BY <4>1 DEF Squatted, Owned
      <4>3. PICK m \in Names : m = obj[h].owner[1]
        BY <1>1, <4>2, StateTypes DEF Owned, ObjectRecords, Uids
      <4>4. /\ Commit([obj EXCEPT ![h] = None], queue) /\ queue \in SUBSET Names
            /\ [obj EXCEPT ![h] = None] \in [Objects -> ObjectRecords \cup {None}]
            /\ [obj EXCEPT ![h] = None][h] # obj[h]
            /\ m \in OwnerName(obj[h])
        BY <1>1, <4>1, <4>2, <4>3, StateTypes DEF Write, Owned, OwnerName
      <4>5. Awaited(m)'
        BY <1>1, <4>4, ChangeHeard
      <4> QED BY <1>4, <4>1, <4>2, <4>3, <4>5 DEF HomeMove
    <3> QED BY <3>2, <3>3
  <2>5. ASSUME NEW n \in Namespaces, Squat(n) PROVE HomeMove(ns)
    <3>1. PICK x \in ObjectRecords : x.owner = NoOwner /\ ~x.deleting /\ Write(Home(n), x, queue)
      BY <2>5 DEF Squat, Home, ObjectRecords
    <3>2. obj[Home(n)] = None /\ left'["squat"] < Budget["squat"]
      BY <2>5, OrphanSteps DEF Squat, Home
    <3>3. CASE Home(n) # h
      BY <1>3, <3>1, <3>3, Homes
    <3>4. CASE Home(n) = h
      BY <1>4, <3>1, <3>2, <3>4, NoneAssumption DEF HomeMove
    <3> QED BY <3>3, <3>4
  <2>6. CASE InstallOrRemoveIstio
    <3>1. obj'[h] = obj[h]
      BY <1>1, <2>6 DEF InstallOrRemoveIstio, Commit
    <3> QED BY <3>1 DEF HomeMove
  <2>7. CASE \/ \E n \in Names : \/ DeliverWorkspace(n) \/ FinishForeground(n)
                                 \/ DeleteWorkspace(n) \/ DeleteInForeground(n)
                                 \/ \E s \in Specs : CreateWorkspace(n, s) \/ EditWorkspace(n, s)
             \/ TouchIstio \/ DiscoveryStep \/ \E o \in Objects : Deliver(o)
    BY <1>2, <2>7 DEF DeliverWorkspace, FinishForeground, DeleteWorkspace, DeleteInForeground,
                CreateWorkspace, EditWorkspace, TouchIstio, DiscoveryStep, Deliver, objVars
  <2> QED BY <1>8, <2>1, <2>2, <2>3, <2>4, <2>5, <2>6, <2>7 DEF Environment
<1>9. CASE UNCHANGED vars
  BY <1>2, <1>9 DEF vars
<1> QED BY <1>6, <1>7, <1>8, <1>9 DEF Next

LEMMA SquattedKept ==
  ASSUME TypeOK, TypeOK', Ledger, Paid, Squatted, NoOrphan', [Next]_vars
  PROVE  Squatted'
<1> SUFFICES ASSUME NEW ns \in Namespaces, NEW x, x = obj'[Home(ns)] \/ x = cache'[Home(ns)],
                    x # None, x.owner = NoOwner
             PROVE  /\ left'["squat"] < Budget["squat"]
                    /\ obj'[Home(ns)] # None /\ obj'[Home(ns)].owner = NoOwner /\ ~obj'[Home(ns)].deleting
  BY DEF Squatted, Home
<1>1. cache'[Home(ns)] = cache[Home(ns)] \/ cache'[Home(ns)] = obj'[Home(ns)]
  BY ObjInherited, Homes DEF ObjHeritage
<1>2. left["squat"] < Budget["squat"] => left'["squat"] < Budget["squat"]
  BY BudgetOf DEF Nuisances
<1>3. HomeMove(ns)
  BY HomesMove
<1> QED BY <1>1, <1>2, <1>3 DEF Squatted, HomeMove, Owned
-----------------------------------------------------------------------------
(* Who is about to act. *)

Wants(n, ns) == ws[n] # None /\ ws[n].spec.namespace = ns

Chasing(m) == Awaited(m) \/ Busy(m, 1)

(* A Workspace that wants the Namespace is about to be told whether it is free. *)
Pursued(ns) == \E m \in Names : Wants(m, ns) /\ Chasing(m)

(* Where there is no Namespace, a rival is gone, or somebody is about to make it. *)
Stranding ==
  \A n \in Names : ws[n] # None /\ obj[HomeOf(n)] = None =>
    GoneRival(n) \/ Pursued(ws[n].spec.namespace)

(* An owner of the Namespace is about to be told that it has gone. *)
Contested(ns) == \E u \in Uids : AtHome(u, ns) /\ Awaited(u[1])

(* Such an owner still lives and wants it, or is a rival that has gone. *)
Blamed ==
  \A ns \in Namespaces, n \in Names :
    Contested(ns) /\ Wants(n, ns) => GoneRival(n) \/ Pursued(ns)

LEMMA SomebodyBlamed == TypeOK /\ WsKnown => Blamed
<1> SUFFICES ASSUME TypeOK, WsKnown, NEW ns \in Namespaces, NEW n \in Names, Contested(ns), Wants(n, ns)
             PROVE  GoneRival(n) \/ Pursued(ns)
  BY DEF Blamed
<1>1. PICK u \in Uids : AtHome(u, ns) /\ Awaited(u[1])
  BY DEF Contested
<1>2. PICK m \in Names, i \in Nat : u[1] = m /\ u[2] = i
  BY DEF Uids
<1>3. 1 <= i /\ i <= born[m] /\ (ws[m] # None /\ ws[m].inc = i => Wants(m, ns)) /\ Awaited(m)
  BY <1>1, <1>2 DEF AtHome, KnownUid, Live, Wants
<1>4. CASE m = n \/ Wants(m, ns)
  BY <1>3, <1>4 DEF Pursued, Chasing
<1>5. CASE m # n /\ ws[m] = None
  <2>1. born[m] > 0
    BY <1>3, StateTypes
  <2> QED BY <1>5, <2>1 DEF GoneRival
<1>6. CASE m # n /\ ws[m] # None /\ ws[m].inc # i
  <2>1. born[m] # i
    BY <1>6 DEF WsKnown
  <2>2. born[m] > 1
    BY <1>3, <2>1, StateTypes
  <2> QED BY <1>6, <2>2 DEF GoneRival
<1> QED BY <1>3, <1>4, <1>5, <1>6

LEMMA RivalsStayGone ==
  ASSUME TypeOK, TypeOK', WsHeritage, NEW n \in Names, GoneRival(n)
  PROVE  GoneRival(n)'
<1>1. PICK m \in Names \ {n} : born[m] > 1 \/ (born[m] > 0 /\ ws[m] = None)
  BY DEF GoneRival
<1>2. born[m] \in Nat /\ born'[m] \in Nat /\ born[m] <= born'[m]
  BY StateTypes DEF TypeOK, ClusterTypeOK, WsHeritage
<1>3. CASE born[m] > 1
  <2>1. born'[m] > 1
    BY <1>2, <1>3
  <2> QED BY <2>1 DEF GoneRival
<1>4. CASE born[m] > 0 /\ ws[m] = None
  <2>1. born'[m] > 0 /\ (ws'[m] # None => born'[m] = born[m] + 1)
    BY <1>2, <1>4 DEF WsHeritage
  <2>2. born'[m] > 1 \/ (born'[m] > 0 /\ ws'[m] = None)
    BY <1>2, <1>4, <2>1
  <2> QED BY <2>2 DEF GoneRival
<1> QED BY <1>1, <1>3, <1>4

(* The rest of a step's account: a Namespace goes only with an owner's
   knowledge, a new Workspace is heard of, and who is after a Namespace stays
   after it until it is there, or an owner of it is told that it has gone. *)
LEMMA StrandingKept ==
  ASSUME TypeOK, TypeOK', WsKnown, WsKnown', WsHeritage, Stranding,
         \A ns \in Namespaces : obj[Home(ns)] # None /\ obj'[Home(ns)] = None => Contested(ns)',
         \A m \in Names : ws[m] = None /\ ws'[m] # None => Awaited(m)',
         \A ns \in Namespaces, m \in Names : Wants(m, ns) /\ Chasing(m) /\ ws'[m] # None =>
           Chasing(m)' \/ obj'[Home(ns)] # None \/ Contested(ns)'
  PROVE  Stranding'
<1>1. ws' \in [Names -> WorkspaceRecords \cup {None}]
  BY DEF TypeOK, ClusterTypeOK
<1> SUFFICES ASSUME NEW n \in Names, NEW ns \in Namespaces,
                    ws'[n] # None, ns = ws'[n].spec.namespace, obj'[Home(ns)] = None
             PROVE  GoneRival(n)' \/ Pursued(ns)'
  <2>1. \A n \in Names : ws'[n] # None => ws'[n].spec.namespace \in Namespaces
    BY <1>1, SpecsAssumption DEF WorkspaceRecords, SpecRecords
  <2> QED BY <2>1 DEF Stranding, HomeOf, Home, Pursued, Wants
<1>2. (TypeOK /\ WsKnown => Blamed)'
  BY SomebodyBlamed, PTL
<1>3. Contested(ns)' => GoneRival(n)' \/ Pursued(ns)'
  BY <1>2 DEF Blamed, Wants
<1>4. CASE ws[n] = None
  BY <1>4 DEF Pursued, Wants, Chasing
<1>5. CASE ws[n] # None
  <2>1. Wants(n, ns) /\ HomeOf(n) = Home(ns)
    BY <1>5 DEF WsHeritage, Wants, HomeOf, Home
  <2>2. CASE obj[Home(ns)] # None
    BY <1>3, <2>2
  <2>3. CASE GoneRival(n)
    BY <2>3, RivalsStayGone
  <2>4. ASSUME NEW m \in Names, Wants(m, ns), Chasing(m) PROVE GoneRival(n)' \/ Pursued(ns)'
    <3>1. CASE ws'[m] = None
      <4>1. born'[m] > 0
        <5>1. born[m] \in Nat /\ born'[m] \in Nat /\ 1 <= born[m] /\ born[m] <= born'[m]
          BY <2>4, StateTypes DEF TypeOK, ClusterTypeOK, WsKnown, WsHeritage, Wants
        <5> QED BY <5>1
      <4> QED BY <3>1, <4>1 DEF GoneRival
    <3>2. CASE ws'[m] # None
      <4>1. Wants(m, ns)'
        BY <2>4, <3>2 DEF WsHeritage, Wants
      <4>2. Chasing(m)' \/ Contested(ns)'
        BY <2>4, <3>2
      <4> QED BY <1>3, <4>1, <4>2 DEF Pursued
    <3> QED BY <3>1, <3>2
  <2> QED BY <1>5, <2>1, <2>2, <2>3, <2>4 DEF Stranding, Pursued, Wants
<1> QED BY <1>4, <1>5

(* Whoever is queued for what he misses stays so, in a step that neither begins
   a reconcile nor moves one on. *)
LEMMA ChasesKept ==
  ASSUME Kept, NEW m \in Names, ws'[m] # None, Chasing(m), Busy(m, 1) => Chasing(m)'
  PROVE  Chasing(m)'
BY DEF Kept, Chasing

LEMMA ChasesConcluded ==
  ASSUME TypeOK, Conclude \/ ReportLost, NEW m \in Names, Busy(m, 1)
  PROVE  Chasing(m)'
<1>1. CASE StatusUnchanged \/ StatusPatch \/ StatusFails
  <2>1. Reporting
    BY <1>1 DEF StatusUnchanged, StatusPatch, StatusFails
  <2>2. run.step \in 1 .. 10 /\ ~(run.step <= 9) /\ ~Retried(run)
    BY <2>1, ReportingEnds, RunTypes
  <2>3. ~(run.step <= 1)
    BY <2>2
  <2> QED BY <2>2, <2>3 DEF Busy
<1>2. CASE ReportError \/ ReportLost
  <2>1. run # None /\ ~Going(run)
    BY <1>2 DEF ReportError, ReportLost, Going
  <2>2. m = run.name /\ m \in Requeued
    BY <2>1, ReportTypes DEF Busy
  <2>3. Requeued \subseteq queue'
    BY <1>2 DEF ReportError, ReportLost, Store
  <2> QED BY <2>2, <2>3 DEF Chasing, Awaited
<1> QED BY <1>1, <1>2 DEF Conclude

LEMMA ChasesFetched ==
  ASSUME TypeOK, TypeOK', Conv, NEW n \in Names, FetchNotFound(n) \/ Fetch(n),
         NEW m \in Names, ws'[m] # None, Chasing(m)
  PROVE  Chasing(m)'
<1>1. /\ run = None /\ queue' = queue \ {n}
      /\ UNCHANGED <<ws, wsCache, wsPend, pend, crdEvent, mapping>>
  BY DEF FetchNotFound, Fetch, wsVars, objVars, detectorVars
<1>2. Awaited(m)
  BY <1>1 DEF Chasing, Busy, Going, Retried
<1>3. CASE m # n
  BY <1>1, <1>2, <1>3 DEF Awaited, Chasing
<1>4. CASE m = n /\ FetchNotFound(n)
  <2>1. n \in wsPend
    BY <1>1, <1>4 DEF FetchNotFound, Conv, Fresh, WsFresh, Abreast
  <2> QED BY <1>1, <1>4, <2>1 DEF Awaited, Chasing
<1>5. CASE m = n /\ Fetch(n)
  <2>1. run'.name = n /\ run'.step = 1 /\ Going(run')
    BY <1>5, FetchStarts
  <2>2. run'.step <= 1
    BY <2>1
  <2> QED BY <1>5, <2>1, <2>2 DEF Busy, Chasing
<1> QED BY <1>3, <1>4, <1>5

(* A reconcile that comes to its Namespace finds it, or makes it, or is told of
   an owner who has not yet heard that it has gone. *)
LEMMA ChasesSynced ==
  ASSUME TypeOK, TypeOK', IstioInformed, Conv, Known, WsHeritage, Squatted, Paid, Sync \/ SyncFault,
         NEW ns \in Namespaces, NEW m \in Names, Wants(m, ns), ~Awaited(m), Busy(m, 1)
  PROVE  Chasing(m)' \/ obj'[Home(ns)] # None \/ Contested(ns)'
<1> DEFINE h == Home(ns)
<1>1. Syncing /\ UNCHANGED <<wsVars, detectorVars, mapping>>
  BY DEF Sync, SyncWrite, SyncNothing, SyncConflict, SyncRejected, SyncFault
<1>2. Going(run) /\ run.name = m /\ run.step <= 1
  BY <1>1, SyncTypes, GoingOn DEF Busy
<1>3. run.step = 1
  <2>1. run.step \in 1 .. 9
    BY <1>1, SyncTypes
  <2> QED BY <1>2, <2>1
<1>4. run.w.spec.namespace = ns
  BY <1>2 DEF Conv, RunFresh, Wants, Abreast
<1>5. Target = h /\ h \in Objects /\ Kind = "Namespace"
  BY <1>1, <1>3, <1>4, SyncTypes, Homes
<1>6. CASE SyncRejected \/ SyncFault
  <2>1. run'.name = m /\ Retried(run')
    BY <1>1, <1>2, <1>6, Moves DEF SyncRejected, SyncFault
  <2> QED BY <2>1 DEF Chasing, Busy
<1>7. CASE SyncNothing
  <2>1. obj[h] # None
    BY <1>1, <1>2, <1>5, <1>7, SettledTarget DEF SyncNothing
  <2> QED BY <1>7, <2>1 DEF SyncNothing, objVars
<1>8. CASE SyncWrite
  <2>1. Sent \in ObjectRecords
    BY <1>1, <1>5, <1>8, SentWanted, NamespaceWanted DEF Want, SyncWrite
  <2>2. obj'[h] = Sent
    BY <1>1, <1>5, <1>8, HomesWritten DEF SyncWrite
  <2> QED BY <2>1, <2>2, NoneAssumption
<1>9. CASE SyncConflict
  <2>1. UNCHANGED objVars /\ Refuses
    BY <1>9 DEF SyncConflict
  <2> SUFFICES ASSUME obj[h] = None PROVE Contested(ns)'
    BY <2>1 DEF objVars
  <2>2. cache[h] # None /\ Owned(cache[h])
    BY <1>5, <2>1 DEF Refuses, Seen, Squatted, Owned
  <2>3. PICK u \in Uids : u = cache[h].owner
    BY <1>5, <2>2, UidTypes
  <2>4. AtHome(u, ns)
    BY <1>5, <2>2, <2>3, Homes DEF Known, ObjKnown
  <2>5. cache[h] \in ObjectRecords
    BY <1>5, <2>2, StateTypes
  <2>6. u[1] \in pend[h]
    BY <1>5, <2>2, <2>3, <2>5, OwnerNames DEF Conv, Fresh, ObjFresh
  <2>7. u[1] \in pend'[h]
    BY <2>1, <2>6 DEF objVars
  <2>8. Awaited(u[1])'
    BY <1>5, <2>7 DEF Awaited
  <2>9. AtHome(u, ns)'
    BY <2>4, StaysAtHome DEF TypeOK, ClusterTypeOK, Known
  <2> QED BY <2>8, <2>9 DEF Contested
<1> QED BY <1>6, <1>7, <1>8, <1>9 DEF Sync

LEMMA StrandingSteps ==
  ASSUME TypeOK, TypeOK', IstioInformed, Ledger, Conv, Known, Known', Squatted, Stranding, NoOrphan',
         [Next]_vars
  PROVE  Stranding'
<1>1. Paid /\ WsHeritage /\ WsKnown /\ WsKnown' /\ born' \in [Names -> Nat]
  BY BudgetSteps, WsInherited DEF Known, TypeOK, ClusterTypeOK
<1>2. ASSUME NEW ns \in Namespaces, obj[Home(ns)] # None, obj'[Home(ns)] = None
      PROVE  Contested(ns)'
  <2>1. HomeMove(ns)
    BY <1>1, HomesMove
  <2>2. Owned(obj[Home(ns)]) /\ \E m \in Names : m = obj[Home(ns)].owner[1] /\ Awaited(m)'
    BY <1>2, <2>1 DEF HomeMove, Owned
  <2>3. PICK u \in Uids : u = obj[Home(ns)].owner
    BY <2>2, UidTypes, Homes
  <2>4. AtHome(u, ns)
    BY <2>2, <2>3, Homes DEF Known, ObjKnown
  <2>5. AtHome(u, ns)'
    BY <1>1, <2>4, StaysAtHome
  <2> QED BY <2>2, <2>3, <2>5 DEF Contested
<1>3. ASSUME Kept, \A m \in Names : Busy(m, 1) => Chasing(m)' PROVE Stranding'
  <2>1. \A m \in Names : ws[m] = None /\ ws'[m] # None => Awaited(m)'
    BY <1>3 DEF Kept, Steady
  <2>2. \A m \in Names : Chasing(m) /\ ws'[m] # None => Chasing(m)'
    BY <1>3, ChasesKept
  <2> QED BY <1>1, <1>2, <2>1, <2>2, StrandingKept
<1>4. ASSUME Kept, run' = run PROVE Stranding'
  <2>1. \A m \in Names : Busy(m, 1) => Chasing(m)'
    BY <1>4 DEF Chasing, Busy
  <2> QED BY <1>3, <1>4, <2>1
<1>5. CASE Worker
  <2>1. ASSUME NEW n \in Names, FetchNotFound(n) \/ Fetch(n) PROVE Stranding'
    <3>1. ws' = ws
      BY <2>1 DEF FetchNotFound, Fetch, wsVars
    <3> QED BY <1>1, <1>2, <2>1, <3>1, ChasesFetched, StrandingKept
  <2>2. CASE Sync \/ SyncFault
    <3>1. ws' = ws /\ Syncing
      BY <2>2 DEF Sync, SyncWrite, SyncNothing, SyncConflict, SyncRejected, SyncFault, wsVars
    <3>2. Remembers
      <4>1. CASE SyncWrite \/ SyncFault
        <5>1. PICK x \in {There, Sent} : Write(Target, x, queue)
          BY <4>1 DEF SyncWrite, SyncFault
        <5> QED BY <1>1, <4>1, <5>1, KeptByWrite DEF SyncWrite, SyncFault
      <4>2. CASE SyncNothing \/ SyncConflict \/ SyncRejected
        BY <4>2 DEF SyncNothing, SyncConflict, SyncRejected, Remembers, wsVars, objVars, detectorVars
      <4> QED BY <2>2, <4>1, <4>2 DEF Sync
    <3>3. ASSUME NEW ns \in Namespaces, NEW m \in Names, Wants(m, ns), Chasing(m)
          PROVE  Chasing(m)' \/ obj'[Home(ns)] # None \/ Contested(ns)'
      <4>1. CASE Awaited(m)
        BY <3>2, <4>1, StillAwaited DEF Chasing
      <4>2. CASE ~Awaited(m)
        BY <1>1, <2>2, <3>3, <4>2, ChasesSynced DEF Chasing
      <4> QED BY <4>1, <4>2
    <3> QED BY <1>1, <1>2, <3>1, <3>3, StrandingKept
  <2>3. CASE Conclude \/ ReportLost
    BY <1>1, <1>3, <2>3, ConvConclude, ChasesConcluded
  <2> QED BY <1>5, <2>1, <2>2, <2>3 DEF Worker
<1>6. CASE CRDWatch
  BY <1>1, <1>4, <1>6, KeptByCRDWatch
<1>7. CASE Process
  <2>1. CASE TakeOver
    <3>1. ws' = ws /\ \A n \in Names : ws[n] # None => Awaited(n)'
      BY <2>1 DEF TakeOver, Awaited
    <3> QED BY <1>1, <1>2, <3>1, StrandingKept DEF Chasing
  <2> QED BY <1>1, <1>4, <1>7, <2>1, KeptByStandby DEF Process
<1>8. CASE Environment /\ UNCHANGED <<run, mapping, standby>>
  BY <1>1, <1>4, <1>8, KeptByEnvironment
<1>9. CASE UNCHANGED vars
  <2>1. UNCHANGED <<wsVars, objVars, detectorVars, watched, mapping, queue, run>>
    BY <1>9 DEF vars, wsVars, objVars, detectorVars
  <2> QED BY <1>1, <1>4, <2>1, KeptByNothing DEF Conv
<1> QED BY <1>5, <1>6, <1>7, <1>8, <1>9 DEF Next
-----------------------------------------------------------------------------
(* Everything together. *)

Blameless == NoOrphan => Squatted /\ Stranding

LEMMA BlamelessHolds ==
  ASSUME IstioInformed
  PROVE  Spec => []Blameless
<1>1. Init => Blameless
  <2> SUFFICES ASSUME Init PROVE Blameless
    OBVIOUS
  <2>1. (\A n \in Names : ws[n] = None) /\ (\A o \in Objects : obj[o] = None /\ cache[o] = None)
    BY DEF Init
  <2> QED BY <2>1, Homes DEF Blameless, Squatted, Stranding
<1>2. TypeOK /\ TypeOK' /\ Ledger /\ Conv /\ Known /\ Known' /\ Blameless /\ [Next]_vars => Blameless'
  <2> SUFFICES ASSUME TypeOK, TypeOK', Ledger, Conv, Known, Known', Blameless, [Next]_vars, NoOrphan'
               PROVE  Squatted' /\ Stranding'
    BY DEF Blameless
  <2>1. Paid /\ Squatted /\ Stranding
    BY BudgetSteps, OrphanSteps DEF Blameless
  <2> QED BY <2>1, SquattedKept, StrandingSteps
<1> QED BY <1>1, <1>2, TypeCorrect, LedgerHolds, ConvHolds, KnownHolds, PTL DEF Spec

(* When the controller rests, a Workspace whose Namespace is not there has a
   rival that is gone, or that has gone and come back: as long as none is, the
   refusal of a Workspace, the retry of a failed creation and the event of a
   Namespace that goes away reach somebody who wants it and will make it.  This
   is so unless children were stripped of their owner references, or somebody
   deleted a Namespace that an outsider had created, which no Workspace hears of
   (NoOrphan).  IstioInformed is what TargetsConverged's invariant asks. *)
THEOREM OnlyRivalsStrand ==
  ASSUME IstioInformed
  PROVE  Spec => [](NoOrphan => StrandedByRivalsOnly)
<1>1. ASSUME TypeOK, Blameless, NoOrphan PROVE StrandedByRivalsOnly
  <2> SUFFICES ASSUME AtRest, NEW n \in Names, ws[n] # None, obj[HomeOf(n)] = None
               PROVE  GoneRival(n)
    BY DEF StrandedByRivalsOnly
  <2>1. GoneRival(n) \/ Pursued(ws[n].spec.namespace)
    BY <1>1 DEF Blameless, Stranding
  <2>2. ~Pursued(ws[n].spec.namespace)
    BY DEF AtRest, Pursued, Chasing, Awaited, Busy, Going, Retried
  <2> QED BY <2>1, <2>2
<1> QED BY <1>1, TypeCorrect, BlamelessHolds, PTL
=============================================================================
