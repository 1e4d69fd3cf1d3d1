------------------------- MODULE WorkspaceStatusProofs -------------------------
(***************************************************************************)
(* Proofs about what the status of a Workspace says: when the controller   *)
(* rests, and that Ready is true at any moment.                            *)
(*                                                                         *)
(* A status is patched against the copy that the reconcile read when it    *)
(* began, and only if it differs from it.  The first invariant says what   *)
(* that leaves behind, with informers as late as they like: a status that  *)
(* tells how it went, or one that was overlooked, or another reconcile to  *)
(* come.  The second relates how far a reconcile has got to the children   *)
(* that are in line, while nobody else touches them.                       *)
(***************************************************************************)
EXTENDS WorkspaceRivalProofs, WorkspaceHistory

(* The reconcile ended on a Namespace of somebody else. *)
Conflicting(r) == r # None /\ r.error = "NamespaceConflict"

(* The reconcile works from what is stored, status apart, and knows whether it
   holds its Namespace; or another one follows. *)
RunCurrent ==
  run # None /\ ws[run.name] # None =>
    \/ Awaited(run.name)
    \/ /\ Abreast(run.w, ws[run.name])
       /\ Going(run) /\ run.step > 1 => HoldsHome(run.name)
       /\ Conflicting(run) => ~HoldsHome(run.name)

(* The status of Workspace n tells how it went. *)
Tells(n) ==
  IF HoldsHome(n) THEN ws[n].status = Reconciled(ws[n], enabled)
  ELSE /\ ws[n].status.observedGeneration = ws[n].gen
       /\ ws[n].status.ready = [reason |-> "NamespaceConflict", generation |-> ws[n].gen]

(* ... or will be told, or was overlooked. *)
Told ==
  \A n \in Names : ws[n] # None =>
    Awaited(n) \/ (run # None /\ run.name = n) \/ n \in overlooked \/ Tells(n)

(* What of a Workspace changes other than its status is news to its watch. *)
Announced == \A n \in Names : ws'[n] = ws[n] \/ Awaited(n)'
-----------------------------------------------------------------------------
(* The memory. *)

(* The controller of the history is the controller. *)
LEMMA HistoryRefines == HSpec => Spec
<1>1. HInit => Init
  BY DEF HInit
<1>2. [HNext]_hvars => [Next]_vars
  BY DEF HNext, hvars
<1> QED BY <1>1, <1>2, PTL DEF HSpec, Spec

LEMMA HistorySteps ==
  ASSUME [HNext]_hvars
  PROVE  [Next]_vars /\ Remember
BY DEF HNext, hvars, vars, Remember, Concludes

(* Nothing is forgotten, or overlooked, while the reconcile goes on. *)
LEMMA NothingConcluded ==
  ASSUME Remember, run = None \/ run' # None \/ run' = run
  PROVE  overlooked' = overlooked
BY DEF Remember, Concludes

(* What is not overlooked went by the stored status, and its report arrived. *)
LEMMA NotOverlooked ==
  ASSUME Remember, run # None, run' = None, UNCHANGED standby,
         run.name \notin overlooked', ws[run.name] # None
  PROVE  run.w.status = ws[run.name].status /\ left'["report"] = left["report"]
BY DEF Remember, Concludes, Overlooks
-----------------------------------------------------------------------------
(* The informer. *)

LEMMA EnvironmentAnnounces ==
  ASSUME TypeOK, Environment
  PROVE  Announced
<1>1. ASSUME NEW n \in Names,
             \/ FinishForeground(n) \/ DeleteWorkspace(n) \/ DeleteInForeground(n)
             \/ \E s \in Specs : CreateWorkspace(n, s) \/ EditWorkspace(n, s)
      PROVE  Announced
  <2>1. PICK w : Store(n, w, queue) /\ PassesPredicate(ws[n], w)
    BY <1>1, UserStores
  <2>2. n \in queue' \/ n \in wsPend'
    BY <2>1 DEF Store
  <2>3. \A m \in Names : m # n => ws'[m] = ws[m]
    BY <2>1, StateTypes DEF Store
  <2> QED BY <2>2, <2>3 DEF Announced, Awaited
<1>2. CASE ws' = ws
  BY <1>2 DEF Announced
<1>3. CASE \E o \in Objects : Deliver(o) \/ CollectGarbage(o) \/ DrainNamespace(o)
                                \/ Drift(o) \/ Disown(o)
  BY <1>2, <1>3 DEF Deliver, CollectGarbage, DrainNamespace, Drift, Disown, wsVars
<1>4. CASE \E n \in Names : DeliverWorkspace(n)
  BY <1>2, <1>4 DEF DeliverWorkspace
<1>5. CASE \/ \E ns \in Namespaces : FinalizeNamespace(ns) \/ Squat(ns)
           \/ InstallOrRemoveIstio \/ TouchIstio \/ DiscoveryStep
  BY <1>2, <1>5 DEF FinalizeNamespace, Squat, InstallOrRemoveIstio, TouchIstio, DiscoveryStep, wsVars
<1> QED BY <1>1, <1>3, <1>4, <1>5 DEF Environment
-----------------------------------------------------------------------------
(* What is reported. *)

(* A patch made against what is stored says all that is reported. *)
LEMMA PatchSaysAll ==
  ASSUME NEW s \in StatusRecords, NEW next \in StatusRecords
  PROVE  MergePatch(s, s, next) = next
<1> DEFINE changed == {k \in Kinds : IF k \in Roles THEN s.refs \cap Roles # next.refs \cap Roles
                                     ELSE k \in s.refs <=> k \notin next.refs}
           refs == (s.refs \ changed) \cup (next.refs \cap changed)
<1>1. s.refs \subseteq Kinds /\ next.refs \subseteq Kinds
  BY DEF StatusRecords
<1>2. ASSUME NEW k PROVE k \in refs <=> k \in next.refs
  BY <1>1
<1>3. refs = next.refs
  BY <1>2
<1>4. MergePatch(s, s, next) =
        [observedGeneration |-> next.observedGeneration, refs |-> refs, ready |-> next.ready]
  BY Zenon DEF MergePatch
<1> QED BY <1>3, <1>4 DEF StatusRecords

(* The report of a conflict. *)
LEMMA ConflictTold ==
  ASSUME NEW w \in WorkspaceRecords
  PROVE  /\ NotReady(w, "NamespaceConflict").observedGeneration = w.gen
         /\ NotReady(w, "NamespaceConflict").ready = [reason |-> "NamespaceConflict", generation |-> w.gen]
<1>1. w.status \in [observedGeneration : Nat, refs : SUBSET Kinds, ready : [reason : Reasons, generation : Nat]]
  BY Zenon DEF WorkspaceRecords, StatusRecords
<1> HIDE DEF Reasons
<1> QED BY <1>1 DEF NotReady
-----------------------------------------------------------------------------
(* A reconcile goes on, or is retried, or has ended in a conflict. *)
LEMMA Endings ==
  /\ \A r : Going(r) => ~Retried(r) /\ ~Conflicting(r)
  /\ \A r : Retried(r) => ~Conflicting(r)
  /\ \A r \in Runs : Going(r) \/ Retried(r) \/ Conflicting(r)
<1>1. \A r : Going(r) => ~Retried(r) /\ ~Conflicting(r)
  BY DEF Going, Retried, Conflicting
<1>2. \A r : Retried(r) => ~Conflicting(r)
  BY DEF Retried, Conflicting
<1>3. ASSUME NEW r \in Runs PROVE Going(r) \/ Retried(r) \/ Conflicting(r)
  <2>1. r.error \in {"", "NamespaceConflict", "ReconcileError"} /\ r # None
    BY RunsUnfolded, RunsAssumption
  <2> QED BY <2>1 DEF Going, Retried, Conflicting
<1> QED BY <1>1, <1>2, <1>3

(* Whether a Workspace tells how it went depends on no more than this. *)
LEMMA TellsOfSame ==
  ASSUME NEW n, ws'[n] = ws[n], enabled' = enabled, HoldsHome(n)' <=> HoldsHome(n), Tells(n)
  PROVE  Tells(n)'
BY DEF Tells

(* The reconcile does not move. *)
LEMMA StatusUnmoved ==
  ASSUME TypeOK, Kept, Announced, run' = run, overlooked' = overlooked
  PROVE  /\ RunCurrent => RunCurrent'
         /\ Told => Told'
<1>1. ASSUME NEW n \in Names, ws'[n] # None, ~Awaited(n)'
      PROVE  /\ ~Awaited(n) /\ ws'[n] = ws[n] /\ enabled' = enabled
             /\ HoldsHome(n)' <=> HoldsHome(n)
  BY <1>1 DEF Kept, Steady, Announced
<1>2. RunCurrent => RunCurrent'
  <2> SUFFICES ASSUME RunCurrent, run # None, NEW n \in Names, n = run.name, ws'[n] # None, ~Awaited(n)'
               PROVE  /\ Abreast(run.w, ws'[n])
                      /\ Going(run) /\ run.step > 1 => HoldsHome(n)'
                      /\ Conflicting(run) => ~HoldsHome(n)'
    BY RunTypes DEF RunCurrent
  <2> QED BY <1>1 DEF RunCurrent
<1>3. Told => Told'
  <2> SUFFICES ASSUME Told, NEW n \in Names, ws'[n] # None, ~Awaited(n)'
               PROVE  (run # None /\ run.name = n) \/ n \in overlooked \/ Tells(n)'
    BY DEF Told
  <2>1. ~Awaited(n) /\ ws'[n] = ws[n] /\ (Tells(n) => Tells(n)')
    BY <1>1, TellsOfSame
  <2> QED BY <2>1 DEF Told
<1> QED BY <1>2, <1>3

LEMMA StatusFetched ==
  ASSUME TypeOK, WsFresh, Told, Remember, NEW n \in Names, FetchNotFound(n) \/ Fetch(n)
  PROVE  RunCurrent' /\ Told'
<1>1. /\ run = None /\ queue' = queue \ {n}
      /\ UNCHANGED <<ws, wsPend, obj, pend, enabled, crdEvent, mapping>>
  BY DEF FetchNotFound, Fetch, wsVars, objVars, detectorVars
<1>o. overlooked' = overlooked
  BY <1>1, NothingConcluded
<1>f. \/ Awaited(n)'
      \/ Abreast(wsCache[n], ws[n])
  BY <1>1 DEF WsFresh, Awaited
<1>2. ASSUME NEW m \in Names, m # n, ws'[m] # None
      PROVE  Awaited(m)' \/ m \in overlooked' \/ Tells(m)'
  <2>1. Tells(m) => Tells(m)'
    BY <1>1 DEF Tells, HoldsHome, HomeOf, UidOf
  <2>2. Awaited(m) => Awaited(m)'
    BY <1>1, <1>2 DEF Awaited
  <2> QED BY <1>1, <1>o, <1>2, <2>1, <2>2 DEF Told
<1>3. CASE FetchNotFound(n)
  <2>1. wsCache[n] = None /\ run' = None
    BY <1>1, <1>3 DEF FetchNotFound
  <2>2. ws'[n] # None => Awaited(n)'
    BY <1>1, <1>f, <2>1 DEF Abreast
  <2> QED BY <1>2, <2>1, <2>2 DEF Told, RunCurrent
<1>4. CASE Fetch(n)
  <2>1. /\ run' # None /\ run'.name = n /\ run'.w = wsCache[n] /\ run'.step = 1 /\ Going(run')
    BY <1>4, FetchStarts
  <2>2. ~(run'.step > 1) /\ ~Conflicting(run')
    BY <2>1, Endings
  <2> QED BY <1>1, <1>f, <1>2, <2>1, <2>2 DEF Told, RunCurrent
<1> QED BY <1>3, <1>4
-----------------------------------------------------------------------------
(* Domain sync. *)

(* Where another Workspace's name is run, a step leaves its report as it was. *)
LEMMA ToldOthers ==
  ASSUME TypeOK, Told, Remember, Remembers, run # None, run' # None, run'.name = run.name,
         UNCHANGED <<ws, enabled>>,
         \A m \in Names : ws[m] # None /\ m # run.name => (HoldsHome(m)' <=> HoldsHome(m))
  PROVE  Told'
<1> SUFFICES ASSUME NEW m \in Names, ws'[m] # None, ~Awaited(m)', run'.name # m, m \notin overlooked'
             PROVE  Tells(m)'
  BY DEF Told
<1>1. ws[m] # None /\ ~Awaited(m) /\ run.name # m /\ m \notin overlooked
  BY StillAwaited, NothingConcluded
<1>2. Tells(m)
  BY <1>1 DEF Told
<1> QED BY <1>1, <1>2, TellsOfSame

LEMMA StatusSyncIdle ==
  ASSUME TypeOK, TypeOK', Conv, RunCurrent, Told, Remember, SyncNothing \/ SyncConflict \/ SyncRejected
  PROVE  RunCurrent' /\ Told'
<1>1. /\ Syncing
      /\ UNCHANGED <<ws, wsPend, obj, pend, enabled, queue, crdEvent, mapping>>
  BY DEF SyncNothing, SyncConflict, SyncRejected, wsVars, objVars, detectorVars
<1>2. /\ Remembers
      /\ \A m : (Awaited(m)' <=> Awaited(m)) /\ (HoldsHome(m)' <=> HoldsHome(m))
  BY <1>1 DEF Remembers, Awaited, HoldsHome, HomeOf, UidOf
<1>n. PICK n \in Names : n = run.name
  BY <1>1, SyncTypes
<1>i. PICK i \in 1 .. 9 : i = run.step
  BY <1>1, SyncTypes
<1>3. run # None /\ run' # None /\ run'.name = n /\ run'.w = run.w
  BY <1>n, <1>1, Moves, GoingOn, SyncTypes, RunsAssumption DEF SyncNothing, SyncConflict, SyncRejected
<1>4. Told'
  BY <1>n, <1>1, <1>2, <1>3, ToldOthers
<1>5. RunCurrent'
  <2> SUFFICES ASSUME ws[n] # None, ~Awaited(n)
               PROVE  /\ Abreast(run.w, ws[n])
                      /\ Going(run') /\ run'.step > 1 => HoldsHome(n)
                      /\ Conflicting(run') => ~HoldsHome(n)
    BY <1>1, <1>2, <1>3 DEF RunCurrent
  <2>1. /\ Abreast(run.w, ws[n])
        /\ Going(run) /\ i > 1 => HoldsHome(n)
    BY <1>n, <1>i, <1>3 DEF RunCurrent
  <2>2. CASE SyncRejected
    BY <1>1, <2>1, <2>2, Moves, Endings DEF SyncRejected
  <2>3. CASE SyncConflict
    BY <1>n, <1>1, <2>1, <2>3, Moves, RefusedHome DEF SyncConflict
  <2>4. CASE SyncNothing
    <3>1. Going(run') /\ Settled
      BY <1>1, <2>4, Moves DEF SyncNothing
    <3>2. CASE i > 1
      BY <1>1, <2>1, <3>1, <3>2, SyncTypes, Endings
    <3>3. CASE i = 1
      <4>1. obj[Target] # None /\ obj[Target].owner = RunUid /\ Target = Home(run.w.spec.namespace)
        BY <1>n, <1>i, <1>1, <3>1, <3>3, SettledTarget, SyncTypes
      <4>2. Target = HomeOf(n) /\ RunUid = UidOf(n)
        BY <1>n, <2>1, <4>1 DEF Abreast, HomeOf, Home, UidOf, RunUid
      <4> QED BY <2>1, <3>1, <4>1, <4>2, Endings DEF HoldsHome
    <3> QED BY <3>2, <3>3
  <2> QED BY <2>2, <2>3, <2>4
<1> QED BY <1>4, <1>5

LEMMA StatusSyncCall ==
  ASSUME TypeOK, TypeOK', IstioInformed, Conv, Paid, RunCurrent, Told, Remember, SyncWrite \/ SyncFault
  PROVE  RunCurrent' /\ Told'
<1>1. /\ Syncing /\ Accepted /\ UNCHANGED <<wsVars, detectorVars, watched, mapping>>
      /\ UNCHANGED <<ws, enabled>>
  BY DEF SyncWrite, SyncFault, wsVars, detectorVars
<1>n. PICK n \in Names : n = run.name
  BY <1>1, SyncTypes
<1>i. PICK i \in 1 .. 9 : i = run.step
  BY <1>1, SyncTypes
<1>2. PICK x \in {There, Sent} : Write(Target, x, queue) /\ (SyncWrite => x = Sent)
  BY DEF SyncWrite, SyncFault
<1>3. /\ Remembers
      /\ \A m \in Names : ws[m] # None /\ (m # n \/ i > 1) =>
           obj'[HomeOf(m)] = obj[HomeOf(m)] \/ (~HoldsHome(m) /\ ~HoldsHome(m)')
  BY <1>1, <1>n, <1>i, <1>2, KeptByWrite
<1>4. \A m \in Names : ws[m] # None /\ (m # n \/ i > 1) => (HoldsHome(m)' <=> HoldsHome(m))
  BY <1>1, <1>3 DEF HoldsHome, HomeOf, UidOf
<1>5. run # None /\ run' # None /\ run'.name = n /\ run'.w = run.w
  BY <1>n, <1>1, Moves, GoingOn, SyncTypes, RunsAssumption DEF SyncWrite, SyncFault
<1>6. Told'
  BY <1>n, <1>1, <1>3, <1>4, <1>5, ToldOthers
<1>7. RunCurrent'
  <2> SUFFICES ASSUME ws[n] # None, ~Awaited(n)'
               PROVE  /\ Abreast(run.w, ws[n])
                      /\ Going(run') /\ run'.step > 1 => HoldsHome(n)'
                      /\ Conflicting(run') => ~HoldsHome(n)'
    BY <1>1, <1>5 DEF RunCurrent
  <2>1. /\ Abreast(run.w, ws[n])
        /\ Going(run) /\ i > 1 => HoldsHome(n)
    BY <1>n, <1>i, <1>3, <1>5, StillAwaited DEF RunCurrent
  <2>2. CASE SyncFault
    BY <1>1, <2>1, <2>2, Moves, Endings DEF SyncFault
  <2>3. CASE SyncWrite
    <3>1. Going(run') /\ Going(run)
      BY <1>1, <2>3, Moves, SyncTypes DEF SyncWrite
    <3>2. CASE i > 1
      BY <1>4, <2>1, <3>1, <3>2, Endings
    <3>3. CASE i = 1
      <4>1. Target = Home(run.w.spec.namespace) /\ Kind = "Namespace"
        BY <1>i, <1>1, <3>3, SyncTypes
      <4>2. obj'[Target] = Sent /\ Sent \in ObjectRecords /\ Sent.owner = RunUid
        BY <1>1, <1>2, <2>3, <4>1, HomesWritten, SentWanted, NamespaceWanted DEF Want
      <4>3. Target = HomeOf(n) /\ RunUid = UidOf(n)
        BY <1>n, <2>1, <4>1 DEF Abreast, HomeOf, Home, UidOf, RunUid
      <4> QED BY <1>1, <2>1, <3>1, <4>2, <4>3, Endings, NoneAssumption DEF HoldsHome, HomeOf, UidOf
    <3> QED BY <3>2, <3>3
  <2> QED BY <2>2, <2>3
<1> QED BY <1>6, <1>7
-----------------------------------------------------------------------------
(* The end of a reconcile. *)

LEMMA StoredElsewhere ==
  ASSUME TypeOK, NEW n \in Names, Conclude \/ ReportLost, n = run.name
  PROVE  \A m \in Names : m # n => ws'[m] = ws[m]
<1>1. ASSUME NEW w, NEW q, Store(n, w, q) PROVE \A m \in Names : m # n => ws'[m] = ws[m]
  BY <1>1, StateTypes DEF Store
<1>2. UNCHANGED ws \/ \E w, q : Store(n, w, q)
  BY DEF Conclude, StatusUnchanged, StatusPatch, StatusFails, ReportError, ReportLost, wsVars
<1> QED BY <1>1, <1>2

(* What is stored when the controller has something to say. *)
LEMMA Reported ==
  ASSUME TypeOK, run # None, NEW n \in Names, n = run.name, ws[n] # None, run.w = ws[n],
         NEW next \in StatusRecords, NEW q, Store(n, Patched(n, next), q)
  PROVE  ws'[n] \in WorkspaceRecords /\ ws'[n].status = next
<1>1. ws'[n] = Patched(n, next)
  BY StateTypes DEF Store
<1>2. ws[n].status \in StatusRecords
  BY SpecTypes DEF WorkspaceRecords
<1>3. MergePatch(ws[n].status, ws[n].status, next) = next
  BY <1>2, PatchSaysAll
<1> QED BY <1>1, <1>3, PatchAbreast

LEMMA StatusConcluded ==
  ASSUME TypeOK, TypeOK', Conv, Paid, RunCurrent, Told, Remember, Conclude \/ ReportLost
  PROVE  RunCurrent' /\ Told'
<1>s. UNCHANGED standby
  BY DEF Conclude, StatusUnchanged, StatusPatch, StatusFails, ReportError, ReportLost
<1>1. run # None /\ run' = None /\ Kept
  BY ConvConclude DEF Conclude, StatusUnchanged, StatusPatch, StatusFails, ReportError, ReportLost,
     Reporting
<1>n. PICK n \in Names : n = run.name
  BY <1>1, RunTypes
<1>2. ASSUME NEW m \in Names, ws'[m] # None, ~Awaited(m)'
      PROVE  /\ ~Awaited(m) /\ ws[m] # None /\ Abreast(ws[m], ws'[m]) /\ enabled' = enabled
             /\ HoldsHome(m)' <=> HoldsHome(m)
  BY <1>1, <1>2 DEF Kept, Steady
<1>3. ASSUME NEW m \in Names, m # n, ws'[m] # None, ~Awaited(m)', m \notin overlooked' PROVE Tells(m)'
  <2>1. m \notin overlooked
    BY <1>n, <1>3 DEF Remember
  <2>2. ws'[m] = ws[m] /\ Tells(m)
    BY <1>n, <1>2, <1>3, <2>1, StoredElsewhere DEF Told
  <2> QED BY <1>2, <1>3, <2>2, TellsOfSame
<1>4. ASSUME ws'[n] # None, ~Awaited(n)', n \notin overlooked' PROVE Tells(n)'
  <2>1. /\ ws[n] # None /\ Abreast(ws[n], ws'[n]) /\ enabled' = enabled /\ n \notin queue'
        /\ HoldsHome(n)' <=> HoldsHome(n)
    BY <1>2, <1>4 DEF Awaited
  <2>i. /\ Abreast(run.w, ws[n])
        /\ Going(run) /\ run.step > 1 => HoldsHome(n)
        /\ Conflicting(run) => ~HoldsHome(n)
    BY <1>1, <1>n, <1>2, <1>4 DEF RunCurrent
  <2>s. run.w.status = ws[n].status /\ left'["report"] = left["report"]
    BY <1>1, <1>s, <1>n, <1>4, <2>1, NotOverlooked
  <2>2. /\ run.w = ws[n]
        /\ Going(run) /\ run.step > 1 => HoldsHome(n)
        /\ Conflicting(run) => ~HoldsHome(n)
    <3>1. run.w \in WorkspaceRecords /\ ws[n] \in WorkspaceRecords
      BY <1>1, <2>1, RunTypes, SpecTypes
    <3>2. run.w = ws[n]
      BY <2>1, <2>i, <2>s, <3>1 DEF Abreast, WorkspaceRecords
    <3> QED BY <2>i, <3>2
  <2>3. /\ NewStatus \in StatusRecords /\ NotReady(run.w, run.error) \in StatusRecords
        /\ Retried(run) => n \in Requeued
        /\ run \in Runs /\ run.w \in WorkspaceRecords
    BY <1>1, <1>n, ReportTypes
  <2>4. ASSUME Reporting PROVE HoldsHome(n)
    <3>1. Going(run)
      BY <2>4 DEF Reporting, Going
    <3>2. run.step > 1
      BY <1>1, <2>4, ReportingEnds, RunTypes
    <3> QED BY <2>2, <3>1, <3>2
  <2>5. ASSUME HoldsHome(n), ws'[n].status = NewStatus PROVE Tells(n)'
    <3>1. Reconciled(run.w, enabled) = Reconciled(ws'[n], enabled')
      BY <1>4, <2>1, <2>2 DEF Abreast, Reconciled
    <3> QED BY <2>1, <2>5, <3>1 DEF Tells, NewStatus
  <2>6. CASE StatusUnchanged
    <3>1. Reporting /\ NewStatus = run.w.status /\ UNCHANGED ws
      BY <2>6 DEF StatusUnchanged, wsVars
    <3> QED BY <2>2, <2>4, <2>5, <3>1
  <2>7. CASE StatusPatch
    <3>1. Reporting /\ Store(n, Patched(n, NewStatus), queue)
      BY <1>n, <2>7 DEF StatusPatch
    <3> QED BY <1>1, <1>n, <2>1, <2>2, <2>3, <2>4, <2>5, <3>1, Reported
  <2>8. CASE StatusFails
    <3>1. \E w : Store(n, w, queue \cup {n})
      BY <1>n, <2>1, <2>8 DEF StatusFails
    <3> QED BY <2>1, <3>1 DEF Store
  <2>9. CASE ReportError
    <3>1. Store(n, Patched(n, NotReady(run.w, run.error)), Requeued) /\ ~Going(run)
      BY <1>n, <2>1, <2>9 DEF ReportError, Going
    <3>2. Requeued \subseteq queue'
      BY <3>1 DEF Store
    <3>3. Conflicting(run)
      BY <2>1, <2>3, <3>1, <3>2, Endings
    <3>4. ~HoldsHome(n) /\ run.error = "NamespaceConflict"
      BY <2>2, <3>3 DEF Conflicting
    <3>5. ws'[n].status = NotReady(run.w, "NamespaceConflict")
      BY <1>1, <1>n, <2>1, <2>2, <2>3, <3>1, <3>4, Reported
    <3>6. ws'[n].gen = run.w.gen
      BY <1>4, <2>1, <2>2 DEF Abreast
    <3> QED BY <2>1, <2>3, <3>4, <3>5, <3>6, ConflictTold DEF Tells
  <2>10. CASE ReportLost
    <3>1. "report" \in Nuisances
      BY DEF Nuisances
    <3>2. left["report"] \in Nat /\ left'["report"] = left["report"] - 1
      BY <2>10, <3>1, StateTypes DEF ReportLost, Spend
    <3> QED BY <2>s, <3>2
  <2> QED BY <2>6, <2>7, <2>8, <2>9, <2>10 DEF Conclude
<1> QED BY <1>1, <1>3, <1>4 DEF RunCurrent, Told
-----------------------------------------------------------------------------
(* Everything together. *)

Telling == RunCurrent /\ Told

LEMMA TellingKept ==
  ASSUME TypeOK, TypeOK', IstioInformed, Ledger, Conv, Telling, [HNext]_hvars
  PROVE  Telling'
<1>1. [Next]_vars /\ Remember /\ Paid /\ RunCurrent /\ Told
  BY HistorySteps, BudgetSteps DEF Telling
<1> SUFFICES RunCurrent' /\ Told'
  BY DEF Telling
<1>3. ASSUME Kept, run' = run, Announced PROVE RunCurrent' /\ Told'
  BY <1>1, <1>3, StatusUnmoved, NothingConcluded
<1>4. CASE Worker
  <2>1. CASE \E n \in Names : FetchNotFound(n) \/ Fetch(n)
    BY <1>1, <2>1, StatusFetched DEF Conv, Fresh
  <2>2. CASE Sync \/ SyncFault
    BY <1>1, <2>2, StatusSyncIdle, StatusSyncCall DEF Sync
  <2>3. CASE Conclude \/ ReportLost
    BY <1>1, <2>3, StatusConcluded
  <2> QED BY <1>4, <2>1, <2>2, <2>3 DEF Worker
<1>5. CASE CRDWatch
  <2>1. Announced
    BY <1>5 DEF CRDWatch, RefreshDetector, EnqueueAll, wsVars, Announced
  <2> QED BY <1>1, <1>3, <1>5, <2>1, KeptByCRDWatch
<1>6. CASE TakeOver
  <2>1. run' = None /\ UNCHANGED ws /\ \A n \in Names : ws[n] # None => n \in queue'
    BY <1>6 DEF TakeOver
  <2> QED BY <2>1 DEF RunCurrent, Told, Awaited
<1>7. CASE SetUp \/ StartFails
  <2>1. Announced
    BY <1>7 DEF SetUp, StartFails, wsVars, Announced
  <2> QED BY <1>1, <1>3, <1>7, <2>1, KeptByStandby
<1>8. CASE Environment /\ UNCHANGED <<run, mapping, standby>>
  BY <1>1, <1>3, <1>8, KeptByEnvironment, EnvironmentAnnounces
<1>9. CASE UNCHANGED vars
  <2>1. UNCHANGED <<wsVars, objVars, detectorVars, watched, mapping, queue, run>> /\ Announced
    BY <1>9 DEF vars, wsVars, objVars, detectorVars, Announced
  <2> QED BY <1>1, <1>3, <2>1, KeptByNothing DEF Conv
<1> QED BY <1>1, <1>4, <1>5, <1>6, <1>7, <1>8, <1>9 DEF Next, Process

LEMMA TellingHolds ==
  ASSUME IstioInformed
  PROVE  HSpec => []Telling
<1>1. HInit => Telling
  BY DEF HInit, Init, Telling, RunCurrent, Told
<1>2. TypeOK /\ TypeOK' /\ Ledger /\ Conv /\ Telling /\ [HNext]_hvars => Telling'
  BY TellingKept
<1> QED BY <1>1, <1>2, HistoryRefines, TypeCorrect, LedgerHolds, ConvHolds, PTL DEF HSpec

(* At rest, however late the Workspace, Namespace and child informers are, every
   status is true (a Workspace that holds its Namespace is Ready, for its current
   generation, with a reference to each child that is there and to no other; one
   that does not is told of the conflict), or the latest report on it was compared
   with a status that was no longer stored, or lost: nothing else, no retry,
   restart, Istio change or re-creation, leaves an untrue status behind. *)
THEOREM OnlyOverlookedLie ==
  ASSUME IstioInformed
  PROVE  HSpec => []UntruthOverlooked
<1>1. ASSUME NEW n \in Names, ws[n] # None, Tells(n), TargetsConverged, AtRest
      PROVE  Truthful(n)
  <2>1. ASSUME HoldsHome(n), NEW k \in Kinds, ~Unseen(k)
        PROVE  Desired(ws[n].spec, k, enabled) # {} <=> obj[<<k, ws[n].spec.namespace>>] # None
    <3>1. InLine(n, k)
      BY <1>1, <2>1 DEF TargetsConverged
    <3> QED BY <3>1 DEF InLine
  <2>2. IF HoldsHome(n)
        THEN /\ ws[n].status.observedGeneration = ws[n].gen
             /\ ws[n].status.ready = [reason |-> "Reconciled", generation |-> ws[n].gen]
             /\ ws[n].status.refs = {k \in Kinds : Desired(ws[n].spec, k, enabled) # {}}
        ELSE /\ ws[n].status.observedGeneration = ws[n].gen
             /\ ws[n].status.ready = [reason |-> "NamespaceConflict", generation |-> ws[n].gen]
    BY <1>1 DEF Tells, Reconciled
  <2> QED BY <2>1, <2>2 DEF Truthful
<1>2. ASSUME AtRest, TargetsConverged, Telling, NEW n \in Names, ws[n] # None, n \notin overlooked
      PROVE  Truthful(n)
  <2>1. ~Awaited(n) /\ run = None
    BY <1>2 DEF AtRest, Awaited
  <2>2. Tells(n)
    BY <1>2, <2>1 DEF Telling, Told
  <2> QED BY <1>1, <1>2, <2>2
<1>3. TargetsConverged /\ Telling => UntruthOverlooked
  BY <1>2 DEF UntruthOverlooked
<1> QED BY <1>3, HistoryRefines, ChildrenFollow, TellingHolds, PTL
-----------------------------------------------------------------------------
(* While nobody disturbs. *)

(* No outsider has touched a child, no failed discovery call has turned the
   flag, nothing is deleted in the foreground, and no name is used twice. *)
Undisturbed ==
  /\ NoOutsideHand
  /\ left["status"] = Budget["status"] /\ left["foreground"] = Budget["foreground"]
  /\ \A n \in Names : born[n] <= 1

(* The informers of the children are not behind. *)
ChildrenSeen == Lagging \cap Kinds = {}

(* The controller sees what there is, and no other process is on its way. *)
Clear ==
  /\ \A o \in Objects : cache[o] = obj[o]
  /\ enabled = crds /\ served = crds /\ standby = None

(* A Namespace has an owner, and goes away only if that owner has gone. *)
HomesSafe ==
  \A ns \in Namespaces : obj[Home(ns)] # None =>
    /\ Owned(obj[Home(ns)])
    /\ Live(obj[Home(ns)].owner) => ~obj[Home(ns)].deleting

Unspent == {"drift", "disown", "squat", "crd", "restart", "status", "foreground"}

LEMMA UndisturbedSteps ==
  ASSUME TypeOK, TypeOK', Ledger, Paid, WsHeritage, Undisturbed'
  PROVE  /\ Undisturbed /\ NoOrphan'
         /\ \A x \in Unspent : left'[x] = left[x] /\ ~Spend(x)
         /\ \A n \in Names : ws[n] = None /\ ws'[n] # None => born[n] = 0
<1>1. Unspent \subseteq Nuisances
  BY DEF Unspent, Nuisances
<1>2. \A x \in Unspent : left'[x] = Budget[x]
  BY DEF Unspent, Undisturbed, NoOutsideHand
<1>3. \A x \in Unspent : left[x] = Budget[x] /\ ~Spend(x)
  BY <1>1, <1>2, BudgetOf
<1>4. \A n \in Names : born[n] \in Nat /\ born'[n] \in Nat /\ born'[n] <= 1 /\ born[n] <= born'[n]
  BY StateTypes DEF TypeOK, ClusterTypeOK, WsHeritage, Undisturbed
<1>5. \A n \in Names : born[n] <= 1
  BY <1>4
<1>6. ASSUME NEW n \in Names, ws[n] = None, ws'[n] # None PROVE born[n] = 0
  <2>1. born'[n] = born[n] + 1
    BY <1>6 DEF WsHeritage
  <2> QED BY <1>4, <2>1
<1>7. Undisturbed /\ NoOrphan'
  BY <1>2, <1>3, <1>5 DEF Undisturbed, NoOutsideHand, NoOrphan, Unspent
<1> QED BY <1>2, <1>3, <1>6, <1>7

(* All that is left to happen then. *)
Collected == (\E o \in Objects : CollectGarbage(o) \/ DrainNamespace(o))
               \/ (\E ns \in Namespaces : FinalizeNamespace(ns))

Used(n) == \/ DeliverWorkspace(n) \/ FinishForeground(n) \/ DeleteWorkspace(n)
           \/ \E s \in Specs : CreateWorkspace(n, s) \/ EditWorkspace(n, s)

LEMMA NoProcess ==
  ASSUME TypeOK, standby = None, \A x \in Unspent : left'[x] = left[x] /\ ~Spend(x)
  PROVE  ~Process
<1>1. ASSUME SetUp PROVE FALSE
  <2>1. left["restart"] \in Nat /\ left["restart"] > 0 /\ left'["restart"] = left["restart"] - 1
    BY <1>1, StateTypes DEF SetUp, Nuisances
  <2> QED BY <2>1 DEF Unspent
<1>2. ~TakeOver /\ ~StartFails
  BY RunsAssumption DEF TakeOver, StartFails
<1> QED BY <1>1, <1>2 DEF Process

LEMMA WhatHappens ==
  ASSUME TypeOK, standby = None, \A x \in Unspent : left'[x] = left[x] /\ ~Spend(x), [Next]_vars
  PROVE  \/ \E n \in Names : FetchNotFound(n) \/ Fetch(n)
         \/ SyncNothing \/ SyncConflict \/ SyncRejected
         \/ SyncWrite \/ SyncFault
         \/ Conclude \/ ReportLost
         \/ UNCHANGED <<wsVars, obj, run>>
         \/ UNCHANGED <<wsVars, run>> /\ Collected
         \/ UNCHANGED <<obj, run>> /\ \E n \in Names : Used(n)
<1>1. ~Process
  BY NoProcess
<1>2. CASE Worker
  BY <1>2 DEF Worker, Sync
<1>3. CASE CRDWatch
  BY <1>3 DEF CRDWatch, RefreshDetector, EnqueueAll, wsVars, objVars
<1>4. CASE Environment /\ UNCHANGED <<run, mapping, standby>>
  <2>1. CASE \/ \E o \in Objects : Drift(o) \/ Disown(o)
             \/ \E ns \in Namespaces : Squat(ns)
             \/ InstallOrRemoveIstio \/ TouchIstio
             \/ \E n \in Names : DeleteInForeground(n)
    BY <2>1 DEF Drift, Disown, Squat, InstallOrRemoveIstio, TouchIstio, DeleteInForeground, Unspent
  <2>2. CASE \/ \E o \in Objects : Deliver(o)
             \/ DiscoveryStep
    BY <1>4, <2>2 DEF Deliver, DiscoveryStep, wsVars, objVars
  <2>3. CASE Collected
    BY <1>4, <2>3 DEF Collected, CollectGarbage, DrainNamespace, FinalizeNamespace
  <2>4. CASE \E n \in Names : Used(n)
    <3>1. UNCHANGED obj
      BY <2>4 DEF Used, DeliverWorkspace, FinishForeground, DeleteWorkspace, CreateWorkspace,
                  EditWorkspace, objVars
    <3> QED BY <1>4, <2>4, <3>1
  <2> QED BY <1>4, <2>1, <2>2, <2>3, <2>4 DEF Environment, Collected, Used
<1>5. CASE UNCHANGED vars
  BY <1>5 DEF vars, wsVars
<1> QED BY <1>1, <1>2, <1>3, <1>4, <1>5 DEF Next

LEMMA CommitSeen ==
  ASSUME ChildrenSeen, NEW new \in [Objects -> ObjectRecords \cup {None}], NEW q, Commit(new, q)
  PROVE  \A o \in Objects : cache'[o] = obj'[o]
<1>1. \A o \in Objects : o[1] \notin Lagging
  BY DEF ChildrenSeen, Objects
<1> QED BY <1>1 DEF Commit

LEMMA ClearKept ==
  ASSUME TypeOK, TypeOK', ChildrenSeen, Clear, \A x \in Unspent : left'[x] = left[x] /\ ~Spend(x), [Next]_vars
  PROVE  Clear' /\ UNCHANGED enabled
<1> DEFINE Seeing == \A o \in Objects : cache'[o] = obj'[o]
<1>1. ASSUME UNCHANGED objVars PROVE Seeing
  BY <1>1 DEF objVars, Clear
<1>2. ASSUME NEW o \in Objects, NEW x \in ObjectRecords \cup {None}, NEW q, Write(o, x, q) PROVE Seeing
  <2>1. [obj EXCEPT ![o] = x] \in [Objects -> ObjectRecords \cup {None}]
    BY StateTypes
  <2> QED BY <1>2, <2>1, CommitSeen DEF Write
<1>3. ~Process
  BY NoProcess DEF Clear
<1>4. CASE Worker
  <2>1. UNCHANGED <<detectorVars, standby>>
    BY <1>4 DEF Worker, Sync, Conclude, FetchNotFound, Fetch, SyncWrite, SyncNothing, SyncConflict,
                SyncRejected, SyncFault, StatusUnchanged, StatusPatch, StatusFails, ReportError, ReportLost
  <2>2. CASE SyncWrite \/ SyncFault
    <3>1. PICK x \in {There, Sent} : Syncing /\ Accepted /\ Write(Target, x, queue)
      BY <2>2 DEF SyncWrite, SyncFault
    <3>2. Target \in Objects /\ x \in ObjectRecords \cup {None}
      BY <3>1, SyncTypes, HomesWritten
    <3> QED BY <1>2, <2>1, <3>1, <3>2 DEF Clear, detectorVars
  <2>3. CASE ~(SyncWrite \/ SyncFault)
    <3>1. UNCHANGED objVars
      BY <1>4, <2>3 DEF Worker, Sync, Conclude, FetchNotFound, Fetch, SyncNothing, SyncConflict,
                  SyncRejected, StatusUnchanged, StatusPatch, StatusFails, ReportError, ReportLost
    <3> QED BY <1>1, <2>1, <3>1 DEF Clear, detectorVars
  <2> QED BY <2>2, <2>3
<1>5. CASE CRDWatch
  <2>1. UNCHANGED <<objVars, standby>>
    BY <1>5 DEF CRDWatch, RefreshDetector, EnqueueAll
  <2>2. UNCHANGED <<enabled, crds, served>>
    <3>1. CASE RefreshDetector
      <4>1. PICK outcome \in Outcomes : Discovery(outcome) /\ RefreshFlag(outcome)
        BY <3>1 DEF RefreshDetector
      <4>2. outcome # "status"
        BY <4>1 DEF Discovery, Unspent
      <4>3. enabled' = enabled
        BY <4>1, <4>2, StateTypes DEF RefreshFlag, Refreshed, Definitive, Supported, Outcomes, Clear,
                               TypeOK, ClusterTypeOK, DetectorTypeOK
      <4> QED BY <3>1, <4>3 DEF RefreshDetector
    <3>2. CASE EnqueueAll
      BY <3>2 DEF EnqueueAll, detectorVars
    <3> QED BY <1>5, <3>1, <3>2 DEF CRDWatch
  <2> QED BY <1>1, <2>1, <2>2 DEF Clear
<1>6. CASE Environment /\ UNCHANGED <<run, mapping, standby>>
  <2>1. CASE \/ \E o \in Objects : Drift(o) \/ Disown(o)
             \/ \E ns \in Namespaces : Squat(ns)
             \/ InstallOrRemoveIstio \/ TouchIstio
             \/ \E n \in Names : DeleteInForeground(n)
    BY <2>1 DEF Drift, Disown, Squat, InstallOrRemoveIstio, TouchIstio, DeleteInForeground, Unspent
  <2>2. CASE DiscoveryStep
    BY <2>2 DEF DiscoveryStep, DiscoveryCatchesUp, Clear
  <2>3. CASE \E o \in Objects : Deliver(o)
    BY <1>6, <2>3, StateTypes DEF Deliver, Clear, detectorVars
  <2>4. CASE Collected
    <3>1. UNCHANGED detectorVars
      BY <2>4 DEF Collected, CollectGarbage, DrainNamespace, FinalizeNamespace
    <3>2. PICK o \in Objects, x \in ObjectRecords \cup {None} : Write(o, x, queue)
      <4>1. ASSUME NEW o \in Objects, CollectGarbage(o) \/ DrainNamespace(o)
            PROVE  \E x \in ObjectRecords \cup {None} : Write(o, x, queue)
        BY <4>1, Remains DEF CollectGarbage, Doomed, DrainNamespace
      <4>2. ASSUME NEW ns \in Namespaces, FinalizeNamespace(ns)
            PROVE  \E x \in ObjectRecords \cup {None} : Write(Home(ns), x, queue)
        BY <4>2 DEF FinalizeNamespace, Home
      <4> QED BY <2>4, <4>1, <4>2, Homes DEF Collected
    <3> QED BY <1>2, <1>6, <3>1, <3>2 DEF Clear, detectorVars
  <2>5. CASE \E n \in Names : Used(n)
    <3>1. UNCHANGED <<objVars, detectorVars>>
      BY <2>5 DEF Used, DeliverWorkspace, FinishForeground, DeleteWorkspace, CreateWorkspace, EditWorkspace
    <3> QED BY <1>1, <1>6, <3>1 DEF Clear, detectorVars
  <2> QED BY <1>6, <2>1, <2>2, <2>3, <2>4, <2>5 DEF Environment, Collected, Used
<1>7. CASE UNCHANGED vars
  BY <1>1, <1>7 DEF vars, objVars, Clear
<1> QED BY <1>3, <1>4, <1>5, <1>6, <1>7 DEF Next

(* Who has gone does not come back. *)
LEMMA StaysDead ==
  ASSUME TypeOK, WsHeritage, NEW u \in Uids, KnownUid(u), Live(u)'
  PROVE  Live(u)
<1>1. PICK n \in Names, i \in Nat : u[1] = n /\ u[2] = i
  BY DEF Uids
<1>2. i <= born[n] /\ born[n] \in Nat /\ ws'[n] # None /\ ws'[n].inc = i
  BY <1>1, StateTypes DEF KnownUid, Live
<1>3. i # born[n] + 1
  BY <1>2
<1>4. ws[n] # None /\ ws'[n].inc = ws[n].inc
  BY <1>2, <1>3 DEF WsHeritage
<1> QED BY <1>1, <1>2, <1>4 DEF Live

LEMMA HomesSafeKept ==
  ASSUME TypeOK, TypeOK', Ledger, Paid, Known, WsHeritage, Squatted, NoOrphan', [Next]_vars,
         \A x \in Unspent : left'[x] = left[x] /\ ~Spend(x), left["squat"] = Budget["squat"],
         \A n \in Names : ws[n] # None => ~ws[n].deleting, HomesSafe
  PROVE  HomesSafe'
<1> SUFFICES ASSUME NEW ns \in Namespaces, NEW h, h = Home(ns), obj'[h] # None
             PROVE  Owned(obj'[h]) /\ (\A u \in Uids : u = obj'[h].owner /\ Live(u)' => ~obj'[h].deleting)
  <2>1. TypeOK' => \A ns \in Namespaces : Owned(obj'[Home(ns)]) => obj'[Home(ns)].owner \in Uids
    BY Homes DEF TypeOK, ClusterTypeOK, Owned, ObjectRecords
  <2> QED BY <2>1 DEF HomesSafe, Home, Owned, Live
<1>1. HomeMove(ns) /\ h \in Objects
  BY HomesMove, Homes
<1>2. "drift" \in Unspent /\ "squat" \in Unspent
  BY DEF Unspent
<1>3. ASSUME NEW u \in Uids, obj[h] # None, Owned(obj[h]), u = obj[h].owner, Live(u)'
      PROVE  Live(u) /\ ~Doomed(h) /\ ~obj[h].deleting
  <2>1. Live(u)
    BY <1>1, <1>3, StaysDead DEF Known, ObjKnown, AtHome
  <2>2. u[1] \in Names
    BY DEF Uids
  <2> QED BY <1>3, <2>1, <2>2 DEF Doomed, Live, HomesSafe
<1>4. CASE obj'[h] = obj[h]
  BY <1>3, <1>4 DEF HomesSafe
<1>5. CASE /\ Owned(obj'[h])
           /\ obj[h] # None => obj'[h].owner = obj[h].owner
           /\ obj'[h].deleting => obj[h] # None /\ (obj[h].deleting \/ Doomed(h) \/ Spend("drift"))
  BY <1>2, <1>3, <1>5 DEF HomesSafe
<1>6. left'["squat"] < Budget["squat"] => FALSE
  <2>1. left'["squat"] = Budget["squat"] /\ Budget["squat"] \in Nat
    BY <1>2, BudgetAssumption DEF Nuisances
  <2> QED BY <2>1
<1> QED BY <1>1, <1>4, <1>5, <1>6 DEF HomeMove
-----------------------------------------------------------------------------
(* Generations. *)

(* Copy c is as old as w, and then tells the same, or older. *)
Younger(c, w) == c.gen <= w.gen /\ (c.gen = w.gen => Abreast(c, w))

(* What is reported of a Workspace is no newer than what the reconcile works
   from, that no newer than the cache, and the cache no newer than what is
   stored. *)
Aged(n) ==
  ws[n] # None =>
    /\ ~ws[n].deleting
    /\ ws[n].status.ready.generation <= ws[n].gen
    /\ wsCache[n] # None => /\ Younger(wsCache[n], ws[n])
                            /\ ws[n].status.ready.generation <= wsCache[n].gen
    /\ run # None /\ run.name = n =>
         /\ wsCache[n] # None /\ run.w.gen <= wsCache[n].gen
         /\ Younger(run.w, ws[n])
         /\ ws[n].status.ready.generation <= run.w.gen

Generations == \A n \in Names : Aged(n)

LEMMA GenerationTypes ==
  ASSUME NEW w \in WorkspaceRecords
  PROVE  /\ w.gen \in Nat /\ w.status \in StatusRecords /\ w.status.ready.generation \in Nat
         /\ w # None /\ Younger(w, w)
<1>1. w.gen \in Nat /\ w.status \in StatusRecords /\ w.status.ready.generation \in Nat
  BY DEF WorkspaceRecords, StatusRecords
<1> QED BY <1>1, NoneAssumption DEF Younger, Abreast

(* Workspace n is stored, and is no older than what there was. *)
LEMMA GenerationsStored ==
  ASSUME TypeOK, TypeOK', Generations, NEW n \in Names, NEW w \in WorkspaceRecords \cup {None},
         NEW q, Store(n, w, q), run' = run \/ run' = None,
         w # None =>
           /\ ~w.deleting /\ w.status.ready.generation <= w.gen
           /\ wsCache[n] # None => Younger(wsCache[n], w) /\ w.status.ready.generation <= wsCache[n].gen
           /\ run' # None /\ run'.name = n =>
                /\ wsCache[n] # None /\ run.w.gen <= wsCache[n].gen
                /\ Younger(run.w, w) /\ w.status.ready.generation <= run.w.gen
  PROVE  Generations'
<1> SUFFICES ASSUME NEW m \in Names, ws'[m] # None
             PROVE  /\ ~ws'[m].deleting
                    /\ ws'[m].status.ready.generation <= ws'[m].gen
                    /\ wsCache'[m] # None => /\ Younger(wsCache'[m], ws'[m])
                                             /\ ws'[m].status.ready.generation <= wsCache'[m].gen
                    /\ run' # None /\ run'.name = m =>
                         /\ wsCache'[m] # None /\ run'.w.gen <= wsCache'[m].gen
                         /\ Younger(run'.w, ws'[m])
                         /\ ws'[m].status.ready.generation <= run'.w.gen
  BY DEF Generations, Aged, Younger, Abreast
<1>1. /\ \A k \in Names : ws'[k] = IF k = n THEN w ELSE ws[k]
      /\ \A k \in Names : wsCache'[k] = wsCache[k] \/ (k = n /\ wsCache'[k] = w)
  BY StateTypes DEF Store
<1>2. CASE m # n
  BY <1>1, <1>2 DEF Generations, Aged
<1>3. CASE m = n
  <2>1. w \in WorkspaceRecords /\ w # None /\ ws'[m] = w
    BY <1>1, <1>3
  <2>2. CASE wsCache'[m] = wsCache[m]
    BY <1>3, <2>1, <2>2
  <2>3. CASE wsCache'[m] = w
    BY <1>3, <2>1, <2>3, GenerationTypes DEF Younger
  <2> QED BY <1>1, <2>2, <2>3
<1> QED BY <1>2, <1>3

(* What a status patch says is what was said, or what the reconcile says. *)
LEMMA PatchReady ==
  ASSUME TypeOK, run # None, NEW n \in Names, n = run.name, ws[n] # None,
         NEW st \in StatusRecords, NEW w, w = Patched(n, st)
  PROVE  w.status.ready = ws[n].status.ready \/ w.status.ready = st.ready
<1>1. w.status = MergePatch(ws[n].status, run.w.status, st)
  BY PatchAbreast
<1> QED BY <1>1 DEF MergePatch

LEMMA ReadyOf ==
  ASSUME TypeOK, run # None
  PROVE  /\ NewStatus.ready = [reason |-> "Reconciled", generation |-> run.w.gen]
         /\ NotReady(run.w, run.error).ready = [reason |-> run.error, generation |-> run.w.gen]
         /\ run.error # "Reconciled"
<1>1. run.w.status \in StatusRecords /\ run \in Runs
  BY RunTypes DEF WorkspaceRecords
<1>2. NotReady(run.w, run.error).ready = [reason |-> run.error, generation |-> run.w.gen]
  BY <1>1 DEF NotReady, StatusRecords
<1>3. run.error # "Reconciled"
  <2>1. run.error \in {"", "NamespaceConflict", "ReconcileError"}
    BY <1>1, RunsUnfolded, Zenon
  <2> QED BY <2>1, Zenon
<1> QED BY <1>2, <1>3 DEF NewStatus, Reconciled

(* What the end of a reconcile stores. *)
LEMMA Concluded ==
  ASSUME TypeOK, Conclude \/ ReportLost
  PROVE  /\ run # None /\ run' = None /\ run.name \in Names /\ UNCHANGED <<obj, enabled>>
         /\ \/ UNCHANGED wsVars
            \/ /\ ws[run.name] # None
               /\ \E w \in {ws[run.name]} \cup {Patched(run.name, st) : st \in StatusRecords} :
                    /\ \E q : Store(run.name, w, q)
                    /\ \/ w.status.ready = ws[run.name].status.ready
                       \/ /\ w.status.ready.generation = run.w.gen
                          /\ w.status.ready.reason = "Reconciled" => Reporting
<1>1. /\ run # None /\ run' = None /\ UNCHANGED <<obj, enabled>>
  BY DEF Conclude, StatusUnchanged, StatusPatch, StatusFails, ReportError, ReportLost, Reporting,
         objVars, detectorVars
<1>n. PICK n \in Names : n = run.name
  BY <1>1, ReportTypes
<1>2. NewStatus \in StatusRecords /\ NotReady(run.w, run.error) \in StatusRecords
  BY <1>1, ReportTypes
<1>3. CASE StatusUnchanged \/ ReportLost \/ ws[n] = None
  BY <1>n, <1>1, <1>3 DEF Conclude, StatusUnchanged, StatusPatch, StatusFails, ReportError, ReportLost
<1>4. CASE ws[n] # None /\ (StatusPatch \/ StatusFails)
  <2>1. Reporting
    BY <1>4 DEF StatusPatch, StatusFails
  <2>2. PICK w \in {ws[n], Patched(n, NewStatus)} : \E q : Store(n, w, q)
    BY <1>n, <1>4 DEF StatusPatch, StatusFails
  <2>3. \/ w.status.ready = ws[n].status.ready
        \/ w.status.ready = [reason |-> "Reconciled", generation |-> run.w.gen]
    BY <1>n, <1>1, <1>2, <1>4, <2>2, PatchReady, ReadyOf
  <2> QED BY <1>n, <1>1, <1>2, <1>4, <2>1, <2>2, <2>3
<1>5. CASE ws[n] # None /\ ReportError
  <2>1. PICK w : w = Patched(n, NotReady(run.w, run.error)) /\ \E q : Store(n, w, q)
    BY <1>n, <1>5 DEF ReportError
  <2>2. \/ w.status.ready = ws[n].status.ready
        \/ w.status.ready = NotReady(run.w, run.error).ready
    BY <1>n, <1>1, <1>2, <1>5, <2>1, PatchReady
  <2>3. /\ NotReady(run.w, run.error).ready.generation = run.w.gen
        /\ NotReady(run.w, run.error).ready.reason # "Reconciled"
    BY <1>1, ReadyOf
  <2> QED BY <1>n, <1>1, <1>2, <1>5, <2>1, <2>2, <2>3
<1> QED BY <1>3, <1>4, <1>5 DEF Conclude

(* A user's request: a new Workspace of an unused name, a new generation of one
   that is there, or its end. *)
LEMMA UsedStores ==
  ASSUME TypeOK, Known, Generations, NEW n \in Names, Used(n), ~DeliverWorkspace(n),
         ws[n] = None /\ ws'[n] # None => born[n] = 0
  PROVE  \E w \in WorkspaceRecords \cup {None} :
           /\ Store(n, w, queue)
           /\ w # None =>
                /\ ~w.deleting /\ w.status.ready.generation < w.gen
                /\ \/ ws[n] = None /\ wsCache[n] = None /\ ~(run # None /\ run.name = n)
                   \/ /\ ws[n] # None /\ w.gen = ws[n].gen + 1
                      /\ w.status.ready = ws[n].status.ready
<1>1. CASE FinishForeground(n) \/ DeleteWorkspace(n)
  BY <1>1 DEF FinishForeground, DeleteWorkspace
<1>2. ASSUME NEW s \in Specs, CreateWorkspace(n, s)
      PROVE  \E w \in WorkspaceRecords :
               /\ Store(n, w, queue) /\ ~w.deleting /\ w.status.ready.generation < w.gen
               /\ ws[n] = None /\ wsCache[n] = None /\ ~(run # None /\ run.name = n)
  <2> DEFINE w == [inc |-> born[n] + 1, gen |-> 1, spec |-> s, status |-> NoStatus, deleting |-> FALSE]
  <2>1. w \in WorkspaceRecords
    <3>1. NoStatus \in StatusRecords
      BY DEF StatusRecords, NoStatus, Reasons
    <3>2. born[n] + 1 \in Nat
      BY StateTypes
    <3> QED BY <3>1, <3>2 DEF WorkspaceRecords
  <2>2. Store(n, w, queue) /\ ws[n] = None
    BY <1>2 DEF CreateWorkspace
  <2>3. ~w.deleting /\ w.gen = 1 /\ w.status = NoStatus
    OBVIOUS
  <2>4. NoStatus.ready.generation = 0
    BY Zenon DEF NoStatus
  <2> HIDE DEF w
  <2>5. born[n] = 0
    BY <2>1, <2>2, NoneAssumption, StateTypes DEF Store
  <2>6. wsCache[n] = None
    <3>1. wsCache[n] # None => 1 <= wsCache[n].inc /\ wsCache[n].inc <= born[n] /\ wsCache[n].inc \in Nat
      BY StateTypes DEF Known, WsKnown, AtHome, KnownUid, WorkspaceRecords
    <3> QED BY <2>5, <3>1
  <2>7. ~(run # None /\ run.name = n)
    <3>1. run # None /\ run.name = n => 1 <= run.w.inc /\ run.w.inc <= born[n] /\ run.w.inc \in Nat
      BY RunTypes DEF Known, RunKnown, AtHome, KnownUid, RunUid, WorkspaceRecords
    <3> QED BY <2>5, <3>1
  <2> QED BY <2>1, <2>2, <2>3, <2>4, <2>6, <2>7
<1>3. ASSUME NEW s \in Specs, EditWorkspace(n, s)
      PROVE  \E w \in WorkspaceRecords :
               /\ Store(n, w, queue) /\ ~w.deleting /\ w.status.ready.generation < w.gen
               /\ ws[n] # None /\ w.gen = ws[n].gen + 1 /\ w.status.ready = ws[n].status.ready
  <2> DEFINE w == [ws[n] EXCEPT !.spec = s, !.gen = @ + 1]
  <2>1. ws[n] # None /\ Store(n, w, queue)
    BY <1>3 DEF EditWorkspace
  <2>2. ws[n] \in WorkspaceRecords
    BY <2>1, SpecTypes
  <2>3. w \in WorkspaceRecords
    BY <2>2, GenerationType
  <2>4. w.gen = ws[n].gen + 1 /\ w.status = ws[n].status /\ w.deleting = ws[n].deleting
    BY <2>2 DEF WorkspaceRecords
  <2>5. ws[n].status.ready.generation < ws[n].gen + 1 /\ ~ws[n].deleting
    BY <2>1, <2>2, GenerationTypes DEF Generations, Aged
  <2> HIDE DEF w
  <2> QED BY <2>1, <2>3, <2>4, <2>5
<1> QED BY <1>1, <1>2, <1>3 DEF Used

LEMMA GenerationsKept ==
  ASSUME TypeOK, TypeOK', Known, Generations, standby = None, [Next]_vars,
         \A x \in Unspent : left'[x] = left[x] /\ ~Spend(x),
         \A n \in Names : ws[n] = None /\ ws'[n] # None => born[n] = 0
  PROVE  Generations'
<1>1. ASSUME UNCHANGED wsVars, run' = None \/ run' = run PROVE Generations'
  BY <1>1 DEF Generations, Aged, Younger, Abreast, wsVars
<1>2. ASSUME NEW n \in Names, FetchNotFound(n) \/ Fetch(n) PROVE Generations'
  <2>1. UNCHANGED wsVars /\ run = None
    BY <1>2 DEF FetchNotFound, Fetch
  <2>2. CASE FetchNotFound(n)
    BY <1>1, <2>1, <2>2 DEF FetchNotFound
  <2>3. CASE Fetch(n)
    <3>1. run'.name = n /\ run'.w = wsCache[n] /\ wsCache[n] # None /\ wsCache[n] \in WorkspaceRecords
      BY <2>3, FetchStarts, StateTypes DEF Fetch
    <3>2. wsCache[n].gen <= wsCache[n].gen
      BY <3>1, GenerationTypes
    <3> QED BY <2>1, <3>1, <3>2 DEF Generations, Aged, Younger, Abreast, wsVars
  <2> QED BY <1>2, <2>2, <2>3
<1>3. CASE SyncNothing \/ SyncConflict \/ SyncRejected \/ SyncWrite \/ SyncFault
  <2>1. UNCHANGED wsVars /\ Syncing /\ (Advance \/ Fail("ReconcileError") \/ Fail("NamespaceConflict"))
    BY <1>3 DEF SyncWrite, SyncNothing, SyncConflict, SyncRejected, SyncFault
  <2>2. run # None /\ run'.name = run.name /\ run'.w = run.w
    BY <2>1, Moves, SyncTypes, GoingOn
  <2> QED BY <2>1, <2>2 DEF Generations, Aged, Younger, Abreast, wsVars
<1>4. CASE Conclude \/ ReportLost
  <2>n. PICK n \in Names : n = run.name
    BY <1>4, Concluded
  <2>1. CASE UNCHANGED wsVars
    BY <1>1, <1>4, <2>1, Concluded
  <2>2. CASE ws[n] # None
    <3> SUFFICES ASSUME ~UNCHANGED wsVars PROVE Generations'
      BY <2>1
    <3>1. PICK w \in {ws[n]} \cup {Patched(n, st) : st \in StatusRecords} :
            /\ \E q : Store(n, w, q)
            /\ \/ w.status.ready = ws[n].status.ready
               \/ w.status.ready.generation = run.w.gen
      BY <1>4, <2>n, <2>2, Concluded
    <3>2. w \in WorkspaceRecords /\ Abreast(ws[n], w) /\ run # None /\ run' = None
      BY <1>4, <2>n, <2>2, PatchAbreast, SpecTypes, Concluded DEF Abreast
    <3>3. ws[n] \in WorkspaceRecords /\ run.w.gen \in Nat
      BY <2>2, <3>2, SpecTypes, RunTypes DEF WorkspaceRecords
    <3>4. /\ ws[n].gen \in Nat /\ ws[n].status.ready.generation \in Nat
          /\ wsCache[n] # None /\ wsCache[n].gen \in Nat
          /\ Younger(wsCache[n], ws[n]) /\ ws[n].status.ready.generation <= wsCache[n].gen
          /\ run.w.gen <= wsCache[n].gen /\ Younger(run.w, ws[n])
          /\ ws[n].status.ready.generation <= run.w.gen /\ ~ws[n].deleting
      BY <2>n, <2>2, <3>2, <3>3, StateTypes, GenerationTypes DEF Generations, Aged
    <3>5. w.gen = ws[n].gen /\ ~w.deleting /\ Younger(wsCache[n], w)
      BY <3>2, <3>4, GenerationTypes DEF Younger, Abreast
    <3>6. w.status.ready.generation <= wsCache[n].gen /\ w.status.ready.generation <= w.gen
      BY <3>1, <3>4, <3>5 DEF Younger
    <3> QED BY <3>1, <3>2, <3>5, <3>6, GenerationsStored
  <2> QED BY <1>4, <2>n, <2>1, <2>2, Concluded
<1>5. ASSUME run' = run, NEW n \in Names, Used(n) PROVE Generations'
  <2>1. CASE DeliverWorkspace(n)
    <3>1. ws' = ws /\ \A m \in Names : wsCache'[m] = IF m = n THEN ws[m] ELSE wsCache[m]
      BY <2>1, StateTypes DEF DeliverWorkspace
    <3>2. ws[n] # None => /\ ws[n].gen \in Nat /\ Younger(ws[n], ws[n])
                          /\ run # None /\ run.name = n => run.w.gen <= ws[n].gen
      BY SpecTypes, GenerationTypes DEF Generations, Aged, Younger
    <3> QED BY <1>5, <3>1, <3>2 DEF Generations, Aged, Younger, Abreast
  <2>2. CASE ~DeliverWorkspace(n)
    <3>1. PICK w \in WorkspaceRecords \cup {None} :
            /\ Store(n, w, queue)
            /\ w # None =>
                 /\ ~w.deleting /\ w.status.ready.generation < w.gen
                 /\ \/ ws[n] = None /\ wsCache[n] = None /\ ~(run # None /\ run.name = n)
                    \/ /\ ws[n] # None /\ w.gen = ws[n].gen + 1
                       /\ w.status.ready = ws[n].status.ready
      BY <1>5, <2>2, UsedStores
    <3>2. ASSUME w # None, ws[n] # None, NEW c \in WorkspaceRecords, Younger(c, ws[n])
          PROVE  Younger(c, w)
      <4>1. w.gen = ws[n].gen + 1 /\ ws[n].gen \in Nat /\ c.gen \in Nat /\ c.gen <= ws[n].gen
        BY <3>1, <3>2, SpecTypes, GenerationTypes DEF Younger
      <4> QED BY <4>1 DEF Younger
    <3>3. w # None => w.status.ready.generation <= w.gen
      BY <3>1, GenerationTypes
    <3>4. w # None /\ wsCache[n] # None => Younger(wsCache[n], w) /\ w.status.ready.generation <= wsCache[n].gen
      BY <3>1, <3>2, StateTypes DEF Generations, Aged
    <3>5. w # None /\ run # None /\ run.name = n =>
            /\ wsCache[n] # None /\ run.w.gen <= wsCache[n].gen
            /\ Younger(run.w, w) /\ w.status.ready.generation <= run.w.gen
      BY <3>1, <3>2, RunTypes DEF Generations, Aged
    <3> QED BY <1>5, <3>1, <3>3, <3>4, <3>5, GenerationsStored
  <2> QED BY <2>1, <2>2
<1> QED BY <1>1, <1>2, <1>3, <1>4, <1>5, WhatHappens
-----------------------------------------------------------------------------
(* Ready, and what has been built. *)

(* The reconcile works from the current generation of Workspace n. *)
Building(n) == ws[n] # None /\ Going(run) /\ run.name = n /\ run.w.gen = ws[n].gen

(* What a reconcile of the current generation has passed is in line, and
   everything of a Workspace that is Ready. *)
Built ==
  /\ Going(run) => run.istio = enabled
  /\ \A n \in Names : Building(n) => \A i \in 1 .. 9 : i < run.step => InLine(n, Plan[i])
  /\ \A n \in Names : ReadyNow(n) => \A k \in Kinds : InLine(n, k)

LEMMA LineKept ==
  ASSUME NEW n, ws[n] # None, ws'[n] # None, Abreast(ws[n], ws'[n]), enabled' = enabled,
         NEW k, InLine(n, k),
         NEW o, o = <<k, ws[n].spec.namespace>>, obj'[o] = obj[o]
  PROVE  InLine(n, k)'
<1>1. UidOf(n)' = UidOf(n) /\ ws'[n].spec = ws[n].spec
  BY DEF Abreast, UidOf
<1> QED BY <1>1 DEF InLine

LEMMA LineHolds ==
  ASSUME TypeOK, HomesSafe, NEW n \in Names, ws[n] # None, InLine(n, "Namespace")
  PROVE  HoldsHome(n) /\ ~Terminating(ws[n].spec.namespace) /\ Live(UidOf(n))
<1>1. HoldsHome(n)
  BY NamespaceWanted DEF InLine, HoldsHome, HomeOf
<1>2. Live(UidOf(n))
  BY DEF Live, UidOf
<1> QED BY <1>1, <1>2, SpecTypes DEF HomesSafe, HoldsHome, Terminating, Home

(* Nothing that is in line is collected. *)
LEMMA CollectedSpares ==
  ASSUME TypeOK, HomesSafe, Collected, NEW n \in Names, ws[n] # None, ~ws[n].deleting,
         NEW k \in Kinds, InLine(n, "Namespace"), InLine(n, k),
         NEW o, o = <<k, ws[n].spec.namespace>>
  PROVE  obj'[o] = obj[o]
<1>1. ~Terminating(ws[n].spec.namespace) /\ Live(UidOf(n)) /\ UidOf(n)[1] = n
  BY LineHolds DEF UidOf
<1>2. ASSUME NEW p, NEW x, NEW q, Write(p, x, q), p # o PROVE obj'[o] = obj[o]
  <2>1. o \in Objects
    BY SpecTypes DEF Objects
  <2> QED BY <1>2, <2>1, StateTypes DEF Write, Commit
<1>3. obj[o] # None => obj[o].owner = UidOf(n)
  BY DEF InLine
<1>4. ~Doomed(o)
  BY <1>1, <1>3 DEF Doomed
<1>5. ASSUME NEW p \in Objects, CollectGarbage(p) \/ DrainNamespace(p) PROVE obj'[o] = obj[o]
  BY <1>1, <1>2, <1>4, <1>5 DEF CollectGarbage, DrainNamespace
<1>6. ASSUME NEW ns \in Namespaces, FinalizeNamespace(ns) PROVE obj'[o] = obj[o]
  BY <1>1, <1>2, <1>6 DEF FinalizeNamespace
<1> QED BY <1>5, <1>6 DEF Collected

(* A reconcile leaves alone what is in line for another Workspace. *)
LEMMA SyncSpares ==
  ASSUME TypeOK, Conv, HomesSafe, Syncing, Accepted, NEW x \in {There, Sent}, Write(Target, x, queue),
         NEW n \in Names, ws[n] # None, NEW k \in Kinds, n # run.name \/ k # Kind,
         InLine(n, "Namespace"), InLine(n, k),
         NEW o, o = <<k, ws[n].spec.namespace>>
  PROVE  obj'[o] = obj[o]
<1>1. /\ obj[HomeOf(n)] # None /\ obj[HomeOf(n)].owner = UidOf(n)
      /\ HomeOf(n) = Home(ws[n].spec.namespace) /\ o \in Objects
  BY LineHolds, SpecTypes DEF HoldsHome, Objects
<1>2. CASE o # Target
  BY <1>1, <1>2, HomesWritten
<1>3. CASE o = Target
  <2>1. Target = <<Kind, run.w.spec.namespace>>
    BY DEF Target
  <2>2. k = Kind /\ n # run.name /\ ws[n].spec.namespace = run.w.spec.namespace
    BY <1>3, <2>1
  <2>3. UidOf(n) # RunUid /\ UidOf(n) # NoOwner
    BY <2>2, SpecTypes, NoneAssumption DEF UidOf, RunUid, Uids, WorkspaceRecords
  <2>4. CASE run.step = 1
    BY <1>1, <1>3, <2>2, <2>3, <2>4, SyncTypes, HomesWritten
  <2>5. CASE run.step > 1
    BY <1>1, <2>2, <2>3, <2>5, SyncTypes DEF Conv, NoRival
  <2> QED BY <2>4, <2>5, SyncTypes
<1> QED BY <1>2, <1>3

LEMMA BuildingAbreast ==
  ASSUME Generations, NEW n \in Names, Building(n)
  PROVE  run # None /\ Abreast(run.w, ws[n])
BY GoingOn DEF Building, Generations, Aged, Younger

(* No child is touched: the reconcile may begin, end, or go on to one that
   is in line already. *)
LEMMA BuiltUntouched ==
  ASSUME TypeOK, TypeOK', Built, UNCHANGED <<ws, obj, enabled>>,
         Going(run') => run'.istio = enabled,
         \A n \in Names, i \in 1 .. 9 : Building(n)' /\ i < run'.step =>
           \/ Building(n) /\ i < run.step
           \/ InLine(n, Plan[i])
  PROVE  Built'
<1>1. \A n \in Names : \A k : InLine(n, k)' <=> InLine(n, k)
  BY DEF InLine, UidOf
<1>2. \A n \in Names : ReadyNow(n)' <=> ReadyNow(n)
  BY DEF ReadyNow
<1>3. \A n \in Names, i \in 1 .. 9 : Building(n)' /\ i < run'.step => InLine(n, Plan[i])'
  BY <1>1 DEF Built
<1> QED BY <1>1, <1>2, <1>3 DEF Built

LEMMA BuiltFetched ==
  ASSUME TypeOK, TypeOK', Built, NEW n \in Names, FetchNotFound(n) \/ Fetch(n)
  PROVE  Built'
<1>1. UNCHANGED <<ws, obj, enabled>>
  BY DEF FetchNotFound, Fetch, wsVars, objVars, detectorVars
<1>2. CASE FetchNotFound(n)
  BY <1>1, <1>2, BuiltUntouched DEF FetchNotFound, Building, Built
<1>3. CASE Fetch(n)
  <2>1. run'.istio = enabled /\ run'.step = 1
    BY <1>3, FetchStarts
  <2>2. \A i \in 1 .. 9 : ~(i < run'.step)
    BY <2>1
  <2> QED BY <1>1, <2>1, <2>2, BuiltUntouched
<1> QED BY <1>2, <1>3

LEMMA BuiltIdle ==
  ASSUME TypeOK, TypeOK', Clear, Generations, Built, SyncNothing \/ SyncConflict \/ SyncRejected
  PROVE  Built'
<1>1. Syncing /\ UNCHANGED <<ws, obj, enabled>>
  BY DEF SyncNothing, SyncConflict, SyncRejected, wsVars, objVars, detectorVars
<1>2. CASE SyncConflict \/ SyncRejected
  <2>1. ~Going(run')
    BY <1>1, <1>2, Moves DEF SyncConflict, SyncRejected
  <2> QED BY <1>1, <2>1, BuiltUntouched DEF Building
<1>3. CASE SyncNothing
  <2>1. /\ Going(run) /\ Going(run') /\ run'.name = run.name /\ run'.w = run.w
        /\ run'.istio = run.istio /\ run'.step = run.step + 1 /\ run.step \in 1 .. 9
    BY <1>1, <1>3, Moves, SyncTypes DEF SyncNothing
  <2>2. ASSUME NEW n \in Names, Building(n), NEW i \in 1 .. 9, i = run.step PROVE InLine(n, Plan[i])
    <3>1. Abreast(run.w, ws[n]) /\ run.istio = enabled /\ n = run.name /\ ws[n] # None
      BY <2>1, <2>2, BuildingAbreast DEF Built, Building
    <3>2. /\ Target = <<Plan[i], ws[n].spec.namespace>> /\ RunUid = UidOf(n)
          /\ Want = Desired(ws[n].spec, Plan[i], enabled) /\ Kind = Plan[i]
      BY <1>1, <2>2, <3>1, SyncTypes DEF Abreast, UidOf, RunUid, Want, Kind
    <3>3. Want # {} /\ Seen # None /\ Updated = Seen /\ Seen \in ObjectRecords /\ Seen = obj[Target]
      BY <1>1, <1>3, SyncTypes DEF SyncNothing, Settled, Clear, Seen
    <3>4. Updated.owner = RunUid /\ Updated.content = Mutated(Kind, Seen.content, Want)
      BY <3>3 DEF Updated, ObjectRecords
    <3> QED BY <3>2, <3>3, <3>4 DEF InLine
  <2>3. ASSUME NEW n \in Names, NEW i \in 1 .. 9, Building(n)', i < run'.step
        PROVE  (Building(n) /\ i < run.step) \/ InLine(n, Plan[i])
    <3>1. Building(n)
      BY <1>1, <2>1, <2>3 DEF Building
    <3>2. i < run.step \/ i = run.step
      BY <2>1, <2>3
    <3> QED BY <2>2, <3>1, <3>2
  <2> QED BY <1>1, <2>1, <2>3, BuiltUntouched DEF Built
<1> QED BY <1>2, <1>3

LEMMA BuiltCall ==
  ASSUME TypeOK, TypeOK', Conv, HomesSafe, Generations, Built, SyncWrite \/ SyncFault
  PROVE  Built'
<1>1. Syncing /\ Accepted /\ UNCHANGED <<ws, enabled>>
  BY DEF SyncWrite, SyncFault, wsVars, detectorVars
<1>2. PICK x \in {There, Sent} : Write(Target, x, queue) /\ (SyncWrite => x = Sent)
  BY DEF SyncWrite, SyncFault
<1>3. /\ obj'[Target] = x /\ x \in {There, Sent}
      /\ Going(run) /\ run.step \in 1 .. 9 /\ Kind = Plan[run.step] /\ run.istio = enabled
  BY <1>1, <1>2, HomesWritten, SyncTypes DEF Kind, Built
<1>4. ASSUME NEW n \in Names, ws[n] # None, NEW k \in Kinds, InLine(n, k), InLine(n, "Namespace"),
             n # run.name \/ k # Kind
      PROVE  InLine(n, k)'
  <2> DEFINE o == <<k, ws[n].spec.namespace>>
  <2>1. obj'[o] = obj[o]
    BY <1>1, <1>2, <1>4, SyncSpares
  <2>2. Abreast(ws[n], ws'[n]) /\ ws'[n] # None /\ enabled' = enabled
    BY <1>1, <1>4 DEF Abreast
  <2> QED BY <1>4, <2>1, <2>2, LineKept
<1>5. ASSUME NEW n \in Names, n = run.name, ws[n] # None, Abreast(run.w, ws[n]),
             NEW i \in 1 .. 9, i = run.step, x = Sent \/ InLine(n, Plan[i])
      PROVE  InLine(n, Plan[i])'
  <2>1. CASE x = Sent
    BY <1>1, <1>3, <1>5, <2>1, SentInLine
  <2>2. CASE x = There /\ InLine(n, Plan[i])
    <3> DEFINE o == <<Plan[i], ws[n].spec.namespace>>
    <3>1. obj'[o] = obj[o]
      BY <1>1, <1>3, <1>5, <2>2, SyncTypes DEF Abreast, There
    <3>2. Abreast(ws[n], ws'[n]) /\ ws'[n] # None /\ enabled' = enabled
      BY <1>1, <1>5 DEF Abreast
    <3> QED BY <1>5, <2>2, <3>1, <3>2, LineKept
  <2> QED BY <1>3, <1>5, <2>1, <2>2
<1>6. ASSUME NEW n \in Names, ReadyNow(n)', NEW k \in Kinds PROVE InLine(n, k)'
  <2>1. ReadyNow(n) /\ ws[n] # None
    BY <1>1, <1>6 DEF ReadyNow
  <2>2. InLine(n, k) /\ InLine(n, "Namespace")
    BY <2>1, PlanKinds DEF Built
  <2>3. CASE n # run.name \/ k # Kind
    BY <1>4, <2>1, <2>2, <2>3
  <2>4. CASE n = run.name /\ k = Kind
    <3>1. run # None /\ ws[n].status.ready.generation = ws[n].gen
      BY <1>3, <2>1, GoingOn DEF ReadyNow
    <3>2. Younger(run.w, ws[n]) /\ ws[n].gen <= run.w.gen
      BY <2>1, <2>4, <3>1 DEF Generations, Aged
    <3>3. ws[n].gen \in Nat /\ run.w.gen \in Nat
      BY <2>1, <3>1, SpecTypes, RunTypes DEF WorkspaceRecords
    <3>4. Abreast(run.w, ws[n])
      BY <3>2, <3>3 DEF Younger
    <3>5. PICK i \in 1 .. 9 : i = run.step
      BY <1>3
    <3> QED BY <1>3, <1>5, <2>1, <2>2, <2>4, <3>4, <3>5
  <2> QED BY <2>3, <2>4
<1>7. CASE SyncFault
  <2>1. ~Going(run')
    BY <1>1, <1>7, Moves DEF SyncFault
  <2> QED BY <1>6, <2>1 DEF Built, Building
<1>8. CASE SyncWrite
  <2>1. /\ Going(run') /\ run'.name = run.name /\ run'.w = run.w /\ x = Sent
        /\ run'.istio = run.istio /\ run'.step = run.step + 1
    BY <1>1, <1>2, <1>8, Moves DEF SyncWrite
  <2>2. ASSUME NEW n \in Names, NEW i \in 1 .. 9, Building(n)', i < run'.step PROVE InLine(n, Plan[i])'
    <3>1. Building(n) /\ n = run.name /\ ws[n] # None /\ Abreast(run.w, ws[n])
      BY <1>1, <1>3, <2>1, <2>2, BuildingAbreast DEF Building
    <3>2. CASE i = run.step
      BY <1>5, <2>1, <3>1, <3>2
    <3>3. CASE i < run.step
      <4>1. InLine(n, Plan[i]) /\ InLine(n, Plan[1]) /\ Plan[1] = "Namespace"
        BY <1>3, <3>1, <3>3, PlanOrder DEF Built
      <4>2. Plan[i] \in Kinds /\ Plan[i] # Kind
        BY <1>3, <3>3, PlanOrder, PlanKinds
      <4> QED BY <1>4, <3>1, <4>1, <4>2
    <3> QED BY <1>3, <2>1, <2>2, <3>2, <3>3
  <2> QED BY <1>1, <1>3, <1>6, <2>1, <2>2 DEF Built
<1> QED BY <1>7, <1>8

LEMMA BuiltConcluded ==
  ASSUME TypeOK, TypeOK', Generations, Built, Conclude \/ ReportLost
  PROVE  Built'
<1>1. run # None /\ run' = None /\ UNCHANGED <<obj, enabled>> /\ ~Going(run')
  BY Concluded, GoingOn
<1>n. PICK n \in Names : n = run.name
  BY Concluded
<1>2. CASE UNCHANGED wsVars
  BY <1>1, <1>2, BuiltUntouched DEF wsVars, Building
<1>3. CASE ~UNCHANGED wsVars
  <2>1. PICK w \in {ws[n]} \cup {Patched(n, st) : st \in StatusRecords} :
          /\ \E q : Store(n, w, q)
          /\ \/ w.status.ready = ws[n].status.ready
             \/ /\ w.status.ready.generation = run.w.gen
                /\ w.status.ready.reason = "Reconciled" => Reporting
    BY <1>n, <1>3, Concluded
  <2>2. ws[n] # None
    BY <1>n, <1>3, Concluded
  <2>3. w \in WorkspaceRecords /\ w # None /\ Abreast(ws[n], w) /\ ws'[n] = w
    <3>1. w \in WorkspaceRecords /\ Abreast(ws[n], w)
      BY <1>n, <1>1, <2>2, PatchAbreast, SpecTypes DEF Abreast
    <3> QED BY <2>1, <3>1, StateTypes, NoneAssumption DEF Store
  <2>4. ASSUME NEW m \in Names, ReadyNow(m)', NEW k \in Kinds PROVE InLine(m, k)'
    <3>1. CASE m # n
      <4>1. ws'[m] = ws[m]
        BY <1>n, <3>1, StoredElsewhere
      <4> QED BY <1>1, <2>4, <4>1 DEF Built, ReadyNow, InLine, UidOf
    <3>2. CASE m = n
      <4>1. /\ w.status.ready = [reason |-> "Reconciled", generation |-> w.gen]
            /\ w.gen = ws[n].gen
        BY <2>3, <2>4, <3>2 DEF ReadyNow, Abreast
      <4>2. InLine(n, k)
        <5>1. CASE w.status.ready = ws[n].status.ready
          BY <2>2, <4>1, <5>1 DEF Built, ReadyNow
        <5>2. CASE Reporting /\ w.status.ready.generation = run.w.gen
          <6>1. Building(n)
            <7>1. Going(run)
              BY <5>2, Zenon DEF Going, Reporting
            <7>2. run.w.gen = ws[n].gen /\ run.name = n
              BY <1>n, <4>1, <5>2
            <7> QED BY <2>2, <7>1, <7>2 DEF Building
          <6>2. \A i \in 1 .. 9 : i < run.step
            BY <1>1, <5>2, ReportingEnds, RunTypes
          <6> QED BY <6>1, <6>2 DEF Built, Kinds
        <5> QED BY <2>1, <4>1, <5>1, <5>2
      <4> QED BY <1>1, <2>2, <2>3, <3>2, <4>2, LineKept
    <3> QED BY <3>1, <3>2
  <2> QED BY <1>1, <2>4 DEF Built, Building
<1> QED BY <1>2, <1>3

LEMMA BuiltCollected ==
  ASSUME TypeOK, TypeOK', HomesSafe, Generations, Built, UNCHANGED <<wsVars, run, enabled>>, Collected
  PROVE  Built'
<1>1. UNCHANGED ws
  BY DEF wsVars
<1>2. ASSUME NEW n \in Names, ws[n] # None, NEW k \in Kinds, InLine(n, k), InLine(n, "Namespace")
      PROVE  InLine(n, k)'
  <2> DEFINE o == <<k, ws[n].spec.namespace>>
  <2>1. obj'[o] = obj[o]
    BY <1>2, CollectedSpares DEF Generations, Aged
  <2>2. Abreast(ws[n], ws'[n]) /\ ws'[n] # None /\ enabled' = enabled
    BY <1>1, <1>2 DEF Abreast
  <2> QED BY <1>2, <2>1, <2>2, LineKept
<1>3. ASSUME NEW n \in Names, ReadyNow(n)', NEW k \in Kinds PROVE InLine(n, k)'
  <2>1. ReadyNow(n) /\ ws[n] # None
    BY <1>1, <1>3 DEF ReadyNow
  <2>2. InLine(n, k) /\ InLine(n, "Namespace")
    BY <2>1, PlanKinds DEF Built
  <2> QED BY <1>2, <2>1, <2>2
<1>4. ASSUME NEW n \in Names, Building(n)', NEW i \in 1 .. 9, i < run'.step PROVE InLine(n, Plan[i])'
  <2>1. Building(n) /\ i < run.step /\ run # None /\ ws[n] # None
    BY <1>1, <1>4, GoingOn DEF Building
  <2>2. 1 < run.step /\ Plan[1] = "Namespace" /\ Plan[i] \in Kinds
    BY <2>1, RunTypes, PlanOrder, PlanKinds
  <2>3. InLine(n, Plan[i]) /\ InLine(n, "Namespace")
    BY <2>1, <2>2 DEF Built
  <2> QED BY <1>2, <2>1, <2>2, <2>3
<1> QED BY <1>3, <1>4 DEF Built

LEMMA BuiltUsed ==
  ASSUME TypeOK, TypeOK', Known, Generations, Built, UNCHANGED <<obj, run, enabled>>,
         NEW n \in Names, Used(n), ws[n] = None /\ ws'[n] # None => born[n] = 0
  PROVE  Built'
<1>1. CASE DeliverWorkspace(n)
  BY <1>1, BuiltUntouched DEF DeliverWorkspace, Building, Built
<1>2. CASE ~DeliverWorkspace(n)
  <2>1. PICK w \in WorkspaceRecords \cup {None} :
          /\ Store(n, w, queue)
          /\ w # None =>
               /\ ~w.deleting /\ w.status.ready.generation < w.gen
               /\ \/ ws[n] = None /\ wsCache[n] = None /\ ~(run # None /\ run.name = n)
                  \/ /\ ws[n] # None /\ w.gen = ws[n].gen + 1
                     /\ w.status.ready = ws[n].status.ready
    BY <1>2, UsedStores
  <2>2. \A m \in Names : ws'[m] = IF m = n THEN w ELSE ws[m]
    BY <2>1, StateTypes DEF Store
  <2>3. ~ReadyNow(n)'
    <3>1. w # None => w.gen \in Nat /\ w.status.ready.generation < w.gen
      BY <2>1, GenerationTypes
    <3> QED BY <2>2, <3>1 DEF ReadyNow
  <2>4. ~Building(n)'
    <3>1. Building(n)' => run # None /\ run.name = n /\ w # None /\ run.w.gen = w.gen
      BY <2>2, GoingOn DEF Building
    <3>2. Building(n)' => ws[n] # None /\ w.gen = ws[n].gen + 1 /\ ws[n].gen \in Nat
      BY <2>1, <3>1, SpecTypes, GenerationTypes
    <3>3. Building(n)' => run.w.gen <= ws[n].gen
      BY <3>1, <3>2 DEF Generations, Aged, Younger
    <3> QED BY <3>1, <3>2, <3>3
  <2>5. \A m \in Names : m # n => /\ ReadyNow(m)' => ReadyNow(m)
                                  /\ Building(m)' => Building(m)
                                  /\ \A k : InLine(m, k) => InLine(m, k)'
    BY <2>2 DEF ReadyNow, Building, InLine, UidOf
  <2>6. Going(run') => run'.istio = enabled'
    BY DEF Built
  <2> QED BY <2>3, <2>4, <2>5, <2>6 DEF Built
<1> QED BY <1>1, <1>2

LEMMA BuiltKept ==
  ASSUME TypeOK, TypeOK', Conv, Known, Clear, HomesSafe, Generations, Built, UNCHANGED enabled,
         [Next]_vars, \A x \in Unspent : left'[x] = left[x] /\ ~Spend(x),
         \A n \in Names : ws[n] = None /\ ws'[n] # None => born[n] = 0
  PROVE  Built'
<1>1. CASE \E n \in Names : FetchNotFound(n) \/ Fetch(n)
  BY <1>1, BuiltFetched
<1>2. CASE SyncNothing \/ SyncConflict \/ SyncRejected
  BY <1>2, BuiltIdle
<1>3. CASE SyncWrite \/ SyncFault
  BY <1>3, BuiltCall
<1>4. CASE Conclude \/ ReportLost
  BY <1>4, BuiltConcluded
<1>5. CASE UNCHANGED <<wsVars, obj, run>>
  BY <1>5, BuiltUntouched DEF wsVars, Building, Built
<1>6. CASE UNCHANGED <<wsVars, run>> /\ Collected
  BY <1>6, BuiltCollected
<1>7. CASE UNCHANGED <<obj, run>> /\ \E n \in Names : Used(n)
  BY <1>7, BuiltUsed
<1> QED BY <1>1, <1>2, <1>3, <1>4, <1>5, <1>6, <1>7, WhatHappens DEF Clear

(* While nobody disturbs, the controller sees what there is, and Ready is true. *)
Serene == Undisturbed => Clear /\ HomesSafe /\ Generations /\ Built

LEMMA SereneKept ==
  ASSUME TypeOK, TypeOK', ChildrenSeen, Ledger, Conv, Known, Blameless, Serene, [Next]_vars
  PROVE  Serene'
<1> SUFFICES ASSUME Undisturbed' PROVE Clear' /\ HomesSafe' /\ Generations' /\ Built'
  BY DEF Serene
<1>1. Paid /\ WsHeritage
  BY BudgetSteps, WsInherited
<1>2. /\ Undisturbed /\ NoOrphan'
      /\ \A x \in Unspent : left'[x] = left[x] /\ ~Spend(x)
      /\ \A n \in Names : ws[n] = None /\ ws'[n] # None => born[n] = 0
  BY <1>1, UndisturbedSteps
<1>3. Clear /\ HomesSafe /\ Generations /\ Built /\ standby = None
  BY <1>2 DEF Serene, Clear
<1>4. Squatted /\ left["squat"] = Budget["squat"]
  BY <1>2 DEF Blameless, NoOrphan, Undisturbed, NoOutsideHand
<1>5. Clear' /\ UNCHANGED enabled
  BY <1>2, <1>3, ClearKept
<1>6. HomesSafe'
  BY <1>1, <1>2, <1>3, <1>4, HomesSafeKept DEF Generations, Aged
<1>7. Generations'
  BY <1>2, <1>3, GenerationsKept
<1>8. Built'
  BY <1>2, <1>3, <1>5, BuiltKept
<1> QED BY <1>5, <1>6, <1>7, <1>8

(* Ready is true at every moment, in the middle of a reconcile and of a failed
   call as at rest: every child of a Workspace that is Ready for its current
   generation is in line.  The children's informers must not lag (a reconcile
   that finds a stale child in line passes it), no name may be used twice (a
   late report of its predecessor's reconcile says Ready for the same number),
   and nothing be deleted in the foreground (the children go before the
   Workspace); no discovery call may have answered wrongly. *)
THEOREM ReadyMeansBuilt ==
  ASSUME ChildrenSeen
  PROVE  Spec => [](Undisturbed => ReadyIsReal)
<1>1. IstioInformed
  <2>1. IstioKinds \subseteq Kinds
    BY PlanKinds DEF IstioKinds
  <2> QED BY <2>1 DEF ChildrenSeen, IstioInformed
<1>2. Init => Serene
  <2> SUFFICES ASSUME Init PROVE Serene
    OBVIOUS
  <2>1. /\ \A n \in Names : ws[n] = None
        /\ \A o \in Objects : obj[o] = None /\ cache[o] = None
        /\ served = crds /\ enabled = crds /\ run = None /\ standby = None
    BY DEF Init
  <2> QED BY <2>1, Homes, GoingOn
          DEF Serene, Clear, HomesSafe, Generations, Aged, Built, Building, ReadyNow
<1>3. TypeOK /\ TypeOK' /\ Ledger /\ Conv /\ Known /\ Blameless /\ Serene /\ [Next]_vars => Serene'
  BY SereneKept
<1>4. Serene => (Undisturbed => ReadyIsReal)
  BY DEF Serene, Built, ReadyIsReal
<1> QED BY <1>1, <1>2, <1>3, <1>4, TypeCorrect, LedgerHolds, ConvHolds, KnownHolds, BlamelessHolds, PTL
        DEF Spec
=============================================================================
