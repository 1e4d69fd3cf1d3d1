------------------------- MODULE ModuleStatusProofs -------------------------
(***************************************************************************)
(* Proofs about what a Module's status says when the controller rests.     *)
(*                                                                         *)
(* A status is patched against the copy that the reconcile began with, and *)
(* only if it differs from it.  The invariant says what that leaves        *)
(* behind, with every informer as late as it likes: a status that mirrors  *)
(* what there is, or one that was overlooked, or another reconcile to come.*)
(***************************************************************************)
EXTENDS ModuleConvergenceProofs, ModuleHistory

(* A reconcile past the guard works from what is stored, status apart, and what
   it found of the template is so still; or another one follows. *)
RunCurrent ==
  run # None /\ run.phase # "guard" /\ mods[run.name] # None =>
    \/ Awaited(run.name)
    \/ /\ Abreast(run.m, mods[run.name])
       /\ run.phase \in {"sync", "status"} => run.t = TemplateOf(run.name)
       /\ run.phase = "failed" /\ run.error # "ReconcileError" =>
            run.error = "TemplateNotFound" /\ TemplateOf(run.name) = None

(* The reconcile of Module n comes to its status. *)
Attending(n) == run # None /\ run.name = n /\ run.phase \notin Retiring

(* The status mirrors what there is, or will, or was overlooked. *)
Told(n) ==
  mods[n] # None /\ ~mods[n].deleting =>
    \/ Awaited(n) \/ Attending(n) \/ n \in overlooked
    \/ TemplateOf(n) # None /\ TargetOf(n) \in relPend
    \/ Mirrors(n)

Truth == RunCurrent /\ \A n \in Names : Told(n)
-----------------------------------------------------------------------------
(* The memory. *)

(* The controller of the history is the controller. *)
LEMMA HistoryRefines == HSpec => Spec
<1>1. HInit => Init
  BY DEF HInit
<1>2. [HNext]_hvars => [Next]_vars
  BY DEF HNext, hvars
<1> QED BY <1>1, <1>2, PTL DEF HSpec, Spec

LEMMA HistorySteps ==
  ASSUME [HNext]_hvars
  PROVE  [Next]_vars /\ Remember
BY DEF HNext, hvars, vars, Remember, Concludes

(* Nothing is forgotten, or overlooked, while the reconcile goes on. *)
LEMMA NothingConcluded ==
  ASSUME Remember, run = None \/ run' # None \/ run' = run
  PROVE  overlooked' = overlooked
BY DEF Remember, Concludes

(* What is not overlooked went by the stored status, and its report arrived. *)
LEMMA NotOverlooked ==
  ASSUME Remember, run # None, run' = None, UNCHANGED left,
         run.name \notin overlooked', mods[run.name] # None
  PROVE  run.m.status = mods[run.name].status
BY DEF Remember, Concludes, Overlooks

(* A reconcile decides on its own Module only. *)
LEMMA OthersRemembered ==
  ASSUME Remember, NEW n, n \in overlooked, run # None => n # run.name
  PROVE  n \in overlooked'
BY DEF Remember, Concludes
-----------------------------------------------------------------------------
(* What is true of a status stays true unless something is heard. *)

LEMMA ToldOf ==
  ASSUME Typed, Conv, Kept, NEW n \in Names, Told(n), ~Attending(n),
         n \in overlooked => n \in overlooked',
         mods'[n] # None => \/ Awaited(n)'
                            \/ mods'[n].gen = mods[n].gen /\ mods'[n].status = mods[n].status
  PROVE  Told(n)'
<1> SUFFICES ASSUME mods'[n] # None, ~mods'[n].deleting, ~Awaited(n)', n \notin overlooked',
                    TemplateOf(n)' # None => TargetOf(n)' \notin relPend'
             PROVE  Mirrors(n)'
  BY DEF Told
<1>1. /\ ~Awaited(n) /\ Steady(n) /\ mods[n] # None /\ ~mods[n].deleting
      /\ mods'[n].gen = mods[n].gen /\ mods'[n].status = mods[n].status
  BY DEF Kept, Steady, Abreast
<1>2. TemplateOf(n)' = TemplateOf(n) /\ TargetOf(n)' = TargetOf(n)
  BY <1>1, SteadyTarget DEF Steady
<1>3. CASE TemplateOf(n) = None
  BY <1>1, <1>2, <1>3 DEF Told, Mirrors
<1>4. CASE TemplateOf(n) # None
  <2>1. TargetOf(n) \in Releases /\ TargetOf(n)[3] = n
    BY <1>1, <1>4, TargetOfType
  <2>2. TargetOf(n) \notin relPend /\ n \notin queue'
    BY <1>2, <1>4, <2>1 DEF Kept, Heard, Awaited
  <2>3. InOrder(n)
    BY <1>1, <1>4, <2>2 DEF Conv, Converging, Quiet, Busy, Attending, Retiring, Due
  <2>4. rel'[TargetOf(n)] = rel[TargetOf(n)]
    BY <1>2, <1>4, <2>1, <2>2, <2>3 DEF Kept, Heard, InOrder, Labelled
  <2>5. Mirrors(n)
    BY <1>1, <2>2 DEF Told
  <2> QED BY <1>1, <1>2, <1>4, <2>4, <2>5 DEF Mirrors
<1> QED BY <1>3, <1>4

(* The Modules that a reconcile is not for. *)
LEMMA TruthOfOthers ==
  ASSUME Typed, Conv, Kept, Truth, NEW n \in Names, ~Attending(n),
         n \in overlooked => n \in overlooked',
         mods'[n] = mods[n] \/ n \in queue' \/ n \in modPend'
  PROVE  Told(n)'
BY ToldOf DEF Truth, Awaited

LEMMA TruthUnmoved ==
  ASSUME Inv, Inv', Conv, Kept, Announced, Truth, run' = run, overlooked' = overlooked
  PROVE  Truth'
<1>1. ASSUME NEW n \in Names PROVE Told(n)'
  <2>1. CASE Attending(n)
    BY <2>1 DEF Told, Attending
  <2>2. CASE ~Attending(n)
    BY <2>2, TruthOfOthers DEF Inv, Announced
  <2> QED BY <2>1, <2>2
<1>2. RunCurrent'
  <2> SUFFICES ASSUME run # None, run.phase # "guard", mods'[run.name] # None, ~Awaited(run.name)'
               PROVE  /\ Abreast(run.m, mods'[run.name])
                      /\ run.phase \in {"sync", "status"} => run.t = TemplateOf(run.name)'
                      /\ run.phase = "failed" /\ run.error # "ReconcileError" =>
                            run.error = "TemplateNotFound" /\ TemplateOf(run.name)' = None
    BY DEF RunCurrent
  <2>1. run.name \in Names
    BY RunTypes DEF Inv, Typed
  <2>2. ~Awaited(run.name) /\ Steady(run.name)
    BY <2>1 DEF Kept
  <2>3. mods[run.name] # None /\ TemplateOf(run.name)' = TemplateOf(run.name)
    BY <2>2 DEF Steady
  <2>4. Abreast(run.m, mods[run.name])
    BY <2>2, <2>3 DEF Truth, RunCurrent
  <2>5. Abreast(run.m, mods'[run.name])
    BY <2>2, <2>4, AbreastOfSteady
  <2> QED BY <2>2, <2>3, <2>5 DEF Truth, RunCurrent
<1> QED BY <1>1, <1>2 DEF Truth

(* The reconcile is over. *)
LEMMA TruthEnded ==
  ASSUME Inv, Conv, Kept, Truth, Remember, run # None, run' = None, NEW n, n = run.name,
         \A k \in Names \ {n} : mods'[k] = mods[k],
         Told(n)'
  PROVE  Truth'
<1>1. ASSUME NEW k \in Names, k # n PROVE Told(k)'
  BY <1>1, TruthOfOthers, OthersRemembered DEF Inv, Attending
<1> QED BY <1>1 DEF Truth, RunCurrent

(* The reconcile goes on towards the status. *)
LEMMA TruthAttended ==
  ASSUME Inv, Conv, Kept, Truth, Remember, run # None, run' # None, NEW n, n = run.name, run'.name = n,
         run'.phase \notin Retiring,
         \A k \in Names \ {n} : mods'[k] = mods[k],
         RunCurrent'
  PROVE  Truth'
<1>1. ASSUME NEW k \in Names PROVE Told(k)'
  <2>1. CASE k = n
    BY <2>1 DEF Told, Attending
  <2>2. CASE k # n
    BY <2>2, TruthOfOthers, OthersRemembered DEF Inv, Attending
  <2> QED BY <2>1, <2>2
<1> QED BY <1>1 DEF Truth

LEMMA TruthFetched ==
  ASSUME Inv, Conv, Truth, Remember, NEW n \in Names, FetchNothing(n) \/ Fetch(n)
  PROVE  Truth'
<1>1. /\ run = None /\ queue' = queue \ {n}
      /\ UNCHANGED <<mods, modCache, modPend, tpl, tplCache, tplPend, rel, relCache, relPend>>
  BY DEF FetchNothing, Fetch, modVars, tplVars, relVars
<1>0. overlooked' = overlooked
  BY <1>1, NothingConcluded
<1>2. ASSUME NEW k \in Names, k # n PROVE Told(k)'
  <2>0. Told(k) /\ ~Attending(k)
    BY <1>1 DEF Truth, Attending
  <2>1. Awaited(k) => Awaited(k)'
    BY <1>1, <1>2 DEF Awaited
  <2>2. TemplateOf(k)' = TemplateOf(k) /\ TargetOf(k)' = TargetOf(k)
    BY <1>1 DEF TargetOf, TemplateOf, Wanted, TargetNamespace
  <2>3. Mirrors(k) => Mirrors(k)'
    BY <1>1, <2>2 DEF Mirrors
  <2> QED BY <1>0, <1>1, <2>0, <2>1, <2>2, <2>3 DEF Told
<1>n. n \in modPend \/ Abreast(modCache[n], mods[n])
  BY DEF Conv, CachesFresh
<1>3. CASE FetchNothing(n)
  <2>1. run' = None
    BY <1>1, <1>3 DEF FetchNothing
  <2>2. Told(n)'
    BY <1>1, <1>3, <1>n DEF FetchNothing, ToReconcile, Told, Awaited, Abreast
  <2> QED BY <1>2, <2>1, <2>2 DEF Truth, RunCurrent
<1>4. CASE Fetch(n)
  <2> DEFINE m == modCache[n]
  <2>1. run' = [ name |-> n, m |-> m, phase |-> FirstPhase(m),
                 t |-> None, error |-> "", namespace |-> None, todo |-> {} ]
    BY <1>4 DEF Fetch
  <2>2. m \in ModuleRecords /\ FirstPhase(m) \in Phases
    BY <1>4, StateTypes DEF Inv, Fetch, ToReconcile, FirstPhase, Phases
  <2>3. m.deleting => n \in modPend \/ mods[n] = None \/ mods[n].deleting
    BY <1>n DEF Abreast
  <2>4. n \in modPend \/ Abreast(m, mods[n])
    BY <1>n
  <2> HIDE DEF m
  <2>5. run' \in Runs /\ run'.name = n /\ run'.m = m /\ run'.phase = FirstPhase(m)
    BY <2>1, <2>2 DEF Runs
  <2>6. Told(n)'
    BY <1>1, <2>3, <2>5, RunsAssumption DEF Told, Attending, FirstPhase, Retiring, Awaited
  <2>7. RunCurrent'
    BY <1>1, <2>4, <2>5 DEF RunCurrent, Awaited, FirstPhase
  <2> QED BY <1>2, <2>6, <2>7 DEF Truth
<1> QED BY <1>3, <1>4

(* A patch that is refused or fails is tried again. *)
LEMMA TruthPatchFailed ==
  ASSUME Inv, Conv, Kept, Truth, Remember, run # None, NEW m, PatchFails(run.name, m)
  PROVE  Truth'
<1>1. PICK n \in Names : n = run.name
  BY RunTypes DEF Inv, Typed
<1>2. run' = None /\ n \in queue' /\ \A k \in Names \ {n} : mods'[k] = mods[k]
  BY <1>1, StateTypes DEF PatchFails, Again, modVars, StoreModule, Inv
<1>3. Told(n)'
  BY <1>2 DEF Told, Awaited
<1> QED BY <1>1, <1>2, <1>3, TruthEnded

LEMMA TruthFinalizer ==
  ASSUME Inv, Conv, Truth, Remember,
         AddFinalizer \/ AddFinalizerFails \/ RemoveFinalizer \/ RemoveFinalizerFails
  PROVE  Truth'
<1>1. run # None /\ run \in Runs /\ run.name \in Names /\ Kept
  BY RunTypes, ConvFinalizer DEF Inv, Typed, AddFinalizer, AddFinalizerFails, RemoveFinalizer,
     RemoveFinalizerFails, At
<1>n. PICK n \in Names : n = run.name
  BY <1>1
<1>2. CASE AddFinalizer
  <2>1. mods[n] # None /\ mods' = [mods EXCEPT ![n] = Guarded(n)]
    BY <1>n, <1>2 DEF AddFinalizer, StoreModule
  <2>2. Guarded(n) \in ModuleRecords
    BY <1>1, <1>n, <2>1, PatchValues DEF Inv
  <2>3. run' = [run EXCEPT !.m = Guarded(n), !.phase = "template"]
    BY <1>n, <1>2 DEF AddFinalizer
  <2> HIDE DEF Guarded
  <2>4. run' \in Runs /\ run'.name = n /\ run'.phase = "template" /\ run'.m = Guarded(n)
    BY <1>1, <1>n, <2>2, <2>3, RunSteps DEF Runs, Inv, RunWellFormed
  <2>5. mods'[n] = Guarded(n) /\ \A k \in Names \ {n} : mods'[k] = mods[k]
    BY <2>1, StateTypes DEF Inv
  <2>6. RunCurrent'
    BY <2>4, <2>5 DEF RunCurrent, Abreast
  <2> QED BY <1>1, <1>n, <2>4, <2>5, <2>6, TruthAttended, RunsAssumption DEF Retiring
<1>3. CASE AddFinalizerFails \/ RemoveFinalizerFails
  BY <1>1, <1>3, TruthPatchFailed DEF AddFinalizerFails, RemoveFinalizerFails
<1>4. CASE RemoveFinalizer
  <2>1. /\ run' = None /\ mods[n] # None /\ run.phase \in Retiring
        /\ StoreModule(n, Released(n), queue) /\ UNCHANGED tplPend
    BY <1>n, <1>4 DEF RemoveFinalizer, At, Retiring, tplVars
  <2>2. /\ mods'[n] = Released(n) /\ \A k \in Names \ {n} : mods'[k] = mods[k]
        /\ queue \subseteq queue' /\ modPend \subseteq modPend'
    BY <2>1, StateTypes DEF Inv, StoreModule
  <2>3. ~mods[n].deleting => Awaited(n)
    BY <1>1, <1>n, <2>1 DEF Truth, RunCurrent, Abreast, Retiring, Inv, Copies, RetiringInv
  <2>4. mods'[n] # None => mods'[n].spec = mods[n].spec /\ mods'[n].deleting = mods[n].deleting
    <3>1. mods[n] \in ModuleRecords
      BY <2>1, StateTypes DEF Inv
    <3> QED BY <2>2, <3>1 DEF Released, ModuleRecords
  <2>5. Told(n)'
    BY <2>1, <2>2, <2>3, <2>4 DEF Told, Awaited
  <2> QED BY <1>1, <1>n, <2>1, <2>2, <2>5, TruthEnded
<1> QED BY <1>2, <1>3, <1>4

LEMMA TruthTemplate ==
  ASSUME Inv, Conv, Truth, Remember, ReadTemplate
  PROVE  Truth'
<1>1. /\ run # None /\ run \in Runs /\ run.name \in Names /\ run.phase = "template"
      /\ run.m \in ModuleRecords /\ Kept
  BY RunTypes, ConvTemplate DEF Inv, Typed, ReadTemplate, At
<1>n. PICK n \in Names : n = run.name
  BY <1>1
<1>2. UNCHANGED <<mods, modPend, tpl, tplPend, queue>>
  BY DEF ReadTemplate, modVars, tplVars
<1> DEFINE t == tplCache[run.m.spec.template]
<1>3. run.m.spec.template \in Templates /\ mods[n] # None
  BY <1>1, <1>n DEF Inv, Copies, WorkingInv, Working, ModuleRecords, SpecRecords
<1>4. ASSUME ~Awaited(n) PROVE Abreast(run.m, mods[n]) /\ t = TemplateOf(n)
  <2>1. Abreast(run.m, mods[n]) /\ mods[n].spec.template \notin tplPend
    BY <1>1, <1>n, <1>3, <1>4 DEF Truth, RunCurrent, Working, Awaited
  <2> QED BY <1>3, <2>1 DEF Conv, CachesFresh, Abreast, TemplateOf
<1>5. t \in TemplateRecords \cup {None}
  BY <1>3 DEF Inv, Typed, ClusterTypeOK
<1>6. \/ t = None /\ run' = [run EXCEPT !.phase = "failed", !.error = "TemplateNotFound"]
      \/ t # None /\ run' = [run EXCEPT !.t = t, !.phase = "sync"]
  BY DEF ReadTemplate, Fail
<1> HIDE DEF t
<1>7. /\ run' \in Runs /\ run'.name = n /\ run'.m = run.m
      /\ \/ t = None /\ run'.phase = "failed" /\ run'.error = "TemplateNotFound"
         \/ t # None /\ run'.phase = "sync" /\ run'.t = t
  BY <1>1, <1>n, <1>5, <1>6, RunSteps DEF Runs, Inv, RunWellFormed, Fail
<1>8. RunCurrent'
  BY <1>2, <1>4, <1>7 DEF RunCurrent, Awaited, TemplateOf
<1> QED BY <1>1, <1>n, <1>2, <1>7, <1>8, TruthAttended, RunsAssumption DEF Retiring

LEMMA TruthSync ==
  ASSUME Inv, Conv, Truth, Remember, SyncWrite \/ SyncNothing \/ SyncRejected \/ SyncFault
  PROVE  Truth'
<1>1. /\ run # None /\ run \in Runs /\ run.name \in Names /\ run.phase = "sync"
      /\ run.t # None /\ WellFormed(run) /\ Kept
  BY RunTypes, ConvSync DEF Inv, Typed, RunWellFormed, WellFormed, SyncWrite, SyncNothing,
     SyncRejected, SyncFault, At
<1>n. PICK n \in Names : n = run.name
  BY <1>1
<1>2. UNCHANGED <<mods, modPend, tpl, tplPend>>
  BY DEF SyncWrite, SyncNothing, SyncRejected, SyncFault, modVars, tplVars
<1>3. GoTo("status") \/ Fail("ReconcileError")
  BY DEF SyncWrite, SyncNothing, SyncRejected, SyncFault
<1>4. /\ run' \in Runs /\ run'.name = n /\ run'.m = run.m /\ run'.t = run.t
      /\ run'.phase = "status" \/ (run'.phase = "failed" /\ run'.error = "ReconcileError")
  BY <1>1, <1>n, <1>3, RunSteps DEF GoTo, Fail, Runs
<1>5. mods'[n] # None
  BY <1>1, <1>n, <1>2 DEF Inv, Copies, WorkingInv, Working
<1>6. Awaited(n)' \/ (~Awaited(n) /\ Steady(n))
  BY <1>1, <1>5 DEF Kept
<1>7. ~Awaited(n) => Abreast(run.m, mods[n]) /\ run.t = TemplateOf(n)
  BY <1>1, <1>2, <1>5, <1>n DEF Truth, RunCurrent
<1>8. RunCurrent'
  BY <1>2, <1>4, <1>6, <1>7 DEF RunCurrent, TemplateOf, Awaited
<1> QED BY <1>1, <1>n, <1>2, <1>4, <1>8, TruthAttended, RunsAssumption DEF Retiring

(* A patch against what is stored stores what was meant. *)
LEMMA MergeMeant ==
  ASSUME NEW s \in StatusRecords, NEW x \in StatusRecords
  PROVE  MergePatch(s, s, x) = x
<1>1. \A k \in FluxKinds : (IF s.refs[k] = x.refs[k] THEN s.refs[k] ELSE x.refs[k]) = x.refs[k]
  OBVIOUS
<1>2. MergePatch(s, s, x) = [ observedGeneration |-> x.observedGeneration,
                              templateGeneration |-> x.templateGeneration,
                              refs |-> [k \in FluxKinds |-> x.refs[k]], ready |-> x.ready ]
  BY <1>1 DEF MergePatch
<1>3. x.refs = [k \in FluxKinds |-> x.refs[k]]
  BY DEF StatusRecords
<1>4. x = [ observedGeneration |-> x.observedGeneration, templateGeneration |-> x.templateGeneration,
            refs |-> x.refs, ready |-> x.ready ]
  BY DEF StatusRecords
<1> QED BY <1>2, <1>3, <1>4

(* The status that a reconcile comes to, if nothing newer is under way. *)
LEMMA NewStatusMirrors ==
  ASSUME Inv, Conv, Truth, At("status"), NEW n \in Names, n = run.name, ~Awaited(n),
         ~mods[n].deleting
  PROVE  /\ TemplateOf(n) # None
         /\ \/ TargetOf(n) \in relPend
            \/ /\ NewStatus.observedGeneration = mods[n].gen
               /\ NewStatus.templateGeneration = TemplateOf(n).gen
               /\ \A k \in FluxKinds : NewStatus.refs[k] # None <=> <<k, NewStatus.refs[k], n>> = TargetOf(n)
               /\ NewStatus.ready = [reason |-> Observed(rel[TargetOf(n)]), generation |-> mods[n].gen]
<1>1. run # None /\ run.phase = "status" /\ run.t # None /\ mods[n] # None
  BY DEF At, Inv, RunWellFormed, WellFormed, Copies, WorkingInv, Working
<1>2. Abreast(run.m, mods[n]) /\ run.t = TemplateOf(n)
  BY <1>1 DEF Truth, RunCurrent, Working
<1>3. run.m.spec = mods[n].spec /\ run.m.gen = mods[n].gen
  BY <1>1, <1>2 DEF Abreast
<1>4. Target = TargetOf(n) /\ TargetNamespace(run.m, run.t) = TargetNamespace(mods[n], TemplateOf(n))
  BY <1>2, <1>3 DEF Target, TargetOf, Wanted, TargetNamespace
<1>5. /\ TargetOf(n) \in Releases /\ TemplateOf(n) \in TemplateRecords
      /\ TargetOf(n) = <<TemplateOf(n).type, TargetNamespace(mods[n], TemplateOf(n)), n>>
      /\ TargetNamespace(mods[n], TemplateOf(n)) # None
  <2>1. mods[n].spec \in SpecRecords /\ TemplateOf(n) \in TemplateRecords /\ TargetOf(n) \in Releases
    BY <1>1, <1>2, TargetOfType DEF Inv
  <2>2. TargetNamespace(mods[n], TemplateOf(n)) # None
    BY <2>1, NoneApart DEF TargetNamespace, TemplateRecords
  <2> QED BY <2>1, <2>2 DEF TargetOf, Wanted
<1>6. NewStatus = Reconciled(run.m, run.t, relCache[TargetOf(n)])
  BY <1>4 DEF NewStatus, Seen
<1> DEFINE ns == TargetNamespace(mods[n], TemplateOf(n))
<1>7. /\ NewStatus.observedGeneration = mods[n].gen
      /\ NewStatus.templateGeneration = TemplateOf(n).gen
      /\ \A k \in FluxKinds : NewStatus.refs[k] = IF k = TemplateOf(n).type THEN ns ELSE None
      /\ NewStatus.ready = [reason |-> Observed(relCache[TargetOf(n)]), generation |-> mods[n].gen]
  BY <1>2, <1>3, <1>4, <1>6 DEF Reconciled
<1>8. CASE TargetOf(n) \notin relPend
  <2>1. InOrder(n)
    BY <1>1, <1>2, <1>8 DEF Conv, Converging, Quiet, Busy, Due
  <2>2. relCache[TargetOf(n)] = rel[TargetOf(n)] /\ rel[TargetOf(n)] # None
    BY <1>5, <1>8, <2>1 DEF Conv, CachesFresh, InOrder, Labelled
  <2>3. Observed(relCache[TargetOf(n)]) = Observed(rel[TargetOf(n)])
    BY <2>2
  <2>4. \A k \in FluxKinds : NewStatus.refs[k] # None <=> <<k, NewStatus.refs[k], n>> = TargetOf(n)
    BY <1>5, <1>7
  <2> QED BY <1>1, <1>2, <1>7, <2>3, <2>4
<1> QED BY <1>1, <1>2, <1>8

LEMMA TruthStatus ==
  ASSUME Inv, Conv, Truth, Remember, StatusUnchanged \/ StatusPatch \/ StatusFails
  PROVE  Truth'
<1>1. run # None /\ run \in Runs /\ run.name \in Names /\ At("status") /\ Kept
  BY RunTypes, ConvStatus DEF Inv, Typed, StatusUnchanged, StatusPatch, StatusFails, At
<1>n. PICK n \in Names : n = run.name
  BY <1>1
<1>2. CASE StatusFails
  BY <1>1, <1>2, TruthPatchFailed DEF StatusFails
<1>3. CASE StatusUnchanged \/ StatusPatch
  <2>1. mods[n] # None /\ mods[n] \in ModuleRecords /\ run.m \in ModuleRecords
    BY <1>1, <1>n, StateTypes, RunTypes DEF Inv, Copies, WorkingInv, Working, At
  <2>2. NewStatus \in StatusRecords
    BY <1>1, TargetTypes DEF Inv, At, RunWellFormed, WellFormed
  <2>3. n \notin overlooked' => run.m.status = mods[n].status
    BY <1>1, <1>3, <1>n, <2>1, NotOverlooked DEF StatusUnchanged, StatusPatch
  <2>4. /\ run' = None /\ UNCHANGED <<tpl, tplPend, rel, relPend>>
        /\ queue \subseteq queue' /\ modPend \subseteq modPend'
        /\ \A k \in Names \ {n} : mods'[k] = mods[k]
        /\ mods'[n] \in ModuleRecords /\ mods'[n].gen = mods[n].gen /\ mods'[n].spec = mods[n].spec
        /\ mods'[n].deleting = mods[n].deleting
        /\ n \notin overlooked' => mods'[n].status = NewStatus
    <3>1. CASE StatusUnchanged
      BY <2>1, <2>3, <3>1 DEF StatusUnchanged, modVars, tplVars, relVars
    <3>2. CASE StatusPatch
      <4>1. /\ run' = None /\ UNCHANGED <<tpl, tplPend, rel, relPend>>
            /\ StoreModule(n, Patched(NewStatus), EventQueue)
        BY <1>n, <3>2 DEF StatusPatch, tplVars, relVars
      <4>2. mods' = [mods EXCEPT ![n] = Patched(NewStatus)]
            /\ queue \subseteq queue' /\ modPend \subseteq modPend'
        BY <4>1 DEF StoreModule, EventQueue, Again
      <4>3. Patched(NewStatus) \in ModuleRecords
        BY <1>1, <1>n, <2>1, <2>2, PatchValues DEF Inv
      <4>4. /\ Patched(NewStatus).gen = mods[n].gen /\ Patched(NewStatus).spec = mods[n].spec
            /\ Patched(NewStatus).deleting = mods[n].deleting
            /\ Patched(NewStatus).status = MergePatch(mods[n].status, run.m.status, NewStatus)
        BY <1>n, <2>1 DEF Patched, ModuleRecords
      <4>5. mods[n].status \in StatusRecords
        BY <2>1, ModuleUpdates
      <4>6. n \notin overlooked' => Patched(NewStatus).status = NewStatus
        BY <2>2, <2>3, <4>4, <4>5, MergeMeant
      <4>7. mods'[n] = Patched(NewStatus) /\ \A k \in Names \ {n} : mods'[k] = mods[k]
        BY <4>2, StateTypes DEF Inv
      <4> QED BY <4>1, <4>2, <4>3, <4>4, <4>6, <4>7
    <3> QED BY <1>3, <3>1, <3>2
  <2>5. TemplateOf(n)' = TemplateOf(n) /\ TargetOf(n)' = TargetOf(n)
    BY <2>4 DEF TemplateOf, TargetOf, Wanted, TargetNamespace
  <2>6. Told(n)'
    <3> SUFFICES ASSUME ~mods'[n].deleting, ~Awaited(n)', n \notin overlooked',
                        TargetOf(n)' \notin relPend' \/ TemplateOf(n)' = None
                 PROVE  Mirrors(n)'
      BY DEF Told
    <3>1. ~Awaited(n) /\ ~mods[n].deleting
      BY <2>1, <2>4, NoneApart DEF Awaited
    <3>2. TemplateOf(n) # None /\ TargetOf(n) \notin relPend
      BY <1>1, <1>n, <2>4, <2>5, <3>1, NewStatusMirrors
    <3>3. /\ NewStatus.observedGeneration = mods[n].gen
          /\ NewStatus.templateGeneration = TemplateOf(n).gen
          /\ \A k \in FluxKinds : NewStatus.refs[k] # None <=> <<k, NewStatus.refs[k], n>> = TargetOf(n)
          /\ NewStatus.ready = [reason |-> Observed(rel[TargetOf(n)]), generation |-> mods[n].gen]
      BY <1>1, <1>n, <3>1, <3>2, NewStatusMirrors
    <3> HIDE DEF NewStatus
    <3> QED BY <2>4, <2>5, <3>1, <3>2, <3>3 DEF Mirrors
  <2> QED BY <1>1, <1>n, <2>4, <2>6, TruthEnded
<1> QED BY <1>2, <1>3

LEMMA TruthReported ==
  ASSUME Inv, Conv, Truth, Remember, ReportError
  PROVE  Truth'
<1>1. /\ run # None /\ run \in Runs /\ run.name \in Names /\ run.phase = "failed" /\ run' = None /\ Kept
  BY RunTypes, ConvStatus DEF Inv, Typed, ReportError, At
<1>n. PICK n \in Names : n = run.name
  BY <1>1
<1>2. mods[n] # None /\ mods[n] \in ModuleRecords /\ run.m \in ModuleRecords
  BY <1>1, <1>n, StateTypes, RunTypes DEF Inv, Copies, WorkingInv, Working
<1> DEFINE told == NotReady(run.m, run.error)
<1>3. told \in StatusRecords /\ Patched(told) \in ModuleRecords
  <2>1. run.error \in {"", "TemplateNotFound", "ReconcileError"}
    BY <1>1, RunTypes
  <2>2. told \in StatusRecords
    BY <1>2, <2>1, StatusValues
  <2> QED BY <1>1, <1>n, <1>2, <2>2, PatchValues DEF Inv
<1>4. /\ told.observedGeneration = run.m.gen
      /\ told.ready = [reason |-> run.error, generation |-> run.m.gen]
  BY <1>2 DEF NotReady, ModuleRecords, StatusRecords
<1>5. /\ Patched(told).gen = mods[n].gen /\ Patched(told).spec = mods[n].spec
      /\ Patched(told).deleting = mods[n].deleting
      /\ Patched(told).status = MergePatch(mods[n].status, run.m.status, told)
  BY <1>n, <1>2 DEF Patched, ModuleRecords
<1> HIDE DEF told
<1>6. StoreModule(n, Patched(told), Requeued) /\ UNCHANGED tpl
  BY <1>n, <1>2 DEF ReportError, told, tplVars
<1>7. /\ mods'[n] = Patched(told) /\ \A k \in Names \ {n} : mods'[k] = mods[k]
      /\ TemplateOf(n)' = TemplateOf(n)
  BY <1>5, <1>6, StateTypes DEF StoreModule, TemplateOf, Inv
<1>8. Told(n)'
  <2> SUFFICES ASSUME ~Awaited(n)', n \notin overlooked' PROVE Mirrors(n)'
    BY DEF Told
  <2>1. ~Awaited(n) /\ n \notin Requeued
    BY <1>1, <1>3, <1>6, <1>7, NoneApart DEF Kept, Awaited, StoreModule
  <2>2. run.error # "ReconcileError"
    BY <1>1, <1>n, <2>1 DEF Requeued, Again
  <2>3. /\ Abreast(run.m, mods[n]) /\ run.error = "TemplateNotFound" /\ TemplateOf(n) = None
    BY <1>1, <1>2, <1>n, <2>1, <2>2 DEF Truth, RunCurrent
  <2>4. run.m.gen = mods[n].gen /\ run.m.status = mods[n].status /\ mods[n].status \in StatusRecords
    BY <1>1, <1>2, <1>n, <2>3, ModuleUpdates, NotOverlooked DEF Abreast, ReportError
  <2>5. mods'[n].status = told /\ mods'[n].gen = mods[n].gen
    BY <1>3, <1>5, <1>7, <2>4, MergeMeant
  <2> QED BY <1>4, <1>7, <2>3, <2>4, <2>5 DEF Mirrors
<1> QED BY <1>1, <1>n, <1>7, <1>8, TruthEnded

LEMMA TruthLost ==
  ASSUME Inv, Conv, Truth, Remember, ReportLost
  PROVE  Truth'
<1>1. run # None /\ run.name \in Names /\ run' = None /\ UNCHANGED mods /\ Kept
  BY RunTypes, ConvStatus DEF Inv, Typed, ReportLost, At, modVars
<1>n. PICK n \in Names : n = run.name
  BY <1>1
<1>2. left \in [Nuisances -> Nat] /\ {"report", "restart"} \subseteq Nuisances
  BY DEF Inv, Typed, ClusterTypeOK, Nuisances
<1>3. left'["report"] = left["report"] - 1 /\ left'["restart"] = left["restart"]
  BY <1>2 DEF ReportLost, Spend
<1>4. left'["report"] # left["report"]
  BY <1>2, <1>3
<1>5. Told(n)'
  BY <1>1, <1>n, <1>3, <1>4 DEF Remember, Concludes, Overlooks, Told
<1> QED BY <1>1, <1>n, <1>5, TruthEnded

LEMMA TruthRetiring ==
  ASSUME Inv, Inv', Conv, Truth, Remember, ResolveNamespace \/ DeleteFlux \/ DeleteFluxFails
  PROVE  Truth'
<1>1. run # None /\ run \in Runs /\ run.name \in Names /\ run.phase \in Retiring /\ Kept
  BY RunTypes, ConvCleanup DEF Inv, Typed, ResolveNamespace, DeleteFlux, DeleteFluxFails, At, Retiring
<1>n. PICK n \in Names : n = run.name
  BY <1>1
<1>2. UNCHANGED mods
  BY DEF ResolveNamespace, DeleteFlux, DeleteFluxFails, modVars
<1>3. ASSUME mods'[n] # None, ~Awaited(n)'
      PROVE  Abreast(run.m, mods'[n]) /\ mods'[n].deleting
  <2>1. ~Awaited(n) /\ mods[n] # None
    BY <1>1, <1>2, <1>3 DEF Kept
  <2>2. Abreast(run.m, mods[n])
    BY <1>1, <1>n, <2>1 DEF Truth, RunCurrent, Retiring
  <2> QED BY <1>1, <1>2, <2>1, <2>2 DEF Abreast, Inv, Copies, RetiringInv
<1>4. ASSUME NEW k \in Names PROVE Told(k)'
  <2>1. CASE k = n
    BY <1>3, <2>1 DEF Told
  <2>2. CASE k # n
    BY <1>1, <1>2, <1>n, <2>2, TruthOfOthers, OthersRemembered DEF Attending, Inv
  <2> QED BY <2>1, <2>2
<1>5. run' = None \/ (run'.name = n /\ run'.m = run.m /\ run'.phase \in Retiring)
  BY <1>1, <1>n DEF ResolveNamespace, DeleteFlux, DeleteFluxFails, Retiring, Runs, At
<1>6. RunCurrent'
  BY <1>3, <1>5 DEF RunCurrent, Retiring
<1> QED BY <1>4, <1>6 DEF Truth

LEMMA TruthRestarted ==
  ASSUME Restart
  PROVE  Truth'
BY DEF Restart, Truth, RunCurrent, Told, Awaited

LEMMA TruthKept ==
  ASSUME Inv, Inv', Conv, Truth, [Next]_vars, Remember
  PROVE  Truth'
<1>1. ASSUME run' = run PROVE overlooked' = overlooked
  BY <1>1, NothingConcluded
<1>2. CASE UNCHANGED vars
  <2>1. Kept /\ Announced /\ run' = run
    BY <1>2, KeptByNothing DEF vars, modVars, tplVars, relVars, Inv, Conv, Announced
  <2> QED BY <1>1, <2>1, TruthUnmoved
<1>3. CASE Work
  BY <1>3, TruthFetched, TruthFinalizer, TruthTemplate, TruthSync, TruthStatus, TruthReported,
     TruthRetiring DEF Work
<1>4. CASE SyncFault \/ DeleteFluxFails \/ ReportLost
  BY <1>4, TruthSync, TruthRetiring, TruthLost
<1>5. CASE Environment /\ UNCHANGED run
  BY <1>1, <1>5, KeptByEnvironment, TruthUnmoved
<1> QED BY <1>2, <1>3, <1>4, <1>5, TruthRestarted DEF Next

LEMMA TruthHolds == HSpec => []Truth
<1>1. HInit => Truth
  BY DEF HInit, Init, Truth, RunCurrent, Told
<1>2. Inv /\ Inv' /\ Conv /\ Truth /\ [HNext]_hvars => Truth'
  BY TruthKept, HistorySteps
<1> QED BY <1>1, <1>2, HistoryRefines, InvHolds, ConvHolds, PTL DEF HSpec

(* At rest, through API errors, lost reports, restarts and informers that lag,
   the Module informer too: the status refers to the Flux object that the Module
   asks for and repeats its health, or says that there is no template; or else
   the latest report on that Module went by a status that was no longer stored,
   or was lost (updateStatus, setReadyConditionFalse). *)
THEOREM OnlyOverlookedUnmirrored == HSpec => []UnmirroredOverlooked
<1>1. ASSUME Truth, AtRest, NEW n \in Names, mods[n] # None
      PROVE  Mirrors(n) \/ n \in overlooked
  <2>1. ~mods[n].deleting /\ ~Awaited(n) /\ ~Attending(n) /\ TargetOf(n) \notin relPend
    BY <1>1 DEF AtRest, Awaited, Attending
  <2> QED BY <1>1, <2>1 DEF Truth, Told
<1>2. Truth => UnmirroredOverlooked
  BY <1>1 DEF UnmirroredOverlooked
<1> QED BY <1>2, TruthHolds, PTL
=============================================================================
