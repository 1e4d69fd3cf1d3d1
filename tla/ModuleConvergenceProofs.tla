----------------------- MODULE ModuleConvergenceProofs -----------------------
(***************************************************************************)
(* Proofs about what the Module controller leaves behind when it rests.    *)
(*                                                                         *)
(* The controller is level-triggered: a reconcile is told a name and works *)
(* from what the caches say.  That nothing is left half-way follows from   *)
(* an invariant about who still has to look: as long as a Module is not in *)
(* line with what it asks for, its name is queued, an event that will      *)
(* queue it is under way, or a reconcile is at a point from which it gets  *)
(* it right or fails with an error that is retried.                        *)
(***************************************************************************)
EXTENDS ModuleControllerProofs

(* Copy c tells the same of a Module as m does, but for status and finalizer. *)
Abreast(c, m) ==
  /\ c = None <=> m = None
  /\ m # None => c.inc = m.inc /\ c.gen = m.gen /\ c.spec = m.spec /\ c.deleting = m.deleting

Labelled(x) == x # None /\ x.labelled

(* A cache is behind only where an event is under way, or where it does not
   matter to a Module: nobody is told of an object without labels. *)
CachesFresh ==
  /\ \A n \in Names : n \in modPend \/ Abreast(modCache[n], mods[n])
  /\ \A t \in Templates : t \in tplPend \/ tplCache[t] = tpl[t]
  /\ \A o \in Releases : \/ o \in relPend \/ relCache[o] = rel[o]
                         \/ ~Labelled(relCache[o]) /\ ~Labelled(rel[o])

(* Module n will be reconciled anew. *)
Awaited(n) ==
  \/ n \in queue \/ n \in modPend
  \/ mods[n] # None /\ mods[n].spec.template \in tplPend

(* Module n asks for a Flux object, and has it. *)
Due(n) == mods[n] # None /\ ~mods[n].deleting /\ TemplateOf(n) # None

InOrder(n) ==
  /\ rel[TargetOf(n)] # None
  /\ rel[TargetOf(n)].owner = UidOf(n)
  /\ rel[TargetOf(n)].content = WantedContent(mods[n], TemplateOf(n))
  /\ rel[TargetOf(n)].labelled

(* The reconcile of Module n still comes to the Flux object, or failed at it
   and is retried. *)
Busy(n) ==
  /\ run # None /\ run.name = n
  /\ \/ run.phase \in {"guard", "template", "sync"}
     \/ run.phase = "failed" /\ run.error = "ReconcileError"

Quiet(n) == Due(n) => Awaited(n) \/ InOrder(n) \/ TargetOf(n) \in relPend

Converging == \A n \in Names : Quiet(n) \/ Busy(n)

(* A reconcile that comes to the Flux object works from what is stored, or
   another one follows. *)
RunFresh ==
  run # None /\ run.phase \in {"template", "sync"} =>
    \/ Awaited(run.name)
    \/ /\ Abreast(run.m, mods[run.name])
       /\ run.phase = "sync" => run.t = TemplateOf(run.name)

Conv == CachesFresh /\ RunFresh /\ Converging
-----------------------------------------------------------------------------
(* What a step that takes nothing from the queue does to all this. *)

Steady(n) ==
  /\ mods[n] # None /\ Abreast(mods[n], mods'[n]) /\ TemplateOf(n)' = TemplateOf(n)

(* A change of a labelled Flux object, or of its copy, is heard. *)
Heard ==
  /\ \A o \in Releases : rel'[o] = rel[o] \/ ~Labelled(rel[o]) \/ o \in relPend' \/ o[3] \in queue'
  /\ \A o \in relPend : o \in relPend' \/ o[3] \in queue'

(* A change of a Module is heard. *)
Announced == \A n \in Names : mods'[n] = mods[n] \/ n \in queue' \/ n \in modPend'

Kept ==
  /\ CachesFresh'
  /\ \A n \in Names : Quiet(n) => Quiet(n)'
  /\ \A n \in Names : mods'[n] # None => Awaited(n)' \/ (~Awaited(n) /\ Steady(n))
  /\ Heard

LEMMA StateTypes ==
  ASSUME Typed
  PROVE  /\ mods \in [Names -> ModuleRecords \cup {None}] /\ modCache \in [Names -> ModuleRecords \cup {None}]
         /\ tpl \in [Templates -> TemplateRecords \cup {None}]
         /\ rel \in [Releases -> ReleaseRecords \cup {None}]
         /\ relCache \in [Releases -> ReleaseRecords \cup {None}]
         /\ queue \in SUBSET Names /\ modPend \in SUBSET Names
BY DEF Typed, ClusterTypeOK

(* The Flux object that Module n asks for. *)
LEMMA TargetOfType ==
  ASSUME Typed, NEW n \in Names, mods[n] # None
  PROVE  /\ mods[n].spec \in SpecRecords /\ mods[n].spec.template \in Templates
         /\ TemplateOf(n) \in TemplateRecords \cup {None}
         /\ TemplateOf(n) # None => TargetOf(n) \in Releases /\ TargetOf(n)[3] = n
<1>1. mods[n] \in ModuleRecords /\ mods[n].spec \in SpecRecords
  BY StateTypes, ModuleUpdates
<1>2. mods[n].spec.template \in Templates /\ mods[n].spec.namespace \in Namespaces \cup {None}
  BY <1>1 DEF SpecRecords
<1>3. TemplateOf(n) \in TemplateRecords \cup {None}
  BY <1>2, StateTypes DEF TemplateOf
<1>4. ASSUME TemplateOf(n) # None PROVE TargetOf(n) \in Releases /\ TargetOf(n)[3] = n
  <2>1. TemplateOf(n).type \in FluxKinds /\ TargetNamespace(mods[n], TemplateOf(n)) \in Namespaces
    BY <1>2, <1>3, <1>4 DEF TemplateRecords, TargetNamespace
  <2> QED BY <2>1 DEF TargetOf, Wanted, Releases
<1> QED BY <1>1, <1>2, <1>3, <1>4

(* Whoever is steady asks for what it asked for. *)
LEMMA SteadyTarget ==
  ASSUME NEW n, mods'[n] # None, Steady(n)
  PROVE  /\ Due(n)' <=> Due(n)
         /\ TargetOf(n)' = TargetOf(n) /\ UidOf(n)' = UidOf(n)
         /\ WantedContent(mods[n], TemplateOf(n))' = WantedContent(mods[n], TemplateOf(n))
         /\ mods'[n].spec = mods[n].spec
BY DEF Steady, Abreast, Due, TargetOf, Wanted, TargetNamespace, UidOf, WantedContent

LEMMA KeptByModule ==
  ASSUME Typed, CachesFresh, NEW n \in Names, NEW m \in ModuleRecords \cup {None},
         NEW q \in SUBSET Names, queue \subseteq q,
         StoreModule(n, m, q), UNCHANGED <<tplVars, relVars>>,
         PassesPredicate(mods[n], m) \/ Abreast(mods[n], m)
  PROVE  Kept
<1> DEFINE passes == PassesPredicate(mods[n], m)
<1> HIDE DEF passes
<1>1. /\ mods'[n] = m /\ \A k \in Names : k # n => mods'[k] = mods[k] /\ modCache'[k] = modCache[k]
      /\ modPend \subseteq modPend' /\ queue \subseteq queue'
      /\ passes => n \in modPend' \/ n \in queue'
      /\ \/ "module" \notin Lagging /\ modCache'[n] = m
         \/ "module" \in Lagging /\ modCache'[n] = modCache[n] /\ (passes => n \in modPend')
  BY StateTypes DEF StoreModule, passes
<1>2. UNCHANGED <<tpl, tplCache, tplPend, rel, relCache, relPend>>
  BY DEF tplVars, relVars
<1>3. passes \/ Abreast(mods[n], m)
  BY DEF passes
<1>4. CachesFresh'
  <2>1. \A k \in Names : k \in modPend' \/ Abreast(modCache'[k], mods'[k])
    BY <1>1, <1>3 DEF CachesFresh, Abreast
  <2> QED BY <1>2, <2>1 DEF CachesFresh
<1>5. ASSUME NEW k \in Names, mods'[k] # None PROVE Awaited(k)' \/ (~Awaited(k) /\ Steady(k))
  BY <1>1, <1>2, <1>3, <1>5 DEF Awaited, Steady, Abreast, TemplateOf
<1>6. ASSUME NEW k \in Names, Quiet(k) PROVE Quiet(k)'
  BY <1>2, <1>5, <1>6, SteadyTarget DEF Quiet, InOrder, Due
<1>7. Heard
  BY <1>1, <1>2 DEF Heard
<1> QED BY <1>4, <1>5, <1>6, <1>7 DEF Kept

LEMMA KeptByRelease ==
  ASSUME Typed, CachesFresh, NEW o \in Releases, NEW x \in ReleaseRecords \cup {None},
         NEW q \in SUBSET Names, queue \subseteq q,
         StoreRelease(o, x, q), UNCHANGED <<modVars, tplVars>>
  PROVE  Kept
<1> DEFINE wakes == x # rel[o] /\ Wakes(rel[o], x)
<1>0. wakes <=> x # rel[o] /\ (Labelled(x) \/ Labelled(rel[o]))
  BY DEF wakes, Wakes, Labelled
<1> DEFINE woken == IF wakes THEN {o} ELSE {}
<1>a. /\ rel' = [rel EXCEPT ![o] = x]
      /\ relCache' = IF "release" \notin Lagging THEN rel' ELSE relCache
      /\ relPend' = IF "release" \notin Lagging THEN relPend ELSE relPend \cup woken
      /\ queue' = IF "release" \notin Lagging THEN q \cup {p[3] : p \in woken} ELSE q
  BY DEF StoreRelease
<1>b. (wakes => o \in woken) /\ (o \in woken => o[3] \in {p[3] : p \in woken})
  OBVIOUS
<1> HIDE DEF wakes, woken
<1>1. /\ rel'[o] = x /\ \A p \in Releases : p # o => rel'[p] = rel[p]
      /\ relPend \subseteq relPend' /\ queue \subseteq queue'
      /\ wakes => o \in relPend' \/ o[3] \in queue'
      /\ \/ "release" \notin Lagging /\ relCache' = rel'
         \/ "release" \in Lagging /\ relCache' = relCache /\ (wakes => o \in relPend')
  BY <1>a, <1>b, StateTypes
<1>2. UNCHANGED <<mods, modCache, modPend, tpl, tplCache, tplPend>>
  BY DEF tplVars, modVars
<1>4. CachesFresh'
  <2>1. ASSUME NEW p \in Releases
        PROVE  \/ p \in relPend' \/ relCache'[p] = rel'[p]
               \/ ~Labelled(relCache'[p]) /\ ~Labelled(rel'[p])
    BY <1>0, <1>1 DEF CachesFresh
  <2> QED BY <1>2, <2>1 DEF CachesFresh, Abreast
<1>5. ASSUME NEW k \in Names, mods'[k] # None PROVE Awaited(k)' \/ (~Awaited(k) /\ Steady(k))
  BY <1>1, <1>2, <1>5 DEF Awaited, Steady, Abreast, TemplateOf
<1>6. ASSUME NEW k \in Names, Quiet(k) PROVE Quiet(k)'
  <2>1. SUFFICES ASSUME Due(k)', ~Awaited(k)' PROVE InOrder(k)' \/ (TargetOf(k) \in relPend)'
    BY DEF Quiet
  <2>2. Steady(k) /\ ~Awaited(k) /\ mods'[k] # None
    BY <1>5, <2>1 DEF Due
  <2>3. Due(k) /\ TargetOf(k)' = TargetOf(k)
    BY <2>1, <2>2, SteadyTarget
  <2>4. TargetOf(k) \in Releases /\ TargetOf(k)[3] = k
    BY <2>3, TargetOfType DEF Due
  <2>5. CASE TargetOf(k) \in relPend
    BY <1>1, <2>3, <2>5
  <2>6. CASE InOrder(k) /\ rel'[TargetOf(k)] = rel[TargetOf(k)]
    BY <2>2, <2>3, <2>6, SteadyTarget DEF InOrder
  <2>7. CASE InOrder(k) /\ rel'[TargetOf(k)] # rel[TargetOf(k)]
    <3>1. o = TargetOf(k) /\ wakes
      BY <1>0, <1>1, <2>4, <2>7 DEF InOrder, Labelled
    <3> QED BY <1>1, <2>1, <2>3, <2>4, <3>1 DEF Awaited
  <2> QED BY <1>6, <2>2, <2>3, <2>5, <2>6, <2>7 DEF Quiet
<1>7. Heard
  BY <1>0, <1>1, StateTypes DEF Heard
<1> QED BY <1>4, <1>5, <1>6, <1>7 DEF Kept

LEMMA KeptByTemplate ==
  ASSUME Typed, CachesFresh, NEW t \in Templates, NEW x \in TemplateRecords \cup {None},
         StoreTemplate(t, x), UNCHANGED <<modVars, relVars>>
  PROVE  Kept
<1>1. /\ tpl'[t] = x /\ \A u \in Templates : u # t => tpl'[u] = tpl[u]
      /\ tplPend \subseteq tplPend' /\ queue \subseteq queue'
      /\ t \in tplPend' \/ Referencing(t) \subseteq queue'
      /\ t \in tplPend' \/ tplCache' = tpl'
      /\ tplCache' = tpl' \/ tplCache' = tplCache
  <2>1. /\ tpl' = [tpl EXCEPT ![t] = x]
        /\ tplCache' = IF "template" \notin Lagging THEN tpl' ELSE tplCache
        /\ tplPend' = IF "template" \notin Lagging THEN tplPend ELSE tplPend \cup {t}
        /\ queue' = IF "template" \notin Lagging THEN queue \cup Referencing(t) ELSE queue
    BY DEF StoreTemplate
  <2> QED BY <2>1, StateTypes
<1>2. UNCHANGED <<mods, modCache, modPend, rel, relCache, relPend>>
  BY DEF modVars, relVars
<1>3. CachesFresh'
  <2>1. \A u \in Templates : u \in tplPend' \/ tplCache'[u] = tpl'[u]
    BY <1>1 DEF CachesFresh
  <2> QED BY <1>2, <2>1 DEF CachesFresh, Abreast
<1>4. ASSUME NEW k \in Names, mods'[k] # None PROVE Awaited(k)' \/ (~Awaited(k) /\ Steady(k))
  <2>1. mods[k] # None /\ mods[k].spec.template \in Templates
    BY <1>2, <1>4, TargetOfType
  <2>2. CASE mods[k].spec.template = t
    <3>1. k \in modPend \/ k \in Referencing(t)
      BY <2>1, <2>2 DEF CachesFresh, Abreast, Referencing
    <3> QED BY <1>1, <1>2, <2>1, <2>2, <3>1 DEF Awaited
  <2>3. CASE mods[k].spec.template # t
    BY <1>1, <1>2, <2>1, <2>3 DEF Awaited, Steady, Abreast, TemplateOf
  <2> QED BY <2>2, <2>3
<1>5. ASSUME NEW k \in Names, Quiet(k) PROVE Quiet(k)'
  BY <1>2, <1>4, <1>5, SteadyTarget DEF Quiet, InOrder, Due
<1>6. Heard
  BY <1>1, <1>2 DEF Heard
<1> QED BY <1>3, <1>4, <1>5, <1>6 DEF Kept

(* The caches move, and what is stored stays. *)
LEMMA KeptByDelivery ==
  ASSUME Typed, CachesFresh, UNCHANGED <<mods, tpl, rel>>, queue \subseteq queue',
         \A n \in Names : \/ modCache'[n] = modCache[n] /\ (n \in modPend => n \in modPend')
                          \/ modCache'[n] = mods[n] /\ (n \in modPend => n \in queue'),
         \A t \in Templates :
           \/ tplCache'[t] = tplCache[t] /\ (t \in tplPend => t \in tplPend')
           \/ tplCache'[t] = tpl[t] /\ Referencing(t) \subseteq queue' /\ UNCHANGED <<modCache, modPend>>,
         \A o \in Releases : \/ relCache'[o] = relCache[o] /\ (o \in relPend => o \in relPend')
                             \/ relCache'[o] = rel[o] /\ (o \in relPend => o[3] \in queue')
  PROVE  Kept
<1>1. CachesFresh'
  BY DEF CachesFresh, Abreast
<1>2. ASSUME NEW k \in Names, mods'[k] # None PROVE Awaited(k)' \/ (~Awaited(k) /\ Steady(k))
  <2>1. mods[k] # None /\ mods[k].spec.template \in Templates
    BY <1>2, TargetOfType
  <2> DEFINE t == mods[k].spec.template
  <2>2. Steady(k)
    BY <2>1 DEF Steady, Abreast, TemplateOf
  <2>3. CASE t \in tplPend /\ t \notin tplPend'
    <3>1. Referencing(t) \subseteq queue' /\ UNCHANGED <<modCache, modPend>>
      BY <2>1, <2>3
    <3>2. k \in modPend \/ k \in Referencing(t)
      BY <2>1 DEF CachesFresh, Abreast, Referencing
    <3> QED BY <3>1, <3>2 DEF Awaited
  <2>4. CASE t \in tplPend => t \in tplPend'
    BY <2>1, <2>2, <2>4 DEF Awaited
  <2> QED BY <2>3, <2>4
<1>3. ASSUME NEW k \in Names, Quiet(k) PROVE Quiet(k)'
  <2>1. SUFFICES ASSUME Due(k)', ~Awaited(k)' PROVE InOrder(k)' \/ (TargetOf(k) \in relPend)'
    BY DEF Quiet
  <2>2. Steady(k) /\ ~Awaited(k) /\ mods'[k] # None
    BY <1>2, <2>1 DEF Due
  <2>3. Due(k) /\ TargetOf(k)' = TargetOf(k)
    BY <2>1, <2>2, SteadyTarget
  <2>4. TargetOf(k) \in Releases /\ TargetOf(k)[3] = k
    BY <2>3, TargetOfType DEF Due
  <2>5. CASE TargetOf(k) \in relPend
    BY <2>1, <2>3, <2>4, <2>5 DEF Awaited
  <2>6. CASE InOrder(k)
    BY <2>2, <2>3, <2>6, SteadyTarget DEF InOrder
  <2> QED BY <1>3, <2>2, <2>3, <2>5, <2>6 DEF Quiet
<1>4. Heard
  BY StateTypes DEF Heard, Typed, ClusterTypeOK
<1> QED BY <1>1, <1>2, <1>3, <1>4 DEF Kept

LEMMA KeptByNothing ==
  ASSUME Typed, CachesFresh, UNCHANGED <<modVars, tplVars, relVars>>, queue \subseteq queue'
  PROVE  Kept
BY KeptByDelivery DEF modVars, tplVars, relVars
-----------------------------------------------------------------------------
(* The steps, by what they do to the reconcile in progress. *)

LEMMA AbreastOfSteady ==
  ASSUME NEW c, NEW n, Abreast(c, mods[n]), Steady(n)
  PROVE  Abreast(c, mods'[n])
BY DEF Abreast, Steady

(* The reconcile does not move. *)
LEMMA ConvUnmoved ==
  ASSUME Inv, Inv', Conv, Kept, run' = run
  PROVE  Conv'
<1>1. CachesFresh'
  BY DEF Kept
<1>2. Converging'
  BY DEF Conv, Converging, Kept, Busy
<1>3. RunFresh'
  <2> SUFFICES ASSUME run # None, run.phase \in {"template", "sync"}, ~Awaited(run.name)'
               PROVE  /\ Abreast(run.m, mods'[run.name])
                      /\ run.phase = "sync" => run.t = TemplateOf(run.name)'
    BY DEF RunFresh
  <2>1. run.name \in Names /\ mods'[run.name] # None
    BY RunTypes DEF Inv, Typed, Copies, WorkingInv, Working
  <2>2. ~Awaited(run.name) /\ Steady(run.name)
    BY <2>1 DEF Kept
  <2> QED BY <2>2, AbreastOfSteady DEF Conv, RunFresh, Steady
<1> QED BY <1>1, <1>2, <1>3 DEF Conv

(* The reconcile ends; if it has not got far enough, another one follows. *)
LEMMA ConvEnded ==
  ASSUME Conv, Kept, run' = None, run # None, Busy(run.name) => run.name \in queue'
  PROVE  Conv'
<1>1. CachesFresh' /\ RunFresh'
  BY DEF Kept, RunFresh
<1>2. ASSUME NEW n \in Names PROVE Quiet(n)'
  <2>1. CASE Quiet(n)
    BY <2>1 DEF Kept
  <2>2. CASE Busy(n)
    <3>1. Awaited(n)'
      BY <2>2 DEF Awaited, Busy
    <3> QED BY <3>1 DEF Quiet
  <2> QED BY <2>1, <2>2 DEF Conv, Converging
<1> QED BY <1>1, <1>2 DEF Conv, Converging

(* The reconcile goes on, not to the template. *)
LEMMA ConvMoved ==
  ASSUME Conv, Kept, run # None, run' # None, NEW n, n = run.name, run'.name = n,
         run'.phase \notin {"template", "sync"}, Busy(n) => Busy(n)' \/ Quiet(n)'
  PROVE  Conv'
<1>1. CachesFresh' /\ RunFresh'
  BY DEF Kept, RunFresh
<1>2. ASSUME NEW k \in Names PROVE Quiet(k)' \/ Busy(k)'
  <2>1. CASE Quiet(k)
    BY <2>1 DEF Kept
  <2>2. CASE Busy(k)
    BY <2>2 DEF Busy
  <2> QED BY <2>1, <2>2 DEF Conv, Converging
<1> QED BY <1>1, <1>2 DEF Conv, Converging

LEMMA ConvFetched ==
  ASSUME Inv, Conv, NEW n \in Names, FetchNothing(n) \/ Fetch(n)
  PROVE  Conv'
<1>1. /\ run = None /\ queue' = queue \ {n}
      /\ UNCHANGED <<mods, modCache, modPend, tpl, tplCache, tplPend, rel, relCache, relPend>>
  BY DEF FetchNothing, Fetch, modVars, tplVars, relVars
<1>2. CachesFresh'
  BY <1>1 DEF Conv, CachesFresh, Abreast
<1>3. ASSUME NEW k \in Names, k # n PROVE Quiet(k)'
  <2>1. Quiet(k) /\ (Awaited(k)' <=> Awaited(k)) /\ TargetOf(k)' = TargetOf(k)
    BY <1>1, <1>3 DEF Conv, Converging, Busy, Awaited, TargetOf, Wanted, TargetNamespace, TemplateOf
  <2> QED BY <1>1, <2>1 DEF Quiet, Due, InOrder, TemplateOf, UidOf, WantedContent
<1>4. CASE FetchNothing(n)
  <2>1. run' = None /\ ~ToReconcile(modCache[n])
    BY <1>1, <1>4 DEF FetchNothing
  <2>2. Due(n) => n \in modPend
    BY <2>1 DEF Due, Conv, CachesFresh, Abreast, ToReconcile
  <2>3. Quiet(n)'
    BY <1>1, <2>2 DEF Quiet, Due, Awaited, TemplateOf
  <2> QED BY <1>2, <1>3, <2>1, <2>3 DEF Conv, Converging, RunFresh
<1>5. CASE Fetch(n)
  <2>1. /\ run' # None /\ run'.name = n /\ run'.m = modCache[n]
        /\ run'.phase = FirstPhase(modCache[n])
    <3>1. run' = [ name |-> n, m |-> modCache[n], phase |-> FirstPhase(modCache[n]),
                   t |-> None, error |-> "", namespace |-> None, todo |-> {} ]
      BY <1>5 DEF Fetch
    <3>2. modCache[n] \in ModuleRecords
      BY <1>5, StateTypes DEF Inv, Fetch, ToReconcile
    <3>3. FirstPhase(modCache[n]) \in Phases
      BY DEF FirstPhase, Phases
    <3>4. run' \in Runs
      BY <3>1, <3>2, <3>3 DEF Runs
    <3> QED BY <3>1, <3>4, RunsAssumption
  <2>2. n \in modPend \/ Abreast(modCache[n], mods[n])
    BY DEF Conv, CachesFresh
  <2>3. Quiet(n)' \/ Busy(n)'
    BY <1>1, <2>1, <2>2 DEF Quiet, Due, Awaited, TemplateOf, Busy, Abreast, FirstPhase
  <2>4. RunFresh'
    BY <1>1, <2>1, <2>2 DEF RunFresh, Awaited, FirstPhase, Abreast
  <2> QED BY <1>2, <1>3, <2>3, <2>4 DEF Conv, Converging
<1> QED BY <1>4, <1>5

(* The worker's writes of a Module leave it abreast, or take it away. *)
LEMMA AbreastPatches ==
  ASSUME Typed, run # None, mods[run.name] # None
  PROVE  /\ Abreast(mods[run.name], Guarded(run.name))
         /\ \A s \in StatusRecords : Abreast(mods[run.name], Patched(s))
         /\ PassesPredicate(mods[run.name], Released(run.name))
              \/ Abreast(mods[run.name], Released(run.name))
<1>1. run.name \in Names
  BY RunTypes DEF Typed
<1>2. mods[run.name] \in ModuleRecords
  BY <1>1, StateTypes
<1>3. Guarded(run.name) # None /\ \A s \in StatusRecords : Patched(s) # None
  BY PatchValues, NoneApart
<1>4. /\ Guarded(run.name).inc = mods[run.name].inc /\ Guarded(run.name).spec = mods[run.name].spec
      /\ Guarded(run.name).deleting = mods[run.name].deleting /\ Guarded(run.name).gen = mods[run.name].gen
  BY <1>2 DEF Guarded, ModuleRecords
<1>5. ASSUME NEW s \in StatusRecords
      PROVE  /\ Patched(s).inc = mods[run.name].inc /\ Patched(s).spec = mods[run.name].spec
             /\ Patched(s).deleting = mods[run.name].deleting /\ Patched(s).gen = mods[run.name].gen
  BY <1>2 DEF Patched, ModuleRecords
<1>6. PassesPredicate(mods[run.name], Released(run.name)) \/ Abreast(mods[run.name], Released(run.name))
  <2>1. CASE mods[run.name].deleting
    BY <2>1 DEF Released, PassesPredicate
  <2>2. CASE ~mods[run.name].deleting
    <3>1. Released(run.name) = [mods[run.name] EXCEPT !.finalizer = FALSE]
      BY <2>2 DEF Released
    <3>2. /\ Released(run.name).inc = mods[run.name].inc /\ Released(run.name).spec = mods[run.name].spec
          /\ Released(run.name).deleting = mods[run.name].deleting
          /\ Released(run.name).gen = mods[run.name].gen
      BY <1>2, <3>1 DEF ModuleRecords
    <3>3. \A m \in ModuleRecords : [m EXCEPT !.finalizer = FALSE] # None
      BY ModuleUpdates, NoneApart
    <3>4. Released(run.name) # None
      BY <1>2, <3>1, <3>3
    <3> QED BY <3>2, <3>4 DEF Abreast
  <2> QED BY <2>1, <2>2
<1> QED BY <1>3, <1>4, <1>5, <1>6 DEF Abreast

(* A patch that is refused or fails is tried again. *)
LEMMA ConvPatchFailed ==
  ASSUME Inv, Conv, run # None, NEW m, PatchFails(run.name, m),
         mods[run.name] # None => /\ m \in ModuleRecords \cup {None}
                                  /\ PassesPredicate(mods[run.name], m) \/ Abreast(mods[run.name], m)
  PROVE  Kept /\ Conv'
<1>1. run.name \in Names /\ Again \in SUBSET Names /\ queue \subseteq Again /\ run.name \in Again
  BY RunTypes DEF Inv, Typed, ClusterTypeOK, Again
<1>2. run' = None /\ UNCHANGED <<tplVars, relVars>>
  BY DEF PatchFails
<1>3. CASE mods[run.name] = None
  <2>1. queue' = Again /\ UNCHANGED modVars
    BY <1>3 DEF PatchFails
  <2>2. Kept
    BY <1>1, <1>2, <2>1, KeptByNothing DEF Inv, Conv
  <2> QED BY <1>1, <1>2, <2>1, <2>2, ConvEnded
<1>4. CASE mods[run.name] # None
  <2>1. PICK x \in {mods[run.name], m} : StoreModule(run.name, x, Again)
    BY <1>4 DEF PatchFails
  <2>2. x \in ModuleRecords \cup {None}
    BY <1>1, <1>4, <2>1, StateTypes DEF Inv
  <2>3. PassesPredicate(mods[run.name], x) \/ Abreast(mods[run.name], x)
    BY <1>4, <2>1 DEF Abreast
  <2>4. Kept
    BY <1>1, <1>2, <2>1, <2>2, <2>3, KeptByModule DEF Inv, Conv
  <2>5. run.name \in queue'
    BY <1>1, <2>1 DEF StoreModule
  <2> QED BY <1>2, <2>4, <2>5, ConvEnded
<1> QED BY <1>3, <1>4

LEMMA ConvFinalizer ==
  ASSUME Inv, Conv,
         AddFinalizer \/ AddFinalizerFails \/ RemoveFinalizer \/ RemoveFinalizerFails
  PROVE  Kept /\ Conv'
<1>1. run # None /\ run \in Runs /\ run.name \in Names /\ queue \in SUBSET Names
  BY RunTypes DEF Inv, Typed, ClusterTypeOK, AddFinalizer, AddFinalizerFails, RemoveFinalizer,
     RemoveFinalizerFails, At
<1>2. CASE AddFinalizer
  <2>1. /\ mods[run.name] # None /\ StoreModule(run.name, Guarded(run.name), queue)
        /\ UNCHANGED <<tplVars, relVars>>
    BY <1>2 DEF AddFinalizer
  <2>2. Guarded(run.name) \in ModuleRecords /\ Abreast(mods[run.name], Guarded(run.name))
    BY <1>1, <2>1, PatchValues, AbreastPatches DEF Inv
  <2>3. Kept
    BY <1>1, <2>1, <2>2, KeptByModule DEF Inv, Conv
  <2>4. mods'[run.name] = Guarded(run.name)
    BY <1>1, <2>1, <2>2, ModuleStored, StateTypes DEF Inv
  <2>5. run'.name = run.name /\ run'.m = Guarded(run.name) /\ run'.phase = "template"
    BY <1>1, <1>2 DEF AddFinalizer, Runs
  <2>6. run' \in Runs
    BY <1>1, <1>2, <2>2, RunSteps DEF AddFinalizer, Inv, RunWellFormed
  <2>7. RunFresh'
    BY <2>4, <2>5 DEF RunFresh, Abreast
  <2>8. ASSUME NEW n \in Names PROVE Quiet(n)' \/ Busy(n)'
    <3>1. CASE n = run.name
      BY <2>5, <2>6, <3>1, RunsAssumption DEF Busy
    <3>2. CASE n # run.name
      BY <2>3, <3>2 DEF Kept, Conv, Converging, Busy
    <3> QED BY <3>1, <3>2
  <2> QED BY <2>3, <2>7, <2>8 DEF Conv, Kept, Converging
<1>3. CASE AddFinalizerFails
  BY <1>1, <1>3, PatchValues, AbreastPatches, ConvPatchFailed DEF AddFinalizerFails, Inv
<1>4. CASE RemoveFinalizer
  <2>1. Released(run.name) \in ModuleRecords \cup {None}
    BY <1>1, <1>4, PatchValues DEF RemoveFinalizer, Inv
  <2>2. Kept
    BY <1>1, <1>4, <2>1, AbreastPatches, KeptByModule DEF RemoveFinalizer, Inv, Conv
  <2> QED BY <1>1, <1>4, <2>2, ConvEnded DEF RemoveFinalizer, At, Busy
<1>5. CASE RemoveFinalizerFails
  BY <1>1, <1>5, PatchValues, AbreastPatches, ConvPatchFailed DEF RemoveFinalizerFails, Inv
<1> QED BY <1>2, <1>3, <1>4, <1>5

LEMMA ConvStatus ==
  ASSUME Inv, Conv, StatusUnchanged \/ StatusPatch \/ StatusFails \/ ReportError \/ ReportLost
  PROVE  Kept /\ Conv'
<1>1. run # None /\ run \in Runs /\ run.name \in Names /\ run.m \in ModuleRecords
      /\ (run.phase = "status" => run.t # None)
  BY RunTypes DEF Inv, Typed, RunWellFormed, WellFormed,
     StatusUnchanged, StatusPatch, StatusFails, ReportError, ReportLost, At
<1>2. /\ EventQueue \in SUBSET Names /\ queue \subseteq EventQueue
      /\ Requeued \in SUBSET Names /\ queue \subseteq Requeued
  BY <1>1, StateTypes DEF EventQueue, Requeued, Again, Inv
<1>3. CASE StatusUnchanged
  <2>1. Kept
    BY <1>3, KeptByNothing DEF StatusUnchanged, Inv, Conv
  <2> QED BY <1>1, <1>3, <2>1, ConvEnded DEF StatusUnchanged, At, Busy
<1>4. At("status") => NewStatus \in StatusRecords
  BY <1>1, TargetTypes DEF Inv, At
<1>5. CASE StatusPatch
  <2>1. Patched(NewStatus) \in ModuleRecords /\ Abreast(mods[run.name], Patched(NewStatus))
    BY <1>1, <1>4, <1>5, PatchValues, AbreastPatches DEF StatusPatch, Inv
  <2>2. Kept
    BY <1>1, <1>2, <1>5, <2>1, KeptByModule DEF StatusPatch, Inv, Conv
  <2> QED BY <1>1, <1>5, <2>2, ConvEnded DEF StatusPatch, At, Busy
<1>6. CASE StatusFails
  BY <1>1, <1>4, <1>6, PatchValues, AbreastPatches, ConvPatchFailed DEF StatusFails, Inv
<1>7. At("failed") /\ Busy(run.name) => run.name \in Requeued
  BY DEF At, Busy, Requeued, Again
<1>8. CASE ReportError
  <2>1. run' = None /\ At("failed")
    BY <1>8 DEF ReportError
  <2>2. CASE mods[run.name] = None
    <3>1. queue' = Requeued /\ Kept
      BY <1>2, <1>8, <2>2, KeptByNothing DEF ReportError, Inv, Conv
    <3> QED BY <1>1, <1>7, <2>1, <3>1, ConvEnded
  <2>3. CASE mods[run.name] # None
    <3>1. NotReady(run.m, run.error) \in StatusRecords
      BY <1>1, RunTypes, StatusValues
    <3> DEFINE m == Patched(NotReady(run.m, run.error))
    <3>2. m \in ModuleRecords /\ Abreast(mods[run.name], m)
      BY <1>1, <2>3, <3>1, PatchValues, AbreastPatches DEF Inv
    <3> HIDE DEF m
    <3>3. StoreModule(run.name, m, Requeued) /\ UNCHANGED <<tplVars, relVars>>
      BY <1>8, <2>3 DEF ReportError, m
    <3>4. Kept
      BY <1>1, <1>2, <3>2, <3>3, KeptByModule DEF Inv, Conv
    <3>5. Requeued \subseteq queue'
      BY <3>3 DEF StoreModule
    <3> QED BY <1>1, <1>7, <2>1, <3>4, <3>5, ConvEnded
  <2> QED BY <2>2, <2>3
<1>9. CASE ReportLost
  <2>1. queue' = Requeued /\ Kept
    BY <1>2, <1>9, KeptByNothing DEF ReportLost, Inv, Conv
  <2> QED BY <1>1, <1>7, <1>9, <2>1, ConvEnded DEF ReportLost
<1> QED BY <1>3, <1>5, <1>6, <1>8, <1>9

LEMMA ConvTemplate ==
  ASSUME Inv, Conv, ReadTemplate
  PROVE  Kept /\ Conv'
<1>1. run # None /\ run \in Runs /\ run.name \in Names /\ run.phase = "template" /\ run.m \in ModuleRecords
  BY RunTypes DEF Inv, Typed, ReadTemplate, At
<1>2. UNCHANGED <<mods, modPend, tpl, tplPend, rel, relPend, queue>> /\ Kept
  BY KeptByNothing DEF ReadTemplate, Inv, Conv, modVars, tplVars, relVars
<1>n. PICK n \in Names : n = run.name
  BY <1>1
<1> DEFINE t == tplCache[run.m.spec.template]
<1>3. mods[n] # None /\ run.m.spec.template \in Templates
  BY <1>1, <1>n DEF Inv, Copies, WorkingInv, Working, ModuleRecords, SpecRecords
(* Nothing newer is under way: then this is the template. *)
<1>4. ASSUME ~Awaited(n) PROVE t = TemplateOf(n) /\ Abreast(run.m, mods[n])
  <2>1. Abreast(run.m, mods[n]) /\ mods[n].spec.template \notin tplPend
    BY <1>1, <1>n, <1>3, <1>4 DEF Conv, RunFresh, Awaited
  <2> QED BY <1>3, <2>1 DEF Conv, CachesFresh, Abreast, TemplateOf
<1>5. CASE t = None
  <2>1. Fail("TemplateNotFound")
    BY <1>5 DEF ReadTemplate
  <2>2. run' \in Runs /\ run'.name = n /\ run'.phase = "failed"
    BY <1>1, <1>n, <2>1, RunSteps DEF Fail, Runs, Inv, RunWellFormed
  <2>3. Quiet(n)
    BY <1>4, <1>5 DEF Quiet, Due
  <2>4. Quiet(n)'
    BY <1>2, <2>3 DEF Kept
  <2> QED BY <1>1, <1>n, <1>2, <2>2, <2>4, ConvMoved, RunsAssumption
<1>6. CASE t # None
  <2>1. run' = [run EXCEPT !.t = t, !.phase = "sync"]
    BY <1>6 DEF ReadTemplate
  <2>2. t \in TemplateRecords
    BY <1>3, <1>6 DEF Inv, Typed, ClusterTypeOK
  <2> HIDE DEF t
  <2>3. run' \in Runs /\ run'.name = n /\ run'.phase = "sync" /\ run'.t = t /\ run'.m = run.m
    BY <1>1, <1>n, <2>1, <2>2, RunSteps DEF Runs, Inv, RunWellFormed
  <2>4. RunFresh'
    BY <1>2, <1>4, <2>3 DEF RunFresh, Awaited, TemplateOf
  <2>5. ASSUME NEW k \in Names PROVE Quiet(k)' \/ Busy(k)'
    BY <1>n, <1>2, <2>3, <2>5, RunsAssumption DEF Busy, Kept, Conv, Converging
  <2> QED BY <1>2, <2>4, <2>5 DEF Conv, Kept, Converging
<1> QED BY <1>5, <1>6

(* What a sync writes or finds is what its Module asks for now, unless
   something newer is under way. *)
LEMMA SentInOrder ==
  ASSUME Inv, Conv, At("sync"), ~Awaited(run.name)
  PROVE  /\ mods[run.name] # None /\ Target = TargetOf(run.name)
         /\ Sent.owner = UidOf(run.name) /\ Sent.labelled
         /\ Sent.content = WantedContent(mods[run.name], TemplateOf(run.name))
<1>1. run # None /\ run \in Runs /\ run.t # None /\ mods[run.name] # None
  BY DEF At, Inv, Typed, RunWellFormed, WellFormed, Copies, WorkingInv, Working
<1>2. Abreast(run.m, mods[run.name]) /\ run.t = TemplateOf(run.name)
  BY DEF Conv, RunFresh, At
<1>3. run.m.inc = mods[run.name].inc /\ run.m.spec = mods[run.name].spec
  BY <1>1, <1>2 DEF Abreast
<1>4. Target = TargetOf(run.name) /\ RunUid = UidOf(run.name)
      /\ WantedContent(run.m, run.t) = WantedContent(mods[run.name], TemplateOf(run.name))
  BY <1>2, <1>3 DEF Target, TargetOf, Wanted, TargetNamespace, RunUid, UidOf, WantedContent
<1>5. Seen \in ReleaseRecords \cup {None} /\ Sent.owner = RunUid
  BY <1>1, TargetTypes DEF Inv
<1>6. Sent.content = WantedContent(run.m, run.t) /\ Sent.labelled
  <2>1. CASE Seen = None
    BY <2>1 DEF Sent
  <2>2. CASE Seen # None
    BY <1>5, <2>2 DEF Sent, ReleaseRecords
  <2> QED BY <2>1, <2>2
<1> QED BY <1>1, <1>4, <1>5, <1>6

LEMMA ConvSync ==
  ASSUME Inv, Conv, SyncWrite \/ SyncNothing \/ SyncRejected \/ SyncFault
  PROVE  Kept /\ Conv'
<1>1. run # None /\ run \in Runs /\ run.name \in Names /\ run.phase = "sync" /\ run.t # None
      /\ run.m \in ModuleRecords /\ WellFormed(run)
  BY RunTypes DEF Inv, Typed, RunWellFormed, WellFormed,
     SyncWrite, SyncNothing, SyncRejected, SyncFault, At
<1>n. PICK n \in Names : n = run.name
  BY <1>1
<1>2. /\ Target \in Releases /\ Seen \in ReleaseRecords \cup {None} /\ There \in ReleaseRecords \cup {None}
      /\ Sent \in ReleaseRecords /\ queue \in SUBSET Names
  BY <1>1, TargetTypes, StateTypes DEF Inv
<1>3. Kept /\ UNCHANGED <<mods, modPend, tpl, tplPend>>
  <2>1. CASE SyncNothing \/ SyncRejected
    BY <2>1, KeptByNothing DEF SyncNothing, SyncRejected, Inv, Conv, modVars, tplVars
  <2>2. CASE SyncWrite \/ SyncFault
    <3>1. PICK x \in {There, Sent} : StoreRelease(Target, x, queue)
      BY <2>2 DEF SyncWrite, SyncFault
    <3>2. UNCHANGED <<modVars, tplVars>>
      BY <2>2 DEF SyncWrite, SyncFault
    <3>3. Kept
      BY <1>2, <3>1, <3>2, KeptByRelease DEF Inv, Conv
    <3> QED BY <3>2, <3>3 DEF modVars, tplVars
  <2> QED BY <2>1, <2>2
<1>4. CASE SyncRejected \/ SyncFault
  <2>1. Fail("ReconcileError")
    BY <1>4 DEF SyncRejected, SyncFault
  <2>2. run' \in Runs /\ run'.name = run.name /\ run'.phase = "failed" /\ run'.error = "ReconcileError"
    BY <1>1, <2>1, RunSteps DEF Fail, Runs
  <2>3. Busy(n)'
    BY <1>n, <2>2, RunsAssumption DEF Busy
  <2> QED BY <1>1, <1>n, <1>3, <2>2, <2>3, ConvMoved, RunsAssumption
<1>5. CASE SyncWrite \/ SyncNothing
  <2>1. GoTo("status")
    BY <1>5 DEF SyncWrite, SyncNothing
  <2>2. run' \in Runs /\ run'.name = run.name /\ run'.phase = "status"
    BY <1>1, <2>1, RunSteps DEF GoTo, Runs
  <2>3. Quiet(n)'
    <3> SUFFICES ASSUME ~Awaited(n)', Due(n)'
                 PROVE  InOrder(n)' \/ (TargetOf(n) \in relPend)'
      BY DEF Quiet
    <3>1. ~Awaited(n) /\ Steady(n) /\ mods'[n] # None
      BY <1>3 DEF Kept, Due
    <3>2. /\ Target = TargetOf(n)'
          /\ Sent.owner = UidOf(n)' /\ Sent.labelled
          /\ Sent.content = WantedContent(mods[n], TemplateOf(n))'
      BY <1>n, <1>5, <3>1, SentInOrder, SteadyTarget DEF SyncWrite, SyncNothing
    <3>3. CASE SyncWrite
      <4>1. rel'[Target] = Sent /\ Sent # None
        BY <1>2, <3>3, ReleaseStored, StateTypes, NoneApart DEF SyncWrite, Inv
      <4> QED BY <3>2, <4>1 DEF InOrder
    <3>4. CASE SyncNothing
      <4>1. relCache[Target] = Sent /\ Sent # None /\ UNCHANGED <<rel, relPend>>
        BY <1>2, <3>4, NoneApart DEF SyncNothing, Seen, relVars
      <4>2. Target \in relPend \/ rel[Target] = Sent
        BY <1>2, <3>2, <4>1 DEF Conv, CachesFresh, Labelled
      <4> QED BY <3>2, <4>1, <4>2 DEF InOrder
    <3> QED BY <1>5, <3>3, <3>4
  <2> QED BY <1>1, <1>n, <1>3, <2>2, <2>3, ConvMoved, RunsAssumption
<1> QED BY <1>4, <1>5

LEMMA ConvCleanup ==
  ASSUME Inv, Conv, ResolveNamespace \/ DeleteFlux \/ DeleteFluxFails
  PROVE  Kept /\ Conv'
<1>1. run # None /\ run \in Runs /\ run.name \in Names /\ run.phase \in {"resolve", "cleanup"}
      /\ run.m \in ModuleRecords /\ WellFormed(run) /\ ~Busy(run.name)
  BY RunTypes DEF Inv, Typed, RunWellFormed, ResolveNamespace, DeleteFlux, DeleteFluxFails, At, Busy
<1>2. CASE ResolveNamespace
  <2>1. Kept
    BY <1>2, KeptByNothing DEF ResolveNamespace, Inv, Conv
  <2>2. run' \in Runs /\ run'.name = run.name /\ run'.phase = "cleanup"
    <3>1. run.m.spec.template \in Templates
      BY <1>1 DEF ModuleRecords, SpecRecords
    <3>2. CleanupNamespace(run.m, tplCache[run.m.spec.template]) \in Namespaces \cup {None}
      BY <1>1, <3>1, CleanupNamespaceType DEF Inv, Typed, ClusterTypeOK
    <3>3. Referred(run.m) \subseteq FluxKinds
      BY DEF Referred
    <3>4. run' = [run EXCEPT !.phase = "cleanup",
                             !.namespace = CleanupNamespace(run.m, tplCache[run.m.spec.template]),
                             !.todo = IF CleanupNamespace(run.m, tplCache[run.m.spec.template]) = None
                                      THEN {} ELSE Referred(run.m)]
      BY <1>2 DEF ResolveNamespace
    <3>5. run' \in Runs
      BY <1>1, <3>2, <3>3, <3>4, RunSteps
    <3> QED BY <1>1, <3>4, <3>5 DEF Runs
  <2> QED BY <1>1, <2>1, <2>2, ConvMoved, RunsAssumption
<1>3. CASE DeleteFlux
  <2>1. Kept
    BY <1>3, DoomedTypes, StateTypes, KeptByRelease DEF DeleteFlux, Inv, Conv
  <2>2. run' \in Runs
    BY <1>1, <1>3, DoomedTypes, RunSteps DEF DeleteFlux, Inv
  <2>3. run'.name = run.name /\ run'.phase = "cleanup"
    BY <1>1, <1>3 DEF DeleteFlux, At, Runs
  <2> QED BY <1>1, <2>1, <2>2, <2>3, ConvMoved, RunsAssumption
<1>4. CASE DeleteFluxFails
  <2>1. PICK x \in {rel[Doomed], Marked} : StoreRelease(Doomed, x, Again)
    BY <1>4 DEF DeleteFluxFails
  <2>2. x \in ReleaseRecords \cup {None} /\ Doomed \in Releases
    BY <1>4, <2>1, DoomedTypes DEF DeleteFluxFails, Inv
  <2>3. Again \in SUBSET Names /\ queue \subseteq Again
    BY <1>1, StateTypes DEF Again, Inv
  <2>4. Kept
    BY <1>4, <2>1, <2>2, <2>3, KeptByRelease DEF DeleteFluxFails, Inv, Conv
  <2> QED BY <1>1, <1>4, <2>4, ConvEnded DEF DeleteFluxFails
<1> QED BY <1>2, <1>3, <1>4

LEMMA ConvRestarted ==
  ASSUME Inv, Conv, Restart
  PROVE  Conv'
<1>1. /\ run' = None /\ UNCHANGED <<mods, tpl, rel>> /\ modCache' = mods /\ tplCache' = tpl /\ relCache' = rel
      /\ \A n \in Names : mods[n] # None => n \in queue'
  BY DEF Restart
<1>2. CachesFresh' /\ RunFresh'
  BY <1>1 DEF CachesFresh, Abreast, RunFresh
<1>3. ASSUME NEW n \in Names PROVE Quiet(n)'
  BY <1>1 DEF Quiet, Due, Awaited
<1> QED BY <1>2, <1>3 DEF Conv, Converging

(* A change of a Module that passes the predicate is heard. *)
LEMMA PassingHeard ==
  ASSUME Typed, NEW n \in Names, NEW m, StoreModule(n, m, queue), PassesPredicate(mods[n], m)
  PROVE  Announced
BY StateTypes DEF StoreModule, Announced

(* Users, Flux, garbage collection and the informers. *)
LEMMA KeptByEnvironment ==
  ASSUME Inv, Conv, Environment
  PROVE  Kept /\ Announced
<1> USE DEF Inv, Conv
<1>1. ASSUME UNCHANGED mods PROVE Announced
  BY <1>1 DEF Announced
<1>2. queue \in SUBSET Names
  BY StateTypes
<1>3. ASSUME NEW n \in Names, DeliverModule(n) PROVE Kept /\ Announced
  BY <1>1, <1>3, StateTypes, KeptByDelivery DEF DeliverModule, tplVars, relVars
<1>4. ASSUME NEW n \in Names, DeleteModule(n) PROVE Kept /\ Announced
  <2> DEFINE m == IF mods[n].finalizer
                  THEN [mods[n] EXCEPT !.deleting = TRUE, !.gen = @ + 1] ELSE None
  <2>1. mods[n] # None /\ mods[n] \in ModuleRecords
    BY <1>4, StateTypes DEF DeleteModule
  <2>2. m \in ModuleRecords \cup {None} /\ PassesPredicate(mods[n], m)
    <3>1. CASE mods[n].finalizer
      <4>1. m \in ModuleRecords /\ m.gen = mods[n].gen + 1 /\ mods[n].gen \in Nat
        BY <2>1, <3>1, ModuleUpdates DEF ModuleRecords
      <4> QED BY <2>1, <4>1, NoneApart DEF PassesPredicate
    <3>2. CASE ~mods[n].finalizer
      BY <2>1, <3>2 DEF PassesPredicate
    <3> QED BY <3>1, <3>2
  <2> HIDE DEF m
  <2>3. StoreModule(n, m, queue) /\ UNCHANGED <<tplVars, relVars>>
    BY <1>4 DEF DeleteModule, m
  <2> QED BY <1>2, <2>2, <2>3, KeptByModule, PassingHeard
<1>5. ASSUME NEW n \in Names, NEW s \in Specs, CreateModule(n, s) PROVE Kept /\ Announced
  <2> DEFINE m == [inc |-> born[n] + 1, gen |-> 1, spec |-> s, status |-> NoStatus,
                   finalizer |-> FALSE, deleting |-> FALSE]
  <2>1. m \in ModuleRecords
    <3>1. born[n] + 1 \in Nat /\ s \in SpecRecords
      BY SpecsAssumption DEF Typed, ClusterTypeOK
    <3> QED BY <3>1, StatusValues DEF ModuleRecords
  <2>2. m # None
    BY <2>1, NoneApart
  <2> HIDE DEF m
  <2>3. StoreModule(n, m, queue) /\ UNCHANGED <<tplVars, relVars>> /\ mods[n] = None
    BY <1>5 DEF CreateModule, m
  <2> QED BY <1>2, <2>1, <2>2, <2>3, KeptByModule, PassingHeard DEF PassesPredicate
<1>6. ASSUME NEW n \in Names, NEW s \in Specs, EditModule(n, s) PROVE Kept /\ Announced
  <2> DEFINE m == [mods[n] EXCEPT !.spec = s, !.gen = @ + 1]
  <2>1. mods[n] # None /\ mods[n] \in ModuleRecords /\ s \in SpecRecords
    BY <1>6, StateTypes, SpecsAssumption DEF EditModule
  <2>2. m \in ModuleRecords /\ m.gen = mods[n].gen + 1 /\ mods[n].gen \in Nat
    BY <2>1, ModuleUpdates DEF ModuleRecords
  <2>3. m # None
    BY <2>2, NoneApart
  <2> HIDE DEF m
  <2>4. StoreModule(n, m, queue) /\ UNCHANGED <<tplVars, relVars>>
    BY <1>6 DEF EditModule, m
  <2> QED BY <1>2, <2>1, <2>2, <2>3, <2>4, KeptByModule, PassingHeard DEF PassesPredicate
<1>7. ASSUME NEW t \in Templates, NEW s \in TemplateSpecs, PutTemplate(t, s) PROVE Kept /\ Announced
  <2> DEFINE x == [gen |-> IF tpl[t] = None THEN 1 ELSE tpl[t].gen + 1,
                   namespace |-> s.namespace, type |-> s.type, chart |-> s.chart]
  <2>1. tpl[t] # None => tpl[t].gen \in Nat
    BY StateTypes DEF TemplateRecords
  <2>2. x \in TemplateRecords
    BY <2>1, TemplatesAssumption DEF TemplateRecords
  <2> HIDE DEF x
  <2>3. StoreTemplate(t, x) /\ UNCHANGED <<modVars, relVars>>
    BY <1>7 DEF PutTemplate, x
  <2> QED BY <1>1, <2>2, <2>3, KeptByTemplate DEF modVars
<1>8. ASSUME NEW t \in Templates, DeleteTemplate(t) PROVE Kept /\ Announced
  BY <1>1, <1>8, KeptByTemplate DEF DeleteTemplate, modVars
<1>9. ASSUME NEW t \in Templates, DeliverTemplate(t) PROVE Kept /\ Announced
  BY <1>1, <1>9, StateTypes, KeptByDelivery DEF DeliverTemplate, modVars, relVars, Typed, ClusterTypeOK
<1>10. ASSUME NEW o \in Releases, DeliverRelease(o) PROVE Kept /\ Announced
  <2>1. o \in relPend => o[3] \in {p[3] : p \in relPend \cap {o}}
    OBVIOUS
  <2> QED BY <1>1, <1>10, <2>1, StateTypes, KeptByDelivery DEF DeliverRelease, modVars, tplVars
<1>11. ASSUME NEW o \in Releases, NEW x \in ReleaseRecords \cup {None}, StoreRelease(o, x, queue),
              UNCHANGED <<modVars, tplVars>>
       PROVE  Kept /\ Announced
  BY <1>1, <1>2, <1>11, KeptByRelease DEF modVars
<1>12. ASSUME NEW o \in Releases, FluxReports(o) PROVE Kept /\ Announced
  BY <1>11, <1>12, StateTypes, ReleaseUpdates DEF FluxReports
<1>13. ASSUME NEW o \in Releases, FluxUninstalls(o) PROVE Kept /\ Announced
  BY <1>11, <1>13 DEF FluxUninstalls
<1>14. ASSUME NEW o \in Releases, CollectGarbage(o) PROVE Kept /\ Announced
  BY <1>11, <1>14, StateTypes, ReleaseUpdates DEF CollectGarbage
<1>15. ASSUME NEW o \in Releases, Drift(o) PROVE Kept /\ Announced
  <2>1. rel[o] \in ReleaseRecords
    BY <1>15, StateTypes DEF Drift
  <2>2. \A c \in Charts : [rel[o] EXCEPT !.content = <<c, None>>] \in ReleaseRecords
    BY <2>1, ReleaseUpdates
  <2>3. PICK x \in { [rel[o] EXCEPT !.deleting = TRUE], [rel[o] EXCEPT !.labelled = FALSE],
                     [rel[o] EXCEPT !.owner = NoOwner] }
                   \cup {[rel[o] EXCEPT !.content = <<c, None>>] : c \in Charts} :
          StoreRelease(o, x, queue)
    BY <1>15 DEF Drift
  <2>4. x \in ReleaseRecords
    BY <2>1, <2>2, <2>3, ReleaseUpdates
  <2> QED BY <1>11, <1>15, <2>3, <2>4 DEF Drift
<1>16. ASSUME NEW o \in Releases, Plant(o) PROVE Kept /\ Announced
  <2> DEFINE x(owner) == [ owner |-> owner, content |-> <<CHOOSE c \in Charts : TRUE, None>>,
                           labelled |-> FALSE, ready |-> "Pending", deleting |-> FALSE ]
  <2>1. (CHOOSE c \in Charts : TRUE) \in Charts
    BY ChartsAssumption
  <2>2. \A owner \in {NoOwner, Stranger} : x(owner) \in ReleaseRecords
    BY <2>1 DEF ReleaseRecords, Conditions
  <2> HIDE DEF x
  <2>3. PICK owner \in {NoOwner, Stranger} : StoreRelease(o, x(owner), queue)
    BY <1>16 DEF Plant, x
  <2> QED BY <1>11, <1>16, <2>2, <2>3 DEF Plant
<1> QED BY <1>3, <1>4, <1>5, <1>6, <1>7, <1>8, <1>9, <1>10, <1>12, <1>13, <1>14, <1>15, <1>16
        DEF Environment

LEMMA ConvEnvironment ==
  ASSUME Inv, Inv', Conv, Environment, UNCHANGED run
  PROVE  Conv'
BY KeptByEnvironment, ConvUnmoved
-----------------------------------------------------------------------------
LEMMA ConvKept ==
  ASSUME Inv, Inv', Conv, [Next]_vars
  PROVE  Conv'
<1>1. CASE UNCHANGED vars
  <2>1. Kept /\ run' = run
    BY <1>1, KeptByNothing DEF vars, modVars, tplVars, relVars, Inv, Conv
  <2> QED BY <2>1, ConvUnmoved
<1>2. CASE Work
  BY <1>2, ConvFetched, ConvFinalizer, ConvTemplate, ConvSync, ConvStatus, ConvCleanup DEF Work
<1>3. CASE SyncFault \/ DeleteFluxFails \/ ReportLost
  BY <1>3, ConvSync, ConvStatus, ConvCleanup
<1> QED BY <1>1, <1>2, <1>3, ConvRestarted, ConvEnvironment DEF Next

LEMMA ConvHolds == Spec => []Conv
<1>1. Init => Conv
  BY DEF Init, Conv, CachesFresh, Abreast, RunFresh, Converging, Quiet, Due
<1> QED BY <1>1, ConvKept, InvHolds, PTL DEF Spec

(* Whatever lags, fails, drifts or is deleted, and whenever the operator is
   restarted: once nothing is queued, running or under way, every Module whose
   template exists has its Flux object, with the content it asks for now
   (reconcileModule, and the watches of SetupWithManager). *)
THEOREM NothingHalfway == Spec => []Deployed
<1>1. ASSUME Conv, AtRest, NEW n \in Names, Due(n) PROVE InOrder(n)
  <2>1. ~Busy(n) /\ ~Awaited(n) /\ TargetOf(n) \notin relPend
    BY <1>1 DEF AtRest, Busy, Awaited
  <2> QED BY <1>1, <2>1 DEF Conv, Converging, Quiet
<1>2. Conv => Deployed
  BY <1>1 DEF Deployed, Due, InOrder, AtRest
<1> QED BY <1>2, ConvHolds, PTL
=============================================================================
