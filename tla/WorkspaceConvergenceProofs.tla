---------------------- MODULE WorkspaceConvergenceProofs ----------------------
(***************************************************************************)
(* Proofs about what the Workspace controller leaves behind when it rests. *)
(*                                                                         *)
(* A reconcile is told a name, reads caches that may be behind, and writes *)
(* nine children one after the other; between its writes the cluster       *)
(* moves.  The invariant says who still has to look: a child that is not   *)
(* what its Workspace asks for has the Workspace's name queued, or an      *)
(* event under way that will queue it, or a reconcile in progress that has *)
(* not come to it yet or failed and is retried.                            *)
(***************************************************************************)
EXTENDS WorkspaceControllerProofs

(* The informers of the Istio kinds are not behind.  While those kinds are not
   watched no event tells of a cache that has caught up. *)
IstioInformed == IstioKinds \cap Lagging = {}

(* Copy c tells the same of a Workspace as w does, but for the status. *)
Abreast(c, w) ==
  /\ c = None <=> w = None
  /\ w # None => c.inc = w.inc /\ c.gen = w.gen /\ c.spec = w.spec /\ c.deleting = w.deleting

(* A cache is behind only where an event is under way to all it concerns. *)
WsFresh == \A n \in Names : n \in wsPend \/ Abreast(wsCache[n], ws[n])

ObjFresh ==
  \A o \in Objects : \/ cache[o] = obj[o]
                     \/ OwnerName(cache[o]) \cup OwnerName(obj[o]) \subseteq pend[o]

Home(ns) == <<"Namespace", ns>>

(* A Namespace that is seen has not gone to another owner since. *)
HomeHonest ==
  \A ns \in Namespaces : cache[Home(ns)] # None /\ obj[Home(ns)] # None =>
    obj[Home(ns)].owner \in {cache[Home(ns)].owner, NoOwner}

(* Workspace n will be reconciled anew. *)
Awaited(n) ==
  \/ n \in queue \/ n \in wsPend
  \/ mapping \/ crdEvent
  \/ \E o \in Objects : n \in pend[o]

(* The reconcile has not failed; or it has, and is retried. *)
Going(r)   == r # None /\ r.error = ""
Retried(r) == r # None /\ r.error = "ReconcileError"

(* A reconcile works from what is stored, or another one follows. *)
RunFresh ==
  Going(run) /\ ws[run.name] # None =>
    Awaited(run.name) \/ (Abreast(run.w, ws[run.name]) /\ run.istio = enabled)

(* One that is past its Namespace has no rival for it. *)
NoRival ==
  Going(run) /\ run.step > 1 =>
    LET h == Home(run.w.spec.namespace)
    IN obj[h] # None => obj[h].owner \in {RunUid, NoOwner}

(* The reconcile of Workspace n still comes to child j, or failed and is
   retried. *)
Busy(n, j) == run.name = n /\ ((Going(run) /\ run.step <= j) \/ Retried(run))

(* Nothing is asked of the controller. *)
Excused(n) ==
  ws[n] = None \/ ws[n].deleting \/ ~HoldsHome(n) \/ Terminating(ws[n].spec.namespace)

Quiet(n, j) == Excused(n) \/ Awaited(n) \/ Unseen(Plan[j]) \/ InLine(n, Plan[j])

Converging == \A n \in Names, j \in 1 .. 9 : Quiet(n, j) \/ Busy(n, j)

Fresh == WsFresh /\ ObjFresh /\ HomeHonest

Conv == Fresh /\ RunFresh /\ NoRival /\ Converging
-----------------------------------------------------------------------------
(* What the records hold, and what the plan asks for. *)

LEMMA PlanOrder ==
  /\ \A i, j \in 1 .. 9 : Plan[i] = Plan[j] => i = j
  /\ Plan[1] = "Namespace"
BY DEF Plan

LEMMA RunTypes ==
  ASSUME TypeOK, run # None
  PROVE  /\ run \in Runs /\ run.name \in Names /\ run.w \in WorkspaceRecords /\ run.istio \in BOOLEAN
         /\ run.step \in 1 .. 10
         /\ run.w.spec.namespace \in Namespaces
<1>1. run \in Runs
  BY DEF TypeOK
<1>2. run.w.spec.namespace \in Namespaces
  BY <1>1, RunsUnfolded, SpecsAssumption DEF WorkspaceRecords, SpecRecords
<1> QED BY <1>1, <1>2, RunsUnfolded

LEMMA SpecTypes ==
  ASSUME TypeOK, NEW n \in Names, ws[n] # None
  PROVE  /\ ws[n] \in WorkspaceRecords /\ ws[n].spec \in Specs /\ ws[n].spec.namespace \in Namespaces
         /\ HomeOf(n) = Home(ws[n].spec.namespace)
BY StateTypes, SpecsAssumption DEF WorkspaceRecords, SpecRecords, HomeOf, Home

LEMMA Homes ==
  ASSUME NEW ns \in Namespaces
  PROVE  Home(ns) \in Objects /\ Home(ns)[1] = "Namespace" /\ Home(ns)[2] = ns
BY PlanKinds DEF Home, Objects

LEMMA PlacesOf ==
  ASSUME NEW j \in 1 .. 9, NEW ns \in Namespaces
  PROVE  /\ <<Plan[j], ns>> \in Objects
         /\ <<Plan[j], ns>>[1] = Plan[j]
         /\ <<Plan[j], ns>> = Home(ns) <=> j = 1
BY PlanKinds, PlanOrder DEF Home, Objects

(* Every Workspace asks for its Namespace. *)
LEMMA NamespaceWanted ==
  ASSUME NEW s, NEW istio
  PROVE  Desired(s, "Namespace", istio) # {}
BY DEF Desired, Roles

(* What is written needs no second write. *)
LEMMA MutatedTwice ==
  ASSUME NEW k, NEW c, NEW want
  PROVE  /\ Mutated(k, want, want) = want
         /\ Mutated(k, Mutated(k, c, want), want) = Mutated(k, c, want)
BY DEF Mutated

(* Whose name an event of an object enqueues. *)
LEMMA OwnerNames ==
  ASSUME NEW x \in ObjectRecords, NEW uid \in Uids, x.owner = uid
  PROVE  OwnerName(x) = {uid[1]}
BY NoneAssumption DEF OwnerName
-----------------------------------------------------------------------------
(* What a step that has no part in the reconcile does to all this. *)

(* Workspace n asks for what it asked for, and has its Namespace if it had it. *)
Steady(n) ==
  /\ ws[n] # None /\ Abreast(ws[n], ws'[n]) /\ enabled' = enabled
  /\ HoldsHome(n)' <=> HoldsHome(n)

(* A Namespace is freed, or stays whose it was, or appears as nobody's. *)
HomeKept(ns) ==
  \/ obj'[Home(ns)] = None \/ obj'[Home(ns)].owner = NoOwner
  \/ /\ obj[Home(ns)] # None /\ obj'[Home(ns)].owner = obj[Home(ns)].owner
     /\ obj[Home(ns)].deleting => obj'[Home(ns)].deleting

Kept ==
  /\ Fresh'
  /\ \A n \in Names : ws'[n] # None => Awaited(n)' \/ (~Awaited(n) /\ Steady(n))
  /\ \A n \in Names, j \in 1 .. 9 : Quiet(n, j) => Quiet(n, j)'
  /\ \A ns \in Namespaces : HomeKept(ns)

(* Once a child is unseen it stays so until a process takes over. *)
LEMMA UnseenStays ==
  ASSUME TypeOK, TypeOK', Paid, watched' = watched, NEW k, Unseen(k)
  PROVE  Unseen(k)'
<1>1. PICK x \in {"drift", "disown"} : left[x] < Budget[x]
  BY DEF Unseen
<1>2. x \in Nuisances
  BY DEF Nuisances
<1>3. left[x] \in Nat /\ left'[x] \in Nat /\ left'[x] <= left[x] /\ Budget[x] \in Nat
  BY <1>2, BudgetAssumption DEF Paid, TypeOK, ClusterTypeOK
<1>4. left'[x] < Budget[x]
  BY <1>1, <1>3
<1> QED BY <1>1, <1>4 DEF Unseen

(* An event of a child reaches its Workspace, or is on its way. *)
LEMMA ChangeHeard ==
  ASSUME TypeOK, NEW new \in [Objects -> ObjectRecords \cup {None}], NEW q \in SUBSET Names,
         Commit(new, q), NEW o \in Objects, new[o] # obj[o],
         o[1] \in IstioKinds => watched
  PROVE  \A n \in OwnerName(obj[o]) \cup OwnerName(new[o]) : Awaited(n)'
<1>1. Woken(o, new) = OwnerName(obj[o]) \cup OwnerName(new[o])
  BY DEF Woken
<1>2. CASE o[1] \in Lagging
  <2>1. Woken(o, new) \subseteq pend'[o]
    BY <1>2 DEF Commit
  <2> QED BY <1>1, <2>1 DEF Awaited
<1>3. CASE o[1] \notin Lagging
  <2>1. Woken(o, new) \subseteq queue'
    BY <1>3 DEF Commit
  <2> QED BY <1>1, <2>1 DEF Awaited
<1> QED BY <1>2, <1>3

(* A write leaves every cache as fresh as it must be. *)
LEMMA CommitFresh ==
  ASSUME TypeOK, IstioInformed, ObjFresh, NEW new \in [Objects -> ObjectRecords \cup {None}],
         NEW q, Commit(new, q)
  PROVE  ObjFresh'
<1> SUFFICES ASSUME NEW o \in Objects
             PROVE  \/ cache'[o] = obj'[o]
                    \/ OwnerName(cache'[o]) \cup OwnerName(obj'[o]) \subseteq pend'[o]
  BY DEF ObjFresh
<1>1. /\ obj'[o] = new[o]
      /\ cache'[o] = IF o[1] \in Lagging THEN cache[o] ELSE new[o]
      /\ pend'[o] = pend[o] \cup (IF o[1] \in Lagging THEN Woken(o, new) ELSE {})
  BY DEF Commit
<1>2. CASE o[1] \notin Lagging
  BY <1>1, <1>2
<1>3. CASE o[1] \in Lagging /\ new[o] = obj[o]
  BY <1>1, <1>3 DEF ObjFresh
<1>4. CASE o[1] \in Lagging /\ new[o] # obj[o]
  <2>1. Woken(o, new) = OwnerName(obj[o]) \cup OwnerName(new[o])
    BY <1>4 DEF Woken, IstioInformed
  <2> QED BY <1>1, <1>4, <2>1 DEF ObjFresh
<1> QED BY <1>2, <1>3, <1>4

(* Nothing is taken from the queue, and no event is lost. *)
Remembers ==
  /\ queue \subseteq queue' /\ wsPend \subseteq wsPend'
  /\ mapping => mapping'
  /\ crdEvent => crdEvent'
  /\ \A o \in Objects : pend[o] \subseteq pend'[o]

LEMMA StillAwaited ==
  ASSUME NEW n, Remembers, Awaited(n)
  PROVE  Awaited(n)'
BY DEF Remembers, Awaited

(* The environment writes children: it creates only Namespaces that are
   nobody's, and what it changes unseen is excused. *)
LEMMA KeptByCommit ==
  ASSUME TypeOK, TypeOK', IstioInformed, Fresh, Paid,
         NEW new \in [Objects -> ObjectRecords \cup {None}], Commit(new, queue),
         UNCHANGED <<ws, wsCache, wsPend, enabled, watched, mapping>>, crdEvent => crdEvent',
         \A ns \in Namespaces : HomeKept(ns),
         \A o \in Objects : obj[o] = None /\ o[1] # "Namespace" => new[o] = None,
         \A n \in Names, k \in IstioKinds :
           ws[n] # None /\ ~watched => LET o == <<k, ws[n].spec.namespace>> IN
             new[o] # obj[o] /\ obj[o] # None /\ obj[o].owner = UidOf(n) =>
               Excused(n) \/ Unseen(k)' \/ crdEvent'
  PROVE  Kept
<1>q. queue \in SUBSET Names
  BY StateTypes
<1>1. /\ obj' = new
      /\ \A o \in Objects : /\ cache'[o] = IF o[1] \in Lagging THEN cache[o] ELSE new[o]
                            /\ pend[o] \subseteq pend'[o]
      /\ queue \subseteq queue'
  BY DEF Commit
<1>2. Remembers
  BY <1>1 DEF Remembers
<1>3. Fresh'
  <2>1. ObjFresh' /\ WsFresh'
    BY CommitFresh DEF Fresh, WsFresh
  <2>2. ASSUME NEW ns \in Namespaces, cache'[Home(ns)] # None, obj'[Home(ns)] # None
        PROVE  obj'[Home(ns)].owner \in {cache'[Home(ns)].owner, NoOwner}
    <3>1. CASE "Namespace" \notin Lagging
      BY <1>1, <3>1, Homes
    <3>2. CASE "Namespace" \in Lagging
      <4>1. cache'[Home(ns)] = cache[Home(ns)]
        BY <1>1, <3>2, Homes
      <4> QED BY <2>2, <4>1 DEF Fresh, HomeHonest, HomeKept
    <3> QED BY <3>1, <3>2
  <2> QED BY <2>1, <2>2 DEF Fresh, HomeHonest
<1>4. ASSUME NEW n \in Names, ws[n] # None, ~Awaited(n)'
      PROVE  ~Awaited(n) /\ (HoldsHome(n)' <=> HoldsHome(n))
  <2>1. ~Awaited(n)
    BY <1>2, <1>4, StillAwaited
  <2>2. /\ ws[n] \in WorkspaceRecords /\ HomeOf(n) = Home(ws[n].spec.namespace) /\ HomeOf(n)' = HomeOf(n)
        /\ UidOf(n)' = UidOf(n) /\ ws[n].spec.namespace \in Namespaces /\ UidOf(n) \in Uids
    BY <1>4, SpecTypes DEF HomeOf, UidOf, Uids, WorkspaceRecords
  <2>3. HomeOf(n) \in Objects /\ HomeOf(n)[1] = "Namespace"
    BY <2>2, Homes
  <2>4. ASSUME HoldsHome(n) PROVE HoldsHome(n)'
    <3>1. n \in OwnerName(obj[HomeOf(n)])
      <4>1. obj[HomeOf(n)] \in ObjectRecords /\ obj[HomeOf(n)].owner = UidOf(n)
        BY <2>3, <2>4, StateTypes DEF HoldsHome
      <4> QED BY <2>2, <4>1, OwnerNames DEF UidOf
    <3>2. new[HomeOf(n)] = obj[HomeOf(n)]
      BY <1>q, <1>4, <2>3, <3>1, ChangeHeard DEF IstioKinds
    <3> QED BY <1>1, <2>2, <2>4, <3>2 DEF HoldsHome
  <2>5. ASSUME HoldsHome(n)' PROVE HoldsHome(n)
    <3>1. obj'[HomeOf(n)] # None /\ obj'[HomeOf(n)].owner = UidOf(n) /\ UidOf(n) # NoOwner
      BY <2>2, <2>5, NoneAssumption DEF HoldsHome
    <3> QED BY <2>2, <3>1 DEF HomeKept, HoldsHome
  <2> QED BY <2>1, <2>4, <2>5
<1>5. ASSUME NEW n \in Names, ws'[n] # None PROVE Awaited(n)' \/ (~Awaited(n) /\ Steady(n))
  BY <1>4, <1>5 DEF Steady, Abreast
<1>6. ASSUME NEW n \in Names, NEW j \in 1 .. 9, Quiet(n, j) PROVE Quiet(n, j)'
  <2> SUFFICES ASSUME ~Awaited(n)', ~Excused(n)', ~Unseen(Plan[j])' PROVE InLine(n, Plan[j])'
    BY DEF Quiet
  <2> DEFINE o == <<Plan[j], ws[n].spec.namespace>>
             want == Desired(ws[n].spec, Plan[j], enabled)
  <2>1. ws[n] # None /\ ~Awaited(n) /\ (HoldsHome(n)' <=> HoldsHome(n))
    BY <1>4 DEF Excused
  <2>2. /\ ws[n].spec.namespace \in Namespaces /\ o \in Objects /\ o[1] = Plan[j] /\ UidOf(n) \in Uids
        /\ HomeOf(n) = Home(ws[n].spec.namespace)
    BY <2>1, SpecTypes, PlacesOf DEF UidOf, Uids, WorkspaceRecords
  <2>3. ~Excused(n)
    <3>1. /\ obj'[HomeOf(n)] # None /\ obj'[HomeOf(n)].owner = UidOf(n) /\ UidOf(n) # NoOwner
          /\ ~obj'[HomeOf(n)].deleting
      BY <2>2, NoneAssumption DEF Excused, HoldsHome, HomeOf, UidOf, Terminating, Home
    <3>2. ~obj[HomeOf(n)].deleting
      BY <2>2, <3>1 DEF HomeKept
    <3> QED BY <2>1, <2>2, <3>2 DEF Excused, Terminating, Home
  <2>4. InLine(n, Plan[j])
    BY <1>6, <2>1, <2>3, UnseenStays DEF Quiet
  <2>5. CASE want = {}
    <3>1. obj[o] = None /\ Plan[j] # "Namespace"
      BY <2>4, <2>5, NamespaceWanted DEF InLine
    <3> QED BY <1>1, <2>2, <2>5, <3>1 DEF InLine
  <2>6. CASE want # {}
    <3>1. /\ obj[o] # None /\ obj[o].owner = UidOf(n)
          /\ Mutated(Plan[j], obj[o].content, want) = obj[o].content
      BY <2>4, <2>6 DEF InLine
    <3>2. n \in OwnerName(obj[o])
      BY <2>2, <3>1, OwnerNames, StateTypes DEF UidOf
    <3>3. CASE new[o] = obj[o]
      BY <1>1, <2>6, <3>1, <3>3 DEF InLine, UidOf
    <3>4. CASE new[o] # obj[o]
      <4>1. Plan[j] \in IstioKinds /\ ~watched
        BY <1>q, <2>2, <3>2, <3>4, ChangeHeard
      <4>2. ~crdEvent'
        BY DEF Awaited
      <4> QED BY <2>1, <2>3, <3>1, <3>4, <4>1, <4>2
    <3> QED BY <3>3, <3>4
  <2> QED BY <2>5, <2>6
<1> QED BY <1>3, <1>5, <1>6 DEF Kept

(* Where no child has changed, a Workspace that asks for the same is as quiet
   as it was. *)
LEMMA QuietOfSteady ==
  ASSUME TypeOK, TypeOK', Paid, UNCHANGED <<obj, watched>>, NEW n, NEW j \in 1 .. 9,
         ws'[n] # None, Steady(n), ~Awaited(n), Quiet(n, j)
  PROVE  Quiet(n, j)'
<1>1. /\ ws[n] # None /\ ws'[n].spec = ws[n].spec /\ ws'[n].inc = ws[n].inc
      /\ ws'[n].deleting = ws[n].deleting /\ enabled' = enabled
  BY DEF Steady, Abreast
<1>2. Excused(n) => Excused(n)'
  BY <1>1 DEF Excused, HoldsHome, HomeOf, UidOf, Terminating
<1>3. InLine(n, Plan[j]) => InLine(n, Plan[j])'
  BY <1>1 DEF InLine, UidOf
<1> QED BY <1>2, <1>3, UnseenStays DEF Quiet

LEMMA HomesKept ==
  ASSUME UNCHANGED obj, NEW ns
  PROVE  HomeKept(ns)
BY DEF HomeKept

(* A Workspace is stored: either its watch is told, or all that changes is its
   status. *)
LEMMA KeptByStore ==
  ASSUME TypeOK, TypeOK', Fresh, Paid, NEW n \in Names, NEW w \in WorkspaceRecords \cup {None},
         NEW q \in SUBSET Names, queue \subseteq q, Store(n, w, q),
         UNCHANGED <<obj, cache, pend, enabled, crdEvent, watched, mapping>>,
         PassesPredicate(ws[n], w) \/ Abreast(ws[n], w)
  PROVE  Kept
<1> DEFINE passes == PassesPredicate(ws[n], w)
<1> HIDE DEF passes
<1>1. /\ ws'[n] = w /\ \A m \in Names : m # n => ws'[m] = ws[m] /\ wsCache'[m] = wsCache[m]
      /\ wsPend \subseteq wsPend' /\ queue \subseteq queue'
      /\ passes => n \in wsPend' \/ n \in queue'
      /\ \/ "workspace" \notin Lagging /\ wsCache'[n] = w
         \/ "workspace" \in Lagging /\ wsCache'[n] = wsCache[n] /\ (passes => n \in wsPend')
  BY StateTypes DEF Store, passes
<1>2. passes \/ Abreast(ws[n], w)
  BY DEF passes
<1>3. Fresh'
  <2>1. \A m \in Names : m \in wsPend' \/ Abreast(wsCache'[m], ws'[m])
    BY <1>1, <1>2 DEF Fresh, WsFresh, Abreast
  <2> QED BY <2>1 DEF Fresh, WsFresh, ObjFresh, HomeHonest
<1>4. Remembers
  BY <1>1 DEF Remembers
<1>5. ASSUME NEW m \in Names, ws'[m] # None PROVE Awaited(m)' \/ (~Awaited(m) /\ Steady(m))
  <2>1. Awaited(m)' \/ Abreast(ws[m], ws'[m])
    BY <1>1, <1>2 DEF Awaited, Abreast
  <2>2. ASSUME Abreast(ws[m], ws'[m]) PROVE Steady(m)
    BY <1>5, <2>2 DEF Steady, Abreast, HoldsHome, HomeOf, UidOf
  <2> QED BY <1>4, <2>1, <2>2, StillAwaited
<1>6. ASSUME NEW m \in Names, NEW j \in 1 .. 9, Quiet(m, j) PROVE Quiet(m, j)'
  BY <1>5, <1>6, QuietOfSteady DEF Quiet, Excused
<1> QED BY <1>3, <1>5, <1>6, HomesKept DEF Kept

(* The caches move, and what is stored stays. *)
LEMMA KeptByDelivery ==
  ASSUME TypeOK, TypeOK', Fresh, Paid, UNCHANGED <<ws, obj, enabled, watched>>, queue \subseteq queue',
         \A n \in Names : \/ wsCache'[n] = wsCache[n] /\ (n \in wsPend => n \in wsPend')
                          \/ wsCache'[n] = ws[n] /\ (n \in wsPend => n \in queue'),
         \A o \in Objects : \/ cache'[o] = cache[o] /\ pend[o] \subseteq pend'[o]
                            \/ cache'[o] = obj[o] /\ pend[o] \subseteq queue',
         mapping => mapping' \/ \A n \in Names : ws[n] # None => n \in queue' \/ n \in wsPend',
         crdEvent => crdEvent' \/ mapping'
  PROVE  Kept
<1>1. Fresh'
  <2>1. WsFresh'
    BY DEF Fresh, WsFresh, Abreast
  <2>2. ObjFresh'
    BY DEF Fresh, ObjFresh
  <2>3. HomeHonest'
    BY Homes DEF Fresh, HomeHonest
  <2> QED BY <2>1, <2>2, <2>3 DEF Fresh
<1>2. ASSUME NEW n \in Names, ws'[n] # None PROVE Awaited(n)' \/ (~Awaited(n) /\ Steady(n))
  <2>1. Steady(n)
    BY <1>2 DEF Steady, Abreast, HoldsHome, HomeOf, UidOf
  <2>2. Awaited(n) => Awaited(n)'
    BY <1>2 DEF Awaited
  <2> QED BY <2>1, <2>2
<1>3. ASSUME NEW n \in Names, NEW j \in 1 .. 9, Quiet(n, j) PROVE Quiet(n, j)'
  BY <1>2, <1>3, QuietOfSteady DEF Quiet, Excused
<1> QED BY <1>1, <1>2, <1>3, HomesKept DEF Kept

LEMMA KeptByNothing ==
  ASSUME TypeOK, TypeOK', Fresh, Paid, UNCHANGED <<wsVars, objVars, detectorVars, watched, mapping>>,
         queue \subseteq queue'
  PROVE  Kept
BY KeptByDelivery DEF wsVars, objVars, detectorVars

(* All will be reconciled. *)
LEMMA KeptByAlarm ==
  ASSUME Fresh, UNCHANGED <<wsVars, objVars>>, \A n \in Names : Awaited(n)'
  PROVE  Kept
<1>1. Fresh'
  BY DEF Fresh, WsFresh, ObjFresh, HomeHonest, Abreast, wsVars, objVars
<1> QED BY <1>1, HomesKept DEF Kept, Quiet, objVars
-----------------------------------------------------------------------------
(* The steps, by what they do to the reconcile in progress. *)

(* The reconcile does not move. *)
LEMMA ConvUnmoved ==
  ASSUME TypeOK, Conv, Kept, run' = run
  PROVE  Conv'
<1>1. Fresh' /\ Converging'
  BY DEF Kept, Conv, Converging, Busy
<1>2. RunFresh'
  <2> SUFFICES ASSUME Going(run), NEW n \in Names, n = run.name,
                      ws'[n] # None, ~Awaited(n)'
               PROVE  Abreast(run.w, ws'[n]) /\ run.istio = enabled'
    BY RunTypes DEF RunFresh, Going
  <2>1. ~Awaited(n) /\ Steady(n)
    BY DEF Kept
  <2>2. Abreast(run.w, ws[n]) /\ run.istio = enabled /\ ws[n] # None
    BY <2>1 DEF Conv, RunFresh, Steady
  <2> QED BY <2>1, <2>2 DEF Steady, Abreast
<1>3. NoRival'
  <2> SUFFICES ASSUME Going(run), run.step > 1,
                      NEW ns \in Namespaces, ns = run.w.spec.namespace, obj'[Home(ns)] # None
               PROVE  obj'[Home(ns)].owner \in {RunUid, NoOwner}
    BY RunTypes DEF NoRival, RunUid, Home, Going
  <2>1. obj[Home(ns)] # None => obj[Home(ns)].owner \in {RunUid, NoOwner}
    BY DEF Conv, NoRival
  <2> QED BY <2>1 DEF Kept, HomeKept
<1> QED BY <1>1, <1>2, <1>3 DEF Conv

(* The reconcile ends; if it has not got far enough, another one follows. *)
LEMMA ConvEnded ==
  ASSUME TypeOK, Conv, Kept, run' = None, run # None,
         (Going(run) /\ run.step <= 9) \/ Retried(run) => run.name \in queue'
  PROVE  Conv'
<1>1. Fresh' /\ RunFresh' /\ NoRival'
  BY DEF Kept, RunFresh, NoRival, Going
<1>2. ASSUME NEW n \in Names, NEW j \in 1 .. 9 PROVE Quiet(n, j)'
  <2>1. CASE Quiet(n, j)
    BY <2>1 DEF Kept
  <2>2. CASE Busy(n, j)
    <3>1. run.name = n /\ ((Going(run) /\ run.step <= j) \/ Retried(run))
      BY <2>2 DEF Busy
    <3>2. run.step \in 1 .. 10
      BY RunTypes
    <3>3. run.step <= j => run.step <= 9
      BY <3>2
    <3>4. n \in queue'
      BY <3>1, <3>3
    <3> QED BY <3>4 DEF Quiet, Awaited
  <2> QED BY <2>1, <2>2 DEF Conv, Converging
<1> QED BY <1>1, <1>2 DEF Conv, Converging

(* A reconcile starts from what the cache holds, and at the first child. *)
LEMMA FetchStarts ==
  ASSUME TypeOK, NEW n \in Names, Fetch(n)
  PROVE  /\ run' # None /\ run'.name = n /\ run'.w = wsCache[n] /\ run'.istio = enabled
         /\ run'.step = 1 /\ Going(run')
<1>1. /\ wsCache[n] # None
      /\ run' = [name |-> n, w |-> wsCache[n], istio |-> enabled, step |-> 1, error |-> ""]
  BY DEF Fetch
<1>2. wsCache[n] \in WorkspaceRecords /\ enabled \in BOOLEAN
  BY <1>1, StateTypes
<1>3. 1 \in 1 .. 10
  OBVIOUS
<1>4. run' \in Runs
  BY <1>1, <1>2, <1>3, RunsUnfolded
<1> QED BY <1>1, <1>4, RunsAssumption DEF Going

LEMMA ConvFetched ==
  ASSUME TypeOK, TypeOK', Conv, NEW n \in Names, FetchNotFound(n) \/ Fetch(n)
  PROVE  Conv'
<1>1. /\ run = None /\ queue' = queue \ {n}
      /\ UNCHANGED <<ws, wsCache, wsPend, obj, cache, pend, enabled, crdEvent, mapping, watched, left>>
  BY DEF FetchNotFound, Fetch, wsVars, objVars, detectorVars
<1>2. Fresh'
  BY <1>1 DEF Conv, Fresh, WsFresh, ObjFresh, HomeHonest, Abreast
<1>3. ASSUME NEW m \in Names, NEW j \in 1 .. 9
      PROVE  /\ Excused(m)' <=> Excused(m)
             /\ Unseen(Plan[j])' <=> Unseen(Plan[j])
             /\ InLine(m, Plan[j])' <=> InLine(m, Plan[j])
             /\ Quiet(m, j)
  BY <1>1 DEF Excused, HoldsHome, HomeOf, UidOf, Terminating, Unseen, InLine, Conv, Converging, Busy,
         Going, Retried
<1>4. ASSUME NEW m \in Names, m # n, NEW j \in 1 .. 9 PROVE Quiet(m, j)'
  BY <1>1, <1>3, <1>4 DEF Quiet, Awaited
<1>5. wsCache[n] = None => n \in wsPend \/ ws[n] = None
  BY DEF Conv, Fresh, WsFresh, Abreast
<1>6. CASE FetchNotFound(n)
  <2>1. run' = None /\ (n \in wsPend \/ ws[n] = None)
    BY <1>1, <1>5, <1>6 DEF FetchNotFound
  <2>2. ASSUME NEW j \in 1 .. 9 PROVE Quiet(n, j)'
    BY <1>1, <2>1 DEF Quiet, Excused, Awaited
  <2> QED BY <1>2, <1>4, <2>1, <2>2 DEF Conv, Converging, RunFresh, NoRival, Going
<1>7. CASE Fetch(n)
  <2>1. /\ run' # None /\ run'.name = n /\ run'.w = wsCache[n] /\ run'.istio = enabled
        /\ run'.step = 1 /\ Going(run')
    BY <1>7, FetchStarts
  <2>2. RunFresh' /\ NoRival'
    BY <1>1, <2>1 DEF RunFresh, NoRival, Awaited, Conv, Fresh, WsFresh
  <2>3. ASSUME NEW j \in 1 .. 9 PROVE Busy(n, j)'
    <3>1. run'.step <= j
      BY <2>1
    <3> QED BY <2>1, <3>1 DEF Busy
  <2> QED BY <1>2, <1>4, <2>2, <2>3 DEF Conv, Converging
<1> QED BY <1>6, <1>7
-----------------------------------------------------------------------------
(* Domain sync. *)

LEMMA SyncTypes ==
  ASSUME TypeOK, Syncing
  PROVE  /\ Going(run) /\ run \in Runs /\ run.name \in Names /\ run.w \in WorkspaceRecords
         /\ run.istio \in BOOLEAN /\ run.step \in 1 .. 9 /\ run.w.spec.namespace \in Namespaces
         /\ Target = <<Plan[run.step], run.w.spec.namespace>> /\ Target \in Objects
         /\ Target[1] = Plan[run.step]
         /\ Target = Home(run.w.spec.namespace) <=> run.step = 1
         /\ Kind = "Namespace" <=> run.step = 1
         /\ Seen \in ObjectRecords \cup {None} /\ There \in ObjectRecords \cup {None}
         /\ RunUid \in Uids /\ RunUid[1] = run.name
<1>1. run # None /\ Going(run)
  BY DEF Syncing, Going
<1>2. run.step \in 1 .. 9
  BY StepType
<1>3. Target \in Objects /\ RunUid \in Uids
  BY StepType
<1>4. Seen \in ObjectRecords \cup {None} /\ There \in ObjectRecords \cup {None}
  BY <1>3, StateTypes DEF Seen, There
<1>5. Target = <<Plan[run.step], run.w.spec.namespace>> /\ run.w.spec.namespace \in Namespaces
  BY <1>1, RunTypes DEF Target, Kind
<1>6. /\ Target[1] = Plan[run.step]
      /\ Target = Home(run.w.spec.namespace) <=> run.step = 1
  BY <1>2, <1>5, PlacesOf
<1>7. Kind = "Namespace" <=> run.step = 1
  <2>1. 1 \in 1 .. 9
    OBVIOUS
  <2> QED BY <1>2, <2>1, PlanOrder DEF Kind
<1> QED BY <1>1, <1>2, <1>3, <1>4, <1>5, <1>6, <1>7, RunTypes DEF RunUid

LEMMA GoingOn ==
  ASSUME NEW r, Going(r)
  PROVE  r # None /\ ~Retried(r)
BY DEF Going, Retried

(* What a reconcile moves on to. *)
LEMMA Moves ==
  ASSUME TypeOK, Syncing
  PROVE  /\ Advance => /\ run' \in Runs /\ Going(run') /\ run'.name = run.name /\ run'.w = run.w
                       /\ run'.istio = run.istio /\ run'.step = run.step + 1
         /\ Fail("ReconcileError") => run' \in Runs /\ run'.name = run.name /\ ~Going(run') /\ Retried(run')
                                        /\ run'.w = run.w
         /\ Fail("NamespaceConflict") => run' \in Runs /\ run'.name = run.name /\ ~Going(run') /\ ~Retried(run')
                                        /\ run'.w = run.w
<1>1. run \in Runs /\ run.error = ""
  BY SyncTypes DEF Going
<1>2. Advance => run' \in Runs /\ run'.name = run.name /\ run'.w = run.w /\ run'.istio = run.istio
                 /\ run'.step = run.step + 1 /\ run'.error = ""
  BY <1>1, RunType, RunsUnfolded DEF Advance
<1>3. \A e \in {"ReconcileError", "NamespaceConflict"} :
        Fail(e) => run' \in Runs /\ run'.name = run.name /\ run'.w = run.w /\ run'.error = e
  BY <1>1, RunType, RunsUnfolded DEF Fail
<1> QED BY <1>2, <1>3, RunsAssumption DEF Going, Retried

(* What is sent is what is asked for, in place of nothing or of something that
   the reconcile may take. *)
LEMMA SentWanted ==
  ASSUME TypeOK, Syncing, Accepted
  PROVE  /\ Want = {} => Sent = None
         /\ Want # {} => /\ Sent \in ObjectRecords /\ Sent.owner = RunUid
                         /\ Mutated(Kind, Sent.content, Want) = Sent.content
                         /\ Seen = There
                         /\ There # None => /\ MayTake(Kind, There.owner, RunUid)
                                            /\ Sent.deleting = There.deleting
                         /\ There = None => ~Sent.deleting
<1>1. CASE Want = {}
  BY <1>1 DEF Sent, Deletes, Creates, Updates
<1>2. CASE Want # {} /\ Creates
  <2>1. Sent = Created /\ Seen = None /\ There = None
    BY <1>2 DEF Sent, Accepted, Deletes, Creates, Updates
  <2> QED BY <1>2, <2>1, StepType, MutatedTwice DEF Created
<1>3. CASE Want # {} /\ Updates
  <2>1. Sent = Updated /\ There = Seen /\ Seen # None /\ MayTake(Kind, Seen.owner, RunUid)
    BY <1>3 DEF Sent, Accepted, Deletes, Creates, Updates
  <2>2. Seen \in ObjectRecords
    BY <2>1, SyncTypes
  <2>3. /\ Updated.owner = RunUid /\ Updated.deleting = Seen.deleting
        /\ Updated.content = Mutated(Kind, Seen.content, Want)
    BY <2>2 DEF Updated, ObjectRecords
  <2> QED BY <1>3, <2>1, <2>3, StepType, MutatedTwice
<1> QED BY <1>1, <1>2, <1>3 DEF Accepted, Deletes

(* Without anything newer under way, the child of the step is then in line. *)
LEMMA SentInLine ==
  ASSUME TypeOK, Syncing, Accepted, NEW n, n = run.name, NEW i, i = run.step, ws[n] # None,
         Abreast(run.w, ws[n]), run.istio = enabled, UNCHANGED <<ws, enabled>>,
         obj'[Target] = Sent
  PROVE  InLine(n, Plan[i])'
<1>1. /\ Target = <<Plan[i], ws[n].spec.namespace>> /\ RunUid = UidOf(n)
      /\ Want = Desired(ws[n].spec, Plan[i], enabled) /\ Kind = Plan[i]
  BY SyncTypes DEF Abreast, UidOf, RunUid, Want, Kind
<1>2. Sent \in ObjectRecords => Sent # None
  BY NoneAssumption
<1>3. CASE Want = {}
  BY <1>1, <1>3, SentWanted DEF InLine
<1>4. CASE Want # {}
  BY <1>1, <1>2, <1>4, SentWanted DEF InLine, UidOf
<1> QED BY <1>3, <1>4

(* The write of a step: the Namespaces of others are left alone, and after the
   first step all of them. *)
LEMMA HomesWritten ==
  ASSUME TypeOK, Syncing, Accepted, NEW x \in {There, Sent}, Write(Target, x, queue)
  PROVE  /\ obj'[Target] = x /\ \A o \in Objects : o # Target => obj'[o] = obj[o]
         /\ \A o \in Objects : pend[o] \subseteq pend'[o]
         /\ queue \subseteq queue'
         /\ x \in ObjectRecords \cup {None}
         /\ \A o \in Objects : cache'[o] = IF o[1] \in Lagging THEN cache[o] ELSE obj'[o]
         /\ \A ns \in Namespaces : \/ obj'[Home(ns)] = obj[Home(ns)]
                                   \/ /\ run.step = 1 /\ ns = run.w.spec.namespace
                                      /\ obj'[Home(ns)] # None /\ obj'[Home(ns)].owner = RunUid
                                      /\ cache[Home(ns)] = obj[Home(ns)]
                                      /\ obj[Home(ns)] # None => /\ obj[Home(ns)].owner = RunUid
                                                                 /\ obj'[Home(ns)].deleting = obj[Home(ns)].deleting
                                      /\ obj[Home(ns)] = None => ~obj'[Home(ns)].deleting
<1>1. Target \in Objects /\ x \in ObjectRecords \cup {None}
  BY SyncTypes, SentType
<1>2. obj' = [obj EXCEPT ![Target] = x]
  BY DEF Write, Commit
<1>3. obj'[Target] = x /\ \A o \in Objects : o # Target => obj'[o] = obj[o]
  BY <1>1, <1>2, StateTypes
<1>4. /\ \A o \in Objects : cache'[o] = IF o[1] \in Lagging THEN cache[o] ELSE obj'[o]
      /\ \A o \in Objects : pend[o] \subseteq pend'[o]
      /\ queue \subseteq queue'
  BY <1>2 DEF Write, Commit
<1>5. ASSUME NEW ns \in Namespaces, obj'[Home(ns)] # obj[Home(ns)]
      PROVE  /\ run.step = 1 /\ ns = run.w.spec.namespace
             /\ obj'[Home(ns)] # None /\ obj'[Home(ns)].owner = RunUid
             /\ cache[Home(ns)] = obj[Home(ns)]
             /\ obj[Home(ns)] # None => /\ obj[Home(ns)].owner = RunUid
                                        /\ obj'[Home(ns)].deleting = obj[Home(ns)].deleting
             /\ obj[Home(ns)] = None => ~obj'[Home(ns)].deleting
  <2>1. Home(ns) = Target /\ x = Sent
    BY <1>3, <1>5, Homes DEF There
  <2>2. Home(ns)[1] = "Namespace" /\ Home(ns)[2] = ns
    BY Homes
  <2>3. Kind = "Namespace" /\ run.step = 1 /\ ns = run.w.spec.namespace
    BY <2>1, <2>2, SyncTypes DEF Target
  <2>4. Want # {}
    BY <2>3, NamespaceWanted DEF Want
  <2>5. /\ Sent \in ObjectRecords /\ Sent.owner = RunUid /\ Seen = There
        /\ There # None => There.owner = RunUid /\ Sent.deleting = There.deleting
        /\ There = None => ~Sent.deleting
    BY <2>3, <2>4, SentWanted DEF MayTake
  <2> QED BY <1>3, <2>1, <2>3, <2>5, NoneAssumption DEF Seen, There
<1> QED BY <1>1, <1>3, <1>4, <1>5

(* What the write of a step does to the Workspaces: its own may get its
   Namespace, and has the child of the step rewritten; nobody else is
   concerned, because nobody else's Namespace is written to. *)
LEMMA KeptByWrite ==
  ASSUME TypeOK, TypeOK', IstioInformed, Conv, Paid, Syncing, Accepted,
         NEW x \in {There, Sent}, Write(Target, x, queue),
         UNCHANGED <<wsVars, detectorVars, watched, mapping>>
  PROVE  /\ Fresh' /\ Remembers
         /\ \A m \in Names : ws[m] # None /\ (m # run.name \/ run.step > 1) =>
              obj'[HomeOf(m)] = obj[HomeOf(m)] \/ (~HoldsHome(m) /\ ~HoldsHome(m)')
         /\ \A m \in Names, j \in 1 .. 9 :
              (m # run.name \/ j < run.step) /\ Quiet(m, j) => Quiet(m, j)'
<1>1. /\ UNCHANGED <<ws, wsCache, wsPend, enabled, crdEvent, watched, mapping>>
  BY DEF wsVars, detectorVars
<1>2. /\ obj'[Target] = x /\ \A o \in Objects : o # Target => obj'[o] = obj[o]
      /\ \A o \in Objects : cache'[o] = IF o[1] \in Lagging THEN cache[o] ELSE obj'[o]
      /\ \A ns \in Namespaces : \/ obj'[Home(ns)] = obj[Home(ns)]
                                \/ /\ run.step = 1 /\ ns = run.w.spec.namespace
                                   /\ obj'[Home(ns)].owner = RunUid
                                   /\ cache[Home(ns)] = obj[Home(ns)]
                                   /\ obj[Home(ns)] # None => obj[Home(ns)].owner = RunUid
  BY HomesWritten
<1>3. Remembers
  BY <1>1, HomesWritten DEF Remembers
<1>4. Fresh'
  <2>1. WsFresh'
    BY <1>1 DEF Conv, Fresh, WsFresh, Abreast
  <2>2. ObjFresh'
    <3>1. x \in ObjectRecords \cup {None} /\ [obj EXCEPT ![Target] = x] \in [Objects -> ObjectRecords \cup {None}]
      BY HomesWritten, StateTypes
    <3> QED BY <3>1, CommitFresh DEF Write, Conv, Fresh
  <2>3. ASSUME NEW ns \in Namespaces, cache'[Home(ns)] # None, obj'[Home(ns)] # None
        PROVE  obj'[Home(ns)].owner \in {cache'[Home(ns)].owner, NoOwner}
    <3>1. CASE cache'[Home(ns)] = obj'[Home(ns)]
      BY <3>1
    <3>2. CASE cache'[Home(ns)] = cache[Home(ns)] /\ obj'[Home(ns)] = obj[Home(ns)]
      BY <2>3, <3>2 DEF Conv, Fresh, HomeHonest
    <3>3. CASE cache'[Home(ns)] = cache[Home(ns)] /\ obj'[Home(ns)] # obj[Home(ns)]
      BY <1>2, <2>3, <3>3
    <3> QED BY <1>2, <3>1, <3>2, <3>3, Homes
  <2> QED BY <2>1, <2>2, <2>3 DEF Fresh, HomeHonest
<1>5. ASSUME NEW m \in Names, ws[m] # None, m # run.name \/ run.step > 1
      PROVE  obj'[HomeOf(m)] = obj[HomeOf(m)] \/ (~HoldsHome(m) /\ ~HoldsHome(m)')
  <2>1. /\ HomeOf(m) = Home(ws[m].spec.namespace) /\ ws[m].spec.namespace \in Namespaces
        /\ HomeOf(m)' = HomeOf(m) /\ UidOf(m)' = UidOf(m)
    BY <1>1, <1>5, SpecTypes DEF HomeOf, UidOf
  <2>2. SUFFICES ASSUME obj'[HomeOf(m)] # obj[HomeOf(m)] PROVE ~HoldsHome(m) /\ ~HoldsHome(m)'
    OBVIOUS
  <2>3. /\ run.step = 1 /\ obj'[HomeOf(m)].owner = RunUid
        /\ obj[HomeOf(m)] # None => obj[HomeOf(m)].owner = RunUid
    BY <1>2, <2>1, <2>2
  <2>4. RunUid # UidOf(m)
    BY <1>5, <2>3 DEF RunUid, UidOf
  <2> QED BY <2>1, <2>3, <2>4 DEF HoldsHome
<1>6. ASSUME NEW m \in Names, NEW j \in 1 .. 9, m # run.name \/ j < run.step, Quiet(m, j)
      PROVE  Quiet(m, j)'
  <2> SUFFICES ASSUME ~Awaited(m)', ~Excused(m)', ~Unseen(Plan[j])' PROVE InLine(m, Plan[j])'
    BY DEF Quiet
  <2>1. ws[m] # None /\ HoldsHome(m)' /\ (m # run.name \/ run.step > 1)
    BY <1>1, <1>6, SyncTypes DEF Excused
  <2>2. obj'[HomeOf(m)] = obj[HomeOf(m)]
    BY <1>5, <2>1
  <2>3. HoldsHome(m) /\ ~Excused(m)
    BY <1>1, <2>1, <2>2 DEF HoldsHome, HomeOf, UidOf, Excused, Terminating
  <2>4. ~Awaited(m) /\ ~Unseen(Plan[j])
    BY <1>1, <1>3, StillAwaited, UnseenStays
  <2>5. InLine(m, Plan[j])
    BY <1>6, <2>3, <2>4 DEF Quiet
  <2> DEFINE o == <<Plan[j], ws[m].spec.namespace>>
  <2>6. ws[m].spec.namespace \in Namespaces /\ o \in Objects /\ HomeOf(m) = Home(ws[m].spec.namespace)
    BY <2>1, SpecTypes, PlacesOf
  <2>7. CASE obj'[o] = obj[o]
    BY <1>1, <2>5, <2>7 DEF InLine, UidOf
  <2>8. CASE obj'[o] # obj[o]
    <3>1. o = Target
      BY <1>2, <2>6, <2>8
    <3>2. j = run.step /\ ws[m].spec.namespace = run.w.spec.namespace
      <4>1. Plan[j] = Plan[run.step] /\ ws[m].spec.namespace = run.w.spec.namespace
        BY <3>1, SyncTypes
      <4> QED BY <4>1, SyncTypes, PlanOrder
    <3>3. m # run.name
      BY <1>6, <3>2, SyncTypes
    <3>4. run.step > 1
      <4>1. o # HomeOf(m)
        BY <2>2, <2>8
      <4> QED BY <2>6, <3>1, <3>2, <4>1, SyncTypes
    <3>5. obj[HomeOf(m)].owner \in {RunUid, NoOwner}
      BY <2>3, <2>6, <3>2, <3>4, SyncTypes DEF Conv, NoRival, HoldsHome
    <3>6. UidOf(m) # RunUid /\ UidOf(m) # NoOwner
      BY <2>1, <3>3, SpecTypes, NoneAssumption DEF RunUid, UidOf, Uids, WorkspaceRecords
    <3> QED BY <2>3, <3>5, <3>6 DEF HoldsHome
  <2> QED BY <2>7, <2>8
<1> QED BY <1>3, <1>4, <1>5, <1>6

(* What a reconcile finds as it wants it is its own; and if no event is under
   way it is so not only in the cache. *)
LEMMA SettledTarget ==
  ASSUME TypeOK, Conv, Syncing, Settled
  PROVE  /\ Want # {} /\ Seen \in ObjectRecords /\ Seen # None /\ Seen.owner = RunUid
         /\ Mutated(Kind, Seen.content, Want) = Seen.content
         /\ \A n : n = run.name /\ ~Awaited(n) => obj[Target] = Seen
<1>1. Want # {} /\ Seen # None /\ Updated = Seen /\ Seen \in ObjectRecords
  BY SyncTypes DEF Settled
<1>2. Updated.owner = RunUid /\ Updated.content = Mutated(Kind, Seen.content, Want)
  BY <1>1 DEF Updated, ObjectRecords
<1>3. ASSUME NEW n, n = run.name, ~Awaited(n) PROVE obj[Target] = Seen
  <2>1. n \in OwnerName(Seen)
    BY <1>1, <1>2, <1>3, SyncTypes, OwnerNames
  <2>2. n \notin pend[Target]
    BY <1>3, SyncTypes DEF Awaited
  <2> QED BY <2>1, <2>2, SyncTypes DEF Conv, Fresh, ObjFresh, Seen
<1> QED BY <1>1, <1>2, <1>3

(* A Namespace that is refused belongs to somebody else, or is nobody's. *)
LEMMA RefusedHome ==
  ASSUME TypeOK, Conv, Syncing, Refuses, Kind = "Namespace",
         NEW n, n = run.name, ws[n] # None, ~Awaited(n)
  PROVE  ~HoldsHome(n)
<1> DEFINE ns == run.w.spec.namespace
<1>1. Going(run) /\ ns \in Namespaces /\ Target = Home(ns)
  BY SyncTypes
<1>2. Seen # None /\ Seen.owner # RunUid /\ Seen = cache[Home(ns)]
  BY <1>1 DEF Refuses, MayTake, Seen
<1>3. Abreast(run.w, ws[n])
  BY <1>1 DEF Conv, RunFresh
<1>4. HomeOf(n) = Home(ns) /\ UidOf(n) = RunUid /\ UidOf(n) # NoOwner
  BY <1>3, SyncTypes, NoneAssumption DEF Abreast, HomeOf, Home, UidOf, RunUid
<1> QED BY <1>1, <1>2, <1>4 DEF Conv, Fresh, HomeHonest, HoldsHome

(* A step that makes no call. *)
LEMMA ConvSyncIdle ==
  ASSUME TypeOK, TypeOK', Conv, Paid, SyncNothing \/ SyncConflict \/ SyncRejected
  PROVE  Kept /\ Conv'
<1>1. /\ Syncing /\ UNCHANGED <<wsVars, objVars, detectorVars, queue, watched, mapping>>
  BY DEF SyncNothing, SyncConflict, SyncRejected
<1>2. Kept
  BY <1>1, KeptByNothing DEF Conv
<1>n. PICK n \in Names : n = run.name
  BY <1>1, SyncTypes
<1>i. PICK i \in 1 .. 9 : i = run.step
  BY <1>1, SyncTypes
<1> DEFINE ns == run.w.spec.namespace
<1>3. /\ Going(run) /\ ns \in Namespaces
      /\ i = 1 => Target = Home(ns) /\ Kind = "Namespace"
      /\ Kind = "Namespace" => i = 1
  BY <1>1, <1>i, SyncTypes
<1>4. ASSUME NEW m \in Names, NEW j \in 1 .. 9, m # n \/ j < i PROVE Quiet(m, j)'
  <2>1. ~Busy(m, j)
    BY <1>n, <1>i, <1>3, <1>4, GoingOn DEF Busy
  <2> QED BY <1>2, <2>1 DEF Conv, Converging, Kept
<1>5. ~Awaited(n) /\ ws[n] # None => Abreast(run.w, ws[n]) /\ run.istio = enabled
  BY <1>n, <1>3 DEF Conv, RunFresh
<1>6. CASE SyncRejected
  <2>1. run'.name = n /\ ~Going(run') /\ Retried(run')
    BY <1>n, <1>1, <1>6, Moves DEF SyncRejected
  <2>2. RunFresh' /\ NoRival'
    BY <2>1 DEF RunFresh, NoRival
  <2>3. ASSUME NEW j \in 1 .. 9 PROVE Busy(n, j)'
    BY <2>1 DEF Busy
  <2> QED BY <1>2, <1>4, <2>2, <2>3 DEF Conv, Converging, Kept
<1>7. CASE SyncConflict
  <2>1. run'.name = n /\ ~Going(run')
    BY <1>n, <1>1, <1>7, Moves DEF SyncConflict
  <2>2. RunFresh' /\ NoRival'
    BY <2>1 DEF RunFresh, NoRival
  <2>4. Excused(n) \/ Awaited(n)
    BY <1>n, <1>1, <1>7, RefusedHome DEF SyncConflict, Excused
  <2>5. ASSUME NEW j \in 1 .. 9 PROVE Quiet(n, j)'
    BY <1>2, <2>4 DEF Kept, Quiet
  <2> QED BY <1>2, <1>4, <2>2, <2>5 DEF Conv, Converging, Kept
<1>8. CASE SyncNothing
  <2>1. /\ Going(run') /\ run'.name = n /\ run'.w = run.w /\ run'.istio = run.istio /\ run'.step = i + 1
    BY <1>n, <1>i, <1>1, <1>8, Moves DEF SyncNothing
  <2>2. Settled
    BY <1>8 DEF SyncNothing
  <2>3. /\ Want # {} /\ Seen \in ObjectRecords /\ Seen # None /\ Seen.owner = RunUid
        /\ Mutated(Kind, Seen.content, Want) = Seen.content
    BY <1>1, <2>2, SettledTarget
  <2>4. RunFresh'
    <3> SUFFICES ASSUME ws'[n] # None, ~Awaited(n)' PROVE Abreast(run.w, ws'[n]) /\ run.istio = enabled'
      BY <2>1 DEF RunFresh
    <3>1. ~Awaited(n) /\ Steady(n)
      BY <1>2 DEF Kept
    <3> QED BY <1>5, <3>1 DEF Steady, Abreast
  <2>5. NoRival'
    <3> SUFFICES ASSUME obj[Home(ns)] # None PROVE obj[Home(ns)].owner \in {RunUid, NoOwner}
      BY <1>n, <1>1, <2>1 DEF NoRival, RunUid, objVars, Home
    <3>1. CASE i = 1
      BY <1>3, <2>3, <3>1 DEF Seen, Conv, Fresh, HomeHonest
    <3>2. CASE i > 1
      BY <1>i, <1>3, <3>2 DEF Conv, NoRival
    <3> QED BY <3>1, <3>2
  <2>6. Quiet(n, i)'
    <3>1. SUFFICES ASSUME ~Awaited(n), ws[n] # None PROVE InLine(n, Plan[i])
      BY <1>2 DEF Kept, Quiet, Excused
    <3>2. Abreast(run.w, ws[n]) /\ run.istio = enabled
      BY <1>5, <3>1
    <3>3. /\ Target = <<Plan[i], ws[n].spec.namespace>> /\ RunUid = UidOf(n) /\ UidOf(n)[1] = n
          /\ Want = Desired(ws[n].spec, Plan[i], enabled) /\ Kind = Plan[i]
      BY <1>n, <1>i, <1>1, <3>1, <3>2, SyncTypes DEF Abreast, UidOf, RunUid, Want, Kind
    <3>4. obj[Target] = Seen
      BY <1>n, <1>1, <2>2, <3>1, SettledTarget
    <3> QED BY <2>3, <3>3, <3>4 DEF InLine
  <2>7. ASSUME NEW j \in 1 .. 9, j > i PROVE Busy(n, j)'
    <3>1. run'.step <= j
      BY <2>1, <2>7
    <3> QED BY <2>1, <3>1 DEF Busy
  <2>8. ASSUME NEW j \in 1 .. 9 PROVE Quiet(n, j)' \/ Busy(n, j)'
    <3>1. j < i \/ j = i \/ j > i
      OBVIOUS
    <3> QED BY <1>4, <2>6, <2>7, <3>1
  <2> QED BY <1>2, <1>4, <2>4, <2>5, <2>8 DEF Conv, Converging, Kept
<1> QED BY <1>6, <1>7, <1>8

(* A step whose call is made, or fails halfway. *)
LEMMA ConvSyncCall ==
  ASSUME TypeOK, TypeOK', IstioInformed, Conv, Paid, SyncWrite \/ SyncFault
  PROVE  Conv'
<1>1. /\ Syncing /\ Accepted /\ UNCHANGED <<wsVars, detectorVars, watched, mapping>>
  BY DEF SyncWrite, SyncFault
<1>n. PICK n \in Names : n = run.name
  BY <1>1, SyncTypes
<1>i. PICK i \in 1 .. 9 : i = run.step
  BY <1>1, SyncTypes
<1> DEFINE ns == run.w.spec.namespace
<1>3. Going(run) /\ ns \in Namespaces
  BY <1>1, SyncTypes
<1>4. PICK x \in {There, Sent} : Write(Target, x, queue) /\ (SyncWrite => x = Sent)
  BY DEF SyncWrite, SyncFault
<1>5. /\ Fresh' /\ Remembers
      /\ \A m \in Names, j \in 1 .. 9 : (m # n \/ j < i) /\ Quiet(m, j) => Quiet(m, j)'
  BY <1>1, <1>n, <1>i, <1>4, KeptByWrite
<1>6. ASSUME NEW m \in Names, NEW j \in 1 .. 9, m # n \/ j < i PROVE Quiet(m, j)'
  <2>1. ~Busy(m, j)
    BY <1>n, <1>i, <1>3, <1>6, GoingOn DEF Busy
  <2> QED BY <1>5, <1>6, <2>1 DEF Conv, Converging
<1>7. ~Awaited(n) /\ ws[n] # None => Abreast(run.w, ws[n]) /\ run.istio = enabled
  BY <1>n, <1>3 DEF Conv, RunFresh
<1>8. CASE SyncFault
  <2>1. run'.name = n /\ ~Going(run') /\ Retried(run')
    BY <1>n, <1>1, <1>8, Moves DEF SyncFault
  <2>2. RunFresh' /\ NoRival'
    BY <2>1 DEF RunFresh, NoRival
  <2>3. ASSUME NEW j \in 1 .. 9 PROVE Busy(n, j)'
    BY <2>1 DEF Busy
  <2> QED BY <1>5, <1>6, <2>2, <2>3 DEF Conv, Converging
<1>9. CASE SyncWrite
  <2>1. /\ Going(run') /\ run'.name = n /\ run'.w = run.w /\ run'.istio = run.istio /\ run'.step = i + 1
    BY <1>n, <1>i, <1>1, <1>9, Moves DEF SyncWrite
  <2>2. UNCHANGED <<ws, enabled>>
    BY <1>1 DEF wsVars, detectorVars
  <2>3. ASSUME ws[n] # None, ~Awaited(n)' PROVE Abreast(run.w, ws[n]) /\ run.istio = enabled
    BY <1>5, <1>7, <2>3, StillAwaited
  <2>4. RunFresh'
    BY <2>1, <2>2, <2>3 DEF RunFresh
  <2>5. NoRival'
    <3> SUFFICES ASSUME obj'[Home(ns)] # None PROVE obj'[Home(ns)].owner \in {RunUid, NoOwner}
      BY <1>n, <2>1 DEF NoRival, RunUid, Home
    <3>1. CASE i = 1
      <4>1. Target = Home(ns) /\ Kind = "Namespace"
        BY <1>1, <1>i, <3>1, SyncTypes
      <4>2. Sent.owner = RunUid
        BY <1>1, <4>1, SentWanted, NamespaceWanted DEF Want
      <4> QED BY <1>1, <1>4, <1>9, <4>1, <4>2, HomesWritten
    <3>2. CASE i > 1
      <4>1. obj'[Home(ns)] = obj[Home(ns)] \/ obj'[Home(ns)].owner = RunUid
        BY <1>1, <1>3, <1>4, HomesWritten
      <4> QED BY <1>i, <1>3, <3>2, <4>1 DEF Conv, NoRival
    <3> QED BY <3>1, <3>2
  <2>6. Quiet(n, i)'
    <3> SUFFICES ASSUME ~Awaited(n)', ws[n] # None PROVE InLine(n, Plan[i])'
      BY <2>2 DEF Quiet, Excused
    <3> QED BY <1>1, <1>n, <1>i, <1>4, <1>9, <2>2, <2>3, HomesWritten, SentInLine
  <2>7. ASSUME NEW j \in 1 .. 9, j > i PROVE Busy(n, j)'
    <3>1. run'.step <= j
      BY <2>1, <2>7
    <3> QED BY <2>1, <3>1 DEF Busy
  <2>8. ASSUME NEW j \in 1 .. 9 PROVE Quiet(n, j)' \/ Busy(n, j)'
    <3>1. j < i \/ j = i \/ j > i
      OBVIOUS
    <3> QED BY <1>6, <2>6, <2>7, <3>1
  <2> QED BY <1>5, <1>6, <2>4, <2>5, <2>8 DEF Conv, Converging
<1> QED BY <1>8, <1>9
-----------------------------------------------------------------------------
(* The end of a reconcile. *)

(* A status patch changes nothing but the status. *)
LEMMA PatchAbreast ==
  ASSUME TypeOK, run # None, ws[run.name] # None, NEW next \in StatusRecords
  PROVE  /\ Patched(run.name, next) \in WorkspaceRecords
         /\ Abreast(ws[run.name], Patched(run.name, next))
         /\ Patched(run.name, next).status = MergePatch(ws[run.name].status, run.w.status, next)
<1>1. run.name \in Names /\ Patched(run.name, next) \in WorkspaceRecords
  BY PatchedType
<1>2. ws[run.name] \in WorkspaceRecords /\ Patched(run.name, next) # None
  BY <1>1, SpecTypes, NoneAssumption
<1>3. /\ Patched(run.name, next).inc = ws[run.name].inc /\ Patched(run.name, next).gen = ws[run.name].gen
      /\ Patched(run.name, next).spec = ws[run.name].spec
      /\ Patched(run.name, next).deleting = ws[run.name].deleting
      /\ Patched(run.name, next).status = MergePatch(ws[run.name].status, run.w.status, next)
  BY <1>2 DEF Patched, WorkspaceRecords
<1> QED BY <1>1, <1>2, <1>3 DEF Abreast

LEMMA ReportTypes ==
  ASSUME TypeOK, run # None
  PROVE  /\ run.name \in Names /\ run \in Runs /\ run.w \in WorkspaceRecords
         /\ NewStatus \in StatusRecords
         /\ NotReady(run.w, run.error) \in StatusRecords
         /\ Requeued \in SUBSET Names /\ queue \subseteq Requeued
         /\ Retried(run) => run.name \in Requeued
<1>1. run.error \in Reasons /\ enabled \in BOOLEAN /\ run \in Runs /\ run.name \in Names
      /\ run.w \in WorkspaceRecords
  BY RunsUnfolded, StateTypes DEF TypeOK, Reasons
<1>2. NewStatus \in StatusRecords /\ NotReady(run.w, run.error) \in StatusRecords
  BY <1>1, StatusType DEF NewStatus
<1>3. /\ Requeued \in SUBSET Names /\ queue \subseteq Requeued
      /\ Retried(run) => run.name \in Requeued
  BY <1>1, StateTypes DEF Requeued, Retried
<1> QED BY <1>1, <1>2, <1>3

LEMMA ReportingEnds ==
  ASSUME TypeOK, Reporting
  PROVE  run # None /\ ~Retried(run) /\ ~(run.step <= 9)
<1>1. run # None /\ run.error = "" /\ run.step > Len(Plan)
  BY DEF Reporting
<1>2. run.step > 9 /\ run.step \in 1 .. 10
  BY <1>1, PlanLength, RunTypes, Zenon
<1>3. ~(run.step <= 9)
  BY <1>2
<1> QED BY <1>1, <1>3 DEF Retried

(* The status is stored, or it is not: all a reader of the children knows of
   it is that the name is queued again if it must be. *)
LEMMA ConvPatched ==
  ASSUME TypeOK, TypeOK', Conv, Paid, run # None, run' = None, NEW n \in Names, n = run.name, ws[n] # None,
         NEW w \in {ws[n]} \cup {Patched(n, st) : st \in StatusRecords},
         NEW q \in SUBSET Names, queue \subseteq q, Store(n, w, q),
         UNCHANGED <<obj, cache, pend, enabled, crdEvent, watched, mapping>>,
         (Going(run) /\ run.step <= 9) \/ Retried(run) => n \in q
  PROVE  Kept /\ Conv'
<1>1. w \in WorkspaceRecords \cup {None} /\ Abreast(ws[n], w)
  BY PatchAbreast, SpecTypes DEF Abreast
<1>2. Kept
  BY <1>1, KeptByStore DEF Conv
<1>3. q \subseteq queue'
  BY DEF Store
<1> QED BY <1>2, <1>3, ConvEnded

LEMMA ConvConclude ==
  ASSUME TypeOK, TypeOK', Conv, Paid, Conclude \/ ReportLost
  PROVE  Kept /\ Conv'
<1>1. /\ run # None /\ run' = None
      /\ UNCHANGED <<obj, cache, pend, enabled, crdEvent, watched, mapping>>
  BY DEF Conclude, StatusUnchanged, StatusPatch, StatusFails, ReportError, ReportLost, Reporting,
         objVars, detectorVars
<1>n. PICK n \in Names : n = run.name
  BY <1>1, ReportTypes
<1>2. /\ NewStatus \in StatusRecords /\ NotReady(run.w, run.error) \in StatusRecords
      /\ Requeued \in SUBSET Names /\ queue \subseteq Requeued
      /\ Retried(run) => n \in Requeued
      /\ queue \cup {n} \in SUBSET Names /\ queue \in SUBSET Names
  BY <1>n, <1>1, ReportTypes, StateTypes
<1>3. ASSUME UNCHANGED wsVars, queue \subseteq queue',
             (Going(run) /\ run.step <= 9) \/ Retried(run) => n \in queue'
      PROVE  Kept /\ Conv'
  <2>1. Kept
    BY <1>1, <1>3, KeptByDelivery DEF wsVars, Conv
  <2> QED BY <1>n, <1>1, <1>3, <2>1, ConvEnded
<1>4. CASE StatusUnchanged
  BY <1>3, <1>4, ReportingEnds DEF StatusUnchanged
<1>5. CASE StatusPatch
  <2>1. ws[n] # None /\ Store(n, Patched(n, NewStatus), queue) /\ Reporting
    BY <1>n, <1>5 DEF StatusPatch
  <2> QED BY <1>n, <1>1, <1>2, <2>1, ReportingEnds, ConvPatched
<1>6. CASE StatusFails
  <2>1. CASE ws[n] = None
    BY <1>n, <1>3, <1>6, <2>1 DEF StatusFails
  <2>2. CASE ws[n] # None
    <3>1. PICK w \in {ws[n], Patched(n, NewStatus)} : Store(n, w, queue \cup {n})
      BY <1>n, <1>6, <2>2 DEF StatusFails
    <3> QED BY <1>n, <1>1, <1>2, <2>2, <3>1, ConvPatched
  <2> QED BY <2>1, <2>2
<1>7. CASE ReportError
  <2>1. ~Going(run)
    BY <1>7 DEF ReportError, Going
  <2>2. CASE ws[n] = None
    BY <1>n, <1>2, <1>3, <1>7, <2>1, <2>2 DEF ReportError
  <2>3. CASE ws[n] # None
    <3>1. Store(n, Patched(n, NotReady(run.w, run.error)), Requeued)
      BY <1>n, <1>7, <2>3 DEF ReportError
    <3> QED BY <1>n, <1>1, <1>2, <2>1, <2>3, <3>1, ConvPatched
  <2> QED BY <2>2, <2>3
<1>8. CASE ReportLost
  <2>1. ~Going(run) /\ queue' = Requeued /\ UNCHANGED wsVars
    BY <1>8 DEF ReportLost, Going
  <2> QED BY <1>2, <1>3, <2>1
<1> QED BY <1>4, <1>5, <1>6, <1>7, <1>8 DEF Conclude
-----------------------------------------------------------------------------
(* The watch on CRDs, and the processes. *)

LEMMA KeptByCRDWatch ==
  ASSUME TypeOK, TypeOK', Conv, Paid, CRDWatch
  PROVE  Kept /\ run' = run
<1>1. CASE RefreshDetector
  <2>1. mapping' /\ UNCHANGED <<wsVars, objVars, run>>
    BY <1>1 DEF RefreshDetector
  <2> QED BY <2>1, KeptByAlarm DEF Awaited, Conv
<1>2. CASE EnqueueAll
  <2>1. /\ UNCHANGED <<ws, wsCache, wsPend, obj, cache, pend, enabled, crdEvent, watched, run>>
        /\ queue' = queue \cup {n \in Names : wsCache[n] # None}
    BY <1>2 DEF EnqueueAll, wsVars, objVars, detectorVars
  <2>2. ASSUME NEW n \in Names, ws[n] # None PROVE n \in queue' \/ n \in wsPend'
    BY <2>1, <2>2 DEF Conv, Fresh, WsFresh, Abreast
  <2> QED BY <2>1, <2>2, KeptByDelivery DEF Conv
<1> QED BY <1>1, <1>2 DEF CRDWatch

(* A process that takes over starts from what is stored, and is told of every
   Workspace. *)
LEMMA ConvTakeOver ==
  ASSUME TypeOK, TypeOK', TakeOver
  PROVE  Conv'
<1>1. /\ run' = None /\ UNCHANGED <<ws, obj>> /\ wsCache' = ws /\ cache' = obj
      /\ \A n \in Names : ws[n] # None => n \in queue'
  BY DEF TakeOver
<1>2. Fresh' /\ RunFresh' /\ NoRival'
  BY <1>1 DEF Fresh, WsFresh, ObjFresh, HomeHonest, Abreast, RunFresh, NoRival, Going
<1>3. ASSUME NEW n \in Names, NEW j \in 1 .. 9 PROVE Quiet(n, j)'
  BY <1>1 DEF Quiet, Excused, Awaited
<1> QED BY <1>2, <1>3 DEF Conv, Converging

LEMMA KeptByStandby ==
  ASSUME TypeOK, TypeOK', Conv, Paid, SetUp \/ StartFails
  PROVE  Kept /\ run' = run
<1>1. UNCHANGED <<wsVars, objVars, detectorVars, queue, watched, run, mapping>>
  BY DEF SetUp, StartFails
<1> QED BY <1>1, KeptByNothing DEF Conv
-----------------------------------------------------------------------------
(* The environment. *)

(* Somebody writes one child. *)
LEMMA KeptByOutsideWrite ==
  ASSUME TypeOK, TypeOK', IstioInformed, Conv, Paid,
         NEW o \in Objects, NEW x \in ObjectRecords \cup {None}, Write(o, x, queue),
         UNCHANGED <<wsVars, detectorVars, watched, mapping>>,
         o[1] = "Namespace" =>
           \/ x = None \/ x.owner = NoOwner
           \/ /\ obj[o] # None /\ x.owner = obj[o].owner
              /\ obj[o].deleting => x.deleting,
         o[1] # "Namespace" => obj[o] # None,
         \A n \in Names :
           /\ o[1] \in IstioKinds /\ ~watched
           /\ ws[n] # None /\ obj[o].owner = UidOf(n) /\ o[2] = ws[n].spec.namespace
           => Excused(n) \/ Unseen(o[1])'
  PROVE  Kept
<1> DEFINE new == [obj EXCEPT ![o] = x]
<1>1. /\ new \in [Objects -> ObjectRecords \cup {None}] /\ Commit(new, queue) /\ obj' = new
      /\ new[o] = x /\ \A p \in Objects : p # o => new[p] = obj[p]
  BY StateTypes DEF Write, Commit
<1>2. UNCHANGED <<ws, wsCache, wsPend, enabled, crdEvent, watched, mapping>>
  BY DEF wsVars, detectorVars
<1> HIDE DEF new
<1>3. ASSUME NEW ns \in Namespaces PROVE HomeKept(ns)
  <2>1. CASE Home(ns) = o
    BY <1>1, <2>1, Homes DEF HomeKept
  <2>2. CASE Home(ns) # o
    BY <1>1, <2>2, Homes DEF HomeKept
  <2> QED BY <2>1, <2>2
<1>4. \A p \in Objects : obj[p] = None /\ p[1] # "Namespace" => new[p] = None
  BY <1>1
<1>5. ASSUME NEW n \in Names, NEW k \in IstioKinds, ws[n] # None, ~watched, NEW p,
             p = <<k, ws[n].spec.namespace>>, new[p] # obj[p], obj[p] # None, obj[p].owner = UidOf(n)
      PROVE  Excused(n) \/ Unseen(k)' \/ crdEvent'
  <2>1. p \in Objects /\ p[1] = k /\ p[2] = ws[n].spec.namespace
    BY <1>5, SpecTypes, PlanKinds DEF Objects, IstioKinds
  <2>2. p = o
    BY <1>1, <1>5, <2>1
  <2> QED BY <1>5, <2>1, <2>2
<1> QED BY <1>1, <1>2, <1>3, <1>4, <1>5, KeptByCommit DEF Conv

(* What has been spent of a disturbance that unwatched kinds suffer. *)
LEMMA SpentUnseen ==
  ASSUME TypeOK, Ledger, NEW x \in {"drift", "disown"}, Spend(x), NEW k \in IstioKinds,
         ~watched, watched' = watched
  PROVE  Unseen(k)'
<1>1. x \in Nuisances /\ left' = [left EXCEPT ![x] = @ - 1] /\ left[x] > 0
  BY DEF Spend, Nuisances
<1>2. left[x] \in Nat /\ Budget[x] \in Nat /\ left[x] <= Budget[x] /\ left'[x] = left[x] - 1
  BY <1>1, StateTypes, BudgetAssumption DEF Ledger
<1>3. left'[x] < Budget[x]
  BY <1>1, <1>2
<1> QED BY <1>3 DEF Unseen

(* What is left of a deleted object, and what drift makes of it. *)
LEMMA Remains ==
  ASSUME TypeOK, NEW o \in Objects, obj[o] # None
  PROVE  /\ obj[o] \in ObjectRecords
         /\ \A x \in {AfterDelete(o), [obj[o] EXCEPT !.content = {}]} :
              /\ x \in ObjectRecords \cup {None}
              /\ o[1] = "Namespace" => x # None /\ x.owner = obj[o].owner
                                         /\ (obj[o].deleting => x.deleting)
         /\ [obj[o] EXCEPT !.owner = NoOwner] \in ObjectRecords
         /\ [obj[o] EXCEPT !.owner = NoOwner].owner = NoOwner
<1>1. obj[o] \in ObjectRecords
  BY StateTypes
<1>2. /\ [obj[o] EXCEPT !.content = {}] \in ObjectRecords
      /\ [obj[o] EXCEPT !.deleting = TRUE] \in ObjectRecords
      /\ [obj[o] EXCEPT !.owner = NoOwner] \in ObjectRecords
      /\ [obj[o] EXCEPT !.content = {}].owner = obj[o].owner
      /\ [obj[o] EXCEPT !.content = {}].deleting = obj[o].deleting
      /\ [obj[o] EXCEPT !.deleting = TRUE].owner = obj[o].owner
      /\ [obj[o] EXCEPT !.deleting = TRUE].deleting
      /\ [obj[o] EXCEPT !.owner = NoOwner].owner = NoOwner
  BY <1>1 DEF ObjectRecords
<1> QED BY <1>1, <1>2, NoneAssumption DEF AfterDelete

LEMMA KeptByObjects ==
  ASSUME TypeOK, TypeOK', IstioInformed, Ledger, Conv, Paid, NEW o \in Objects,
         CollectGarbage(o) \/ DrainNamespace(o) \/ Drift(o) \/ Disown(o), mapping' = mapping
  PROVE  Kept
<1>1. obj[o] # None /\ UNCHANGED <<wsVars, detectorVars, watched, mapping>>
  BY DEF CollectGarbage, Doomed, DrainNamespace, Drift, Disown
<1>2. CASE CollectGarbage(o)
  <2>1. AfterDelete(o) \in ObjectRecords \cup {None} /\ Write(o, AfterDelete(o), queue) /\ Doomed(o)
    BY <1>1, <1>2, Remains DEF CollectGarbage
  <2>2. ASSUME NEW n \in Names, ws[n] # None, obj[o].owner = UidOf(n) PROVE Excused(n)
    <3>1. UidOf(n) # NoOwner /\ Live(UidOf(n))
      BY <2>2, SpecTypes, NoneAssumption DEF UidOf, Uids, WorkspaceRecords, Live
    <3> QED BY <2>1, <2>2, <3>1 DEF Doomed, UidOf, Excused
  <2> QED BY <1>1, <2>1, <2>2, Remains, KeptByOutsideWrite
<1>3. CASE DrainNamespace(o)
  <2>1. Write(o, None, queue) /\ Terminating(o[2]) /\ o[1] # "Namespace"
    BY <1>3 DEF DrainNamespace
  <2> QED BY <1>1, <2>1, KeptByOutsideWrite DEF Excused
<1>4. CASE Drift(o)
  <2>1. PICK x \in {AfterDelete(o), [obj[o] EXCEPT !.content = {}]} : Write(o, x, queue)
    BY <1>4 DEF Drift
  <2>2. o[1] \in IstioKinds /\ ~watched => Unseen(o[1])'
    BY <1>1, <1>4, SpentUnseen DEF Drift
  <2> QED BY <1>1, <2>1, <2>2, Remains, KeptByOutsideWrite
<1>5. CASE Disown(o)
  <2>1. Write(o, [obj[o] EXCEPT !.owner = NoOwner], queue)
    BY <1>5 DEF Disown
  <2>2. o[1] \in IstioKinds /\ ~watched => Unseen(o[1])'
    BY <1>1, <1>5, SpentUnseen DEF Disown
  <2> QED BY <1>1, <2>1, <2>2, Remains, KeptByOutsideWrite
<1> QED BY <1>2, <1>3, <1>4, <1>5

LEMMA KeptByHomes ==
  ASSUME TypeOK, TypeOK', IstioInformed, Conv, Paid, NEW ns \in Namespaces,
         FinalizeNamespace(ns) \/ Squat(ns), mapping' = mapping
  PROVE  Kept
<1>1. UNCHANGED <<wsVars, detectorVars, watched, mapping>>
  BY DEF FinalizeNamespace, Squat
<1>2. Home(ns) \in Objects /\ Home(ns)[1] = "Namespace" /\ "Namespace" \notin IstioKinds
  BY Homes DEF IstioKinds
<1>3. CASE FinalizeNamespace(ns)
  <2>1. Write(Home(ns), None, queue)
    BY <1>3 DEF FinalizeNamespace, Home
  <2> QED BY <1>1, <1>2, <2>1, KeptByOutsideWrite
<1>4. CASE Squat(ns)
  <2>1. PICK x \in ObjectRecords : x.owner = NoOwner /\ Write(Home(ns), x, queue)
    BY <1>4 DEF Squat, Home, ObjectRecords
  <2> QED BY <1>1, <1>2, <2>1, KeptByOutsideWrite
<1> QED BY <1>3, <1>4

LEMMA KeptByIstio ==
  ASSUME TypeOK, TypeOK', IstioInformed, Conv, Paid, mapping' = mapping,
         InstallOrRemoveIstio \/ TouchIstio \/ DiscoveryStep
  PROVE  Kept
<1>1. CASE InstallOrRemoveIstio
  <2> DEFINE new == [o \in Objects |-> IF crds /\ o[1] \in IstioKinds THEN None ELSE obj[o]]
  <2>1. new \in [Objects -> ObjectRecords \cup {None}]
    BY StateTypes
  <2>2. /\ Commit(new, queue) /\ crdEvent'
        /\ UNCHANGED <<ws, wsCache, wsPend, enabled, watched, mapping>>
    BY <1>1 DEF InstallOrRemoveIstio, FlipCRDs, wsVars
  <2>3. \A o \in Objects : obj[o] = None => new[o] = None
    OBVIOUS
  <2>4. ASSUME NEW ns \in Namespaces PROVE HomeKept(ns)
    <3>1. new[Home(ns)] = obj[Home(ns)] /\ obj' = new
      BY <2>2, Homes DEF Commit, IstioKinds
    <3> QED BY <3>1 DEF HomeKept
  <2> HIDE DEF new
  <2> QED BY <2>1, <2>2, <2>3, <2>4, KeptByCommit DEF Conv
<1>2. CASE TouchIstio
  BY <1>2, KeptByDelivery DEF TouchIstio, TouchCRDs, wsVars, objVars, Conv
<1>3. CASE DiscoveryStep
  BY <1>3, KeptByDelivery DEF DiscoveryStep, DiscoveryCatchesUp, wsVars, objVars, Conv
<1> QED BY <1>1, <1>2, <1>3

(* What users make of a Workspace is always news to its watch. *)
LEMMA UserStores ==
  ASSUME TypeOK, NEW n \in Names,
         \/ FinishForeground(n) \/ DeleteWorkspace(n) \/ DeleteInForeground(n)
         \/ \E s \in Specs : CreateWorkspace(n, s) \/ EditWorkspace(n, s)
  PROVE  \E w \in WorkspaceRecords \cup {None} : Store(n, w, queue) /\ PassesPredicate(ws[n], w)
<1>1. CASE FinishForeground(n) \/ DeleteWorkspace(n)
  BY <1>1 DEF FinishForeground, DeleteWorkspace, PassesPredicate
<1>2. ASSUME NEW s \in Specs, CreateWorkspace(n, s)
      PROVE  \E w \in WorkspaceRecords : Store(n, w, queue) /\ PassesPredicate(ws[n], w)
  <2> DEFINE w == [inc |-> born[n] + 1, gen |-> 1, spec |-> s, status |-> NoStatus, deleting |-> FALSE]
  <2>1. w \in WorkspaceRecords
    <3>1. NoStatus \in StatusRecords
      BY DEF StatusRecords, NoStatus, Reasons
    <3>2. born[n] + 1 \in Nat
      BY StateTypes
    <3> QED BY <3>1, <3>2 DEF WorkspaceRecords
  <2>2. Store(n, w, queue) /\ ws[n] = None
    BY <1>2 DEF CreateWorkspace
  <2>3. w # None
    BY <2>1, NoneAssumption
  <2> QED BY <2>1, <2>2, <2>3 DEF PassesPredicate
<1>3. ASSUME NEW w \in WorkspaceRecords, Store(n, w, queue), ws[n] # None, w.gen = ws[n].gen + 1
      PROVE  PassesPredicate(ws[n], w)
  BY <1>3, SpecTypes, NoneAssumption DEF PassesPredicate, WorkspaceRecords
<1>4. ASSUME NEW s \in Specs, EditWorkspace(n, s)
      PROVE  \E w \in WorkspaceRecords : Store(n, w, queue) /\ PassesPredicate(ws[n], w)
  <2> DEFINE w == [ws[n] EXCEPT !.spec = s, !.gen = @ + 1]
  <2>1. ws[n] # None /\ Store(n, w, queue)
    BY <1>4 DEF EditWorkspace
  <2>2. ws[n] \in WorkspaceRecords
    BY <2>1, SpecTypes
  <2>3. w \in WorkspaceRecords
    BY <2>2, GenerationType
  <2>4. w.gen = ws[n].gen + 1
    BY <2>2 DEF WorkspaceRecords
  <2> QED BY <1>3, <2>1, <2>3, <2>4
<1>5. CASE DeleteInForeground(n)
  <2> DEFINE w == [ws[n] EXCEPT !.deleting = TRUE, !.gen = @ + 1]
  <2>1. ws[n] # None /\ Store(n, w, queue)
    BY <1>5 DEF DeleteInForeground
  <2>2. ws[n] \in WorkspaceRecords /\ ws[n].spec \in Specs
    BY <2>1, SpecTypes
  <2>3. w \in WorkspaceRecords
    BY <2>2, GenerationType
  <2>4. w.gen = ws[n].gen + 1
    BY <2>2 DEF WorkspaceRecords
  <2> QED BY <1>3, <2>1, <2>3, <2>4
<1> QED BY <1>1, <1>2, <1>4, <1>5

LEMMA KeptByUsers ==
  ASSUME TypeOK, TypeOK', Conv, Paid, mapping' = mapping, NEW n \in Names,
         \/ FinishForeground(n) \/ DeleteWorkspace(n) \/ DeleteInForeground(n)
         \/ \E s \in Specs : CreateWorkspace(n, s) \/ EditWorkspace(n, s)
  PROVE  Kept
<1>1. PICK w \in WorkspaceRecords \cup {None} : Store(n, w, queue) /\ PassesPredicate(ws[n], w)
  BY UserStores
<1>2. UNCHANGED <<obj, cache, pend, enabled, crdEvent, watched, mapping>>
  BY DEF FinishForeground, DeleteWorkspace, DeleteInForeground, CreateWorkspace, EditWorkspace,
         objVars, detectorVars
<1> QED BY <1>1, <1>2, KeptByStore, StateTypes DEF Conv

LEMMA KeptByEnvironment ==
  ASSUME TypeOK, TypeOK', IstioInformed, Ledger, Conv, Paid, Environment, mapping' = mapping
  PROVE  Kept
<1>1. ASSUME NEW o \in Objects, Deliver(o) PROVE Kept
  <2>1. /\ UNCHANGED <<wsVars, obj, detectorVars, watched>> /\ queue' = queue \cup pend[o]
        /\ cache' = [cache EXCEPT ![o] = obj[o]] /\ pend' = [pend EXCEPT ![o] = {}]
    BY <1>1 DEF Deliver
  <2>2. ASSUME NEW p \in Objects
        PROVE  \/ cache'[p] = cache[p] /\ pend[p] \subseteq pend'[p]
               \/ cache'[p] = obj[p] /\ pend[p] \subseteq queue'
    BY <2>1, StateTypes
  <2> QED BY <2>1, <2>2, KeptByDelivery DEF wsVars, detectorVars, Conv
<1>2. ASSUME NEW n \in Names, DeliverWorkspace(n) PROVE Kept
  <2>1. /\ UNCHANGED <<ws, objVars, detectorVars, watched>> /\ queue' = queue \cup (wsPend \cap {n})
        /\ wsCache' = [wsCache EXCEPT ![n] = ws[n]] /\ wsPend' = wsPend \ {n}
    BY <1>2 DEF DeliverWorkspace
  <2>2. ASSUME NEW m \in Names
        PROVE  \/ wsCache'[m] = wsCache[m] /\ (m \in wsPend => m \in wsPend')
               \/ wsCache'[m] = ws[m] /\ (m \in wsPend => m \in queue')
    BY <2>1, StateTypes
  <2> QED BY <2>1, <2>2, KeptByDelivery DEF objVars, detectorVars, Conv
<1> QED BY <1>1, <1>2, KeptByObjects, KeptByHomes, KeptByIstio, KeptByUsers DEF Environment
-----------------------------------------------------------------------------
(* Everything together. *)

LEMMA ConvKept ==
  ASSUME TypeOK, TypeOK', IstioInformed, Ledger, Conv, [Next]_vars
  PROVE  Conv'
<1>1. Paid
  BY BudgetSteps
<1>2. CASE Worker
  <2>1. CASE \E n \in Names : FetchNotFound(n) \/ Fetch(n)
    BY <2>1, ConvFetched
  <2>2. CASE Sync \/ SyncFault
    BY <1>1, <2>2, ConvSyncIdle, ConvSyncCall DEF Sync
  <2>3. CASE Conclude \/ ReportLost
    BY <1>1, <2>3, ConvConclude
  <2> QED BY <1>2, <2>1, <2>2, <2>3 DEF Worker
<1>3. CASE CRDWatch
  BY <1>1, <1>3, KeptByCRDWatch, ConvUnmoved
<1>4. CASE Process
  BY <1>1, <1>4, ConvTakeOver, KeptByStandby, ConvUnmoved DEF Process
<1>5. CASE Environment /\ UNCHANGED <<run, mapping, standby>>
  BY <1>1, <1>5, KeptByEnvironment, ConvUnmoved
<1>6. CASE UNCHANGED vars
  <2>1. UNCHANGED <<wsVars, objVars, detectorVars, watched, mapping, queue, run>>
    BY <1>6 DEF vars, wsVars, objVars, detectorVars
  <2> QED BY <1>1, <2>1, KeptByNothing, ConvUnmoved DEF Conv
<1> QED BY <1>2, <1>3, <1>4, <1>5, <1>6 DEF Next

LEMMA ConvHolds ==
  ASSUME IstioInformed
  PROVE  Spec => []Conv
<1>1. Init => Conv
  <2> SUFFICES ASSUME Init PROVE Conv
    OBVIOUS
  <2>1. /\ run = None /\ \A n \in Names : ws[n] = None
        /\ wsCache = ws /\ cache = obj
    BY DEF Init
  <2> QED BY <2>1 DEF Conv, Fresh, WsFresh, ObjFresh, HomeHonest, RunFresh, NoRival, Converging,
                     Going, Quiet, Excused, Abreast
<1>2. TypeOK /\ TypeOK' /\ Ledger /\ Conv /\ [Next]_vars => Conv'
  BY ConvKept
<1> QED BY <1>1, <1>2, TypeCorrect, LedgerHolds, PTL DEF Spec

(* When the controller rests, the children of every Workspace that holds its
   Namespace are exactly those it asks for: whatever errors, races and lags
   there were on the way, nothing half-done is left without a queued name.  The
   informers of the Istio kinds must not lag: while those kinds are not
   watched, a child that is created from a cache that is behind, and one that is
   left behind in it, is noticed by nobody (IstioInformed). *)
THEOREM ChildrenFollow ==
  ASSUME IstioInformed
  PROVE  Spec => []TargetsConverged
<1>1. ASSUME TypeOK, Conv PROVE TargetsConverged
  <2> SUFFICES ASSUME AtRest, NEW n \in Names, ws[n] # None, HoldsHome(n), NEW k \in Kinds
               PROVE  Unseen(k) \/ InLine(n, k)
    BY DEF TargetsConverged
  <2>1. PICK j \in 1 .. 9 : k = Plan[j]
    BY DEF Kinds
  <2>2. ~Awaited(n) /\ ~Busy(n, j)
    BY DEF AtRest, Awaited, Busy, Going, Retried
  <2>3. ~Excused(n)
    <3>1. (\A ns \in Namespaces : ~Terminating(ns)) /\ ~ws[n].deleting
      BY DEF AtRest
    <3> QED BY <1>1, <3>1, SpecTypes DEF Excused
  <2>4. Quiet(n, j)
    BY <1>1, <2>2 DEF Conv, Converging
  <2> QED BY <2>1, <2>2, <2>3, <2>4 DEF Quiet
<1> QED BY <1>1, TypeCorrect, ConvHolds, PTL
=============================================================================
