-------------------------- MODULE WorkspaceCluster --------------------------
(***************************************************************************)
(* What surrounds the Workspace controller: the API server's objects, the  *)
(* informer caches the controller reads, the work queue their events fill, *)
(* garbage collection, users, and everybody else who touches the cluster.  *)
(*                                                                         *)
(* None of this is code of the repository.  It is what the manager of      *)
(* controller-runtime and the API server do, as far as the controller's    *)
(* code relies on it.                                                      *)
(***************************************************************************)
EXTENDS Workspace, IstioDetector

CONSTANTS
  Lagging,   \* informers that deliver an event later than the write it reports
  Budget     \* how often each kind of disturbance may happen

VARIABLES
  ws,        \* the Workspaces, by name
  born,      \* how often each name has been created
  wsCache,   \* the Workspace informer's copy
  wsPend,    \* names whose Workspace event is still to be delivered
  obj,       \* the children, by kind and namespace
  cache,     \* the informers' copy of them
  pend,      \* the names an object's undelivered events will enqueue
  queue,     \* the work queue, which holds a name at most once
  watched,   \* Owns() was registered for the Istio kinds
  left       \* what remains of the Budget

wsVars  == <<ws, born, wsCache, wsPend>>
objVars == <<obj, cache, pend>>

Nuisances == {"create", "edit", "delete", "foreground", "squat", "drift", "disown",
              "crd", "transport", "status", "api", "report", "restart"}

ASSUME LaggingAssumption == Lagging \subseteq Kinds \cup {"workspace", "discovery"}
ASSUME BudgetAssumption  == Budget \in [Nuisances -> Nat]

ClusterTypeOK ==
  /\ DetectorTypeOK
  /\ ws \in [Names -> WorkspaceRecords \cup {None}]
  /\ born \in [Names -> Nat]
  /\ wsCache \in [Names -> WorkspaceRecords \cup {None}]
  /\ wsPend \subseteq Names
  /\ obj \in [Objects -> ObjectRecords \cup {None}]
  /\ cache \in [Objects -> ObjectRecords \cup {None}]
  /\ pend \in [Objects -> SUBSET Names]
  /\ queue \subseteq Names
  /\ watched \in BOOLEAN
  /\ left \in [Nuisances -> Nat]

Spend(x) == left[x] > 0 /\ left' = [left EXCEPT ![x] = @ - 1]

-----------------------------------------------------------------------------
(* Writes, and the events they cause. *)

OwnerName(x) == IF x = None \/ x.owner = NoOwner THEN {} ELSE {x.owner[1]}

(* Mutant: only objects that are still there wake their owner. *)
WokenByLiving(o, new) ==
  IF new[o] = obj[o] \/ (o[1] \in IstioKinds /\ ~watched) THEN {} ELSE OwnerName(new[o])

(* EnqueueRequestForOwner maps an event to the owner's name, never its UID:
   an update to the old and the new owner, a deletion to the last one. *)
Woken(o, new) ==
  IF new[o] = obj[o] \/ (o[1] \in IstioKinds /\ ~watched) THEN {}
  ELSE OwnerName(obj[o]) \cup OwnerName(new[o])

(* The children become new; q is the work queue but for the events. *)
Commit(new, q) ==
  /\ obj'   = new
  /\ cache' = [o \in Objects |-> IF o[1] \in Lagging THEN cache[o] ELSE new[o]]
  /\ pend'  = [o \in Objects |-> pend[o] \cup (IF o[1] \in Lagging THEN Woken(o, new) ELSE {})]
  /\ queue' = q \cup UNION {Woken(o, new) : o \in {p \in Objects : p[1] \notin Lagging}}

Write(o, x, q) == Commit([obj EXCEPT ![o] = x], q)

(* GenerationChangedPredicate lets creations and deletions pass, and an
   update only if it changes the generation. *)
PassesPredicate(old, new) ==
  \/ old = None /\ new # None
  \/ old # None /\ new = None
  \/ old # None /\ new # None /\ old.gen # new.gen

(* Workspace n becomes w. *)
Store(n, w, q) ==
  LET woken == IF PassesPredicate(ws[n], w) THEN {n} ELSE {}
      now   == "workspace" \notin Lagging
  IN /\ ws'      = [ws EXCEPT ![n] = w]
     /\ wsCache' = IF now THEN [wsCache EXCEPT ![n] = w] ELSE wsCache
     /\ wsPend'  = IF now THEN wsPend ELSE wsPend \cup woken
     /\ queue'   = IF now THEN q \cup woken ELSE q

(* A lagging informer delivers what it has missed of one object. *)
Deliver(o) ==
  /\ cache[o] # obj[o] \/ pend[o] # {}
  /\ cache' = [cache EXCEPT ![o] = obj[o]]
  /\ pend'  = [pend EXCEPT ![o] = {}]
  /\ queue' = queue \cup pend[o]
  /\ UNCHANGED <<wsVars, obj, detectorVars, watched, left>>

DeliverWorkspace(n) ==
  /\ wsCache[n] # ws[n] \/ n \in wsPend
  /\ wsCache' = [wsCache EXCEPT ![n] = ws[n]]
  /\ wsPend'  = wsPend \ {n}
  /\ queue'   = queue \cup (wsPend \cap {n})
  /\ UNCHANGED <<ws, born, objVars, detectorVars, watched, left>>

-----------------------------------------------------------------------------
(* Garbage collection and the namespace controller. *)

Live(uid) == ws[uid[1]] # None /\ ws[uid[1]].inc = uid[2]

(* Its owner is gone, or waits for its dependents to go first. *)
Doomed(o) ==
  /\ obj[o] # None
  /\ obj[o].owner # NoOwner
  /\ Live(obj[o].owner) => ws[obj[o].owner[1]].deleting

Terminating(ns) ==
  obj[<<"Namespace", ns>>] # None /\ obj[<<"Namespace", ns>>].deleting

(* What a deletion leaves: a Namespace goes only once it is empty. *)
AfterDelete(o) == IF o[1] = "Namespace" THEN [obj[o] EXCEPT !.deleting = TRUE] ELSE None

CollectGarbage(o) ==
  /\ Doomed(o)
  /\ AfterDelete(o) # obj[o]
  /\ Write(o, AfterDelete(o), queue)
  /\ UNCHANGED <<wsVars, detectorVars, watched, left>>

(* The namespace controller deletes what a terminating Namespace holds ... *)
DrainNamespace(o) ==
  /\ o[1] # "Namespace" /\ obj[o] # None
  /\ Terminating(o[2])
  /\ Write(o, None, queue)
  /\ UNCHANGED <<wsVars, detectorVars, watched, left>>

(* ... and then the Namespace. *)
FinalizeNamespace(ns) ==
  /\ Terminating(ns)
  /\ \A k \in Kinds \ {"Namespace"} : obj[<<k, ns>>] = None
  /\ Write(<<"Namespace", ns>>, None, queue)
  /\ UNCHANGED <<wsVars, detectorVars, watched, left>>

(* A Workspace deleted in the foreground goes when nothing of it is left and
   somebody whom the webhook admits takes its finalizer off: the garbage
   collector is not admitted, see WorkspaceAdmission. *)
FinishForeground(n) ==
  /\ ws[n] # None /\ ws[n].deleting
  /\ \A o \in Objects : obj[o] # None => obj[o].owner # <<n, ws[n].inc>>
  /\ Store(n, None, queue)
  /\ UNCHANGED <<born, objVars, detectorVars, watched, left>>

-----------------------------------------------------------------------------
(* Users and strangers. *)

CreateWorkspace(n, s) ==
  /\ ws[n] = None
  /\ Spend("create")
  /\ born' = [born EXCEPT ![n] = @ + 1]
  /\ Store(n, [inc |-> born[n] + 1, gen |-> 1, spec |-> s, status |-> NoStatus,
               deleting |-> FALSE], queue)
  /\ UNCHANGED <<objVars, detectorVars, watched>>

(* The namespace of a Workspace is immutable. *)
EditWorkspace(n, s) ==
  /\ ws[n] # None
  /\ s # ws[n].spec /\ s.namespace = ws[n].spec.namespace
  /\ Spend("edit")
  /\ Store(n, [ws[n] EXCEPT !.spec = s, !.gen = @ + 1], queue)
  /\ UNCHANGED <<born, objVars, detectorVars, watched>>

DeleteWorkspace(n) ==
  /\ ws[n] # None
  /\ Spend("delete")
  /\ Store(n, None, queue)
  /\ UNCHANGED <<born, objVars, detectorVars, watched>>

DeleteInForeground(n) ==
  /\ ws[n] # None /\ ~ws[n].deleting
  /\ Spend("foreground")
  /\ Store(n, [ws[n] EXCEPT !.deleting = TRUE, !.gen = @ + 1], queue)
  /\ UNCHANGED <<born, objVars, detectorVars, watched>>

(* Somebody else creates a Namespace of a name the operator may want. *)
Squat(ns) ==
  /\ obj[<<"Namespace", ns>>] = None
  /\ Spend("squat")
  /\ Write(<<"Namespace", ns>>, [owner |-> NoOwner, content |-> {}, deleting |-> FALSE], queue)
  /\ UNCHANGED <<wsVars, detectorVars, watched>>

(* Somebody deletes an object, or changes what is in it. *)
Drift(o) ==
  /\ obj[o] # None
  /\ Spend("drift")
  /\ \E x \in {AfterDelete(o), [obj[o] EXCEPT !.content = {}]} :
       x # obj[o] /\ Write(o, x, queue)
  /\ UNCHANGED <<wsVars, detectorVars, watched>>

(* Somebody strips an object of its owner reference. *)
Disown(o) ==
  /\ obj[o] # None /\ obj[o].owner # NoOwner
  /\ Spend("disown")
  /\ Write(o, [obj[o] EXCEPT !.owner = NoOwner], queue)
  /\ UNCHANGED <<wsVars, detectorVars, watched>>

(* Istio comes or goes; with its CRDs go all objects of their kinds. *)
InstallOrRemoveIstio ==
  /\ Spend("crd")
  /\ FlipCRDs("discovery" \in Lagging)
  /\ Commit([o \in Objects |-> IF crds /\ o[1] \in IstioKinds THEN None ELSE obj[o]], queue)
  /\ UNCHANGED <<wsVars, watched>>

(* A CRD event that changes nothing: an upgrade, or the periodic resync. *)
TouchIstio ==
  /\ Spend("crd")
  /\ TouchCRDs
  /\ UNCHANGED <<wsVars, objVars, queue, watched>>

DiscoveryStep ==
  /\ DiscoveryCatchesUp
  /\ UNCHANGED <<wsVars, objVars, queue, watched, left>>

Environment ==
  \/ \E o \in Objects : Deliver(o) \/ CollectGarbage(o) \/ DrainNamespace(o)
                          \/ Drift(o) \/ Disown(o)
  \/ \E n \in Names : \/ DeliverWorkspace(n) \/ FinishForeground(n)
                      \/ DeleteWorkspace(n) \/ DeleteInForeground(n)
                      \/ \E s \in Specs : CreateWorkspace(n, s) \/ EditWorkspace(n, s)
  \/ \E ns \in Namespaces : FinalizeNamespace(ns) \/ Squat(ns)
  \/ InstallOrRemoveIstio \/ TouchIstio
  \/ DiscoveryStep
=============================================================================
