----------------------------- MODULE Workspace -----------------------------
(***************************************************************************)
(* What a Workspace asks for, what the cluster must hold when it is        *)
(* reconciled, and what its status then says.                              *)
(*                                                                         *)
(* Every object the operator writes is reduced to a set of atoms, its      *)
(* content: the users a RoleBinding binds, the limits of a quota, the      *)
(* namespaces a network rule admits.  The empty set is "not wanted": the   *)
(* code deletes the object in exactly that case.                           *)
(***************************************************************************)
EXTENDS Naturals, FiniteSets, Sequences

CONSTANTS
  Names,        \* names of Workspaces (cluster-scoped)
  Users,        \* member subjects
  Namespaces,   \* namespaces a Workspace may ask for (never a reserved one)
  Limits,       \* atoms of a ResourceQuota or LimitRange
  Specs,        \* the specs users submit
  None,         \* no object, no role, no run
  NoOwner       \* the owner of an object without an owner reference

Roles      == {"admin", "edit", "view"}
IstioKinds == {"PeerAuthentication", "AuthorizationPolicy"}

(* The order in which reconcileResources writes the children. *)
Plan == << "Namespace", "admin", "edit", "view", "ResourceQuota", "LimitRange",
           "NetworkPolicy", "PeerAuthentication", "AuthorizationPolicy" >>

Kinds   == {Plan[i] : i \in 1 .. 9}
Objects == Kinds \X Namespaces

(* An incarnation of a Workspace: its name and which creation of it. *)
Uids == Names \X Nat

SpecRecords ==
  [ namespace : Namespaces, members : [Users -> Roles \cup {None}],
    quota : SUBSET Limits, limitRange : SUBSET Limits,
    isolated : BOOLEAN, allowed : SUBSET Namespaces ]

(* The validation rules the API server applies to a spec. *)
Admitted(s) ==
  /\ \E u \in Users : s.members[u] = "admin"
  /\ s.allowed # {} => s.isolated

Atoms == Users \cup Namespaces \cup Limits
           \cup {"managed", "istio-injection", "STRICT"}

ObjectRecords == [owner : Uids \cup {NoOwner}, content : SUBSET Atoms, deleting : BOOLEAN]

Reasons == {"", "Reconciled", "NamespaceConflict", "ReconcileError"}

StatusRecords ==
  [ observedGeneration : Nat, refs : SUBSET Kinds,
    ready : [reason : Reasons, generation : Nat] ]

NoStatus == [ observedGeneration |-> 0, refs |-> {},
              ready |-> [reason |-> "", generation |-> 0] ]

WorkspaceRecords ==
  [inc : Nat, gen : Nat, spec : Specs, status : StatusRecords, deleting : BOOLEAN]

ASSUME SpecsAssumption == Specs \subseteq {s \in SpecRecords : Admitted(s)}
ASSUME NoneAssumption  == /\ None \notin Uids \cup ObjectRecords \cup WorkspaceRecords
                          /\ None \notin Roles \cup Names \cup {NoOwner}
                          /\ NoOwner \notin Uids

-----------------------------------------------------------------------------
(* What must be in the cluster. *)

(* Who a NetworkPolicy or an AuthorizationPolicy lets in. *)
Admits(s) == {s.namespace} \cup s.allowed

(* The content of the child of kind k when the detector says istio. *)
Desired(s, k, istio) ==
  CASE k = "Namespace"           -> {"managed"} \cup (IF istio THEN {"istio-injection"} ELSE {})
    [] k \in Roles               -> {u \in Users : s.members[u] = k}
    [] k = "ResourceQuota"       -> s.quota
    [] k = "LimitRange"          -> s.limitRange
    [] k = "NetworkPolicy"       -> IF s.isolated /\ ~istio THEN Admits(s) ELSE {}
    [] k = "PeerAuthentication"  -> IF s.isolated /\ istio THEN {"STRICT"} ELSE {}
    [] k = "AuthorizationPolicy" -> IF s.isolated /\ istio THEN Admits(s) ELSE {}

(* The mutate function of CreateOrUpdate leaves a Namespace's other labels
   alone and replaces the whole content of every other kind. *)
Mutated(k, content, want) ==
  IF k = "Namespace" THEN (content \ {"istio-injection"}) \cup want ELSE want

(* Mutant: whoever owns it, it is taken. *)
MayTakeAny(k, owner, uid) == TRUE

(* IsOwned guards a Namespace and goes by UID; SetControllerReference goes by
   name: it refuses a child that another Workspace controls, adopts one that
   nothing does, and takes on its namesake's. *)
MayTake(k, owner, uid) ==
  IF k = "Namespace" THEN owner = uid
                     ELSE owner = NoOwner \/ owner \in {uid[1]} \X Nat

-----------------------------------------------------------------------------
(* What the status says. *)

(* updateStatus: one reference per child that is wanted, and Ready=True. *)
Reconciled(w, istio) ==
  [ observedGeneration |-> w.gen,
    refs  |-> {k \in Kinds : Desired(w.spec, k, istio) # {}},
    ready |-> [reason |-> "Reconciled", generation |-> w.gen] ]

(* Mutants: the failure is reported on an empty status; or with the
   generation that was reconciled last. *)
NotReadyAfresh(w, reason) ==
  [NoStatus EXCEPT !.ready = [reason |-> reason, generation |-> w.gen]]
NotReadyUnobserved(w, reason) ==
  [w.status EXCEPT !.ready = [reason |-> reason, generation |-> w.gen]]

(* setReadyConditionFalse touches nothing but the condition and the generation. *)
NotReady(w, reason) ==
  [ w.status EXCEPT !.observedGeneration = w.gen,
                    !.ready = [reason |-> reason, generation |-> w.gen] ]

(* A merge patch carries only what differs between base and next, and
   leaves the rest of the stored status as it is.  A list goes as a whole:
   the role references, and the conditions. *)
MergePatch(stored, base, next) ==
  LET changed == {k \in Kinds :
                    IF k \in Roles THEN base.refs \cap Roles # next.refs \cap Roles
                    ELSE k \in base.refs <=> k \notin next.refs}
  IN [ observedGeneration |-> IF base.observedGeneration = next.observedGeneration
                              THEN stored.observedGeneration ELSE next.observedGeneration,
       refs  |-> (stored.refs \ changed) \cup (next.refs \cap changed),
       ready |-> IF base.ready = next.ready THEN stored.ready ELSE next.ready ]
=============================================================================
