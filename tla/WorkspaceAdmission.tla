-------------------------- MODULE WorkspaceAdmission --------------------------
(***************************************************************************)
(* One Workspace as the API server admits requests on it: the defaulter    *)
(* that mirrors the members in labels, the validator that lets only its    *)
(* admins (and privileged identities) change or delete it, and the schema  *)
(* rule that an admin remains.                                             *)
(*                                                                         *)
(* The API server repeats both webhooks when the object has changed under  *)
(* a request, so a request is one step.  Status patches pass neither.      *)
(***************************************************************************)
EXTENDS FiniteSets

CONSTANTS
  Users,        \* who can be a member
  Trusted,      \* the users that admit nobody else
  Labels,       \* labels that do not stand for a member
  Operator,     \* the operator's service account
  Collector,    \* the garbage collector's service account
  Privileged,   \* the identities in a privileged group
  None          \* no Workspace, no role

Roles      == {"admin", "edit", "view"}
Identities == Users \cup Privileged \cup {Operator, Collector}

ASSUME IdentitiesAssumption ==
  /\ Trusted \subseteq Users
  /\ Users \cap (Privileged \cup {Operator, Collector}) = {}
  /\ Operator # Collector
  /\ Users \cap Labels = {}

VARIABLES
  workspace,  \* the Workspace, or None
  founder     \* who created it

vars == <<workspace, founder>>

Memberships == [Users -> Roles \cup {None}]

WorkspaceRecords ==
  [members : Memberships, labels : SUBSET (Users \cup Labels), deleting : BOOLEAN]

ASSUME NoneAssumption == None \notin Roles \cup WorkspaceRecords

(* What the webhooks let through is a Workspace of the schema: roles for
   members, and no label but those asked for or those of members. *)
TypeOK ==
  /\ workspace \in WorkspaceRecords \cup {None}
  /\ founder \in Identities \cup {None}

Init == workspace = None /\ founder = None

-----------------------------------------------------------------------------
Subjects(members) == {u \in Users : members[u] # None}
AdminsOf(members) == {u \in Users : members[u] = "admin"}

(* Mutants: stale labels stay; or there is a label for a role, not a subject. *)
MirroredOnly(labels, members) == labels \cup Subjects(members)
MirroredRoles(labels, members) == (labels \ Users) \cup {members[u] : u \in Users}

(* defaultMemberLabels. *)
DefaultMemberLabels(labels, members) == (labels \ Users) \cup Subjects(members)

(* Mutant: the members the request would leave are asked. *)
AuthorizeByNew(who, old, new) ==
  who \in Privileged \cup {Operator} \/ who \in AdminsOf(new)

(* AuthorizeModification, of a request that changes the members from old to new. *)
AuthorizeModification(who, old, new) ==
  who \in Privileged \cup {Operator} \/ who \in AdminsOf(old)

(* What the schema admits. *)
Valid(members) == AdminsOf(members) # {}

(* A trusted user, and who acts for the cluster, gives roles to trusted users
   only; a user who is not trusted may ask for anything. *)
Asks(who, members) == who \in Users \ Trusted \/ Subjects(members) \subseteq Trusted

(* ValidateCreate lets everybody. *)
Create(who, members, labels) ==
  /\ workspace = None
  /\ Asks(who, members) /\ Valid(members)
  /\ workspace' = [ members |-> members, labels |-> DefaultMemberLabels(labels, members),
                    deleting |-> FALSE ]
  /\ founder' = who

Update(who, members, labels) ==
  /\ workspace # None
  /\ Asks(who, members) /\ Valid(members)
  /\ AuthorizeModification(who, workspace.members, members)
  /\ workspace' = [ workspace EXCEPT !.members = members,
                                     !.labels = DefaultMemberLabels(labels, members) ]
  /\ UNCHANGED founder

Delete(who) ==
  /\ workspace # None
  /\ AuthorizeModification(who, workspace.members, workspace.members)
  /\ workspace' = None /\ founder' = None

(* Foreground deletion leaves the Workspace with a finalizer ... *)
DeleteInForeground(who) ==
  /\ workspace # None /\ ~workspace.deleting
  /\ AuthorizeModification(who, workspace.members, workspace.members)
  /\ workspace' = [workspace EXCEPT !.deleting = TRUE]
  /\ UNCHANGED founder

(* ... that somebody takes off: an update like any other to the webhooks, so
   the garbage collector, which should do it when the children are gone, may
   not, unless it is in a privileged group. *)
FinishForeground(who) ==
  /\ workspace # None /\ workspace.deleting
  /\ AuthorizeModification(who, workspace.members, workspace.members)
  /\ workspace' = None /\ founder' = None

Next ==
  \E who \in Identities :
    \/ \E members \in Memberships, labels \in SUBSET (Users \cup Labels) :
         Create(who, members, labels) \/ Update(who, members, labels)
    \/ Delete(who) \/ DeleteInForeground(who) \/ FinishForeground(who)

Spec == Init /\ [][Next]_vars

-----------------------------------------------------------------------------
(* The labels that stand for members are those of the current members,
   whatever labels and members a request carries: a selector finds all
   Workspaces of a user and no other (WorkspaceCustomDefaulter). *)
LabelsMirror == workspace # None => workspace.labels \cap Users = Subjects(workspace.members)

(* A Workspace that a trusted user founded is never in other hands: no chain
   of requests makes a member of anyone its admins did not admit, and one of
   them can always modify it (AuthorizeModification and the schema's rule). *)
Governed ==
  workspace # None /\ founder \in Trusted =>
    /\ Subjects(workspace.members) \subseteq Trusted
    /\ \E u \in Trusted : AuthorizeModification(u, workspace.members, workspace.members)
=============================================================================
