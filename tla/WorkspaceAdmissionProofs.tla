---------------------- MODULE WorkspaceAdmissionProofs ----------------------
(***************************************************************************)
(* Theorems about WorkspaceAdmission, for any users, labels and identities. *)
(***************************************************************************)
EXTENDS WorkspaceAdmission, TLAPS

(* A membership has its members among the users. *)
LEMMA SubjectsOfUsers ==
  ASSUME NEW members \in Memberships
  PROVE  AdminsOf(members) \subseteq Subjects(members) /\ Subjects(members) \subseteq Users
BY NoneAssumption DEF Memberships, Roles, AdminsOf, Subjects

(* What Create leaves. *)
LEMMA CreateType ==
  ASSUME NEW who \in Identities, NEW members \in Memberships,
         NEW labels \in SUBSET (Users \cup Labels), Create(who, members, labels)
  PROVE  /\ workspace' \in WorkspaceRecords
         /\ workspace'.members = members
         /\ workspace'.labels = DefaultMemberLabels(labels, members)
         /\ founder' \in Identities
BY SubjectsOfUsers DEF Create, WorkspaceRecords, DefaultMemberLabels

(* What Update leaves. *)
LEMMA UpdateType ==
  ASSUME NEW who \in Identities, NEW members \in Memberships,
         NEW labels \in SUBSET (Users \cup Labels), TypeOK, Update(who, members, labels)
  PROVE  /\ workspace' \in WorkspaceRecords
         /\ workspace'.members = members
         /\ workspace'.labels = DefaultMemberLabels(labels, members)
         /\ founder' = founder
<1>1. workspace \in WorkspaceRecords  BY DEF Update, TypeOK
<1>2. DefaultMemberLabels(labels, members) \in SUBSET (Users \cup Labels)
  BY SubjectsOfUsers DEF DefaultMemberLabels
<1>. QED  BY <1>1, <1>2 DEF Update, WorkspaceRecords

(* Type correctness, for every step the API server takes. *)
THEOREM AdmissionTypeCorrect == Spec => []TypeOK
<1>1. Init => TypeOK  BY DEF Init, TypeOK
<1>2. TypeOK /\ [Next]_vars => TypeOK'
  <2>. SUFFICES ASSUME TypeOK, [Next]_vars PROVE TypeOK'  OBVIOUS
  <2>1. ASSUME NEW who \in Identities, NEW members \in Memberships,
               NEW labels \in SUBSET (Users \cup Labels), Create(who, members, labels)
        PROVE  TypeOK'
    BY <2>1, CreateType DEF TypeOK
  <2>2. ASSUME NEW who \in Identities, NEW members \in Memberships,
               NEW labels \in SUBSET (Users \cup Labels), Update(who, members, labels)
        PROVE  TypeOK'
    BY <2>2, UpdateType DEF TypeOK
  <2>3. ASSUME NEW who \in Identities, Delete(who) PROVE TypeOK'
    BY <2>3 DEF Delete, TypeOK
  <2>4. ASSUME NEW who \in Identities, DeleteInForeground(who) PROVE TypeOK'
    BY <2>4 DEF DeleteInForeground, TypeOK, WorkspaceRecords
  <2>5. ASSUME NEW who \in Identities, FinishForeground(who) PROVE TypeOK'
    BY <2>5 DEF FinishForeground, TypeOK
  <2>6. CASE UNCHANGED vars  BY <2>6 DEF vars, TypeOK
  <2>. QED  BY <2>1, <2>2, <2>3, <2>4, <2>5, <2>6 DEF Next
<1>. QED  BY <1>1, <1>2, PTL DEF Spec

(* The labels of members are those of the current members (LabelsMirror):
   every write of the members goes through the defaulter. *)
THEOREM LabelsFollow == Spec => []LabelsMirror
<1>1. Init => LabelsMirror  BY DEF Init, LabelsMirror
<1>2. TypeOK /\ LabelsMirror /\ [Next]_vars => LabelsMirror'
  <2>. SUFFICES ASSUME TypeOK, LabelsMirror, [Next]_vars PROVE LabelsMirror'  OBVIOUS
  <2>0. \A members \in Memberships, labels \in SUBSET (Users \cup Labels) :
          DefaultMemberLabels(labels, members) \cap Users = Subjects(members)
    BY SubjectsOfUsers DEF DefaultMemberLabels
  <2>1. ASSUME NEW who \in Identities, NEW members \in Memberships,
               NEW labels \in SUBSET (Users \cup Labels), Create(who, members, labels)
        PROVE  LabelsMirror'
    BY <2>0, <2>1, CreateType DEF LabelsMirror
  <2>2. ASSUME NEW who \in Identities, NEW members \in Memberships,
               NEW labels \in SUBSET (Users \cup Labels), Update(who, members, labels)
        PROVE  LabelsMirror'
    BY <2>0, <2>2, UpdateType DEF LabelsMirror
  <2>3. ASSUME NEW who \in Identities, Delete(who) PROVE LabelsMirror'
    BY <2>3 DEF Delete, LabelsMirror
  <2>4. ASSUME NEW who \in Identities, DeleteInForeground(who) PROVE LabelsMirror'
    <3>1. workspace \in WorkspaceRecords  BY <2>4 DEF DeleteInForeground, TypeOK
    <3>2. workspace'.labels = workspace.labels /\ workspace'.members = workspace.members
      BY <2>4, <3>1 DEF DeleteInForeground, WorkspaceRecords
    <3>. QED  BY <2>4, <3>2 DEF DeleteInForeground, LabelsMirror
  <2>5. ASSUME NEW who \in Identities, FinishForeground(who) PROVE LabelsMirror'
    BY <2>5 DEF FinishForeground, LabelsMirror
  <2>6. CASE UNCHANGED vars  BY <2>6 DEF vars, LabelsMirror
  <2>. QED  BY <2>1, <2>2, <2>3, <2>4, <2>5, <2>6 DEF Next
<1>. QED  BY <1>1, <1>2, AdmissionTypeCorrect, PTL DEF Spec

-----------------------------------------------------------------------------
(* Governed, without its existential: the members are trusted, and one is an
   admin.  Stated for any membership, so that a step is a change of members. *)
InTrust(members) == Subjects(members) \subseteq Trusted /\ Valid(members)

InTrustInv == workspace # None /\ founder \in Trusted => InTrust(workspace.members)

(* Who may modify a Workspace in trust asks for trusted members only. *)
LEMMA TrustKept ==
  ASSUME NEW who \in Identities, NEW old \in Memberships, NEW new \in Memberships,
         InTrust(old), AuthorizeModification(who, old, new), Asks(who, new), Valid(new)
  PROVE  InTrust(new)
<1>1. who \notin Users \ Trusted
  BY IdentitiesAssumption, SubjectsOfUsers DEF AuthorizeModification, InTrust
<1>. QED  BY <1>1 DEF Asks, InTrust

(* In trust, a trusted user may modify. *)
LEMMA TrustGoverns ==
  ASSUME NEW members \in Memberships, InTrust(members)
  PROVE  \E u \in Trusted : AuthorizeModification(u, members, members)
<1>1. PICK u \in AdminsOf(members) : TRUE  BY DEF InTrust, Valid
<1>2. u \in Trusted  BY <1>1, SubjectsOfUsers DEF InTrust
<1>. QED  BY <1>1, <1>2 DEF AuthorizeModification

(* A Workspace founded by a trusted user stays in trusted hands (Governed),
   however many users there are and whatever they ask for. *)
THEOREM StaysGoverned == Spec => []Governed
<1>1. Init => InTrustInv  BY DEF Init, InTrustInv
<1>2. TypeOK /\ InTrustInv /\ [Next]_vars => InTrustInv'
  <2>. SUFFICES ASSUME TypeOK, InTrustInv, [Next]_vars PROVE InTrustInv'  OBVIOUS
  <2>1. ASSUME NEW who \in Identities, NEW members \in Memberships,
               NEW labels \in SUBSET (Users \cup Labels), Create(who, members, labels)
        PROVE  InTrustInv'
    <3>1. founder' = who /\ Asks(who, members) /\ Valid(members)  BY <2>1 DEF Create
    <3>2. who \in Trusted => InTrust(members)  BY <3>1 DEF Asks, InTrust
    <3>. QED  BY <2>1, <3>1, <3>2, CreateType DEF InTrustInv, InTrust, Subjects, Valid, AdminsOf
  <2>2. ASSUME NEW who \in Identities, NEW members \in Memberships,
               NEW labels \in SUBSET (Users \cup Labels), Update(who, members, labels)
        PROVE  InTrustInv'
    <3>. SUFFICES ASSUME founder \in Trusted PROVE InTrust(members)
      BY <2>2, UpdateType DEF InTrustInv, InTrust, Subjects, Valid, AdminsOf
    <3>1. workspace.members \in Memberships /\ InTrust(workspace.members)
      BY <2>2 DEF Update, TypeOK, WorkspaceRecords, InTrustInv
    <3>. QED  BY <2>2, <3>1, TrustKept DEF Update
  <2>3. ASSUME NEW who \in Identities, Delete(who) PROVE InTrustInv'
    BY <2>3 DEF Delete, InTrustInv
  <2>4. ASSUME NEW who \in Identities, DeleteInForeground(who) PROVE InTrustInv'
    <3>1. workspace \in WorkspaceRecords  BY <2>4 DEF DeleteInForeground, TypeOK
    <3>2. workspace'.members = workspace.members /\ founder' = founder
      BY <2>4, <3>1 DEF DeleteInForeground, WorkspaceRecords
    <3>. QED
      BY <2>4, <3>2 DEF DeleteInForeground, InTrustInv, InTrust, Subjects, Valid, AdminsOf
  <2>5. ASSUME NEW who \in Identities, FinishForeground(who) PROVE InTrustInv'
    BY <2>5 DEF FinishForeground, InTrustInv
  <2>6. CASE UNCHANGED vars
    BY <2>6 DEF vars, InTrustInv, InTrust, Subjects, Valid, AdminsOf
  <2>. QED  BY <2>1, <2>2, <2>3, <2>4, <2>5, <2>6 DEF Next
<1>3. TypeOK /\ InTrustInv => Governed
  <2>. SUFFICES ASSUME TypeOK, InTrustInv, workspace # None, founder \in Trusted
                PROVE  /\ Subjects(workspace.members) \subseteq Trusted
                       /\ \E u \in Trusted :
                            AuthorizeModification(u, workspace.members, workspace.members)
    BY DEF Governed
  <2>1. workspace.members \in Memberships /\ InTrust(workspace.members)
    BY DEF TypeOK, WorkspaceRecords, InTrustInv
  <2>. QED  BY <2>1, TrustGoverns DEF InTrust
<1>. QED  BY <1>1, <1>2, <1>3, AdmissionTypeCorrect, PTL DEF Spec
=============================================================================
