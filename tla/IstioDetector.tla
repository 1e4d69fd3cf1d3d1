--------------------------- MODULE IstioDetector ---------------------------
(***************************************************************************)
(* The operator's belief about Istio: an atomic flag, set from the         *)
(* Discovery API when the operator starts and on every event of a CRD of   *)
(* the security.istio.io group.                                            *)
(***************************************************************************)
VARIABLES
  crds,      \* the CRDs of security.istio.io are installed
  served,    \* the Discovery API answers for security.istio.io/v1
  enabled,   \* IstioDetector.enabled
  crdEvent   \* a CRD event has not reached the operator yet

detectorVars == <<crds, served, enabled, crdEvent>>

DetectorTypeOK ==
  /\ crds \in BOOLEAN
  /\ served \in BOOLEAN
  /\ enabled \in BOOLEAN
  /\ crdEvent \in BOOLEAN

(* How one discovery call ends: the API server knows the answer, the call
   does not get through, or the server replies with some other status
   (throttled, overloaded, internal error). *)
Outcomes == {"answer", "transport", "status"}

(* Mutants: every failed call counts as an answer; or none does. *)
DefinitiveAlways(outcome) == TRUE
DefinitiveNever(outcome)  == FALSE

(* isResourceSupported: is the group version there, and is that definitive? *)
Supported(outcome)  == outcome = "answer" /\ served
Definitive(outcome) == outcome # "transport"

(* Refresh: what the flag holds afterwards, if it held was. *)
Refreshed(was, outcome) ==
  IF Definitive(outcome) THEN Supported(outcome) ELSE was

(* Refresh as a step. *)
RefreshFlag(outcome) == enabled' = Refreshed(enabled, outcome)

(* NewIstioDetector: the flag of a new process starts out false. *)
NewDetector(outcome) == Refreshed(FALSE, outcome)

(* Istio is installed or removed; discovery may learn of it a little later. *)
FlipCRDs(discoveryLags) ==
  /\ crds' = ~crds
  /\ served' = IF discoveryLags THEN served ELSE ~crds
  /\ crdEvent' = TRUE
  /\ UNCHANGED enabled

(* An installed CRD is updated, or the informer resyncs. *)
TouchCRDs ==
  /\ crds /\ ~crdEvent
  /\ crdEvent' = TRUE
  /\ UNCHANGED <<crds, served, enabled>>

(* The aggregated discovery document catches up with the CRDs. *)
DiscoveryCatchesUp ==
  /\ served # crds
  /\ served' = crds
  /\ UNCHANGED <<crds, enabled, crdEvent>>
=============================================================================
