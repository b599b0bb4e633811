----------------------------- MODULE ReviewGate -----------------------------
(***************************************************************************)
(* What the portal promises the organisation, without branches, calls or   *)
(* failures: the configuration changes only when the platform team accepts *)
(* a proposal; only requests that were permitted become proposals, once;   *)
(* accepting one touches no file outside its scope; and an answer other    *)
(* than "failed" is the truth for good.  A failed or missing answer        *)
(* promises nothing: the proposal may exist, or may still appear.          *)
(***************************************************************************)
CONSTANTS Requests, Files, InitialConfig

VARIABLES
  config,    \* the files of the configuration
  scope,     \* scope[r]: the files r is about
  may,       \* may[r]: r was permitted
  proposal,  \* proposal[r]: r's merge request
  answer     \* answer[r]: what r's browser was told

gateVars == <<config, scope, may, proposal, answer>>

Init ==
  /\ config = InitialConfig
  /\ scope \in [Requests -> SUBSET Files]
  /\ may = [r \in Requests |-> FALSE]
  /\ proposal = [r \in Requests |-> "none"]
  /\ answer = [r \in Requests |-> "none"]

Permit(r) ==
  /\ answer[r] = "none"
  /\ may' = [may EXCEPT ![r] = TRUE]
  /\ UNCHANGED <<config, scope, proposal, answer>>

Propose(r) ==
  /\ may[r]
  /\ proposal[r] = "none"
  /\ answer[r] \in {"none", "failed"}
  /\ proposal' = [proposal EXCEPT ![r] = "open"]
  /\ UNCHANGED <<config, scope, may, answer>>

Answer(r) ==
  /\ answer[r] = "none"
  /\ \/ answer' = [answer EXCEPT ![r] = "failed"]
     \/ ~may[r] /\ answer' = [answer EXCEPT ![r] = "refused"]
     \/ may[r] /\ proposal[r] = "none" /\ answer' = [answer EXCEPT ![r] = "noop"]
     \/ proposal[r] # "none" /\ answer' = [answer EXCEPT ![r] = "mr"]
  /\ UNCHANGED <<config, scope, may, proposal>>

Accept(r) ==
  /\ proposal[r] = "open"
  /\ proposal' = [proposal EXCEPT ![r] = "merged"]
  /\ \A f \in Files \ scope[r] : config'[f] = config[f]
  /\ UNCHANGED <<scope, may, answer>>

Withdraw(r) ==
  /\ proposal[r] = "open"
  /\ proposal' = [proposal EXCEPT ![r] = "closed"]
  /\ UNCHANGED <<config, scope, may, answer>>

\* People with access to the repository need no portal.
Outside ==
  /\ config' # config
  /\ UNCHANGED <<scope, may, proposal, answer>>

Next ==
  \/ \E r \in Requests : Permit(r) \/ Propose(r) \/ Answer(r) \/ Accept(r) \/ Withdraw(r)
  \/ Outside

Spec == Init /\ [][Next]_gateVars
=============================================================================
