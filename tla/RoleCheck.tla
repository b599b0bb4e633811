------------------------------ MODULE RoleCheck ------------------------------
(***************************************************************************)
(* What the authorisation of a request promises, and what module Portal    *)
(* takes of it: a request is granted in one step, at a moment when its     *)
(* user is entitled, and may be refused at any time.                       *)
(***************************************************************************)
CONSTANT Callers   \* the requests

VARIABLES
  entitled,  \* the callers whose user may change the org, as the world is now
  outcome    \* outcome[c]: "none", "granted" or "refused"

vars == <<entitled, outcome>>

Init == outcome = [c \in Callers |-> "none"]

Decide(c, result) ==
  /\ outcome[c] = "none"
  /\ result = "granted" => c \in entitled
  /\ outcome' = [outcome EXCEPT ![c] = result]

\* Roles, groups and orgs change as they like.
WorldChanges == UNCHANGED outcome

Next ==
  \/ \E c \in Callers, result \in {"granted", "refused"} : Decide(c, result)
  \/ WorldChanges

Spec == Init /\ [][Next]_vars
=============================================================================
