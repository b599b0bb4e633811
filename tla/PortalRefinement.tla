-------------------------- MODULE PortalRefinement --------------------------
(***************************************************************************)
(* The portal with its GitLab calls, timeouts and crashes implements the   *)
(* review gate.                                                            *)
(***************************************************************************)
EXTENDS PortalInv

Scope(fm) == EditedFiles(fm) \cup NewFiles(fm)

Gate == INSTANCE ReviewGate WITH
  config   <- target,
  scope    <- [r \in Requests |-> Scope(form[r])],
  may      <- granted,
  proposal <- mr,
  answer   <- page

\* Every behaviour of the handlers is one the gate allows: nobody but a
\* reviewer turns a request into configuration, no unpermitted request becomes
\* a merge request, and what a late call still does is only what a failure page
\* leaves open.
ImplementsGate == Gate!Spec
=============================================================================
