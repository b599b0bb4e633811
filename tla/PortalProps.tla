---------------------------- MODULE PortalProps ----------------------------
(***************************************************************************)
(* What must hold of the mutating handlers, whatever the forms, the order  *)
(* of the calls and the failures.                                          *)
(***************************************************************************)
EXTENDS Portal

\* The files r's commit replaces or creates.
Written(r) == Changed(form[r], current[r]) \cup NewFiles(form[r])

\* Nothing leaves the portal for GitLab's write API, and nothing exists there,
\* for a request that verifyOrgManager did not let through, and it lets nobody
\* through who was not an admin or OrgManager of the form's org at some moment
\* while the request ran.  A failed lookup is never a grant.
AuthorisedWrites ==
  \A r \in Requests :
    /\ (branched[r] \/ mr[r] # "none" \/ wire[r] # "idle") => granted[r]
    /\ granted[r] => held[r]

\* r asked for line e to be present in file f, or not to be: by an edit of its
\* form, or as part of a file it creates (the seeded copy of spaceDefaults.yml
\* included).
Asked(r, f, e, present) ==
  \/ present /\ e \in Adds(form[r], f)
  \/ present /\ f \in NewFiles(form[r]) /\ e \in Seed(form[r], f, current[r])
  \/ ~present /\ e \in Dels(form[r], f)

Vouched(f, e) ==
  \/ <<f, e>> \in outside
  \/ \E r \in Requests :
       /\ mr[r] = "merged"
       /\ held[r]
       /\ Asked(r, f, e, e \notin InitialConfig[f])

\* The lines by which two contents of a file differ.
Diff(a, b) == (a \ b) \cup (b \ a)

\* Wherever the target branch differs from what it was, somebody outside the
\* portal changed that very line, or a merged request asked for that very change
\* in that very file, made by a user who was entitled to the org of the form while
\* it ran.  This is so although commits replace whole files by content that was
\* read before the branch existed.
Provenance ==
  \A f \in Files : \A e \in Diff(target[f], InitialConfig[f]) : Vouched(f, e)

\* A branch holds the target it was cut from, except for the files of the
\* batch; these are all there or none is, and a merge request has them all.
AllOrNothing ==
  \A r \in Requests :
    /\ branched[r] =>
         LET changed == {f \in Files : tip[r][f] # base[r][f]}
             done == \A f \in Written(r) : tip[r][f] = Result(form[r], f, current[r])
         IN  changed = {} \/ (changed \subseteq Written(r) /\ done)
    /\ mr[r] # "none" =>
         \A f \in Written(r) : tip[r][f] = Result(form[r], f, current[r])

\* A merge request carries every change its form asked for.  The handler skips
\* the files that look unchanged in what it read, so a change may be missing for
\* one reason alone: the line was as asked when it was read, and somebody undid
\* that in the target before the branch was cut.
BatchComplete ==
  \A r \in Requests : mr[r] # "none" =>
    \A f \in EditedFiles(form[r]) :
      /\ Adds(form[r], f) \ tip[r][f] \subseteq current[r][f] \ base[r][f]
      /\ Dels(form[r], f) \cap tip[r][f] \subseteq base[r][f] \ current[r][f]

\* A batch is accepted or rejected as a whole, before anything is written: one
\* operation the mutators reject, in whichever space, or a form the validation
\* refuses, and no branch is ever created, not even by a call still on its way.
InvalidWritesNothing ==
  \A r \in Requests :
    \/ Accepted(form[r]) /\ \A ed \in Edits(form[r]) : ed.valid
    \/ ~branched[r] /\ wire[r] = "idle"

\* The page tells the truth about GitLab: "MR opened" only if the merge request
\* exists, "nothing to do" only if the request wrote nothing, no call still on
\* its way after either, and a failure page iff a step the request cannot do
\* without is logged as an error.
TruthfulPages ==
  \A r \in Requests :
    /\ page[r] = "mr" => mr[r] # "none"
    /\ page[r] \in {"noop", "refused"} => ~branched[r]
    /\ page[r] \in {"mr", "noop", "refused"} => wire[r] = "idle"
    /\ page[r] \in {"mr", "noop"} => errs[r] \subseteq BestEffort
    /\ page[r] = "failed" => errs[r] \ BestEffort # {}

\* A merge may undo other people's work, since the handler writes back whole
\* files it read before its branch existed; but that is the only window: a line
\* the request did not ask for changes only if somebody changed it in the target
\* between the request's read and its branch.
MergeBounded ==
  \A r \in Requests : mr[r] = "open" /\ mr'[r] = "merged" =>
    \A f \in Files : \A e \in Diff(target'[f], target[f]) :
      Asked(r, f, e, e \in target'[f]) \/ e \in Diff(current[r][f], base[r][f])

LostUpdateBounded == [][MergeBounded]_vars

\* Every request the portal takes on gets its answer, unless the process dies or
\* the request's own role lookup never ends (the token request has no timeout).
EveryRequestAnswered ==
  \A r \in Requests :
    []<>(pc[r] \notin Lookups) => (InFlight(r) ~> (page[r] # "none" \/ pc[r] = "crashed"))

\* "authz is org-scoped, so a crafted "space" like ../other-org must not reach
\* path.Join": the files a merge request writes lie in the directory of the org
\* the user was checked for.
StaysInOrg ==
  \A r \in Requests : mr[r] # "none" => \A f \in Written(r) : OrgOf[f] = form[r].org

\* The merge request's diff has only the lines the form asked for ("the diff
\* contains only the lines the ops actually change").
DiffOnlyRequested ==
  \A r \in Requests : mr[r] # "none" =>
    \A f \in Files : \A e \in Diff(tip[r][f], base[r][f]) : Asked(r, f, e, e \in tip[r][f])
=============================================================================
