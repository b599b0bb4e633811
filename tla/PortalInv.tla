----------------------------- MODULE PortalInv -----------------------------
(***************************************************************************)
(* The inductive invariants behind the properties of the handlers: what is *)
(* true of a request at each of its steps, and of what it has left in the  *)
(* repository after it ended.                                              *)
(***************************************************************************)
EXTENDS PortalProps

Early == {"new", "groups", "role", "read", "defaults"}

\* Before Decide a request has nothing at GitLab or on the way to it, until the
\* call that opens its merge request there is none, and what comes after
\* CreateBranch comes after the branch.
Phase(r) ==
  /\ pc[r] \in Early => ~branched[r] /\ wire[r] = "idle"
  /\ pc[r] \in Early \cup {"branch", "commit", "members"} => mr[r] = "none"
  /\ wire[r] \in Calls => mr[r] = "none"
  /\ wire[r] = "mr" => pc[r] \in {"mr", "end", "crashed"}
  /\ wire[r] \in {"commit", "mr", "done"} \/ pc[r] = "members" \/ mr[r] # "none" =>
       branched[r]

\* Past verifyOrgManager a request is permitted, a permitted request's user was
\* entitled, and held[r] has seen every moment of a running request.
Permitted(r) ==
  /\ branched[r] \/ mr[r] # "none" \/ wire[r] # "idle" => granted[r]
  /\ pc[r] \in Steps \ {"groups", "role"} => granted[r]
  /\ granted[r] => held[r]
  /\ InFlight(r) /\ Entitled(form[r]) => held[r]
  /\ pc[r] = "groups" => AdminGroupsOn

HasRead(r, i) == Header \in current[r][form[r].edits[i].file]

\* The files are read one after the other, and all of them before the commit.
ReadAll(r) ==
  /\ pc[r] \in {"new", "groups", "role"} => next[r] = 1
  /\ pc[r] \in {"groups", "role"} => Len(form[r].edits) > 0
  /\ pc[r] = "read" =>
       /\ next[r] \in 1 .. Len(form[r].edits)
       /\ \A i \in 1 .. next[r] - 1 : HasRead(r, i)
  /\ pc[r] \in {"defaults", "branch"} \/ wire[r] = "commit" =>
       \A i \in DOMAIN form[r].edits : HasRead(r, i)

\* No file loses its header, neither on the target nor on a branch.
Whole ==
  /\ \A f \in Files : Header \in target[f] \/ target[f] = {}
  /\ \A r \in Requests : branched[r] => \A f \in Files :
       /\ Header \in tip[r][f] \/ tip[r][f] = {}
       /\ Header \in base[r][f] => Header \in tip[r][f] /\ Header \in target[f]

Claims(r, f, e) == Asked(r, f, e, e \notin InitialConfig[f])

\* What a request has read is vouched for as the target was, and so is what is
\* on its branch, but for the lines it asks for itself.
Traced(r) ==
  /\ \A f \in Files : Header \in current[r][f] =>
       \A e \in Diff(current[r][f], InitialConfig[f]) : Vouched(f, e)
  /\ branched[r] =>
       \A f \in Files : \A e \in Diff(tip[r][f], InitialConfig[f]) :
         Vouched(f, e) \/ Claims(r, f, e)

AuthInv == \A r \in Requests : Phase(r) /\ Permitted(r)

ProvenanceInv ==
  /\ \A r \in Requests : ReadAll(r) /\ Traced(r)
  /\ Whole
  /\ Provenance

-----------------------------------------------------------------------------
\* The commit of r, and nothing else, is on its branch; the files it creates
\* were not there before.
Done(r) ==
  \A f \in Files :
    IF f \in Written(r)
      THEN /\ tip[r][f] = Result(form[r], f, current[r])
           /\ f \in NewFiles(form[r]) => base[r][f] = {}
      ELSE tip[r][f] = base[r][f]

\* The commit is made once, after the branch and before the merge request.
CommitPhase(r) ==
  /\ branched[r] => tip[r] = base[r] \/ Done(r)
  /\ wire[r] = "commit" => tip[r] = base[r]
  /\ wire[r] = "mr" \/ mr[r] # "none" => Done(r)
  /\ pc[r] = "branch" =>
       wire[r] \in {"branch", "done"} /\ (branched[r] => tip[r] = base[r])
  /\ pc[r] = "commit" =>
       wire[r] \in {"commit", "done"} /\ (wire[r] = "done" => Done(r))
  /\ pc[r] = "members" => wire[r] = "idle" /\ Done(r)
  /\ pc[r] = "mr" => wire[r] = "mr" \/ (wire[r] = "done" /\ mr[r] # "none")

CommitInv == \A r \in Requests : CommitPhase(r)

\* A request that has not ended has no page and no fatal error, and one that has
\* not begun no grant.
Unanswered(r) ==
  /\ page[r] # "none" => pc[r] = "end"
  /\ pc[r] # "end" => errs[r] \subseteq BestEffort
  /\ pc[r] = "new" => ~granted[r]

\* What r's browser was told is true, and stays so.
Answers(r) ==
  /\ Unanswered(r)
  /\ page[r] = "mr" => mr[r] # "none"
  /\ page[r] \in {"noop", "refused"} => ~branched[r]
  /\ page[r] \in {"mr", "noop", "refused"} => wire[r] = "idle"
  /\ page[r] \in {"mr", "noop"} => errs[r] \subseteq BestEffort
  /\ page[r] = "failed" => errs[r] \ BestEffort # {}

AllValid(r) == Accepted(form[r]) /\ \A i \in DOMAIN form[r].edits : form[r].edits[i].valid

\* Each operation is validated before the next file is read, all of them before
\* the first call that writes.
Validated(r) ==
  /\ pc[r] \in Steps => Accepted(form[r])
  /\ pc[r] = "read" => \A i \in 1 .. next[r] - 1 : form[r].edits[i].valid
  /\ pc[r] = "defaults" \/ wire[r] # "idle" \/ branched[r] => AllValid(r)
=============================================================================
