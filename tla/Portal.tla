------------------------------- MODULE Portal -------------------------------
(***************************************************************************)
(* The portal's mutating handlers (src/internal/http/handlers.go): each    *)
(* POST is a goroutine that checks the user's role, reads the files of the *)
(* target branch, computes their new content, creates a branch, commits,   *)
(* looks up assignees, opens a merge request and renders the step log.     *)
(*                                                                         *)
(* The six handlers differ in the form they accept, the files they touch   *)
(* and the edit they compute; module Handlers gives the form record of     *)
(* each.  Everything else of a handler, which is the same text six times,  *)
(* is here: one action per external call it makes, since between two calls *)
(* roles change, merge requests are merged and other handlers run.  Every  *)
(* call may also fail or time out, and the process may die with all the    *)
(* requests it was serving.                                                *)
(*                                                                         *)
(* Forms are net edits: the lines a batch adds to and removes from a file, *)
(* each line concerned by one operation.  NodeEdit has the order of the    *)
(* operations and the layout of the file.                                  *)
(***************************************************************************)
EXTENDS ConfigRepo

CONSTANTS
  Users,          \* session user names
  Orgs,           \* organisations
  OrgOf,          \* OrgOf[f]: the organisation whose directory holds f
  Forms,          \* the forms users may post
  AdminUsers,     \* PORTAL_ADMIN_USERS
  AdminGroupsOn,  \* whether any admin UAA group is configured
  InitManagers,   \* <<user, org>> pairs with OrgManager at first
  InitGroup,      \* users in an admin UAA group at first
  RoleChanges,    \* users whose roles in Cloud Foundry may change
  DefaultsFile    \* spaceDefaults.yml

Edit == [file : Files, add : SUBSET Lines, del : SUBSET Lines, valid : BOOLEAN]
Creation == [file : Files, lines : SUBSET Lines, seeded : BOOLEAN]
Form == [user : Users, org : Orgs, csrf : BOOLEAN,
         edits : Seq(Edit), creates : SUBSET Creation]

\* A handler names each file in one edit at most, none of them is the defaults
\* file, and it adds and removes distinct lines.  In which org's directory a file
\* lies depends on the names the path is joined of.
WellFormed(fm) ==
  /\ \A i \in DOMAIN fm.edits :
       /\ fm.edits[i].file # DefaultsFile
       /\ fm.edits[i].add \cap fm.edits[i].del = {}
       /\ \A j \in DOMAIN fm.edits :
            fm.edits[i].file = fm.edits[j].file => i = j
  /\ \A c \in fm.creates :
       /\ c.file # DefaultsFile
       /\ \A i \in DOMAIN fm.edits : fm.edits[i].file # c.file
       /\ \A d \in fm.creates : c.file = d.file => c = d

ASSUME PortalAssumption ==
  /\ Forms \subseteq Form
  /\ \A fm \in Forms : WellFormed(fm)
  /\ OrgOf \in [Files -> Orgs \cup {"none"}]
  /\ AdminUsers \subseteq Users
  /\ AdminGroupsOn \in BOOLEAN
  /\ InitManagers \subseteq (Users \X Orgs)
  /\ InitGroup \subseteq Users
  /\ RoleChanges \subseteq Users
  /\ DefaultsFile \in Files

VARIABLES
  pc,        \* pc[r]: the call r's handler is in
  form,      \* form[r]: what r posts
  next,      \* next[r]: the edit whose file is read next
  current,   \* current[r][f]: f as r read it; {} if it did not
  granted,   \* granted[r]: verifyOrgManager returned nil
  held,      \* held[r]: r's user was entitled at some moment since r started
  errs,      \* errs[r]: the steps r's log shows as "error"
  page,      \* page[r]: the answer r's browser got
  managers,  \* <<user, org>> pairs with OrgManager in Cloud Foundry
  group      \* users in an admin UAA group

handlerVars == <<pc, form, next, current, granted, held, errs, page>>
roleVars == <<managers, group>>
vars == <<repoVars, handlerVars, roleVars>>

Steps == {"groups", "role", "read", "defaults", "branch", "commit", "members", "mr"}
BestEffort == {"groups", "members"}

TypeOK ==
  /\ RepoTypeOK
  /\ pc \in [Requests -> Steps \cup {"new", "end", "crashed"}]
  /\ form \in [Requests -> Forms]
  /\ next \in [Requests -> Nat]
  /\ current \in [Requests -> [Files -> Content]]
  /\ granted \in [Requests -> BOOLEAN]
  /\ held \in [Requests -> BOOLEAN]
  /\ errs \in [Requests -> SUBSET Steps]
  /\ page \in [Requests -> {"none", "refused", "failed", "noop", "mr"}]
  /\ managers \subseteq (Users \X Orgs)
  /\ group \subseteq Users

Init ==
  /\ RepoInit
  /\ pc = [r \in Requests |-> "new"]
  /\ form \in [Requests -> Forms]
  /\ next = [r \in Requests |-> 1]
  /\ current = [r \in Requests |-> [f \in Files |-> {}]]
  /\ granted = [r \in Requests |-> FALSE]
  /\ held = [r \in Requests |-> FALSE]
  /\ errs = [r \in Requests |-> {}]
  /\ page = [r \in Requests |-> "none"]
  /\ managers = InitManagers
  /\ group = InitGroup

-----------------------------------------------------------------------------
(* What a form asks for. *)

Edits(fm) == {fm.edits[i] : i \in DOMAIN fm.edits}
EditedFiles(fm) == {ed.file : ed \in Edits(fm)}
NewFiles(fm) == {c.file : c \in fm.creates}

Adds(fm, f) == UNION {ed.add : ed \in {x \in Edits(fm) : x.file = f}}
Dels(fm, f) == UNION {ed.del : ed \in {x \in Edits(fm) : x.file = f}}

\* A new spaceConfig.yml is the copy of spaceDefaults.yml, if that was read,
\* plus the lines of the form; security-group.json is not seeded.
Seed(fm, f, cur) ==
  {Header} \cup UNION {c.lines \cup (IF c.seeded THEN cur[DefaultsFile] ELSE {}) :
                         c \in {x \in fm.creates : x.file = f}}

\* Mutant: every operation of the batch is applied to every file.
ResultOfWholeBatch(fm, f, cur) ==
  IF f \in NewFiles(fm)
    THEN Seed(fm, f, cur)
    ELSE (cur[f] \ UNION {ed.del : ed \in Edits(fm)}) \cup UNION {ed.add : ed \in Edits(fm)}

\* The content the handler computes for f from what it read.
Result(fm, f, cur) ==
  IF f \in NewFiles(fm) THEN Seed(fm, f, cur)
                        ELSE (cur[f] \ Dels(fm, f)) \cup Adds(fm, f)

\* Mutant: a file from which lines are only removed counts as unchanged.
ChangedByAdds(fm, cur) == {f \in EditedFiles(fm) : Adds(fm, f) \ cur[f] # {}}

\* The files for which the new content differs from the one read.
Changed(fm, cur) == {f \in EditedFiles(fm) : Result(fm, f, cur) # cur[f]}

-----------------------------------------------------------------------------
(* Entitlement, as Cloud Foundry and the configuration say it is now. *)

Admin(u) == u \in AdminUsers \/ (AdminGroupsOn /\ u \in group)

Entitled(fm) == Admin(fm.user) \/ <<fm.user, fm.org>> \in managers

-----------------------------------------------------------------------------
(* The steps of a handler. *)

\* 403 for a bad CSRF token, 400 for a form with nothing to do.
Accepted(fm) == fm.csrf /\ Len(fm.edits) > 0

Refuse(r) ==
  /\ pc[r] = "new"
  /\ ~Accepted(form[r])
  /\ pc' = [pc EXCEPT ![r] = "end"]
  /\ page' = [page EXCEPT ![r] = "refused"]
  /\ UNCHANGED <<repoVars, roleVars, form, next, current, granted, held, errs>>

\* The handler passes its validation and enters verifyOrgManager, where a
\* configured portal admin is let through without a call.
Start(r) ==
  LET admin == form[r].user \in AdminUsers
  IN
  /\ pc[r] = "new"
  /\ Accepted(form[r])
  /\ pc' = [pc EXCEPT ![r] = IF admin THEN "read"
                             ELSE IF AdminGroupsOn THEN "groups" ELSE "role"]
  /\ granted' = [granted EXCEPT ![r] = admin]
  /\ held' = [held EXCEPT ![r] = Entitled(form[r])]
  /\ UNCHANGED <<repoVars, roleVars, form, next, current, errs, page>>

\* r answers with the failure page; what it had sent may still be executed.
Fail(r, step) ==
  /\ pc' = [pc EXCEPT ![r] = "end"]
  /\ page' = [page EXCEPT ![r] = "failed"]
  /\ errs' = [errs EXCEPT ![r] = @ \cup {step}]
  /\ UNCHANGED <<repoVars, roleVars, form, next, current, granted, held>>

\* The handler goes on in step s; s may be logged as an error before.
Goto(r, s) == pc' = [pc EXCEPT ![r] = s]

InAdminGroup(r) ==
  /\ pc[r] = "groups"
  /\ form[r].user \in group
  /\ Goto(r, "read")
  /\ granted' = [granted EXCEPT ![r] = TRUE]
  /\ UNCHANGED <<repoVars, roleVars, form, next, current, held, errs, page>>

NotInAdminGroup(r) ==
  /\ pc[r] = "groups"
  /\ form[r].user \notin group
  /\ Goto(r, "role")
  /\ UNCHANGED <<repoVars, roleVars, form, next, current, granted, held, errs, page>>

\* Mutant: verifyOrgManager returns nil after a failed group lookup.
GroupLookupFailsOpen(r) ==
  /\ pc[r] = "groups"
  /\ Goto(r, "read")
  /\ granted' = [granted EXCEPT ![r] = TRUE]
  /\ errs' = [errs EXCEPT ![r] = @ \cup {"groups"}]
  /\ UNCHANGED <<repoVars, roleVars, form, next, current, held, page>>

\* A failed group lookup is logged and counts as "not an admin".
GroupLookupFails(r) ==
  /\ pc[r] = "groups"
  /\ Goto(r, "role")
  /\ errs' = [errs EXCEPT ![r] = @ \cup {"groups"}]
  /\ UNCHANGED <<repoVars, roleVars, form, next, current, granted, held, page>>

\* Mutant: OrgManager of any org will do.
RoleConfirmedAnyOrg(r) ==
  /\ pc[r] = "role"
  /\ \E o \in Orgs : <<form[r].user, o>> \in managers
  /\ Goto(r, "read")
  /\ granted' = [granted EXCEPT ![r] = TRUE]
  /\ UNCHANGED <<repoVars, roleVars, form, next, current, held, errs, page>>

RoleConfirmed(r) ==
  /\ pc[r] = "role"
  /\ <<form[r].user, form[r].org>> \in managers
  /\ Goto(r, "read")
  /\ granted' = [granted EXCEPT ![r] = TRUE]
  /\ UNCHANGED <<repoVars, roleVars, form, next, current, held, errs, page>>

\* Mutant: a handler goes on whatever verifyOrgManager returned.
RoleNotConfirmedIgnored(r) ==
  /\ pc[r] = "role"
  /\ Goto(r, "read")
  /\ errs' = [errs EXCEPT ![r] = @ \cup {"role"}]
  /\ UNCHANGED <<repoVars, roleVars, form, next, current, granted, held, page>>

\* Not an OrgManager, or the CF API did not answer.
RoleNotConfirmed(r) == pc[r] = "role" /\ Fail(r, "role")

\* All files are read: answer "nothing to do", or send the call that creates
\* the branch.
Decide(r, cur) ==
  IF Changed(form[r], cur) = {}
    THEN /\ Goto(r, "end")
         /\ page' = [page EXCEPT ![r] = "noop"]
         /\ UNCHANGED wire
    ELSE /\ Goto(r, "branch")
         /\ wire' = [wire EXCEPT ![r] = "branch"]
         /\ UNCHANGED page

\* Mutant: operations the mutators reject are passed over.
ReadFileUnchecked(r) ==
  LET ed == form[r].edits[next[r]]
      cur == [current[r] EXCEPT ![ed.file] = target[ed.file]]
  IN
  /\ pc[r] = "read"
  /\ Header \in target[ed.file]
  /\ current' = [current EXCEPT ![r] = cur]
  /\ next' = [next EXCEPT ![r] = @ + 1]
  /\ IF next[r] < Len(form[r].edits)
       THEN UNCHANGED <<pc, page, wire>>
       ELSE Decide(r, cur)
  /\ UNCHANGED <<target, branched, base, tip, mr, outside>>
  /\ UNCHANGED <<roleVars, form, granted, held, errs>>

\* GetFile on the target branch and the computation of the new content.
ReadFile(r) ==
  LET ed == form[r].edits[next[r]]
      cur == [current[r] EXCEPT ![ed.file] = target[ed.file]]
  IN
  /\ pc[r] = "read"
  /\ Header \in target[ed.file]
  /\ ed.valid
  /\ current' = [current EXCEPT ![r] = cur]
  /\ next' = [next EXCEPT ![r] = @ + 1]
  /\ IF next[r] < Len(form[r].edits)
       THEN UNCHANGED <<pc, page, wire>>
       ELSE IF form[r].creates # {}
         THEN Goto(r, "defaults") /\ UNCHANGED <<page, wire>>
         ELSE Decide(r, cur)
  /\ UNCHANGED <<target, branched, base, tip, mr, outside>>
  /\ UNCHANGED <<roleVars, form, granted, held, errs>>

\* The file is missing, GitLab did not answer, or an operation is invalid.
ReadFails(r) == pc[r] = "read" /\ Fail(r, "read")

\* spaceDefaults.yml is best-effort and its step is always logged as "ok".
ReadDefaults(r) ==
  /\ pc[r] = "defaults"
  /\ \E seed \in {target[DefaultsFile] \ {Header}, {}} :
       LET cur == [current[r] EXCEPT ![DefaultsFile] = seed]
       IN current' = [current EXCEPT ![r] = cur] /\ Decide(r, cur)
  /\ UNCHANGED <<target, branched, base, tip, mr, outside>>
  /\ UNCHANGED <<roleVars, form, next, granted, held, errs>>

\* The reply to CreateBranch arrives; the commit is sent.
BranchCreated(r) ==
  /\ pc[r] = "branch"
  /\ wire[r] = "done"
  /\ Goto(r, "commit")
  /\ wire' = [wire EXCEPT ![r] = "commit"]
  /\ UNCHANGED <<target, branched, base, tip, mr, outside>>
  /\ UNCHANGED <<roleVars, form, next, current, granted, held, errs, page>>

Committed(r) ==
  /\ pc[r] = "commit"
  /\ wire[r] = "done"
  /\ Goto(r, "members")
  /\ wire' = [wire EXCEPT ![r] = "idle"]
  /\ UNCHANGED <<target, branched, base, tip, mr, outside>>
  /\ UNCHANGED <<roleVars, form, next, current, granted, held, errs, page>>

\* The assignees are best-effort: with or without them the merge request is sent.
LookupAssignees(r) ==
  /\ pc[r] = "members"
  /\ \E log \in {{}, {"members"}} : errs' = [errs EXCEPT ![r] = @ \cup log]
  /\ Goto(r, "mr")
  /\ wire' = [wire EXCEPT ![r] = "mr"]
  /\ UNCHANGED <<target, branched, base, tip, mr, outside>>
  /\ UNCHANGED <<roleVars, form, next, current, granted, held, page>>

\* Mutant: the page is rendered before the merge request is known to exist.
MROpenedEarly(r) ==
  /\ pc[r] = "mr"
  /\ Goto(r, "end")
  /\ page' = [page EXCEPT ![r] = "mr"]
  /\ wire' = [wire EXCEPT ![r] = "idle"]
  /\ UNCHANGED <<target, branched, base, tip, mr, outside>>
  /\ UNCHANGED <<roleVars, form, next, current, granted, held, errs>>

MROpened(r) ==
  /\ pc[r] = "mr"
  /\ wire[r] = "done"
  /\ Goto(r, "end")
  /\ page' = [page EXCEPT ![r] = "mr"]
  /\ wire' = [wire EXCEPT ![r] = "idle"]
  /\ UNCHANGED <<target, branched, base, tip, mr, outside>>
  /\ UNCHANGED <<roleVars, form, next, current, granted, held, errs>>

\* Mutant: a failure is also reported for a request that made no call.
CallFailsAnytime(r) == pc[r] \in {"new"} \cup Calls /\ Fail(r, pc[r])

\* Mutant: an error of OpenMR is logged and then ignored.
CallFailsIgnored(r) ==
  \/ pc[r] \in {"branch", "commit"} /\ Fail(r, pc[r])
  \/ /\ pc[r] = "mr"
     /\ Goto(r, "end")
     /\ page' = [page EXCEPT ![r] = "mr"]
     /\ errs' = [errs EXCEPT ![r] = @ \cup {"mr"}]
     /\ UNCHANGED <<repoVars, roleVars, form, next, current, granted, held>>

\* Mutant: the HTTP client has no timeout, a call fails by its reply alone.
CallFailsOnReply(r) == pc[r] \in Calls /\ wire[r] = "done" /\ Fail(r, pc[r])

\* An error status, a timeout, a lost reply or one that cannot be decoded: the
\* call may have been executed, may be later, or never.
CallFails(r) == pc[r] \in Calls /\ Fail(r, pc[r])

InFlight(r) == pc[r] \in Steps

\* The single instance of the portal dies with every handler it was running.
Crash ==
  /\ \E r \in Requests : InFlight(r)
  /\ pc' = [r \in Requests |-> IF InFlight(r) THEN "crashed" ELSE pc[r]]
  /\ UNCHANGED <<repoVars, roleVars, form, next, current, granted, held, errs, page>>

-----------------------------------------------------------------------------
(* GitLab and Cloud Foundry. *)

\* Mutant: only the first file of the batch is put into the commit.
GitLabCommitFirst(r) ==
  /\ LandCommit(r, Changed(form[r], current[r]) \cap {form[r].edits[1].file},
                NewFiles(form[r]), [f \in Files |-> Result(form[r], f, current[r])])
  /\ UNCHANGED <<handlerVars, roleVars>>

GitLabCommit(r) ==
  /\ LandCommit(r, Changed(form[r], current[r]), NewFiles(form[r]),
                [f \in Files |-> Result(form[r], f, current[r])])
  /\ UNCHANGED <<handlerVars, roleVars>>

GitLab(r) ==
  \/ LandBranch(r) /\ UNCHANGED <<handlerVars, roleVars>>
  \/ GitLabCommit(r)
  \/ LandMR(r) /\ UNCHANGED <<handlerVars, roleVars>>

Review(r) == (Merge(r) \/ Close(r)) /\ UNCHANGED <<handlerVars, roleVars>>

\* Someone is given or loses OrgManager or an admin group.
ChangeRole(u) ==
  /\ \/ /\ UNCHANGED group
        /\ \E o \in Orgs :
             managers' = IF <<u, o>> \in managers THEN managers \ {<<u, o>>}
                                                  ELSE managers \cup {<<u, o>>}
     \/ /\ AdminGroupsOn
        /\ UNCHANGED managers
        /\ group' = IF u \in group THEN group \ {u} ELSE group \cup {u}
  /\ UNCHANGED <<repoVars, pc, form, next, current, granted, errs, page>>
  /\ held' = [r \in Requests |-> held[r] \/ (InFlight(r) /\ Entitled(form[r])')]

Finished ==
  /\ \A r \in Requests : pc[r] \in {"end", "crashed"}
  /\ UNCHANGED vars

-----------------------------------------------------------------------------
Handler(r) ==
  \/ Refuse(r) \/ Start(r)
  \/ InAdminGroup(r) \/ NotInAdminGroup(r) \/ GroupLookupFails(r)
  \/ RoleConfirmed(r) \/ RoleNotConfirmed(r)
  \/ ReadFile(r) \/ ReadFails(r) \/ ReadDefaults(r)
  \/ BranchCreated(r) \/ Committed(r) \/ LookupAssignees(r) \/ MROpened(r)
  \/ CallFails(r)

Next ==
  \/ \E r \in Requests : Handler(r) \/ GitLab(r) \/ Review(r)
  \/ OutsideCommit /\ UNCHANGED <<handlerVars, roleVars>>
  \/ \E u \in RoleChanges : ChangeRole(u)
  \/ Crash
  \/ Finished

Spec == Init /\ [][Next]_vars

\* Past verifyOrgManager a handler keeps running: it waits for GitLab alone, and
\* its client gives a call up after 30 seconds.  Nothing is assumed of the two
\* role lookups, which wait for a token request that has no such limit.
Lookups == {"groups", "role"}
FairSpec ==
  Spec /\ \A r \in Requests : WF_vars(Handler(r) /\ pc[r] \notin {"new"} \cup Lookups)
=============================================================================
