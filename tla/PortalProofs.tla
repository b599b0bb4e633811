---------------------------- MODULE PortalProofs ----------------------------
(***************************************************************************)
(* What holds of the handlers for any number of requests, any files, forms *)
(* and roles, any failures and late calls.                                 *)
(*                                                                         *)
(* First the types and the authorisation, then provenance: nothing reaches *)
(* the target branch that nobody asked for.                                *)
(*                                                                         *)
(* Then the commits: a branch is the target it was cut from or that plus   *)
(* the batch, a merge request has all of the batch, and what either lacks  *)
(* or reverts changed between the request's read and its branch.           *)
(*                                                                         *)
(* Last the answers: the pages are true, a rejected form writes nothing,   *)
(* and the handlers implement the review gate.                             *)
(***************************************************************************)
EXTENDS PortalInv, PortalRefinement, TLAPS

\* The content a handler computes consists of lines and the header, for any
\* form and any files read (mutate's functions never invent a line).
LEMMA ResultContent ==
  ASSUME NEW fm \in Form, NEW cur \in [Files -> Content], NEW f \in Files
  PROVE  Result(fm, f, cur) \in Content
<1>1. Adds(fm, f) \subseteq Lines
  <2>1. \A i \in DOMAIN fm.edits : fm.edits[i] \in Edit
    BY DEF Form
  <2> QED
    BY <2>1 DEF Adds, Edits, Edit
<1>2. Seed(fm, f, cur) \subseteq Lines \cup {Header}
  <2>1. \A c \in fm.creates : c.lines \subseteq Lines
    BY DEF Form, Creation
  <2>2. cur[DefaultsFile] \subseteq Lines \cup {Header}
    BY PortalAssumption DEF Content
  <2> QED
    BY <2>1, <2>2 DEF Seed
<1>3. cur[f] \subseteq Lines \cup {Header}
  BY DEF Content
<1> QED
  BY <1>1, <1>2, <1>3 DEF Result, Content

LEMMA MergedContent ==
  ASSUME TypeOK, NEW r \in Requests, NEW f \in Files
  PROVE  Merged(r, f) \in Content
<1>1. target[f] \in Content /\ tip[r][f] \in Content
  BY DEF TypeOK, RepoTypeOK
<1> QED
  BY <1>1 DEF Merged, Content

LEMMA InitTypeOK == Init => TypeOK
  BY RepoAssumption, PortalAssumption
  DEF Init, RepoInit, TypeOK, RepoTypeOK, Content, Calls, Steps

\* Decide, the end of the reading phase, keeps the types of what it assigns.
LEMMA DecideType ==
  ASSUME TypeOK, NEW r \in Requests, NEW cur, Decide(r, cur)
  PROVE  /\ pc' \in [Requests -> Steps \cup {"new", "end", "crashed"}]
         /\ page' \in [Requests -> {"none", "refused", "failed", "noop", "mr"}]
         /\ wire' \in [Requests -> Calls \cup {"idle", "done"}]
<1>1. \/ /\ pc' = [pc EXCEPT ![r] = "end"]
         /\ page' = [page EXCEPT ![r] = "noop"]
         /\ wire' = wire
      \/ /\ pc' = [pc EXCEPT ![r] = "branch"]
         /\ wire' = [wire EXCEPT ![r] = "branch"]
         /\ page' = page
  BY Zenon DEF Decide, Goto
<1> QED
  BY <1>1 DEF TypeOK, RepoTypeOK, Steps, Calls

\* Reading one more file leaves a mapping from files to contents.
LEMMA ReadContent ==
  ASSUME NEW g \in [Files -> Content], NEW h \in [Files -> Content], NEW x
  PROVE  [g EXCEPT ![x] = h[x]] \in [Files -> Content]
  OBVIOUS

LEMMA StepTypeOK == TypeOK /\ [Next]_vars => TypeOK'
<1> SUFFICES ASSUME TypeOK, [Next]_vars PROVE TypeOK'
  OBVIOUS
<1> USE DEF TypeOK, RepoTypeOK, Calls, Steps, handlerVars, roleVars, repoVars
<1>1. ASSUME NEW r \in Requests, Refuse(r) PROVE TypeOK'
  BY <1>1 DEF Refuse
<1>2. ASSUME NEW r \in Requests, Start(r) PROVE TypeOK'
  BY <1>2 DEF Start, Entitled, Admin
<1>3. ASSUME NEW r \in Requests, InAdminGroup(r) PROVE TypeOK'
  BY <1>3 DEF InAdminGroup, Goto
<1>4. ASSUME NEW r \in Requests, NotInAdminGroup(r) PROVE TypeOK'
  BY <1>4 DEF NotInAdminGroup, Goto
<1>5. ASSUME NEW r \in Requests, GroupLookupFails(r) PROVE TypeOK'
  BY <1>5 DEF GroupLookupFails, Goto
<1>6. ASSUME NEW r \in Requests, RoleConfirmed(r) PROVE TypeOK'
  BY <1>6 DEF RoleConfirmed, Goto
<1>7. ASSUME NEW r \in Requests, RoleNotConfirmed(r) PROVE TypeOK'
  BY <1>7 DEF RoleNotConfirmed, Fail
<1>8. ASSUME NEW r \in Requests, ReadFile(r) PROVE TypeOK'
  <2> DEFINE ed == form[r].edits[next[r]]
             cur == [current[r] EXCEPT ![ed.file] = target[ed.file]]
  <2>1. cur \in [Files -> Content]
    <3>1. current[r] \in [Files -> Content] /\ target \in [Files -> Content]
      OBVIOUS
    <3> QED
      BY <3>1, ReadContent, Zenon
  <2>2. current' \in [Requests -> [Files -> Content]]
    BY <1>8, <2>1 DEF ReadFile
  <2>3. next' \in [Requests -> Nat]
    BY <1>8 DEF ReadFile
  <2>4. /\ pc' \in [Requests -> Steps \cup {"new", "end", "crashed"}]
        /\ page' \in [Requests -> {"none", "refused", "failed", "noop", "mr"}]
        /\ wire' \in [Requests -> Calls \cup {"idle", "done"}]
    <3>1. \/ UNCHANGED <<pc, page, wire>>
          \/ Goto(r, "defaults") /\ UNCHANGED <<page, wire>>
          \/ Decide(r, cur)
      BY <1>8, Zenon DEF ReadFile
    <3>2. CASE UNCHANGED <<pc, page, wire>>
      BY <3>2
    <3>3. CASE Goto(r, "defaults") /\ UNCHANGED <<page, wire>>
      BY <3>3 DEF Goto
    <3>4. CASE Decide(r, cur)
      BY <3>4, DecideType, Zenon
    <3> QED
      BY <3>1, <3>2, <3>3, <3>4
  <2>5. UNCHANGED <<target, branched, base, tip, mr, outside, roleVars, form,
                    granted, held, errs>>
    BY <1>8 DEF ReadFile
  <2> QED
    BY <2>2, <2>3, <2>4, <2>5
<1>9. ASSUME NEW r \in Requests, ReadFails(r) PROVE TypeOK'
  BY <1>9 DEF ReadFails, Fail
<1>10. ASSUME NEW r \in Requests, ReadDefaults(r) PROVE TypeOK'
  <2>1. PICK seed \in {target[DefaultsFile] \ {Header}, {}} :
          LET cur == [current[r] EXCEPT ![DefaultsFile] = seed]
          IN  current' = [current EXCEPT ![r] = cur] /\ Decide(r, cur)
    BY <1>10 DEF ReadDefaults
  <2>2. seed \in Content
    BY <2>1, PortalAssumption DEF Content
  <2>3. current' \in [Requests -> [Files -> Content]]
    BY <2>1, <2>2
  <2> QED
    BY <1>10, <2>1, <2>3, DecideType DEF ReadDefaults
<1>11. ASSUME NEW r \in Requests, BranchCreated(r) PROVE TypeOK'
  BY <1>11 DEF BranchCreated, Goto
<1>12. ASSUME NEW r \in Requests, Committed(r) PROVE TypeOK'
  BY <1>12 DEF Committed, Goto
<1>13. ASSUME NEW r \in Requests, LookupAssignees(r) PROVE TypeOK'
  BY <1>13 DEF LookupAssignees, Goto
<1>14. ASSUME NEW r \in Requests, MROpened(r) PROVE TypeOK'
  BY <1>14 DEF MROpened, Goto
<1>15. ASSUME NEW r \in Requests, CallFails(r) PROVE TypeOK'
  BY <1>15 DEF CallFails, Fail
<1>16. ASSUME NEW r \in Requests, GitLab(r) PROVE TypeOK'
  <2>1. CASE LandBranch(r) /\ UNCHANGED <<handlerVars, roleVars>>
    BY <2>1 DEF LandBranch
  <2>2. CASE GitLabCommit(r)
    <3> DEFINE content == [f \in Files |-> Result(form[r], f, current[r])]
    <3>1. form[r] \in Form /\ current[r] \in [Files -> Content]
      BY PortalAssumption
    <3>2. content \in [Files -> Content]
      BY <3>1, ResultContent
    <3> HIDE DEF content
    <3>3. tip' \in [Requests -> [Files -> Content]]
      BY <2>2, <3>2 DEF GitLabCommit, LandCommit, content
    <3> QED
      BY <2>2, <3>3 DEF GitLabCommit, LandCommit
  <2>3. CASE LandMR(r) /\ UNCHANGED <<handlerVars, roleVars>>
    BY <2>3 DEF LandMR
  <2> QED
    BY <1>16, <2>1, <2>2, <2>3 DEF GitLab
<1>17. ASSUME NEW r \in Requests, Review(r) PROVE TypeOK'
  <2>1. CASE Merge(r)
    BY <1>17, <2>1, MergedContent DEF Review, Merge
  <2>2. CASE Close(r)
    BY <1>17, <2>2 DEF Review, Close
  <2> QED
    BY <1>17, <2>1, <2>2 DEF Review
<1>18. ASSUME OutsideCommit, UNCHANGED <<handlerVars, roleVars>> PROVE TypeOK'
  <2>1. PICK p \in OutsideEdits \ outside :
          /\ target' = [target EXCEPT ![p[1]] =
                          IF p[2] \in target[p[1]] THEN target[p[1]] \ {p[2]}
                                                   ELSE target[p[1]] \cup {p[2]}]
          /\ outside' = outside \cup {p}
          /\ UNCHANGED <<branched, base, tip, mr, wire>>
    BY <1>18 DEF OutsideCommit
  <2>2. p[1] \in Files /\ p[2] \in Lines
    BY <2>1, RepoAssumption
  <2>3. target' \in [Files -> Content]
    BY <2>1, <2>2 DEF Content
  <2> QED
    BY <1>18, <2>1, <2>3
<1>19. ASSUME NEW u \in RoleChanges, ChangeRole(u) PROVE TypeOK'
  <2>1. u \in Users
    BY PortalAssumption
  <2>2. held' \in [Requests -> BOOLEAN]
    BY <1>19 DEF ChangeRole, InFlight, Entitled, Admin
  <2>3. managers' \subseteq Users \X Orgs /\ group' \subseteq Users
    <3>1. \/ /\ group' = group
             /\ \E o \in Orgs : managers' \in {managers \ {<<u, o>>},
                                             managers \cup {<<u, o>>}}
          \/ /\ managers' = managers
             /\ group' \in {group \ {u}, group \cup {u}}
      BY <1>19, Zenon DEF ChangeRole
    <3> QED
      BY <2>1, <3>1
  <2>4. UNCHANGED <<repoVars, pc, form, next, current, granted, errs, page>>
    BY <1>19 DEF ChangeRole
  <2> QED
    BY <2>2, <2>3, <2>4
<1>20. ASSUME Crash PROVE TypeOK'
  BY <1>20 DEF Crash
<1>21. CASE UNCHANGED vars
  BY <1>21 DEF vars
<1> QED
  BY <1>1, <1>2, <1>3, <1>4, <1>5, <1>6, <1>7, <1>8, <1>9, <1>10, <1>11, <1>12,
     <1>13, <1>14, <1>15, <1>16, <1>17, <1>18, <1>19, <1>20, <1>21
  DEF Next, Handler, Finished

\* Whatever the requests do and whatever fails, every part of the state keeps
\* the shape the handlers and the repository rely on.
THEOREM TypeCorrect == Spec => []TypeOK
  BY InitTypeOK, StepTypeOK, PTL DEF Spec

-----------------------------------------------------------------------------
LEMMA InitAuthInv == Init => AuthInv
  BY DEF Init, RepoInit, AuthInv, Phase, Permitted, Early, Calls, Steps, InFlight

\* Decide sends CreateBranch, or ends the request without sending anything.
LEMMA DecideCases ==
  ASSUME NEW r \in Requests, NEW cur, Decide(r, cur)
  PROVE  \/ /\ pc' = [pc EXCEPT ![r] = "end"]
            /\ wire' = wire
         \/ /\ pc' = [pc EXCEPT ![r] = "branch"]
            /\ wire' = [wire EXCEPT ![r] = "branch"]
  BY Zenon DEF Decide, Goto

LEMMA StepAuthInv == TypeOK /\ AuthInv /\ [Next]_vars => AuthInv'
<1> SUFFICES ASSUME TypeOK, AuthInv, [Next]_vars, NEW r \in Requests
             PROVE  Phase(r)' /\ Permitted(r)'
  BY DEF AuthInv
<1> USE DEF TypeOK, RepoTypeOK, AuthInv, Phase, Permitted, Early, Calls, Steps,
            InFlight, Entitled, Admin, handlerVars, roleVars, repoVars
<1>1. ASSUME NEW q \in Requests, Refuse(q) PROVE Phase(r)' /\ Permitted(r)'
  BY <1>1 DEF Refuse
<1>2. ASSUME NEW q \in Requests, Start(q) PROVE Phase(r)' /\ Permitted(r)'
  BY <1>2 DEF Start
<1>3. ASSUME NEW q \in Requests, InAdminGroup(q) PROVE Phase(r)' /\ Permitted(r)'
  BY <1>3 DEF InAdminGroup, Goto
<1>4. ASSUME NEW q \in Requests, NotInAdminGroup(q) PROVE Phase(r)' /\ Permitted(r)'
  BY <1>4 DEF NotInAdminGroup, Goto
<1>5. ASSUME NEW q \in Requests, GroupLookupFails(q) PROVE Phase(r)' /\ Permitted(r)'
  BY <1>5 DEF GroupLookupFails, Goto
<1>6. ASSUME NEW q \in Requests, RoleConfirmed(q) PROVE Phase(r)' /\ Permitted(r)'
  BY <1>6 DEF RoleConfirmed, Goto
<1>7. ASSUME NEW q \in Requests, RoleNotConfirmed(q) PROVE Phase(r)' /\ Permitted(r)'
  BY <1>7 DEF RoleNotConfirmed, Fail
<1>8. ASSUME NEW q \in Requests, ReadFile(q) PROVE Phase(r)' /\ Permitted(r)'
  <2>1. \/ UNCHANGED <<pc, wire>>
        \/ pc' = [pc EXCEPT ![q] = "defaults"] /\ wire' = wire
        \/ pc' = [pc EXCEPT ![q] = "end"] /\ wire' = wire
        \/ pc' = [pc EXCEPT ![q] = "branch"] /\ wire' = [wire EXCEPT ![q] = "branch"]
    BY <1>8, DecideCases, Zenon DEF ReadFile, Goto
  <2>2. pc[q] = "read"
    BY <1>8 DEF ReadFile
  <2>3. UNCHANGED <<branched, mr, granted, held, form, roleVars>>
    BY <1>8 DEF ReadFile
  <2> QED
    BY <2>1, <2>2, <2>3
<1>9. ASSUME NEW q \in Requests, ReadFails(q) PROVE Phase(r)' /\ Permitted(r)'
  BY <1>9 DEF ReadFails, Fail
<1>10. ASSUME NEW q \in Requests, ReadDefaults(q) PROVE Phase(r)' /\ Permitted(r)'
  <2>1. \/ pc' = [pc EXCEPT ![q] = "end"] /\ wire' = wire
        \/ pc' = [pc EXCEPT ![q] = "branch"] /\ wire' = [wire EXCEPT ![q] = "branch"]
    BY <1>10, DecideCases, Zenon DEF ReadDefaults
  <2>2. pc[q] = "defaults"
    BY <1>10 DEF ReadDefaults
  <2>3. UNCHANGED <<branched, mr, granted, held, form, roleVars>>
    BY <1>10 DEF ReadDefaults
  <2> QED
    BY <2>1, <2>2, <2>3
<1>11. ASSUME NEW q \in Requests, BranchCreated(q) PROVE Phase(r)' /\ Permitted(r)'
  BY <1>11 DEF BranchCreated, Goto
<1>12. ASSUME NEW q \in Requests, Committed(q) PROVE Phase(r)' /\ Permitted(r)'
  BY <1>12 DEF Committed, Goto
<1>13. ASSUME NEW q \in Requests, LookupAssignees(q) PROVE Phase(r)' /\ Permitted(r)'
  BY <1>13 DEF LookupAssignees, Goto
<1>14. ASSUME NEW q \in Requests, MROpened(q) PROVE Phase(r)' /\ Permitted(r)'
  BY <1>14 DEF MROpened, Goto
<1>15. ASSUME NEW q \in Requests, CallFails(q) PROVE Phase(r)' /\ Permitted(r)'
  BY <1>15 DEF CallFails, Fail
<1>16. ASSUME NEW q \in Requests, GitLab(q) PROVE Phase(r)' /\ Permitted(r)'
  <2>1. CASE LandBranch(q) /\ UNCHANGED <<handlerVars, roleVars>>
    BY <2>1 DEF LandBranch
  <2>2. CASE GitLabCommit(q)
    <3>1. /\ wire' = [wire EXCEPT ![q] = "done"]
          /\ wire[q] = "commit"
          /\ UNCHANGED <<branched, mr, pc, form, granted, held, managers, group>>
      BY <2>2 DEF GitLabCommit, LandCommit
    <3> QED
      BY <3>1
  <2>3. CASE LandMR(q) /\ UNCHANGED <<handlerVars, roleVars>>
    <3>1. /\ wire[q] = "mr"
          /\ wire' = [wire EXCEPT ![q] = "done"]
          /\ mr' = [mr EXCEPT ![q] = "open"]
          /\ UNCHANGED <<branched, pc, form, granted, held, managers, group>>
      BY <2>3 DEF LandMR
    <3> QED
      BY <3>1
  <2> QED
    BY <1>16, <2>1, <2>2, <2>3 DEF GitLab
<1>17. ASSUME NEW q \in Requests, Review(q) PROVE Phase(r)' /\ Permitted(r)'
  BY <1>17 DEF Review, Merge, Close
<1>18. ASSUME OutsideCommit, UNCHANGED <<handlerVars, roleVars>>
       PROVE  Phase(r)' /\ Permitted(r)'
  BY <1>18 DEF OutsideCommit
<1>19. ASSUME NEW u \in RoleChanges, ChangeRole(u) PROVE Phase(r)' /\ Permitted(r)'
  BY <1>19 DEF ChangeRole
<1>20. ASSUME Crash PROVE Phase(r)' /\ Permitted(r)'
  BY <1>20 DEF Crash
<1>21. CASE UNCHANGED vars
  BY <1>21 DEF vars
<1> QED
  BY <1>1, <1>2, <1>3, <1>4, <1>5, <1>6, <1>7, <1>8, <1>9, <1>10, <1>11, <1>12,
     <1>13, <1>14, <1>15, <1>16, <1>17, <1>18, <1>19, <1>20, <1>21
  DEF Next, Handler, Finished

\* No request reaches GitLab's write API unless verifyOrgManager let it through,
\* and it lets through only users entitled at some moment while the request ran.
THEOREM Authorisation == Spec => []AuthorisedWrites
<1>1. AuthInv => AuthorisedWrites
  BY DEF AuthInv, Permitted, AuthorisedWrites
<1> QED
  BY <1>1, InitTypeOK, StepTypeOK, InitAuthInv, StepAuthInv, PTL DEF Spec

-----------------------------------------------------------------------------
(* Provenance.                                                             *)

\* What a step never takes back: forms, flips made outside, merges and what
\* they rest on, and what a request with a branch has read.
Stable ==
  /\ form' = form
  /\ outside \subseteq outside'
  /\ \A r \in Requests : mr[r] = "merged" =>
       mr'[r] = "merged" /\ current'[r] = current[r] /\ (held[r] => held'[r])
  /\ \A r \in Requests : branched[r] => branched'[r] /\ current'[r] = current[r]

\* Files are read before the branch is asked for, a merge request is opened
\* once, and the history of entitlement only grows.
LEMMA StepStable == TypeOK /\ AuthInv /\ [Next]_vars => Stable
<1> SUFFICES ASSUME TypeOK, AuthInv, [Next]_vars PROVE Stable
  OBVIOUS
<1> USE DEF TypeOK, RepoTypeOK, AuthInv, Phase, Early, Calls, Steps,
            handlerVars, roleVars, repoVars, Stable
<1>1. ASSUME NEW q \in Requests, Refuse(q) PROVE Stable
  BY <1>1 DEF Refuse
<1>2. ASSUME NEW q \in Requests, Start(q) PROVE Stable
  BY <1>2 DEF Start
<1>3. ASSUME NEW q \in Requests, InAdminGroup(q) PROVE Stable
  BY <1>3 DEF InAdminGroup
<1>4. ASSUME NEW q \in Requests, NotInAdminGroup(q) PROVE Stable
  BY <1>4 DEF NotInAdminGroup
<1>5. ASSUME NEW q \in Requests, GroupLookupFails(q) PROVE Stable
  BY <1>5 DEF GroupLookupFails
<1>6. ASSUME NEW q \in Requests, RoleConfirmed(q) PROVE Stable
  BY <1>6 DEF RoleConfirmed
<1>7. ASSUME NEW q \in Requests, RoleNotConfirmed(q) PROVE Stable
  BY <1>7 DEF RoleNotConfirmed, Fail
<1>8. ASSUME NEW q \in Requests, ReadFile(q) PROVE Stable
  <2>1. /\ pc[q] = "read"
        /\ \A r \in Requests : r # q => current'[r] = current[r]
        /\ UNCHANGED <<form, outside, mr, branched, held>>
    BY <1>8 DEF ReadFile
  <2> QED
    BY <2>1
<1>9. ASSUME NEW q \in Requests, ReadFails(q) PROVE Stable
  BY <1>9 DEF ReadFails, Fail
<1>10. ASSUME NEW q \in Requests, ReadDefaults(q) PROVE Stable
  <2>1. /\ pc[q] = "defaults"
        /\ \A r \in Requests : r # q => current'[r] = current[r]
        /\ UNCHANGED <<form, outside, mr, branched, held>>
    BY <1>10 DEF ReadDefaults
  <2> QED
    BY <2>1
<1>11. ASSUME NEW q \in Requests, BranchCreated(q) PROVE Stable
  BY <1>11 DEF BranchCreated
<1>12. ASSUME NEW q \in Requests, Committed(q) PROVE Stable
  BY <1>12 DEF Committed
<1>13. ASSUME NEW q \in Requests, LookupAssignees(q) PROVE Stable
  BY <1>13 DEF LookupAssignees
<1>14. ASSUME NEW q \in Requests, MROpened(q) PROVE Stable
  BY <1>14 DEF MROpened
<1>15. ASSUME NEW q \in Requests, CallFails(q) PROVE Stable
  BY <1>15 DEF CallFails, Fail
<1>16. ASSUME NEW q \in Requests, GitLab(q) PROVE Stable
  <2>1. CASE LandBranch(q) /\ UNCHANGED <<handlerVars, roleVars>>
    BY <2>1 DEF LandBranch
  <2>2. CASE GitLabCommit(q)
    BY <2>2 DEF GitLabCommit, LandCommit
  <2>3. CASE LandMR(q) /\ UNCHANGED <<handlerVars, roleVars>>
    BY <2>3 DEF LandMR
  <2> QED
    BY <1>16, <2>1, <2>2, <2>3 DEF GitLab
<1>17. ASSUME NEW q \in Requests, Review(q) PROVE Stable
  BY <1>17 DEF Review, Merge, Close
<1>18. ASSUME OutsideCommit, UNCHANGED <<handlerVars, roleVars>> PROVE Stable
  BY <1>18 DEF OutsideCommit
<1>19. ASSUME NEW u \in RoleChanges, ChangeRole(u) PROVE Stable
  BY <1>19 DEF ChangeRole
<1>20. ASSUME Crash PROVE Stable
  BY <1>20 DEF Crash
<1>21. CASE UNCHANGED vars
  BY <1>21 DEF vars
<1> QED
  BY <1>1, <1>2, <1>3, <1>4, <1>5, <1>6, <1>7, <1>8, <1>9, <1>10, <1>11, <1>12,
     <1>13, <1>14, <1>15, <1>16, <1>17, <1>18, <1>19, <1>20, <1>21
  DEF Next, Handler, Finished

\* A change that was vouched for stays vouched for.
LEMMA VouchedStable ==
  ASSUME Stable, NEW f, NEW e, Vouched(f, e)
  PROVE  Vouched(f, e)'
<1>1. CASE <<f, e>> \in outside
  BY <1>1 DEF Stable, Vouched
<1>2. CASE \E r \in Requests : /\ mr[r] = "merged"
                               /\ held[r]
                               /\ Asked(r, f, e, e \notin InitialConfig[f])
  <2>1. PICK r \in Requests : /\ mr[r] = "merged"
                              /\ held[r]
                              /\ Asked(r, f, e, e \notin InitialConfig[f])
    BY <1>2
  <2>2. mr'[r] = "merged" /\ current'[r] = current[r] /\ held'[r] /\ form' = form
    BY <2>1 DEF Stable
  <2>3. Asked(r, f, e, e \notin InitialConfig[f])'
    BY <2>1, <2>2 DEF Asked
  <2> QED
    BY <2>1, <2>2, <2>3 DEF Vouched
<1> QED
  BY <1>1, <1>2 DEF Vouched

\* A request with a branch keeps asking for what it asked for.
LEMMA ClaimsStable ==
  ASSUME Stable, NEW r \in Requests, branched[r], NEW f, NEW e, Claims(r, f, e)
  PROVE  Claims(r, f, e)'
<1>1. current'[r] = current[r] /\ form' = form
  BY DEF Stable
<1> QED
  BY <1>1 DEF Claims, Asked

-----------------------------------------------------------------------------
(* Reading and committing. *)

\* An edit of a form names a file of the repository, never the defaults file,
\* and no edit or creation changes the header.
LEMMA FormFacts ==
  ASSUME NEW fm \in Forms
  PROVE  /\ fm.edits \in Seq(Edit)
         /\ \A i \in DOMAIN fm.edits :
              /\ fm.edits[i].file \in Files
              /\ fm.edits[i].file # DefaultsFile
         /\ \A f : Header \notin Adds(fm, f) \cup Dels(fm, f)
<1>1. fm \in Form /\ WellFormed(fm)
  BY PortalAssumption DEF Form
<1>2. fm.edits \in Seq(Edit)
  BY <1>1 DEF Form
<1>3. ASSUME NEW i \in DOMAIN fm.edits
      PROVE  /\ fm.edits[i] \in Edit
             /\ fm.edits[i].file # DefaultsFile
  BY <1>1, <1>2, <1>3 DEF WellFormed
<1>4. \A f : Header \notin Adds(fm, f) \cup Dels(fm, f)
  BY <1>3, RepoAssumption DEF Adds, Dels, Edits, Edit
<1> QED
  BY <1>2, <1>3, <1>4 DEF Edit

\* Every edited file has been read when the commit is sent.
LEMMA StepReadAll ==
  ASSUME TypeOK, AuthInv, [Next]_vars, \A q \in Requests : ReadAll(q),
         NEW r \in Requests
  PROVE  ReadAll(r)'
<1> USE DEF TypeOK, RepoTypeOK, Calls, Steps, Early, handlerVars, roleVars, repoVars,
            ReadAll, HasRead
<1>0. form[r] \in Forms /\ Phase(r) /\ Len(form[r].edits) \in Nat
      /\ DOMAIN form[r].edits = 1 .. Len(form[r].edits)
  BY FormFacts DEF AuthInv
<1>1. ASSUME NEW q \in Requests, Refuse(q) PROVE ReadAll(r)'
  BY <1>1 DEF Refuse
<1>2. ASSUME NEW q \in Requests, Start(q) PROVE ReadAll(r)'
  BY <1>2, <1>0 DEF Start, Accepted
<1>3. ASSUME NEW q \in Requests, InAdminGroup(q) PROVE ReadAll(r)'
  BY <1>3, <1>0 DEF InAdminGroup, Goto
<1>4. ASSUME NEW q \in Requests, NotInAdminGroup(q) PROVE ReadAll(r)'
  BY <1>4, <1>0 DEF NotInAdminGroup, Goto
<1>5. ASSUME NEW q \in Requests, GroupLookupFails(q) PROVE ReadAll(r)'
  BY <1>5, <1>0 DEF GroupLookupFails, Goto
<1>6. ASSUME NEW q \in Requests, RoleConfirmed(q) PROVE ReadAll(r)'
  BY <1>6, <1>0 DEF RoleConfirmed, Goto
<1>7. ASSUME NEW q \in Requests, RoleNotConfirmed(q) PROVE ReadAll(r)'
  BY <1>7 DEF RoleNotConfirmed, Fail
<1>8. ASSUME NEW q \in Requests, ReadFile(q) PROVE ReadAll(r)'
  <2> DEFINE ed == form[q].edits[next[q]]
             cur == [current[q] EXCEPT ![ed.file] = target[ed.file]]
  <2>1. /\ pc[q] = "read"
        /\ Header \in target[ed.file]
        /\ current' = [current EXCEPT ![q] = cur]
        /\ next' = [next EXCEPT ![q] = @ + 1]
        /\ form' = form
    BY <1>8 DEF ReadFile
  <2>2. \/ next[q] < Len(form[q].edits) /\ UNCHANGED <<pc, wire>>
        \/ /\ ~(next[q] < Len(form[q].edits))
           /\ \/ pc' = [pc EXCEPT ![q] = "defaults"] /\ wire' = wire
              \/ pc' = [pc EXCEPT ![q] = "end"] /\ wire' = wire
              \/ pc' = [pc EXCEPT ![q] = "branch"]
                 /\ wire' = [wire EXCEPT ![q] = "branch"]
    BY <1>8, DecideCases, Zenon DEF ReadFile, Goto
  <2>3. CASE r # q
    <3>1. current'[r] = current[r] /\ next'[r] = next[r]
          /\ pc'[r] = pc[r] /\ wire'[r] = wire[r]
      BY <2>1, <2>2, <2>3
    <3> QED
      BY <3>1, <2>1
  <2>4. CASE r = q
    <3>1. \A i \in 1 .. next[r] : Header \in current'[r][form[r].edits[i].file]
      <4>1. current'[r] = cur
        BY <2>1, <2>4
      <4>2. next[r] \in 1 .. Len(form[r].edits)
        BY <2>1, <2>4
      <4>3. \A i \in 1 .. next[r] : form[r].edits[i].file \in Files
        BY <4>2, <1>0, FormFacts
      <4>4. ASSUME NEW i \in 1 .. next[r]
            PROVE  Header \in cur[form[r].edits[i].file]
        <5>1. CASE form[r].edits[i].file = ed.file
          BY <5>1, <2>1, <4>3
        <5>2. CASE form[r].edits[i].file # ed.file
          <6>1. i \in 1 .. next[r] - 1
            BY <5>2, <2>4, <4>2
          <6>2. Header \in current[r][form[r].edits[i].file]
            BY <6>1, <2>1, <2>4
          <6> QED
            BY <5>2, <6>2, <4>3, <2>4
        <5> QED
          BY <5>1, <5>2
      <4> QED
        BY <4>1, <4>4
    <3>2. next'[r] = next[r] + 1 /\ next[r] \in 1 .. Len(form[r].edits)
      BY <2>1, <2>4
    <3>3. wire[r] = "idle"
      BY <1>0, <2>1, <2>4 DEF Phase
    <3>4. CASE next[r] < Len(form[r].edits) /\ pc'[r] = "read" /\ wire'[r] = "idle"
      BY <3>1, <3>2, <3>4, <2>1, <1>0
    <3>5. CASE /\ ~(next[r] < Len(form[r].edits))
               /\ pc'[r] \in {"defaults", "end", "branch"}
               /\ wire'[r] \in {"idle", "branch"}
      <4>1. \A i \in DOMAIN form[r].edits : Header \in current'[r][form[r].edits[i].file]
        BY <3>1, <3>2, <3>5, <1>0
      <4> QED
        BY <4>1, <3>5, <2>1
    <3> QED
      BY <3>3, <3>4, <3>5, <2>1, <2>2, <2>4
  <2> QED
    BY <2>3, <2>4
<1>9. ASSUME NEW q \in Requests, ReadFails(q) PROVE ReadAll(r)'
  BY <1>9 DEF ReadFails, Fail
<1>10. ASSUME NEW q \in Requests, ReadDefaults(q) PROVE ReadAll(r)'
  <2>1. /\ pc[q] = "defaults"
        /\ UNCHANGED <<form, next>>
        /\ \/ pc' = [pc EXCEPT ![q] = "end"] /\ wire' = wire
           \/ pc' = [pc EXCEPT ![q] = "branch"] /\ wire' = [wire EXCEPT ![q] = "branch"]
    BY <1>10, DecideCases, Zenon DEF ReadDefaults
  <2>2. PICK seed : current' = [current EXCEPT ![q] =
                                  [current[q] EXCEPT ![DefaultsFile] = seed]]
    BY <1>10 DEF ReadDefaults
  <2>3. CASE r # q
    BY <2>1, <2>2, <2>3
  <2>4. CASE r = q
    <3>1. \A i \in DOMAIN form[r].edits :
            current'[r][form[r].edits[i].file] = current[r][form[r].edits[i].file]
      BY <1>0, <2>2, <2>4, FormFacts
    <3>2. \A i \in DOMAIN form'[r].edits : Header \in current'[r][form'[r].edits[i].file]
      BY <2>1, <2>4, <3>1
    <3>3. pc'[r] \in {"end", "branch"}
      BY <2>1, <2>4
    <3> QED
      BY <3>2, <3>3
  <2> QED
    BY <2>3, <2>4
<1>11. ASSUME NEW q \in Requests, BranchCreated(q) PROVE ReadAll(r)'
  BY <1>11 DEF BranchCreated, Goto
<1>12. ASSUME NEW q \in Requests, Committed(q) PROVE ReadAll(r)'
  BY <1>12 DEF Committed, Goto
<1>13. ASSUME NEW q \in Requests, LookupAssignees(q) PROVE ReadAll(r)'
  BY <1>13 DEF LookupAssignees, Goto
<1>14. ASSUME NEW q \in Requests, MROpened(q) PROVE ReadAll(r)'
  BY <1>14 DEF MROpened, Goto
<1>15. ASSUME NEW q \in Requests, CallFails(q) PROVE ReadAll(r)'
  BY <1>15 DEF CallFails, Fail
<1>16. ASSUME NEW q \in Requests, GitLab(q) PROVE ReadAll(r)'
  <2>1. wire' = [wire EXCEPT ![q] = "done"] /\ UNCHANGED <<pc, form, next, current>>
    BY <1>16 DEF GitLab, LandBranch, GitLabCommit, LandCommit, LandMR
  <2> QED
    BY <2>1
<1>17. ASSUME NEW q \in Requests, Review(q) PROVE ReadAll(r)'
  BY <1>17 DEF Review, Merge, Close
<1>18. ASSUME OutsideCommit, UNCHANGED <<handlerVars, roleVars>> PROVE ReadAll(r)'
  BY <1>18 DEF OutsideCommit
<1>19. ASSUME NEW u \in RoleChanges, ChangeRole(u) PROVE ReadAll(r)'
  BY <1>19 DEF ChangeRole
<1>20. ASSUME Crash PROVE ReadAll(r)'
  BY <1>20 DEF Crash
<1>21. CASE UNCHANGED vars
  BY <1>21 DEF vars
<1> QED
  BY <1>1, <1>2, <1>3, <1>4, <1>5, <1>6, <1>7, <1>8, <1>9, <1>10, <1>11, <1>12,
     <1>13, <1>14, <1>15, <1>16, <1>17, <1>18, <1>19, <1>20, <1>21
  DEF Next, Handler, Finished

-----------------------------------------------------------------------------
(* Branches, commits and merges. *)

\* What the commit of q writes to f is either the seed of a file that is not
\* there, or the edit of a file q has read.
LEMMA CommitFacts ==
  ASSUME TypeOK, AuthInv, \A r \in Requests : ReadAll(r), Whole,
         NEW q \in Requests, GitLabCommit(q)
  PROVE  /\ wire[q] = "commit" /\ branched[q]
         /\ UNCHANGED <<target, branched, base, mr, outside, handlerVars, roleVars>>
         /\ \A r \in Requests : r # q => tip'[r] = tip[r]
         /\ \A f \in Files :
              \/ tip'[q][f] = tip[q][f]
              \/ /\ f \in NewFiles(form[q])
                 /\ tip[q][f] = {}
                 /\ tip'[q][f] = Seed(form[q], f, current[q])
              \/ /\ f \in EditedFiles(form[q])
                 /\ Header \in current[q][f]
                 /\ tip'[q][f] = (current[q][f] \ Dels(form[q], f)) \cup Adds(form[q], f)
<1> DEFINE updates == Changed(form[q], current[q])
           creates == NewFiles(form[q])
           content == [f \in Files |-> Result(form[q], f, current[q])]
<1>1. /\ wire[q] = "commit"
      /\ Applicable(tip[q], updates, creates)
      /\ tip' = [tip EXCEPT ![q] = [f \in Files |-> IF f \in updates \cup creates
                                       THEN content[f] ELSE tip[q][f]]]
      /\ UNCHANGED <<target, branched, base, mr, outside, handlerVars, roleVars>>
  BY DEF GitLabCommit, LandCommit
<1>2. branched[q]
  BY <1>1 DEF AuthInv, Phase
<1>3. \A r \in Requests : r # q => tip'[r] = tip[r]
  BY <1>1 DEF TypeOK, RepoTypeOK
<1>4. ASSUME NEW f \in Files
      PROVE  \/ tip'[q][f] = tip[q][f]
             \/ /\ f \in NewFiles(form[q])
                /\ tip[q][f] = {}
                /\ tip'[q][f] = Seed(form[q], f, current[q])
             \/ /\ f \in EditedFiles(form[q])
                /\ Header \in current[q][f]
                /\ tip'[q][f] = (current[q][f] \ Dels(form[q], f)) \cup Adds(form[q], f)
  <2>1. tip'[q][f] = IF f \in updates \cup creates
                       THEN Result(form[q], f, current[q]) ELSE tip[q][f]
    <3> HIDE DEF updates, creates, content
    <3>1. tip'[q] = [g \in Files |-> IF g \in updates \cup creates
                                       THEN content[g] ELSE tip[q][g]]
      BY <1>1 DEF TypeOK, RepoTypeOK
    <3>2. content[f] = Result(form[q], f, current[q])
      BY DEF content
    <3> QED
      BY <3>1, <3>2
  <2>2. CASE f \in creates
    <3>1. Header \notin tip[q][f]
      BY <1>1, <2>2 DEF Applicable
    <3>2. tip[q][f] = {}
      BY <3>1, <1>2 DEF Whole
    <3>3. Result(form[q], f, current[q]) = Seed(form[q], f, current[q])
      BY <2>2 DEF Result
    <3> QED
      BY <2>1, <2>2, <3>2, <3>3
  <2>3. CASE f \in updates /\ f \notin creates
    <3>1. PICK ed \in Edits(form[q]) : f = ed.file
      BY <2>3 DEF Changed, EditedFiles
    <3>2. PICK j \in DOMAIN form[q].edits : ed = form[q].edits[j]
      BY <3>1 DEF Edits
    <3>3. Header \in current[q][f]
      BY <1>1, <3>1, <3>2 DEF ReadAll, HasRead
    <3>4. Result(form[q], f, current[q])
            = (current[q][f] \ Dels(form[q], f)) \cup Adds(form[q], f)
      BY <2>3 DEF Result
    <3> QED
      BY <2>1, <2>3, <3>3, <3>4 DEF Changed
  <2> QED
    BY <2>1, <2>2, <2>3
<1> QED
  BY <1>1, <1>2, <1>3, <1>4

\* Steps that leave the repository's files alone keep them whole.
LEMMA QuietWhole ==
  ASSUME Whole, UNCHANGED <<target, branched, base, tip>>
  PROVE  Whole'
  BY DEF Whole

\* The steps of handlers and people that change no branch and no target.
Quiet == UNCHANGED <<target, branched, base, tip>>

LEMMA StepKinds ==
  ASSUME [Next]_vars
  PROVE  \/ Quiet
         \/ \E q \in Requests : LandBranch(q) /\ UNCHANGED <<handlerVars, roleVars>>
         \/ \E q \in Requests : GitLabCommit(q)
         \/ \E q \in Requests : Merge(q) /\ UNCHANGED <<handlerVars, roleVars>>
         \/ OutsideCommit /\ UNCHANGED <<handlerVars, roleVars>>
<1> USE DEF Quiet, handlerVars, roleVars, repoVars
<1>1. ASSUME NEW q \in Requests, Handler(q) PROVE Quiet
  <2>1. Refuse(q) \/ Start(q) \/ InAdminGroup(q) \/ NotInAdminGroup(q)
          \/ GroupLookupFails(q) \/ RoleConfirmed(q) => Quiet
    BY DEF Refuse, Start, InAdminGroup, NotInAdminGroup, GroupLookupFails, RoleConfirmed
  <2>2. RoleNotConfirmed(q) \/ ReadFails(q) \/ CallFails(q) => Quiet
    BY DEF RoleNotConfirmed, ReadFails, CallFails, Fail
  <2>3. ReadFile(q) \/ ReadDefaults(q) => Quiet
    BY Zenon DEF ReadFile, ReadDefaults
  <2>4. BranchCreated(q) \/ Committed(q) \/ LookupAssignees(q) \/ MROpened(q) => Quiet
    BY DEF BranchCreated, Committed, LookupAssignees, MROpened
  <2> QED
    BY <1>1, <2>1, <2>2, <2>3, <2>4 DEF Handler
<1>2. ASSUME NEW q \in Requests, GitLab(q)
      PROVE  \/ Quiet
             \/ LandBranch(q) /\ UNCHANGED <<handlerVars, roleVars>>
             \/ GitLabCommit(q)
  BY <1>2 DEF GitLab, LandMR
<1>3. ASSUME NEW q \in Requests, Review(q)
      PROVE  Quiet \/ (Merge(q) /\ UNCHANGED <<handlerVars, roleVars>>)
  BY <1>3 DEF Review, Close
<1>4. ASSUME NEW u \in RoleChanges, ChangeRole(u) PROVE Quiet
  BY <1>4 DEF ChangeRole
<1>5. Crash \/ Finished \/ UNCHANGED vars => Quiet
  BY DEF Crash, Finished, vars
<1> QED
  BY <1>1, <1>2, <1>3, <1>4, <1>5 DEF Next

\* Files keep their header on the target and on every branch, whatever is
\* committed and merged.
LEMMA StepWhole ==
  ASSUME TypeOK, AuthInv, \A r \in Requests : ReadAll(r), Whole, [Next]_vars
  PROVE  Whole'
<1> USE DEF TypeOK, RepoTypeOK
<1>1. CASE Quiet
  BY <1>1, QuietWhole DEF Quiet
<1>2. ASSUME NEW q \in Requests, LandBranch(q) PROVE Whole'
  <2>1. /\ target' = target
        /\ base'[q] = target
        /\ tip'[q] = target
        /\ \A r \in Requests : r # q => /\ base'[r] = base[r]
                                        /\ tip'[r] = tip[r]
                                        /\ branched'[r] = branched[r]
    BY <1>2 DEF LandBranch
  <2>2. \A f \in Files : Header \in target'[f] \/ target'[f] = {}
    BY <2>1 DEF Whole
  <2>3. ASSUME NEW r \in Requests, branched'[r], NEW f \in Files
        PROVE  /\ Header \in tip'[r][f] \/ tip'[r][f] = {}
               /\ Header \in base'[r][f] => Header \in tip'[r][f] /\ Header \in target'[f]
    <3>1. CASE r = q
      BY <3>1, <2>1, <2>2
    <3>2. CASE r # q
      BY <3>2, <2>1, <2>3 DEF Whole
    <3> QED
      BY <3>1, <3>2
  <2> QED
    BY <2>2, <2>3 DEF Whole
<1>3. ASSUME NEW q \in Requests, GitLabCommit(q) PROVE Whole'
  <2>1. ASSUME NEW f \in Files
        PROVE  tip'[q][f] = tip[q][f] \/ Header \in tip'[q][f]
    <3>1. form[q] \in Forms
      OBVIOUS
    <3>2. Header \in Seed(form[q], f, current[q])
      BY DEF Seed
    <3>3. Header \notin Dels(form[q], f)
      BY <3>1, FormFacts
    <3>4. \/ tip'[q][f] = tip[q][f]
          \/ tip'[q][f] = Seed(form[q], f, current[q])
          \/ /\ Header \in current[q][f]
             /\ tip'[q][f] = (current[q][f] \ Dels(form[q], f)) \cup Adds(form[q], f)
      BY <1>3, CommitFacts
    <3> QED
      BY <3>2, <3>3, <3>4
  <2>2. /\ UNCHANGED <<target, branched, base>>
        /\ \A r \in Requests : r # q => tip'[r] = tip[r]
    BY <1>3, CommitFacts
  <2>3. branched[q]
    BY <1>3, CommitFacts
  <2>4. ASSUME NEW r \in Requests, branched[r], NEW f \in Files
        PROVE  /\ Header \in tip'[r][f] \/ tip'[r][f] = {}
               /\ Header \in base[r][f] => Header \in tip'[r][f] /\ Header \in target[f]
    <3>1. tip'[r][f] = tip[r][f] \/ Header \in tip'[r][f]
      BY <2>1, <2>2
    <3> QED
      BY <3>1, <2>4 DEF Whole
  <2> QED
    BY <2>2, <2>4 DEF Whole
<1>4. ASSUME NEW q \in Requests, Merge(q) PROVE Whole'
  <2>1. branched[q]
    BY <1>4 DEF Merge, AuthInv, Phase
  <2>2. UNCHANGED <<branched, base, tip>>
        /\ \A f \in Files : target'[f] = Merged(q, f)
    BY <1>4 DEF Merge
  <2>3. ASSUME NEW f \in Files
        PROVE  /\ Header \in target[f] => Header \in Merged(q, f)
               /\ Header \in Merged(q, f) \/ Merged(q, f) = {}
    BY <2>1 DEF Merged, Whole
  <2> QED
    BY <2>2, <2>3 DEF Whole
<1>5. ASSUME OutsideCommit PROVE Whole'
  <2>1. PICK p \in OutsideEdits \ outside :
          /\ Header \in target[p[1]]
          /\ target' = [target EXCEPT ![p[1]] =
                          IF p[2] \in target[p[1]] THEN target[p[1]] \ {p[2]}
                                                   ELSE target[p[1]] \cup {p[2]}]
          /\ UNCHANGED <<branched, base, tip, mr, wire>>
    BY <1>5 DEF OutsideCommit
  <2>2. p[1] \in Files /\ p[2] # Header
    BY <2>1, RepoAssumption
  <2>3. \A f \in Files : target'[f] = target[f]
                         \/ (Header \in target[f] /\ Header \in target'[f])
    <3>1. target'[p[1]] \in {target[p[1]] \ {p[2]}, target[p[1]] \cup {p[2]}}
      BY <2>1, <2>2
    <3>2. \A f \in Files : f # p[1] => target'[f] = target[f]
      BY <2>1
    <3>3. Header \in target[p[1]]
      BY <2>1
    <3>4. Header \in target'[p[1]]
      BY <3>1, <3>3, <2>2
    <3>5. ASSUME NEW f \in Files
          PROVE  target'[f] = target[f] \/ (Header \in target[f] /\ Header \in target'[f])
      <4>1. CASE f = p[1]
        BY <4>1, <3>3, <3>4
      <4>2. CASE f # p[1]
        BY <4>2, <3>2
      <4> QED
        BY <4>1, <4>2
    <3> QED
      BY <3>5
  <2> QED
    BY <2>1, <2>3 DEF Whole
<1> QED
  BY <1>1, <1>2, <1>3, <1>4, <1>5, StepKinds

\* Only the two reading steps change what a request has read.
LEMMA ReadsOnly ==
  ASSUME [Next]_vars
  PROVE  \/ UNCHANGED current
         \/ \E q \in Requests : ReadFile(q) \/ ReadDefaults(q)
<1> USE DEF handlerVars
<1>1. ASSUME NEW q \in Requests, Handler(q)
      PROVE  UNCHANGED current \/ ReadFile(q) \/ ReadDefaults(q)
  <2>1. Refuse(q) \/ Start(q) \/ InAdminGroup(q) \/ NotInAdminGroup(q)
          \/ GroupLookupFails(q) \/ RoleConfirmed(q) => UNCHANGED current
    BY DEF Refuse, Start, InAdminGroup, NotInAdminGroup, GroupLookupFails, RoleConfirmed
  <2>2. RoleNotConfirmed(q) \/ ReadFails(q) \/ CallFails(q) => UNCHANGED current
    BY DEF RoleNotConfirmed, ReadFails, CallFails, Fail
  <2>3. BranchCreated(q) \/ Committed(q) \/ LookupAssignees(q) \/ MROpened(q)
          => UNCHANGED current
    BY DEF BranchCreated, Committed, LookupAssignees, MROpened
  <2> QED
    BY <1>1, <2>1, <2>2, <2>3 DEF Handler
<1>2. ASSUME NEW q \in Requests, GitLab(q) \/ Review(q) PROVE UNCHANGED current
  BY <1>2 DEF GitLab, GitLabCommit, Review
<1>3. ASSUME NEW u \in RoleChanges, ChangeRole(u) PROVE UNCHANGED current
  BY <1>3 DEF ChangeRole
<1>4. Crash \/ Finished \/ UNCHANGED vars => UNCHANGED current
  BY DEF Crash, Finished, vars
<1> QED
  BY <1>1, <1>2, <1>3, <1>4 DEF Next

\* What a request has read, and what is on its branch, is the target's content
\* or what the request asks for.
LEMMA StepTraced ==
  ASSUME TypeOK, AuthInv, ProvenanceInv, [Next]_vars, NEW r \in Requests
  PROVE  Traced(r)'
<1>1. Stable
  BY StepStable
<1>2. ASSUME NEW f \in Files, Header \in current'[r][f],
             NEW e \in Diff(current'[r][f], InitialConfig[f])
      PROVE  Vouched(f, e)'
  <2>1. \/ current'[r][f] = current[r][f]
        \/ current'[r][f] = target[f]
    <3> USE DEF TypeOK, RepoTypeOK
    <3>1. ASSUME NEW q \in Requests, ReadFile(q)
          PROVE  current'[r][f] \in {current[r][f], target[f]}
      <4>1. current' = [current EXCEPT ![q] =
               [current[q] EXCEPT ![form[q].edits[next[q]].file]
                                    = target[form[q].edits[next[q]].file]]]
        BY <3>1 DEF ReadFile
      <4> QED
        BY <4>1
    <3>2. ASSUME NEW q \in Requests, ReadDefaults(q)
          PROVE  current'[r][f] = current[r][f]
      <4>1. PICK seed \in {target[DefaultsFile] \ {Header}, {}} :
              current' = [current EXCEPT ![q] =
                            [current[q] EXCEPT ![DefaultsFile] = seed]]
        BY <3>2 DEF ReadDefaults
      <4>2. Header \notin seed
        BY <4>1
      <4> QED
        BY <4>1, <4>2, <1>2
    <3>3. CASE UNCHANGED current
      BY <3>3
    <3>4. \/ UNCHANGED current
          \/ \E q \in Requests : ReadFile(q) \/ ReadDefaults(q)
      BY ReadsOnly
    <3> QED
      BY <3>1, <3>2, <3>3, <3>4
  <2>2. Vouched(f, e)
    BY <2>1, <1>2 DEF ProvenanceInv, Traced, Provenance, Whole, Diff
  <2> QED
    BY <1>1, <2>2, VouchedStable
<1>3. ASSUME branched'[r], NEW f \in Files,
             NEW e \in Diff(tip'[r][f], InitialConfig[f])
      PROVE  Vouched(f, e)' \/ Claims(r, f, e)'
  <2>1. ASSUME branched[r], Vouched(f, e) \/ Claims(r, f, e)
        PROVE  Vouched(f, e)' \/ Claims(r, f, e)'
    BY <1>1, <2>1, VouchedStable, ClaimsStable
  <2>2. CASE branched'[r] = branched[r] /\ tip'[r] = tip[r]
    BY <2>1, <2>2, <1>3 DEF ProvenanceInv, Traced
  <2>3. ASSUME LandBranch(r)
        PROVE  Vouched(f, e)' \/ Claims(r, f, e)'
    <3>1. tip'[r] = target
      BY <2>3 DEF LandBranch, TypeOK, RepoTypeOK
    <3>2. Vouched(f, e)
      BY <3>1, <1>3 DEF ProvenanceInv, Provenance
    <3> QED
      BY <1>1, <3>2, VouchedStable
  <2>4. ASSUME GitLabCommit(r)
        PROVE  Vouched(f, e)' \/ Claims(r, f, e)'
    <3>0. /\ branched[r] /\ Traced(r)
          /\ form[r] \in Forms
          /\ \/ tip'[r][f] = tip[r][f]
             \/ /\ f \in NewFiles(form[r])
                /\ tip[r][f] = {}
                /\ tip'[r][f] = Seed(form[r], f, current[r])
             \/ /\ f \in EditedFiles(form[r])
                /\ Header \in current[r][f]
                /\ tip'[r][f] = (current[r][f] \ Dels(form[r], f)) \cup Adds(form[r], f)
      BY <2>4, CommitFacts DEF ProvenanceInv, TypeOK
    <3>1. CASE tip'[r][f] = tip[r][f]
      BY <3>0, <3>1, <2>1, <1>3 DEF Traced
    <3>2. CASE /\ f \in NewFiles(form[r])
               /\ tip[r][f] = {}
               /\ tip'[r][f] = Seed(form[r], f, current[r])
      <4>1. CASE e \in Seed(form[r], f, current[r])
        <5>1. e \notin InitialConfig[f]
          BY <3>2, <4>1, <1>3 DEF Diff
        <5>2. Claims(r, f, e)
          BY <3>2, <4>1, <5>1 DEF Claims, Asked
        <5> QED
          BY <3>0, <5>2, <2>1
      <4>2. CASE e \notin Seed(form[r], f, current[r])
        <5>1. e \in Diff(tip[r][f], InitialConfig[f])
          BY <3>2, <4>2, <1>3 DEF Diff
        <5> QED
          BY <3>0, <5>1, <2>1 DEF Traced
      <4> QED
        BY <4>1, <4>2
    <3>3. CASE /\ f \in EditedFiles(form[r])
               /\ Header \in current[r][f]
               /\ tip'[r][f] = (current[r][f] \ Dels(form[r], f)) \cup Adds(form[r], f)
      <4>1. CASE \/ e \notin InitialConfig[f] /\ e \in Adds(form[r], f)
                 \/ e \in InitialConfig[f] /\ e \in Dels(form[r], f)
        <5>1. Claims(r, f, e)
          BY <4>1 DEF Claims, Asked
        <5> QED
          BY <3>0, <5>1, <2>1
      <4>2. CASE /\ ~(e \notin InitialConfig[f] /\ e \in Adds(form[r], f))
                 /\ ~(e \in InitialConfig[f] /\ e \in Dels(form[r], f))
        <5>1. e \in Diff(current[r][f], InitialConfig[f])
          BY <3>3, <4>2, <1>3 DEF Diff
        <5> QED
          BY <3>0, <3>3, <5>1, <2>1 DEF Traced
      <4> QED
        BY <4>1, <4>2
    <3> QED
      BY <3>0, <3>1, <3>2, <3>3
  <2>5. \/ branched'[r] = branched[r] /\ tip'[r] = tip[r]
        \/ LandBranch(r)
        \/ GitLabCommit(r)
    <3> USE DEF TypeOK, RepoTypeOK
    <3>1. ASSUME NEW q \in Requests, LandBranch(q), q # r
          PROVE  branched'[r] = branched[r] /\ tip'[r] = tip[r]
      BY <3>1 DEF LandBranch
    <3>2. ASSUME NEW q \in Requests, GitLabCommit(q), q # r
          PROVE  branched'[r] = branched[r] /\ tip'[r] = tip[r]
      BY <3>2, CommitFacts DEF ProvenanceInv
    <3>3. ASSUME NEW q \in Requests, Merge(q)
          PROVE  branched'[r] = branched[r] /\ tip'[r] = tip[r]
      BY <3>3 DEF Merge
    <3>4. CASE OutsideCommit
      BY <3>4 DEF OutsideCommit
    <3>5. CASE Quiet
      BY <3>5 DEF Quiet
    <3> QED
      BY <3>1, <3>2, <3>3, <3>4, <3>5, StepKinds
  <2> QED
    BY <2>2, <2>3, <2>4, <2>5
<1> QED
  BY <1>2, <1>3 DEF Traced

\* A merge, of whatever age, brings to the target what its request asked for or
\* what was vouched for before, and takes nothing else away.
LEMMA StepProvenance ==
  ASSUME TypeOK, AuthInv, ProvenanceInv, [Next]_vars
  PROVE  Provenance'
<1>1. Stable
  BY StepStable
<1> SUFFICES ASSUME NEW f \in Files, NEW e \in Diff(target'[f], InitialConfig[f])
             PROVE  Vouched(f, e)'
  BY DEF Provenance
<1>2. CASE target'[f] = target[f]
  BY <1>1, <1>2, VouchedStable DEF ProvenanceInv, Provenance
<1>3. ASSUME NEW q \in Requests, Merge(q), UNCHANGED <<handlerVars, roleVars>>
      PROVE  Vouched(f, e)'
  <2>1. /\ target'[f] = Merged(q, f)
        /\ mr'[q] = "merged"
        /\ branched[q] /\ held[q]
        /\ UNCHANGED <<form, current, held>>
    BY <1>3 DEF Merge, TypeOK, RepoTypeOK, AuthInv, Phase, Permitted, handlerVars
  <2>2. \/ e \in Diff(target[f], InitialConfig[f])
        \/ e \in Diff(tip[q][f], InitialConfig[f])
    BY <2>1 DEF Merged, Diff
  <2>3. CASE Vouched(f, e)
    BY <1>1, <2>3, VouchedStable
  <2>4. CASE Claims(q, f, e)
    <3>1. Claims(q, f, e)'
      BY <1>1, <2>1, <2>4, ClaimsStable
    <3> QED
      BY <2>1, <3>1 DEF Vouched, Claims
  <2> QED
    BY <2>1, <2>2, <2>3, <2>4 DEF ProvenanceInv, Provenance, Traced
<1>4. ASSUME OutsideCommit PROVE Vouched(f, e)'
  <2>1. PICK p \in OutsideEdits \ outside :
          /\ target' = [target EXCEPT ![p[1]] =
                          IF p[2] \in target[p[1]] THEN target[p[1]] \ {p[2]}
                                                   ELSE target[p[1]] \cup {p[2]}]
          /\ outside' = outside \cup {p}
    BY <1>4 DEF OutsideCommit
  <2>2. p = <<p[1], p[2]>> /\ p[1] \in Files
    BY <2>1, RepoAssumption
  <2>3. CASE f = p[1] /\ e = p[2]
    BY <2>1, <2>2, <2>3 DEF Vouched
  <2>4. CASE f # p[1] \/ e # p[2]
    <3>1. f # p[1] => target'[f] = target[f]
      BY <2>1, <2>2 DEF TypeOK, RepoTypeOK
    <3>2. target'[p[1]] \in {target[p[1]] \ {p[2]}, target[p[1]] \cup {p[2]}}
      BY <2>1, <2>2 DEF TypeOK, RepoTypeOK
    <3>3. e \in Diff(target[f], InitialConfig[f])
      BY <2>4, <3>1, <3>2 DEF Diff
    <3> QED
      BY <1>1, <3>3, VouchedStable DEF ProvenanceInv, Provenance
  <2> QED
    BY <2>3, <2>4
<1>5. \/ target'[f] = target[f]
      \/ \E q \in Requests : Merge(q) /\ UNCHANGED <<handlerVars, roleVars>>
      \/ OutsideCommit
  <2>1. \A q \in Requests : LandBranch(q) => target' = target
    BY DEF LandBranch
  <2>2. \A q \in Requests : GitLabCommit(q) => target' = target
    BY DEF GitLabCommit, LandCommit
  <2> QED
    BY <2>1, <2>2, StepKinds DEF Quiet
<1> QED
  BY <1>2, <1>3, <1>4, <1>5

LEMMA InitProvenanceInv == Init => ProvenanceInv
<1> SUFFICES ASSUME Init PROVE ProvenanceInv
  OBVIOUS
<1> USE RepoAssumption DEF Init, RepoInit
<1>1. Provenance
  BY DEF Provenance, Diff
<1>2. Whole
  BY DEF Whole
<1>3. ASSUME NEW r \in Requests PROVE ReadAll(r) /\ Traced(r)
  BY DEF ReadAll, Traced
<1> QED
  BY <1>1, <1>2, <1>3 DEF ProvenanceInv

LEMMA StepProvenanceInv == TypeOK /\ AuthInv /\ ProvenanceInv /\ [Next]_vars => ProvenanceInv'
<1> SUFFICES ASSUME TypeOK, AuthInv, ProvenanceInv, [Next]_vars
             PROVE  ProvenanceInv'
  OBVIOUS
<1>1. \A r \in Requests : ReadAll(r)'
  BY StepReadAll DEF ProvenanceInv
<1>2. \A r \in Requests : Traced(r)'
  BY StepTraced
<1>3. Whole'
  BY StepWhole DEF ProvenanceInv
<1>4. Provenance'
  BY StepProvenance
<1> QED
  BY <1>1, <1>2, <1>3, <1>4 DEF ProvenanceInv

\* Whatever the target branch has that it did not have at first, or lacks that
\* it had, was changed outside the portal or asked for by a merged request of
\* a user entitled to that file's org.
THEOREM ProvenanceHolds == Spec => []Provenance
<1>1. ProvenanceInv => Provenance
  BY DEF ProvenanceInv
<1> QED
  BY <1>1, InitTypeOK, StepTypeOK, InitAuthInv, StepAuthInv,
     InitProvenanceInv, StepProvenanceInv, PTL DEF Spec

-----------------------------------------------------------------------------
(* Commits and answers.                                                    *)

(* The files of a form are files of the repository, none is edited and     *)
(* created, and no line of a file is added and removed.                    *)
LEMMA FormFiles ==
  ASSUME NEW fm \in Forms
  PROVE  /\ EditedFiles(fm) \cup NewFiles(fm) \subseteq Files
         /\ EditedFiles(fm) \cap NewFiles(fm) = {}
         /\ \A f : Adds(fm, f) \cap Dels(fm, f) = {}
<1>1. fm \in Form /\ WellFormed(fm)
  BY PortalAssumption
<1>2. fm.edits \in Seq(Edit) /\ fm.creates \subseteq Creation
  BY <1>1 DEF Form
<1>3. \A i \in DOMAIN fm.edits : fm.edits[i] \in Edit
  BY <1>2
<1>4. EditedFiles(fm) \cup NewFiles(fm) \subseteq Files
  BY <1>2, <1>3 DEF EditedFiles, NewFiles, Edits, Edit, Creation
<1>5. EditedFiles(fm) \cap NewFiles(fm) = {}
  BY <1>1 DEF EditedFiles, NewFiles, Edits, WellFormed
<1>6. ASSUME NEW f, NEW e \in Adds(fm, f) \cap Dels(fm, f) PROVE FALSE
  <2>1. PICK i \in DOMAIN fm.edits : fm.edits[i].file = f /\ e \in fm.edits[i].add
    BY <1>6 DEF Adds, Edits
  <2>2. PICK j \in DOMAIN fm.edits : fm.edits[j].file = f /\ e \in fm.edits[j].del
    BY <1>6 DEF Dels, Edits
  <2>3. i = j
    BY <1>1, <2>1, <2>2 DEF WellFormed
  <2> QED
    BY <1>1, <2>1, <2>2, <2>3 DEF WellFormed
<1> QED
  BY <1>4, <1>5, <1>6

(* What is written are files of the form.                                  *)
LEMMA WrittenFiles ==
  ASSUME TypeOK, NEW r \in Requests
  PROVE  Written(r) \subseteq EditedFiles(form[r]) \cup NewFiles(form[r])
         /\ Written(r) \subseteq Files
<1>1. form[r] \in Forms
  BY DEF TypeOK
<1> QED
  BY <1>1, FormFiles DEF Written, Changed

(* What is done stays done: a request with a branch reads no more.         *)
LEMMA DoneStable ==
  ASSUME Stable, NEW r \in Requests, branched[r],
         base'[r] = base[r], tip'[r] = tip[r], Done(r)
  PROVE  Done(r)'
<1>1. form' = form /\ current'[r] = current[r]
  BY DEF Stable
<1>2. \A f : Result(form[r], f, current[r])' = Result(form[r], f, current[r])
  BY <1>1 DEF Result, NewFiles, Seed, Dels, Adds, Edits
<1>3. Written(r)' = Written(r) /\ NewFiles(form[r])' = NewFiles(form[r])
  BY <1>1 DEF Written, Changed, EditedFiles, Edits, NewFiles, Result, Seed, Dels, Adds
<1> QED
  BY <1>2, <1>3 DEF Done

(* The commit of r makes it done.                                          *)
LEMMA CommitDoes ==
  ASSUME TypeOK, AuthInv, Whole, Stable, NEW q \in Requests, GitLabCommit(q),
         tip[q] = base[q]
  PROVE  Done(q)'
<1> DEFINE updates == Changed(form[q], current[q])
           creates == NewFiles(form[q])
           content == [f \in Files |-> Result(form[q], f, current[q])]
<1>1. /\ wire[q] = "commit"
      /\ Applicable(tip[q], updates, creates)
      /\ tip' = [tip EXCEPT ![q] = [f \in Files |-> IF f \in updates \cup creates
                                       THEN content[f] ELSE tip[q][f]]]
      /\ UNCHANGED <<base, form, current>>
  BY DEF GitLabCommit, LandCommit, handlerVars
<1>2. branched[q]
  BY <1>1 DEF AuthInv, Phase
<1>3. ASSUME NEW f \in Files
      PROVE  tip'[q][f] = IF f \in Written(q) THEN Result(form[q], f, current[q]) ELSE base[q][f]
  <2> HIDE DEF updates, creates, content
  <2>1. tip'[q] = [g \in Files |-> IF g \in updates \cup creates
                                     THEN content[g] ELSE tip[q][g]]
    BY <1>1 DEF TypeOK, RepoTypeOK
  <2>2. content[f] = Result(form[q], f, current[q])
    BY DEF content
  <2>3. Written(q) = updates \cup creates
    BY DEF Written, updates, creates
  <2> QED
    BY <2>1, <2>2, <2>3
<1>4. ASSUME NEW f \in Files, f \in creates PROVE base[q][f] = {}
  BY <1>1, <1>2, <1>4 DEF Applicable, Whole
<1>5. Written(q)' = Written(q) /\ NewFiles(form[q])' = creates
  BY <1>1 DEF Written, Changed, EditedFiles, Edits, NewFiles, Result, Seed, Dels, Adds
<1>6. \A f : Result(form[q], f, current[q])' = Result(form[q], f, current[q])
  BY <1>1 DEF Result, NewFiles, Seed, Dels, Adds, Edits
<1> QED
  BY <1>1, <1>3, <1>4, <1>5, <1>6 DEF Done

-----------------------------------------------------------------------------
\* The files of r's branch stay as they are.
Rests(r) == UNCHANGED <<branched[r], base[r], tip[r]>>

\* What a step may do to the progress of r.
Progress(r) ==
  \/ Rests(r) /\ UNCHANGED <<pc[r], wire[r], mr[r]>>
  \/ Rests(r) /\ UNCHANGED <<wire[r], mr[r]>> /\ pc[r] # "new" /\ pc'[r] \in {"end", "crashed"}
  \/ /\ Rests(r) /\ pc[r] \in Early /\ UNCHANGED mr[r]
     /\ \/ pc'[r] \in Early \cup {"end"} /\ UNCHANGED wire[r]
        \/ pc'[r] = "branch" /\ wire'[r] = "branch"
  \/ /\ Rests(r) /\ UNCHANGED mr[r]
     /\ \/ pc[r] = "branch" /\ wire[r] = "done" /\ pc'[r] = "commit" /\ wire'[r] = "commit"
        \/ pc[r] = "commit" /\ wire[r] = "done" /\ pc'[r] = "members" /\ wire'[r] = "idle"
        \/ pc[r] = "members" /\ pc'[r] = "mr" /\ wire'[r] = "mr"
        \/ pc[r] = "mr" /\ wire[r] = "done" /\ pc'[r] = "end" /\ wire'[r] = "idle"
  \/ /\ LandBranch(r) /\ UNCHANGED pc
  \/ GitLabCommit(r)
  \/ Rests(r) /\ wire[r] = "mr" /\ wire'[r] = "done" /\ mr'[r] = "open" /\ UNCHANGED pc[r]
  \/ /\ Rests(r) /\ UNCHANGED <<pc[r], wire[r]>>
     /\ mr[r] = "open" /\ mr'[r] \in {"merged", "closed"}

(* Each step moves a request at most one call on.                          *)
LEMMA StepProgress ==
  ASSUME TypeOK, AuthInv, [Next]_vars, NEW r \in Requests
  PROVE  Progress(r)
<1> USE DEF TypeOK, RepoTypeOK, Calls, Steps, Early, handlerVars, roleVars, repoVars,
            Progress, Rests
<1>1. ASSUME NEW q \in Requests, Refuse(q) PROVE Progress(r)
  BY <1>1 DEF Refuse
<1>2. ASSUME NEW q \in Requests, Start(q) PROVE Progress(r)
  BY <1>2 DEF Start
<1>3. ASSUME NEW q \in Requests, InAdminGroup(q) PROVE Progress(r)
  BY <1>3 DEF InAdminGroup, Goto
<1>4. ASSUME NEW q \in Requests, NotInAdminGroup(q) PROVE Progress(r)
  BY <1>4 DEF NotInAdminGroup, Goto
<1>5. ASSUME NEW q \in Requests, GroupLookupFails(q) PROVE Progress(r)
  BY <1>5 DEF GroupLookupFails, Goto
<1>6. ASSUME NEW q \in Requests, RoleConfirmed(q) PROVE Progress(r)
  BY <1>6 DEF RoleConfirmed, Goto
<1>7. ASSUME NEW q \in Requests, RoleNotConfirmed(q) PROVE Progress(r)
  BY <1>7 DEF RoleNotConfirmed, Fail
<1>8. ASSUME NEW q \in Requests, ReadFile(q) PROVE Progress(r)
  <2>1. \/ UNCHANGED <<pc, wire>>
        \/ pc' = [pc EXCEPT ![q] = "defaults"] /\ wire' = wire
        \/ pc' = [pc EXCEPT ![q] = "end"] /\ wire' = wire
        \/ pc' = [pc EXCEPT ![q] = "branch"] /\ wire' = [wire EXCEPT ![q] = "branch"]
    BY <1>8, DecideCases, Zenon DEF ReadFile, Goto
  <2>2. pc[q] = "read" /\ UNCHANGED <<branched, base, tip, mr>>
    BY <1>8 DEF ReadFile
  <2> QED
    BY <2>1, <2>2
<1>9. ASSUME NEW q \in Requests, ReadFails(q) PROVE Progress(r)
  BY <1>9 DEF ReadFails, Fail
<1>10. ASSUME NEW q \in Requests, ReadDefaults(q) PROVE Progress(r)
  <2>1. \/ pc' = [pc EXCEPT ![q] = "end"] /\ wire' = wire
        \/ pc' = [pc EXCEPT ![q] = "branch"] /\ wire' = [wire EXCEPT ![q] = "branch"]
    BY <1>10, DecideCases, Zenon DEF ReadDefaults
  <2>2. pc[q] = "defaults" /\ UNCHANGED <<branched, base, tip, mr>>
    BY <1>10 DEF ReadDefaults
  <2> QED
    BY <2>1, <2>2
<1>11. ASSUME NEW q \in Requests, BranchCreated(q) PROVE Progress(r)
  BY <1>11 DEF BranchCreated, Goto
<1>12. ASSUME NEW q \in Requests, Committed(q) PROVE Progress(r)
  BY <1>12 DEF Committed, Goto
<1>13. ASSUME NEW q \in Requests, LookupAssignees(q) PROVE Progress(r)
  BY <1>13 DEF LookupAssignees, Goto
<1>14. ASSUME NEW q \in Requests, MROpened(q) PROVE Progress(r)
  BY <1>14 DEF MROpened, Goto
<1>15. ASSUME NEW q \in Requests, CallFails(q) PROVE Progress(r)
  BY <1>15 DEF CallFails, Fail
<1>16. ASSUME NEW q \in Requests, GitLab(q) PROVE Progress(r)
  <2>1. CASE LandBranch(q) /\ UNCHANGED <<handlerVars, roleVars>>
    BY <2>1 DEF LandBranch
  <2>2. CASE GitLabCommit(q)
    BY <2>2 DEF GitLabCommit, LandCommit
  <2>3. CASE LandMR(q) /\ UNCHANGED <<handlerVars, roleVars>>
    BY <2>3 DEF LandMR
  <2> QED
    BY <1>16, <2>1, <2>2, <2>3 DEF GitLab
<1>17. ASSUME NEW q \in Requests, Review(q) PROVE Progress(r)
  BY <1>17 DEF Review, Merge, Close
<1>18. ASSUME OutsideCommit, UNCHANGED <<handlerVars, roleVars>> PROVE Progress(r)
  BY <1>18 DEF OutsideCommit
<1>19. ASSUME NEW u \in RoleChanges, ChangeRole(u) PROVE Progress(r)
  BY <1>19 DEF ChangeRole
<1>20. ASSUME Crash PROVE Progress(r)
  BY <1>20 DEF Crash, InFlight
<1>21. CASE UNCHANGED vars
  BY <1>21 DEF vars
<1> QED
  BY <1>1, <1>2, <1>3, <1>4, <1>5, <1>6, <1>7, <1>8, <1>9, <1>10, <1>11, <1>12,
     <1>13, <1>14, <1>15, <1>16, <1>17, <1>18, <1>19, <1>20, <1>21
  DEF Next, Handler, Finished

LEMMA InitCommitInv == Init => CommitInv
BY DEF Init, RepoInit, CommitInv, CommitPhase

(* Each call of a request keeps its commit whole.                          *)
LEMMA StepCommitInv ==
  ASSUME TypeOK, AuthInv, Whole, CommitInv, [Next]_vars
  PROVE  CommitInv'
<1> SUFFICES ASSUME NEW r \in Requests PROVE CommitPhase(r)'
  BY DEF CommitInv
<1>1. Phase(r) /\ CommitPhase(r)
  BY DEF AuthInv, CommitInv
<1>2. Stable
  BY StepStable
<1>3. branched[r] /\ Rests(r) /\ Done(r) => Done(r)'
  BY <1>2, DoneStable DEF Rests
<1>4. CASE Rests(r) /\ UNCHANGED <<pc[r], wire[r], mr[r]>>
  BY <1>1, <1>3, <1>4 DEF CommitPhase, Phase, Rests
<1>5. CASE Rests(r) /\ UNCHANGED <<wire[r], mr[r]>> /\ pc'[r] \in {"end", "crashed"}
  BY <1>1, <1>3, <1>5 DEF CommitPhase, Phase, Rests
<1>6. CASE /\ Rests(r) /\ pc[r] \in Early /\ UNCHANGED mr[r]
           /\ \/ pc'[r] \in Early \cup {"end"} /\ UNCHANGED wire[r]
              \/ pc'[r] = "branch" /\ wire'[r] = "branch"
  BY <1>1, <1>6 DEF CommitPhase, Phase, Rests, Early
<1>7. CASE /\ Rests(r) /\ UNCHANGED mr[r]
           /\ \/ pc[r] = "branch" /\ wire[r] = "done" /\ pc'[r] = "commit" /\ wire'[r] = "commit"
              \/ pc[r] = "commit" /\ wire[r] = "done" /\ pc'[r] = "members" /\ wire'[r] = "idle"
              \/ pc[r] = "members" /\ pc'[r] = "mr" /\ wire'[r] = "mr"
              \/ pc[r] = "mr" /\ wire[r] = "done" /\ pc'[r] = "end" /\ wire'[r] = "idle"
  BY <1>1, <1>3, <1>7 DEF CommitPhase, Phase, Rests, Early
<1>8. CASE LandBranch(r) /\ UNCHANGED pc
  <2>1. /\ wire[r] = "branch" /\ wire'[r] = "done" /\ branched'[r] /\ mr'[r] = mr[r]
        /\ tip'[r] = base'[r] /\ pc'[r] = pc[r]
    BY <1>8 DEF LandBranch, TypeOK, RepoTypeOK
  <2> QED
    BY <1>1, <2>1 DEF CommitPhase, Phase, Early, Calls
<1>9. CASE GitLabCommit(r)
  <2>1. /\ wire[r] = "commit" /\ wire'[r] = "done" /\ UNCHANGED <<mr, pc, branched>>
    BY <1>9 DEF GitLabCommit, LandCommit, TypeOK, RepoTypeOK, handlerVars
  <2>2. Done(r)'
    BY <1>1, <1>2, <1>9, <2>1, CommitDoes DEF CommitPhase
  <2> QED
    BY <1>1, <2>1, <2>2 DEF CommitPhase, Phase, Early, Calls
<1>10. CASE Rests(r) /\ wire[r] = "mr" /\ wire'[r] = "done" /\ mr'[r] = "open" /\ UNCHANGED pc[r]
  BY <1>1, <1>3, <1>10 DEF CommitPhase, Phase, Rests, Early
<1>11. CASE /\ Rests(r) /\ UNCHANGED <<pc[r], wire[r]>>
            /\ mr[r] = "open" /\ mr'[r] \in {"merged", "closed"}
  BY <1>1, <1>3, <1>11 DEF CommitPhase, Phase, Rests, Early
<1> QED
  BY <1>4, <1>5, <1>6, <1>7, <1>8, <1>9, <1>10, <1>11, StepProgress DEF Progress

\* All that the theorems about commits rest on.
RepoInv == TypeOK /\ AuthInv /\ ProvenanceInv /\ CommitInv

LEMMA InitRepoInv == Init => RepoInv
BY InitTypeOK, InitAuthInv, InitProvenanceInv, InitCommitInv DEF RepoInv

LEMMA StepRepoInv == RepoInv /\ [Next]_vars => RepoInv'
BY StepTypeOK, StepAuthInv, StepProvenanceInv, StepCommitInv DEF RepoInv, ProvenanceInv

-----------------------------------------------------------------------------
(* A branch has all of its batch or none of it, a merge request has all    *)
(* (computeChanges, CommitFiles, OpenMR).                                  *)
THEOREM CommitsAreWhole == Spec => []AllOrNothing
<1>1. RepoInv => AllOrNothing
  <2> SUFFICES ASSUME RepoInv, NEW r \in Requests
               PROVE  /\ branched[r] =>
                           LET changed == {f \in Files : tip[r][f] # base[r][f]}
                               done == \A f \in Written(r) : tip[r][f] = Result(form[r], f, current[r])
                           IN  changed = {} \/ (changed \subseteq Written(r) /\ done)
                      /\ mr[r] # "none" =>
                           \A f \in Written(r) : tip[r][f] = Result(form[r], f, current[r])
    BY DEF AllOrNothing
  <2>1. CommitPhase(r) /\ Written(r) \subseteq Files
    BY WrittenFiles DEF RepoInv, CommitInv
  <2>2. CASE Done(r)
    BY <2>1, <2>2 DEF Done
  <2>3. CASE ~Done(r)
    BY <2>1, <2>3 DEF CommitPhase
  <2> QED
    BY <2>2, <2>3
<1> QED
  BY <1>1, InitRepoInv, StepRepoInv, PTL DEF Spec

-----------------------------------------------------------------------------
(* What a done branch lacks of an edited file's batch was as asked when it *)
(* was read, and was changed back before the branch was cut.               *)
LEMMA DoneLacks ==
  ASSUME TypeOK, NEW r \in Requests, Done(r), NEW f \in EditedFiles(form[r])
  PROVE  /\ Adds(form[r], f) \ tip[r][f] \subseteq current[r][f] \ base[r][f]
         /\ Dels(form[r], f) \cap tip[r][f] \subseteq base[r][f] \ current[r][f]
<1>1. /\ f \in Files /\ f \notin NewFiles(form[r])
      /\ Adds(form[r], f) \cap Dels(form[r], f) = {}
  BY FormFiles DEF TypeOK
<1>2. Result(form[r], f, current[r])
        = (current[r][f] \ Dels(form[r], f)) \cup Adds(form[r], f)
  BY <1>1 DEF Result
<1>3. CASE f \in Changed(form[r], current[r])
  <2>1. tip[r][f] = Result(form[r], f, current[r])
    BY <1>1, <1>3 DEF Done, Written
  <2> QED
    BY <1>1, <1>2, <2>1
<1>4. CASE f \notin Changed(form[r], current[r])
  <2>1. tip[r][f] = base[r][f]
    BY <1>1, <1>4 DEF Done, Written
  <2>2. Result(form[r], f, current[r]) = current[r][f]
    BY <1>4 DEF Changed
  <2> QED
    BY <1>1, <1>2, <2>1, <2>2
<1> QED
  BY <1>3, <1>4

(* A merge request lacks a change of its form only if the line was as      *)
(* asked when it was read and was changed back before the branch was cut   *)
(* (the files that look unchanged are skipped).                            *)
THEOREM BatchesAreComplete == Spec => []BatchComplete
<1>1. RepoInv => BatchComplete
  <2> SUFFICES ASSUME RepoInv, NEW r \in Requests, mr[r] # "none",
                      NEW f \in EditedFiles(form[r])
               PROVE  /\ Adds(form[r], f) \ tip[r][f] \subseteq current[r][f] \ base[r][f]
                      /\ Dels(form[r], f) \cap tip[r][f] \subseteq base[r][f] \ current[r][f]
    BY DEF BatchComplete
  <2>1. TypeOK /\ Done(r)
    BY DEF RepoInv, CommitInv, CommitPhase
  <2> QED
    BY <2>1, DoneLacks
<1> QED
  BY <1>1, InitRepoInv, StepRepoInv, PTL DEF Spec

-----------------------------------------------------------------------------
(* Where a done branch differs from its base the form asked for it, or     *)
(* what was read differed from the base.                                   *)
LEMMA DoneDiffers ==
  ASSUME TypeOK, NEW r \in Requests, Done(r), NEW f \in Files, NEW e
  PROVE  /\ e \in tip[r][f] \ base[r][f] =>
              Asked(r, f, e, TRUE) \/ e \in Diff(current[r][f], base[r][f])
         /\ e \in base[r][f] \ tip[r][f] =>
              Asked(r, f, e, FALSE) \/ e \in Diff(current[r][f], base[r][f])
<1>1. CASE f \in NewFiles(form[r])
  <2>1. base[r][f] = {} /\ tip[r][f] = Seed(form[r], f, current[r])
    BY <1>1 DEF Done, Written, Result
  <2> QED
    BY <1>1, <2>1 DEF Asked
<1>2. CASE f \in Written(r) /\ f \notin NewFiles(form[r])
  <2>1. tip[r][f] = (current[r][f] \ Dels(form[r], f)) \cup Adds(form[r], f)
    BY <1>2 DEF Done, Result
  <2> QED
    BY <2>1 DEF Asked, Diff
<1>3. CASE f \notin Written(r)
  BY <1>3 DEF Done
<1> QED
  BY <1>1, <1>2, <1>3 DEF Written

(* A request's merge changes the lines its branch did.                     *)
LEMMA MergeChanges ==
  ASSUME NEW r \in Requests, Merge(r), NEW f \in Files, NEW e \in Diff(target'[f], target[f])
  PROVE  IF e \in target'[f] THEN e \in tip[r][f] \ base[r][f]
                             ELSE e \in base[r][f] \ tip[r][f]
<1>1. target'[f] = Merged(r, f)
  BY DEF Merge
<1> QED
  BY <1>1 DEF Merged, Diff

(* Only its merge turns an open merge request into a merged one.           *)
LEMMA MergedByMerge ==
  ASSUME TypeOK, [Next]_vars, NEW r \in Requests, mr[r] = "open", mr'[r] = "merged"
  PROVE  Merge(r)
<1> USE DEF TypeOK, RepoTypeOK, handlerVars, roleVars, repoVars
<1>1. ASSUME NEW q \in Requests, Handler(q) PROVE UNCHANGED mr
  <2>1. Refuse(q) \/ Start(q) \/ InAdminGroup(q) \/ NotInAdminGroup(q)
          \/ GroupLookupFails(q) \/ RoleConfirmed(q) => UNCHANGED mr
    BY DEF Refuse, Start, InAdminGroup, NotInAdminGroup, GroupLookupFails, RoleConfirmed
  <2>2. RoleNotConfirmed(q) \/ ReadFails(q) \/ CallFails(q) => UNCHANGED mr
    BY DEF RoleNotConfirmed, ReadFails, CallFails, Fail
  <2>3. ReadFile(q) \/ ReadDefaults(q) => UNCHANGED mr
    BY Zenon DEF ReadFile, ReadDefaults
  <2>4. BranchCreated(q) \/ Committed(q) \/ LookupAssignees(q) \/ MROpened(q) => UNCHANGED mr
    BY DEF BranchCreated, Committed, LookupAssignees, MROpened
  <2> QED
    BY <1>1, <2>1, <2>2, <2>3, <2>4 DEF Handler
<1>2. ASSUME NEW q \in Requests, GitLab(q) PROVE mr' = mr \/ mr' = [mr EXCEPT ![q] = "open"]
  BY <1>2 DEF GitLab, LandBranch, GitLabCommit, LandCommit, LandMR
<1>3. ASSUME NEW q \in Requests, Review(q)
      PROVE  (q = r /\ Merge(q)) \/ mr'[r] # "merged"
  BY <1>3 DEF Review, Merge, Close
<1>4. OutsideCommit \/ (\E u \in RoleChanges : ChangeRole(u)) \/ Crash \/ Finished
        \/ UNCHANGED vars => UNCHANGED mr
  BY DEF OutsideCommit, ChangeRole, Crash, Finished, vars
<1> QED
  BY <1>1, <1>2, <1>3, <1>4 DEF Next

(* A merge changes a line its form did not ask for only if that line was   *)
(* changed in the target between the request's read and its branch         *)
(* (GetFile, CreateBranch, CommitFiles).                                   *)
THEOREM LostUpdatesAreBounded == Spec => LostUpdateBounded
<1>1. RepoInv /\ [Next]_vars => [MergeBounded]_vars
  <2> SUFFICES ASSUME RepoInv, [Next]_vars, NEW r \in Requests,
                      mr[r] = "open", mr'[r] = "merged",
                      NEW f \in Files, NEW e \in Diff(target'[f], target[f])
               PROVE  Asked(r, f, e, e \in target'[f]) \/ e \in Diff(current[r][f], base[r][f])
    BY DEF MergeBounded
  <2>1. TypeOK /\ Done(r)
    BY DEF RepoInv, CommitInv, CommitPhase
  <2>2. Merge(r)
    BY <2>1, MergedByMerge
  <2>3. CASE e \in target'[f]
    <3>1. Asked(r, f, e, TRUE) \/ e \in Diff(current[r][f], base[r][f])
      BY <2>1, <2>2, <2>3, MergeChanges, DoneDiffers
    <3> QED
      BY <2>3, <3>1 DEF Asked
  <2>4. CASE e \notin target'[f]
    <3>1. Asked(r, f, e, FALSE) \/ e \in Diff(current[r][f], base[r][f])
      BY <2>1, <2>2, <2>4, MergeChanges, DoneDiffers
    <3> QED
      BY <2>4, <3>1 DEF Asked
  <2> QED
    BY <2>3, <2>4
<1> QED
  BY <1>1, InitRepoInv, StepRepoInv, PTL DEF Spec, LostUpdateBounded

-----------------------------------------------------------------------------
(* The end of the reading phase: the answer "nothing to do", or the call   *)
(* that creates the branch.                                                *)
LEMMA DecideAnswers ==
  ASSUME NEW r \in Requests, NEW cur, Decide(r, cur)
  PROVE  \/ /\ pc' = [pc EXCEPT ![r] = "end"]
            /\ page' = [page EXCEPT ![r] = "noop"]
            /\ wire' = wire
         \/ /\ pc' = [pc EXCEPT ![r] = "branch"]
            /\ wire' = [wire EXCEPT ![r] = "branch"]
            /\ page' = page
BY Zenon DEF Decide, Goto

\* What the reads of q do to its answer.
ReadAnswers(q) ==
  /\ UNCHANGED <<target, branched, base, tip, mr, outside>>
  /\ UNCHANGED <<roleVars, form, granted, held, errs>>
  /\ pc[q] \in {"read", "defaults"}
  /\ \/ pc' \in {pc, [pc EXCEPT ![q] = "defaults"]} /\ UNCHANGED <<page, wire>>
     \/ /\ pc' = [pc EXCEPT ![q] = "end"]
        /\ page' = [page EXCEPT ![q] = "noop"]
        /\ wire' = wire
     \/ /\ pc' = [pc EXCEPT ![q] = "branch"]
        /\ wire' = [wire EXCEPT ![q] = "branch"]
        /\ page' = page

(* The two actions that read, seen from outside.                           *)
LEMMA ReadsAnswer ==
  ASSUME NEW q \in Requests, ReadFile(q) \/ ReadDefaults(q)
  PROVE  ReadAnswers(q)
<1>1. CASE ReadFile(q)
  <2>1. /\ UNCHANGED <<target, branched, base, tip, mr, outside>>
        /\ UNCHANGED <<roleVars, form, granted, held, errs>>
        /\ pc[q] = "read"
    BY <1>1 DEF ReadFile
  <2>2. \/ UNCHANGED <<pc, page, wire>>
        \/ Goto(q, "defaults") /\ UNCHANGED <<page, wire>>
        \/ \E cur : Decide(q, cur)
    BY <1>1, Zenon DEF ReadFile
  <2> QED
    BY <2>1, <2>2, DecideAnswers DEF ReadAnswers, Goto
<1>2. CASE ReadDefaults(q)
  <2>1. /\ UNCHANGED <<target, branched, base, tip, mr, outside>>
        /\ UNCHANGED <<roleVars, form, granted, held, errs>>
        /\ pc[q] = "defaults"
    BY <1>2 DEF ReadDefaults
  <2>2. \E cur : Decide(q, cur)
    BY <1>2, Zenon DEF ReadDefaults
  <2> QED
    BY <2>1, <2>2, DecideAnswers DEF ReadAnswers
<1> QED
  BY <1>1, <1>2

-----------------------------------------------------------------------------
(* A request's page stays true through every step.                         *)
LEMMA StepAnswers ==
  ASSUME TypeOK, AuthInv, CommitInv, [Next]_vars, NEW r \in Requests, Answers(r)
  PROVE  Answers(r)'
<1>0. Phase(r) /\ CommitPhase(r)
  BY DEF AuthInv, CommitInv
<1> USE DEF TypeOK, RepoTypeOK, Calls, Steps, Early, BestEffort, Answers, Unanswered,
            handlerVars, roleVars, repoVars
<1>1. ASSUME NEW q \in Requests, Refuse(q) PROVE Answers(r)'
  BY <1>1, <1>0 DEF Refuse, Phase
<1>2. ASSUME NEW q \in Requests, Start(q) PROVE Answers(r)'
  BY <1>2 DEF Start
<1>3. ASSUME NEW q \in Requests, InAdminGroup(q) PROVE Answers(r)'
  BY <1>3 DEF InAdminGroup, Goto
<1>4. ASSUME NEW q \in Requests, NotInAdminGroup(q) PROVE Answers(r)'
  BY <1>4 DEF NotInAdminGroup, Goto
<1>5. ASSUME NEW q \in Requests, GroupLookupFails(q) PROVE Answers(r)'
  BY <1>5 DEF GroupLookupFails, Goto
<1>6. ASSUME NEW q \in Requests, RoleConfirmed(q) PROVE Answers(r)'
  BY <1>6 DEF RoleConfirmed, Goto
<1>7. ASSUME NEW q \in Requests, RoleNotConfirmed(q) PROVE Answers(r)'
  BY <1>7 DEF RoleNotConfirmed, Fail
<1>8. ASSUME NEW q \in Requests, ReadFile(q) PROVE Answers(r)'
  <2>1. ReadAnswers(q)
    BY <1>8, ReadsAnswer
  <2> QED
    BY <1>0, <2>1 DEF ReadAnswers, Phase
<1>9. ASSUME NEW q \in Requests, ReadFails(q) PROVE Answers(r)'
  BY <1>9 DEF ReadFails, Fail
<1>10. ASSUME NEW q \in Requests, ReadDefaults(q) PROVE Answers(r)'
  <2>1. ReadAnswers(q)
    BY <1>10, ReadsAnswer
  <2> QED
    BY <1>0, <2>1 DEF ReadAnswers, Phase
<1>11. ASSUME NEW q \in Requests, BranchCreated(q) PROVE Answers(r)'
  BY <1>11 DEF BranchCreated, Goto
<1>12. ASSUME NEW q \in Requests, Committed(q) PROVE Answers(r)'
  BY <1>12 DEF Committed, Goto
<1>13. ASSUME NEW q \in Requests, LookupAssignees(q) PROVE Answers(r)'
  BY <1>13 DEF LookupAssignees, Goto
<1>14. ASSUME NEW q \in Requests, MROpened(q) PROVE Answers(r)'
  BY <1>14, <1>0 DEF MROpened, Goto, CommitPhase
<1>15. ASSUME NEW q \in Requests, CallFails(q) PROVE Answers(r)'
  BY <1>15 DEF CallFails, Fail
<1>16. ASSUME NEW q \in Requests, GitLab(q) PROVE Answers(r)'
  <2>1. CASE LandBranch(q) /\ UNCHANGED <<handlerVars, roleVars>>
    BY <2>1 DEF LandBranch
  <2>2. CASE GitLabCommit(q)
    <3>1. /\ wire' = [wire EXCEPT ![q] = "done"] /\ wire[q] = "commit"
          /\ UNCHANGED <<branched, mr, pc, errs, page, granted>>
      BY <2>2 DEF GitLabCommit, LandCommit
    <3> QED
      BY <3>1
  <2>3. CASE LandMR(q) /\ UNCHANGED <<handlerVars, roleVars>>
    BY <2>3 DEF LandMR
  <2> QED
    BY <1>16, <2>1, <2>2, <2>3 DEF GitLab
<1>17. ASSUME NEW q \in Requests, Review(q) PROVE Answers(r)'
  BY <1>17 DEF Review, Merge, Close
<1>18. ASSUME OutsideCommit, UNCHANGED <<handlerVars, roleVars>> PROVE Answers(r)'
  BY <1>18 DEF OutsideCommit
<1>19. ASSUME NEW u \in RoleChanges, ChangeRole(u) PROVE Answers(r)'
  BY <1>19 DEF ChangeRole
<1>20. ASSUME Crash PROVE Answers(r)'
  BY <1>20 DEF Crash, InFlight
<1>21. CASE UNCHANGED vars
  BY <1>21 DEF vars
<1> QED
  BY <1>1, <1>2, <1>3, <1>4, <1>5, <1>6, <1>7, <1>8, <1>9, <1>10, <1>11, <1>12,
     <1>13, <1>14, <1>15, <1>16, <1>17, <1>18, <1>19, <1>20, <1>21
  DEF Next, Handler, Finished

AnswersInv == RepoInv /\ \A r \in Requests : Answers(r)

LEMMA InitAnswersInv == Init => AnswersInv
BY InitRepoInv DEF Init, RepoInit, AnswersInv, Answers, Unanswered

LEMMA StepAnswersInv == AnswersInv /\ [Next]_vars => AnswersInv'
BY StepRepoInv, StepAnswers DEF AnswersInv, RepoInv

(* "MR opened" only if the merge request exists, "nothing to do" only if   *)
(* nothing is written or on its way, and a failure page iff a step that is *)
(* not best-effort is logged as an error (Recorder, renderResult).         *)
THEOREM PagesAreTrue == Spec => []TruthfulPages
<1>1. AnswersInv => TruthfulPages
  BY DEF AnswersInv, Answers, TruthfulPages
<1> QED
  BY <1>1, InitAnswersInv, StepAnswersInv, PTL DEF Spec

-----------------------------------------------------------------------------
(* The operations of a form are valid when all files are read.             *)
LEMMA StepValidated ==
  ASSUME TypeOK, AuthInv, CommitInv, [Next]_vars, NEW r \in Requests, ReadAll(r), Validated(r)
  PROVE  Validated(r)'
<1> USE DEF TypeOK, RepoTypeOK, Calls, Steps, Early, Validated, AllValid,
            handlerVars, roleVars, repoVars
<1>0. /\ Phase(r) /\ CommitPhase(r) /\ form[r] \in Forms
      /\ Len(form[r].edits) \in Nat /\ DOMAIN form[r].edits = 1 .. Len(form[r].edits)
  BY FormFacts DEF AuthInv, CommitInv
<1>1. ASSUME NEW q \in Requests, Refuse(q) PROVE Validated(r)'
  BY <1>1 DEF Refuse
<1>2. ASSUME NEW q \in Requests, Start(q) PROVE Validated(r)'
  BY <1>2, <1>0 DEF Start, ReadAll
<1>3. ASSUME NEW q \in Requests, InAdminGroup(q) PROVE Validated(r)'
  BY <1>3, <1>0 DEF InAdminGroup, Goto, ReadAll
<1>4. ASSUME NEW q \in Requests, NotInAdminGroup(q) PROVE Validated(r)'
  BY <1>4 DEF NotInAdminGroup, Goto
<1>5. ASSUME NEW q \in Requests, GroupLookupFails(q) PROVE Validated(r)'
  BY <1>5 DEF GroupLookupFails, Goto
<1>6. ASSUME NEW q \in Requests, RoleConfirmed(q) PROVE Validated(r)'
  BY <1>6, <1>0 DEF RoleConfirmed, Goto, ReadAll
<1>7. ASSUME NEW q \in Requests, RoleNotConfirmed(q) PROVE Validated(r)'
  BY <1>7 DEF RoleNotConfirmed, Fail
<1>8. ASSUME NEW q \in Requests, ReadFile(q) PROVE Validated(r)'
  <2> DEFINE ed == form[q].edits[next[q]]
  <2>1. /\ pc[q] = "read" /\ ed.valid
        /\ next' = [next EXCEPT ![q] = @ + 1]
        /\ UNCHANGED <<form, branched>>
    BY <1>8 DEF ReadFile
  <2>2. \/ next[q] < Len(form[q].edits) /\ UNCHANGED <<pc, wire>>
        \/ /\ ~(next[q] < Len(form[q].edits))
           /\ \/ pc' = [pc EXCEPT ![q] = "defaults"] /\ wire' = wire
              \/ pc' = [pc EXCEPT ![q] = "end"] /\ wire' = wire
              \/ pc' = [pc EXCEPT ![q] = "branch"]
                 /\ wire' = [wire EXCEPT ![q] = "branch"]
    BY <1>8, DecideCases, Zenon DEF ReadFile, Goto
  <2>3. CASE r # q
    BY <2>1, <2>2, <2>3 DEF Accepted
  <2>4. CASE r = q
    <3>1. /\ next[r] \in 1 .. Len(form[r].edits) /\ next'[r] = next[r] + 1
          /\ wire[r] = "idle" /\ ~branched[r] /\ Accepted(form[r])
      BY <1>0, <2>1, <2>4 DEF ReadAll, Phase
    <3>2. \A i \in 1 .. next[r] : form[r].edits[i].valid
      BY <2>1, <2>4, <3>1
    <3>3. Accepted(form'[r])
      BY <2>1, <3>1
    <3>4. CASE next[r] < Len(form[r].edits) /\ UNCHANGED <<pc, wire>>
      BY <2>1, <2>4, <3>1, <3>2, <3>3, <3>4
    <3>5. CASE /\ ~(next[r] < Len(form[r].edits))
               /\ pc'[r] \in {"defaults", "end", "branch"}
      <4>1. \A i \in DOMAIN form[r].edits : form[r].edits[i].valid
        BY <1>0, <3>1, <3>2, <3>5
      <4> QED
        BY <2>1, <3>3, <3>5, <4>1
    <3> QED
      BY <2>2, <2>4, <3>4, <3>5
  <2> QED
    BY <2>3, <2>4
<1>9. ASSUME NEW q \in Requests, ReadFails(q) PROVE Validated(r)'
  BY <1>9 DEF ReadFails, Fail
<1>10. ASSUME NEW q \in Requests, ReadDefaults(q) PROVE Validated(r)'
  <2>1. /\ pc[q] = "defaults"
        /\ UNCHANGED <<form, next, branched>>
        /\ \/ pc' = [pc EXCEPT ![q] = "end"] /\ wire' = wire
           \/ pc' = [pc EXCEPT ![q] = "branch"] /\ wire' = [wire EXCEPT ![q] = "branch"]
    BY <1>10, DecideCases, Zenon DEF ReadDefaults
  <2> QED
    BY <2>1
<1>11. ASSUME NEW q \in Requests, BranchCreated(q) PROVE Validated(r)'
  BY <1>11 DEF BranchCreated, Goto
<1>12. ASSUME NEW q \in Requests, Committed(q) PROVE Validated(r)'
  BY <1>12 DEF Committed, Goto
<1>13. ASSUME NEW q \in Requests, LookupAssignees(q) PROVE Validated(r)'
  BY <1>13, <1>0 DEF LookupAssignees, Goto, Phase
<1>14. ASSUME NEW q \in Requests, MROpened(q) PROVE Validated(r)'
  BY <1>14 DEF MROpened, Goto
<1>15. ASSUME NEW q \in Requests, CallFails(q) PROVE Validated(r)'
  BY <1>15 DEF CallFails, Fail
<1>16. ASSUME NEW q \in Requests, GitLab(q) PROVE Validated(r)'
  <2>1. /\ wire' = [wire EXCEPT ![q] = "done"] /\ wire[q] # "idle"
        /\ branched' \in {branched, [branched EXCEPT ![q] = TRUE]}
        /\ UNCHANGED <<pc, form, next>>
    BY <1>16 DEF GitLab, LandBranch, GitLabCommit, LandCommit, LandMR
  <2> QED
    BY <2>1
<1>17. ASSUME NEW q \in Requests, Review(q) PROVE Validated(r)'
  BY <1>17 DEF Review, Merge, Close
<1>18. ASSUME OutsideCommit, UNCHANGED <<handlerVars, roleVars>> PROVE Validated(r)'
  BY <1>18 DEF OutsideCommit
<1>19. ASSUME NEW u \in RoleChanges, ChangeRole(u) PROVE Validated(r)'
  BY <1>19 DEF ChangeRole
<1>20. ASSUME Crash PROVE Validated(r)'
  BY <1>20 DEF Crash, InFlight
<1>21. CASE UNCHANGED vars
  BY <1>21 DEF vars
<1> QED
  BY <1>1, <1>2, <1>3, <1>4, <1>5, <1>6, <1>7, <1>8, <1>9, <1>10, <1>11, <1>12,
     <1>13, <1>14, <1>15, <1>16, <1>17, <1>18, <1>19, <1>20, <1>21
  DEF Next, Handler, Finished

ValidatedInv == RepoInv /\ \A r \in Requests : Validated(r)

LEMMA InitValidatedInv == Init => ValidatedInv
BY InitRepoInv DEF Init, RepoInit, ValidatedInv, Validated, Steps

LEMMA StepValidatedInv == ValidatedInv /\ [Next]_vars => ValidatedInv'
BY StepRepoInv, StepValidated DEF ValidatedInv, RepoInv, ProvenanceInv

(* One rejected operation, in whichever file, or a refused form, and no    *)
(* branch is ever asked for (the validations, computeChanges).             *)
THEOREM InvalidFormsWriteNothing == Spec => []InvalidWritesNothing
<1>1. ValidatedInv => InvalidWritesNothing
  BY DEF ValidatedInv, Validated, AllValid, InvalidWritesNothing, Edits
<1> QED
  BY <1>1, InitValidatedInv, StepValidatedInv, PTL DEF Spec

-----------------------------------------------------------------------------
(* A request that is not over has no page yet, and its form stays.         *)
LEMMA OpenRequest ==
  ASSUME AnswersInv, NEW q \in Requests, pc[q] # "end"
  PROVE  page[q] = "none"
BY DEF AnswersInv, Answers, Unanswered

\* The gate's steps, seen on the handlers' variables.
Same == UNCHANGED <<target, form, granted, mr, page>>

(* What changes none of them is a stutter of the gate.                     *)
LEMMA SameIsStutter ==
  ASSUME Same
  PROVE  UNCHANGED Gate!gateVars
BY DEF Same, Gate!gateVars, Scope, EditedFiles, NewFiles, Edits

(* The scope of a request is that of its form.                             *)
LEMMA ScopeStays ==
  ASSUME form' = form
  PROVE  UNCHANGED [r \in Requests |-> Scope(form[r])]
BY DEF Scope, EditedFiles, NewFiles, Edits

(* verifyOrgManager's positive answer is the gate's permission.            *)
LEMMA GrantPermits ==
  ASSUME AnswersInv, NEW q \in Requests, pc[q] # "end",
         granted' = [granted EXCEPT ![q] = TRUE], UNCHANGED <<target, form, mr, page>>
  PROVE  Gate!Permit(q)
BY OpenRequest, ScopeStays DEF Gate!Permit

(* A page is an answer the gate allows.                                    *)
LEMMA FailAnswers ==
  ASSUME AnswersInv, NEW q \in Requests, NEW s, pc[q] # "end", Fail(q, s)
  PROVE  Gate!Answer(q)
<1>1. page[q] = "none" /\ page' = [page EXCEPT ![q] = "failed"]
      /\ UNCHANGED <<target, form, granted, mr>>
  BY OpenRequest DEF Fail, repoVars
<1> QED
  BY <1>1, ScopeStays DEF Gate!Answer

(* So is a refusal: a request that has not begun is not permitted.         *)
LEMMA RefusalAnswers ==
  ASSUME AnswersInv, NEW q \in Requests, Refuse(q)
  PROVE  Gate!Answer(q)
<1>1. page[q] = "none" /\ ~granted[q] /\ page' = [page EXCEPT ![q] = "refused"]
      /\ UNCHANGED <<target, form, granted, mr>>
  BY OpenRequest DEF Refuse, repoVars, AnswersInv, Answers, Unanswered
<1> QED
  BY <1>1, ScopeStays DEF Gate!Answer

(* So is "nothing to do", which only a permitted request gets.            *)
LEMMA NoOpAnswers ==
  ASSUME AnswersInv, NEW q \in Requests, pc[q] \in {"read", "defaults"},
         page' = [page EXCEPT ![q] = "noop"], UNCHANGED <<target, form, granted, mr>>
  PROVE  Gate!Answer(q)
<1>1. page[q] = "none" /\ granted[q] /\ mr[q] = "none"
  BY OpenRequest DEF AnswersInv, RepoInv, AuthInv, Phase, Permitted, Early, Steps
<1> QED
  BY <1>1, ScopeStays DEF Gate!Answer

(* And so is "MR opened", which comes after the merge request.            *)
LEMMA MROpenedAnswers ==
  ASSUME AnswersInv, NEW q \in Requests, MROpened(q)
  PROVE  Gate!Answer(q)
<1>1. page[q] = "none" /\ mr[q] # "none" /\ page' = [page EXCEPT ![q] = "mr"]
      /\ UNCHANGED <<target, form, granted, mr>>
  BY OpenRequest DEF MROpened, AnswersInv, RepoInv, CommitInv, CommitPhase
<1> QED
  BY <1>1, ScopeStays DEF Gate!Answer

(* The call that opens a merge request proposes, also when the handler has *)
(* given up waiting.                                                       *)
LEMMA LandMRProposes ==
  ASSUME AnswersInv, NEW q \in Requests, LandMR(q), UNCHANGED <<handlerVars, roleVars>>
  PROVE  Gate!Propose(q)
<1>1. wire[q] = "mr" /\ mr' = [mr EXCEPT ![q] = "open"]
      /\ UNCHANGED <<target, form, granted, page>>
  BY DEF LandMR, handlerVars
<1>2. granted[q] /\ mr[q] = "none"
  BY <1>1 DEF AnswersInv, RepoInv, AuthInv, Phase, Permitted, Calls
<1>3. page[q] \in {"none", "failed"}
  BY <1>1 DEF AnswersInv, RepoInv, TypeOK, Answers
<1> QED
  BY <1>1, <1>2, <1>3, ScopeStays DEF Gate!Propose

(* A merge is an acceptance: what it changes is within the form's scope.   *)
LEMMA MergeAccepts ==
  ASSUME AnswersInv, NEW q \in Requests, Merge(q), UNCHANGED <<handlerVars, roleVars>>
  PROVE  Gate!Accept(q)
<1>1. mr[q] = "open" /\ mr' = [mr EXCEPT ![q] = "merged"]
      /\ target' = [f \in Files |-> Merged(q, f)]
      /\ UNCHANGED <<form, granted, page>>
  BY DEF Merge, handlerVars
<1>2. TypeOK /\ Done(q)
  BY <1>1 DEF AnswersInv, RepoInv, CommitInv, CommitPhase
<1>3. ASSUME NEW f \in Files \ Scope(form[q]) PROVE target'[f] = target[f]
  <2>1. f \notin Written(q)
    BY <1>2, WrittenFiles DEF Scope
  <2>2. tip[q][f] = base[q][f]
    BY <1>2, <2>1 DEF Done
  <2> QED
    BY <1>1, <2>2 DEF Merged
<1> QED
  BY <1>1, <1>3, ScopeStays DEF Gate!Accept

(* Whatever is committed without the portal is the gate's outside step.    *)
LEMMA OutsideIsOutside ==
  ASSUME AnswersInv, OutsideCommit, UNCHANGED <<handlerVars, roleVars>>
  PROVE  Gate!Outside
<1>1. TypeOK
  BY DEF AnswersInv, RepoInv
<1>2. PICK p \in OutsideEdits \ outside :
        target' = [target EXCEPT ![p[1]] =
                     IF p[2] \in target[p[1]] THEN target[p[1]] \ {p[2]}
                                              ELSE target[p[1]] \cup {p[2]}]
  BY DEF OutsideCommit
<1>3. p[1] \in Files
  BY RepoAssumption
<1>4. target'[p[1]] # target[p[1]]
  BY <1>1, <1>2, <1>3 DEF TypeOK, RepoTypeOK
<1>5. UNCHANGED <<form, granted, mr, page>>
  BY DEF OutsideCommit, handlerVars
<1> QED
  BY <1>4, <1>5, ScopeStays DEF Gate!Outside

-----------------------------------------------------------------------------
\* A step of the gate for q, or none.
Allowed(q) ==
  \/ Same
  \/ Gate!Permit(q) \/ Gate!Propose(q) \/ Gate!Answer(q) \/ Gate!Accept(q) \/ Gate!Withdraw(q)

(* Each action of a handler is one step of the gate, or none.              *)
LEMMA HandlerIsAllowed ==
  ASSUME AnswersInv, NEW q \in Requests, Handler(q)
  PROVE  Allowed(q)
<1> USE DEF Allowed, handlerVars, repoVars
<1>1. CASE Refuse(q)
  BY <1>1, RefusalAnswers
<1>2. CASE Start(q)
  <2>1. pc[q] = "new" /\ UNCHANGED <<target, form, mr, page>>
        /\ granted' = [granted EXCEPT ![q] = form[q].user \in AdminUsers]
    BY <1>2 DEF Start
  <2>2. ~granted[q] /\ granted \in [Requests -> BOOLEAN]
    BY <2>1 DEF AnswersInv, Answers, Unanswered, RepoInv, TypeOK
  <2>3. CASE form[q].user \in AdminUsers
    <3>1. granted' = [granted EXCEPT ![q] = TRUE]
      BY <2>1, <2>3
    <3> QED
      BY <2>1, <3>1, GrantPermits
  <2>4. CASE form[q].user \notin AdminUsers
    <3>1. granted' = granted
      BY <2>1, <2>2, <2>4
    <3> QED
      BY <2>1, <3>1 DEF Same
  <2> QED
    BY <2>3, <2>4
<1>3. CASE InAdminGroup(q)
  BY <1>3, GrantPermits DEF InAdminGroup
<1>4. CASE RoleConfirmed(q)
  BY <1>4, GrantPermits DEF RoleConfirmed
<1>5. CASE NotInAdminGroup(q) \/ GroupLookupFails(q)
  BY <1>5 DEF NotInAdminGroup, GroupLookupFails, Same
<1>6. CASE RoleNotConfirmed(q)
  BY <1>6, FailAnswers DEF RoleNotConfirmed
<1>7. CASE ReadFails(q)
  BY <1>7, FailAnswers DEF ReadFails
<1>8. CASE CallFails(q)
  BY <1>8, FailAnswers DEF CallFails, Calls
<1>9. CASE ReadFile(q) \/ ReadDefaults(q)
  <2>1. ReadAnswers(q)
    BY <1>9, ReadsAnswer
  <2>2. CASE UNCHANGED page
    BY <2>1, <2>2 DEF ReadAnswers, Same
  <2>3. CASE page' = [page EXCEPT ![q] = "noop"]
    BY <2>1, <2>3, NoOpAnswers DEF ReadAnswers
  <2> QED
    BY <2>1, <2>2, <2>3 DEF ReadAnswers
<1>10. CASE BranchCreated(q) \/ Committed(q) \/ LookupAssignees(q)
  BY <1>10 DEF BranchCreated, Committed, LookupAssignees, Same
<1>11. CASE MROpened(q)
  BY <1>11, MROpenedAnswers
<1> QED
  BY <1>1, <1>2, <1>3, <1>4, <1>5, <1>6, <1>7, <1>8, <1>9, <1>10, <1>11 DEF Handler

(* Every step is one of the gate's, or none.                               *)
LEMMA StepGate ==
  ASSUME AnswersInv, [Next]_vars
  PROVE  [Gate!Next]_(Gate!gateVars)
<1> USE DEF handlerVars, repoVars
<1>1. ASSUME NEW q \in Requests, Handler(q) PROVE Allowed(q)
  BY <1>1, HandlerIsAllowed
<1>2. ASSUME NEW q \in Requests, GitLab(q) PROVE Allowed(q)
  <2>1. CASE LandMR(q) /\ UNCHANGED <<handlerVars, roleVars>>
    BY <2>1, LandMRProposes DEF Allowed
  <2>2. CASE LandBranch(q) /\ UNCHANGED <<handlerVars, roleVars>>
    BY <2>2 DEF LandBranch, Allowed, Same
  <2>3. CASE GitLabCommit(q)
    BY <2>3 DEF GitLabCommit, LandCommit, Allowed, Same
  <2> QED
    BY <1>2, <2>1, <2>2, <2>3 DEF GitLab
<1>3. ASSUME NEW q \in Requests, Review(q) PROVE Allowed(q)
  <2>1. CASE Merge(q) /\ UNCHANGED <<handlerVars, roleVars>>
    BY <2>1, MergeAccepts DEF Allowed
  <2>2. CASE Close(q) /\ UNCHANGED <<handlerVars, roleVars>>
    BY <2>2, ScopeStays DEF Close, Gate!Withdraw, Allowed
  <2> QED
    BY <1>3, <2>1, <2>2 DEF Review
<1>4. CASE OutsideCommit /\ UNCHANGED <<handlerVars, roleVars>>
  BY <1>4, OutsideIsOutside DEF Gate!Next
<1>5. CASE (\E u \in RoleChanges : ChangeRole(u)) \/ Crash \/ Finished \/ UNCHANGED vars
  <2>1. Same
    BY <1>5 DEF ChangeRole, Crash, Finished, vars, Same
  <2> QED
    BY <2>1, SameIsStutter
<1>6. ASSUME NEW q \in Requests, Allowed(q) PROVE [Gate!Next]_(Gate!gateVars)
  BY <1>6, SameIsStutter DEF Allowed, Gate!Next
<1> QED
  BY <1>1, <1>2, <1>3, <1>4, <1>5, <1>6 DEF Next

(* The handlers begin where the gate does.                                 *)
LEMMA InitGate == Init => Gate!Init
<1> SUFFICES ASSUME Init PROVE Gate!Init
  OBVIOUS
<1>1. \A r \in Requests : Scope(form[r]) \subseteq Files
  BY FormFiles DEF Init, Scope
<1> QED
  BY <1>1 DEF Init, RepoInit, Gate!Init

(* The handlers with their calls, timeouts and crashes implement the       *)
(* review gate (the six POST handlers of handlers.go).                     *)
THEOREM HandlersImplementGate == Spec => ImplementsGate
BY InitGate, InitAnswersInv, StepAnswersInv, StepGate, PTL DEF Spec, ImplementsGate, Gate!Spec
=============================================================================
