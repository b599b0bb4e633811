---------------------------- MODULE StagingPage ----------------------------
(***************************************************************************)
(* The "manage space users" page as its visitor drives it                  *)
(* (src/internal/http/templates/manage_users.html): two selectors, the     *)
(* tables staged for the spaces visited, the requests under way, and the   *)
(* confirm() dialogs, during which the page does nothing else.  Replies    *)
(* arrive in any order, or fail.                                           *)
(***************************************************************************)
EXTENDS Staging

CONSTANTS
  Files,       \* the configuration repository, see ReadAPI
  Newcomers,   \* the names typed into "add a user"
  MaxLoading,  \* bound: requests under way
  MaxEdits     \* bound: edits of the visitor

VARIABLES
  org,       \* orgSel.value (and prevOrg), None for none
  options,   \* the spaces spaceSel offers; none while it is disabled
  sel,       \* spaceSel.value
  cur,       \* the page's cur
  shown,     \* the space whose members the boxes list, None while they are hidden
  staged,    \* the table of each space in the page's map
  loading,   \* the requests under way, in the order sent
  dialog,    \* what the open confirm() dialog is about: an org, Leaving, or Closed
  edits,     \* the edits made, for the bound
  submitted  \* Nothing, or the posted org and changes; the visit ends with it

vars == <<org, options, sel, cur, shown, staged, loading, dialog, edits, submitted>>

Closed  == "closed"
Leaving == "leaving"
Nothing == [org |-> None, changes |-> {}]
Empty   == [s \in {} |-> {}]

PageOrgs == {None} \cup Content(APIOrgs(Files))
Spaces   == UNION {Content(APISpaces(Files, o)) : o \in PageOrgs}
SpacesOf(o)   == [kind |-> "spaces", org |-> o, space |-> None]
UsersOf(o, s) == [kind |-> "users", org |-> o, space |-> s]
Fetches == {SpacesOf(o) : o \in PageOrgs \ {None}}
           \cup {UsersOf(o, s) : o \in PageOrgs, s \in Spaces}

PageOrigins == {OriginOrder[i] : i \in DOMAIN OriginOrder}

\* No org is called like a mark of the variable dialog, orgs, spaces and members
\* have plain names, and the page knows the roles and origins of the replies,
\* which are those of its own lists.
ASSUME StagingAssumption ==
  /\ PageOrgs \cap {Closed, Leaving} = {}
  /\ \A n \in (PageOrgs \ {None}) \cup Spaces : ValidPathSegment(n)
  /\ Plain(Files) /\ Named(Newcomers)
  /\ PageRoles \subseteq SpaceRoles /\ PageOrigins \subseteq Origins
  /\ \A o \in PageOrgs, s \in Spaces : APISpaceUsers(Files, o, s) # Failure =>
       Known(APISpaceUsers(Files, o, s))
  /\ MaxLoading \in Nat /\ MaxEdits \in Nat

Row == [origin : PageOrigins, roles : SUBSET PageRoles]

TypeOK ==
  /\ org \in PageOrgs /\ options \in SUBSET Spaces /\ sel \in options \cup {None}
  /\ {cur, shown} \subseteq Spaces \cup {None}
  /\ DOMAIN staged \subseteq Spaces
  /\ \A s \in DOMAIN staged :
       /\ staged[s].from \in PageOrgs
       /\ DOMAIN staged[s].state = Rows(staged[s]) /\ staged[s].removed \subseteq Rows(staged[s])
       /\ \A u \in Rows(staged[s]) : {staged[s].original[u], staged[s].state[u]} \subseteq Row
  /\ loading \in Seq(Fetches) /\ Len(loading) <= MaxLoading
  /\ dialog \in PageOrgs \cup {Closed, Leaving}
  /\ edits \in 0 .. MaxEdits
  /\ submitted.org \in PageOrgs

Init ==
  /\ org = None /\ options = {} /\ sel = None /\ cur = None /\ shown = None
  /\ staged = Empty
  /\ loading = <<>>
  /\ dialog = Closed /\ edits = 0 /\ submitted = Nothing

-----------------------------------------------------------------------------
AllChanges(tables) ==
  {[space |-> s, ops |-> ComputeOps(tables[s])] :
     s \in {t \in DOMAIN tables : ComputeOps(tables[t]) # {}}}

\* totalOps() > 0, on which both confirm() dialogs depend.
HasOps(tables) == AllChanges(tables) # {}

\* The page runs: no dialog is open and the form is not sent.
Runs == dialog = Closed /\ submitted = Nothing

Request(f) ==
  /\ Len(loading) < MaxLoading
  /\ Sent(loading, f, loading')

Answered(f) == Arrived(loading, f, loading')

\* The org selector changes to o and nothing stands in the way.
SwitchOrg(o) ==
  /\ org' = o
  /\ staged' = Empty /\ cur' = None /\ shown' = None /\ options' = {} /\ sel' = None
  /\ IF o = None THEN UNCHANGED loading ELSE Request(SpacesOf(o))
  /\ UNCHANGED <<edits, submitted>>

ChooseOrg(o) ==
  /\ Runs /\ o # org
  /\ ~HasOps(staged)
  /\ SwitchOrg(o)
  /\ UNCHANGED dialog

AskOrg(o) ==
  /\ Runs /\ o # org
  /\ HasOps(staged)
  /\ dialog' = o
  /\ UNCHANGED <<org, options, sel, cur, shown, staged, loading, edits, submitted>>

ConfirmOrg ==
  /\ dialog \in PageOrgs
  /\ SwitchOrg(dialog)
  /\ dialog' = Closed

\* The "back to portal" link; without staged changes the page is simply left.
AskLeave ==
  /\ Runs /\ HasOps(staged)
  /\ dialog' = Leaving
  /\ UNCHANGED <<org, options, sel, cur, shown, staged, loading, edits, submitted>>

Cancel ==
  /\ dialog # Closed
  /\ dialog' = Closed
  /\ UNCHANGED <<org, options, sel, cur, shown, staged, loading, edits, submitted>>

\* Mutant: the selector keeps a space that is no longer offered.
SpacesReplyKeeps(o) ==
  /\ Runs /\ APISpaces(Files, o) # Failure
  /\ Answered(SpacesOf(o))
  /\ options' = Content(APISpaces(Files, o))
  /\ UNCHANGED <<org, sel, cur, shown, staged, dialog, edits, submitted>>

\* setOptions leaves the selector empty, and a script's change is no event.
SpacesReply(o) ==
  /\ Runs /\ APISpaces(Files, o) # Failure
  /\ Answered(SpacesOf(o))
  /\ options' = Content(APISpaces(Files, o)) /\ sel' = None
  /\ UNCHANGED <<org, cur, shown, staged, dialog, edits, submitted>>

SpacesFail(o) ==
  /\ Runs
  /\ Answered(SpacesOf(o))
  /\ options' = {} /\ sel' = None
  /\ UNCHANGED <<org, cur, shown, staged, dialog, edits, submitted>>

ChooseNoSpace ==
  /\ Runs /\ sel # None
  /\ sel' = None /\ cur' = None /\ shown' = None
  /\ UNCHANGED <<org, options, staged, loading, dialog, edits, submitted>>

\* Mutant: a space that is staged is not drawn again.
ChooseSpaceUndrawn(s) ==
  /\ Runs /\ s \in options /\ s # sel
  /\ sel' = s /\ cur' = s
  /\ IF s \in DOMAIN staged
       THEN UNCHANGED <<shown, loading>>
       ELSE Request(UsersOf(org, s)) /\ UNCHANGED shown
  /\ UNCHANGED <<org, options, staged, dialog, edits, submitted>>

\* While the users are loaded the boxes stay as they were.
ChooseSpace(s) ==
  /\ Runs /\ s \in options /\ s # sel
  /\ sel' = s /\ cur' = s
  /\ IF s \in DOMAIN staged
       THEN shown' = s /\ UNCHANGED loading
       ELSE Request(UsersOf(org, s)) /\ UNCHANGED shown
  /\ UNCHANGED <<org, options, staged, dialog, edits, submitted>>

\* Mutant: a second reply replaces what is staged.
InitSpaceAgain(tables, s, table) == (s :> table) @@ tables

\* initSpace: a space that is staged keeps its table.
InitSpace(tables, s, table) ==
  [t \in DOMAIN tables \cup {s} |-> IF t \in DOMAIN tables THEN tables[t] ELSE table]

UsersReply(o, s) ==
  LET reply == APISpaceUsers(Files, o, s)
  IN  /\ Runs /\ reply # Failure
      /\ Answered(UsersOf(o, s))
      /\ staged' = InitSpace(staged, s, Load(o, reply))
      /\ shown' = IF cur = s THEN s ELSE shown
      /\ UNCHANGED <<org, options, sel, cur, dialog, edits, submitted>>

\* An error status or no answer: only a message.
UsersFail(o, s) ==
  /\ Runs
  /\ Answered(UsersOf(o, s))
  /\ UNCHANGED <<org, options, sel, cur, shown, staged, dialog, edits, submitted>>

\* addNewUser, moveSelected and the check boxes, on the table of cur.
Edit(table) ==
  /\ Runs /\ shown # None /\ edits < MaxEdits
  /\ cur \in DOMAIN staged
  /\ table \in Edits(staged[cur], Newcomers, PageOrigins, PageRoles)
  /\ staged' = [staged EXCEPT ![cur] = table]
  /\ edits' = edits + 1
  /\ UNCHANGED <<org, options, sel, cur, shown, loading, dialog, submitted>>

\* Mutant: the form goes out with nothing staged.
SubmitAlways ==
  /\ Runs /\ shown # None
  /\ submitted' = [org |-> org, changes |-> AllChanges(staged)]
  /\ UNCHANGED <<org, options, sel, cur, shown, staged, loading, dialog, edits>>

Submit ==
  /\ Runs /\ HasOps(staged)
  /\ submitted' = [org |-> org, changes |-> AllChanges(staged)]
  /\ UNCHANGED <<org, options, sel, cur, shown, staged, loading, dialog, edits>>

\* After a post or a confirmed "leave" the page is gone.
Gone ==
  /\ submitted # Nothing \/ dialog = Leaving
  /\ UNCHANGED vars

Next ==
  \/ \E o \in PageOrgs : ChooseOrg(o) \/ AskOrg(o)
  \/ ConfirmOrg \/ AskLeave \/ Cancel
  \/ \E o \in PageOrgs \ {None} : SpacesReply(o) \/ SpacesFail(o)
  \/ ChooseNoSpace
  \/ \E s \in Spaces : ChooseSpace(s)
  \/ \E o \in PageOrgs, s \in Spaces : UsersReply(o, s) \/ UsersFail(o, s)
  \/ cur \in DOMAIN staged /\ \E t \in Edits(staged[cur], Newcomers, PageOrigins, PageRoles) : Edit(t)
  \/ Submit
  \/ Gone

Spec == Init /\ [][Next]_vars

-----------------------------------------------------------------------------
(* The boxes never list the members of one space while the edits go to the *)
(* table of another: late and repeated replies draw a table only when it   *)
(* is the current one.                                                     *)
ShownIsCurrent == cur \in DOMAIN staged => shown = cur

(* Changes staged in any space, on display or not, survive every reply and *)
(* every choice of a space: a table with operations changes only by an     *)
(* edit of the space on display, and goes only when the visitor answered   *)
(* the dialog.  (Within the page: the header's "Sign out" and a reload      *)
(* leave it without one.)                                                  *)
Kept ==
  \A s \in DOMAIN staged : ComputeOps(staged[s]) # {} =>
    \/ s \in DOMAIN staged' /\ staged'[s] = staged[s]
    \/ s = shown /\ edits' # edits /\ s \in DOMAIN staged'
    \/ dialog # Closed /\ staged' = Empty

NothingLostSilently == [][Kept]_vars

(* What the operations of a table do to the file it was loaded from is     *)
(* what the page shows, for every member listed under one origin or new:   *)
(* the roles ticked in the left box, none in the right box, whatever was   *)
(* ticked, moved and moved back.                                           *)
StagedIsShown ==
  \A s \in DOMAIN staged :
    LET table == staged[s]
        lines == APISpaceUsers(Files, table.from, s)
    IN  \A u \in Rows(table) : OneOrigin(lines, u) =>
          Of(Applied(lines, ComputeOps(table)), u) = Of(Shown(table), u)

\* The changes as the posted sequences; their order is that of the page's maps.
PostedChanges ==
  LET some == Listing(submitted.changes)
  IN  [i \in DOMAIN some |-> [space |-> some[i].space, ops |-> Listing(some[i].ops)]]

(* What the page posts for an org is a form that handleManageUsers runs:   *)
(* it is not empty, every operation passes the validation, no operation    *)
(* undoes another, so that each posted line is written or deleted, and     *)
(* each file is one of that org.  (With no org selected the handler        *)
(* answers 400.)                                                           *)
PostAccepted ==
  submitted.org # None =>
    LET form == ManageUsers("user", TRUE, submitted.org, PostedChanges)
    IN  /\ form.edits # <<>>
        /\ \A i \in DOMAIN form.edits :
             /\ form.edits[i].valid
             /\ form.edits[i].file[1] = submitted.org
             /\ form.edits[i].add \cap form.edits[i].del = {}
             /\ form.edits[i].add \cup form.edits[i].del =
                  UNION {{op.line : op \in c.ops} :
                           c \in {d \in submitted.changes :
                                    SpaceConfig(submitted.org, d.space) = form.edits[i].file}}

(* "The whole map survives switching spaces; only an org change clears it":*)
(* the visitor never stages changes of a list of another org.              *)
OrgChangeClears ==
  \A s \in DOMAIN staged : ComputeOps(staged[s]) # {} => staged[s].from = org
=============================================================================
