----------------------------- MODULE TablePages -----------------------------
(***************************************************************************)
(* The "manage org users" and "manage space groups" pages                  *)
(* (templates/manage_org_users.html, manage_groups.html): unlike the page  *)
(* of module StagingPage they keep one table, which every reply replaces.  *)
(* The first has an org selector, the second also one for the space.       *)
(***************************************************************************)
EXTENDS Staging

CONSTANTS
  Files,       \* the configuration repository, see ReadAPI
  Newcomers,   \* the names typed into "add a user", "add a group"
  MaxLoading,  \* bound: requests under way
  MaxEdits     \* bound: edits of the visitor

VARIABLES
  kind,      \* the page: "org users" or "groups"
  org,       \* orgSel.value
  options,   \* the spaces spaceSel offers; none while it is disabled
  space,     \* spaceSel.value; None on the page of org users
  table,     \* the table on display, NoTable while the editor is hidden
  loading,   \* the requests under way, in the order sent
  edits,     \* the edits made, for the bound
  submitted, \* Nothing, or the posted fields; the visit ends with it
  overtaken  \* history: a reply came for what was no longer selected

selected == <<org, space>>
vars == <<kind, org, options, space, table, loading, edits, submitted, overtaken>>

Nobody  == <<None, None>>
NoTable == Load(Nobody, {})
Nothing == [org |-> None, space |-> None, ops |-> {}]

PageOrgs == {None} \cup Content(APIOrgs(Files))
Spaces   == UNION {Content(APISpaces(Files, o)) : o \in PageOrgs}
\* What a table may be of, <<o, None>> or <<o, s>>, and the requests.
Places   == PageOrgs \X ({None} \cup Spaces)
SpacesOf(o)  == [get |-> "spaces", of |-> <<o, None>>]
TableOf(p)   == [get |-> "table", of |-> p]

\* The pages know the roles and origins of the replies and of their own lists,
\* and everybody listed or added has a name.
ASSUME TablesAssumption ==
  /\ \A p \in Places : \A reply \in {APISpaceGroups(Files, p[1], p[2]), APIOrgUsers(Files, p[1])} :
       reply # Failure => Known(reply)
  /\ SpaceRoles \cup OrgRoles \subseteq PageRoles
  /\ Plain(Files) /\ Named(Newcomers)
  /\ MaxLoading \in Nat /\ MaxEdits \in Nat
  /\ Origins \cup {"ldap_groups"} \subseteq {OriginOrder[j] : j \in DOMAIN OriginOrder}

\* The ROLES of each page, and the origins a newcomer can be given.
Offered == IF kind = "groups" THEN {"developer", "manager", "auditor", "supporter"}
                              ELSE {"manager", "billingmanager", "auditor"}
PageOrigins == IF kind = "groups" THEN {"ldap_groups"} ELSE {"ldap", "saml", "internal"}

TypeOK ==
  /\ kind \in {"org users", "groups"}
  /\ org \in PageOrgs /\ options \in SUBSET Spaces /\ space \in options \cup {None}
  /\ table.from \in Places
  /\ DOMAIN table.state = Rows(table) /\ table.removed \subseteq Rows(table)
  /\ \A u \in Rows(table) : {table.original[u], table.state[u]} \subseteq
                              [origin : PageOrigins, roles : SUBSET Offered]
  /\ loading \in Seq([get : {"spaces", "table"}, of : Places])
  /\ Len(loading) <= MaxLoading
  /\ edits \in 0 .. MaxEdits
  /\ submitted.org \in PageOrgs /\ overtaken \in BOOLEAN

Init ==
  /\ kind \in {"org users", "groups"}
  /\ org = None /\ options = {} /\ space = None /\ table = NoTable
  /\ loading = <<>>
  /\ edits = 0 /\ submitted = Nothing /\ overtaken = FALSE

-----------------------------------------------------------------------------
Request(f) == Len(loading) < MaxLoading /\ Sent(loading, f, loading')

\* The reply to f arrives; it may no longer be what the visitor waits for.
Answered(f) ==
  /\ submitted = Nothing /\ Arrived(loading, f, loading')
  /\ overtaken' = (overtaken \/ f.of # selected)

\* Mutant: the editor stays while the org is changed.
ChooseOrgKeeps(o) ==
  /\ submitted = Nothing /\ o # org
  /\ org' = o /\ options' = {} /\ space' = None
  /\ IF o = None THEN UNCHANGED loading
     ELSE Request(IF kind = "groups" THEN SpacesOf(o) ELSE TableOf(<<o, None>>))
  /\ UNCHANGED <<kind, table, edits, submitted, overtaken>>

\* hideEditor, then the request.
ChooseOrg(o) ==
  /\ submitted = Nothing /\ o # org
  /\ org' = o /\ options' = {} /\ space' = None /\ table' = NoTable
  /\ IF o = None THEN UNCHANGED loading
     ELSE Request(IF kind = "groups" THEN SpacesOf(o) ELSE TableOf(<<o, None>>))
  /\ UNCHANGED <<kind, edits, submitted, overtaken>>

\* setOptions leaves the selector empty and the table as it is.
SpacesReply(o) ==
  /\ APISpaces(Files, o) # Failure
  /\ Answered(SpacesOf(o))
  /\ options' = Content(APISpaces(Files, o)) /\ space' = None
  /\ UNCHANGED <<kind, org, table, edits, submitted>>

SpacesFail(o) ==
  /\ Answered(SpacesOf(o))
  /\ options' = {} /\ space' = None
  /\ UNCHANGED <<kind, org, table, edits, submitted>>

ChooseSpace(s) ==
  /\ submitted = Nothing /\ s \in options \cup {None} /\ s # space
  /\ space' = s /\ table' = NoTable
  /\ IF None \in {org, s} THEN UNCHANGED loading ELSE Request(TableOf(<<org, s>>))
  /\ UNCHANGED <<kind, org, options, edits, submitted, overtaken>>

TableReply(p) ==
  IF kind = "groups" THEN APISpaceGroups(Files, p[1], p[2]) ELSE APIOrgUsers(Files, p[1])

\* loadUsers, loadGroups: the table is that of the reply, whatever is selected.
LoadTable(p) ==
  /\ TableReply(p) # Failure
  /\ Answered(TableOf(p))
  /\ table' = Load(p, TableReply(p))
  /\ UNCHANGED <<kind, org, options, space, edits, submitted>>

TableFails(p) ==
  /\ Answered(TableOf(p))
  /\ UNCHANGED <<kind, org, options, space, table, edits, submitted>>

\* addNewUser or addNewGroup, moveSelected and the check boxes.
Edit(edited) ==
  /\ submitted = Nothing /\ table # NoTable /\ edits < MaxEdits
  /\ table' = edited
  /\ edits' = edits + 1
  /\ UNCHANGED <<kind, org, options, space, loading, submitted, overtaken>>

\* Mutant: the form goes out with nothing staged.
SubmitAlways ==
  /\ submitted = Nothing /\ table # NoTable
  /\ submitted' = [org |-> org, space |-> space, ops |-> ComputeOps(table)]
  /\ UNCHANGED <<kind, org, options, space, table, loading, edits, overtaken>>

Submit ==
  /\ submitted = Nothing /\ ComputeOps(table) # {}
  /\ submitted' = [org |-> org, space |-> space, ops |-> ComputeOps(table)]
  /\ UNCHANGED <<kind, org, options, space, table, loading, edits, overtaken>>

\* The form is sent and the page is gone.
Gone == submitted # Nothing /\ UNCHANGED vars

Next ==
  \/ \E o \in PageOrgs : ChooseOrg(o)
  \/ \E o \in PageOrgs \ {None} : SpacesReply(o) \/ SpacesFail(o)
  \/ \E s \in Spaces \cup {None} : ChooseSpace(s)
  \/ \E p \in Places : LoadTable(p) \/ TableFails(p)
  \/ \E t \in Edits(table, Newcomers, PageOrigins, Offered) : Edit(t)
  \/ Submit
  \/ Gone

Spec == Init /\ [][Next]_vars

-----------------------------------------------------------------------------
(* What the operations do to the file the table was loaded from is what    *)
(* the page shows: the ticked roles of the members in the left box, and    *)
(* nothing of a member in the right box.  This holds of every group, which *)
(* has one list per role, and of every user listed under one origin.       *)
StagedIsShown ==
  LET lines == Content(TableReply(table.from))
  IN  \A u \in Rows(table) : OneOrigin(lines, u) =>
        Of(Applied(lines, ComputeOps(table)), u) = Of(Shown(table), u)

PostedForm ==
  LET ops == Listing(submitted.ops)
  IN  IF kind = "groups" THEN ManageGroups("user", TRUE, submitted.org, submitted.space, ops)
                         ELSE ManageOrgUsers("user", TRUE, submitted.org, ops)

(* What the page posts is a form that its handler runs: one batch, every   *)
(* operation of it valid, and each posted line written or deleted.  (A     *)
(* late reply can show a table while a selector is empty; that post is     *)
(* answered with 400.)                                                     *)
PostAccepted ==
  submitted.org # None /\ (kind = "groups" => submitted.space # None) =>
    /\ PostedForm.edits # <<>> /\ PostedForm.edits[1].valid
    /\ PostedForm.edits[1].add = LinesOf(submitted.ops, "add")
    /\ PostedForm.edits[1].del = LinesOf(submitted.ops, "remove")

(* "In this space", "In this org": the table that is edited is the one of  *)
(* the place the form will be posted for, unless a reply came after the    *)
(* selectors were changed.  That case is real: the replies replace the     *)
(* table without a look at the selectors (loadUsers, loadGroups), and with *)
(* it alone the boxes list one place while the form names another.         *)
ShownIsSelected == table # NoTable /\ ~overtaken => table.from = selected
=============================================================================
