---------------------------- MODULE TableProofs ----------------------------
(***************************************************************************)
(* The table that is edited is the one of the selected place until a late  *)
(* reply arrives, for any repository and any number of requests: every     *)
(* change of a selector hides the table, and no edit changes where a table *)
(* came from.  That what is posted does what is shown, and is a form its   *)
(* handler runs, is a matter of the table alone (module StagingLemmas).    *)
(***************************************************************************)
EXTENDS TablePages, StagingLemmas

(* No edit moves a table to another place (addNewUser, moveSelected, the   *)
(* check boxes).                                                           *)
LEMMA EditsKeepPlace ==
  ASSUME NEW t, NEW newcomers, NEW origins, NEW roles,
         NEW edited \in Edits(t, newcomers, origins, roles)
  PROVE  edited.from = t.from
<1>1. ASSUME NEW u, NEW o PROVE AddRow(t, u, o).from = t.from
  BY DEF AddRow
<1>2. ASSUME NEW u PROVE ToRemove(t, u).from = t.from /\ ToKeep(t, u).from = t.from
  BY DEF ToRemove, ToKeep
<1>3. ASSUME NEW u, NEW role PROVE Toggle(t, u, role).from = t.from
  BY DEF Toggle
<1> QED BY <1>1, <1>2, <1>3 DEF Edits

(* A reply for what is selected loads its own place, and any other counts  *)
(* as late.                                                                *)
LEMMA AnsweredInTime ==
  ASSUME NEW f, Answered(f), ~overtaken'
  PROVE  ~overtaken /\ f.of = selected
BY DEF Answered

LEMMA StepKeepsPlace ==
  ASSUME ShownIsSelected, [Next]_vars
  PROVE  ShownIsSelected'
<1> USE DEF ShownIsSelected, selected
<1>1. ASSUME NEW o, ChooseOrg(o) PROVE ShownIsSelected'
  BY <1>1 DEF ChooseOrg, NoTable
<1>2. ASSUME NEW o, SpacesReply(o) \/ SpacesFail(o) PROVE ShownIsSelected'
  <2>1. Answered(SpacesOf(o)) /\ UNCHANGED <<org, table>> /\ space' = None
    BY <1>2 DEF SpacesReply, SpacesFail
  <2>2. ~overtaken' => ~overtaken /\ UNCHANGED selected
    BY <2>1, AnsweredInTime DEF SpacesOf
  <2>3. NoTable' = NoTable
    BY DEF NoTable, Nobody
  <2> QED BY <2>1, <2>2, <2>3
<1>3. ASSUME NEW s, ChooseSpace(s) PROVE ShownIsSelected'
  BY <1>3 DEF ChooseSpace, NoTable
<1>4. ASSUME NEW p, LoadTable(p) PROVE ShownIsSelected'
  <2>1. Answered(TableOf(p)) /\ UNCHANGED selected /\ table'.from = p
    BY <1>4 DEF LoadTable, Load
  <2> QED BY <2>1, AnsweredInTime DEF TableOf
<1>5. ASSUME NEW p, TableFails(p) PROVE ShownIsSelected'
  BY <1>5 DEF TableFails, Answered, NoTable
<1>6. ASSUME NEW t \in Edits(table, Newcomers, PageOrigins, Offered), Edit(t)
      PROVE  ShownIsSelected'
  BY <1>6, EditsKeepPlace DEF Edit
<1>7. CASE Submit \/ Gone \/ UNCHANGED vars
  BY <1>7 DEF Submit, Gone, vars
<1> QED
  BY <1>1, <1>2, <1>3, <1>4, <1>5, <1>6, <1>7 DEF Next

(* The boxes and the form name the same place unless a reply came after    *)
(* the selectors were changed (loadUsers, loadGroups, hideEditor).         *)
THEOREM TablesShownIsSelected == Spec => []ShownIsSelected
<1>1. Init => ShownIsSelected
  BY DEF Init, ShownIsSelected
<1> QED BY <1>1, StepKeepsPlace, PTL DEF Spec

-----------------------------------------------------------------------------
AllOrigins == {OriginOrder[j] : j \in DOMAIN OriginOrder}

\* The table is right for the list it was loaded from.
TableRight ==
  /\ kind \in {"org users", "groups"}
  /\ TableOK(table, Content(TableReply(table.from)), AllOrigins)

(* No list can be asked for while the selectors are empty.                 *)
LEMMA NoReplyForNobody == Content(TableReply(Nobody)) = {}
<1>1. "" \in {None} /\ "" \in {None, None}
  BY DEF None
<1>2. APIOrgUsers(Files, None) = Failure
  BY <1>1 DEF APIOrgUsers, ListOrgUsers, Listed, Read
<1>3. APISpaceGroups(Files, None, None) = Failure
  BY <1>1 DEF APISpaceGroups, ListSpaceGroups, Listed, Read
<1>4. TableReply(Nobody) = Failure
  BY <1>2, <1>3 DEF TableReply, Nobody
<1> QED BY <1>4 DEF Content

(* The hidden editor's table is right for no list.                         *)
LEMMA NoTableRight == TableOK(NoTable, {}, AllOrigins) /\ NoTable.from = Nobody
<1>1. Known({}) /\ \A j \in DOMAIN OriginOrder : OriginOrder[j] \in AllOrigins
  BY DEF Known, AllOrigins
<1> QED BY <1>1, OrderAssumption, LoadOK DEF NoTable

LEMMA StepKeepsTable ==
  ASSUME TableRight, [Next]_vars
  PROVE  TableRight'
<1>1. kind' = kind /\ kind \in {"org users", "groups"}
  BY DEF TableRight, Next, ChooseOrg, SpacesReply, SpacesFail, ChooseSpace, LoadTable,
         TableFails, Edit, Submit, Gone, vars
<1>2. CASE table' = NoTable
  <2>1. NoTable' = NoTable /\ AllOrigins' = AllOrigins
    BY DEF NoTable, Nobody, AllOrigins
  <2>2. table'.from = Nobody /\ TableOK(table', {}, AllOrigins)
    BY <1>2, <2>1, NoTableRight
  <2>3. Content(TableReply(table.from))' = {}
    BY <1>1, <2>2, NoReplyForNobody DEF Content, TableReply
  <2> QED BY <1>1, <2>1, <2>2, <2>3 DEF TableRight
<1>3. CASE UNCHANGED table
  BY <1>1, <1>3 DEF TableRight, TableReply
<1>4. ASSUME NEW x, ChooseOrg(x) \/ SpacesReply(x) \/ SpacesFail(x) \/ ChooseSpace(x) \/ TableFails(x)
      PROVE  TableRight'
  BY <1>2, <1>3, <1>4 DEF ChooseOrg, SpacesReply, SpacesFail, ChooseSpace, TableFails
<1>5. CASE Submit \/ Gone \/ UNCHANGED vars
  BY <1>3, <1>5 DEF Submit, Gone, vars
<1>6. ASSUME NEW p \in Places, LoadTable(p) PROVE TableRight'
  <2> DEFINE reply == TableReply(p)
  <2>1. reply # Failure /\ table' = Load(p, reply)
    BY <1>6 DEF LoadTable
  <2>2. Known(reply)
    BY <2>1, TablesAssumption DEF TableReply
  <2>3. reply' = reply
    BY <1>1 DEF TableReply
  <2> HIDE DEF reply
  <2>4. TableOK(table', reply, AllOrigins) /\ table'.from = p
    BY <2>1, <2>2, OrderAssumption, LoadOK DEF AllOrigins
  <2>5. Content(reply) = reply
    BY <2>1 DEF Content
  <2>6. Content(TableReply(table.from))' = reply
    BY <2>3, <2>4, <2>5 DEF reply, Content
  <2> QED BY <1>1, <2>4, <2>6 DEF TableRight, AllOrigins
<1>7. ASSUME NEW t \in Edits(table, Newcomers, PageOrigins, Offered), Edit(t)
      PROVE  TableRight'
  <2> DEFINE lines == Content(TableReply(table.from))
  <2>1. TableOK(table, lines, AllOrigins) /\ table' = t
    BY <1>7 DEF TableRight, Edit
  <2>2. PageOrigins \subseteq AllOrigins /\ Offered \subseteq PageRoles
    BY TablesAssumption DEF PageOrigins, Offered, AllOrigins, Origins, SpaceRoles, OrgRoles
  <2>3. TableOK(t, lines, AllOrigins) /\ t.from = table.from
    <3> HIDE DEF lines
    <3> QED BY <1>7, <2>1, <2>2, EditOK
  <2>4. Content(TableReply(table.from))' = lines
    BY <1>1, <2>1, <2>3 DEF Content, TableReply
  <2> QED BY <1>1, <2>1, <2>3, <2>4 DEF TableRight, AllOrigins
<1> QED BY <1>4, <1>5, <1>6, <1>7 DEF Next

(* What is posted does to the file what the page shows, for every group,   *)
(* and every user listed under one origin (computeOps, loadUsers,          *)
(* loadGroups, moveSelected).                                              *)
THEOREM TablesShowWhatIsPosted == Spec => []StagedIsShown
<1>1. Init => TableRight
  BY NoTableRight, NoReplyForNobody DEF Init, TableRight
<1>2. TableRight => StagedIsShown
  BY OpsMakeShown DEF TableRight, StagedIsShown
<1> QED BY <1>1, <1>2, StepKeepsTable, PTL DEF Spec

-----------------------------------------------------------------------------
Requests == [get : {"spaces", "table"}, of : Places]

\* What was posted, if anything was.
PostOK ==
  submitted # Nothing =>
    /\ submitted.org \in PageOrgs /\ submitted.ops # {}
    /\ GoodBatch(submitted.ops, Offered, PageOrigins)

PageOK ==
  /\ org \in PageOrgs /\ options \in SUBSET Spaces /\ space \in options \cup {None}
  /\ table.from \in Places /\ Fits(table, PageOrigins, Offered)
  /\ loading \in Seq(Requests) /\ Len(loading) <= MaxLoading
  /\ edits \in 0 .. MaxEdits
  /\ overtaken \in BOOLEAN
  /\ PostOK

IInv == TableRight /\ PageOK

(* The page's own lists are those its handler accepts.                     *)
LEMMA OfferedIsAccepted ==
  /\ kind = "groups" => Offered = SpaceRoles /\ PageOrigins = {"ldap_groups"}
  /\ kind # "groups" => Offered = OrgRoles /\ PageOrigins = Origins
BY DEF Offered, PageOrigins, SpaceRoles, OrgRoles, Origins

(* A page has finitely many roles.                                         *)
LEMMA OfferedFinite == IsFiniteSet(Offered)
<1>0. IsFiniteSet(1 .. 5)
  <2>1. ASSUME NEW n \in Nat PROVE IsFiniteSet(1 .. n)
    BY FS_Interval
  <2> QED BY <2>1
<1> DEFINE some == {"developer", "manager", "auditor", "supporter", "billingmanager"}
<1>1. IsFiniteSet(some)
  <2> DEFINE f == [i \in 1 .. 5 |-> IF i = 1 THEN "developer" ELSE IF i = 2 THEN "manager" ELSE
                                    IF i = 3 THEN "auditor" ELSE IF i = 4 THEN "supporter" ELSE "billingmanager"]
  <2>1. f[1] = "developer" /\ f[2] = "manager" /\ f[3] = "auditor" /\ f[4] = "supporter"
        /\ f[5] = "billingmanager"
    OBVIOUS
  <2>2. f \in [1 .. 5 -> some]
    OBVIOUS
  <2> HIDE DEF f
  <2>3. f \in Surjection(1 .. 5, some)
    BY <2>1, <2>2 DEF Surjection
  <2> HIDE DEF some
  <2> QED BY <1>0, <2>3, FS_Surjection
<1>2. Offered \subseteq some
  BY DEF Offered
<1> QED BY <1>1, <1>2, FS_Subset

(* What a loaded list holds fits the page.                                 *)
LEMMA ReplyFits ==
  ASSUME NEW p \in Places, TableReply(p) # Failure
  PROVE  Fits(Load(p, TableReply(p)), PageOrigins, Offered)
<1> DEFINE reply == TableReply(p)
<1>1. ASSUME NEW file, NEW params, NEW roles, NEW lists,
             reply = Listed(Read(Files, params, file), roles, lists)
      PROVE  /\ IsFiniteSet(reply) /\ Named(Members(reply))
             /\ \A l \in reply : l[1] \in roles /\ l[2] \in lists
  <2>1. /\ file \in DOMAIN Files
        /\ reply = {l \in Files[file] : l[1] \in roles /\ l[2] \in lists}
    BY <1>1 DEF Listed, Read
  <2>2. IsFiniteSet(Files[file]) /\ Named(Members(Files[file]))
    BY <2>1, TablesAssumption DEF Plain
  <2> HIDE DEF reply
  <2>3. IsFiniteSet(reply)
    BY <2>1, <2>2, FS_Subset
  <2> QED BY <2>1, <2>2, <2>3 DEF Named, Members
<1>2. CASE kind = "groups"
  <2>1. reply = Listed(Read(Files, {p[1], p[2]}, SpaceConfig(p[1], p[2])), SpaceRoles, {"ldap_groups"})
    BY <1>2 DEF TableReply, APISpaceGroups, ListSpaceGroups
  <2>2. Known(reply)
    BY <1>2, TablesAssumption DEF TableReply
  <2> HIDE DEF reply
  <2>3. Offered = SpaceRoles /\ PageOrigins = {"ldap_groups"}
    BY <1>2, OfferedIsAccepted
  <2>4. /\ IsFiniteSet(reply) /\ Named(Members(reply))
        /\ \A l \in reply : l[1] \in Offered /\ l[2] \in PageOrigins
    BY <1>1, <2>1, <2>3
  <2> HIDE DEF Offered, PageOrigins
  <2>5. Fits(Load(p, reply), PageOrigins, Offered)
    BY <2>2, <2>4, LoadFits, OrderAssumption
  <2> QED BY <2>5 DEF reply
<1>3. CASE kind # "groups"
  <2>1. reply = Listed(Read(Files, {p[1]}, OrgConfig(p[1])), OrgRoles, Origins)
    BY <1>3 DEF TableReply, APIOrgUsers, ListOrgUsers
  <2>2. Known(reply)
    BY <1>3, TablesAssumption DEF TableReply
  <2> HIDE DEF reply
  <2>3. Offered = OrgRoles /\ PageOrigins = Origins
    BY <1>3, OfferedIsAccepted
  <2>4. /\ IsFiniteSet(reply) /\ Named(Members(reply))
        /\ \A l \in reply : l[1] \in Offered /\ l[2] \in PageOrigins
    BY <1>1, <2>1, <2>3
  <2>5. Fits(Load(p, reply), PageOrigins, Offered)
    BY <2>2, <2>4, LoadFits, OrderAssumption
  <2> QED BY <2>5 DEF reply
<1> QED BY <1>2, <1>3

(* The hidden table fits.                                                  *)
LEMMA NoTableFits == Fits(NoTable, PageOrigins, Offered) /\ NoTable.from \in Places
<1>1. Known({}) /\ IsFiniteSet({}) /\ Named(Members({}))
  BY FS_EmptySet DEF Known, Members, Named
<1>2. Fits(NoTable, PageOrigins, Offered)
  BY <1>1, LoadFits, OrderAssumption DEF NoTable
<1>3. NoTable.from = <<None, None>>
  BY DEF NoTable, Load, Nobody
<1> QED BY <1>2, <1>3 DEF Places, PageOrgs

LEMMA InitHasIInv == Init => IInv
<1> SUFFICES ASSUME Init PROVE IInv
  OBVIOUS
<1>1. TableRight
  BY NoTableRight, NoReplyForNobody DEF Init, TableRight
<1>2. org \in PageOrgs /\ options \in SUBSET Spaces /\ space \in options \cup {None}
  BY DEF Init, PageOrgs
<1>3. loading \in Seq(Requests) /\ Len(loading) <= MaxLoading /\ edits \in 0 .. MaxEdits
  <2>1. MaxLoading \in Nat /\ MaxEdits \in Nat
    BY TablesAssumption
  <2>2. loading = <<>> /\ edits = 0
    BY DEF Init
  <2> QED BY <2>1, <2>2
<1>4. overtaken \in BOOLEAN
  BY Zenon DEF Init
<1>5. table.from \in Places /\ Fits(table, PageOrigins, Offered) /\ PostOK
  BY NoTableFits DEF Init, PostOK
<1> QED BY <1>1, <1>2, <1>3, <1>4, <1>5 DEF IInv, PageOK

-----------------------------------------------------------------------------
(* The requests: what is sent is of some place, and within the bound.      *)
LEMMA RequestsOK ==
  ASSUME loading \in Seq(Requests), Len(loading) <= MaxLoading
  PROVE  /\ \A f \in Requests : Request(f) => loading' \in Seq(Requests) /\ Len(loading') <= MaxLoading
         /\ \A f : Answered(f) => /\ loading' \in Seq(Requests) /\ Len(loading') <= MaxLoading
                                  /\ overtaken' \in BOOLEAN /\ submitted = Nothing
<1>1. Len(loading) \in Nat /\ MaxLoading \in Nat
  BY LenProperties, TablesAssumption
<1>2. ASSUME NEW f \in Requests, Request(f)
      PROVE  loading' \in Seq(Requests) /\ Len(loading') <= MaxLoading
  <2>1. Len(loading) < MaxLoading /\ Sent(loading, f, loading')
    BY <1>2 DEF Request
  <2>2. loading' \in Seq(Requests) /\ Len(loading') = Len(loading) + 1
    BY <2>1, SentIsOneMore
  <2> QED BY <1>1, <2>1, <2>2
<1>3. ASSUME NEW f, Answered(f)
      PROVE  loading' \in Seq(Requests) /\ Len(loading') <= MaxLoading
  <2>1. Arrived(loading, f, loading')
    BY <1>3 DEF Answered
  <2>2. loading' \in Seq(Requests) /\ Len(loading') <= Len(loading)
    BY <2>1, ArrivedIsOneLess
  <2>3. Len(loading') \in Nat
    BY <2>2, LenProperties
  <2> QED BY <1>1, <2>2, <2>3
<1>4. ASSUME NEW f, Answered(f) PROVE overtaken' \in BOOLEAN /\ submitted = Nothing
  BY <1>4 DEF Answered
<1> QED BY <1>2, <1>3, <1>4

(* Each request is for a place.                                            *)
LEMMA RequestOfPlace ==
  /\ \A p \in Places : TableOf(p) \in Requests
  /\ \A o \in PageOrgs : SpacesOf(o) \in Requests /\ TableOf(<<o, None>>) \in Requests
  /\ \A o \in PageOrgs, s \in Spaces : TableOf(<<o, s>>) \in Requests
<1>1. \A p \in Places : TableOf(p) \in Requests /\ [get |-> "spaces", of |-> p] \in Requests
  BY DEF TableOf, Requests
<1>2. \A o \in PageOrgs : <<o, None>> \in Places
  BY DEF Places
<1>3. \A o \in PageOrgs, s \in Spaces : <<o, s>> \in Places
  BY DEF Places
<1> QED BY <1>1, <1>2, <1>3 DEF SpacesOf

(* Each step keeps the page as it should be.                               *)
LEMMA StepKeepsPage ==
  ASSUME IInv, [Next]_vars
  PROVE  PageOK'
<1> USE DEF IInv
<1>0. kind' = kind /\ PageOrigins' = PageOrigins /\ Offered' = Offered /\ Nothing' = Nothing
  <2>1. kind' = kind
    BY DEF Next, ChooseOrg, SpacesReply, SpacesFail, ChooseSpace, LoadTable,
           TableFails, Edit, Submit, Gone, vars
  <2> QED BY <2>1 DEF PageOrigins, Offered, Nothing
<1>1. ASSUME UNCHANGED submitted, org' \in PageOrgs, options' \in SUBSET Spaces,
             space' \in options' \cup {None}, table'.from \in Places,
             Fits(table', PageOrigins, Offered), loading' \in Seq(Requests),
             Len(loading') <= MaxLoading, edits' \in 0 .. MaxEdits, overtaken' \in BOOLEAN
      PROVE  PageOK'
  BY <1>0, <1>1 DEF PageOK, PostOK, Requests, Places, PageOrgs, Spaces
<1> DEFINE Loaded == loading' \in Seq(Requests) /\ Len(loading') <= MaxLoading
<1>2. UNCHANGED loading => Loaded
  BY DEF PageOK
<1>3. /\ org \in PageOrgs /\ options \in SUBSET Spaces /\ space \in options \cup {None}
      /\ table.from \in Places /\ Fits(table, PageOrigins, Offered)
      /\ edits \in 0 .. MaxEdits /\ overtaken \in BOOLEAN
      /\ loading \in Seq(Requests) /\ Len(loading) <= MaxLoading
  BY DEF PageOK
<1>4. ASSUME NEW o \in PageOrgs, ChooseOrg(o) PROVE PageOK'
  <2>1. /\ org' = o /\ options' = {} /\ space' = None /\ table' = NoTable
        /\ UNCHANGED <<edits, submitted, overtaken>>
    BY <1>4 DEF ChooseOrg
  <2>2. Loaded
    <3>1. UNCHANGED loading \/ Request(SpacesOf(o)) \/ Request(TableOf(<<o, None>>))
      BY <1>4 DEF ChooseOrg
    <3> QED BY <1>2, <1>3, <3>1, RequestOfPlace, RequestsOK
  <2>3. NoTable' = NoTable
    BY DEF NoTable, Nobody
  <2> QED BY <1>1, <1>3, <2>1, <2>2, <2>3, NoTableFits
<1>5. ASSUME NEW o \in PageOrgs, SpacesReply(o) \/ SpacesFail(o) PROVE PageOK'
  <2>1. /\ options' \in {{}, Content(APISpaces(Files, o))} /\ space' = None
        /\ Answered(SpacesOf(o)) /\ UNCHANGED <<org, table, edits, submitted>>
    BY <1>5 DEF SpacesReply, SpacesFail
  <2>2. options' \in SUBSET Spaces
    BY <2>1 DEF Spaces
  <2>3. Loaded /\ overtaken' \in BOOLEAN
    BY <1>3, <2>1, RequestsOK
  <2> QED BY <1>1, <1>3, <2>1, <2>2, <2>3
<1>6. ASSUME NEW s \in Spaces \cup {None}, ChooseSpace(s) PROVE PageOK'
  <2>1. /\ space' = s /\ s \in options \cup {None} /\ table' = NoTable
        /\ UNCHANGED <<org, options, edits, submitted, overtaken>>
    BY <1>6 DEF ChooseSpace
  <2>2. Loaded
    <3>1. UNCHANGED loading \/ (s # None /\ Request(TableOf(<<org, s>>)))
      BY <1>6 DEF ChooseSpace
    <3>2. s # None => TableOf(<<org, s>>) \in Requests
      BY <1>3, RequestOfPlace
    <3> QED BY <1>2, <1>3, <3>1, <3>2, RequestsOK
  <2>3. NoTable' = NoTable
    BY DEF NoTable, Nobody
  <2> QED BY <1>1, <1>3, <2>1, <2>2, <2>3, NoTableFits
<1>7. ASSUME NEW p \in Places, LoadTable(p) PROVE PageOK'
  <2>1. /\ TableReply(p) # Failure /\ table' = Load(p, TableReply(p)) /\ Answered(TableOf(p))
        /\ UNCHANGED <<org, options, space, edits, submitted>>
    BY <1>7 DEF LoadTable
  <2>2. Fits(table', PageOrigins, Offered)
    BY <2>1, ReplyFits
  <2>3. table'.from = p
    BY <2>1 DEF Load
  <2>4. Loaded /\ overtaken' \in BOOLEAN
    BY <1>3, <2>1, RequestsOK
  <2> QED BY <1>1, <1>3, <2>1, <2>2, <2>3, <2>4
<1>8. ASSUME NEW p, TableFails(p) PROVE PageOK'
  <2>1. Answered(TableOf(p)) /\ UNCHANGED <<org, options, space, table, edits, submitted>>
    BY <1>8 DEF TableFails
  <2>2. Loaded /\ overtaken' \in BOOLEAN
    BY <1>3, <2>1, RequestsOK
  <2> QED BY <1>1, <1>3, <2>1, <2>2
<1>9. ASSUME NEW t \in Edits(table, Newcomers, PageOrigins, Offered), Edit(t) PROVE PageOK'
  <2>1. /\ table' = t /\ edits < MaxEdits /\ edits' = edits + 1
        /\ UNCHANGED <<org, options, space, loading, submitted, overtaken>>
    BY <1>9 DEF Edit
  <2>2. Fits(t, PageOrigins, Offered)
    <3>1. TableOK(table, Content(TableReply(table.from)), AllOrigins) /\ Named(Newcomers)
      BY TablesAssumption DEF TableRight
    <3> QED BY <1>3, <1>9, <3>1, EditFits
  <2>3. t.from \in Places
    BY <1>3, <1>9, EditsKeepPlace
  <2>4. edits' \in 0 .. MaxEdits
    <3>1. MaxEdits \in Nat
      BY TablesAssumption
    <3> QED BY <1>3, <2>1, <3>1
  <2> QED BY <1>1, <1>2, <1>3, <2>1, <2>2, <2>3, <2>4
<1>10. CASE Submit
  <2>1. /\ submitted' = [org |-> org, space |-> space, ops |-> ComputeOps(table)]
        /\ ComputeOps(table) # {}
        /\ UNCHANGED <<org, options, space, table, loading, edits, overtaken>>
    BY <1>10 DEF Submit
  <2>2. GoodBatch(ComputeOps(table), Offered, PageOrigins)
    <3>1. TableOK(table, Content(TableReply(table.from)), AllOrigins)
      BY DEF TableRight
    <3> QED BY <1>3, <3>1, OfferedFinite, OpsGood
  <2>3. submitted'.org = org /\ submitted'.ops = ComputeOps(table)
    BY <2>1
  <2>4. PostOK'
    BY <1>0, <1>3, <2>1, <2>2, <2>3 DEF PostOK, PageOrgs
  <2> QED BY <1>0, <1>3, <2>1, <2>4 DEF PageOK, Requests, Places, PageOrgs, Spaces
<1>11. CASE Gone \/ UNCHANGED vars
  BY <1>1, <1>2, <1>3, <1>11 DEF Gone, vars
<1> QED BY <1>4, <1>5, <1>6, <1>7, <1>8, <1>9, <1>10, <1>11 DEF Next

(* TypeOK: the selectors offer what there is, the table's rows have the    *)
(* page's roles and origins, and no more requests are under way than sent. *)
THEOREM TablesTypeCorrect == Spec => []TypeOK
<1>1. IInv => TypeOK
  <2> SUFFICES ASSUME IInv PROVE TypeOK
    OBVIOUS
  <2> DEFINE lines == Content(TableReply(table.from))
  <2>1. TableOK(table, lines, AllOrigins) /\ kind \in {"org users", "groups"}
    BY DEF IInv, TableRight
  <2> HIDE DEF lines
  <2>2. /\ table.original \in [Rows(table) -> [origin : AllOrigins, roles : SUBSET PageRoles]]
        /\ table.state \in [Rows(table) -> [origin : AllOrigins, roles : SUBSET PageRoles]]
        /\ table.removed \subseteq Rows(table)
        /\ \A u \in Rows(table) : table.state[u].origin = table.original[u].origin
    BY <2>1 DEF TableOK, TableType, RowOK
  <2>3. \A u \in Rows(table) : /\ table.original[u].origin \in PageOrigins
                               /\ table.original[u].roles \subseteq Offered
                               /\ table.state[u].roles \subseteq Offered
    BY DEF IInv, PageOK, Fits
  <2>4. ASSUME NEW u \in Rows(table)
        PROVE  {table.original[u], table.state[u]} \subseteq [origin : PageOrigins, roles : SUBSET Offered]
    <3>1. /\ table.original[u] \in [origin : AllOrigins, roles : SUBSET PageRoles]
          /\ table.state[u] \in [origin : AllOrigins, roles : SUBSET PageRoles]
      BY <2>2
    <3> QED BY <2>2, <2>3, <3>1
  <2>5. submitted.org \in PageOrgs
    <3>1. submitted = Nothing => submitted.org = None
      BY DEF Nothing
    <3> QED BY <3>1 DEF IInv, PageOK, PostOK, PageOrgs
  <2>6. DOMAIN table.state = Rows(table)
    BY <2>2
  <2>7. /\ org \in PageOrgs /\ options \in SUBSET Spaces /\ space \in options \cup {None}
        /\ table.from \in Places /\ edits \in 0 .. MaxEdits /\ overtaken \in BOOLEAN
        /\ loading \in Seq([get : {"spaces", "table"}, of : Places]) /\ Len(loading) <= MaxLoading
    BY DEF IInv, PageOK, Requests
  <2> HIDE DEF IInv
  <2> QED BY <2>1, <2>2, <2>4, <2>5, <2>6, <2>7 DEF TypeOK
<1>2. IInv /\ [Next]_vars => IInv'
  BY StepKeepsTable, StepKeepsPage DEF IInv
<1> QED BY <1>1, <1>2, InitHasIInv, PTL DEF Spec

(* What either page posts for an org (and a space) is a form its handler   *)
(* runs, and each posted line is written or deleted (computeOps, the       *)
(* form's handler, handleManageOrgUsers, handleManageGroups).              *)
THEOREM TablesPostAccepted == Spec => []PostAccepted
<1>1. IInv => PostAccepted
  <2> SUFFICES ASSUME IInv, submitted.org # None, kind = "groups" => submitted.space # None
               PROVE  /\ PostedForm.edits # <<>> /\ PostedForm.edits[1].valid
                      /\ PostedForm.edits[1].add = LinesOf(submitted.ops, "add")
                      /\ PostedForm.edits[1].del = LinesOf(submitted.ops, "remove")
    BY DEF PostAccepted
  <2> DEFINE ops == submitted.ops
             list == Listing(ops)
  <2>1. submitted # Nothing
    BY DEF Nothing
  <2>2. ops # {} /\ GoodBatch(ops, Offered, PageOrigins)
    BY <2>1 DEF IInv, PageOK, PostOK
  <2>3. list # <<>>
    BY <2>2, ListingNotEmpty DEF GoodBatch
  <2>4. PICK file : PostedForm.edits = <<Batch(file, list, Offered, PageOrigins)>>
    <3>1. CASE kind = "groups"
      <4>1. "" \notin {submitted.org, submitted.space}
        BY <3>1 DEF None
      <4>2. PostedForm.edits = <<Batch(SpaceConfig(submitted.org, submitted.space), list, SpaceRoles, {"ldap_groups"})>>
        BY <2>3, <3>1, <4>1 DEF PostedForm, ManageGroups, Post, Unless
      <4> QED BY <3>1, <4>2, OfferedIsAccepted
    <3>2. CASE kind # "groups"
      <4>1. submitted.org # ""
        BY DEF None
      <4>2. PostedForm.edits = <<Batch(OrgConfig(submitted.org), list, OrgRoles, Origins)>>
        BY <2>3, <3>2, <4>1 DEF PostedForm, ManageOrgUsers, Post, Unless
      <4> QED BY <3>2, <4>2, OfferedIsAccepted
    <3> QED BY <3>1, <3>2
  <2> DEFINE batch == Batch(file, list, Offered, PageOrigins)
  <2>5. /\ batch.valid /\ batch.add = LinesOf(ops, "add") /\ batch.del = LinesOf(ops, "remove")
    BY <2>2, BatchOfListing
  <2> HIDE DEF batch
  <2>6. PostedForm.edits = <<batch>>
    BY <2>4 DEF batch
  <2> QED BY <2>5, <2>6
<1>2. IInv /\ [Next]_vars => IInv'
  BY StepKeepsTable, StepKeepsPage DEF IInv
<1> QED BY <1>1, <1>2, InitHasIInv, PTL DEF Spec
=============================================================================
