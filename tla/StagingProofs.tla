---------------------------- MODULE StagingProofs ----------------------------
(***************************************************************************)
(* The page keeps what its visitor staged, for any repository, any number  *)
(* of requests under way and any edits.  That a reply or a choice of a     *)
(* space loses nothing is a matter of each step; that an edit goes to the  *)
(* table on display needs ShownIsCurrent, which is inductive together with *)
(* the names of the staged spaces.  That the form which is posted is run   *)
(* rests on the tables: their rows fit the page, so that each is a good    *)
(* batch, and parseSpaceChanges leaves such batches as they are.           *)
(***************************************************************************)
EXTENDS StagingPage, StagingLemmas

PageOK ==
  /\ DOMAIN staged \subseteq Spaces
  /\ dialog \in PageOrgs \cup {Closed, Leaving}

IInv == PageOK /\ ShownIsCurrent /\ edits \in Nat

(* A space that is chosen has a name.                                      *)
LEMMA SpacesNamed == None \notin Spaces
BY StagingAssumption DEF None, ValidPathSegment

(* The marks are no orgs.                                                  *)
LEMMA MarksNoOrgs == Closed \notin PageOrgs /\ Leaving \notin PageOrgs
BY StagingAssumption

(* initSpace keeps every table there is and adds at most the one of s.     *)
LEMMA InitSpaceKeeps ==
  ASSUME NEW s, NEW table
  PROVE  /\ DOMAIN InitSpace(staged, s, table) = DOMAIN staged \cup {s}
         /\ \A t \in DOMAIN staged : InitSpace(staged, s, table)[t] = staged[t]
BY DEF InitSpace

LEMMA InitHasIInv == Init => IInv
<1>1. Init => edits \in Nat
  BY DEF Init
<1>2. Init => PageOK /\ ShownIsCurrent
  BY DEF Init, PageOK, ShownIsCurrent, Empty, PageOrgs
<1> QED BY <1>1, <1>2 DEF IInv

-----------------------------------------------------------------------------
(* A change of the org empties the map, and with it what is on display.    *)
LEMMA SwitchOrgKeepsIInv ==
  ASSUME NEW o \in PageOrgs, SwitchOrg(o)
  PROVE  staged' = Empty /\ DOMAIN staged' = {} /\ edits' = edits
BY DEF SwitchOrg, Empty

(* The replies.                                                            *)
LEMMA UsersReplyKeepsIInv ==
  ASSUME IInv, NEW o \in PageOrgs, NEW s \in Spaces, UsersReply(o, s)
  PROVE  IInv'
<1>1. /\ DOMAIN staged' = DOMAIN staged \cup {s} /\ UNCHANGED <<cur, dialog, edits>>
      /\ shown' = IF cur = s THEN s ELSE shown
  BY InitSpaceKeeps DEF UsersReply
<1> QED BY <1>1 DEF IInv, PageOK, ShownIsCurrent

LEMMA StepKeepsIInv ==
  ASSUME IInv, [Next]_vars
  PROVE  IInv'
<1> USE DEF IInv, PageOK, ShownIsCurrent
<1>1. ASSUME NEW o \in PageOrgs, ChooseOrg(o) PROVE IInv'
  BY <1>1, SwitchOrgKeepsIInv DEF ChooseOrg
<1>2. ASSUME NEW o \in PageOrgs, AskOrg(o) PROVE IInv'
  BY <1>2 DEF AskOrg
<1>3. CASE ConfirmOrg
  BY <1>3, SwitchOrgKeepsIInv DEF ConfirmOrg
<1>4. CASE AskLeave \/ Cancel
  BY <1>4 DEF AskLeave, Cancel
<1>5. ASSUME NEW o, SpacesReply(o) \/ SpacesFail(o) PROVE IInv'
  BY <1>5 DEF SpacesReply, SpacesFail
<1>6. CASE ChooseNoSpace
  BY <1>6, SpacesNamed DEF ChooseNoSpace
<1>7. ASSUME NEW s \in Spaces, ChooseSpace(s) PROVE IInv'
  BY <1>7 DEF ChooseSpace
<1>8. ASSUME NEW o \in PageOrgs, NEW s \in Spaces, UsersReply(o, s) PROVE IInv'
  BY <1>8, UsersReplyKeepsIInv
<1>9. ASSUME NEW o, NEW s, UsersFail(o, s) PROVE IInv'
  BY <1>9 DEF UsersFail
<1>10. ASSUME NEW t, Edit(t) PROVE IInv'
  <2>1. edits' \in Nat
    BY <1>10 DEF Edit
  <2>2. DOMAIN staged' = DOMAIN staged /\ UNCHANGED <<cur, shown, dialog>>
    BY <1>10 DEF Edit
  <2> QED BY <2>1, <2>2
<1>11. CASE Submit \/ Gone \/ UNCHANGED vars
  BY <1>11 DEF Submit, Gone, vars
<1> QED
  BY <1>1, <1>2, <1>3, <1>4, <1>5, <1>6, <1>7, <1>8, <1>9, <1>10, <1>11 DEF Next

(* The boxes never list one space while edits go to the table of another   *)
(* (spaceSel's change, initSpace, renderSpace).                            *)
THEOREM StagingShownIsCurrent == Spec => []ShownIsCurrent
<1>1. IInv => ShownIsCurrent BY DEF IInv
<1> QED BY <1>1, InitHasIInv, StepKeepsIInv, PTL DEF Spec

-----------------------------------------------------------------------------
(* Without a dialog the org changes only while no table has operations.    *)
LEMMA NoOpsNothingLost ==
  ASSUME ~HasOps(staged)
  PROVE  \A s \in DOMAIN staged : ComputeOps(staged[s]) = {}
BY DEF HasOps, AllChanges

(* An edit goes to the table on display.                                   *)
LEMMA EditKeeps ==
  ASSUME IInv, NEW t, Edit(t)
  PROVE  Kept
<1>1. shown = cur /\ DOMAIN staged' = DOMAIN staged
  BY DEF Edit, IInv, ShownIsCurrent
<1>2. edits' # edits
  BY DEF Edit, IInv
<1>3. \A s \in DOMAIN staged : s # cur => staged'[s] = staged[s]
  BY DEF Edit
<1> QED BY <1>1, <1>2, <1>3 DEF Kept

(* A reply adds a table and changes none.                                  *)
LEMMA ReplyKeeps ==
  ASSUME NEW o \in PageOrgs, NEW s \in Spaces, UsersReply(o, s)
  PROVE  Kept
<1> DEFINE table == Load(o, APISpaceUsers(Files, o, s))
<1>1. staged' = InitSpace(staged, s, table)
  BY DEF UsersReply
<1> HIDE DEF table
<1>2. /\ DOMAIN staged' = DOMAIN staged \cup {s}
      /\ \A t \in DOMAIN staged : staged'[t] = staged[t]
  BY <1>1 DEF InitSpace
<1> QED BY <1>2 DEF Kept

LEMMA StepKeeps ==
  ASSUME IInv, [Next]_vars
  PROVE  Kept \/ UNCHANGED vars
<1>1. ASSUME NEW o, ChooseOrg(o) PROVE Kept
  BY <1>1, NoOpsNothingLost DEF ChooseOrg, Kept
<1>2. CASE ConfirmOrg
  BY <1>2, MarksNoOrgs DEF ConfirmOrg, SwitchOrg, Kept
<1>3. CASE UNCHANGED staged
  BY <1>3 DEF Kept
<1>4. ASSUME NEW o, AskOrg(o) \/ SpacesReply(o) \/ SpacesFail(o) \/ ChooseSpace(o)
      PROVE  UNCHANGED staged
  BY <1>4 DEF AskOrg, SpacesReply, SpacesFail, ChooseSpace
<1>5. CASE AskLeave \/ Cancel \/ ChooseNoSpace \/ Submit \/ Gone \/ UNCHANGED vars
  <2>1. UNCHANGED staged
    BY <1>5 DEF AskLeave, Cancel, ChooseNoSpace, Submit, Gone, vars
  <2> QED BY <2>1, <1>3
<1>6. ASSUME NEW o \in PageOrgs, NEW s \in Spaces, UsersReply(o, s) PROVE Kept
  BY <1>6, ReplyKeeps
<1>7. ASSUME NEW o, NEW s, UsersFail(o, s) PROVE UNCHANGED staged
  BY <1>7 DEF UsersFail
<1>8. ASSUME NEW t, Edit(t) PROVE Kept
  BY <1>8, EditKeeps
<1> QED
  BY <1>1, <1>2, <1>3, <1>4, <1>5, <1>6, <1>7, <1>8 DEF Next

(* Staged changes are lost only by an edit of the space on display or with *)
(* the visitor's consent (orgSel's change, spaceSel's change, initSpace).  *)
THEOREM StagingNothingLost == Spec => NothingLostSilently
<1>1. IInv /\ [Next]_vars => [Kept]_vars
  BY StepKeeps
<1> QED BY <1>1, InitHasIInv, StepKeepsIInv, PTL DEF Spec, NothingLostSilently

-----------------------------------------------------------------------------
\* Each staged table is right for the list it was loaded from.
TablesRight ==
  \A s \in DOMAIN staged :
    /\ s \in Spaces /\ staged[s].from \in PageOrgs
    /\ TableOK(staged[s], APISpaceUsers(Files, staged[s].from, s), PageOrigins)

LEMMA StepKeepsTables ==
  ASSUME TablesRight, [Next]_vars
  PROVE  TablesRight'
<1>1. CASE UNCHANGED staged \/ staged' = Empty
  BY <1>1 DEF TablesRight, Empty
<1>2. ASSUME NEW o, ChooseOrg(o) \/ AskOrg(o) \/ SpacesReply(o) \/ SpacesFail(o) \/ ChooseSpace(o)
      PROVE  TablesRight'
  <2>1. UNCHANGED staged \/ staged' = Empty
    BY <1>2 DEF ChooseOrg, SwitchOrg, AskOrg, SpacesReply, SpacesFail, ChooseSpace
  <2> QED BY <1>1, <2>1
<1>3. CASE ConfirmOrg \/ AskLeave \/ Cancel \/ ChooseNoSpace \/ Submit \/ Gone \/ UNCHANGED vars
  <2>1. UNCHANGED staged \/ staged' = Empty
    BY <1>3 DEF ConfirmOrg, SwitchOrg, AskLeave, Cancel, ChooseNoSpace, Submit, Gone, vars
  <2> QED BY <1>1, <2>1
<1>4. ASSUME NEW o, NEW s, UsersFail(o, s) PROVE TablesRight'
  BY <1>1, <1>4 DEF UsersFail
<1>5. ASSUME NEW o \in PageOrgs, NEW s \in Spaces, UsersReply(o, s) PROVE TablesRight'
  <2> DEFINE reply == APISpaceUsers(Files, o, s)
             table == Load(o, reply)
  <2>1. reply # Failure /\ staged' = InitSpace(staged, s, table)
    BY <1>5 DEF UsersReply
  <2>2. TableOK(table, reply, PageOrigins) /\ table.from = o
    <3>1. Known(reply)
      BY <2>1, StagingAssumption
    <3> HIDE DEF reply
    <3> QED BY <3>1, OrderAssumption, LoadOK DEF PageOrigins
  <2> HIDE DEF table
  <2>3. /\ DOMAIN staged' = DOMAIN staged \cup {s}
        /\ \A t \in DOMAIN staged : staged'[t] = staged[t]
        /\ s \notin DOMAIN staged => staged'[s] = table
    BY <2>1 DEF InitSpace
  <2>4. ASSUME NEW t \in DOMAIN staged'
        PROVE  /\ t \in Spaces /\ staged'[t].from \in PageOrgs
               /\ TableOK(staged'[t], APISpaceUsers(Files, staged'[t].from, t), PageOrigins)
    BY <2>2, <2>3, <2>4 DEF TablesRight
  <2> QED BY <2>4 DEF TablesRight
<1>6. ASSUME NEW t \in Edits(staged[cur], Newcomers, PageOrigins, PageRoles), cur \in DOMAIN staged,
             Edit(t)
      PROVE  TablesRight'
  <2> DEFINE lines == APISpaceUsers(Files, staged[cur].from, cur)
  <2>1. TableOK(staged[cur], lines, PageOrigins)
    BY <1>6 DEF TablesRight
  <2>2. TableOK(t, lines, PageOrigins) /\ t.from = staged[cur].from
    <3> HIDE DEF lines
    <3> QED BY <1>6, <2>1, EditOK
  <2>3. /\ DOMAIN staged' = DOMAIN staged
        /\ \A s \in DOMAIN staged : staged'[s] = IF s = cur THEN t ELSE staged[s]
    BY <1>6 DEF Edit
  <2>4. ASSUME NEW s \in DOMAIN staged'
        PROVE  /\ s \in Spaces /\ staged'[s].from \in PageOrgs
               /\ TableOK(staged'[s], APISpaceUsers(Files, staged'[s].from, s), PageOrigins)
    BY <2>2, <2>3, <2>4 DEF TablesRight
  <2> QED BY <2>4 DEF TablesRight
<1> QED BY <1>1, <1>2, <1>3, <1>4, <1>5, <1>6 DEF Next

(* What is posted does to the files what the page shows, for every member  *)
(* listed under one origin (computeOpsFor, initSpace, moveSelected).       *)
THEOREM StagingShowsWhatIsPosted == Spec => []StagedIsShown
<1>1. Init => TablesRight
  BY DEF Init, TablesRight, Empty
<1>2. TablesRight => StagedIsShown
  BY OpsMakeShown DEF TablesRight, StagedIsShown
<1> QED BY <1>1, <1>2, StepKeepsTables, PTL DEF Spec

-----------------------------------------------------------------------------
\* What was posted, if anything was: one batch for each of some spaces.
PostOK ==
  submitted # Nothing =>
    /\ submitted.org \in PageOrgs
    /\ IsFiniteSet(submitted.changes) /\ submitted.changes # {}
    /\ \A c \in submitted.changes :
         /\ c.space \in Spaces /\ c.ops # {}
         /\ GoodBatch(c.ops, PageRoles, PageOrigins)
    /\ \A c, d \in submitted.changes : c.space = d.space => c = d

\* The staged tables.
StagedOK ==
  /\ IsFiniteSet(DOMAIN staged) /\ DOMAIN staged \subseteq Spaces
  /\ \A s \in DOMAIN staged : Fits(staged[s], PageOrigins, PageRoles)

\* The selectors, what is on display, the requests under way.
ControlsOK ==
  /\ org \in PageOrgs /\ options \in SUBSET Spaces /\ sel \in options \cup {None}
  /\ {cur, shown} \subseteq Spaces \cup {None}
  /\ loading \in Seq(Fetches) /\ Len(loading) <= MaxLoading
  /\ dialog \in PageOrgs \cup {Closed, Leaving}
  /\ edits \in 0 .. MaxEdits

TInv == TablesRight /\ StagedOK /\ ControlsOK /\ PostOK

(* What the assumptions on the repository and the page come to.            *)
LEMMA Bounds == MaxLoading \in Nat /\ MaxEdits \in Nat
BY StagingAssumption

(* Of path segments path.Join makes the path one expects: a file of that   *)
(* space in that org.                                                      *)
LEMMA PathOfSegments ==
  ASSUME NEW o, ValidPathSegment(o), NEW s, ValidPathSegment(s), NEW file
  PROVE  Path(o, s, file) = <<o, s, file>>
<1>1. ASSUME NEW dir, NEW name, ValidPathSegment(name) PROVE Into(dir, name) = Append(dir, name)
  <2>1. name # "" /\ name # "." /\ name # ".." /\ name # Slashed
    BY <1>1 DEF ValidPathSegment
  <2>2. Into(dir, name) = Down(dir, name)
    BY <2>1 DEF Into
  <2>3. Down(dir, name) = Append(dir, name)
    BY <2>1 DEF Down
  <2> QED BY <2>2, <2>3
<1>2. Path(o, s, file) = Append(Append(Append(<<>>, o), s), file)
  BY <1>1 DEF Path
<1> DEFINE T == {o, s, file}
<1>3. Append(<<>>, o) = <<o>> /\ <<o>> \in Seq(T)
  OBVIOUS
<1>4. Append(<<o>>, s) = <<o, s>>
  <2>1. /\ Append(<<o>>, s) \in Seq(T) /\ Len(Append(<<o>>, s)) = 2
        /\ Append(<<o>>, s)[1] = o /\ Append(<<o>>, s)[2] = s
    BY <1>3, AppendProperties
  <2>2. <<o, s>> \in Seq(T) /\ Len(<<o, s>>) = 2
    OBVIOUS
  <2>3. \A i \in 1 .. 2 : Append(<<o>>, s)[i] = <<o, s>>[i]
    BY <2>1
  <2> QED BY <2>1, <2>2, <2>3, SeqEqual
<1>5. Append(<<o, s>>, file) = <<o, s, file>>
  <2>1. <<o, s>> \in Seq(T) /\ Len(<<o, s>>) = 2
    OBVIOUS
  <2>2. /\ Append(<<o, s>>, file) \in Seq(T) /\ Len(Append(<<o, s>>, file)) = 3
        /\ Append(<<o, s>>, file)[1] = o /\ Append(<<o, s>>, file)[2] = s
        /\ Append(<<o, s>>, file)[3] = file
    BY <2>1, AppendProperties
  <2>3. <<o, s, file>> \in Seq(T) /\ Len(<<o, s, file>>) = 3
    OBVIOUS
  <2>4. \A i \in 1 .. 3 : Append(<<o, s>>, file)[i] = <<o, s, file>>[i]
    BY <2>2
  <2> QED BY <2>2, <2>3, <2>4, SeqEqual
<1> QED BY <1>2, <1>3, <1>4, <1>5

(* Orgs and spaces have names that may be in a path.                       *)
LEMMA NamesValid == \A n \in Spaces : ValidPathSegment(n) /\ n # None
BY StagingAssumption DEF None, ValidPathSegment

LEMMA OrgsValid == \A o \in PageOrgs : o # None => ValidPathSegment(o)
BY StagingAssumption

LEMMA NewcomersNamed == Named(Newcomers)
BY StagingAssumption

LEMMA ListsAccepted == PageRoles \subseteq SpaceRoles /\ PageOrigins \subseteq Origins
BY StagingAssumption

(* The page has finitely many roles.                                       *)
LEMMA RolesFinite == IsFiniteSet(PageRoles)
<1>0. IsFiniteSet(1 .. 4)
  <2>1. ASSUME NEW n \in Nat PROVE IsFiniteSet(1 .. n)
    BY FS_Interval
  <2> QED BY <2>1
<1>1. IsFiniteSet(SpaceRoles)
  <2> DEFINE f == [i \in 1 .. 4 |-> IF i = 1 THEN "developer" ELSE IF i = 2 THEN "manager" ELSE
                                    IF i = 3 THEN "auditor" ELSE "supporter"]
  <2>1. f[1] = "developer" /\ f[2] = "manager" /\ f[3] = "auditor" /\ f[4] = "supporter"
    OBVIOUS
  <2>2. f \in [1 .. 4 -> SpaceRoles]
    BY DEF SpaceRoles
  <2> HIDE DEF f
  <2>3. f \in Surjection(1 .. 4, SpaceRoles)
    BY <2>1, <2>2 DEF Surjection, SpaceRoles
  <2> QED BY <1>0, <2>3, FS_Surjection
<1> QED BY <1>1, ListsAccepted, FS_Subset

(* A loaded list fits the page.                                            *)
LEMMA ReplyFits ==
  ASSUME NEW o \in PageOrgs, NEW s \in Spaces, APISpaceUsers(Files, o, s) # Failure
  PROVE  Fits(Load(o, APISpaceUsers(Files, o, s)), PageOrigins, PageRoles)
<1> DEFINE reply == APISpaceUsers(Files, o, s)
           file == SpaceConfig(o, s)
<1>1. Known(reply)
  BY StagingAssumption
<1>2. /\ file \in DOMAIN Files
      /\ reply = {l \in Files[file] : l[1] \in SpaceRoles /\ l[2] \in Origins}
  BY DEF APISpaceUsers, ListSpaceUsers, Listed, Read
<1>3. Plain(Files)
  BY StagingAssumption
<1> HIDE DEF reply, file
<1>4. IsFiniteSet(Files[file]) /\ Named(Members(Files[file]))
  BY <1>2, <1>3 DEF Plain
<1>5. IsFiniteSet(reply)
  BY <1>2, <1>4, FS_Subset
<1>6. Named(Members(reply))
  BY <1>2, <1>4 DEF Named, Members
<1>7. \A l \in reply : l[1] \in PageRoles /\ l[2] \in PageOrigins
  BY <1>1 DEF Known, PageRoles, PageOrigins, RoleLine
<1>8. Fits(Load(o, reply), PageOrigins, PageRoles)
  BY <1>1, <1>5, <1>6, <1>7, OrderAssumption, LoadFits
<1> QED BY <1>8 DEF reply

(* The requests: what is sent is a fetch, and within the bound.            *)
LEMMA RequestsOK ==
  ASSUME loading \in Seq(Fetches), Len(loading) <= MaxLoading
  PROVE  /\ \A f \in Fetches : Request(f) => loading' \in Seq(Fetches) /\ Len(loading') <= MaxLoading
         /\ \A f : Answered(f) => loading' \in Seq(Fetches) /\ Len(loading') <= MaxLoading
<1>1. Len(loading) \in Nat /\ MaxLoading \in Nat
  BY LenProperties, Bounds
<1>2. ASSUME NEW f \in Fetches, Request(f)
      PROVE  loading' \in Seq(Fetches) /\ Len(loading') <= MaxLoading
  <2>1. Len(loading) < MaxLoading /\ Sent(loading, f, loading')
    BY <1>2 DEF Request
  <2>2. loading' \in Seq(Fetches) /\ Len(loading') = Len(loading) + 1
    BY <2>1, SentIsOneMore
  <2> QED BY <1>1, <2>1, <2>2
<1>3. ASSUME NEW f, Answered(f)
      PROVE  loading' \in Seq(Fetches) /\ Len(loading') <= MaxLoading
  <2>1. Arrived(loading, f, loading')
    BY <1>3 DEF Answered
  <2>2. loading' \in Seq(Fetches) /\ Len(loading') <= Len(loading)
    BY <2>1, ArrivedIsOneLess
  <2>3. Len(loading') \in Nat
    BY <2>2, LenProperties
  <2> QED BY <1>1, <2>2, <2>3
<1> QED BY <1>2, <1>3

LEMMA InitHasTInv == Init => TInv
<1> SUFFICES ASSUME Init PROVE TInv
  OBVIOUS
<1>1. staged = Empty /\ DOMAIN Empty = {}
  BY DEF Init, Empty
<1>2. TablesRight /\ StagedOK
  BY <1>1, FS_EmptySet DEF TablesRight, StagedOK
<1>3. loading \in Seq(Fetches) /\ Len(loading) <= MaxLoading /\ edits \in 0 .. MaxEdits
  <2>1. loading = <<>> /\ edits = 0
    BY DEF Init
  <2> QED BY <2>1, Bounds
<1>4. ControlsOK
  BY <1>3 DEF Init, ControlsOK, PageOrgs
<1>5. PostOK
  BY DEF Init, PostOK
<1> QED BY <1>2, <1>4, <1>5 DEF TInv

-----------------------------------------------------------------------------
(* Each step keeps the selectors and the requests within their bounds.     *)
LEMMA StepKeepsControls ==
  ASSUME ControlsOK, [Next]_vars
  PROVE  ControlsOK'
<1> DEFINE Sel == org' \in PageOrgs /\ options' \in SUBSET Spaces /\ sel' \in options' \cup {None}
           Show == {cur', shown'} \subseteq Spaces \cup {None}
           Loaded == loading' \in Seq(Fetches) /\ Len(loading') <= MaxLoading
           Rest == dialog' \in PageOrgs \cup {Closed, Leaving} /\ edits' \in 0 .. MaxEdits
<1>1. Sel /\ Show /\ Loaded /\ Rest => ControlsOK'
  BY DEF ControlsOK, PageOrgs, Spaces, Closed, Leaving, Fetches
<1>2. /\ org \in PageOrgs /\ options \in SUBSET Spaces /\ sel \in options \cup {None}
      /\ cur \in Spaces \cup {None} /\ shown \in Spaces \cup {None}
      /\ loading \in Seq(Fetches) /\ Len(loading) <= MaxLoading
      /\ dialog \in PageOrgs \cup {Closed, Leaving} /\ edits \in 0 .. MaxEdits
  BY DEF ControlsOK
<1> HIDE DEF Sel, Show, Loaded, Rest
<1>3. /\ UNCHANGED <<org, options, sel>> => Sel
      /\ UNCHANGED <<cur, shown>> => Show
      /\ UNCHANGED loading => Loaded
      /\ UNCHANGED <<dialog, edits>> => Rest
  BY <1>2 DEF Sel, Show, Loaded, Rest
<1>4. /\ \A o \in PageOrgs \ {None} : SpacesOf(o) \in Fetches
      /\ \A o \in PageOrgs, s \in Spaces : UsersOf(o, s) \in Fetches
  BY DEF Fetches
<1>5. /\ \A f \in Fetches : Request(f) => Loaded
      /\ \A f : Answered(f) => Loaded
  BY <1>2, RequestsOK DEF Loaded
<1>6. ASSUME NEW o \in PageOrgs, SwitchOrg(o), dialog' \in PageOrgs \cup {Closed, Leaving}
      PROVE  ControlsOK'
  <2>1. Sel /\ Show
    BY <1>6 DEF SwitchOrg, Sel, Show
  <2>2. Loaded
    <3>1. UNCHANGED loading \/ (o # None /\ Request(SpacesOf(o)))
      BY <1>6 DEF SwitchOrg
    <3> QED BY <1>3, <1>4, <1>5, <3>1
  <2>3. Rest
    BY <1>2, <1>6 DEF SwitchOrg, Rest
  <2> QED BY <1>1, <2>1, <2>2, <2>3
<1>7. ASSUME NEW o \in PageOrgs, ChooseOrg(o) PROVE ControlsOK'
  BY <1>2, <1>6, <1>7 DEF ChooseOrg
<1>8. CASE ConfirmOrg
  <2>1. dialog \in PageOrgs /\ SwitchOrg(dialog) /\ dialog' = Closed
    BY <1>8 DEF ConfirmOrg
  <2> QED BY <1>6, <2>1
<1>9. ASSUME NEW o \in PageOrgs, AskOrg(o) \/ AskLeave \/ Cancel PROVE ControlsOK'
  <2>1. /\ UNCHANGED <<org, options, sel, cur, shown, loading, edits>>
        /\ dialog' \in PageOrgs \cup {Closed, Leaving}
    BY <1>9 DEF AskOrg, AskLeave, Cancel
  <2>2. Rest
    BY <1>2, <2>1 DEF Rest
  <2> QED BY <1>1, <1>3, <2>1, <2>2
<1>10. ASSUME NEW o \in PageOrgs, SpacesReply(o) \/ SpacesFail(o) PROVE ControlsOK'
  <2>1. /\ options' \in {{}, Content(APISpaces(Files, o))} /\ sel' = None
        /\ Answered(SpacesOf(o)) /\ UNCHANGED <<org, cur, shown, dialog, edits>>
    BY <1>10 DEF SpacesReply, SpacesFail
  <2>2. Sel
    BY <1>2, <2>1 DEF Sel, Spaces
  <2> QED BY <1>1, <1>3, <1>5, <2>1, <2>2
<1>11. CASE ChooseNoSpace
  <2>1. Sel /\ Show
    BY <1>2, <1>11 DEF ChooseNoSpace, Sel, Show
  <2>2. UNCHANGED <<loading, dialog, edits>>
    BY <1>11 DEF ChooseNoSpace
  <2> QED BY <1>1, <1>3, <2>1, <2>2
<1>12. ASSUME NEW s \in Spaces, ChooseSpace(s) PROVE ControlsOK'
  <2>1. /\ s \in options /\ sel' = s /\ cur' = s /\ shown' \in {s, shown}
        /\ UNCHANGED loading \/ Request(UsersOf(org, s))
        /\ UNCHANGED <<org, options, dialog, edits>>
    BY <1>12 DEF ChooseSpace
  <2>2. Sel /\ Show
    BY <1>2, <2>1 DEF Sel, Show
  <2>3. Loaded
    BY <1>2, <1>3, <1>4, <1>5, <2>1
  <2> QED BY <1>1, <1>3, <2>1, <2>2, <2>3
<1>13. ASSUME NEW o \in PageOrgs, NEW s \in Spaces, UsersReply(o, s) \/ UsersFail(o, s)
       PROVE  ControlsOK'
  <2>1. /\ shown' \in {s, shown} /\ Answered(UsersOf(o, s))
        /\ UNCHANGED <<org, options, sel, cur, dialog, edits>>
    BY <1>13 DEF UsersReply, UsersFail
  <2>2. Show
    BY <1>2, <2>1 DEF Show
  <2> QED BY <1>1, <1>3, <1>5, <2>1, <2>2
<1>14. ASSUME NEW t, Edit(t) PROVE ControlsOK'
  <2>1. /\ UNCHANGED <<org, options, sel, cur, shown, loading, dialog>>
        /\ edits < MaxEdits /\ edits' = edits + 1
    BY <1>14 DEF Edit
  <2>2. Rest
    BY <1>2, <2>1, Bounds DEF Rest
  <2> QED BY <1>1, <1>3, <2>1, <2>2
<1>15. CASE Submit \/ Gone \/ UNCHANGED vars
  <2>1. UNCHANGED <<org, options, sel, cur, shown, loading, dialog, edits>>
    BY <1>15 DEF Submit, Gone, vars
  <2> QED BY <1>1, <1>3, <2>1
<1> QED
  BY <1>2, <1>7, <1>8, <1>9, <1>10, <1>11, <1>12, <1>13, <1>14, <1>15 DEF Next

(* Each step keeps the staged tables finitely many and fitting.            *)
LEMMA StepKeepsStaged ==
  ASSUME TablesRight, StagedOK, [Next]_vars
  PROVE  StagedOK'
<1>0. Spaces' = Spaces /\ PageOrigins' = PageOrigins /\ PageRoles' = PageRoles
  BY DEF Spaces, PageOrgs, PageOrigins, PageRoles
<1>1. CASE UNCHANGED staged
  BY <1>0, <1>1 DEF StagedOK
<1>2. CASE staged' = Empty
  <2>1. DOMAIN staged' = {}
    BY <1>2 DEF Empty
  <2> QED BY <2>1, FS_EmptySet DEF StagedOK
<1>3. ASSUME NEW o, ChooseOrg(o) \/ AskOrg(o) \/ SpacesReply(o) \/ SpacesFail(o) \/ ChooseSpace(o)
      PROVE  StagedOK'
  <2>1. UNCHANGED staged \/ staged' = Empty
    BY <1>3 DEF ChooseOrg, SwitchOrg, AskOrg, SpacesReply, SpacesFail, ChooseSpace
  <2> QED BY <1>1, <1>2, <2>1
<1>4. CASE ConfirmOrg \/ AskLeave \/ Cancel \/ ChooseNoSpace \/ Submit \/ Gone \/ UNCHANGED vars
  <2>1. UNCHANGED staged \/ staged' = Empty
    BY <1>4 DEF ConfirmOrg, SwitchOrg, AskLeave, Cancel, ChooseNoSpace, Submit, Gone, vars
  <2> QED BY <1>1, <1>2, <2>1
<1>5. ASSUME NEW o, NEW s, UsersFail(o, s) PROVE StagedOK'
  BY <1>1, <1>5 DEF UsersFail
<1>6. ASSUME NEW o \in PageOrgs, NEW s \in Spaces, UsersReply(o, s) PROVE StagedOK'
  <2> DEFINE table == Load(o, APISpaceUsers(Files, o, s))
  <2>1. Fits(table, PageOrigins, PageRoles) /\ staged' = InitSpace(staged, s, table)
    BY <1>6, ReplyFits DEF UsersReply
  <2> HIDE DEF table
  <2>2. /\ DOMAIN staged' = DOMAIN staged \cup {s}
        /\ \A t \in DOMAIN staged : staged'[t] = staged[t]
        /\ s \notin DOMAIN staged => staged'[s] = table
    BY <2>1 DEF InitSpace
  <2>3. IsFiniteSet(DOMAIN staged') /\ DOMAIN staged' \subseteq Spaces
    BY <2>2, FS_AddElement DEF StagedOK
  <2>4. ASSUME NEW t \in DOMAIN staged' PROVE Fits(staged'[t], PageOrigins, PageRoles)
    BY <2>1, <2>2 DEF StagedOK
  <2> QED BY <1>0, <2>3, <2>4 DEF StagedOK
<1>7. ASSUME NEW t \in Edits(staged[cur], Newcomers, PageOrigins, PageRoles), cur \in DOMAIN staged,
             Edit(t)
      PROVE  StagedOK'
  <2>1. TableOK(staged[cur], APISpaceUsers(Files, staged[cur].from, cur), PageOrigins)
    BY <1>7 DEF TablesRight
  <2>2. Fits(staged[cur], PageOrigins, PageRoles)
    BY <1>7 DEF StagedOK
  <2>3. Fits(t, PageOrigins, PageRoles)
    BY <1>7, <2>1, <2>2, EditFits, NewcomersNamed
  <2>4. /\ DOMAIN staged' = DOMAIN staged
        /\ \A s \in DOMAIN staged : staged'[s] = IF s = cur THEN t ELSE staged[s]
    BY <1>7 DEF Edit
  <2>5. ASSUME NEW s \in DOMAIN staged' PROVE Fits(staged'[s], PageOrigins, PageRoles)
    BY <2>3, <2>4 DEF StagedOK
  <2> QED BY <1>0, <2>4, <2>5 DEF StagedOK
<1> QED BY <1>3, <1>4, <1>5, <1>6, <1>7 DEF Next

(* What is posted is a good batch for each of some spaces.                 *)
LEMMA StepKeepsPost ==
  ASSUME TInv, [Next]_vars
  PROVE  PostOK'
<1>0. /\ Spaces' = Spaces /\ PageOrigins' = PageOrigins /\ PageRoles' = PageRoles
      /\ PageOrgs' = PageOrgs /\ Nothing' = Nothing
  BY DEF Spaces, PageOrgs, PageOrigins, PageRoles, Nothing
<1>1. CASE UNCHANGED submitted
  BY <1>0, <1>1 DEF PostOK, TInv
<1>2. CASE Submit
  <2> DEFINE changes == AllChanges(staged)
             posted == {t \in DOMAIN staged : ComputeOps(staged[t]) # {}}
             change == [s \in posted |-> [space |-> s, ops |-> ComputeOps(staged[s])]]
  <2>1. submitted' = [org |-> org, changes |-> changes] /\ changes # {}
    BY <1>2 DEF Submit, HasOps
  <2>2. submitted'.org = org /\ submitted'.changes = changes /\ org \in PageOrgs
    BY <2>1 DEF TInv, ControlsOK
  <2>3. \A c \in changes : /\ c.space \in DOMAIN staged /\ c.ops # {}
                           /\ c = [space |-> c.space, ops |-> ComputeOps(staged[c.space])]
    BY DEF AllChanges
  <2>4. IsFiniteSet(changes)
    <3>1. IsFiniteSet(posted)
      BY FS_Subset DEF TInv, StagedOK
    <3>2. change \in Surjection(posted, changes)
      BY DEF Surjection, AllChanges
    <3> HIDE DEF change, posted, changes
    <3> QED BY <3>1, <3>2, FS_Surjection
  <2>5. ASSUME NEW s \in DOMAIN staged
        PROVE  s \in Spaces /\ GoodBatch(ComputeOps(staged[s]), PageRoles, PageOrigins)
    <3>1. /\ TableOK(staged[s], APISpaceUsers(Files, staged[s].from, s), PageOrigins)
          /\ s \in Spaces /\ Fits(staged[s], PageOrigins, PageRoles)
      BY DEF TInv, TablesRight, StagedOK
    <3> QED BY <3>1, RolesFinite, OpsGood
  <2> HIDE DEF changes
  <2>6. \A c \in changes : /\ c.space \in Spaces /\ c.ops # {}
                           /\ GoodBatch(c.ops, PageRoles, PageOrigins)
    <3> SUFFICES ASSUME NEW c \in changes
                 PROVE  /\ c.space \in Spaces /\ c.ops # {}
                        /\ GoodBatch(c.ops, PageRoles, PageOrigins)
      OBVIOUS
    <3>1. c.ops = ComputeOps(staged[c.space]) /\ c.space \in DOMAIN staged /\ c.ops # {}
      BY <2>3
    <3> QED BY <2>5, <3>1
  <2>7. \A c, d \in changes : c.space = d.space => c = d
    BY <2>3
  <2> QED BY <1>0, <2>1, <2>2, <2>4, <2>6, <2>7 DEF PostOK
<1>3. ASSUME NEW o, ChooseOrg(o) \/ AskOrg(o) \/ SpacesReply(o) \/ SpacesFail(o) \/ ChooseSpace(o)
      PROVE  UNCHANGED submitted
  BY <1>3 DEF ChooseOrg, SwitchOrg, AskOrg, SpacesReply, SpacesFail, ChooseSpace
<1>4. ASSUME ConfirmOrg \/ AskLeave \/ Cancel \/ ChooseNoSpace \/ Gone \/ UNCHANGED vars
      PROVE  UNCHANGED submitted
  BY <1>4 DEF ConfirmOrg, SwitchOrg, AskLeave, Cancel, ChooseNoSpace, Gone, vars
<1>5. ASSUME NEW o, NEW s, UsersReply(o, s) \/ UsersFail(o, s) PROVE UNCHANGED submitted
  BY <1>5 DEF UsersReply, UsersFail
<1>6. ASSUME NEW t, Edit(t) PROVE UNCHANGED submitted
  BY <1>6 DEF Edit
<1> QED BY <1>1, <1>2, <1>3, <1>4, <1>5, <1>6 DEF Next

-----------------------------------------------------------------------------
LEMMA StepKeepsTInv == TInv /\ [Next]_vars => TInv'
BY StepKeepsTables, StepKeepsControls, StepKeepsStaged, StepKeepsPost DEF TInv

(* TypeOK: the selectors, the tables' rows, the requests and the dialog    *)
(* stay what the page's script can make of them.                           *)
THEOREM StagingTypeCorrect == Spec => []TypeOK
<1>1. TInv => TypeOK
  <2> SUFFICES ASSUME TInv PROVE TypeOK
    OBVIOUS
  <2>1. ASSUME NEW s \in DOMAIN staged
        PROVE  /\ staged[s].from \in PageOrgs
               /\ DOMAIN staged[s].state = Rows(staged[s]) /\ staged[s].removed \subseteq Rows(staged[s])
               /\ \A u \in Rows(staged[s]) : {staged[s].original[u], staged[s].state[u]} \subseteq Row
    <3>1. staged[s].from \in PageOrgs /\ TableType(staged[s], PageOrigins)
      BY DEF TInv, TablesRight, TableOK
    <3>2. /\ staged[s].original \in [Rows(staged[s]) -> Row]
          /\ staged[s].state \in [Rows(staged[s]) -> Row]
          /\ staged[s].removed \subseteq Rows(staged[s])
      BY <3>1 DEF TableType, Row
    <3> QED BY <3>1, <3>2
  <2>2. submitted.org \in PageOrgs
    <3>1. submitted = Nothing => submitted.org = None
      BY DEF Nothing
    <3> QED BY <3>1 DEF TInv, PostOK, PageOrgs
  <2> QED BY <2>1, <2>2 DEF TInv, StagedOK, ControlsOK, TypeOK
<1> QED BY <1>1, InitHasTInv, StepKeepsTInv, PTL DEF Spec

(* What is posted, as the handler reads it: nothing is dropped or joined.  *)
LEMMA ChangesRead ==
  ASSUME PostOK, submitted # Nothing
  PROVE  /\ DOMAIN PostedChanges # {} /\ ParseSpaceChanges(PostedChanges) = PostedChanges
         /\ \A i \in DOMAIN PostedChanges : \E c \in submitted.changes :
              PostedChanges[i].space = c.space /\ PostedChanges[i].ops = Listing(c.ops)
<1> DEFINE changes == submitted.changes
           some == Listing(changes)
           N == Cardinality(changes)
           said(c) == [space |-> c.space, ops |-> Listing(c.ops)]
           T == {said(c) : c \in changes}
<1>1. /\ IsFiniteSet(changes) /\ changes # {}
      /\ \A c \in changes : c.space \in Spaces /\ IsFiniteSet(c.ops) /\ c.ops # {}
      /\ \A c, d \in changes : c.space = d.space => c = d
  BY DEF PostOK, GoodBatch
<1> HIDE DEF changes
<1>2. /\ N \in Nat /\ N # 0 /\ some \in [1 .. N -> changes]
      /\ \A i, j \in 1 .. N : some[i] = some[j] => i = j
  BY <1>1, ListingDef, FS_EmptySet
<1> HIDE DEF some, N
<1>3. PostedChanges = [i \in 1 .. N |-> said(some[i])]
  BY <1>2 DEF PostedChanges, changes, some
<1>4. PostedChanges \in Seq(T) /\ Len(PostedChanges) = N /\ DOMAIN PostedChanges = 1 .. N
  BY <1>2, <1>3
<1>5. ASSUME NEW i \in 1 .. N
      PROVE  /\ some[i] \in changes /\ PostedChanges[i].space = some[i].space
             /\ PostedChanges[i].ops = Listing(some[i].ops)
  BY <1>2, <1>3
<1>6. \A c \in changes : c.space # "" /\ Listing(c.ops) # <<>>
  BY <1>1, NamesValid, ListingNotEmpty DEF None
<1>7. GoodChanges(PostedChanges, T)
  <2>1. \A i \in 1 .. N : PostedChanges[i].space # "" /\ PostedChanges[i].ops # <<>>
    BY <1>5, <1>6
  <2>2. ASSUME NEW i \in 1 .. N, NEW j \in 1 .. N, PostedChanges[i].space = PostedChanges[j].space
        PROVE  i = j
    BY <1>1, <1>2, <1>5, <2>2
  <2> QED BY <1>4, <2>1, <2>2 DEF GoodChanges
<1>8. ParseSpaceChanges(PostedChanges) = PostedChanges
  <2> HIDE DEF T
  <2> QED BY <1>7, ParseOfGood
<1>9. DOMAIN PostedChanges # {}
  <2>1. 1 \in 1 .. N
    BY <1>2
  <2> QED BY <1>4, <2>1
<1> QED BY <1>4, <1>5, <1>8, <1>9 DEF changes

(* A batch of one space, as the handler runs it.                           *)
LEMMA BatchAccepted ==
  ASSUME NEW ops, GoodBatch(ops, PageRoles, PageOrigins), NEW file
  PROVE  LET batch == Batch(file, Listing(ops), SpaceRoles, Origins)
         IN  /\ batch.file = file /\ batch.valid
             /\ batch.add \cap batch.del = {}
             /\ batch.add \cup batch.del = {op.line : op \in ops}
<1>1. GoodBatch(ops, SpaceRoles, Origins)
  <2>1. \A op \in ops : ValidOp(op, PageRoles, PageOrigins) => ValidOp(op, SpaceRoles, Origins)
    BY ListsAccepted DEF ValidOp
  <2> QED BY <2>1 DEF GoodBatch
<1> DEFINE batch == Batch(file, Listing(ops), SpaceRoles, Origins)
<1>2. /\ batch.file = file /\ batch.valid
      /\ batch.add = LinesOf(ops, "add") /\ batch.del = LinesOf(ops, "remove")
  <2> DEFINE roles == SpaceRoles
             origins == Origins
  <2>1. GoodBatch(ops, roles, origins)
    BY <1>1
  <2> HIDE DEF roles, origins
  <2>2. LET b == Batch(file, Listing(ops), roles, origins)
        IN  /\ b.file = file /\ b.valid
            /\ b.add = LinesOf(ops, "add") /\ b.del = LinesOf(ops, "remove")
    BY <2>1, BatchOfListing
  <2> QED BY <2>2 DEF roles, origins
<1> HIDE DEF batch
<1>3. \A o, p \in ops : o.line = p.line => o = p
  BY DEF GoodBatch
<1>4. \A op \in ops : op.action \in {"add", "remove"}
  BY DEF GoodBatch, ValidOp
<1>5. LinesOf(ops, "add") \cap LinesOf(ops, "remove") = {}
  BY <1>3 DEF LinesOf
<1>6. LinesOf(ops, "add") \cup LinesOf(ops, "remove") = {op.line : op \in ops}
  BY <1>4 DEF LinesOf
<1> QED BY <1>2, <1>5, <1>6 DEF batch

(* What the page posts for an org is a form that handleManageUsers runs:   *)
(* valid, and each posted line written or deleted (computeOpsFor,          *)
(* allChanges, parseSpaceChanges, ApplySpaceUserOps).                      *)
THEOREM StagingPostAccepted == Spec => []PostAccepted
<1>1. TInv => PostAccepted
  <2> DEFINE form == ManageUsers("user", TRUE, submitted.org, PostedChanges)
             sent == PostedChanges
             edit(i) == Batch(SpaceConfig(submitted.org, sent[i].space), sent[i].ops, SpaceRoles, Origins)
  <2> SUFFICES ASSUME TInv, submitted.org # None
               PROVE  /\ form.edits # <<>>
                      /\ \A i \in DOMAIN form.edits :
                           /\ form.edits[i].valid
                           /\ form.edits[i].file[1] = submitted.org
                           /\ form.edits[i].add \cap form.edits[i].del = {}
                           /\ form.edits[i].add \cup form.edits[i].del =
                                UNION {{op.line : op \in c.ops} :
                                         c \in {d \in submitted.changes :
                                                  SpaceConfig(submitted.org, d.space) = form.edits[i].file}}
    BY DEF PostAccepted
  <2>1. submitted # Nothing /\ PostOK
    BY DEF Nothing, TInv
  <2>2. /\ DOMAIN sent # {} /\ ParseSpaceChanges(sent) = sent
        /\ \A i \in DOMAIN sent : \E c \in submitted.changes :
             sent[i].space = c.space /\ sent[i].ops = Listing(c.ops)
    BY <2>1, ChangesRead
  <2>3. ValidPathSegment(submitted.org) /\ \A i \in DOMAIN sent : ValidPathSegment(sent[i].space)
    BY <2>1, <2>2, OrgsValid, NamesValid DEF PostOK
  <2>4. form.edits = [i \in DOMAIN sent |-> edit(i)]
    <3> HIDE DEF sent
    <3> QED BY <2>2, <2>3 DEF ManageUsers, Post, Unless, sent
  <2> HIDE DEF form, sent
  <2>5. form.edits # <<>> /\ DOMAIN form.edits = DOMAIN sent
    BY <2>2, <2>4
  <2>6. ASSUME NEW i \in DOMAIN form.edits
        PROVE  /\ form.edits[i].valid
               /\ form.edits[i].file[1] = submitted.org
               /\ form.edits[i].add \cap form.edits[i].del = {}
               /\ form.edits[i].add \cup form.edits[i].del =
                    UNION {{op.line : op \in c.ops} :
                             c \in {d \in submitted.changes :
                                      SpaceConfig(submitted.org, d.space) = form.edits[i].file}}
    <3> DEFINE file == SpaceConfig(submitted.org, sent[i].space)
    <3>1. PICK c \in submitted.changes : sent[i].space = c.space /\ sent[i].ops = Listing(c.ops)
      BY <2>2, <2>5
    <3>2. GoodBatch(c.ops, PageRoles, PageOrigins)
      BY <2>1 DEF PostOK
    <3>3. form.edits[i] = Batch(file, Listing(c.ops), SpaceRoles, Origins)
      BY <2>4, <2>5, <3>1
    <3>4. {d \in submitted.changes : SpaceConfig(submitted.org, d.space) = file} = {c}
      <4>1. \A d \in submitted.changes : SpaceConfig(submitted.org, d.space) = file <=> d.space = c.space
        <5>1. \A d \in submitted.changes : ValidPathSegment(d.space)
          BY <2>1, NamesValid DEF PostOK
        <5>2. \A d \in submitted.changes :
                SpaceConfig(submitted.org, d.space) = <<submitted.org, d.space, "spaceConfig.yml">>
          BY <2>3, <5>1, PathOfSegments DEF SpaceConfig
        <5> QED BY <3>1, <5>2
      <4>2. \A d \in submitted.changes : d.space = c.space => d = c
        BY <2>1 DEF PostOK
      <4> QED BY <4>1, <4>2
    <3>7. file[1] = submitted.org
      BY <2>3, <2>5, PathOfSegments DEF SpaceConfig
    <3> HIDE DEF file
    <3>5. /\ form.edits[i].file = file /\ form.edits[i].valid
          /\ form.edits[i].add \cap form.edits[i].del = {}
          /\ form.edits[i].add \cup form.edits[i].del = {op.line : op \in c.ops}
      BY <3>2, <3>3, BatchAccepted
    <3>6. UNION {{op.line : op \in d.ops} : d \in {c}} = {op.line : op \in c.ops}
      OBVIOUS
    <3> QED BY <3>4, <3>5, <3>6, <3>7
  <2> QED BY <2>5, <2>6
<1> QED BY <1>1, InitHasTInv, StepKeepsTInv, PTL DEF Spec
=============================================================================
