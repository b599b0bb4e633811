----------------------------- MODULE AuthzProofs -----------------------------
(***************************************************************************)
(* What a grant rests on, for any callers, accounts, orgs and changes of   *)
(* the outside world.  The inductive invariant says that what a caller has *)
(* found is among the facts of its time, and that the facts of its time    *)
(* include the present ones, so that the last lookup decides for all.      *)
(***************************************************************************)
EXTENDS Authz, TLAPS

Named(c) == {o \in OrgIds : names[o] = OrgOf[c]}

\* The outside world is as it is typed, and a caller's past has the present.
WorldOK ==
  /\ names \in [OrgIds -> OrgNames]
  /\ roles \subseteq Accounts \X OrgIds /\ members \subseteq Accounts \X Groups

CallersOK ==
  /\ step \in [Callers -> Steps \cup {"new", "end"}]
  /\ outcome \in [Callers -> {"none", "granted", "refused"}]
  /\ found \in [Callers -> [org : OrgIds \cup {Nobody}, account : Accounts \cup {Nobody}]]
  /\ past \in [Callers -> Facts]
  /\ \A c \in Callers : outcome[c] # "none" <=> step[c] = "end"

PastHasPresent ==
  \A c \in Callers : step[c] # "new" =>
    Named(c) \subseteq past[c].named /\ roles \subseteq past[c].held
    /\ members \subseteq past[c].members

FoundInPast ==
  \A c \in Callers :
    /\ step[c] \in {"user", "role"} => found[c].org \in past[c].named
    /\ step[c] = "role" => found[c].account \in UserGUIDs(UserOf[c])

IInv == WorldOK /\ CallersOK /\ PastHasPresent /\ FoundInPast /\ GrantBacked

-----------------------------------------------------------------------------
(* Observing the world adds the present facts and forgets none.            *)
LEMMA ObserveGrows ==
  ASSUME NEW c, NEW facts \in Facts,
         names' \in [OrgIds -> OrgNames],
         roles' \subseteq Accounts \X OrgIds, members' \subseteq Accounts \X Groups
  PROVE  /\ Observe(c, facts) \in Facts
         /\ Observe(c, facts).named = facts.named \cup {o \in OrgIds : names'[o] = OrgOf[c]}
         /\ Observe(c, facts).held = facts.held \cup roles'
         /\ Observe(c, facts).members = facts.members \cup members'
BY DEF Observe, Remember, Facts

(* A member of an admin group by UserGroups is one by the memberships.     *)
LEMMA AdminMember ==
  ASSUME NEW u, InAdminGroup(u)
  PROVE  \E m \in members : NameOf[m[1]] = u /\ m[2] \in AdminGroups
BY DEF InAdminGroup, UserGroups

(* What ending and moving on do to the callers' variables.                 *)
LEMMA EndTypes ==
  ASSUME CallersOK, NEW c \in Callers, step[c] # "end",
         NEW result \in {"granted", "refused"}, End(c, result),
         UNCHANGED <<found, past>>
  PROVE  /\ CallersOK'
         /\ step' = [step EXCEPT ![c] = "end"] /\ outcome' = [outcome EXCEPT ![c] = result]
BY DEF End, Goto, CallersOK, Steps

LEMMA GotoTypes ==
  ASSUME CallersOK, NEW c \in Callers, step[c] # "end",
         NEW s \in Steps, Goto(c, s), UNCHANGED <<outcome, past>>,
         found' \in [Callers -> [org : OrgIds \cup {Nobody}, account : Accounts \cup {Nobody}]]
  PROVE  /\ CallersOK'
         /\ step' = [step EXCEPT ![c] = s]
BY DEF Goto, CallersOK, Steps

(* A refusal keeps the invariant, and so does moving on without a result.  *)
LEMMA RefusalKeepsIInv ==
  ASSUME IInv, NEW c \in Callers, step[c] \in Steps, End(c, "refused"),
         UNCHANGED <<found, past, world>>
  PROVE  IInv'
<1>1. CallersOK' /\ step' = [step EXCEPT ![c] = "end"]
      /\ outcome' = [outcome EXCEPT ![c] = "refused"]
  BY EndTypes DEF IInv, Steps
<1> QED BY <1>1 DEF IInv, WorldOK, CallersOK, PastHasPresent, FoundInPast, GrantBacked, Named,
              UserGUIDs, Steps, world

LEMMA ToOrgKeepsIInv ==
  ASSUME IInv, NEW c \in Callers, step[c] \in Steps, Goto(c, "org"),
         UNCHANGED <<outcome, found, past, world>>
  PROVE  IInv'
<1>1. CallersOK' /\ step' = [step EXCEPT ![c] = "org"]
  BY GotoTypes DEF IInv, Steps, CallersOK
<1> QED BY <1>1 DEF IInv, WorldOK, CallersOK, PastHasPresent, FoundInPast, GrantBacked, Named,
              UserGUIDs, Steps, world

LEMMA FailureKeepsIInv ==
  ASSUME IInv, NEW c \in Callers, step[c] \in Steps, Failed(c),
         UNCHANGED <<found, past, world>>
  PROVE  IInv'
<1>1. CASE step[c] = "groups" /\ OrgOf[c] # NoOrg
  BY <1>1, ToOrgKeepsIInv DEF Failed, RoleLookups
<1>2. CASE step[c] # "groups" \/ OrgOf[c] = NoOrg
  BY <1>2, RefusalKeepsIInv DEF Failed, RoleLookups
<1> QED BY <1>1, <1>2

-----------------------------------------------------------------------------
LEMMA InitHasIInv == Init => IInv
  BY AuthzAssumption DEF Init, IInv, WorldOK, CallersOK, PastHasPresent, FoundInPast,
     GrantBacked, NothingFound, NoFacts, Facts, Steps

(* The start of a caller, which observes the world for the first time.     *)
LEMMA StartKeepsIInv ==
  ASSUME IInv, NEW c \in Callers, Start(c)
  PROVE  IInv'
<1>1. /\ step[c] = "new" /\ UNCHANGED <<found, world>>
      /\ past' = [past EXCEPT ![c] = Observe(c, past[c])]
  BY DEF Start
<1>2. /\ Observe(c, past[c]) \in Facts
      /\ Observe(c, past[c]).named = past[c].named \cup {o \in OrgIds : names'[o] = OrgOf[c]}
      /\ Observe(c, past[c]).held = past[c].held \cup roles'
      /\ Observe(c, past[c]).members = past[c].members \cup members'
  BY <1>1, ObserveGrows DEF IInv, WorldOK, CallersOK, world
<1>3. WorldOK'
  BY <1>1 DEF IInv, WorldOK, world
<1>4. \/ /\ step' = [step EXCEPT ![c] = "end"]
         /\ outcome' = [outcome EXCEPT ![c] = "granted"]
         /\ UserOf[c] \in AdminUsers
      \/ /\ step' = [step EXCEPT ![c] = "end"]
         /\ outcome' = [outcome EXCEPT ![c] = "refused"]
      \/ step' = [step EXCEPT ![c] = "groups"] /\ outcome' = outcome
      \/ step' = [step EXCEPT ![c] = "org"] /\ outcome' = outcome
  BY DEF Start, End, Goto, RoleLookups
<1>5. CallersOK'
  BY <1>1, <1>2, <1>4 DEF IInv, CallersOK, Steps
<1>6. PastHasPresent'
  BY <1>1, <1>2, <1>4 DEF IInv, CallersOK, PastHasPresent, Named, world
<1>7. FoundInPast'
  BY <1>1, <1>2, <1>4 DEF IInv, CallersOK, FoundInPast, UserGUIDs
<1>8. GrantBacked'
  BY <1>1, <1>2, <1>4 DEF IInv, CallersOK, GrantBacked
<1> QED BY <1>3, <1>5, <1>6, <1>7, <1>8 DEF IInv

(* A reply of one of the services.                                         *)
LEMMA ReplyKeepsIInv ==
  ASSUME IInv, NEW c \in Callers, Reply(c)
  PROVE  IInv'
<1>1. CASE GroupsReply(c)
  <2>1. step[c] = "groups" /\ UNCHANGED <<found, past, world>>
    BY <1>1 DEF GroupsReply
  <2>2. CASE InAdminGroup(UserOf[c])
    <3>1. End(c, "granted")
      BY <1>1, <2>2 DEF GroupsReply
    <3>2. CallersOK' /\ step' = [step EXCEPT ![c] = "end"]
          /\ outcome' = [outcome EXCEPT ![c] = "granted"]
      BY <2>1, <3>1, EndTypes DEF IInv
    <3>3. \E m \in past[c].members : NameOf[m[1]] = UserOf[c] /\ m[2] \in AdminGroups
      BY <2>1, <2>2, AdminMember DEF IInv, PastHasPresent
    <3> QED BY <2>1, <3>2, <3>3 DEF IInv, WorldOK, CallersOK, PastHasPresent, FoundInPast,
                  GrantBacked, Named, UserGUIDs, world
  <2>3. CASE ~InAdminGroup(UserOf[c])
    <3>1. step[c] \in Steps /\ Failed(c)
      BY <1>1, <2>1, <2>3 DEF GroupsReply, Failed, Steps
    <3> QED BY <2>1, <3>1, FailureKeepsIInv
  <2> QED BY <2>2, <2>3
<1>2. CASE OrgReply(c)
  <2>1. step[c] = "org" /\ UNCHANGED <<past, world>>
    BY <1>2 DEF OrgReply
  <2>2. CASE OrgGUIDs(OrgOf[c]) = {}
    BY <1>2, <2>1, <2>2, RefusalKeepsIInv DEF OrgReply, Steps
  <2>3. CASE OrgGUIDs(OrgOf[c]) # {}
    <3>1. PICK o \in OrgGUIDs(OrgOf[c]) : found' = [found EXCEPT ![c].org = o]
      BY <1>2, <2>3 DEF OrgReply
    <3>2. o \in OrgIds /\ o \in past[c].named
      BY <2>1 DEF OrgGUIDs, IInv, PastHasPresent, Named
    <3>3. found' \in [Callers -> [org : OrgIds \cup {Nobody}, account : Accounts \cup {Nobody}]]
      BY <3>1, <3>2 DEF IInv, CallersOK
    <3>4. Goto(c, "user") /\ UNCHANGED outcome
      BY <1>2, <2>3 DEF OrgReply
    <3>5. CallersOK' /\ step' = [step EXCEPT ![c] = "user"]
      BY <2>1, <3>3, <3>4, GotoTypes DEF IInv, Steps
    <3>6. found'[c].org = o /\ \A d \in Callers \ {c} : found'[d] = found[d]
      BY <3>1 DEF IInv, CallersOK
    <3>7. FoundInPast'
      BY <2>1, <3>2, <3>5, <3>6 DEF IInv, CallersOK, FoundInPast, UserGUIDs
    <3> QED BY <2>1, <3>4, <3>5, <3>7 DEF IInv, WorldOK, CallersOK, PastHasPresent,
                  GrantBacked, Named, world
  <2> QED BY <2>2, <2>3
<1>3. CASE UserReply(c)
  <2>1. step[c] = "user" /\ UNCHANGED <<past, world>>
    BY <1>3 DEF UserReply
  <2>2. CASE UserGUIDs(UserOf[c]) = {}
    BY <1>3, <2>1, <2>2, RefusalKeepsIInv DEF UserReply, Steps
  <2>3. CASE UserGUIDs(UserOf[c]) # {}
    <3>1. PICK a \in UserGUIDs(UserOf[c]) : found' = [found EXCEPT ![c].account = a]
      BY <1>3, <2>3 DEF UserReply
    <3>2. a \in Accounts
      BY DEF UserGUIDs
    <3>3. found' \in [Callers -> [org : OrgIds \cup {Nobody}, account : Accounts \cup {Nobody}]]
      BY <3>1, <3>2 DEF IInv, CallersOK
    <3>4. Goto(c, "role") /\ UNCHANGED outcome
      BY <1>3, <2>3 DEF UserReply
    <3>5. CallersOK' /\ step' = [step EXCEPT ![c] = "role"]
      BY <2>1, <3>3, <3>4, GotoTypes DEF IInv, Steps
    <3>6. /\ found'[c].account = a /\ found'[c].org = found[c].org
          /\ \A d \in Callers \ {c} : found'[d] = found[d]
      BY <3>1 DEF IInv, CallersOK
    <3>7. FoundInPast'
      BY <2>1, <3>1, <3>5, <3>6 DEF IInv, CallersOK, FoundInPast, UserGUIDs
    <3> QED BY <2>1, <3>4, <3>5, <3>7 DEF IInv, WorldOK, CallersOK, PastHasPresent,
                  GrantBacked, Named, world
  <2> QED BY <2>2, <2>3
<1>4. CASE RoleReply(c)
  <2>1. step[c] = "role" /\ UNCHANGED <<found, past, world>>
    BY <1>4 DEF RoleReply
  <2>2. CASE HasRole(found[c].account, found[c].org)
    <3> DEFINE h == <<found[c].account, found[c].org>>
    <3>1. End(c, "granted")
      BY <1>4, <2>2 DEF RoleReply
    <3>2. CallersOK' /\ step' = [step EXCEPT ![c] = "end"]
          /\ outcome' = [outcome EXCEPT ![c] = "granted"]
      BY <2>1, <3>1, EndTypes DEF IInv
    <3>3. /\ h \in past[c].held /\ NameOf[h[1]] = UserOf[c] /\ OriginOf[h[1]] = "ldap"
          /\ h[2] \in past[c].named
      BY <2>1, <2>2 DEF HasRole, IInv, PastHasPresent, FoundInPast, UserGUIDs
    <3> HIDE DEF h
    <3> QED BY <2>1, <3>2, <3>3 DEF IInv, WorldOK, CallersOK, PastHasPresent, FoundInPast,
                  GrantBacked, Named, UserGUIDs, world
  <2>3. CASE ~HasRole(found[c].account, found[c].org)
    BY <1>4, <2>1, <2>3, RefusalKeepsIInv DEF RoleReply, Steps
  <2> QED BY <2>2, <2>3
<1>5. CASE CallFails(c)
  BY <1>5, FailureKeepsIInv DEF CallFails
<1> QED BY <1>1, <1>2, <1>3, <1>4, <1>5 DEF Reply

(* A change of the outside world joins the past of those who have started. *)
LEMMA WorldKeepsIInv ==
  ASSUME IInv, WorldOK', WorldChanges
  PROVE  IInv'
<1>1. /\ UNCHANGED <<step, found, outcome>>
      /\ past' = [c \in Callers |-> IF step[c] = "new" THEN past[c] ELSE Observe(c, past[c])]
  BY DEF WorldChanges, callers
<1>2. ASSUME NEW c \in Callers
      PROVE  /\ Observe(c, past[c]) \in Facts
             /\ Observe(c, past[c]).named = past[c].named \cup {o \in OrgIds : names'[o] = OrgOf[c]}
             /\ Observe(c, past[c]).held = past[c].held \cup roles'
             /\ Observe(c, past[c]).members = past[c].members \cup members'
  BY <1>2, ObserveGrows DEF IInv, WorldOK, CallersOK
<1>3. CallersOK'
  BY <1>1, <1>2 DEF IInv, CallersOK
<1>4. PastHasPresent'
  BY <1>1, <1>2 DEF PastHasPresent, Named
<1>5. \A c \in Callers : /\ past[c].named \subseteq past'[c].named
                         /\ past[c].held \subseteq past'[c].held
                         /\ past[c].members \subseteq past'[c].members
  BY <1>1, <1>2
<1>6. FoundInPast'
  BY <1>1, <1>5 DEF IInv, FoundInPast, UserGUIDs
<1>7. GrantBacked'
  BY <1>1, <1>5 DEF IInv, GrantBacked
<1> QED BY <1>3, <1>4, <1>6, <1>7 DEF IInv

LEMMA StepKeepsIInv == IInv /\ [Next]_vars => IInv'
<1> SUFFICES ASSUME IInv, [Next]_vars PROVE IInv'
  OBVIOUS
<1>1. ASSUME NEW c \in Callers, Start(c) PROVE IInv'
  BY <1>1, StartKeepsIInv
<1>2. ASSUME NEW c \in Callers, TokenFails(c) PROVE IInv'
  BY <1>2, FailureKeepsIInv DEF TokenFails, Fetching
<1>3. ASSUME NEW c \in Callers, Reply(c) PROVE IInv'
  BY <1>3, ReplyKeepsIInv
<1>4. ASSUME UNCHANGED <<step, found, outcome, world, past>> PROVE IInv'
  BY <1>4 DEF IInv, WorldOK, CallersOK, PastHasPresent, FoundInPast, GrantBacked, Named,
     UserGUIDs, world
<1>5. ASSUME NEW c \in Callers, Acquire(c) \/ TokenFetched(c) PROVE IInv'
  BY <1>4, <1>5 DEF Acquire, TokenFetched
<1>6. CASE TokenExpires
  BY <1>4, <1>6 DEF TokenExpires, callers
<1>7. ASSUME NEW o \in OrgIds, NEW name \in NewNames, Rename(o, name) PROVE IInv'
  BY <1>7, WorldKeepsIInv, AuthzAssumption DEF Rename, IInv, WorldOK
<1>8. ASSUME NEW a \in Accounts, NEW o \in OrgIds, RoleChange(a, o) PROVE IInv'
  BY <1>8, WorldKeepsIInv DEF RoleChange, Toggled, IInv, WorldOK
<1>9. ASSUME NEW a \in Accounts, NEW g \in Groups, MemberChange(a, g) PROVE IInv'
  BY <1>9, WorldKeepsIInv DEF MemberChange, Toggled, IInv, WorldOK
<1>10. CASE UNCHANGED vars
  BY <1>4, <1>10 DEF vars, callers
<1> QED
  BY <1>1, <1>2, <1>3, <1>5, <1>6, <1>7, <1>8, <1>9, <1>10 DEF Next, AllDone

(* Every grant goes back to a list, a membership or an ldap role on an org *)
(* of the name, each of which held since the request arrived               *)
(* (verifyOrgManager, UserGroups, UserHasOrgRole).                         *)
THEOREM AuthzGrantBacked == Spec => []GrantBacked
<1>1. IInv => GrantBacked BY DEF IInv
<1> QED BY <1>1, InitHasIInv, StepKeepsIInv, PTL DEF Spec

-----------------------------------------------------------------------------
(* The token source and the bound on changes.                              *)
ClientOK ==
  /\ token \in BOOLEAN /\ mutex \in Callers \cup {Free}
  /\ at \in [Callers -> {"token", "fetch", "call"}]
  /\ changes \in 0 .. MaxChanges

(* No step takes these out of their types. *)
LEMMA StepKeepsClientOK == ClientOK /\ [Next]_vars => ClientOK'
<1> SUFFICES ASSUME ClientOK, [Next]_vars PROVE ClientOK'
  OBVIOUS
<1>1. ASSUME NEW c \in Callers, mutex' \in {mutex, Free}, UNCHANGED <<token, changes>>,
             UNCHANGED at \/ at' = [at EXCEPT ![c] = "token"]
      PROVE  ClientOK'
  BY <1>1 DEF ClientOK
<1>2. ASSUME NEW c \in Callers, Failed(c) PROVE UNCHANGED at \/ at' = [at EXCEPT ![c] = "token"]
  BY <1>2 DEF Failed, RoleLookups, End, Goto
<1>3. ASSUME NEW c \in Callers, Start(c) PROVE ClientOK'
  BY <1>1, <1>3 DEF Start, RoleLookups, End, Goto, client
<1>4. ASSUME NEW c \in Callers, Acquire(c) \/ TokenFetched(c) PROVE ClientOK'
  BY <1>4 DEF Acquire, TokenFetched, ClientOK
<1>5. ASSUME NEW c \in Callers, TokenFails(c) \/ CallFails(c) PROVE ClientOK'
  BY <1>1, <1>2, <1>5 DEF TokenFails, CallFails, client
<1>6. ASSUME NEW c \in Callers, GroupsReply(c) PROVE ClientOK'
  BY <1>1, <1>6 DEF GroupsReply, RoleLookups, End, Goto, client
<1>7. ASSUME NEW c \in Callers, OrgReply(c) \/ UserReply(c) \/ RoleReply(c) PROVE ClientOK'
  BY <1>1, <1>7 DEF OrgReply, UserReply, RoleReply, End, Goto, client
<1>8. CASE TokenExpires
  BY <1>8 DEF TokenExpires, callers, ClientOK
<1>9. ASSUME WorldChanges PROVE ClientOK'
  BY <1>9, AuthzAssumption DEF WorldChanges, client, callers, ClientOK
<1>10. CASE UNCHANGED vars
  BY <1>10 DEF vars, client, callers, ClientOK
<1> QED
  BY <1>3, <1>4, <1>5, <1>6, <1>7, <1>8, <1>9, <1>10 DEF Next, Reply, AllDone, Rename,
     RoleChange, MemberChange

(* TypeOK: the type invariant of the callers, the token source and the     *)
(* services holds for any number of callers and changes.                   *)
THEOREM AuthzTypeCorrect == Spec => []TypeOK
<1>1. Init => ClientOK
  <2> SUFFICES ASSUME Init PROVE ClientOK
    OBVIOUS
  <2>1. token \in BOOLEAN
    BY Zenon DEF Init
  <2>2. /\ mutex \in Callers \cup {Free}
        /\ at \in [Callers -> {"token", "fetch", "call"}]
        /\ changes \in 0 .. MaxChanges
    BY AuthzAssumption DEF Init
  <2> QED BY <2>1, <2>2 DEF ClientOK
<1>2. IInv /\ ClientOK => TypeOK
  BY DEF IInv, WorldOK, CallersOK, ClientOK, TypeOK
<1> QED BY <1>1, <1>2, InitHasIInv, StepKeepsIInv, StepKeepsClientOK, PTL DEF Spec

-----------------------------------------------------------------------------
(* An end of a caller is one decision.                                     *)
LEMMA EndIsDecision ==
  ASSUME NEW c \in Callers, outcome[c] = "none", NEW result \in {"granted", "refused"},
         End(c, result), result = "granted" => Entitled(c)
  PROVE  OneCheck!Next
BY DEF OneCheck!Next, OneCheck!Decide, End

LEMMA FailureIsDecision ==
  ASSUME NEW c \in Callers, outcome[c] = "none", Failed(c)
  PROVE  OneCheck!Next
<1>1. CASE step[c] = "groups" /\ OrgOf[c] # NoOrg
  BY <1>1 DEF Failed, RoleLookups, OneCheck!Next, OneCheck!WorldChanges
<1>2. CASE step[c] # "groups" \/ OrgOf[c] = NoOrg
  BY <1>2, EndIsDecision DEF Failed, RoleLookups
<1> QED BY <1>1, <1>2

LEMMA StepIsCheck ==
  ASSUME IInv, [Next]_vars
  PROVE  [OneCheck!Next]_(OneCheck!vars)
<1>1. ASSUME NEW c \in Callers, step[c] \in Steps \cup {"new"} PROVE outcome[c] = "none"
  BY <1>1 DEF IInv, CallersOK, Steps
<1>2. ASSUME UNCHANGED outcome PROVE OneCheck!Next
  BY <1>2 DEF OneCheck!Next, OneCheck!WorldChanges
<1>3. ASSUME NEW c \in Callers, Start(c) PROVE OneCheck!Next
  <2>1. outcome[c] = "none"
    BY <1>1, <1>3 DEF Start
  <2>2. CASE UserOf[c] \in AdminUsers
    BY <1>3, <2>1, <2>2, EndIsDecision DEF Start, Entitled
  <2>3. CASE UserOf[c] \notin AdminUsers /\ (AdminGroups # {} \/ OrgOf[c] # NoOrg)
    BY <1>2, <1>3, <2>3 DEF Start, RoleLookups
  <2>4. CASE UserOf[c] \notin AdminUsers /\ AdminGroups = {} /\ OrgOf[c] = NoOrg
    BY <1>3, <2>1, <2>4, EndIsDecision DEF Start, RoleLookups
  <2> QED BY <2>2, <2>3, <2>4
<1>4. ASSUME NEW c \in Callers, TokenFails(c) \/ CallFails(c) PROVE OneCheck!Next
  BY <1>1, <1>4, FailureIsDecision DEF TokenFails, CallFails, Fetching
<1>5. ASSUME NEW c \in Callers, GroupsReply(c) PROVE OneCheck!Next
  <2>1. outcome[c] = "none" /\ step[c] = "groups"
    BY <1>1, <1>5 DEF GroupsReply, Steps
  <2>2. CASE InAdminGroup(UserOf[c])
    <3>1. Entitled(c)
      BY <2>2, AdminMember DEF Entitled
    <3> QED BY <1>5, <2>1, <2>2, <3>1, EndIsDecision DEF GroupsReply
  <2>3. CASE ~InAdminGroup(UserOf[c])
    BY <1>5, <2>1, <2>3, FailureIsDecision DEF GroupsReply, Failed
  <2> QED BY <2>2, <2>3
<1>6. ASSUME NEW c \in Callers, OrgReply(c) PROVE OneCheck!Next
  <2>1. outcome[c] = "none"
    BY <1>1, <1>6 DEF OrgReply, Steps
  <2>2. UNCHANGED outcome \/ End(c, "refused")
    BY <1>6 DEF OrgReply
  <2> QED BY <1>2, <2>1, <2>2, EndIsDecision
<1>7. ASSUME NEW c \in Callers, UserReply(c) PROVE OneCheck!Next
  <2>1. outcome[c] = "none"
    BY <1>1, <1>7 DEF UserReply, Steps
  <2>2. UNCHANGED outcome \/ End(c, "refused")
    BY <1>7 DEF UserReply
  <2> QED BY <1>2, <2>1, <2>2, EndIsDecision
<1>8. ASSUME NEW c \in Callers, RoleReply(c) PROVE OneCheck!Next
  <2>1. outcome[c] = "none" /\ step[c] = "role"
    BY <1>1, <1>8 DEF RoleReply, Steps
  <2>2. CASE HasRole(found[c].account, found[c].org)
    <3> DEFINE h == <<found[c].account, found[c].org>>
    <3>1. /\ h \in roles /\ OriginOf[h[1]] = "ldap"
          /\ NameOf[h[1]] = UserOf[c] /\ h[2] \in past[c].named
      BY <2>1, <2>2 DEF HasRole, IInv, FoundInPast, UserGUIDs
    <3> HIDE DEF h
    <3>2. Entitled(c)
      BY <3>1 DEF Entitled
    <3> QED BY <1>8, <2>1, <2>2, <3>2, EndIsDecision DEF RoleReply
  <2>3. CASE ~HasRole(found[c].account, found[c].org)
    BY <1>8, <2>1, <2>3, EndIsDecision DEF RoleReply
  <2> QED BY <2>2, <2>3
<1>9. CASE UNCHANGED vars
  BY <1>9, <1>2 DEF vars, callers
<1> QED
  BY <1>2, <1>3, <1>4, <1>5, <1>6, <1>7, <1>8, <1>9 DEF Next, Reply, AllDone, Acquire,
     TokenFetched, TokenExpires, Rename, RoleChange, MemberChange, WorldChanges, callers

(* The four lookups of a request implement one check at one moment, which *)
(* module Portal takes them to be.                                         *)
THEOREM AuthzIsOneCheck == Spec => AsOneCheck
<1>1. Init => OneCheck!Init
  BY DEF Init, OneCheck!Init
<1>2. IInv /\ [Next]_vars => [OneCheck!Next]_(OneCheck!vars)
  BY StepIsCheck
<1> QED BY <1>1, <1>2, InitHasIInv, StepKeepsIInv, PTL DEF Spec, AsOneCheck, OneCheck!Spec
=============================================================================
