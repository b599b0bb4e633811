-------------------------------- MODULE Authz --------------------------------
(***************************************************************************)
(* verifyOrgManager (src/internal/http/handlers.go) down to the calls of   *)
(* the CF and UAA client (src/internal/cfapi/cfapi.go), and the lookup the *)
(* login makes for the admin badge.  Each call needs the client's token,   *)
(* which the library keeps behind a mutex: whoever finds it expired        *)
(* fetches another while the rest wait, and the client's 30 seconds end    *)
(* the call but not the wait.  Meanwhile roles and groups change, and orgs *)
(* are renamed.                                                            *)
(***************************************************************************)
EXTENDS Naturals

CONSTANTS
  Callers,      \* requests being authorised, and logins
  UserOf,       \* UserOf[c]: the name in the session
  OrgOf,        \* OrgOf[c]: the org of the form, or NoOrg for a login
  NoOrg,
  Accounts,     \* UAA accounts
  NameOf,       \* NameOf[a]: the user name of account a
  OriginOf,     \* OriginOf[a]: "ldap", or another
  OrgIds,       \* Cloud Foundry's orgs
  OrgNames,     \* their names, and NoOrg for a deleted one
  NewNames,     \* the names an org may be given
  Groups,       \* UAA groups, some without a display name
  AdminUserEntries, AdminGroupEntries,  \* the comma separated settings
  InitNames, InitRoles, InitMembers,    \* the outside world at first
  MaxChanges    \* bound: changes of the outside world

ASSUME AuthzAssumption ==
  /\ NewNames \subseteq OrgNames
  /\ InitNames \in [OrgIds -> OrgNames]
  /\ InitRoles \subseteq Accounts \X OrgIds /\ InitMembers \subseteq Accounts \X Groups
  /\ MaxChanges \in Nat

VARIABLES
  token,     \* whether the cached token is valid
  mutex,     \* who fetches a token, Free if nobody
  step,      \* step[c]: the call c is making
  at,        \* how far: "token", "fetch" or "call"
  found,     \* found[c]: the ids that c's former calls returned
  outcome,   \* outcome[c]: "none", "granted" or "refused"
  names,     \* names[o]: the name of org o
  roles,     \* pairs <<account, org>> with organization_manager
  members,   \* pairs <<account, group>>
  changes,   \* changes of these three, for the bound
  past       \* history: the facts that held at some moment since c started

client  == <<token, mutex>>
callers == <<step, at, found, outcome>>
world   == <<names, roles, members>>
vars    == <<client, callers, world, changes, past>>

Free == "free"
Nobody == "nobody"
Steps == {"groups", "org", "user", "role"}
NothingFound == [org |-> Nobody, account |-> Nobody]

\* splitCSV: empty entries are dropped.
SplitCSV(entries) == entries \ {""}
AdminUsers  == SplitCSV(AdminUserEntries)
AdminGroups == SplitCSV(AdminGroupEntries)

Facts == [named : SUBSET OrgIds, held : SUBSET (Accounts \X OrgIds),
          members : SUBSET (Accounts \X Groups)]
NoFacts == [named |-> {}, held |-> {}, members |-> {}]

TypeOK ==
  /\ token \in BOOLEAN /\ mutex \in Callers \cup {Free}
  /\ step \in [Callers -> Steps \cup {"new", "end"}]
  /\ at \in [Callers -> {"token", "fetch", "call"}]
  /\ found \in [Callers -> [org : OrgIds \cup {Nobody}, account : Accounts \cup {Nobody}]]
  /\ outcome \in [Callers -> {"none", "granted", "refused"}]
  /\ names \in [OrgIds -> OrgNames]
  /\ roles \subseteq Accounts \X OrgIds /\ members \subseteq Accounts \X Groups
  /\ changes \in 0 .. MaxChanges
  /\ past \in [Callers -> Facts]

Init ==
  /\ token = FALSE /\ mutex = Free
  /\ step = [c \in Callers |-> "new"] /\ at = [c \in Callers |-> "token"]
  /\ found = [c \in Callers |-> NothingFound]
  /\ outcome = [c \in Callers |-> "none"]
  /\ names = InitNames /\ roles = InitRoles /\ members = InitMembers
  /\ changes = 0 /\ past = [c \in Callers |-> NoFacts]

-----------------------------------------------------------------------------
(* What the services answer. *)

\* UserGroups: those of every account of the name, without the unnamed ones.
UserGroups(user) ==
  {m[2] : m \in {x \in members : NameOf[x[1]] = user}} \ {""}

InAdminGroup(user) == UserGroups(user) \cap AdminGroups # {}

\* orgGUID.  Names are unique, so there is one at most.
OrgGUIDs(name) == {o \in OrgIds : names[o] = name}

\* Mutant: the accounts of any origin.
UserGUIDsOfAnyOrigin(user) == {a \in Accounts : NameOf[a] = user}

\* userGUID: the accounts of the name whose origin is ldap.
UserGUIDs(user) == {a \in Accounts : NameOf[a] = user /\ OriginOf[a] = "ldap"}

\* hasRole
HasRole(account, o) == <<account, o>> \in roles

-----------------------------------------------------------------------------
(* The facts callers may go by. *)

Remember(facts) ==
  [named   |-> facts.named,
   held    |-> facts.held \cup roles',
   members |-> facts.members \cup members']

\* The names are those of the caller's org.
Observe(c, facts) ==
  [Remember(facts) EXCEPT !.named = @ \cup {o \in OrgIds : names'[o] = OrgOf[c]}]

-----------------------------------------------------------------------------
(* verifyOrgManager. *)

Goto(c, s) ==
  /\ step' = [step EXCEPT ![c] = s]
  /\ at' = [at EXCEPT ![c] = "token"]

End(c, result) ==
  /\ Goto(c, "end")
  /\ outcome' = [outcome EXCEPT ![c] = result]

\* After the group lookup, or without it.
RoleLookups(c) ==
  IF OrgOf[c] = NoOrg
    THEN End(c, "refused") ELSE Goto(c, "org") /\ UNCHANGED outcome

\* Mutant: the group lookup comes before the list of admin users.
StartWithGroups(c) ==
  /\ step[c] = "new"
  /\ Goto(c, "groups") /\ UNCHANGED outcome
  /\ UNCHANGED <<client, found, world, changes>>
  /\ past' = [past EXCEPT ![c] = Observe(c, @)]

\* isPortalAdmin comes first and needs no call.
Start(c) ==
  /\ step[c] = "new"
  /\ IF UserOf[c] \in AdminUsers
       THEN End(c, "granted")
       ELSE IF AdminGroups # {} THEN Goto(c, "groups") /\ UNCHANGED outcome
                                ELSE RoleLookups(c)
  /\ UNCHANGED <<client, found, world, changes>>
  /\ past' = [past EXCEPT ![c] = Observe(c, @)]

\* The token source: the token is at hand, or c fetches it under the mutex.
Acquire(c) ==
  /\ step[c] \in Steps /\ at[c] = "token"
  /\ mutex = Free
  /\ at' = [at EXCEPT ![c] = IF token THEN "call" ELSE "fetch"]
  /\ mutex' = IF token THEN Free ELSE c
  /\ UNCHANGED <<token, step, found, outcome, world, changes, past>>

Fetching(c) == step[c] \in Steps /\ at[c] = "fetch" /\ mutex = c

TokenFetched(c) ==
  /\ Fetching(c)
  /\ token' = TRUE /\ mutex' = Free
  /\ at' = [at EXCEPT ![c] = "call"]
  /\ UNCHANGED <<step, found, outcome, world, changes, past>>

\* A failed call: the group lookup is best effort, the others refuse.
Failed(c) ==
  IF step[c] = "groups" THEN RoleLookups(c) ELSE End(c, "refused")

\* Mutant: the mutex is not released.
TokenFailsLocked(c) ==
  /\ Fetching(c)
  /\ Failed(c)
  /\ UNCHANGED <<client, found, world, changes, past>>

TokenFails(c) ==
  /\ Fetching(c)
  /\ mutex' = Free
  /\ Failed(c)
  /\ UNCHANGED <<token, found, world, changes, past>>

\* An error, a status other than 200, or the client's 30 seconds.
CallFails(c) ==
  /\ step[c] \in Steps /\ at[c] = "call"
  /\ Failed(c)
  /\ UNCHANGED <<client, found, world, changes, past>>

GroupsReply(c) ==
  /\ step[c] = "groups" /\ at[c] = "call"
  /\ IF InAdminGroup(UserOf[c]) THEN End(c, "granted") ELSE RoleLookups(c)
  /\ UNCHANGED <<client, found, world, changes, past>>

\* Mutant: the org goes by its name.
OrgReplyByName(c) ==
  /\ step[c] = "org" /\ at[c] = "call"
  /\ found' = [found EXCEPT ![c].org = OrgOf[c]]
  /\ Goto(c, "user") /\ UNCHANGED outcome
  /\ UNCHANGED <<client, world, changes, past>>

\* An org that is not found is an error.
OrgReply(c) ==
  /\ step[c] = "org" /\ at[c] = "call"
  /\ IF OrgGUIDs(OrgOf[c]) = {}
       THEN End(c, "refused") /\ UNCHANGED found
       ELSE /\ \E o \in OrgGUIDs(OrgOf[c]) : found' = [found EXCEPT ![c].org = o]
            /\ Goto(c, "user") /\ UNCHANGED outcome
  /\ UNCHANGED <<client, world, changes, past>>

\* A user who is not found holds no role.
UserReply(c) ==
  /\ step[c] = "user" /\ at[c] = "call"
  /\ IF UserGUIDs(UserOf[c]) = {}
       THEN End(c, "refused") /\ UNCHANGED found
       ELSE /\ \E a \in UserGUIDs(UserOf[c]) : found' = [found EXCEPT ![c].account = a]
            /\ Goto(c, "role") /\ UNCHANGED outcome
  /\ UNCHANGED <<client, world, changes, past>>

RoleReply(c) ==
  /\ step[c] = "role" /\ at[c] = "call"
  /\ End(c, IF HasRole(found[c].account, found[c].org) THEN "granted" ELSE "refused")
  /\ UNCHANGED <<client, found, world, changes, past>>

-----------------------------------------------------------------------------
(* The outside world. *)

TokenExpires ==
  /\ token /\ mutex = Free
  /\ token' = FALSE
  /\ UNCHANGED <<mutex, callers, world, changes, past>>

WorldChanges ==
  /\ changes < MaxChanges
  /\ changes' = changes + 1
  /\ past' = [c \in Callers |-> IF step[c] = "new" THEN past[c] ELSE Observe(c, past[c])]
  /\ UNCHANGED <<client, callers>>

Rename(o, name) ==
  /\ name # names[o] /\ (name # NoOrg => \A p \in OrgIds : names[p] # name)
  /\ names' = [names EXCEPT ![o] = name]
  /\ UNCHANGED <<roles, members>>
  /\ WorldChanges

Toggled(set, x) == IF x \in set THEN set \ {x} ELSE set \cup {x}

RoleChange(a, o) ==
  /\ roles' = Toggled(roles, <<a, o>>)
  /\ UNCHANGED <<names, members>>
  /\ WorldChanges

MemberChange(a, g) ==
  /\ members' = Toggled(members, <<a, g>>)
  /\ UNCHANGED <<names, roles>>
  /\ WorldChanges

\* Every request is answered.
AllDone == (\A c \in Callers : step[c] = "end") /\ UNCHANGED vars

Reply(c) ==
  GroupsReply(c) \/ OrgReply(c) \/ UserReply(c) \/ RoleReply(c) \/ CallFails(c)

Next ==
  \/ \E c \in Callers :
       Start(c) \/ Acquire(c) \/ TokenFetched(c) \/ TokenFails(c) \/ Reply(c)
  \/ TokenExpires
  \/ \E o \in OrgIds, name \in NewNames : Rename(o, name)
  \/ \E a \in Accounts, o \in OrgIds : RoleChange(a, o)
  \/ \E a \in Accounts, g \in Groups : MemberChange(a, g)
  \/ AllDone

Spec == Init /\ [][Next]_vars

\* The scheduler runs every handler, a mutex does not starve a goroutine, and
\* the client's timeout ends every call.  Nothing ends a token request that
\* hangs: there is no fairness for it.
FairSpec ==
  Spec /\ \A c \in Callers : WF_vars(Start(c)) /\ SF_vars(Acquire(c)) /\ WF_vars(Reply(c))

-----------------------------------------------------------------------------
(* A grant goes back to facts that held since the request arrived: the     *)
(* user is an admin, or was in an admin group, or the org did bear the     *)
(* name and an ldap account of the user did hold OrgManager on that org.   *)
(* (Not necessarily at one moment: the role is asked for after the org.)   *)
GrantBacked ==
  \A c \in Callers : outcome[c] = "granted" =>
    \/ UserOf[c] \in AdminUsers
    \/ \E m \in past[c].members : NameOf[m[1]] = UserOf[c] /\ m[2] \in AdminGroups
    \/ \E h \in past[c].held : /\ NameOf[h[1]] = UserOf[c] /\ OriginOf[h[1]] = "ldap"
                               /\ h[2] \in past[c].named

\* The user may change the org c asked for: an org that bears that name, or bore
\* it since c's request arrived.
Entitled(c) ==
  \/ UserOf[c] \in AdminUsers
  \/ \E m \in members : NameOf[m[1]] = UserOf[c] /\ m[2] \in AdminGroups
  \/ \E h \in roles : /\ NameOf[h[1]] = UserOf[c] /\ OriginOf[h[1]] = "ldap"
                      /\ h[2] \in past[c].named

(* The lookups act as one check: a grant happens at a moment when the user *)
(* is entitled, although groups, org, user and role are asked for one      *)
(* after the other.  This is what module Portal takes verifyOrgManager to  *)
(* be; there no org is renamed.                                            *)
OneCheck == INSTANCE RoleCheck WITH entitled <- {c \in Callers : Entitled(c)}
AsOneCheck == OneCheck!Spec

(* Every request for authorisation is answered unless a token request      *)
(* hangs: whoever fetches the token, although a fetch fails or the token   *)
(* expires while others wait.                                              *)
Answered ==
  (\A c \in Callers : []<>~Fetching(c)) => \A c \in Callers : <>(step[c] = "end")

(* Configured admins are let through even while the token request hangs    *)
(* and holds everyone else up.                                             *)
AdminsNeverWait == \A c \in Callers : UserOf[c] \in AdminUsers => <>(outcome[c] = "granted")
=============================================================================
