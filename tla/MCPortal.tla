------------------------------ MODULE MCPortal ------------------------------
(***************************************************************************)
(* A small foundation for TLC: the orgs retail and bank, the retail spaces *)
(* web and api, ann who manages retail, bob who is in an admin group, root *)
(* who is a portal admin, and dan who may do nothing.                      *)
(***************************************************************************)
EXTENDS PortalRefinement, Handlers, TLC

MCUsers == {"ann", "bob", "dan", "root"}
MCOrgs  == {"retail", "bank"}

Web == SpaceConfig("retail", "web")
Api == SpaceConfig("retail", "api")

MCFiles == {Web, Api, OrgConfig("bank"), SpacesFile("retail"), SpaceDefaults,
            SpaceConfig("retail", "new"), SecurityGroup("retail", "new"),
            SpaceConfig("bank", "web")}
MCOrgOf == [f \in MCFiles |-> IF f[1] \in MCOrgs THEN f[1] ELSE "none"]

Eve  == RoleLine("developer", "ldap", "eve")
Dan  == RoleLine("developer", "ldap", "dan")
Ops  == GroupLine("auditor", "ops")

MCInitialConfig ==
  [f \in MCFiles |->
     CASE f \in {Web, Api}          -> {Header, Dan}
       [] f = SpaceDefaults         -> {Header, Ops}
       [] f \in {OrgConfig("bank"), SpaceConfig("bank", "web")} -> {Header}
       [] f = SpacesFile("retail")  -> {Header}
       [] OTHER                     -> {}]

EveDev(action) == UserOp(action, "developer", "ldap", "eve")
DanDev(action) == UserOp(action, "developer", "ldap", "dan")

AddEve    == AddUserToRole("ann", TRUE, "retail", "web", "developer", "ldap", "eve")
RemoveDan == RemoveUserFromRole("ann", TRUE, "retail", "web", "developer", "ldap", "dan")
RemoveEve == RemoveUserFromRole("ann", TRUE, "retail", "web", "developer", "ldap", "eve")
\* Two spaces: eve is added in web, where AddEve adds her too, and dan removed in
\* api; the two entries for web are joined.
Batch2 == ManageUsers("ann", TRUE, "retail",
            <<[space |-> "web", ops |-> <<EveDev("add")>>],
              [space |-> "api", ops |-> <<EveDev("remove"), DanDev("remove")>>],
              [space |-> "web", ops |-> <<UserOp("remove", "manager", "ldap", "eve")>>]>>)
Groups == ManageGroups("root", TRUE, "retail", "web", <<GroupOp("add", "auditor", "ops")>>)
Space  == CreateSpace("ann", TRUE, "retail", "new", TRUE)
Bank(user) == ManageOrgUsers(user, TRUE, "bank", <<UserOp("add", "manager", "ldap", "eve")>>)
BadRole == AddUserToRole("ann", TRUE, "retail", "web", "boss", "ldap", "eve")
Forged  == AddUserToRole("ann", FALSE, "retail", "web", "developer", "ldap", "eve")
\* One of the two spaces has an operation the mutator rejects.
BadBatch == ManageUsers("ann", TRUE, "retail",
              <<[space |-> "web", ops |-> <<EveDev("add")>>],
                [space |-> "api", ops |-> <<UserOp("add", "boss", "ldap", "eve")>>]>>)
\* A space that is no path segment, posted to a handler that asks and one that
\* does not.
Checked   == ManageUsers("ann", TRUE, "retail",
               <<[space |-> Slashed, ops |-> <<EveDev("add")>>]>>)
Unchecked == AddUserToRole("ann", TRUE, "retail", Slashed, "developer", "ldap", "eve")
NoSpace == CreateSpace("ann", TRUE, "retail", "", FALSE)
Nothing == ManageUsers("ann", TRUE, "retail", <<[space |-> "web", ops |-> <<>>]>>)

AllForms == {AddEve, RemoveDan, RemoveEve, Batch2, Groups, Space, Bank("bob"),
             Bank("ann"), BadRole, BadBatch, Checked, Unchecked, NoSpace, Forged, Nothing}

MCLines == {Eve, Dan, Ops, SpaceLine("new"), RoleLine("manager", "ldap", "ann"),
            RoleLine("manager", "ldap", "eve"), RoleLine("boss", "ldap", "eve")}

\* pipeline: requests that work on each other's files; also the same batch twice
PipelineForms == {AddEve, RemoveEve, Batch2, Groups, Space}
StaleForms == {AddEve, RemoveDan}
PathForms  == {AddEve, Batch2, Checked, Unchecked}

MCDefaults == SpaceDefaults
NoUsers == {}
NoEdits == {}
EveEdit == {<<Web, Eve>>}
MCManagers == {<<"ann", "retail">>}
MCGroup == {"bob"}
MCAdmins == {"root"}
Ann == {"ann"}

Symmetry == Permutations(Requests)
=============================================================================
