------------------------------ MODULE ReadAPI ------------------------------
(***************************************************************************)
(* The read endpoints /api/* the pages load their lists from, and the      *)
(* mutate.List* functions behind them.  A configuration repository is a    *)
(* function from the files that exist on the target branch to their lines. *)
(* A reply is a set, or Failure: an error status, or no answer at all.     *)
(***************************************************************************)
EXTENDS Handlers

CONSTANT Failure

\* The orgs.yml of the foundation.
OrgsFile == <<"orgs.yml">>

\* The handlers' common path: a missing parameter is a 400, a file that cannot
\* be read a 502.
Read(files, params, file) ==
  IF "" \in params \/ file \notin DOMAIN files THEN Failure ELSE files[file]

\* The lines of a role's lists that a reply carries.
Listed(reply, roles, lists) ==
  IF reply = Failure THEN Failure
  ELSE {l \in reply : l[1] \in roles /\ l[2] \in lists}

\* What the page iterates over, `d.spaces || []`; nothing of a failure.
Content(reply) == IF reply = Failure THEN {} ELSE reply

Names(reply) == IF reply = Failure THEN Failure ELSE {l[3] : l \in reply}

APIOrgs(files)        == Names(Read(files, {}, OrgsFile))
APISpaces(files, org) == Names(Read(files, {org}, SpacesFile(org)))

ListSpaceUsers(reply)  == Listed(reply, SpaceRoles, Origins)
ListOrgUsers(reply)    == Listed(reply, OrgRoles, Origins)
ListSpaceGroups(reply) == Listed(reply, SpaceRoles, {"ldap_groups"})

APISpaceUsers(files, org, space) ==
  ListSpaceUsers(Read(files, {org, space}, SpaceConfig(org, space)))
APISpaceGroups(files, org, space) ==
  ListSpaceGroups(Read(files, {org, space}, SpaceConfig(org, space)))
APIOrgUsers(files, org) ==
  ListOrgUsers(Read(files, {org}, OrgConfig(org)))
=============================================================================
