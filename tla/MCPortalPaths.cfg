\* A space that is no path segment, in handlers that check names and that do not.
SPECIFICATION Spec
CONSTANTS
  Requests = {r1}
  Files <- MCFiles
  Lines <- MCLines
  Header = Header
  InitialConfig <- MCInitialConfig
  OutsideEdits <- NoEdits
  Users <- MCUsers
  Orgs <- MCOrgs
  OrgOf <- MCOrgOf
  Forms <- PathForms
  AdminUsers <- MCAdmins
  AdminGroupsOn = FALSE
  InitManagers <- MCManagers
  InitGroup <- MCGroup
  RoleChanges <- NoUsers
  DefaultsFile <- MCDefaults
INVARIANTS
  StaysInOrg
