\* A merge between a request's read and its branch: the diff reverts it.
SPECIFICATION Spec
CONSTANTS
  Requests = {r1, r2}
  Files <- MCFiles
  Lines <- MCLines
  Header = Header
  InitialConfig <- MCInitialConfig
  OutsideEdits <- NoEdits
  Users <- MCUsers
  Orgs <- MCOrgs
  OrgOf <- MCOrgOf
  Forms <- StaleForms
  AdminUsers <- MCAdmins
  AdminGroupsOn = FALSE
  InitManagers <- MCManagers
  InitGroup <- MCGroup
  RoleChanges <- NoUsers
  DefaultsFile <- MCDefaults
SYMMETRY Symmetry
INVARIANTS
  DiffOnlyRequested
