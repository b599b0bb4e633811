\* Two requests of one org, roles fixed: reads, merges and late calls interleave,
\* others add or remove eve in one of the files.
SPECIFICATION Spec
CONSTANTS
  Requests = {r1, r2}
  Files <- MCFiles
  Lines <- MCLines
  Header = Header
  InitialConfig <- MCInitialConfig
  OutsideEdits <- EveEdit
  Users <- MCUsers
  Orgs <- MCOrgs
  OrgOf <- MCOrgOf
  Forms <- PipelineForms
  AdminUsers <- MCAdmins
  AdminGroupsOn = FALSE
  InitManagers <- MCManagers
  InitGroup <- MCGroup
  RoleChanges <- NoUsers
  DefaultsFile <- MCDefaults
SYMMETRY Symmetry
INVARIANTS
  TypeOK
  Provenance
  AllOrNothing
  TruthfulPages
  BatchComplete
PROPERTIES
  LostUpdateBounded
  ImplementsGate
