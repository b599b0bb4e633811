\* Every handler's form, valid or not, while ann's roles come and go.
\* Fairness is that of the handlers only.
SPECIFICATION FairSpec
CONSTANTS
  Requests = {r1}
  Files <- MCFiles
  Lines <- MCLines
  Header = Header
  InitialConfig <- MCInitialConfig
  OutsideEdits <- NoEdits
  Users <- MCUsers
  Orgs <- MCOrgs
  OrgOf <- MCOrgOf
  Forms <- AllForms
  AdminUsers <- MCAdmins
  AdminGroupsOn = TRUE
  InitManagers <- MCManagers
  InitGroup <- MCGroup
  RoleChanges <- Ann
  DefaultsFile <- MCDefaults
INVARIANTS
  AuthorisedWrites
  Provenance
  InvalidWritesNothing
  TruthfulPages
PROPERTIES
  ImplementsGate
  EveryRequestAnswered
