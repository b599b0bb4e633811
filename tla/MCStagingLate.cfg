SPECIFICATION Spec
CONSTANTS
  Failure = Failure
  RoleOrder <- MCRoleOrder
  OriginOrder <- MCOriginOrder
  Files <- MCFiles
  Newcomers = {}
  MaxLoading = 2
  MaxEdits = 1
INVARIANT OrgChangeClears
