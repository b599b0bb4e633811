SPECIFICATION Spec
CONSTANTS
  Failure = Failure
  RoleOrder <- MCRoleOrder
  OriginOrder <- MCOriginOrder
  Files <- MCFiles
  Newcomers = {"n"}
  MaxLoading = 2
  MaxEdits = 3
INVARIANTS TypeOK ShownIsCurrent StagedIsShown PostAccepted
PROPERTY NothingLostSilently
