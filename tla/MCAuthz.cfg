SPECIFICATION FairSpec
CONSTANTS
  Callers = {"c1", "c2", "c3"}
  UserOf <- MCUserOf
  OrgOf <- MCOrgOf
  NoOrg = "login"
  Accounts = {"annLdap", "annUaa"}
  NameOf <- MCNameOf
  OriginOf <- MCOriginOf
  OrgIds = {"o1", "o2"}
  OrgNames = {"dev", "test", "login"}
  NewNames = {"dev", "test", "login"}
  Groups = {"admins", "staff", ""}
  AdminUserEntries = {"adm", ""}
  AdminGroupEntries = {"admins", ""}
  InitNames <- MCNames
  InitRoles <- MCRoles
  InitMembers <- MCMembers
  MaxChanges = 2
INVARIANTS TypeOK GrantBacked
PROPERTIES AsOneCheck Answered AdminsNeverWait
