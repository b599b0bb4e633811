------------------------------ MODULE MCTables ------------------------------
(* Two orgs that both have a space s1, and the lists of their files.  In   *)
(* o2 v has one role under each of two origins.                            *)
EXTENDS TablePages

MCRoleOrder   == <<"developer", "billingmanager", "manager", "auditor", "supporter">>
MCOriginOrder == <<"ldap", "saml", "internal", "ldap_groups">>

MCFiles ==
  (OrgsFile :> {RoleLine("orgs", "", "o1"), RoleLine("orgs", "", "o2")})
  @@ (SpacesFile("o1") :> {SpaceLine("s1"), SpaceLine("s2")})
  @@ (SpacesFile("o2") :> {SpaceLine("s1")})
  @@ (OrgConfig("o1") :> {RoleLine("manager", "ldap", "u"), RoleLine("auditor", "ldap", "u")})
  @@ (OrgConfig("o2") :> {RoleLine("billingmanager", "saml", "v"),
                          RoleLine("auditor", "internal", "v"),
                          RoleLine("manager", "ldap", "u")})
  @@ (SpaceConfig("o1", "s1") :> {GroupLine("developer", "g"), GroupLine("manager", "g"),
                                  RoleLine("developer", "ldap", "u")})
  @@ (SpaceConfig("o1", "s2") :> {GroupLine("auditor", "g")})
  @@ (SpaceConfig("o2", "s1") :> {GroupLine("manager", "h")})
=============================================================================
