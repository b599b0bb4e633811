------------------------------ MODULE MCStaging ------------------------------
(* Two orgs that both have a space s1, and the lists of their files.  u is *)
(* in s2 of o1 under two origins.                                          *)
EXTENDS StagingPage

MCRoleOrder   == <<"developer", "manager">>
MCOriginOrder == <<"ldap", "internal">>

MCFiles ==
  (OrgsFile :> {RoleLine("orgs", "", "o1"), RoleLine("orgs", "", "o2")})
  @@ (SpacesFile("o1") :> {SpaceLine("s1"), SpaceLine("s2")})
  @@ (SpacesFile("o2") :> {SpaceLine("s1")})
  @@ (SpaceConfig("o1", "s1") :> {RoleLine("developer", "ldap", "u"),
                                  RoleLine("manager", "ldap", "u"),
                                  GroupLine("developer", "g")})
  @@ (SpaceConfig("o1", "s2") :> {RoleLine("developer", "ldap", "u"),
                                  RoleLine("manager", "internal", "u")})
  @@ (SpaceConfig("o2", "s1") :> {RoleLine("manager", "internal", "v")})
=============================================================================
