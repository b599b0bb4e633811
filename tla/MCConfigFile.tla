---------------------------- MODULE MCConfigFile ----------------------------
(***************************************************************************)
(* Files as they are found in config repositories: written by cf-mgmt,     *)
(* with a role block missing, with a bare block or bare lists.             *)
(***************************************************************************)
EXTENDS ConfigFile

Opaque(key) == Item(key, CHOOSE v \in Values : TRUE)
Block(ldap, groups) ==
  <<Item("ldap_users", ldap), Item("users", <<>>), Item("saml_users", <<>>),
    Item("ldap_groups", groups)>>

Top == <<Opaque("org"), Opaque("space")>>
Rest == <<Opaque("allow-ssh"), Opaque("metadata")>>

FullSpace ==
  Top \o <<Item("space-developer", Block(<<"ann", "bob">>, <<>>)),
            Item("space-manager", Block(<<>>, <<>>)),
            Item("space-auditor", Block(<<>>, <<"ops">>)),
            Item("space-supporter", Block(<<>>, <<>>))>> \o Rest
\* Written by hand: two blocks missing, a bare block, a block with bare lists.
SparseSpace ==
  Top \o <<Item("space-developer", <<Item("ldap_groups", Nil), Item("ldap_users", Nil)>>),
            Item("space-auditor", Nil)>> \o Rest
BareSpace == Top
Renamed == <<Opaque("org"), Opaque("space"), Opaque("original-space")>>
           \o <<Item("space-developer", Block(<<"ann">>, <<>>))>> \o Rest
SparseOrg ==
  <<Opaque("org"), Opaque("original-org"), Opaque("org-manager-group"),
    Item("org-manager", Block(<<"ann">>, <<>>)), Opaque("private-domains")>>

MCDocuments ==
  {<<SpaceSchema, FullSpace>>, <<SpaceSchema, SparseSpace>>, <<SpaceSchema, BareSpace>>,
   <<OrgSchema, SparseOrg>>}
RenamedDocuments == {<<SpaceSchema, Renamed>>}

MCNames == {"ann", "bob", "ops"}
MCOptions == {"allow-ssh", "metadata", "private-domains"}

MCOps(schema) ==
  IF schema = SpaceSchema
    THEN {UserOp(a, r, "ldap", u) : a \in {"add", "remove"},
            r \in {"developer", "auditor"}, u \in {"ann", "bob"}}
           \cup {GroupOp(a, "manager", "ops") : a \in {"add", "remove"}}
           \cup {UserOp("add", "boss", "ldap", "ann"), UserOp("add", "auditor", "nis", "ann")}
    ELSE {UserOp(a, r, "saml", "ann") : a \in {"add", "remove"},
            r \in {"billingmanager", "manager", "auditor"}}
           \cup {UserOp(a, "manager", "ldap", u) : a \in {"add", "remove"}, u \in {"ann", "bob"}}
=============================================================================
