------------------------------- MODULE MCAuthz -------------------------------
(* ann has an ldap account and one of another origin, adm is a configured  *)
(* admin.  The name "dev" can pass from one org to the other, where ann    *)
(* holds the role.                                                         *)
EXTENDS Authz, TLC

MCUserOf   == ("c1" :> "ann") @@ ("c2" :> "ann") @@ ("c3" :> "adm")
MCOrgOf    == ("c1" :> "dev") @@ ("c2" :> "login") @@ ("c3" :> "dev")
MCNameOf   == ("annLdap" :> "ann") @@ ("annUaa" :> "ann")
MCOriginOf == ("annLdap" :> "ldap") @@ ("annUaa" :> "uaa")
MCNames    == ("o1" :> "dev") @@ ("o2" :> "test")
MCRoles    == {<<"annUaa", "o1">>, <<"annLdap", "o2">>}
MCMembers  == {<<"annLdap", "">>, <<"annUaa", "staff">>}
=============================================================================
