------------------------------ MODULE Handlers ------------------------------
(***************************************************************************)
(* The form each mutating handler makes of the fields of its POST: the     *)
(* validation before the first step, the files and the edits.  The result  *)
(* is a form record of module Portal, which runs it.                       *)
(***************************************************************************)
EXTENDS Sequences, Naturals

\* Paths, as path.Join makes them of names below the foundation's directory: an
\* empty element or "." goes, and ".." takes back the element before it.
Down(dir, elem) ==
  CASE elem \in {"", "."} -> dir
    [] elem = ".." /\ dir # <<>> /\ dir[Len(dir)] # ".." -> SubSeq(dir, 1, Len(dir) - 1)
    [] OTHER -> Append(dir, elem)

\* A name with slashes is several elements; this one stands for all of them.
Slashed == "../bank/web"
Into(dir, name) ==
  IF name = Slashed THEN Down(Down(Down(dir, ".."), "bank"), "web") ELSE Down(dir, name)

Path(org, space, file) == Append(Into(Into(<<>>, org), space), file)

SpaceConfig(org, space)   == Path(org, space, "spaceConfig.yml")
SecurityGroup(org, space) == Path(org, space, "security-group.json")
OrgConfig(org)            == Path(org, "", "orgConfig.yml")
SpacesFile(org)           == Path(org, "", "spaces.yml")
SpaceDefaults             == <<"spaceDefaults.yml">>

Origins    == {"ldap", "saml", "internal"}
SpaceRoles == {"developer", "manager", "auditor", "supporter"}
OrgRoles   == {"manager", "billingmanager", "auditor"}

RoleLine(role, origin, member) == <<role, origin, member>>
GroupLine(role, group)         == <<role, "ldap_groups", group>>
SpaceLine(space)               == <<"spaces", "", space>>

\* The operations a batch is made of, and those the mutators accept.
UserOp(action, role, origin, user) ==
  [action |-> action, line |-> RoleLine(role, origin, user)]
GroupOp(action, role, grp) ==
  [action |-> action, line |-> GroupLine(role, grp)]

ValidOp(op, roles, lists) ==
  /\ op.action \in {"add", "remove"}
  /\ op.line[1] \in roles
  /\ op.line[2] \in lists
  /\ op.line[3] # ""

\* The operations are applied in order, so the last one on a line decides.
Net(ops, action) ==
  {ops[i].line : i \in {j \in DOMAIN ops :
     /\ ops[j].action = action
     /\ \A k \in DOMAIN ops : k > j => ops[k].line # ops[j].line}}

Batch(file, ops, roles, lists) ==
  [file |-> file, add |-> Net(ops, "add"), del |-> Net(ops, "remove"),
   valid |-> \A i \in DOMAIN ops : ValidOp(ops[i], roles, lists)]

Post(user, org, csrf, edits) ==
  [user |-> user, org |-> org, csrf |-> csrf, edits |-> edits, creates |-> {}]

\* A missing field makes the form empty: the handler answers 400.
Unless(missing, edits) == IF missing THEN <<>> ELSE edits

-----------------------------------------------------------------------------
AddUserToRole(user, csrf, org, space, role, origin, target) ==
  Post(user, org, csrf,
       Unless("" \in {org, space, role, origin, target},
              <<Batch(SpaceConfig(org, space),
                      <<UserOp("add", role, origin, target)>>, SpaceRoles, Origins)>>))

RemoveUserFromRole(user, csrf, org, space, role, origin, target) ==
  Post(user, org, csrf,
       Unless("" \in {org, space, role, origin, target},
              <<Batch(SpaceConfig(org, space),
                      <<UserOp("remove", role, origin, target)>>, SpaceRoles, Origins)>>))

\* parseSpaceChanges: an entry without a space or without operations is dropped,
\* the operations of one for a space met before join that space's.
JoinChange(out, ch) ==
  IF ch.space = "" \/ ch.ops = <<>> THEN out
  ELSE IF \E i \in DOMAIN out : out[i].space = ch.space
    THEN [i \in DOMAIN out |->
            IF out[i].space = ch.space THEN [out[i] EXCEPT !.ops = @ \o ch.ops] ELSE out[i]]
    ELSE Append(out, ch)

\* What the first n entries come to.
Parsed(changes) ==
  LET out[n \in 0 .. Len(changes)] ==
        IF n = 0 THEN <<>> ELSE JoinChange(out[n - 1], changes[n])
  IN  out

ParseSpaceChanges(changes) == Parsed(changes)[Len(changes)]

\* Names that are one element of a path; of the handlers only ManageUsers asks.
ValidPathSegment(name) == name \notin {"", ".", "..", Slashed}

ManageUsers(user, csrf, org, changes) ==
  LET parsed == ParseSpaceChanges(changes)
  IN  Post(user, org, csrf,
           Unless(\/ ~ValidPathSegment(org)
                  \/ \E i \in DOMAIN parsed : ~ValidPathSegment(parsed[i].space),
                  [i \in DOMAIN parsed |->
                     Batch(SpaceConfig(org, parsed[i].space), parsed[i].ops,
                           SpaceRoles, Origins)]))

ManageOrgUsers(user, csrf, org, ops) ==
  Post(user, org, csrf,
       Unless(org = "" \/ ops = <<>>, <<Batch(OrgConfig(org), ops, OrgRoles, Origins)>>))

ManageGroups(user, csrf, org, space, ops) ==
  Post(user, org, csrf,
       Unless("" \in {org, space} \/ ops = <<>>,
              <<Batch(SpaceConfig(org, space), ops, SpaceRoles, {"ldap_groups"})>>))

\* mutate.CreateSpace: the name joins spaces.yml, and the two files of the
\* space are created, the first from the defaults and with the requester as
\* space manager if the box was ticked.
CreateSpace(user, csrf, org, space, addSelf) ==
  LET missing == "" \in {org, space}
      config  == [file |-> SpaceConfig(org, space), seeded |-> TRUE,
                  lines |-> IF addSelf THEN {RoleLine("manager", "ldap", user)} ELSE {}]
      groups  == [file |-> SecurityGroup(org, space), seeded |-> FALSE, lines |-> {}]
  IN  [Post(user, org, csrf,
            Unless(missing, <<[file |-> SpacesFile(org), add |-> {SpaceLine(space)},
                               del |-> {}, valid |-> TRUE]>>))
         EXCEPT !.creates = IF missing THEN {} ELSE {config, groups}]
=============================================================================
