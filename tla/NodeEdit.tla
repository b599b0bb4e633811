------------------------------ MODULE NodeEdit ------------------------------
(***************************************************************************)
(* The node-level editing of spaceConfig.yml and orgConfig.yml             *)
(* (src/internal/mutate/nodeedit.go and its callers).  A parsed document   *)
(* is a sequence of items [key, val], as yaml.v2's MapSlice is.  The value *)
(* of a role block is again such a sequence, from list names to sequences  *)
(* of members; a key with nothing after it has the value Nil; all other    *)
(* values are opaque.  Marshalling maps different documents to different   *)
(* bytes, so comparing bytes is comparing documents.                       *)
(***************************************************************************)
EXTENDS Naturals, Sequences
Seqs == INSTANCE SequencesExt

CONSTANT Nil  \* the value of a bare "key:" line

SpaceSchema ==
  [canonical |-> <<"space-developer", "space-manager", "space-auditor", "space-supporter">>,
   roleKeys  |-> [developer |-> "space-developer", manager |-> "space-manager",
                  auditor |-> "space-auditor", supporter |-> "space-supporter"],
   headKeys  |-> {"org", "space"}]

OrgSchema ==
  [canonical |-> <<"org-billingmanager", "org-manager", "org-auditor">>,
   roleKeys  |-> [billingmanager |-> "org-billingmanager", manager |-> "org-manager",
                  auditor |-> "org-auditor"],
   headKeys  |-> {"org", "original-org", "org-billingmanager-group",
                  "org-manager-group", "org-auditor-group"}]

ListKeys == <<"ldap_users", "users", "saml_users", "ldap_groups">>
OriginKey == [ldap |-> "ldap_users", saml |-> "saml_users", internal |-> "users"]

\* An operation: add or remove member in the list of a role.  A user operation
\* names its list by an origin, a group operation always means ldap_groups.
UserOp(action, role, origin, user) ==
  [action |-> action, role |-> role, member |-> user,
   list |-> IF origin \in DOMAIN OriginKey THEN OriginKey[origin] ELSE "unknown"]
GroupOp(action, role, group) ==
  [action |-> action, role |-> role, member |-> group, list |-> "ldap_groups"]

\* Position of key in a map slice, 0 if it is not there.
IndexOfKey(ms, key) == Seqs!SelectInSeq(ms, LAMBDA it : it.key = key)

\* Position of key among the role blocks, 0 if it is none of them.
CanonicalIdx(sc, key) == Seqs!SelectInSeq(sc.canonical, LAMBDA k : k = key)

Item(key, val) == [key |-> key, val |-> val]
AsSeq(val) == IF val = Nil THEN <<>> ELSE val

\* normalizeRoleLists: a bare list key inside a role block becomes an empty list.
NormalizeBlock(block) ==
  [j \in DOMAIN block |->
     IF block[j].val = Nil /\ Seqs!Contains(ListKeys, block[j].key)
       THEN Item(block[j].key, <<>>) ELSE block[j]]

Normalize(doc, sc) ==
  [i \in DOMAIN doc |->
     IF CanonicalIdx(sc, doc[i].key) # 0 /\ doc[i].val # Nil
       THEN Item(doc[i].key, NormalizeBlock(doc[i].val)) ELSE doc[i]]

\* newRoleBlock: the four lists, the member in one of them.
NewRoleBlock(list, member) ==
  [j \in DOMAIN ListKeys |->
     Item(ListKeys[j], IF ListKeys[j] = list THEN <<member>> ELSE <<>>)]

\* Mutant: the block is put after a role of a higher index.
InsertRoleBlockLate(doc, sc, key, block) ==
  LET at == Seqs!SelectInSeq(doc, LAMBDA it :
              it.key \notin sc.headKeys /\ CanonicalIdx(sc, it.key) = 0)
  IN  Seqs!InsertAt(doc, IF at = 0 THEN Len(doc) + 1 ELSE at, Item(key, block))

\* insertRoleBlock: before the first later role or the first key that is neither
\* a head key nor a role, at the end if there is none.
InsertRoleBlock(doc, sc, key, block) ==
  LET Stop(it) == /\ it.key \notin sc.headKeys
                  /\ \/ CanonicalIdx(sc, it.key) = 0
                     \/ CanonicalIdx(sc, it.key) > CanonicalIdx(sc, key)
      at == Seqs!SelectInSeq(doc, Stop)
  IN  Seqs!InsertAt(doc, IF at = 0 THEN Len(doc) + 1 ELSE at, Item(key, block))

ReplaceVal(ms, i, val) == [ms EXCEPT ![i].val = val]

\* Mutant: the list takes the member without a look at what it holds.
AddMemberTwice(doc, sc, key, list, member) ==
  LET ri    == IndexOfKey(doc, key)
      block == AsSeq(doc[ri].val)
      li    == IndexOfKey(block, list)
  IN  CASE ri = 0 -> InsertRoleBlock(doc, sc, key, NewRoleBlock(list, member))
        [] ri # 0 /\ li = 0 -> ReplaceVal(doc, ri, Append(block, Item(list, <<member>>)))
        [] OTHER -> ReplaceVal(doc, ri,
                      ReplaceVal(block, li, Append(AsSeq(block[li].val), member)))

\* applyListEdit, "add": a missing block or list is made, a member is not
\* added twice.
AddMember(doc, sc, key, list, member) ==
  LET ri    == IndexOfKey(doc, key)
      block == AsSeq(doc[ri].val)
      li    == IndexOfKey(block, list)
      seq   == AsSeq(block[li].val)
  IN  CASE ri = 0 -> InsertRoleBlock(doc, sc, key, NewRoleBlock(list, member))
        [] ri # 0 /\ li = 0 -> ReplaceVal(doc, ri, Append(block, Item(list, <<member>>)))
        [] ri # 0 /\ li # 0 /\ Seqs!Contains(seq, member) -> doc
        [] OTHER -> ReplaceVal(doc, ri, ReplaceVal(block, li, Append(seq, member)))

\* The members of a list but one, kept in their order.
Without(seq, member) ==
  LET kept[n \in 0 .. Len(seq)] ==
        IF n = 0 THEN <<>>
        ELSE IF seq[n] = member THEN kept[n - 1] ELSE Append(kept[n - 1], seq[n])
  IN  kept[Len(seq)]

\* Mutant: the list is written back without looking up its place in the block.
RemoveMemberFirstList(doc, key, list, member) ==
  LET ri    == IndexOfKey(doc, key)
      block == AsSeq(doc[ri].val)
      li    == IndexOfKey(block, list)
  IN  IF ri = 0 \/ li = 0 THEN doc
      ELSE ReplaceVal(doc, ri, ReplaceVal(block, 1,
             Without(AsSeq(block[li].val), member)))

\* Mutant: a list that becomes empty goes away with its key.
RemoveMemberAndList(doc, key, list, member) ==
  LET ri    == IndexOfKey(doc, key)
      block == AsSeq(doc[ri].val)
      li    == IndexOfKey(block, list)
      rest  == Without(AsSeq(block[li].val), member)
  IN  IF ri = 0 \/ li = 0 THEN doc
      ELSE ReplaceVal(doc, ri, IF rest = <<>> THEN Seqs!RemoveAt(block, li)
                                              ELSE ReplaceVal(block, li, rest))

\* applyListEdit, "remove": a missing block, list or member is left alone.
RemoveMember(doc, key, list, member) ==
  LET ri    == IndexOfKey(doc, key)
      block == AsSeq(doc[ri].val)
      li    == IndexOfKey(block, list)
      seq   == AsSeq(block[li].val)
  IN  IF ri = 0 \/ li = 0 \/ ~Seqs!Contains(seq, member) THEN doc
      ELSE ReplaceVal(doc, ri,
             ReplaceVal(block, li, Without(seq, member)))

ValidOp(sc, op) ==
  /\ op.member # ""
  /\ op.role \in DOMAIN sc.roleKeys
  /\ Seqs!Contains(ListKeys, op.list)
  /\ op.action \in {"add", "remove"}

\* applyListEdit on a valid operation.
ApplyListEdit(doc, sc, op) ==
  IF op.action = "add"
    THEN AddMember(doc, sc, sc.roleKeys[op.role], op.list, op.member)
    ELSE RemoveMember(doc, sc.roleKeys[op.role], op.list, op.member)

Valid(sc, ops) == \A i \in DOMAIN ops : ValidOp(sc, ops[i])

\* Mutant: every operation starts from the document that was read.
ApplyLastOp(current, sc, ops) ==
  ApplyListEdit(Normalize(current, sc), sc, ops[Len(ops)])

\* The loop over a batch: the documents after 0, 1, ... of its operations.
Progress(before, sc, ops) ==
  LET after[n \in 0 .. Len(ops)] ==
        IF n = 0 THEN before ELSE ApplyListEdit(after[n - 1], sc, ops[n])
  IN  after

\* ApplySpaceUserOps, ApplyOrgUserOps and ApplySpaceGroupOps on a valid batch;
\* the bytes that were read come back if nothing changed.  An invalid operation
\* anywhere in the batch is an error of the whole call.
ApplyOps(current, sc, ops) ==
  LET before == Normalize(current, sc)
      after  == Progress(before, sc, ops)[Len(ops)]
  IN  IF after = before THEN current ELSE after

\* AddUserToSpaceRole and RemoveUserFromSpaceRole: the same for one operation.
ApplyOne(current, op) == ApplyOps(current, SpaceSchema, <<op>>)

\* The list functions (list_space_users.go, list_org_users.go and
\* list_space_groups.go): who a role's list names.
Members(doc, sc, role, list) ==
  LET ri == IndexOfKey(doc, sc.roleKeys[role])
      li == IndexOfKey(AsSeq(doc[ri].val), list)
  IN  IF ri = 0 \/ li = 0 THEN {} ELSE Seqs!ToSet(AsSeq(AsSeq(doc[ri].val)[li].val))
=============================================================================
