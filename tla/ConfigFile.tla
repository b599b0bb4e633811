----------------------------- MODULE ConfigFile -----------------------------
(***************************************************************************)
(* One config file over the merge requests of the portal: any sequence of  *)
(* batches is applied to it, each reading what the one before left.        *)
(***************************************************************************)
EXTENDS NodeEdit

CONSTANTS
  Documents,  \* <<schema, document>> pairs a file may start as
  Ops(_),     \* the operations posted for a file of a schema
  Names,      \* the members: user and group names
  Options,    \* the keys of a file's other settings
  Values,     \* the values of all keys but the role blocks
  MaxBatch    \* bound: operations of a batch

VARIABLES
  sc,   \* the schema of the file
  doc   \* the document

fileVars == <<sc, doc>>

-----------------------------------------------------------------------------
(* Documents. *)

Schemas == {SpaceSchema, OrgSchema}

Lists == Seqs!ToSet(ListKeys)
Blocks == Seq([key : Lists, val : {Nil} \cup Seq(Names)])

NoRepeats(seq) == Seqs!IsInjective(seq)
Keys(ms) == [i \in DOMAIN ms |-> ms[i].key]

\* The keys cf-mgmt writes before the role blocks (config.SpaceConfig and
\* config.OrgConfig), present or not in a given file.
IdentityKeys == {"org", "space", "original-org", "original-space",
                 "org-billingmanager-group", "org-manager-group", "org-auditor-group"}

RoleKeys(schema) == Seqs!ToSet(schema.canonical)
Items(schema) == [key : IdentityKeys \cup RoleKeys(schema) \cup Options,
                  val : {Nil} \cup Values \cup Blocks]

\* What cf-mgmt can load: no key twice; role blocks of lists under the four list
\* keys, bare or not, no list twice in a block, no member twice in a list.
BlockOK(block) ==
  /\ block \in Blocks
  /\ NoRepeats(Keys(block))
  /\ \A j \in DOMAIN block : NoRepeats(AsSeq(block[j].val))

WellFormed(schema, d) ==
  /\ d \in Seq(Items(schema))
  /\ NoRepeats(Keys(d))
  /\ \A i \in DOMAIN d : CanonicalIdx(schema, d[i].key) # 0 => BlockOK(AsSeq(d[i].val))

\* Where cf-mgmt writes a key: the identity keys, the role blocks in canonical
\* order, all others.
Rank(schema, key) ==
  CASE key \in IdentityKeys -> 0
    [] key \notin IdentityKeys /\ CanonicalIdx(schema, key) # 0 -> CanonicalIdx(schema, key)
    [] OTHER -> Len(schema.canonical) + 1
Ordered(schema, d) ==
  \A i, j \in DOMAIN d : i < j => Rank(schema, d[i].key) <= Rank(schema, d[j].key)

\* The mark of a bare key is no list.  The files start as cf-mgmt writes them,
\* and every valid operation names a member.
ASSUME FilesAssumption ==
  /\ Nil \notin Blocks /\ Nil \notin Seq(Names)
  /\ MaxBatch \in Nat
  /\ \A d \in Documents : /\ d[1] \in Schemas
                          /\ WellFormed(d[1], d[2]) /\ Ordered(d[1], d[2])
  /\ \A schema \in Schemas : \A op \in Ops(schema) :
       ValidOp(schema, op) => op.member \in Names

-----------------------------------------------------------------------------
Batches == UNION {[1 .. n -> Ops(sc)] : n \in 1 .. MaxBatch}
GoodBatches == {ops \in Batches : Valid(sc, ops)}

Init == \E d \in Documents : sc = d[1] /\ doc = d[2]

\* Add user to role and remove user from role exist for spaces only.
OneUser ==
  /\ sc = SpaceSchema
  /\ \E op \in Ops(sc) :
       /\ Valid(sc, <<op>>)
       /\ op.list # "ldap_groups"
       /\ doc' = ApplyOne(doc, op)
  /\ UNCHANGED sc

Batch ==
  /\ \E ops \in GoodBatches : doc' = ApplyOps(doc, sc, ops)
  /\ UNCHANGED sc

Next == OneUser \/ Batch

Spec == Init /\ [][Next]_fileVars

-----------------------------------------------------------------------------
Roles(schema) == DOMAIN schema.roleKeys

\* The file stays a document cf-mgmt can load, through any sequence of batches.
DocOK == WellFormed(sc, doc)

\* The role blocks stay where cf-mgmt writes them: after the identity keys,
\* before all others, and in canonical order.
CanonicalOrder == Ordered(sc, doc)

\* The members a batch leaves in a list, by the operations alone: the last
\* operation on a member decides.  This is the effect Portal and Handlers give
\* a form.
LastOn(ops, action, role, list) ==
  {ops[i].member : i \in {j \in DOMAIN ops :
     /\ ops[j].action = action /\ ops[j].role = role /\ ops[j].list = list
     /\ \A k \in DOMAIN ops : k > j =>
          <<ops[k].role, ops[k].list, ops[k].member>>
            # <<role, list, ops[j].member>>}}

\* A batch changes the membership of every list of the file exactly as its
\* operations say, whatever blocks, lists or bare keys the file had.
ExactMembers ==
  \A ops \in GoodBatches : \A role \in Roles(sc) : \A list \in Lists :
    Members(ApplyOps(doc, sc, ops), sc, role, list)
      = (Members(doc, sc, role, list) \ LastOn(ops, "remove", role, list))
          \cup LastOn(ops, "add", role, list)

\* The items of a map slice other than those of some keys, in their order: each
\* one that is at or before another, with that other.
InOrder(ms, but) ==
  {<<ms[p[1]], ms[p[2]]>> : p \in {q \in (DOMAIN ms) \X (DOMAIN ms) :
     q[1] <= q[2] /\ {ms[q[1]].key, ms[q[2]].key} \cap but = {}}}

EditedKeys(schema, ops) == {schema.roleKeys[ops[i].role] : i \in DOMAIN ops}
EditedLists(schema, ops, key) ==
  {ops[i].list : i \in {j \in DOMAIN ops : schema.roleKeys[ops[j].role] = key}}

\* The value of a block that is there, without its bare list keys.
BlockAt(d, i) == NormalizeBlock(AsSeq(d[i].val))

\* A batch leaves everything alone that none of its operations names: the other
\* items are there in the same order and, up to bare list keys, with the same
\* values, and so are the other lists of the blocks it edits.
OthersIntact ==
  \A ops \in GoodBatches :
    LET after == ApplyOps(doc, sc, ops)
    IN  /\ InOrder(Normalize(after, sc), EditedKeys(sc, ops))
             = InOrder(Normalize(doc, sc), EditedKeys(sc, ops))
        /\ \A i \in DOMAIN doc : doc[i].key \in EditedKeys(sc, ops) =>
             LET k == IndexOfKey(after, doc[i].key)
                 named == EditedLists(sc, ops, doc[i].key)
             IN  k # 0 /\ InOrder(BlockAt(after, k), named) = InOrder(BlockAt(doc, i), named)

\* The operations of a batch each concern a line of their own, as those staged
\* by the pages do.
OneOpPerLine(ops) ==
  \A i, j \in DOMAIN ops :
    i # j => <<ops[i].role, ops[i].list, ops[i].member>>
               # <<ops[j].role, ops[j].list, ops[j].member>>

\* For such a batch the no-op signal is exact: the bytes come back as they were
\* iff no list changes its members, and posting the batch again is a no-op.
NoOpSignal ==
  \A ops \in GoodBatches : OneOpPerLine(ops) =>
    LET after == ApplyOps(doc, sc, ops)
    IN  /\ (after = doc) <=>
             \A role \in Roles(sc) : \A list \in Lists :
               Members(after, sc, role, list) = Members(doc, sc, role, list)
        /\ ApplyOps(after, sc, ops) = after

\* "a net no-op batch (e.g. add then remove the same user) return[s] the original
\* bytes", for a user who was not in the list.
NetNoOpKeepsBytes ==
  \A ops \in GoodBatches :
    (/\ Len(ops) = 2
     /\ ops[1].action = "add"
     /\ ops[2] = [ops[1] EXCEPT !.action = "remove"]
     /\ ops[1].member \notin Members(doc, sc, ops[1].role, ops[1].list))
    => ApplyOps(doc, sc, ops) = doc
=============================================================================
