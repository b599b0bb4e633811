--------------------------- MODULE ConfigFileProofs ---------------------------
(***************************************************************************)
(* What holds of a config file through any sequence of batches, for any    *)
(* files, names, settings and operations, and batches of any length.  That *)
(* cf-mgmt can load the file is inductive, and enough for all that is said *)
(* of the next batch; for the layout, what the file has before its role    *)
(* blocks is inductive too.                                                *)
(***************************************************************************)
EXTENDS NodeEditLemmas

(* The batches of the model pass validation.                               *)
LEMMA BatchIsGood ==
  ASSUME sc \in Schemas, NEW ops \in GoodBatches
  PROVE  ops \in Seq(Ops(sc)) /\ GoodOps(sc, ops)
<1>1. PICK n \in 1 .. MaxBatch : ops \in [1 .. n -> Ops(sc)]
  BY DEF GoodBatches, Batches
<1>2. n \in Nat
  BY FilesAssumption
<1>3. ops \in Seq(Ops(sc)) /\ Len(ops) = n /\ DOMAIN ops = 1 .. n
  BY <1>1, <1>2
<1>4. \A i \in 1 .. n : ValidOp(sc, ops[i]) /\ ops[i] \in Ops(sc)
  BY <1>1, <1>3 DEF GoodBatches, Valid
<1>5. \A i \in 1 .. n : ops[i].member \in Names
  BY <1>4, FilesAssumption DEF Schemas
<1> QED BY <1>2, <1>3, <1>4, <1>5 DEF GoodOps, GoodOp

(* So does the one operation of add or remove user.                        *)
LEMMA OneIsGood ==
  ASSUME sc \in Schemas, NEW op \in Ops(sc), Valid(sc, <<op>>)
  PROVE  <<op>> \in Seq(Ops(sc)) /\ GoodOps(sc, <<op>>)
<1> DEFINE ops == <<op>>
<1>1. ops \in Seq(Ops(sc)) /\ Len(ops) = 1 /\ DOMAIN ops = 1 .. 1 /\ ops[1] = op
  OBVIOUS
<1> HIDE DEF ops
<1>2. ValidOp(sc, op)
  BY <1>1 DEF Valid, ops
<1>3. op.member \in Names
  BY <1>2, FilesAssumption DEF Schemas
<1>4. \A i \in 1 .. 1 : ops[i] = op
  BY <1>1
<1>5. GoodOps(sc, ops)
  BY <1>1, <1>2, <1>3, <1>4 DEF GoodOps, GoodOp
<1> QED BY <1>1, <1>5 DEF ops

(* A batch returns the document that was read, or the one its operations   *)
(* lead to.                                                                *)
LEMMA ApplyOpsDef ==
  ASSUME NEW s \in Schemas, NEW d, WellFormed(s, d), NEW T, NEW ops \in Seq(T), GoodOps(s, ops)
  PROVE  LET before == Normalize(d, s)
             final == Progress(before, s, ops)[Len(ops)]
             new == ApplyOps(d, s, ops)
         IN  /\ NormalDoc(s, before) /\ NormalDoc(s, final)
             /\ final = before => new = d
             /\ final # before => new = final
             /\ WellFormed(s, new)
             /\ \A role \in Roles(s), list \in Lists :
                  Members(new, s, role, list) = Members(final, s, role, list)
<1> DEFINE before == Normalize(d, s)
           final == Progress(before, s, ops)[Len(ops)]
           new == ApplyOps(d, s, ops)
<1>1. NormalDoc(s, before)
      /\ \A role \in Roles(s) : \A list : Members(before, s, role, list) = Members(d, s, role, list)
  BY NormalizeKeeps
<1>2. new = IF final = before THEN d ELSE final
  BY DEF ApplyOps
<1>3. NormalDoc(s, final)
  <2>1. Len(ops) \in 0 .. Len(ops)
    OBVIOUS
  <2> HIDE DEF before
  <2> QED BY <1>1, <2>1, Each
<1> HIDE DEF before, final, new
<1>4. WellFormed(s, new)
  BY <1>2, <1>3, NormalIsWellFormed
<1>5. ASSUME NEW role \in Roles(s), NEW list \in Lists
      PROVE  Members(new, s, role, list) = Members(final, s, role, list)
  <2>1. CASE final = before
    BY <1>1, <1>2, <2>1
  <2>2. CASE final # before
    BY <1>2, <2>2
  <2> QED BY <2>1, <2>2
<1> QED BY <1>1, <1>2, <1>3, <1>4, <1>5 DEF before, final, new

(* Inductive: cf-mgmt can load the file.                                   *)
FileInv == sc \in Schemas /\ WellFormed(sc, doc)
(* Inductive: and it is laid out as cf-mgmt writes it.                     *)
OrderInv == FileInv /\ HeadsOnly(sc, doc) /\ Ordered(sc, doc)

(* Every step is a batch, that of one operation too.                       *)
LEMMA StepIsBatch ==
  ASSUME FileInv, Next
  PROVE  sc' = sc /\ \E ops \in Seq(Ops(sc)) : GoodOps(sc, ops) /\ doc' = ApplyOps(doc, sc, ops)
<1>1. CASE OneUser
  <2>1. PICK op \in Ops(sc) : Valid(sc, <<op>>) /\ doc' = ApplyOne(doc, op)
    BY <1>1 DEF OneUser
  <2>2. doc' = ApplyOps(doc, sc, <<op>>)
    BY <1>1, <2>1 DEF OneUser, ApplyOne
  <2> QED BY <1>1, <2>1, <2>2, OneIsGood DEF OneUser, FileInv
<1>2. CASE Batch
  BY <1>2, BatchIsGood DEF Batch, FileInv
<1> QED BY <1>1, <1>2 DEF Next

(* The file is of one of the two schemas and loads, always.                *)
THEOREM WellFormedAlways == Spec => []FileInv
<1>1. Init => FileInv
  BY FilesAssumption DEF Init, FileInv, Schemas
<1>2. FileInv /\ [Next]_fileVars => FileInv'
  <2> SUFFICES ASSUME FileInv, [Next]_fileVars PROVE FileInv'
    OBVIOUS
  <2>1. CASE Next
    <3>1. PICK ops \in Seq(Ops(sc)) : sc' = sc /\ GoodOps(sc, ops) /\ doc' = ApplyOps(doc, sc, ops)
      BY <2>1, StepIsBatch
    <3>2. WellFormed(sc, ApplyOps(doc, sc, ops))
      BY <3>1, ApplyOpsDef DEF FileInv
    <3> QED BY <3>1, <3>2 DEF FileInv
  <2>2. CASE UNCHANGED fileVars
    BY <2>2 DEF fileVars, FileInv
  <2> QED BY <2>1, <2>2
<1> QED BY <1>1, <1>2, PTL DEF Spec

(* DocOK: no sequence of batches leaves a key, a list or a member twice,   *)
(* or anything but lists in a role block (applyListEdit,                   *)
(* normalizeRoleLists).                                                    *)
THEOREM DocumentsStayWellFormed == Spec => []DocOK
<1>1. FileInv => DocOK
  BY DEF FileInv, DocOK
<1> QED BY <1>1, WellFormedAlways, PTL

(* CanonicalOrder: for files that have no identity key but the head keys,  *)
(* no batch puts a role block before an identity key, after another        *)
(* setting or out of its order (insertRoleBlock). The hypothesis is        *)
(* needed: a file with original-space refutes the property.                *)
THEOREM OrderStaysCanonical ==
  ASSUME \A d \in Documents : HeadsOnly(d[1], d[2])
  PROVE  Spec => []CanonicalOrder
<1>1. Init => OrderInv
  BY FilesAssumption DEF Init, OrderInv, FileInv, Schemas
<1>2. OrderInv /\ [Next]_fileVars => OrderInv'
  <2> SUFFICES ASSUME OrderInv, [Next]_fileVars PROVE OrderInv'
    OBVIOUS
  <2>1. CASE Next
    <3>1. PICK ops \in Seq(Ops(sc)) : sc' = sc /\ GoodOps(sc, ops) /\ doc' = ApplyOps(doc, sc, ops)
      BY <2>1, StepIsBatch DEF OrderInv
    <3> DEFINE before == Normalize(doc, sc)
               final == Progress(before, sc, ops)[Len(ops)]
               new == ApplyOps(doc, sc, ops)
    <3>2. sc \in Schemas /\ WellFormed(sc, doc)
      BY DEF OrderInv, FileInv
    <3>3. /\ NormalDoc(sc, before) /\ WellFormed(sc, new)
          /\ final = before => new = doc
          /\ final # before => new = final
      BY <3>1, <3>2, ApplyOpsDef
    <3>4. HeadsOnly(sc, before) /\ Ordered(sc, before)
      BY <3>2, NormalizeKeeps DEF OrderInv
    <3> HIDE DEF before
    <3>5. HeadsOnly(sc, final) /\ Ordered(sc, final)
      BY <3>1, <3>2, <3>3, <3>4, ProgressOrder
    <3>6. HeadsOnly(sc, new) /\ Ordered(sc, new)
      BY <3>3, <3>5 DEF OrderInv
    <3> HIDE DEF final, new
    <3> QED BY <3>1, <3>2, <3>3, <3>6 DEF OrderInv, FileInv, new
  <2>2. CASE UNCHANGED fileVars
    BY <2>2 DEF fileVars, FileInv, OrderInv
  <2> QED BY <2>1, <2>2
<1>3. OrderInv => CanonicalOrder
  BY DEF OrderInv, CanonicalOrder
<1> QED BY <1>1, <1>2, <1>3, PTL DEF Spec

(* The members a batch leaves in a list of a file cf-mgmt can load.        *)
LEMMA MembersOfBatch ==
  ASSUME NEW s \in Schemas, NEW d, WellFormed(s, d), NEW T, NEW ops \in Seq(T), GoodOps(s, ops),
         NEW role \in Roles(s), NEW list \in Lists
  PROVE  Members(ApplyOps(d, s, ops), s, role, list)
      = (Members(d, s, role, list) \ LastOn(ops, "remove", role, list))
          \cup LastOn(ops, "add", role, list)
<1> DEFINE before == Normalize(d, s)
           final == Progress(before, s, ops)[Len(ops)]
           new == ApplyOps(d, s, ops)
<1>1. NormalDoc(s, before) /\ Members(new, s, role, list) = Members(final, s, role, list)
  BY ApplyOpsDef
<1>2. Members(before, s, role, list) = Members(d, s, role, list)
  BY NormalizeKeeps
<1> HIDE DEF before
<1>3. Members(final, s, role, list) = (Members(before, s, role, list) \ LastOn(ops, "remove", role, list))
          \cup LastOn(ops, "add", role, list)
  BY <1>1, ProgressMembers
<1> QED BY <1>1, <1>2, <1>3

(* ExactMembers: a batch changes the members of every list as its          *)
(* operations say, in files of any shape (ApplySpaceUserOps,               *)
(* ApplyOrgUserOps, ApplySpaceGroupOps).                                   *)
THEOREM MembershipIsExact == Spec => []ExactMembers
<1>1. FileInv => ExactMembers
  BY BatchIsGood, MembersOfBatch DEF FileInv, ExactMembers
<1> QED BY <1>1, WellFormedAlways, PTL

(* What a batch leaves alone in a file cf-mgmt can load.                   *)
LEMMA OthersOfBatch ==
  ASSUME NEW s \in Schemas, NEW d, WellFormed(s, d), NEW T, NEW ops \in Seq(T), GoodOps(s, ops)
  PROVE  LET after == ApplyOps(d, s, ops)
         IN  /\ InOrder(Normalize(after, s), EditedKeys(s, ops))
                  = InOrder(Normalize(d, s), EditedKeys(s, ops))
             /\ \A i \in 1 .. Len(d) : CanonicalIdx(s, d[i].key) # 0 =>
                  LET k == IndexOfKey(after, d[i].key)
                      named == EditedLists(s, ops, d[i].key)
                  IN  k # 0 /\ InOrder(BlockAt(after, k), named) = InOrder(BlockAt(d, i), named)
<1> DEFINE before == Normalize(d, s)
           final == Progress(before, s, ops)[Len(ops)]
           new == ApplyOps(d, s, ops)
<1>1. /\ NormalDoc(s, before) /\ NormalDoc(s, final)
      /\ final = before => new = d
      /\ final # before => new = final
  BY ApplyOpsDef
<1>2. /\ Len(before) = Len(d) /\ \A i \in 1 .. Len(d) : before[i].key = d[i].key
      /\ \A i \in 1 .. Len(d) : CanonicalIdx(s, d[i].key) # 0 =>
                  AsSeq(before[i].val) = NormalizeBlock(AsSeq(d[i].val))
  BY NormalizeDef
<1> HIDE DEF before
<1>3. /\ InOrder(final, EditedKeys(s, ops)) = InOrder(before, EditedKeys(s, ops))
      /\ \A key : IndexOfKey(before, key) # 0 =>
           /\ IndexOfKey(final, key) # 0
           /\ InOrder(BlockOf(final, key), EditedLists(s, ops, key))
                = InOrder(BlockOf(before, key), EditedLists(s, ops, key))
  BY <1>1, ProgressOthers
<1>4. Normalize(final, s) = final
  <2> HIDE DEF final
  <2> QED BY <1>1, NormalIsWellFormed, NormalizeDef
<1> HIDE DEF final, new
<1>5. InOrder(Normalize(new, s), EditedKeys(s, ops)) = InOrder(Normalize(d, s), EditedKeys(s, ops))
  <2>1. CASE final = before
    BY <1>1, <2>1
  <2>2. CASE final # before
    BY <1>1, <1>3, <1>4, <2>2 DEF before
  <2> QED BY <2>1, <2>2
<1>6. ASSUME NEW i \in 1 .. Len(d), CanonicalIdx(s, d[i].key) # 0
      PROVE  LET k == IndexOfKey(new, d[i].key)
                 named == EditedLists(s, ops, d[i].key)
             IN  k # 0 /\ InOrder(BlockAt(new, k), named) = InOrder(BlockAt(d, i), named)
  <2> DEFINE key == d[i].key
             k == IndexOfKey(new, key)
             named == EditedLists(s, ops, key)
  <2>0. i # 0 /\ IndexOfKey(d, key) = i
    BY IndexOfUnique DEF WellFormed
  <2>1. CASE final = before
    BY <1>1, <2>0, <2>1
  <2>2. CASE final # before
    <3>1. before[i].key = key /\ AsSeq(before[i].val) = BlockAt(d, i)
      BY <1>2, <1>6 DEF BlockAt
    <3>2. IndexOfKey(before, key) = i /\ BlockOf(before, key) = BlockAt(d, i)
      <4>1. IndexOfKey(before, before[i].key) = i /\ BlockOf(before, before[i].key) = AsSeq(before[i].val)
        BY <1>1, <1>2, BlockOfDef
      <4> QED BY <3>1, <4>1
    <3>3. /\ IndexOfKey(final, key) # 0
          /\ InOrder(BlockOf(final, key), named) = InOrder(BlockOf(before, key), named)
      BY <1>3, <2>0, <3>2
    <3>4. k = IndexOfKey(final, key) /\ new = final
      BY <1>1, <2>2
    <3>5. BlockAt(new, k) = NormalizeBlock(BlockOf(final, key))
      BY <3>3, <3>4 DEF BlockAt, BlockOf
    <3>6. NormalBlock(BlockOf(final, key))
      BY <1>1, <1>6, BlockOfDef
    <3>7. BlockAt(new, k) = BlockOf(final, key)
      BY <3>5, <3>6, NormalIsBlock, NormalizeBlockDef
    <3> HIDE DEF key, k, named
    <3>8. k # 0 /\ InOrder(BlockAt(new, k), named) = InOrder(BlockAt(d, i), named)
      BY <3>2, <3>3, <3>4, <3>7
    <3> QED BY <3>8 DEF key, k, named
  <2> QED BY <2>1, <2>2
<1> QED BY <1>5, <1>6 DEF new

(* OthersIntact: nothing moves or changes that no operation names, up to   *)
(* bare list keys (ReplaceVal, insertRoleBlock and the list functions).    *)
THEOREM OthersStayIntact == Spec => []OthersIntact
<1>1. FileInv => OthersIntact
  <2> SUFFICES ASSUME FileInv, NEW ops \in GoodBatches
               PROVE  LET after == ApplyOps(doc, sc, ops)
                      IN  /\ InOrder(Normalize(after, sc), EditedKeys(sc, ops))
                               = InOrder(Normalize(doc, sc), EditedKeys(sc, ops))
                          /\ \A i \in DOMAIN doc : doc[i].key \in EditedKeys(sc, ops) =>
                               LET k == IndexOfKey(after, doc[i].key)
                                   named == EditedLists(sc, ops, doc[i].key)
                               IN  k # 0 /\ InOrder(BlockAt(after, k), named) = InOrder(BlockAt(doc, i), named)
    BY DEF OthersIntact
  <2>1. sc \in Schemas /\ WellFormed(sc, doc) /\ ops \in Seq(Ops(sc)) /\ GoodOps(sc, ops)
    BY BatchIsGood DEF FileInv
  <2>2. DOMAIN doc = 1 .. Len(doc)
    BY <2>1 DEF WellFormed
  <2>3. \A key \in EditedKeys(sc, ops) : CanonicalIdx(sc, key) # 0
    BY <2>1, SchemaFacts DEF EditedKeys, GoodOps, GoodOp, ValidOp
  <2> QED BY <2>1, <2>2, <2>3, OthersOfBatch
<1> QED BY <1>1, WellFormedAlways, PTL

(* If each operation has a line of its own, every member added is there at *)
(* the end and every member removed is not.                                *)
LEMMA OnePerLine ==
  ASSUME NEW s \in Schemas, NEW d, WellFormed(s, d), NEW T, NEW ops \in Seq(T), GoodOps(s, ops),
         OneOpPerLine(ops), NEW i \in 1 .. Len(ops)
  PROVE  ops[i].action = "add"
           <=> ops[i].member \in Members(ApplyOps(d, s, ops), s, ops[i].role, ops[i].list)
<1> DEFINE op == ops[i]
<1>1. /\ op.role \in Roles(s) /\ op.list \in Lists /\ op.action \in {"add", "remove"}
      /\ DOMAIN ops = 1 .. Len(ops) /\ Len(ops) \in Nat
  BY ListKeysDef DEF GoodOps, GoodOp, ValidOp, Roles
<1>2. \A j \in 1 .. Len(ops) : j # i =>
        ~(ops[j].role = op.role /\ ops[j].list = op.list /\ ops[j].member = op.member)
  BY <1>1 DEF OneOpPerLine
<1>3. op.member \in LastOn(ops, op.action, op.role, op.list)
  <2>1. \A k \in DOMAIN ops : k > i => <<ops[k].role, ops[k].list, ops[k].member>>
                                         # <<op.role, op.list, ops[i].member>>
    BY <1>1, <1>2
  <2>2. i \in {j \in DOMAIN ops :
     /\ ops[j].action = op.action /\ ops[j].role = op.role /\ ops[j].list = op.list
     /\ \A k \in DOMAIN ops : k > j =>
          <<ops[k].role, ops[k].list, ops[k].member>>
            # <<op.role, op.list, ops[j].member>>}
    BY <1>1, <2>1
  <2> QED BY <2>2 DEF LastOn
<1>4. ASSUME NEW action, op.member \in LastOn(ops, action, op.role, op.list) PROVE action = op.action
  BY <1>1, <1>2, <1>4 DEF LastOn
<1>5. Members(ApplyOps(d, s, ops), s, op.role, op.list)
      = (Members(d, s, op.role, op.list) \ LastOn(ops, "remove", op.role, op.list))
          \cup LastOn(ops, "add", op.role, op.list)
  BY <1>1, MembersOfBatch
<1> HIDE DEF op
<1>6. CASE op.action = "add"
  BY <1>3, <1>5, <1>6 DEF op
<1>7. CASE op.action = "remove"
  BY <1>3, <1>4, <1>5, <1>7 DEF op
<1> QED BY <1>1, <1>6, <1>7

(* The no-op signal of such a batch.                                       *)
LEMMA NoOpOfBatch ==
  ASSUME NEW s \in Schemas, NEW d, WellFormed(s, d), NEW T, NEW ops \in Seq(T), GoodOps(s, ops),
         OneOpPerLine(ops)
  PROVE  LET after == ApplyOps(d, s, ops)
         IN  /\ (after = d) <=>
                  \A role \in Roles(s) : \A list \in Lists :
                    Members(after, s, role, list) = Members(d, s, role, list)
             /\ ApplyOps(after, s, ops) = after
<1> DEFINE before == Normalize(d, s)
           final == Progress(before, s, ops)[Len(ops)]
           after == ApplyOps(d, s, ops)
<1>1. /\ NormalDoc(s, before) /\ NormalDoc(s, final)
      /\ final = before => after = d
      /\ final # before => after = final
  BY ApplyOpsDef
<1>2. \A role \in Roles(s) : \A list : Members(before, s, role, list) = Members(d, s, role, list)
  BY NormalizeKeeps
<1>3. \A i \in 1 .. Len(ops) : ops[i].action = "add"
           <=> ops[i].member \in Members(after, s, ops[i].role, ops[i].list)
  BY OnePerLine
<1>4. \A i \in 1 .. Len(ops) : ops[i].role \in Roles(s) /\ ops[i].list \in Lists
  BY ListKeysDef DEF GoodOps, GoodOp, ValidOp, Roles
<1>5. ASSUME \A role \in Roles(s) : \A list \in Lists :
               Members(after, s, role, list) = Members(d, s, role, list)
      PROVE  after = d
  <2>1. \A i \in 1 .. Len(ops) : ops[i].action = "add"
           <=> ops[i].member \in Members(before, s, ops[i].role, ops[i].list)
    <3> HIDE DEF before, after
    <3> QED BY <1>2, <1>3, <1>4, <1>5
  <2>2. final = before
    <3> HIDE DEF before
    <3> QED BY <1>1, <2>1, ProgressNoOp
  <2> QED BY <1>1, <2>2
<1>6. ApplyOps(after, s, ops) = after
  <2>1. CASE final = before
    BY <1>1, <2>1
  <2>2. CASE final # before
    <3>1. after = final
      BY <1>1, <2>2
    <3> HIDE DEF final, after
    <3>2. Normalize(final, s) = final
      BY <1>1, NormalIsWellFormed, NormalizeDef
    <3>3. Progress(final, s, ops)[Len(ops)] = final
      BY <1>1, <1>3, <3>1, ProgressNoOp
    <3>4. ApplyOps(final, s, ops) = final
      BY <3>2, <3>3 DEF ApplyOps
    <3> QED BY <3>1, <3>4
  <2> QED BY <2>1, <2>2
<1> HIDE DEF after
<1> QED BY <1>5, <1>6 DEF after

(* NoOpSignal: the bytes that were read come back iff the members of no    *)
(* list change, and a batch sent again is a no-op (the comparison at the   *)
(* end of the Apply functions).                                            *)
THEOREM NoOpSignalIsExact == Spec => []NoOpSignal
<1>1. FileInv => NoOpSignal
  BY BatchIsGood, NoOpOfBatch DEF FileInv, NoOpSignal
<1> QED BY <1>1, WellFormedAlways, PTL
=============================================================================
