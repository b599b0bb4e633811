---------------------------- MODULE NodeEditLemmas ----------------------------
(***************************************************************************)
(* What the operators of NodeEdit do to a config file that cf-mgmt can     *)
(* load, for files, lists and batches of any length: from the edit of one  *)
(* list up to the loop over a batch.  An induction over the natural        *)
(* numbers (UpTo) follows the recursive functions Without and Progress.    *)
(***************************************************************************)
EXTENDS ConfigFile, WellFoundedInduction, TLAPS

-----------------------------------------------------------------------------
(* Counting.                                                               *)

(* Each set of natural numbers has a least element.                        *)
LEMMA NatHasMin ==
  ASSUME NEW S, S \subseteq Nat, S # {}
  PROVE  \E x \in S : \A y \in S : x <= y
<1> DEFINE R == {ss \in Nat \X Nat : ss[1] < ss[2]}
<1>1. IsWellFoundedOn(R, Nat)
  BY NatLessThanWellFounded DEF OpToRel
<1>2. \E x \in S : \A y \in S : <<y, x>> \notin R
  <2> HIDE DEF R
  <2> QED BY <1>1, WFMin
<1>3. \A x, y \in Nat : <<y, x>> \notin R => x <= y
  OBVIOUS
<1> QED BY <1>2, <1>3

(* Induction up to a bound: the recursive functions of the model are       *)
(* followed with it, their values collected in a set.                      *)
LEMMA UpTo ==
  ASSUME NEW N \in Nat, NEW S, 0 \in S, \A n \in 0 .. N - 1 : n \in S => n + 1 \in S
  PROVE  0 .. N \subseteq S
<1> DEFINE left == (0 .. N) \ S
<1> SUFFICES ASSUME left # {} PROVE FALSE
  OBVIOUS
<1>1. left \subseteq Nat
  OBVIOUS
<1>2. PICK m \in left : \A y \in left : m <= y
  <2> HIDE DEF left
  <2> QED BY <1>1, NatHasMin
<1>3. m \in 1 .. N
  BY <1>2
<1>4. m - 1 \in 0 .. N - 1 /\ m - 1 \in S
  BY <1>2, <1>3
<1>5. m \in S
  BY <1>3, <1>4
<1> QED BY <1>5

(* Nothing of a set of positions is before its least element.              *)
LEMMA LeastOne ==
  ASSUME NEW N \in Nat, NEW I, I \subseteq 1 .. N, NEW x \in I, \A y \in I : x <= y
  PROVE  x \in 1 .. N /\ \A j \in 1 .. x - 1 : j \notin I
<1>1. x \in 1 .. N
  OBVIOUS
<1>2. ASSUME NEW j \in 1 .. x - 1, j \in I PROVE FALSE
  <2>1. x <= j
    BY <1>2
  <2> QED BY <1>1, <1>2, <2>1
<1> QED BY <1>1, <1>2

(* The least position of a set, 0 if there is none: what SelectInSeq       *)
(* returns.                                                                *)
First(I) == IF I # {} THEN CHOOSE x \in I : \A y \in I : x <= y ELSE 0

(* First returns a position of the set with none before it, and 0 for the  *)
(* empty set alone.                                                        *)
LEMMA FirstIsThere ==
  ASSUME NEW N \in Nat, NEW I, I \subseteq 1 .. N
  PROVE  /\ First(I) \in 0 .. N
         /\ First(I) = 0 <=> I = {}
         /\ First(I) # 0 => First(I) \in I /\ \A j \in 1 .. First(I) - 1 : j \notin I
<1>1. CASE I = {}
  BY <1>1 DEF First
<1>2. CASE I # {}
  <2>0. I \subseteq Nat
    OBVIOUS
  <2>1. \E x \in I : \A y \in I : x <= y
    BY <1>2, <2>0, NatHasMin
  <2>2. First(I) \in I /\ \A y \in I : First(I) <= y
    BY <1>2, <2>1 DEF First
  <2>3. First(I) \in 1 .. N /\ \A j \in 1 .. First(I) - 1 : j \notin I
    BY <2>2, LeastOne
  <2> QED BY <1>2, <2>2, <2>3
<1> QED BY <1>1, <1>2

-----------------------------------------------------------------------------
(* Positions in a map slice, and the two ways it is changed.               *)

(* indexOfKey finds a key iff the map slice has it.                        *)
LEMMA IndexOfKeyDef ==
  ASSUME NEW T, NEW ms \in Seq(T), NEW key
  PROVE  /\ IndexOfKey(ms, key) \in 0 .. Len(ms)
         /\ IndexOfKey(ms, key) = 0 <=> \A j \in 1 .. Len(ms) : ms[j].key # key
         /\ IndexOfKey(ms, key) # 0 => ms[IndexOfKey(ms, key)].key = key
<1> DEFINE I == {i \in 1 .. Len(ms) : ms[i].key = key}
<1>1. IndexOfKey(ms, key) = First(I)
  BY DEF First, IndexOfKey, Seqs!SelectInSeq, Seqs!Min
<1>2. I \subseteq 1 .. Len(ms)
  OBVIOUS
<1>0. Len(ms) \in Nat
  OBVIOUS
<1> HIDE DEF I
<1>3. /\ First(I) \in 0 .. Len(ms)
      /\ First(I) = 0 <=> I = {}
      /\ First(I) # 0 => First(I) \in I
  BY <1>0, <1>2, FirstIsThere
<1> QED BY <1>1, <1>3 DEF I

(* In a map slice without repeated keys it finds each item.                *)
LEMMA IndexOfUnique ==
  ASSUME NEW T, NEW ms \in Seq(T), NoRepeats(Keys(ms)), NEW i \in 1 .. Len(ms)
  PROVE  IndexOfKey(ms, ms[i].key) = i
BY IndexOfKeyDef DEF NoRepeats, Keys, Seqs!IsInjective

(* An insertion keeps what is before it and moves the rest by one.         *)
LEMMA InsertAtDef ==
  ASSUME NEW T, NEW s \in Seq(T), NEW i \in 1 .. Len(s) + 1, NEW e \in T
  PROVE  /\ Seqs!InsertAt(s, i, e) \in Seq(T)
         /\ Len(Seqs!InsertAt(s, i, e)) = Len(s) + 1
         /\ \A j \in 1 .. Len(s) + 1 : Seqs!InsertAt(s, i, e)[j] =
              IF j < i THEN s[j] ELSE IF j = i THEN e ELSE s[j - 1]
<1> DEFINE a == SubSeq(s, 1, i - 1)
           b == SubSeq(s, i, Len(s))
           n == Len(s)
<1>0. n \in Nat /\ \A j \in 1 .. n : s[j] \in T
  OBVIOUS
<1>1. a \in Seq(T) /\ Len(a) = i - 1 /\ \A j \in 1 .. i - 1 : a[j] = s[j]
  BY <1>0
<1>2. b \in Seq(T) /\ Len(b) = n - i + 1 /\ \A j \in 1 .. n - i + 1 : b[j] = s[i + j - 1]
  BY <1>0
<1> HIDE DEF a, b, n
<1>3. /\ a \o <<e>> \in Seq(T) /\ Len(a \o <<e>>) = i
      /\ \A j \in 1 .. i : (a \o <<e>>)[j] = IF j < i THEN s[j] ELSE e
  BY <1>0, <1>1
<1> DEFINE c == a \o <<e>>
<1> HIDE DEF c
<1>4. /\ c \in Seq(T) /\ Len(c) = i
      /\ \A j \in 1 .. i : c[j] = IF j < i THEN s[j] ELSE e
  BY <1>3 DEF c
<1>5. Seqs!InsertAt(s, i, e) = c \o b
  BY DEF Seqs!InsertAt, a, b, c
<1>6. c \o b \in Seq(T) /\ Len(c \o b) = n + 1
  BY <1>0, <1>2, <1>4 DEF n
<1> DEFINE r == c \o b
<1>7. ASSUME NEW j \in 1 .. n + 1
      PROVE  r[j] = IF j < i THEN s[j] ELSE IF j = i THEN e ELSE s[j - 1]
  <2>1. CASE j <= i
    BY <1>0, <1>2, <1>4, <2>1 DEF n
  <2>2. CASE j > i
    <3>1. (c \o b)[j] = b[j - i]
      BY <1>0, <1>2, <1>4, <2>2 DEF n
    <3>2. j - i \in 1 .. n - i + 1 /\ i + (j - i) - 1 = j - 1
      BY <1>0, <2>2 DEF n
    <3> QED BY <1>2, <2>2, <3>1, <3>2
  <2>3. i \in Int /\ j \in Int
    OBVIOUS
  <2> HIDE DEF r
  <2> QED BY <2>1, <2>2, <2>3
<1> QED BY <1>5, <1>6, <1>7 DEF n

(* A new value changes one item.                                           *)
LEMMA ReplaceValDef ==
  ASSUME NEW P, NEW ms \in Seq(P), NEW i \in 1 .. Len(ms), NEW v,
         ms[i] = Item(ms[i].key, ms[i].val), Item(ms[i].key, v) \in P
  PROVE  /\ ReplaceVal(ms, i, v) \in Seq(P)
         /\ Len(ReplaceVal(ms, i, v)) = Len(ms)
         /\ \A j \in 1 .. Len(ms) : ReplaceVal(ms, i, v)[j] =
              IF j = i THEN Item(ms[i].key, v) ELSE ms[j]
<1>1. [ms[i] EXCEPT !.val = v] = Item(ms[i].key, v)
  BY DEF Item
<1>2. ReplaceVal(ms, i, v) = [ms EXCEPT ![i] = Item(ms[i].key, v)]
  BY <1>1 DEF ReplaceVal
<1> QED BY <1>2

-----------------------------------------------------------------------------
(* Removing a member from a list.                                          *)

(* f[k] is what seqRemove keeps of the first k members.                    *)
IsKept(f, seq, member, n) ==
  f = [k \in 0 .. n |-> IF k = 0 THEN <<>>
                        ELSE IF seq[k] = member THEN f[k - 1] ELSE Append(f[k - 1], seq[k])]

(* There is such a function for lists of any length.                       *)
LEMMA KeptExists ==
  ASSUME NEW seq, NEW member, NEW N \in Nat
  PROVE  \E f : IsKept(f, seq, member, N)
<1> DEFINE S == {n \in Nat : \E f : IsKept(f, seq, member, n)}
<1>1. 0 \in S
  <2> DEFINE f == [k \in 0 .. 0 |-> <<>>]
  <2>1. IsKept(f, seq, member, 0)
    BY DEF IsKept
  <2> QED BY <2>1
<1>2. ASSUME NEW n \in 0 .. N - 1, n \in S PROVE n + 1 \in S
  <2>1. PICK f : IsKept(f, seq, member, n)
    BY <1>2
  <2> DEFINE g == [k \in 0 .. n + 1 |->
                     IF k <= n THEN f[k]
                     ELSE IF seq[k] = member THEN f[n] ELSE Append(f[n], seq[k])]
             h == [k \in 0 .. n + 1 |-> IF k = 0 THEN <<>>
                        ELSE IF seq[k] = member THEN g[k - 1] ELSE Append(g[k - 1], seq[k])]
  <2>2. \A k \in 0 .. n : f[k] = IF k = 0 THEN <<>>
                        ELSE IF seq[k] = member THEN f[k - 1] ELSE Append(f[k - 1], seq[k])
    BY <2>1 DEF IsKept
  <2>3. ASSUME NEW k \in 0 .. n + 1 PROVE g[k] = h[k]
    <3>1. CASE k = 0
      BY <2>2, <3>1
    <3>2. CASE k \in 1 .. n
      <4>1. g[k] = f[k] /\ g[k - 1] = f[k - 1]
        BY <3>2
      <4>2. h[k] = IF seq[k] = member THEN g[k - 1] ELSE Append(g[k - 1], seq[k])
        BY <3>2
      <4> QED BY <2>2, <3>2, <4>1, <4>2
    <3>3. CASE k = n + 1
      <4>1. g[n] = f[n] /\ k - 1 = n
        BY <3>3
      <4> QED BY <3>3, <4>1
    <3> QED BY <3>1, <3>2, <3>3
  <2>4. g = h
    BY <2>3
  <2>5. IsKept(g, seq, member, n + 1)
    BY <2>4 DEF IsKept
  <2> QED BY <2>5
<1> HIDE DEF S
<1>3. N \in S
  BY <1>1, <1>2, UpTo
<1> QED BY <1>3 DEF S

(* seqRemove takes one member out of a list and leaves no member twice     *)
(* that was there once.                                                    *)
LEMMA WithoutDef ==
  ASSUME NEW T, NEW seq \in Seq(T), NEW member
  PROVE  /\ Without(seq, member) \in Seq(T)
         /\ Seqs!ToSet(Without(seq, member)) = Seqs!ToSet(seq) \ {member}
         /\ NoRepeats(seq) => NoRepeats(Without(seq, member))
<1> DEFINE N == Len(seq)
           kept == CHOOSE f : IsKept(f, seq, member, N)
           To(n) == {seq[i] : i \in 1 .. n} \ {member}
           OK(n) == /\ kept[n] \in Seq(T)
                    /\ {kept[n][i] : i \in DOMAIN kept[n]} = To(n)
                    /\ NoRepeats(seq) => NoRepeats(kept[n])
           S == {n \in 0 .. N : OK(n)}
<1>1. N \in Nat /\ \A i \in 1 .. N : seq[i] \in T
  OBVIOUS
<1>2. IsKept(kept, seq, member, N)
  BY <1>1, KeptExists
<1>3. Without(seq, member) = kept[N]
  BY DEF Without, IsKept
<1> HIDE DEF N, kept
<1>4. \A k \in 0 .. N : kept[k] = IF k = 0 THEN <<>>
                        ELSE IF seq[k] = member THEN kept[k - 1] ELSE Append(kept[k - 1], seq[k])
  BY <1>2 DEF IsKept
<1>5. 0 \in S
  <2>0. 0 \in 0 .. N
    BY <1>1
  <2>1. kept[0] = <<>>
    <3> HIDE DEF To, OK, S
    <3> QED BY <1>4, <2>0
  <2>2. To(0) = {}
    OBVIOUS
  <2>3. <<>> \in Seq(T) /\ DOMAIN <<>> = {}
    OBVIOUS
  <2>4. {kept[0][i] : i \in DOMAIN kept[0]} = {}
    BY <2>1, <2>3
  <2>5. NoRepeats(kept[0])
    BY <2>1, <2>3 DEF NoRepeats, Seqs!IsInjective
  <2>6. OK(0)
    BY <2>1, <2>2, <2>3, <2>4, <2>5
  <2> HIDE DEF OK
  <2> QED BY <1>1, <2>6
<1>6. ASSUME NEW n \in 0 .. N - 1, n \in S PROVE n + 1 \in S
  <2> DEFINE q == kept[n]
             x == seq[n + 1]
  <2>1. /\ q \in Seq(T) /\ {q[i] : i \in DOMAIN q} = To(n)
        /\ NoRepeats(seq) => NoRepeats(q)
    BY <1>6
  <2>2. kept[n + 1] = IF x = member THEN q ELSE Append(q, x)
    BY <1>1, <1>4
  <2>3. To(n + 1) = To(n) \cup ({x} \ {member})
    BY <1>1
  <2>4. n + 1 \in 0 .. N /\ x \in T
    BY <1>1
  <2> HIDE DEF q, x
  <2>5. CASE x = member
    BY <2>1, <2>2, <2>3, <2>4, <2>5
  <2>6. CASE x # member
    <3> DEFINE r == Append(q, x)
    <3>1. /\ r \in Seq(T) /\ Len(q) \in Nat /\ DOMAIN q = 1 .. Len(q) /\ DOMAIN r = 1 .. Len(q) + 1
          /\ \A i \in 1 .. Len(q) : r[i] = q[i]
          /\ r[Len(q) + 1] = x
      BY <2>1, <2>4
    <3> HIDE DEF r
    <3>2. {r[i] : i \in DOMAIN r} = {q[i] : i \in DOMAIN q} \cup {x}
      BY <3>1
    <3>3. ASSUME NoRepeats(seq) PROVE NoRepeats(r)
      <4>1. \A i \in 1 .. n : seq[i] # x
        BY <1>1, <3>3 DEF NoRepeats, Seqs!IsInjective, N, x
      <4>2. x \notin To(n)
        BY <4>1
      <4>3. \A i \in 1 .. Len(q) : q[i] # x
        BY <2>1, <3>1, <4>2
      <4> QED BY <2>1, <3>1, <3>3, <4>3 DEF NoRepeats, Seqs!IsInjective
    <3>4. kept[n + 1] = r
      BY <2>2, <2>6 DEF r
    <3>5. {kept[n + 1][i] : i \in DOMAIN kept[n + 1]} = To(n + 1)
      BY <2>1, <2>3, <2>6, <3>2, <3>4
    <3>6. OK(n + 1)
      BY <3>1, <3>3, <3>4, <3>5
    <3> QED BY <2>4, <3>6
  <2> QED BY <2>5, <2>6
<1>7. N \in S
  <2> HIDE DEF S
  <2>1. 0 .. N \subseteq S
    BY <1>1, <1>5, <1>6, UpTo
  <2>2. N \in 0 .. N
    BY <1>1
  <2> QED BY <2>1, <2>2
<1>8. OK(N)
  BY <1>7
<1>9. Seqs!ToSet(seq) \ {member} = To(N)
  BY <1>1 DEF Seqs!ToSet, N
<1> QED BY <1>3, <1>8, <1>9 DEF Seqs!ToSet

-----------------------------------------------------------------------------
(* The loop over a batch.                                                  *)

(* f[k] is the document after k operations of a batch.                     *)
IsProgress(f, before, schema, ops, n) ==
  f = [k \in 0 .. n |-> IF k = 0 THEN before ELSE ApplyListEdit(f[k - 1], schema, ops[k])]

(* There is such a function for batches of any length.                     *)
LEMMA ProgressExists ==
  ASSUME NEW before, NEW schema, NEW ops, NEW N \in Nat
  PROVE  \E f : IsProgress(f, before, schema, ops, N)
<1> DEFINE S == {n \in Nat : \E f : IsProgress(f, before, schema, ops, n)}
<1>1. 0 \in S
  <2> DEFINE f == [k \in 0 .. 0 |-> before]
  <2>1. IsProgress(f, before, schema, ops, 0)
    BY DEF IsProgress
  <2> QED BY <2>1
<1>2. ASSUME NEW n \in 0 .. N - 1, n \in S PROVE n + 1 \in S
  <2>1. PICK f : IsProgress(f, before, schema, ops, n)
    BY <1>2
  <2> DEFINE g == [k \in 0 .. n + 1 |->
                     IF k <= n THEN f[k] ELSE ApplyListEdit(f[n], schema, ops[k])]
             h == [k \in 0 .. n + 1 |->
                     IF k = 0 THEN before ELSE ApplyListEdit(g[k - 1], schema, ops[k])]
  <2>2. \A k \in 0 .. n : f[k] = IF k = 0 THEN before ELSE ApplyListEdit(f[k - 1], schema, ops[k])
    BY <2>1 DEF IsProgress
  <2>3. ASSUME NEW k \in 0 .. n + 1 PROVE g[k] = h[k]
    <3>1. CASE k = 0
      BY <2>2, <3>1
    <3>2. CASE k \in 1 .. n
      <4>1. g[k] = f[k] /\ g[k - 1] = f[k - 1]
        BY <3>2
      <4>2. h[k] = ApplyListEdit(g[k - 1], schema, ops[k])
        BY <3>2
      <4> QED BY <2>2, <3>2, <4>1, <4>2
    <3>3. CASE k = n + 1
      <4>1. g[n] = f[n] /\ k - 1 = n
        BY <3>3
      <4> QED BY <3>3, <4>1
    <3> QED BY <3>1, <3>2, <3>3
  <2>4. g = h
    BY <2>3
  <2>5. IsProgress(g, before, schema, ops, n + 1)
    BY <2>4 DEF IsProgress
  <2> QED BY <2>5
<1> HIDE DEF S
<1>3. N \in S
  BY <1>1, <1>2, UpTo
<1> QED BY <1>3 DEF S

(* Each document of a batch is the one before it, edited.                  *)
LEMMA ProgressDef ==
  ASSUME NEW before, NEW schema, NEW T, NEW ops \in Seq(T)
  PROVE  /\ Progress(before, schema, ops)[0] = before
         /\ \A n \in 1 .. Len(ops) :
              Progress(before, schema, ops)[n] =
                ApplyListEdit(Progress(before, schema, ops)[n - 1], schema, ops[n])
<1> DEFINE N == Len(ops)
           after == CHOOSE f : IsProgress(f, before, schema, ops, N)
<1>1. N \in Nat
  OBVIOUS
<1>2. IsProgress(after, before, schema, ops, N)
  BY <1>1, ProgressExists
<1>3. Progress(before, schema, ops) = after
  BY DEF Progress, IsProgress
<1> HIDE DEF after, N
<1>4. \A k \in 0 .. N :
        after[k] = IF k = 0 THEN before ELSE ApplyListEdit(after[k - 1], schema, ops[k])
  BY <1>2 DEF IsProgress
<1>5. after[0] = before
  BY <1>1, <1>4
<1>6. \A n \in 1 .. N : after[n] = ApplyListEdit(after[n - 1], schema, ops[n])
  BY <1>1, <1>4
<1> QED BY <1>3, <1>5, <1>6 DEF N

-----------------------------------------------------------------------------
(* The schemas and the list keys.                                          *)

(* canonicalIdx finds a role's block among those of the schema.            *)
LEMMA CanonicalIdxDef ==
  ASSUME NEW s, NEW T, s.canonical \in Seq(T), NEW key
  PROVE  /\ CanonicalIdx(s, key) \in 0 .. Len(s.canonical)
         /\ CanonicalIdx(s, key) = 0 <=> \A j \in 1 .. Len(s.canonical) : s.canonical[j] # key
         /\ CanonicalIdx(s, key) # 0 => s.canonical[CanonicalIdx(s, key)] = key
<1> DEFINE I == {i \in 1 .. Len(s.canonical) : s.canonical[i] = key}
<1>1. CanonicalIdx(s, key) = First(I)
  BY DEF First, CanonicalIdx, Seqs!SelectInSeq, Seqs!Min
<1>2. I \subseteq 1 .. Len(s.canonical) /\ Len(s.canonical) \in Nat
  OBVIOUS
<1> HIDE DEF I
<1>3. /\ First(I) \in 0 .. Len(s.canonical)
      /\ First(I) = 0 <=> I = {}
      /\ First(I) # 0 => First(I) \in I
  BY <1>2, FirstIsThere
<1> QED BY <1>1, <1>3 DEF I

(* In both schemas each role has a block of its own, and no head key is a  *)
(* role block.                                                             *)
LEMMA SchemaFacts ==
  ASSUME NEW s \in Schemas
  PROVE  /\ s.canonical \in Seq(RoleKeys(s))
         /\ \A r \in DOMAIN s.roleKeys : s.roleKeys[r] \in RoleKeys(s) /\ CanonicalIdx(s, s.roleKeys[r]) # 0
         /\ \A q, r \in DOMAIN s.roleKeys : s.roleKeys[q] = s.roleKeys[r] => q = r
         /\ s.headKeys \subseteq IdentityKeys
         /\ \A key \in IdentityKeys : CanonicalIdx(s, key) = 0
<1>1. CASE s = SpaceSchema
  <2>0. s.canonical = <<"space-developer", "space-manager", "space-auditor", "space-supporter">>
    BY <1>1 DEF SpaceSchema
  <2>1. /\ DOMAIN s.canonical = 1 .. 4 /\ Len(s.canonical) = 4
        /\ s.canonical[1] = "space-developer" /\ s.canonical[2] = "space-manager"
        /\ s.canonical[3] = "space-auditor" /\ s.canonical[4] = "space-supporter"
    BY <2>0
  <2>7. RoleKeys(s) = {"space-developer", "space-manager", "space-auditor", "space-supporter"}
    BY <2>1 DEF RoleKeys, Seqs!ToSet
  <2>8. s.canonical \in Seq(RoleKeys(s))
    BY <2>0, <2>7
  <2>2. /\ DOMAIN s.roleKeys = {"developer", "manager", "auditor", "supporter"}
        /\ s.roleKeys["developer"] = "space-developer" /\ s.roleKeys["manager"] = "space-manager"
        /\ s.roleKeys["auditor"] = "space-auditor" /\ s.roleKeys["supporter"] = "space-supporter"
    <3>1. s.roleKeys = [developer |-> "space-developer", manager |-> "space-manager",
                        auditor |-> "space-auditor", supporter |-> "space-supporter"]
      BY <1>1 DEF SpaceSchema
    <3> QED BY <3>1
  <2>3. s.headKeys \subseteq IdentityKeys
    BY <1>1 DEF SpaceSchema, IdentityKeys
  <2>4. \A r \in DOMAIN s.roleKeys : s.roleKeys[r] \in RoleKeys(s) /\ CanonicalIdx(s, s.roleKeys[r]) # 0
    BY <2>1, <2>2, <2>7, <2>8, CanonicalIdxDef
  <2>5. \A key \in IdentityKeys : CanonicalIdx(s, key) = 0
    BY <2>1, <2>8, CanonicalIdxDef DEF IdentityKeys
  <2>6. \A q, r \in DOMAIN s.roleKeys : s.roleKeys[q] = s.roleKeys[r] => q = r
    BY <2>2
  <2> QED BY <2>3, <2>4, <2>5, <2>6, <2>8
<1>2. CASE s = OrgSchema
  <2>0. s.canonical = <<"org-billingmanager", "org-manager", "org-auditor">>
    BY <1>2 DEF OrgSchema
  <2>1. /\ DOMAIN s.canonical = 1 .. 3 /\ Len(s.canonical) = 3
        /\ s.canonical[1] = "org-billingmanager" /\ s.canonical[2] = "org-manager"
        /\ s.canonical[3] = "org-auditor"
    BY <2>0
  <2>7. RoleKeys(s) = {"org-billingmanager", "org-manager", "org-auditor"}
    BY <2>1 DEF RoleKeys, Seqs!ToSet
  <2>8. s.canonical \in Seq(RoleKeys(s))
    BY <2>0, <2>7
  <2>2. /\ DOMAIN s.roleKeys = {"billingmanager", "manager", "auditor"}
        /\ s.roleKeys["billingmanager"] = "org-billingmanager"
        /\ s.roleKeys["manager"] = "org-manager" /\ s.roleKeys["auditor"] = "org-auditor"
    <3>1. s.roleKeys = [billingmanager |-> "org-billingmanager", manager |-> "org-manager",
                        auditor |-> "org-auditor"]
      BY <1>2 DEF OrgSchema
    <3> QED BY <3>1
  <2>3. s.headKeys \subseteq IdentityKeys
    BY <1>2 DEF OrgSchema, IdentityKeys
  <2>4. \A r \in DOMAIN s.roleKeys : s.roleKeys[r] \in RoleKeys(s) /\ CanonicalIdx(s, s.roleKeys[r]) # 0
    BY <2>1, <2>2, <2>7, <2>8, CanonicalIdxDef
  <2>5. \A key \in IdentityKeys : CanonicalIdx(s, key) = 0
    BY <2>1, <2>8, CanonicalIdxDef DEF IdentityKeys
  <2>6. \A q, r \in DOMAIN s.roleKeys : s.roleKeys[q] = s.roleKeys[r] => q = r
    BY <2>2
  <2> QED BY <2>3, <2>4, <2>5, <2>6, <2>8
<1> QED BY <1>1, <1>2 DEF Schemas

(* The four list keys.                                                     *)
LEMMA ListKeysDef ==
  /\ Lists = {"ldap_users", "users", "saml_users", "ldap_groups"}
  /\ \A l : Seqs!Contains(ListKeys, l) <=> l \in Lists
  /\ ListKeys \in Seq(Lists) /\ Len(ListKeys) = 4 /\ NoRepeats(ListKeys)
<1>1. /\ DOMAIN ListKeys = 1 .. 4 /\ Len(ListKeys) = 4
      /\ ListKeys[1] = "ldap_users" /\ ListKeys[2] = "users"
      /\ ListKeys[3] = "saml_users" /\ ListKeys[4] = "ldap_groups"
  BY DEF ListKeys
<1>2. Lists = {"ldap_users", "users", "saml_users", "ldap_groups"}
  BY <1>1 DEF Lists, Seqs!ToSet
<1>3. \A l : Seqs!Contains(ListKeys, l) <=> l \in Lists
  BY <1>1, <1>2 DEF Seqs!Contains
<1>4. NoRepeats(ListKeys)
  BY <1>1 DEF NoRepeats, Seqs!IsInjective
<1>5. ListKeys \in Seq(Lists)
  BY <1>2 DEF ListKeys
<1> QED BY <1>1, <1>2, <1>3, <1>4, <1>5

-----------------------------------------------------------------------------
(* The items a change leaves alone.                                        *)

(* The pairs InOrder is made of.                                           *)
LEMMA InOrderDef ==
  ASSUME NEW T, NEW ms \in Seq(T), NEW but
  PROVE  \A x : x \in InOrder(ms, but) <=>
           \E i, j \in 1 .. Len(ms) : /\ i <= j /\ ms[i].key \notin but /\ ms[j].key \notin but
                                      /\ x = <<ms[i], ms[j]>>
<1> DEFINE Q == {q \in (DOMAIN ms) \X (DOMAIN ms) :
                   q[1] <= q[2] /\ {ms[q[1]].key, ms[q[2]].key} \cap but = {}}
<1>1. DOMAIN ms = 1 .. Len(ms)
  OBVIOUS
<1>2. InOrder(ms, but) = {<<ms[p[1]], ms[p[2]]>> : p \in Q}
  BY DEF InOrder
<1>3. ASSUME NEW x, x \in InOrder(ms, but)
      PROVE  \E i, j \in 1 .. Len(ms) : /\ i <= j /\ ms[i].key \notin but /\ ms[j].key \notin but
                                        /\ x = <<ms[i], ms[j]>>
  <2>1. PICK p \in Q : x = <<ms[p[1]], ms[p[2]]>>
    BY <1>2, <1>3
  <2>2. p[1] \in 1 .. Len(ms) /\ p[2] \in 1 .. Len(ms) /\ p[1] <= p[2]
        /\ ms[p[1]].key \notin but /\ ms[p[2]].key \notin but
    BY <1>1
  <2> QED BY <2>1, <2>2
<1>4. ASSUME NEW i \in 1 .. Len(ms), NEW j \in 1 .. Len(ms), i <= j,
             ms[i].key \notin but, ms[j].key \notin but
      PROVE  <<ms[i], ms[j]>> \in InOrder(ms, but)
  <2>1. <<i, j>> \in Q
    BY <1>1, <1>4
  <2> HIDE DEF Q
  <2>2. <<ms[<<i, j>>[1]], ms[<<i, j>>[2]]>> \in InOrder(ms, but)
    BY <1>2, <2>1
  <2> QED BY <2>2
<1> QED BY <1>3, <1>4

(* A new value under an excepted key changes no other item.                *)
LEMMA InOrderReplace ==
  ASSUME NEW T, NEW ms \in Seq(T), NEW new \in Seq(T), NEW but, NEW i \in 1 .. Len(ms),
         Len(new) = Len(ms), \A j \in 1 .. Len(ms) : j # i => new[j] = ms[j],
         ms[i].key \in but, new[i].key \in but
  PROVE  InOrder(new, but) = InOrder(ms, but)
<1>1. \A x : x \in InOrder(new, but) <=> x \in InOrder(ms, but)
  BY InOrderDef
<1> QED BY <1>1

(* A new item with an excepted key moves no other item past another.       *)
LEMMA InOrderInsert ==
  ASSUME NEW T, NEW ms \in Seq(T), NEW new \in Seq(T), NEW but, NEW i \in 1 .. Len(ms) + 1,
         Len(new) = Len(ms) + 1, new[i].key \in but,
         \A j \in 1 .. Len(ms) + 1 :
           (j < i => new[j] = ms[j]) /\ (j > i => new[j] = ms[j - 1])
  PROVE  InOrder(new, but) = InOrder(ms, but)
<1> DEFINE n == Len(ms)
<1>0. n \in Nat /\ i \in Int /\ n = Len(ms)
  OBVIOUS
<1> HIDE DEF n
<1>1. ASSUME NEW x, x \in InOrder(ms, but) PROVE x \in InOrder(new, but)
  <2>1. PICK p, q \in 1 .. n : /\ p <= q /\ ms[p].key \notin but /\ ms[q].key \notin but
                               /\ x = <<ms[p], ms[q]>>
    BY <1>0, <1>1, InOrderDef
  <2> DEFINE To(k) == IF k < i THEN k ELSE k + 1
  <2>2. \A k \in 1 .. n : To(k) \in 1 .. n + 1 /\ To(k) # i /\ new[To(k)] = ms[k]
    <3> SUFFICES ASSUME NEW k \in 1 .. n
                 PROVE  To(k) \in 1 .. n + 1 /\ To(k) # i /\ new[To(k)] = ms[k]
      OBVIOUS
    <3>1. CASE k < i
      BY <1>0, <3>1
    <3>2. CASE k >= i
      <4>1. k + 1 \in 1 .. n + 1 /\ k + 1 > i /\ k + 1 - 1 = k
        BY <1>0, <3>2
      <4>2. new[k + 1] = ms[k + 1 - 1]
        BY <1>0, <4>1
      <4> QED BY <1>0, <3>2, <4>1, <4>2
    <3> QED BY <1>0, <3>1, <3>2
  <2>3. To(p) <= To(q)
    BY <1>0, <2>1
  <2> HIDE DEF To
  <2>4. /\ To(p) \in 1 .. Len(new) /\ To(q) \in 1 .. Len(new)
        /\ new[To(p)] = ms[p] /\ new[To(q)] = ms[q]
    BY <1>0, <2>1, <2>2
  <2>5. \E a, c \in 1 .. Len(new) : /\ a <= c /\ new[a].key \notin but /\ new[c].key \notin but
                                     /\ x = <<new[a], new[c]>>
    BY <2>1, <2>3, <2>4
  <2> QED BY <2>5, InOrderDef
<1>2. ASSUME NEW x, x \in InOrder(new, but) PROVE x \in InOrder(ms, but)
  <2>1. PICK p, q \in 1 .. n + 1 : /\ p <= q /\ new[p].key \notin but /\ new[q].key \notin but
                                   /\ x = <<new[p], new[q]>>
    BY <1>0, <1>2, InOrderDef
  <2> DEFINE Back(k) == IF k < i THEN k ELSE k - 1
  <2>2. \A k \in 1 .. n + 1 : k # i => Back(k) \in 1 .. n /\ new[k] = ms[Back(k)]
    BY <1>0
  <2>3. Back(p) <= Back(q) /\ p # i /\ q # i
    BY <1>0, <2>1
  <2> HIDE DEF Back
  <2>4. /\ Back(p) \in 1 .. n /\ Back(q) \in 1 .. n
        /\ new[p] = ms[Back(p)] /\ new[q] = ms[Back(q)]
    BY <2>1, <2>2, <2>3
  <2> QED BY <1>0, <2>1, <2>3, <2>4, InOrderDef
<1> QED BY <1>1, <1>2

-----------------------------------------------------------------------------
(* Role blocks without bare list keys.                                     *)

(* What a role block consists of once no list key is bare.                 *)
NormalPairs == [key : Lists, val : Seq(Names)]
(* A role block without bare list keys, repeated lists and repeated        *)
(* members.                                                                *)
NormalBlock(b) ==
  /\ b \in Seq(NormalPairs) /\ NoRepeats(Keys(b))
  /\ \A j \in 1 .. Len(b) : NoRepeats(b[j].val)

(* The members of a list of a block.                                       *)
InList(b, l) ==
  LET li == IndexOfKey(b, l) IN IF li = 0 THEN {} ELSE Seqs!ToSet(AsSeq(b[li].val))

(* Sequences over a set are sequences over every larger one.               *)
LEMMA SeqMono == ASSUME NEW S, NEW T, S \subseteq T PROVE Seq(S) \subseteq Seq(T)
  OBVIOUS

(* asMapSlice and asSeq: a bare key is an empty sequence, a sequence is    *)
(* itself.                                                                 *)
LEMMA AsSeqDef ==
  /\ AsSeq(Nil) = <<>>
  /\ \A q \in Seq(Names) : q # Nil /\ AsSeq(q) = q
  /\ \A b \in Blocks : b # Nil /\ AsSeq(b) = b
BY FilesAssumption DEF AsSeq

(* Such a block is one cf-mgmt can load.                                   *)
LEMMA NormalIsBlock ==
  ASSUME NEW b, NormalBlock(b)
  PROVE  b \in Blocks /\ AsSeq(b) = b /\ BlockOK(b) /\ DOMAIN b = 1 .. Len(b) /\ Len(b) \in Nat
<1>1. b \in Blocks
  <2>1. NormalPairs \subseteq [key : Lists, val : {Nil} \cup Seq(Names)]
    BY DEF NormalPairs
  <2> QED BY <2>1, SeqMono DEF NormalBlock, Blocks
<1>2. DOMAIN b = 1 .. Len(b) /\ Len(b) \in Nat
  BY DEF NormalBlock
<1>3. ASSUME NEW j \in DOMAIN b PROVE NoRepeats(AsSeq(b[j].val))
  <2>1. b[j] \in NormalPairs
    BY <1>2 DEF NormalBlock
  <2>2. AsSeq(b[j].val) = b[j].val
    BY <2>1, AsSeqDef DEF NormalPairs
  <2> QED BY <1>2, <2>2 DEF NormalBlock
<1> QED BY <1>1, <1>2, <1>3, AsSeqDef DEF NormalBlock, BlockOK

(* The members of a list, by its item.                                     *)
LEMMA InListDef ==
  ASSUME NEW b, NormalBlock(b)
  PROVE  /\ \A i \in 1 .. Len(b) : InList(b, b[i].key) = Seqs!ToSet(b[i].val)
         /\ \A l : (\A i \in 1 .. Len(b) : b[i].key # l) => InList(b, l) = {}
<1>1. ASSUME NEW i \in 1 .. Len(b) PROVE InList(b, b[i].key) = Seqs!ToSet(b[i].val)
  <2>1. IndexOfKey(b, b[i].key) = i
    BY IndexOfUnique DEF NormalBlock
  <2>2. b[i] \in NormalPairs /\ Len(b) \in Nat
    BY DEF NormalBlock
  <2>3. AsSeq(b[i].val) = b[i].val
    BY <2>2, AsSeqDef DEF NormalPairs
  <2> QED BY <2>1, <2>2, <2>3 DEF InList
<1>2. ASSUME NEW l, \A i \in 1 .. Len(b) : b[i].key # l PROVE InList(b, l) = {}
  BY <1>2, IndexOfKeyDef DEF InList, NormalBlock
<1> QED BY <1>1, <1>2

(* A new list at the end of a block: no other list changes.                *)
LEMMA AddList ==
  ASSUME NEW b, NormalBlock(b), NEW l \in Lists, NEW m \in Names,
         \A i \in 1 .. Len(b) : b[i].key # l
  PROVE  LET new == Append(b, Item(l, <<m>>)) IN
         /\ NormalBlock(new)
         /\ InList(new, l) = {m} /\ \A k : k # l => InList(new, k) = InList(b, k)
         /\ \A but : l \in but => InOrder(new, but) = InOrder(b, but)
<1> DEFINE n == Len(b)
           it == Item(l, <<m>>)
           new == Append(b, it)
<1>1. n \in Nat /\ b \in Seq(NormalPairs)
  BY DEF NormalBlock
<1>2. it \in NormalPairs /\ it.key = l /\ it.val = <<m>>
  BY DEF Item, NormalPairs
<1> HIDE DEF n, it
<1>3. /\ new \in Seq(NormalPairs) /\ Len(new) = n + 1 /\ DOMAIN new = 1 .. n + 1
      /\ \A j \in 1 .. n : new[j] = b[j]
      /\ new[n + 1] = it
  BY <1>1, <1>2 DEF n
<1> HIDE DEF new
<1>4. NoRepeats(Keys(new))
  BY <1>1, <1>2, <1>3 DEF NormalBlock, NoRepeats, Keys, Seqs!IsInjective, n
<1>5. Seqs!ToSet(<<m>>) = {m} /\ NoRepeats(<<m>>)
  BY DEF Seqs!ToSet, NoRepeats, Seqs!IsInjective
<1>6. \A j \in 1 .. n + 1 : NoRepeats(new[j].val)
  BY <1>1, <1>2, <1>3, <1>5 DEF NormalBlock, n
<1>7. NormalBlock(new)
  BY <1>3, <1>4, <1>6 DEF NormalBlock
<1>8. /\ \A i \in 1 .. n + 1 : InList(new, new[i].key) = Seqs!ToSet(new[i].val)
      /\ \A k : (\A i \in 1 .. n + 1 : new[i].key # k) => InList(new, k) = {}
      /\ \A i \in 1 .. n : InList(b, b[i].key) = Seqs!ToSet(b[i].val)
      /\ \A k : (\A i \in 1 .. n : b[i].key # k) => InList(b, k) = {}
  BY <1>3, <1>7, InListDef DEF n
<1>11. InList(new, l) = {m}
  <2>1. InList(new, new[n + 1].key) = Seqs!ToSet(new[n + 1].val)
    BY <1>1, <1>8
  <2> QED BY <1>2, <1>3, <1>5, <2>1
<1>9. ASSUME NEW k, k # l PROVE InList(new, k) = InList(b, k)
  <2>1. CASE \E i \in 1 .. n : b[i].key = k
    BY <1>1, <1>3, <1>8, <2>1
  <2>2. CASE \A i \in 1 .. n : b[i].key # k
    <3>1. \A i \in 1 .. n + 1 : new[i].key # k
      BY <1>1, <1>2, <1>3, <1>9, <2>2
    <3> QED BY <1>8, <2>2, <3>1
  <2> QED BY <2>1, <2>2
<1>10. ASSUME NEW but, l \in but PROVE InOrder(new, but) = InOrder(b, but)
  <2>1. n + 1 \in 1 .. Len(b) + 1 /\ Len(new) = Len(b) + 1 /\ new[n + 1].key \in but
    BY <1>1, <1>2, <1>3, <1>10 DEF n
  <2>2. \A j \in 1 .. Len(b) + 1 : (j < n + 1 => new[j] = b[j]) /\ (j > n + 1 => new[j] = b[j - 1])
    BY <1>1, <1>3 DEF n
  <2> QED BY <1>1, <1>3, <2>1, <2>2, InOrderInsert
<1> QED BY <1>7, <1>9, <1>10, <1>11 DEF new, it

(* A list with new members: no other list changes, nor the order.          *)
LEMMA ReplaceList ==
  ASSUME NEW b, NormalBlock(b), NEW i \in 1 .. Len(b), NEW q \in Seq(Names), NoRepeats(q)
  PROVE  LET new == ReplaceVal(b, i, q) IN
         /\ NormalBlock(new)
         /\ InList(new, b[i].key) = Seqs!ToSet(q)
         /\ \A k : k # b[i].key => InList(new, k) = InList(b, k)
         /\ \A but : b[i].key \in but => InOrder(new, but) = InOrder(b, but)
<1> DEFINE n == Len(b)
           new == ReplaceVal(b, i, q)
<1>1. n \in Nat /\ b \in Seq(NormalPairs) /\ DOMAIN b = 1 .. n
  BY DEF NormalBlock
<1>2. /\ new \in Seq(NormalPairs) /\ Len(new) = n
      /\ \A j \in 1 .. n : new[j] = IF j = i THEN Item(b[i].key, q) ELSE b[j]
  <2>1. b[i] \in NormalPairs
    BY <1>1
  <2>2. b[i] = Item(b[i].key, b[i].val) /\ Item(b[i].key, q) \in NormalPairs
    BY <2>1 DEF Item, NormalPairs
  <2> QED BY <1>1, <2>2, ReplaceValDef
<1> HIDE DEF n, new
<1>3. i \in 1 .. n /\ new[i].key = b[i].key /\ new[i].val = q /\ DOMAIN new = 1 .. n
      /\ \A j \in 1 .. n : new[j].key = b[j].key
  <2>1. i \in 1 .. n
    BY DEF n
  <2>2. new[i] = Item(b[i].key, q)
    BY <1>2, <2>1
  <2>3. DOMAIN new = 1 .. n
    BY <1>2
  <2> QED BY <1>2, <2>1, <2>2, <2>3 DEF Item
<1>4. NoRepeats(Keys(new))
  BY <1>1, <1>3 DEF NormalBlock, NoRepeats, Keys, Seqs!IsInjective, n
<1>6. \A j \in 1 .. n : NoRepeats(new[j].val)
  BY <1>1, <1>2, <1>3 DEF NormalBlock, n
<1>7. NormalBlock(new)
  BY <1>2, <1>4, <1>6 DEF NormalBlock
<1>8. InList(new, b[i].key) = Seqs!ToSet(q)
  BY <1>2, <1>3, <1>7, InListDef
<1>9. ASSUME NEW k, k # b[i].key PROVE InList(new, k) = InList(b, k)
  <2>1. CASE \E j \in 1 .. n : b[j].key = k
    <3>1. PICK j \in 1 .. n : b[j].key = k
      BY <2>1
    <3>2. j # i /\ new[j] = b[j]
      BY <1>2, <1>9, <3>1
    <3> QED BY <1>2, <1>7, <3>1, <3>2, InListDef DEF n
  <2>2. CASE \A j \in 1 .. n : b[j].key # k
    <3>1. \A j \in 1 .. n : new[j].key # k
      BY <1>3, <2>2
    <3>2. InList(new, k) = {} /\ InList(b, k) = {}
      BY <1>2, <1>7, <2>2, <3>1, InListDef DEF n
    <3> QED BY <3>2
  <2> QED BY <2>1, <2>2
<1>10. ASSUME NEW but, b[i].key \in but PROVE InOrder(new, but) = InOrder(b, but)
  BY <1>1, <1>2, <1>3, <1>10, InOrderReplace DEF n
<1> QED BY <1>7, <1>8, <1>9, <1>10 DEF new

(* newRoleBlock: the member is in its list and in no other.                *)
LEMMA NewBlock ==
  ASSUME NEW l \in Lists, NEW m \in Names
  PROVE  /\ NormalBlock(NewRoleBlock(l, m))
         /\ \A k \in Lists : InList(NewRoleBlock(l, m), k) = IF k = l THEN {m} ELSE {}
<1> DEFINE b == NewRoleBlock(l, m)
           v(k) == IF k = l THEN <<m>> ELSE <<>>
<1>1. /\ Len(ListKeys) = 4 /\ DOMAIN ListKeys = 1 .. 4 /\ \A j \in 1 .. 4 : ListKeys[j] \in Lists
  <2>1. ListKeys \in Seq(Lists) /\ Len(ListKeys) = 4
    BY ListKeysDef
  <2> QED BY <2>1
<1>2. b = [j \in 1 .. 4 |-> Item(ListKeys[j], v(ListKeys[j]))]
  BY <1>1 DEF NewRoleBlock
<1>3. \A k \in Lists : v(k) \in Seq(Names) /\ NoRepeats(v(k)) /\ Seqs!ToSet(v(k)) = IF k = l THEN {m} ELSE {}
  BY DEF NoRepeats, Seqs!ToSet, Seqs!IsInjective
<1> HIDE DEF v, b
<1>4. \A j \in 1 .. 4 : /\ b[j] = Item(ListKeys[j], v(ListKeys[j])) /\ b[j] \in NormalPairs
                        /\ b[j].key = ListKeys[j] /\ b[j].val = v(ListKeys[j])
  BY <1>1, <1>2, <1>3 DEF NormalPairs, Item
<1>5. b \in Seq(NormalPairs) /\ Len(b) = 4 /\ DOMAIN b = 1 .. 4
  <2>1. b = [j \in 1 .. 4 |-> b[j]]
    BY <1>2
  <2>2. \A j \in 1 .. 4 : b[j] \in NormalPairs
    BY <1>4
  <2> QED BY <2>1, <2>2
<1>6. NoRepeats(Keys(b))
  BY <1>1, <1>4, <1>5, ListKeysDef DEF NoRepeats, Keys, Seqs!IsInjective
<1>7. NormalBlock(b)
  BY <1>1, <1>3, <1>4, <1>5, <1>6 DEF NormalBlock
<1>8. ASSUME NEW k \in Lists PROVE InList(b, k) = IF k = l THEN {m} ELSE {}
  <2>1. PICK j \in 1 .. 4 : ListKeys[j] = k
    BY <1>1 DEF Lists, Seqs!ToSet
  <2>2. InList(b, b[j].key) = Seqs!ToSet(b[j].val)
    BY <1>5, <1>7, InListDef
  <2> QED BY <1>3, <1>4, <2>1, <2>2
<1> QED BY <1>7, <1>8 DEF b

(* Within a block, normalizeRoleLists makes a bare list an empty one and   *)
(* changes nobody's membership.                                            *)
LEMMA NormalizeBlockDef ==
  ASSUME NEW b, BlockOK(b)
  PROVE  /\ NormalBlock(NormalizeBlock(b))
         /\ NormalBlock(b) => NormalizeBlock(b) = b
         /\ \A l : InList(NormalizeBlock(b), l) = InList(b, l)
<1> DEFINE n == Len(b)
           c == NormalizeBlock(b)
<1>1. /\ b \in Seq([key : Lists, val : {Nil} \cup Seq(Names)])
      /\ n \in Nat /\ DOMAIN b = 1 .. n
      /\ \A j \in 1 .. n : /\ b[j] \in [key : Lists, val : {Nil} \cup Seq(Names)]
                           /\ NoRepeats(AsSeq(b[j].val))
  <2> DEFINE P == [key : Lists, val : {Nil} \cup Seq(Names)]
  <2>1. b \in Seq(P) /\ \A j \in DOMAIN b : NoRepeats(AsSeq(b[j].val))
    BY DEF BlockOK, Blocks
  <2> HIDE DEF P
  <2>2. Len(b) \in Nat /\ DOMAIN b = 1 .. Len(b) /\ \A j \in 1 .. Len(b) : b[j] \in P
    BY <2>1
  <2> QED BY <2>1, <2>2 DEF P
<1>2. c = [j \in 1 .. n |-> IF b[j].val = Nil THEN Item(b[j].key, <<>>) ELSE b[j]]
  BY <1>1, ListKeysDef DEF NormalizeBlock
<1> HIDE DEF n, c
<1>3. \A j \in 1 .. n : b[j].val # Nil => b[j].val \in Seq(Names) /\ AsSeq(b[j].val) = b[j].val
  BY <1>1, AsSeqDef
<1>4. \A j \in 1 .. n : /\ c[j] \in NormalPairs /\ c[j].key = b[j].key
                        /\ c[j].val = AsSeq(b[j].val)
  <2> TAKE j \in 1 .. n
  <2>1. CASE b[j].val = Nil
    <3>1. c[j] = Item(b[j].key, <<>>) /\ AsSeq(b[j].val) = <<>> /\ b[j].key \in Lists
      BY <1>1, <1>2, <2>1, AsSeqDef
    <3> QED BY <3>1 DEF Item, NormalPairs
  <2>2. CASE b[j].val # Nil
    <3>1. c[j] = b[j] /\ b[j] = [key |-> b[j].key, val |-> b[j].val] /\ b[j].key \in Lists
      BY <1>1, <1>2, <2>2
    <3> QED BY <1>3, <2>2, <3>1 DEF NormalPairs
  <2> QED BY <2>1, <2>2
<1>5. c \in Seq(NormalPairs) /\ Len(c) = n /\ DOMAIN c = 1 .. n
  BY <1>1, <1>2, <1>4
<1>6. NoRepeats(Keys(c))
  BY <1>1, <1>4, <1>5 DEF BlockOK, NoRepeats, Keys, Seqs!IsInjective
<1>7. NormalBlock(c)
  BY <1>1, <1>4, <1>5, <1>6 DEF NormalBlock
<1>8. ASSUME NormalBlock(b) PROVE c = b
  <2>1. \A j \in 1 .. n : b[j].val \in Seq(Names)
    BY <1>8, <1>1 DEF NormalBlock, NormalPairs
  <2>2. \A j \in 1 .. n : b[j].val # Nil
    BY <2>1, AsSeqDef
  <2>3. b = [j \in 1 .. n |-> b[j]]
    BY <1>1
  <2> QED BY <1>2, <2>2, <2>3
<1>9. ASSUME NEW l PROVE InList(c, l) = InList(b, l)
  <2>1. CASE \E j \in 1 .. n : b[j].key = l
    <3>1. PICK j \in 1 .. n : b[j].key = l
      BY <2>1
    <3>2. InList(c, l) = Seqs!ToSet(c[j].val)
      BY <1>4, <1>5, <1>7, <3>1, InListDef
    <3>3. IndexOfKey(b, l) = j
      BY <1>1, <3>1, IndexOfUnique DEF BlockOK, n
    <3> QED BY <1>1, <1>4, <3>2, <3>3 DEF InList
  <2>2. CASE \A j \in 1 .. n : b[j].key # l
    <3>1. InList(c, l) = {}
      BY <1>4, <1>5, <1>7, <2>2, InListDef
    <3>2. IndexOfKey(b, l) = 0
      BY <1>1, <2>2, IndexOfKeyDef DEF n
    <3> QED BY <3>1, <3>2 DEF InList
  <2> QED BY <2>1, <2>2
<1> QED BY <1>7, <1>8, <1>9 DEF c

-----------------------------------------------------------------------------
(* Documents without bare list keys.                                       *)

(* A document without bare list keys in its role blocks.                   *)
NormalDoc(s, d) ==
  /\ d \in Seq(Items(s)) /\ NoRepeats(Keys(d))
  /\ \A i \in 1 .. Len(d) : CanonicalIdx(s, d[i].key) # 0 => NormalBlock(AsSeq(d[i].val))

(* The block of a key, empty if it is missing or bare.                     *)
BlockOf(d, key) ==
  LET ri == IndexOfKey(d, key) IN IF ri = 0 THEN <<>> ELSE AsSeq(d[ri].val)

(* A missing or bare block has no members.                                 *)
LEMMA EmptyBlock ==
  /\ NormalBlock(<<>>) /\ \A l : InList(<<>>, l) = {}
<1>1. NormalBlock(<<>>)
  BY DEF NormalBlock, NoRepeats, Keys, Seqs!IsInjective
<1>2. ASSUME NEW l PROVE InList(<<>>, l) = {}
  BY <1>1, InListDef
<1> QED BY <1>1, <1>2

(* The list functions read a block's list.                                 *)
LEMMA MembersDef ==
  ASSUME NEW d, NEW s, NEW role, NEW list
  PROVE  Members(d, s, role, list) = InList(BlockOf(d, s.roleKeys[role]), list)
BY EmptyBlock DEF Members, InList, BlockOf

(* The block of a key, by its item.                                        *)
LEMMA BlockOfDef ==
  ASSUME NEW s, NEW d, NormalDoc(s, d)
  PROVE  /\ \A i \in 1 .. Len(d) : IndexOfKey(d, d[i].key) = i /\ BlockOf(d, d[i].key) = AsSeq(d[i].val)
         /\ \A k : (\A i \in 1 .. Len(d) : d[i].key # k) => IndexOfKey(d, k) = 0 /\ BlockOf(d, k) = <<>>
         /\ \A k : IndexOfKey(d, k) # 0 => \E i \in 1 .. Len(d) : IndexOfKey(d, k) = i /\ d[i].key = k
         /\ \A k : CanonicalIdx(s, k) # 0 => NormalBlock(BlockOf(d, k))
<1>1. ASSUME NEW i \in 1 .. Len(d)
      PROVE IndexOfKey(d, d[i].key) = i /\ BlockOf(d, d[i].key) = AsSeq(d[i].val)
  <2>1. IndexOfKey(d, d[i].key) = i
    BY IndexOfUnique DEF NormalDoc
  <2>2. i # 0
    BY DEF NormalDoc
  <2> QED BY <2>1, <2>2 DEF BlockOf
<1>2. ASSUME NEW k, \A i \in 1 .. Len(d) : d[i].key # k
      PROVE  IndexOfKey(d, k) = 0 /\ BlockOf(d, k) = <<>>
  BY <1>2, IndexOfKeyDef DEF NormalDoc, BlockOf
<1>3. ASSUME NEW k, IndexOfKey(d, k) # 0
      PROVE  \E i \in 1 .. Len(d) : IndexOfKey(d, k) = i /\ d[i].key = k
  BY <1>3, IndexOfKeyDef DEF NormalDoc
<1>4. ASSUME NEW k, CanonicalIdx(s, k) # 0 PROVE NormalBlock(BlockOf(d, k))
  <2>1. CASE IndexOfKey(d, k) = 0
    BY <2>1, EmptyBlock DEF BlockOf
  <2>2. CASE IndexOfKey(d, k) # 0
    BY <1>3, <1>4, <2>2 DEF BlockOf, NormalDoc
  <2> QED BY <2>1, <2>2
<1> QED BY <1>1, <1>2, <1>3, <1>4

(* A role block may stand in a document.                                   *)
LEMMA BlockItem ==
  ASSUME NEW s \in Schemas, NEW key, CanonicalIdx(s, key) # 0, NEW e, NormalBlock(e)
  PROVE  /\ Item(key, e) \in Items(s) /\ Item(key, e).key = key /\ Item(key, e).val = e
         /\ AsSeq(e) = e
<1>1. key \in RoleKeys(s)
  <2>1. s.canonical \in Seq(RoleKeys(s))
    BY SchemaFacts
  <2>2. /\ CanonicalIdx(s, key) \in 1 .. Len(s.canonical) /\ s.canonical[CanonicalIdx(s, key)] = key
    BY <2>1, CanonicalIdxDef
  <2> QED BY <2>1, <2>2
<1>2. e \in Blocks /\ AsSeq(e) = e
  BY NormalIsBlock
<1> QED BY <1>1, <1>2 DEF Item, Items

(* A role block with a new value: the keys, the other blocks and their     *)
(* order stay.                                                             *)
LEMMA ReplaceBlock ==
  ASSUME NEW s \in Schemas, NEW d, NormalDoc(s, d), NEW i \in 1 .. Len(d),
         CanonicalIdx(s, d[i].key) # 0, NEW e, NormalBlock(e)
  PROVE  LET new == ReplaceVal(d, i, e) IN
         /\ NormalDoc(s, new) /\ Len(new) = Len(d)
         /\ \A j \in 1 .. Len(d) : new[j].key = d[j].key
         /\ \A k : IndexOfKey(new, k) = IndexOfKey(d, k)
         /\ BlockOf(new, d[i].key) = e
         /\ \A k : k # d[i].key => BlockOf(new, k) = BlockOf(d, k)
         /\ \A but : d[i].key \in but => InOrder(new, but) = InOrder(d, but)
<1> DEFINE n == Len(d)
           new == ReplaceVal(d, i, e)
           key == d[i].key
<1>1. n \in Nat /\ d \in Seq(Items(s)) /\ DOMAIN d = 1 .. n /\ i \in 1 .. n
  BY DEF NormalDoc
<1>2. Item(key, e) \in Items(s) /\ Item(key, e).key = key /\ Item(key, e).val = e /\ AsSeq(e) = e
  BY BlockItem
<1>3. /\ new \in Seq(Items(s)) /\ Len(new) = n
      /\ \A j \in 1 .. n : new[j] = IF j = i THEN Item(key, e) ELSE d[j]
  <2>1. d[i] \in Items(s)
    BY <1>1
  <2>2. d[i] = Item(d[i].key, d[i].val)
    BY <2>1 DEF Item, Items
  <2> QED BY <1>1, <1>2, <2>2, ReplaceValDef
<1> HIDE DEF n, new
<1>4. /\ new[i].key = key /\ new[i].val = e /\ DOMAIN new = 1 .. n
      /\ \A j \in 1 .. n : new[j].key = d[j].key
  BY <1>1, <1>2, <1>3
<1>5. NoRepeats(Keys(new))
  BY <1>1, <1>4 DEF NormalDoc, NoRepeats, Keys, Seqs!IsInjective
<1>6. \A j \in 1 .. n : CanonicalIdx(s, new[j].key) # 0 => NormalBlock(AsSeq(new[j].val))
  BY <1>2, <1>3, <1>4 DEF NormalDoc, n
<1>7. NormalDoc(s, new)
  BY <1>3, <1>5, <1>6 DEF NormalDoc
<1>8. ASSUME NEW k PROVE IndexOfKey(new, k) = IndexOfKey(d, k)
  <2>1. CASE \E j \in 1 .. n : d[j].key = k
    <3>1. PICK j \in 1 .. n : d[j].key = k
      BY <2>1
    <3>2. IndexOfKey(d, d[j].key) = j
      BY <3>1, BlockOfDef DEF n
    <3>3. IndexOfKey(new, new[j].key) = j
      BY <1>3, <1>7, BlockOfDef
    <3> QED BY <1>4, <3>1, <3>2, <3>3
  <2>2. CASE \A j \in 1 .. n : d[j].key # k
    <3>1. \A j \in 1 .. n : new[j].key # k
      BY <1>4, <2>2
    <3>2. IndexOfKey(d, k) = 0
      BY <2>2, BlockOfDef DEF n
    <3>3. IndexOfKey(new, k) = 0
      BY <1>3, <1>7, <3>1, BlockOfDef
    <3> QED BY <3>2, <3>3
  <2> QED BY <2>1, <2>2
<1>9. BlockOf(new, key) = e
  <2>1. BlockOf(new, new[i].key) = AsSeq(new[i].val)
    BY <1>1, <1>3, <1>7, BlockOfDef
  <2> QED BY <1>2, <1>4, <2>1
<1>10. ASSUME NEW k, k # key PROVE BlockOf(new, k) = BlockOf(d, k)
  <2>1. CASE IndexOfKey(d, k) = 0
    BY <1>8, <2>1 DEF BlockOf
  <2>2. CASE IndexOfKey(d, k) # 0
    <3>1. PICK j \in 1 .. n : IndexOfKey(d, k) = j /\ d[j].key = k
      BY <2>2, BlockOfDef DEF n
    <3>2. new[j] = d[j]
      BY <1>3, <1>10, <3>1
    <3>3. IndexOfKey(new, k) = j
      BY <1>8, <3>1
    <3> QED BY <3>1, <3>2, <3>3 DEF BlockOf
  <2> QED BY <2>1, <2>2
<1>11. ASSUME NEW but, key \in but PROVE InOrder(new, but) = InOrder(d, but)
  <2>1. \A j \in 1 .. Len(d) : j # i => new[j] = d[j]
    BY <1>3 DEF n
  <2>2. Len(new) = Len(d)
    BY <1>3 DEF n
  <2> QED BY <1>1, <1>3, <1>4, <1>11, <2>1, <2>2, InOrderReplace
<1> QED BY <1>3, <1>4, <1>7, <1>8, <1>9, <1>10, <1>11 DEF n, new

(* The positions insertRoleBlock may not pass.                             *)
Stops(d, s, key) ==
  {i \in 1 .. Len(d) : /\ d[i].key \notin s.headKeys
                       /\ CanonicalIdx(s, d[i].key) = 0 \/ CanonicalIdx(s, d[i].key) > CanonicalIdx(s, key)}
(* Where it inserts.                                                       *)
Place(d, s, key) == IF First(Stops(d, s, key)) = 0 THEN Len(d) + 1 ELSE First(Stops(d, s, key))

(* It inserts before the first of them.                                    *)
LEMMA PlaceDef ==
  ASSUME NEW s, NEW d, d \in Seq(Items(s)), NEW key
  PROVE  /\ Place(d, s, key) \in 1 .. Len(d) + 1
         /\ \A j \in 1 .. Len(d) : j < Place(d, s, key) => j \notin Stops(d, s, key)
         /\ Place(d, s, key) <= Len(d) => Place(d, s, key) \in Stops(d, s, key)
<1> DEFINE n == Len(d)
           I == Stops(d, s, key)
<1>1. n \in Nat /\ I \subseteq 1 .. n
  BY DEF Stops
<1> HIDE DEF n, I
<1>2. /\ First(I) \in 0 .. n
      /\ First(I) = 0 <=> I = {}
      /\ First(I) # 0 => First(I) \in I /\ \A j \in 1 .. First(I) - 1 : j \notin I
  BY <1>1, FirstIsThere
<1>3. Place(d, s, key) = IF First(I) = 0 THEN n + 1 ELSE First(I)
  BY DEF Place, n, I
<1>4. Place(d, s, key) \in 1 .. n + 1
  BY <1>1, <1>2, <1>3
<1>5. ASSUME NEW j \in 1 .. n, j < Place(d, s, key) PROVE j \notin I
  BY <1>1, <1>2, <1>3, <1>5
<1>6. ASSUME Place(d, s, key) <= n PROVE Place(d, s, key) \in I
  BY <1>1, <1>2, <1>3, <1>6
<1> QED BY <1>4, <1>5, <1>6 DEF n, I

(* insertRoleBlock inserts there.                                          *)
LEMMA InsertIsAtPlace ==
  ASSUME NEW d, NEW s, NEW key, NEW e
  PROVE  InsertRoleBlock(d, s, key, e) = Seqs!InsertAt(d, Place(d, s, key), Item(key, e))
BY DEF InsertRoleBlock, Place, Stops, First, Seqs!SelectInSeq, Seqs!Min

(* The file has no identity key that insertRoleBlock takes for the start   *)
(* of the rest: no original-space in a space's file.                       *)
HeadsOnly(s, d) == \A i \in 1 .. Len(d) : d[i].key \in IdentityKeys => d[i].key \in s.headKeys

(* A new role block: the other items stay in their order, and if the file  *)
(* has only head keys in front, the new one comes where cf-mgmt writes it. *)
LEMMA InsertBlock ==
  ASSUME NEW s \in Schemas, NEW d, NormalDoc(s, d), NEW key, CanonicalIdx(s, key) # 0,
         \A i \in 1 .. Len(d) : d[i].key # key, NEW e, NormalBlock(e)
  PROVE  LET new == InsertRoleBlock(d, s, key, e) IN
         /\ NormalDoc(s, new)
         /\ IndexOfKey(new, key) # 0
         /\ \A k : IndexOfKey(d, k) # 0 => IndexOfKey(new, k) # 0
         /\ BlockOf(new, key) = e
         /\ \A k : k # key => BlockOf(new, k) = BlockOf(d, k)
         /\ \A but : key \in but => InOrder(new, but) = InOrder(d, but)
         /\ HeadsOnly(s, d) => HeadsOnly(s, new)
         /\ Ordered(s, d) /\ HeadsOnly(s, d) => Ordered(s, new)
<1> DEFINE n == Len(d)
           at == Place(d, s, key)
           it == Item(key, e)
           new == Seqs!InsertAt(d, at, it)
<1>1. n \in Nat /\ d \in Seq(Items(s)) /\ DOMAIN d = 1 .. n
  BY DEF NormalDoc
<1>2. it \in Items(s) /\ it.key = key /\ it.val = e /\ AsSeq(e) = e
  BY BlockItem
<1>3. /\ at \in 1 .. n + 1
      /\ \A j \in 1 .. n : j < at => j \notin Stops(d, s, key)
      /\ at <= n => at \in Stops(d, s, key)
  BY <1>1, PlaceDef
<1> HIDE DEF n, at, it
<1>4. /\ new \in Seq(Items(s)) /\ Len(new) = n + 1
      /\ \A j \in 1 .. n + 1 : new[j] = IF j < at THEN d[j] ELSE IF j = at THEN it ELSE d[j - 1]
  BY <1>1, <1>2, <1>3, InsertAtDef DEF n
<1> HIDE DEF new
<1> DEFINE From(j) == IF j < at THEN j ELSE j - 1
           To(j) == IF j < at THEN j ELSE j + 1
<1>5. /\ DOMAIN new = 1 .. n + 1 /\ at \in 1 .. n + 1 /\ new[at] = it
      /\ \A j \in 1 .. n + 1 : j # at => From(j) \in 1 .. n /\ new[j] = d[From(j)] /\ To(From(j)) = j
      /\ \A j \in 1 .. n : To(j) \in 1 .. n + 1 /\ To(j) # at /\ From(To(j)) = j
  BY <1>1, <1>3, <1>4
<1> HIDE DEF From, To
<1>6. \A j \in 1 .. n : new[To(j)] = d[j]
  BY <1>5
<1>7. \A j \in 1 .. n + 1 : j # at => new[j].key # key
  BY <1>5 DEF n
<1>8. NoRepeats(Keys(new))
  <2>1. \A i, j \in 1 .. n : d[i].key = d[j].key => i = j
    BY <1>1 DEF NormalDoc, NoRepeats, Keys, Seqs!IsInjective
  <2>2. ASSUME NEW i \in 1 .. n + 1, NEW j \in 1 .. n + 1, new[i].key = new[j].key PROVE i = j
    <3>1. CASE i = at \/ j = at
      BY <1>2, <1>5, <1>7, <2>2, <3>1
    <3>2. CASE i # at /\ j # at
      <4>1. From(i) = From(j)
        BY <1>5, <2>1, <2>2, <3>2
      <4> QED BY <1>5, <3>2, <4>1
    <3> QED BY <3>1, <3>2
  <2> QED BY <1>5, <2>2 DEF NoRepeats, Keys, Seqs!IsInjective
<1>9. \A j \in 1 .. n + 1 : CanonicalIdx(s, new[j].key) # 0 => NormalBlock(AsSeq(new[j].val))
  <2> SUFFICES ASSUME NEW j \in 1 .. n + 1, CanonicalIdx(s, new[j].key) # 0
               PROVE  NormalBlock(AsSeq(new[j].val))
    OBVIOUS
  <2>1. CASE j = at
    BY <1>2, <1>5, <2>1
  <2>2. CASE j # at
    BY <1>5, <2>2 DEF NormalDoc, n
  <2> QED BY <2>1, <2>2
<1>10. NormalDoc(s, new)
  BY <1>4, <1>8, <1>9 DEF NormalDoc
<1>11. /\ \A i \in 1 .. n + 1 : IndexOfKey(new, new[i].key) = i /\ BlockOf(new, new[i].key) = AsSeq(new[i].val)
       /\ \A k : (\A i \in 1 .. n + 1 : new[i].key # k) => BlockOf(new, k) = <<>>
  BY <1>4, <1>10, BlockOfDef
<1>12. IndexOfKey(new, key) # 0 /\ BlockOf(new, key) = e
  <2>1. IndexOfKey(new, new[at].key) = at /\ BlockOf(new, new[at].key) = AsSeq(new[at].val)
    BY <1>5, <1>11
  <2> QED BY <1>2, <1>5, <2>1
<1>13. ASSUME NEW k, IndexOfKey(d, k) # 0 PROVE IndexOfKey(new, k) # 0
  <2>1. PICK i \in 1 .. n : d[i].key = k
    BY <1>13, BlockOfDef DEF n
  <2>2. IndexOfKey(new, new[To(i)].key) = To(i) /\ To(i) # 0
    BY <1>5, <1>11
  <2> QED BY <1>6, <2>1, <2>2
<1>14. ASSUME NEW k, k # key PROVE BlockOf(new, k) = BlockOf(d, k)
  <2>1. CASE \E i \in 1 .. n : d[i].key = k
    <3>1. PICK i \in 1 .. n : d[i].key = k
      BY <2>1
    <3>2. BlockOf(new, new[To(i)].key) = AsSeq(new[To(i)].val)
      BY <1>5, <1>11
    <3>3. BlockOf(d, d[i].key) = AsSeq(d[i].val)
      BY BlockOfDef DEF n
    <3> QED BY <1>6, <3>1, <3>2, <3>3
  <2>2. CASE \A i \in 1 .. n : d[i].key # k
    <3>1. \A i \in 1 .. n + 1 : new[i].key # k
      BY <1>2, <1>5, <1>14, <2>2
    <3>2. BlockOf(new, k) = <<>>
      BY <1>11, <3>1
    <3>3. BlockOf(d, k) = <<>>
      BY <2>2, BlockOfDef DEF n
    <3> QED BY <3>2, <3>3
  <2> QED BY <2>1, <2>2
<1>15. ASSUME NEW but, key \in but PROVE InOrder(new, but) = InOrder(d, but)
  <2>1. \A j \in 1 .. Len(d) + 1 : (j < at => new[j] = d[j]) /\ (j > at => new[j] = d[j - 1])
    BY <1>1, <1>3, <1>4 DEF n
  <2>2. at \in 1 .. Len(d) + 1 /\ Len(new) = Len(d) + 1 /\ new[at].key \in but
    BY <1>2, <1>4, <1>5, <1>15 DEF n
  <2> QED BY <1>1, <1>4, <2>1, <2>2, InOrderInsert
<1>16. ASSUME HeadsOnly(s, d) PROVE HeadsOnly(s, new)
  <2>1. key \notin IdentityKeys
    BY SchemaFacts
  <2>2. ASSUME NEW j \in 1 .. n + 1, new[j].key \in IdentityKeys PROVE new[j].key \in s.headKeys
    <3>1. j # at
      BY <1>2, <1>5, <2>1, <2>2
    <3> QED BY <1>5, <1>16, <2>2, <3>1 DEF HeadsOnly, n
  <2> QED BY <1>4, <2>2 DEF HeadsOnly
<1>17. ASSUME Ordered(s, d), HeadsOnly(s, d) PROVE Ordered(s, new)
  <2> DEFINE R(k) == Rank(s, k)
             top == Len(s.canonical)
  <2>1. /\ key \notin IdentityKeys /\ s.canonical \in Seq(RoleKeys(s)) /\ top \in Nat
        /\ s.headKeys \subseteq IdentityKeys
    BY SchemaFacts
  <2>2. \A k : CanonicalIdx(s, k) \in 0 .. top
    BY <2>1, CanonicalIdxDef
  <2>3. \A k : /\ R(k) \in 0 .. top + 1
               /\ k \in IdentityKeys => R(k) = 0
               /\ k \notin IdentityKeys /\ CanonicalIdx(s, k) # 0 => R(k) = CanonicalIdx(s, k)
               /\ k \notin IdentityKeys /\ CanonicalIdx(s, k) = 0 => R(k) = top + 1
    BY <2>1, <2>2 DEF Rank
  <2>4. R(key) = CanonicalIdx(s, key) /\ R(key) <= top
    BY <2>1, <2>2, <2>3
  <2> HIDE DEF R, top
  <2>5. ASSUME NEW j \in 1 .. n, j < at PROVE R(d[j].key) <= R(key)
    <3>1. j \notin Stops(d, s, key)
      BY <1>3, <2>5
    <3>2. \/ d[j].key \in s.headKeys
          \/ CanonicalIdx(s, d[j].key) # 0 /\ ~(CanonicalIdx(s, d[j].key) > CanonicalIdx(s, key))
      BY <3>1 DEF Stops, n
    <3>3. R(key) \in Nat /\ CanonicalIdx(s, d[j].key) \in Nat
      BY <2>2, <2>3
    <3>4. CASE d[j].key \in IdentityKeys
      BY <2>3, <3>3, <3>4
    <3>5. CASE d[j].key \notin IdentityKeys
      <4>1. R(d[j].key) = CanonicalIdx(s, d[j].key)
        BY <2>1, <2>3, <3>2, <3>5
      <4> QED BY <2>1, <2>4, <3>2, <3>3, <3>5, <4>1
    <3> QED BY <3>4, <3>5
  <2>6. \A i, j \in 1 .. n : i < j => R(d[i].key) <= R(d[j].key)
    BY <1>1, <1>17 DEF Ordered, R
  <2>7. ASSUME NEW j \in 1 .. n, j >= at PROVE R(key) <= R(d[j].key)
    <3>1. at \in 1 .. n /\ at \in Stops(d, s, key)
      BY <1>1, <1>3, <2>7
    <3>2. /\ d[at].key \notin s.headKeys
          /\ CanonicalIdx(s, d[at].key) = 0 \/ CanonicalIdx(s, d[at].key) > CanonicalIdx(s, key)
      BY <3>1 DEF Stops
    <3>3. d[at].key \notin IdentityKeys
      BY <1>17, <3>1, <3>2 DEF HeadsOnly, n
    <3>4. CanonicalIdx(s, d[at].key) \in Nat /\ R(key) \in Nat /\ R(d[at].key) \in Nat
          /\ R(d[j].key) \in Nat /\ top \in Nat
      BY <2>1, <2>2, <2>3 DEF top
    <3>5. R(key) <= R(d[at].key)
      <4>1. CASE CanonicalIdx(s, d[at].key) = 0
        <5>1. R(d[at].key) = top + 1
          BY <2>3, <3>3, <4>1
        <5> QED BY <2>4, <3>4, <5>1
      <4>2. CASE CanonicalIdx(s, d[at].key) # 0
        <5>1. R(d[at].key) = CanonicalIdx(s, d[at].key)
          BY <2>3, <3>3, <4>2
        <5> QED BY <2>4, <3>2, <3>4, <4>2, <5>1
      <4> QED BY <4>1, <4>2
    <3>6. R(d[at].key) <= R(d[j].key)
      <4>1. CASE j = at
        BY <3>4, <4>1
      <4>2. CASE j # at
        BY <2>6, <2>7, <3>1, <4>2
      <4> QED BY <4>1, <4>2
    <3> QED BY <3>4, <3>5, <3>6
  <2>8. ASSUME NEW i \in 1 .. n + 1, NEW j \in 1 .. n + 1, i < j
        PROVE  R(new[i].key) <= R(new[j].key)
    <3>1. CASE i = at
      <4>1. j # at /\ new[j] = d[j - 1] /\ j - 1 \in 1 .. n /\ j - 1 >= at
        BY <1>1, <1>3, <1>4, <2>8, <3>1
      <4> QED BY <1>2, <1>5, <2>7, <3>1, <4>1
    <3>2. CASE j = at
      <4>1. new[i] = d[i] /\ i \in 1 .. n /\ i < at
        BY <1>1, <1>3, <1>4, <2>8, <3>2
      <4> QED BY <1>2, <1>5, <2>5, <3>2, <4>1
    <3>3. CASE i # at /\ j # at
      <4>1. From(i) < From(j)
        BY <1>1, <1>3, <2>8, <3>3 DEF From
      <4> QED BY <1>5, <2>6, <3>3, <4>1
    <3> QED BY <3>1, <3>2, <3>3
  <2> QED BY <1>5, <2>8 DEF Ordered, R
<1> QED
  <2>1. InsertRoleBlock(d, s, key, e) = new
    BY InsertIsAtPlace DEF new, at, it
  <2> QED BY <1>10, <1>12, <1>13, <1>14, <1>15, <1>16, <1>17, <2>1

-----------------------------------------------------------------------------
(* One operation on a role block.                                          *)

(* A member at the end of a list that does not have it.                    *)
LEMMA AppendMember ==
  ASSUME NEW q \in Seq(Names), NEW m \in Names
  PROVE  /\ Append(q, m) \in Seq(Names)
         /\ Seqs!ToSet(Append(q, m)) = Seqs!ToSet(q) \cup {m}
         /\ NoRepeats(q) /\ m \notin Seqs!ToSet(q) => NoRepeats(Append(q, m))
         /\ Seqs!Contains(q, m) <=> m \in Seqs!ToSet(q)
<1> DEFINE n == Len(q)
           r == Append(q, m)
<1>1. n \in Nat /\ DOMAIN q = 1 .. n
  OBVIOUS
<1>2. /\ r \in Seq(Names) /\ Len(r) = n + 1 /\ DOMAIN r = 1 .. n + 1
      /\ \A j \in 1 .. n : r[j] = q[j]
      /\ r[n + 1] = m
  OBVIOUS
<1> HIDE DEF n, r
<1>3. Seqs!ToSet(r) = Seqs!ToSet(q) \cup {m}
  BY <1>1, <1>2 DEF Seqs!ToSet
<1>4. ASSUME NoRepeats(q), m \notin Seqs!ToSet(q) PROVE NoRepeats(r)
  BY <1>1, <1>2, <1>4 DEF NoRepeats, Seqs!IsInjective, Seqs!ToSet
<1>5. Seqs!Contains(q, m) <=> m \in Seqs!ToSet(q)
  BY <1>1 DEF Seqs!Contains, Seqs!ToSet, n
<1> QED BY <1>2, <1>3, <1>4, <1>5 DEF r

(* An operation that passes validation names a member.                     *)
GoodOp(s, op) == ValidOp(s, op) /\ op.member \in Names

(* The block after an operation that changes it.                           *)
EditedBlock(b, op) ==
  LET li == IndexOfKey(b, op.list) IN
  CASE op.action = "remove" -> ReplaceVal(b, li, Without(AsSeq(b[li].val), op.member))
    [] op.action # "remove" /\ li = 0 -> Append(b, Item(op.list, <<op.member>>))
    [] OTHER -> ReplaceVal(b, li, Append(AsSeq(b[li].val), op.member))

(* An operation changes a block iff its member is to be added and not in   *)
(* the list, or to be removed and in it.                                   *)
Changes(b, op) == op.action = "add" <=> op.member \notin InList(b, op.list)

(* What an operation makes of the members of its list.                     *)
Effect(op, ms) == IF op.action = "add" THEN ms \cup {op.member} ELSE ms \ {op.member}

(* An operation changes one list of a block, by one member.                *)
LEMMA BlockEdit ==
  ASSUME NEW s \in Schemas, NEW op, GoodOp(s, op), NEW b, NormalBlock(b), Changes(b, op)
  PROVE  LET new == EditedBlock(b, op) IN
         /\ NormalBlock(new)
         /\ InList(new, op.list) = Effect(op, InList(b, op.list))
         /\ \A k : k # op.list => InList(new, k) = InList(b, k)
         /\ \A but : op.list \in but => InOrder(new, but) = InOrder(b, but)
<1> DEFINE l == op.list
           m == op.member
           li == IndexOfKey(b, l)
           new == EditedBlock(b, op)
<1>1. l \in Lists /\ m \in Names /\ (op.action = "add" \/ op.action = "remove")
  BY ListKeysDef DEF GoodOp, ValidOp
<1>2. /\ li \in 0 .. Len(b)
      /\ li = 0 => \A i \in 1 .. Len(b) : b[i].key # l
      /\ li # 0 => b[li].key = l
      /\ Len(b) \in Nat
  BY IndexOfKeyDef DEF NormalBlock
<1>3. ASSUME li = 0, op.action = "add"
      PROVE  /\ new = Append(b, Item(l, <<m>>))
             /\ InList(b, l) = {}
  BY <1>2, <1>3, InListDef DEF EditedBlock
<1>4. ASSUME li # 0
      PROVE  /\ li \in 1 .. Len(b) /\ b[li].val \in Seq(Names) /\ NoRepeats(b[li].val)
             /\ AsSeq(b[li].val) = b[li].val /\ InList(b, l) = Seqs!ToSet(b[li].val)
  <2>1. li \in 1 .. Len(b)
    BY <1>2, <1>4
  <2>2. b[li] \in NormalPairs /\ NoRepeats(b[li].val)
    BY <2>1 DEF NormalBlock
  <2>3. AsSeq(b[li].val) = b[li].val
    BY <2>2, AsSeqDef DEF NormalPairs
  <2>4. InList(b, b[li].key) = Seqs!ToSet(b[li].val)
    BY <2>1, InListDef
  <2> QED BY <1>2, <1>4, <2>1, <2>2, <2>3, <2>4 DEF NormalPairs
<1>5. CASE li = 0 /\ op.action = "add"
  <2> DEFINE q == Append(b, Item(l, <<m>>))
  <2>1. new = q /\ InList(b, l) = {}
    BY <1>3, <1>5
  <2>2. /\ NormalBlock(q)
        /\ InList(q, l) = {m} /\ \A k : k # l => InList(q, k) = InList(b, k)
        /\ \A but : l \in but => InOrder(q, but) = InOrder(b, but)
    BY <1>1, <1>2, <1>5, AddList
  <2> HIDE DEF q
  <2> QED BY <1>5, <2>1, <2>2 DEF Effect
<1>6. CASE li # 0 /\ op.action = "add"
  <2> DEFINE q == Append(b[li].val, m)
  <2>1. new = ReplaceVal(b, li, q)
    BY <1>4, <1>6 DEF EditedBlock
  <2>2. m \notin Seqs!ToSet(b[li].val)
    BY <1>4, <1>6 DEF Changes
  <2>3. q \in Seq(Names) /\ NoRepeats(q) /\ Seqs!ToSet(q) = InList(b, l) \cup {m}
    BY <1>1, <1>4, <1>6, <2>2, AppendMember
  <2> HIDE DEF q, new, li
  <2>4. /\ NormalBlock(new)
        /\ InList(new, b[li].key) = Seqs!ToSet(q)
        /\ \A k : k # b[li].key => InList(new, k) = InList(b, k)
        /\ \A but : b[li].key \in but => InOrder(new, but) = InOrder(b, but)
    BY <1>4, <1>6, <2>1, <2>3, ReplaceList
  <2>5. b[li].key = l
    BY <1>2, <1>6
  <2> QED BY <1>6, <2>3, <2>4, <2>5 DEF new, Effect
<1>7. CASE op.action = "remove"
  <2> DEFINE q == Without(b[li].val, m)
  <2>1. li # 0
    BY <1>2, <1>7, InListDef DEF Changes
  <2>2. new = ReplaceVal(b, li, q)
    BY <1>4, <1>7, <2>1 DEF EditedBlock
  <2>3. q \in Seq(Names) /\ NoRepeats(q) /\ Seqs!ToSet(q) = InList(b, l) \ {m}
    BY <1>4, <2>1, WithoutDef
  <2> HIDE DEF q, new, li
  <2>4. /\ NormalBlock(new)
        /\ InList(new, b[li].key) = Seqs!ToSet(q)
        /\ \A k : k # b[li].key => InList(new, k) = InList(b, k)
        /\ \A but : b[li].key \in but => InOrder(new, but) = InOrder(b, but)
    BY <1>4, <2>1, <2>2, <2>3, ReplaceList
  <2>5. b[li].key = l
    BY <1>2, <2>1
  <2> QED BY <1>7, <2>3, <2>4, <2>5 DEF new, Effect
<1> QED BY <1>1, <1>5, <1>6, <1>7

-----------------------------------------------------------------------------
(* One operation on a document.                                            *)

(* applyListEdit inserts a block, changes one, or returns the document.    *)
LEMMA EditCases ==
  ASSUME NEW s \in Schemas, NEW d, NormalDoc(s, d), NEW op, GoodOp(s, op)
  PROVE  LET key == s.roleKeys[op.role]
             ri == IndexOfKey(d, key)
             b == BlockOf(d, key)
         IN  /\ CanonicalIdx(s, key) # 0
             /\ ri = 0 /\ op.action = "add" =>
                  ApplyListEdit(d, s, op) = InsertRoleBlock(d, s, key, NewRoleBlock(op.list, op.member))
             /\ ri # 0 /\ Changes(b, op) =>
                  ApplyListEdit(d, s, op) = ReplaceVal(d, ri, EditedBlock(b, op))
             /\ ~Changes(b, op) => ApplyListEdit(d, s, op) = d
             /\ ri = 0 => b = <<>> /\ (Changes(b, op) <=> op.action = "add")
             /\ NormalBlock(b)
<1> DEFINE key == s.roleKeys[op.role]
           ri == IndexOfKey(d, key)
           b == BlockOf(d, key)
           li == IndexOfKey(b, op.list)
           m == op.member
<1>1. CanonicalIdx(s, key) # 0 /\ (op.action = "add" \/ op.action = "remove")
  BY SchemaFacts DEF GoodOp, ValidOp
<1>2. NormalBlock(b)
  BY <1>1, BlockOfDef
<1>3. ri # 0 => AsSeq(d[ri].val) = b
  BY DEF BlockOf
<1>4. ri = 0 => b = <<>> /\ (Changes(b, op) <=> op.action = "add")
  BY EmptyBlock DEF BlockOf, Changes
<1>5. /\ li = 0 => InList(b, op.list) = {}
      /\ li # 0 => InList(b, op.list) = Seqs!ToSet(AsSeq(b[li].val))
                   /\ (Seqs!Contains(AsSeq(b[li].val), m) <=> m \in InList(b, op.list))
  <2>1. CASE li = 0
    BY <2>1 DEF InList
  <2>2. CASE li # 0
    BY <2>2 DEF InList, Seqs!Contains, Seqs!ToSet
  <2> QED BY <2>1, <2>2
<1> HIDE DEF b, li, ri, key, m
<1>6. CASE op.action = "add"
  <2>1. ApplyListEdit(d, s, op) = AddMember(d, s, key, op.list, m)
    BY <1>6 DEF ApplyListEdit, key, m
  <2>2. CASE ri = 0
    <3>1. AddMember(d, s, key, op.list, m) = InsertRoleBlock(d, s, key, NewRoleBlock(op.list, m))
      BY <2>2 DEF AddMember, ri
    <3> QED BY <1>1, <1>2, <1>4, <1>6, <2>1, <2>2, <3>1 DEF key, ri, b, m
  <2>3. CASE ri # 0
    <3>0. IndexOfKey(d, key) = ri /\ AsSeq(d[ri].val) = b /\ IndexOfKey(b, op.list) = li
      BY <1>3, <2>3 DEF ri, li
    <3>1. AddMember(d, s, key, op.list, m) =
            IF li = 0 THEN ReplaceVal(d, ri, Append(b, Item(op.list, <<m>>)))
            ELSE IF Seqs!Contains(AsSeq(b[li].val), m) THEN d
            ELSE ReplaceVal(d, ri, ReplaceVal(b, li, Append(AsSeq(b[li].val), m)))
      BY <2>3, <3>0 DEF AddMember
    <3>2. EditedBlock(b, op) =
            IF li = 0 THEN Append(b, Item(op.list, <<m>>))
            ELSE ReplaceVal(b, li, Append(AsSeq(b[li].val), m))
      BY <1>6, <3>0 DEF EditedBlock, m
    <3>3. Changes(b, op) <=> m \notin InList(b, op.list)
      BY <1>6 DEF Changes, m
    <3>4. ASSUME Changes(b, op) PROVE ApplyListEdit(d, s, op) = ReplaceVal(d, ri, EditedBlock(b, op))
      BY <1>5, <2>1, <3>1, <3>2, <3>3, <3>4
    <3>5. ASSUME ~Changes(b, op) PROVE ApplyListEdit(d, s, op) = d
      BY <1>5, <2>1, <3>1, <3>3, <3>5
    <3> QED BY <1>1, <1>2, <2>3, <3>4, <3>5 DEF key, ri, b
  <2> QED BY <2>2, <2>3
<1>7. CASE op.action = "remove"
  <2>1. ApplyListEdit(d, s, op) = RemoveMember(d, key, op.list, m)
    BY <1>7 DEF ApplyListEdit, key, m
  <2>2. CASE ri = 0
    <3>1. RemoveMember(d, key, op.list, m) = d
      BY <2>2 DEF RemoveMember, ri
    <3> QED BY <1>1, <1>2, <1>4, <1>7, <2>1, <2>2, <3>1 DEF key, ri, b, m
  <2>3. CASE ri # 0
    <3>0. IndexOfKey(d, key) = ri /\ AsSeq(d[ri].val) = b /\ IndexOfKey(b, op.list) = li
      BY <1>3, <2>3 DEF ri, li
    <3>1. RemoveMember(d, key, op.list, m) =
            IF li = 0 \/ ~Seqs!Contains(AsSeq(b[li].val), m) THEN d
            ELSE ReplaceVal(d, ri, ReplaceVal(b, li, Without(AsSeq(b[li].val), m)))
      BY <2>3, <3>0 DEF RemoveMember
    <3>2. EditedBlock(b, op) = ReplaceVal(b, li, Without(AsSeq(b[li].val), m))
      BY <1>7, <3>0 DEF EditedBlock, m
    <3>3. Changes(b, op) <=> m \in InList(b, op.list)
      BY <1>7 DEF Changes, m
    <3>4. ASSUME Changes(b, op) PROVE ApplyListEdit(d, s, op) = ReplaceVal(d, ri, EditedBlock(b, op))
      BY <1>5, <2>1, <3>1, <3>2, <3>3, <3>4
    <3>5. ASSUME ~Changes(b, op) PROVE ApplyListEdit(d, s, op) = d
      BY <1>5, <2>1, <3>1, <3>3, <3>5
    <3> QED BY <1>1, <1>2, <2>3, <3>4, <3>5 DEF key, ri, b
  <2> QED BY <2>2, <2>3
<1> QED BY <1>1, <1>6, <1>7

(* applyListEdit on a document: its list changes by the one member, all    *)
(* other lists and items stay as and where they are, an operation that is  *)
(* done already changes nothing.                                           *)
LEMMA EditEffect ==
  ASSUME NEW s \in Schemas, NEW d, NormalDoc(s, d), NEW op, GoodOp(s, op)
  PROVE  LET key == s.roleKeys[op.role]
             new == ApplyListEdit(d, s, op)
             old == InList(BlockOf(d, key), op.list)
         IN  /\ NormalDoc(s, new)
             /\ HeadsOnly(s, d) => HeadsOnly(s, new)
             /\ HeadsOnly(s, d) /\ Ordered(s, d) => Ordered(s, new)
             /\ InList(BlockOf(new, key), op.list) = Effect(op, old)
             /\ \A k \in Lists : k # op.list => InList(BlockOf(new, key), k) = InList(BlockOf(d, key), k)
             /\ \A k : k # key => BlockOf(new, k) = BlockOf(d, k)
             /\ \A k : IndexOfKey(d, k) # 0 => IndexOfKey(new, k) # 0
             /\ \A but : key \in but => InOrder(new, but) = InOrder(d, but)
             /\ IndexOfKey(d, key) # 0 => \A but : op.list \in but =>
                  InOrder(BlockOf(new, key), but) = InOrder(BlockOf(d, key), but)
             /\ (op.action = "add" <=> op.member \in old) => new = d
<1> DEFINE key == s.roleKeys[op.role]
           new == ApplyListEdit(d, s, op)
           b == BlockOf(d, key)
           ri == IndexOfKey(d, key)
<1>1. /\ CanonicalIdx(s, key) # 0
      /\ ri = 0 /\ op.action = "add" => new = InsertRoleBlock(d, s, key, NewRoleBlock(op.list, op.member))
      /\ ri # 0 /\ Changes(b, op) => new = ReplaceVal(d, ri, EditedBlock(b, op))
      /\ ~Changes(b, op) => new = d
      /\ ri = 0 => b = <<>> /\ (Changes(b, op) <=> op.action = "add")
      /\ NormalBlock(b)
  BY EditCases
<1>2. /\ op.list \in Lists /\ op.member \in Names /\ (op.action = "add" \/ op.action = "remove")
  BY ListKeysDef DEF GoodOp, ValidOp
<1>3. Changes(b, op) <=> (op.action = "add" <=> op.member \notin InList(b, op.list))
  BY DEF Changes
<1> HIDE DEF key, new, b, ri
<1>4. CASE ~Changes(b, op)
  <2>1. new = d
    BY <1>1, <1>4
  <2>2. InList(b, op.list) = Effect(op, InList(b, op.list))
    BY <1>2, <1>3, <1>4 DEF Effect
  <2> QED BY <2>1, <2>2 DEF key, new, b, ri
<1>5. CASE Changes(b, op) /\ ri = 0
  <2> DEFINE e == NewRoleBlock(op.list, op.member)
  <2>1. new = InsertRoleBlock(d, s, key, e) /\ op.action = "add"
    BY <1>1, <1>5
  <2>2. NormalBlock(e) /\ \A k \in Lists : InList(e, k) = IF k = op.list THEN {op.member} ELSE {}
    BY <1>2, NewBlock
  <2>3. \A i \in 1 .. Len(d) : d[i].key # key
    <3> SUFFICES ASSUME NEW i \in 1 .. Len(d), d[i].key = key PROVE FALSE
      OBVIOUS
    <3>1. IndexOfKey(d, d[i].key) = i
      BY BlockOfDef
    <3>2. i # 0
      BY DEF NormalDoc
    <3> QED BY <1>5, <3>1, <3>2 DEF ri
  <2>4. \A k : InList(b, k) = {}
    BY <1>1, <1>5, EmptyBlock
  <2> HIDE DEF e
  <2>5. /\ NormalDoc(s, new)
        /\ IndexOfKey(new, key) # 0
        /\ \A k : IndexOfKey(d, k) # 0 => IndexOfKey(new, k) # 0
        /\ BlockOf(new, key) = e
        /\ \A k : k # key => BlockOf(new, k) = BlockOf(d, k)
        /\ \A but : key \in but => InOrder(new, but) = InOrder(d, but)
        /\ HeadsOnly(s, d) => HeadsOnly(s, new)
        /\ Ordered(s, d) /\ HeadsOnly(s, d) => Ordered(s, new)
    BY <1>1, <2>1, <2>2, <2>3, InsertBlock
  <2>6. InList(BlockOf(new, key), op.list) = Effect(op, InList(b, op.list))
    BY <1>2, <2>1, <2>2, <2>4, <2>5 DEF Effect
  <2>7. \A k \in Lists : k # op.list => InList(BlockOf(new, key), k) = InList(b, k)
    BY <2>2, <2>4, <2>5
  <2>8. ~(op.action = "add" <=> op.member \in InList(b, op.list))
    BY <1>3, <1>5
  <2> QED BY <1>5, <2>1, <2>5, <2>6, <2>7, <2>8 DEF key, new, b, ri
<1>6. CASE Changes(b, op) /\ ri # 0
  <2> DEFINE e == EditedBlock(b, op)
  <2>1. new = ReplaceVal(d, ri, e)
    BY <1>1, <1>6
  <2>2. /\ NormalBlock(e)
        /\ InList(e, op.list) = Effect(op, InList(b, op.list))
        /\ \A k : k # op.list => InList(e, k) = InList(b, k)
        /\ \A but : op.list \in but => InOrder(e, but) = InOrder(b, but)
    BY <1>1, <1>6, BlockEdit
  <2> HIDE DEF e
  <2>3. ri \in 1 .. Len(d) /\ d[ri].key = key
    BY <1>6, BlockOfDef DEF ri
  <2>4. CanonicalIdx(s, d[ri].key) # 0
    BY <1>1, <2>3
  <2>5. /\ NormalDoc(s, new) /\ Len(new) = Len(d)
        /\ \A j \in 1 .. Len(d) : new[j].key = d[j].key
        /\ \A k : IndexOfKey(new, k) = IndexOfKey(d, k)
        /\ BlockOf(new, key) = e
        /\ \A k : k # key => BlockOf(new, k) = BlockOf(d, k)
        /\ \A but : key \in but => InOrder(new, but) = InOrder(d, but)
    BY <2>1, <2>2, <2>3, <2>4, ReplaceBlock
  <2>6. HeadsOnly(s, d) => HeadsOnly(s, new)
    BY <2>5 DEF HeadsOnly
  <2>7. Ordered(s, d) => Ordered(s, new)
    <3>1. DOMAIN d = 1 .. Len(d) /\ DOMAIN new = 1 .. Len(d)
      BY <2>5 DEF NormalDoc
    <3> QED BY <2>5, <3>1 DEF Ordered
  <2>8. ~(op.action = "add" <=> op.member \in InList(b, op.list))
    BY <1>3, <1>6
  <2> QED BY <1>6, <2>2, <2>5, <2>6, <2>7, <2>8 DEF key, new, b, ri
<1> QED BY <1>4, <1>5, <1>6

-----------------------------------------------------------------------------
(* normalizeRoleLists.                                                     *)

(* normalizeRoleLists on one role block of a document.                     *)
LEMMA NormalizeItem ==
  ASSUME NEW s \in Schemas, NEW it \in Items(s), CanonicalIdx(s, it.key) # 0, BlockOK(AsSeq(it.val))
  PROVE  LET new == IF it.val # Nil THEN Item(it.key, NormalizeBlock(it.val)) ELSE it
         IN  /\ new \in Items(s) /\ new.key = it.key
             /\ AsSeq(new.val) = NormalizeBlock(AsSeq(it.val))
             /\ NormalBlock(AsSeq(it.val)) => new = it
<1>1. CASE it.val = Nil
  <2>1. AsSeq(it.val) = <<>>
    BY <1>1, AsSeqDef
  <2>2. NormalizeBlock(<<>>) = <<>>
    BY EmptyBlock, NormalIsBlock, NormalizeBlockDef
  <2> QED BY <1>1, <2>1, <2>2
<1>2. CASE it.val # Nil
  <2> DEFINE b == it.val
             c == NormalizeBlock(b)
  <2>1. AsSeq(b) = b /\ BlockOK(b)
    BY <1>2 DEF AsSeq
  <2>2. NormalBlock(c) /\ (NormalBlock(b) => c = b)
    BY <2>1, NormalizeBlockDef
  <2>3. it = [key |-> it.key, val |-> it.val]
    BY DEF Items
  <2> HIDE DEF c, b
  <2>4. Item(it.key, c) \in Items(s) /\ Item(it.key, c).key = it.key /\ Item(it.key, c).val = c
        /\ AsSeq(c) = c
    BY <2>2, BlockItem
  <2>5. c = b => Item(it.key, c) = it
    BY <2>3 DEF Item, b
  <2> QED BY <1>2, <2>1, <2>2, <2>4, <2>5 DEF b, c
<1> QED BY <1>1, <1>2

(* normalizeRoleLists on a document cf-mgmt can load.                      *)
LEMMA NormalizeDef ==
  ASSUME NEW s \in Schemas, NEW d, WellFormed(s, d)
  PROVE  LET new == Normalize(d, s)
         IN  /\ NormalDoc(s, new) /\ Len(new) = Len(d)
             /\ \A i \in 1 .. Len(d) : new[i].key = d[i].key
             /\ \A i \in 1 .. Len(d) : CanonicalIdx(s, d[i].key) # 0 =>
                  AsSeq(new[i].val) = NormalizeBlock(AsSeq(d[i].val))
             /\ NormalDoc(s, d) => new = d
<1> DEFINE n == Len(d)
           new == Normalize(d, s)
           To(it) == IF it.val # Nil THEN Item(it.key, NormalizeBlock(it.val)) ELSE it
<1>1. /\ n \in Nat /\ d \in Seq(Items(s)) /\ DOMAIN d = 1 .. n /\ \A i \in 1 .. n : d[i] \in Items(s)
      /\ \A i \in 1 .. n : CanonicalIdx(s, d[i].key) # 0 => BlockOK(AsSeq(d[i].val))
  <2>1. d \in Seq(Items(s)) /\ \A i \in DOMAIN d : CanonicalIdx(s, d[i].key) # 0 => BlockOK(AsSeq(d[i].val))
    BY DEF WellFormed
  <2> QED BY <2>1
<1>2. \A it : To(it) = IF it.val # Nil THEN Item(it.key, NormalizeBlock(it.val)) ELSE it
  OBVIOUS
<1>3. new = [i \in 1 .. n |-> IF CanonicalIdx(s, d[i].key) # 0 THEN To(d[i]) ELSE d[i]]
  BY <1>1 DEF Normalize
<1>4. \A i \in 1 .. n : CanonicalIdx(s, d[i].key) # 0 =>
        /\ To(d[i]) \in Items(s) /\ To(d[i]).key = d[i].key
        /\ AsSeq(To(d[i]).val) = NormalizeBlock(AsSeq(d[i].val))
        /\ NormalBlock(AsSeq(d[i].val)) => To(d[i]) = d[i]
  BY <1>1, NormalizeItem
<1> HIDE DEF n, new, To
<1>5. \A i \in 1 .. n : /\ new[i] \in Items(s) /\ new[i].key = d[i].key
                        /\ CanonicalIdx(s, d[i].key) # 0 =>
                             /\ AsSeq(new[i].val) = NormalizeBlock(AsSeq(d[i].val))
                             /\ NormalBlock(AsSeq(d[i].val)) => new[i] = d[i]
                        /\ CanonicalIdx(s, d[i].key) = 0 => new[i] = d[i]
  BY <1>1, <1>3, <1>4
<1>6. new \in Seq(Items(s)) /\ Len(new) = n /\ DOMAIN new = 1 .. n
  <2>1. new = [i \in 1 .. n |-> new[i]]
    BY <1>3
  <2>2. \A i \in 1 .. n : new[i] \in Items(s)
    BY <1>5
  <2> QED BY <1>1, <2>1, <2>2
<1>7. NoRepeats(Keys(new))
  BY <1>1, <1>5, <1>6 DEF WellFormed, NoRepeats, Keys, Seqs!IsInjective
<1>8. \A i \in 1 .. n : CanonicalIdx(s, new[i].key) # 0 => NormalBlock(AsSeq(new[i].val))
  BY <1>1, <1>5, NormalizeBlockDef
<1>9. NormalDoc(s, new)
  BY <1>6, <1>7, <1>8 DEF NormalDoc
<1>10. ASSUME NormalDoc(s, d) PROVE new = d
  <2>1. \A i \in 1 .. n : new[i] = d[i]
    BY <1>5, <1>10 DEF NormalDoc, n
  <2>2. d = [i \in 1 .. n |-> d[i]]
    BY <1>1
  <2> QED BY <1>3, <1>6, <2>1, <2>2
<1> QED BY <1>5, <1>6, <1>9, <1>10 DEF new, n

(* cf-mgmt can load a document without bare list keys.                     *)
LEMMA NormalIsWellFormed ==
  ASSUME NEW s, NEW d, NormalDoc(s, d)
  PROVE  WellFormed(s, d)
<1>1. DOMAIN d = 1 .. Len(d)
  BY DEF NormalDoc
<1> QED BY <1>1, NormalIsBlock DEF WellFormed, NormalDoc

(* normalizeRoleLists keeps all positions and members, and does nothing    *)
(* the second time.                                                        *)
LEMMA NormalizeKeeps ==
  ASSUME NEW s \in Schemas, NEW d, WellFormed(s, d)
  PROVE  LET new == Normalize(d, s)
         IN  /\ \A k : IndexOfKey(new, k) = IndexOfKey(d, k)
             /\ \A role \in Roles(s) : \A list : Members(new, s, role, list) = Members(d, s, role, list)
             /\ HeadsOnly(s, d) => HeadsOnly(s, new)
             /\ Ordered(s, d) <=> Ordered(s, new)
             /\ NormalDoc(s, new)
             /\ Normalize(new, s) = new
<1> DEFINE n == Len(d)
           new == Normalize(d, s)
<1>1. /\ NormalDoc(s, new) /\ Len(new) = n
      /\ \A i \in 1 .. n : new[i].key = d[i].key
      /\ \A i \in 1 .. n : CanonicalIdx(s, d[i].key) # 0 =>
                  AsSeq(new[i].val) = NormalizeBlock(AsSeq(d[i].val))
  BY NormalizeDef
<1>2. /\ n \in Nat /\ d \in Seq(Items(s)) /\ DOMAIN d = 1 .. n
      /\ \A i \in 1 .. n : CanonicalIdx(s, d[i].key) # 0 => BlockOK(AsSeq(d[i].val))
  <2>1. d \in Seq(Items(s)) /\ \A i \in DOMAIN d : CanonicalIdx(s, d[i].key) # 0 => BlockOK(AsSeq(d[i].val))
    BY DEF WellFormed
  <2> QED BY <2>1
<1> HIDE DEF new
<1>3. ASSUME NEW k PROVE IndexOfKey(new, k) = IndexOfKey(d, k)
  <2>1. CASE \E j \in 1 .. n : d[j].key = k
    <3>1. PICK j \in 1 .. n : d[j].key = k
      BY <2>1
    <3>2. IndexOfKey(d, d[j].key) = j
      BY <1>2, <3>1, IndexOfUnique DEF WellFormed
    <3>3. IndexOfKey(new, new[j].key) = j
      BY <1>1, BlockOfDef
    <3> QED BY <1>1, <3>1, <3>2, <3>3
  <2>2. CASE \A j \in 1 .. n : d[j].key # k
    <3>1. IndexOfKey(d, k) = 0
      BY <1>2, <2>2, IndexOfKeyDef
    <3>2. \A j \in 1 .. Len(new) : new[j].key # k
      BY <1>1, <2>2
    <3>3. IndexOfKey(new, k) = 0
      BY <1>1, <3>2, BlockOfDef
    <3> QED BY <3>1, <3>3
  <2> QED BY <2>1, <2>2
<1>4. ASSUME NEW role \in Roles(s), NEW list
      PROVE  Members(new, s, role, list) = Members(d, s, role, list)
  <2> DEFINE key == s.roleKeys[role]
             ri == IndexOfKey(d, key)
  <2>1. CanonicalIdx(s, key) # 0
    BY SchemaFacts DEF Roles
  <2>2. Members(new, s, role, list) = InList(BlockOf(new, key), list)
        /\ Members(d, s, role, list) = InList(BlockOf(d, key), list)
    BY MembersDef
  <2>3. IndexOfKey(new, key) = ri
    BY <1>3
  <2> HIDE DEF key
  <2>4. CASE ri = 0
    BY <2>2, <2>3, <2>4 DEF BlockOf
  <2>5. CASE ri # 0
    <3>1. ri \in 1 .. n /\ d[ri].key = key
      BY <1>2, <2>5, IndexOfKeyDef
    <3>2. BlockOf(new, key) = NormalizeBlock(AsSeq(d[ri].val)) /\ BlockOf(d, key) = AsSeq(d[ri].val)
      BY <1>1, <2>1, <2>3, <2>5, <3>1 DEF BlockOf
    <3>3. BlockOK(AsSeq(d[ri].val))
      BY <1>2, <2>1, <3>1
    <3> QED BY <2>2, <3>2, <3>3, NormalizeBlockDef
  <2> QED BY <2>4, <2>5
<1>5. HeadsOnly(s, d) => HeadsOnly(s, new)
  BY <1>1 DEF HeadsOnly
<1>6. Ordered(s, d) <=> Ordered(s, new)
  <2>1. DOMAIN new = 1 .. n
    BY <1>1 DEF NormalDoc
  <2> QED BY <1>1, <1>2, <2>1 DEF Ordered
<1>7. Normalize(new, s) = new
  BY <1>1, NormalIsWellFormed, NormalizeDef
<1> QED BY <1>1, <1>3, <1>4, <1>5, <1>6, <1>7 DEF new

-----------------------------------------------------------------------------
(* A batch on a document without bare list keys.                           *)

(* A batch that passes validation.                                         *)
GoodOps(s, ops) == Len(ops) \in Nat /\ DOMAIN ops = 1 .. Len(ops) /\ \A i \in 1 .. Len(ops) : GoodOp(s, ops[i])

(* No document of a batch has bare list keys.                              *)
LEMMA Each ==
  ASSUME NEW s \in Schemas, NEW e, NormalDoc(s, e), NEW T, NEW ops \in Seq(T), GoodOps(s, ops)
  PROVE  \A n \in 0 .. Len(ops) : NormalDoc(s, Progress(e, s, ops)[n])
<1> DEFINE N == Len(ops)
           P == Progress(e, s, ops)
           S == {n \in 0 .. N : NormalDoc(s, P[n])}
<1>1. P[0] = e /\ \A n \in 1 .. N : P[n] = ApplyListEdit(P[n - 1], s, ops[n])
  BY ProgressDef
<1>2. N \in Nat /\ \A i \in 1 .. N : GoodOp(s, ops[i])
  BY DEF GoodOps
<1> HIDE DEF N, P
<1>3. 0 \in S
  BY <1>1, <1>2
<1>4. ASSUME NEW n \in 0 .. N - 1, n \in S PROVE n + 1 \in S
  <2>1. n + 1 \in 1 .. N /\ n + 1 - 1 = n
    BY <1>2
  <2>2. P[n + 1] = ApplyListEdit(P[n], s, ops[n + 1]) /\ GoodOp(s, ops[n + 1])
    BY <1>1, <1>2, <2>1
  <2>3. NormalDoc(s, P[n + 1])
    BY <1>4, <2>2, EditEffect
  <2> QED BY <1>2, <2>1, <2>3
<1>5. 0 .. N \subseteq S
  <2> HIDE DEF S
  <2> QED BY <1>2, <1>3, <1>4, UpTo
<1> QED BY <1>5 DEF N, P

(* The step from one document of a batch to the next.                      *)
LEMMA EachStep ==
  ASSUME NEW s \in Schemas, NEW e, NormalDoc(s, e), NEW T, NEW ops \in Seq(T), GoodOps(s, ops),
         NEW n \in 0 .. Len(ops) - 1
  PROVE  LET P == Progress(e, s, ops)
             op == ops[n + 1]
         IN  /\ NormalDoc(s, P[n]) /\ GoodOp(s, op)
             /\ P[n + 1] = ApplyListEdit(P[n], s, op)
             /\ n + 1 \in 1 .. Len(ops) /\ n + 1 \in 0 .. Len(ops) /\ n \in 0 .. Len(ops)
<1>1. /\ Len(ops) \in Nat /\ \A i \in 1 .. Len(ops) : GoodOp(s, ops[i])
  BY DEF GoodOps
<1>2. n + 1 \in 1 .. Len(ops) /\ n + 1 \in 0 .. Len(ops) /\ n \in 0 .. Len(ops) /\ n + 1 - 1 = n
  BY <1>1
<1>3. \A k \in 1 .. Len(ops) : Progress(e, s, ops)[k] = ApplyListEdit(Progress(e, s, ops)[k - 1], s, ops[k])
  BY ProgressDef
<1>4. Progress(e, s, ops)[n + 1] = ApplyListEdit(Progress(e, s, ops)[n], s, ops[n + 1])
  BY <1>2, <1>3
<1> QED BY <1>1, <1>2, <1>4, Each

(* A batch keeps the role blocks where cf-mgmt writes them.                *)
LEMMA ProgressOrder ==
  ASSUME NEW s \in Schemas, NEW e, NormalDoc(s, e), NEW T, NEW ops \in Seq(T), GoodOps(s, ops),
         HeadsOnly(s, e)
  PROVE  LET final == Progress(e, s, ops)[Len(ops)]
         IN  HeadsOnly(s, final) /\ (Ordered(s, e) => Ordered(s, final))
<1> DEFINE N == Len(ops)
           P == Progress(e, s, ops)
           S == {n \in 0 .. N : HeadsOnly(s, P[n]) /\ (Ordered(s, e) => Ordered(s, P[n]))}
<1>1. P[0] = e /\ N \in Nat
  BY ProgressDef DEF GoodOps
<1>2. 0 \in S
  BY <1>1
<1>3. ASSUME NEW n \in 0 .. N - 1, n \in S PROVE n + 1 \in S
  <2> DEFINE d == P[n]
             new == P[n + 1]
  <2>1. /\ NormalDoc(s, d) /\ GoodOp(s, ops[n + 1]) /\ new = ApplyListEdit(d, s, ops[n + 1])
        /\ n + 1 \in 0 .. N
    BY EachStep
  <2> HIDE DEF P
  <2>2. HeadsOnly(s, d) /\ (Ordered(s, e) => Ordered(s, d))
    BY <1>3
  <2> HIDE DEF d, new
  <2>3. /\ HeadsOnly(s, d) => HeadsOnly(s, new)
        /\ HeadsOnly(s, d) /\ Ordered(s, d) => Ordered(s, new)
    BY <2>1, EditEffect
  <2> QED BY <2>1, <2>2, <2>3 DEF new
<1> HIDE DEF N, P
<1>4. 0 .. N \subseteq S
  <2> HIDE DEF S
  <2> QED BY <1>1, <1>2, <1>3, UpTo
<1>5. N \in 0 .. N
  BY <1>1
<1> QED BY <1>4, <1>5 DEF N, P

(* A batch leaves the items and lists alone that it does not name.         *)
LEMMA ProgressOthers ==
  ASSUME NEW s \in Schemas, NEW e, NormalDoc(s, e), NEW T, NEW ops \in Seq(T), GoodOps(s, ops)
  PROVE  LET final == Progress(e, s, ops)[Len(ops)]
         IN  /\ InOrder(final, EditedKeys(s, ops)) = InOrder(e, EditedKeys(s, ops))
             /\ \A key : IndexOfKey(e, key) # 0 =>
                  /\ IndexOfKey(final, key) # 0
                  /\ InOrder(BlockOf(final, key), EditedLists(s, ops, key))
                       = InOrder(BlockOf(e, key), EditedLists(s, ops, key))
<1> DEFINE N == Len(ops)
           P == Progress(e, s, ops)
           EK == EditedKeys(s, ops)
           EL(key) == EditedLists(s, ops, key)
           Same(d) == /\ InOrder(d, EK) = InOrder(e, EK)
                      /\ \A key : IndexOfKey(e, key) # 0 =>
                            /\ IndexOfKey(d, key) # 0
                            /\ InOrder(BlockOf(d, key), EL(key)) = InOrder(BlockOf(e, key), EL(key))
           S == {n \in 0 .. N : Same(P[n])}
<1>1. P[0] = e /\ N \in Nat
  BY ProgressDef DEF GoodOps
<1>2. 0 \in S
  BY <1>1
<1>3. ASSUME NEW n \in 0 .. N - 1, n \in S PROVE n + 1 \in S
  <2> DEFINE d == P[n]
             new == P[n + 1]
             op == ops[n + 1]
             okey == s.roleKeys[op.role]
  <2>1. /\ NormalDoc(s, d) /\ GoodOp(s, op) /\ new = ApplyListEdit(d, s, op)
        /\ n + 1 \in 0 .. N /\ n + 1 \in 1 .. N
    BY EachStep
  <2>2. Same(d)
    <3> HIDE DEF Same, P
    <3> QED BY <1>3
  <2>3. okey \in EK /\ op.list \in EL(okey)
    <3>1. n + 1 \in DOMAIN ops
      BY <2>1 DEF GoodOps
    <3> QED BY <3>1 DEF EditedKeys, EditedLists
  <2> HIDE DEF EK, EL, d, new
  <2>4. /\ \A k : k # okey => BlockOf(new, k) = BlockOf(d, k)
        /\ \A k : IndexOfKey(d, k) # 0 => IndexOfKey(new, k) # 0
        /\ \A but : okey \in but => InOrder(new, but) = InOrder(d, but)
        /\ IndexOfKey(d, okey) # 0 => \A but : op.list \in but =>
                  InOrder(BlockOf(new, okey), but) = InOrder(BlockOf(d, okey), but)
    BY <2>1, EditEffect
  <2> HIDE DEF okey, op
  <2>5. InOrder(new, EK) = InOrder(e, EK)
    BY <2>2, <2>3, <2>4
  <2>6. ASSUME NEW key, IndexOfKey(e, key) # 0
        PROVE  /\ IndexOfKey(new, key) # 0
               /\ InOrder(BlockOf(new, key), EL(key)) = InOrder(BlockOf(e, key), EL(key))
    <3>1. IndexOfKey(d, key) # 0 /\ InOrder(BlockOf(d, key), EL(key)) = InOrder(BlockOf(e, key), EL(key))
      BY <2>2, <2>6
    <3>2. CASE key = okey
      BY <2>3, <2>4, <3>1, <3>2
    <3>3. CASE key # okey
      BY <2>4, <3>1, <3>3
    <3> QED BY <3>2, <3>3
  <2>7. Same(new)
    BY <2>5, <2>6
  <2> HIDE DEF Same
  <2> QED BY <2>1, <2>7 DEF new
<1> HIDE DEF N, P
<1>4. 0 .. N \subseteq S
  <2> HIDE DEF S
  <2> QED BY <1>1, <1>2, <1>3, UpTo
<1>5. Same(P[N])
  <2> HIDE DEF Same
  <2>1. N \in 0 .. N
    BY <1>1
  <2> QED BY <1>4, <2>1
<1> QED BY <1>5 DEF N, P

(* A batch whose every operation is done already changes nothing.          *)
LEMMA ProgressNoOp ==
  ASSUME NEW s \in Schemas, NEW e, NormalDoc(s, e), NEW T, NEW ops \in Seq(T), GoodOps(s, ops),
         \A i \in 1 .. Len(ops) :
           ops[i].action = "add" <=> ops[i].member \in Members(e, s, ops[i].role, ops[i].list)
  PROVE  Progress(e, s, ops)[Len(ops)] = e
<1> DEFINE N == Len(ops)
           P == Progress(e, s, ops)
           S == {n \in 0 .. N : P[n] = e}
<1>1. P[0] = e /\ N \in Nat
  BY ProgressDef DEF GoodOps
<1>2. 0 \in S
  BY <1>1
<1>3. ASSUME NEW n \in 0 .. N - 1, n \in S PROVE n + 1 \in S
  <2> DEFINE op == ops[n + 1]
             key == s.roleKeys[op.role]
  <2>1. /\ NormalDoc(s, P[n]) /\ GoodOp(s, op) /\ P[n + 1] = ApplyListEdit(P[n], s, op)
        /\ n + 1 \in 0 .. N /\ n + 1 \in 1 .. N
    BY EachStep
  <2>2. op.action = "add" <=> op.member \in InList(BlockOf(e, key), op.list)
    BY <2>1, MembersDef
  <2>3. P[n] = e
    BY <1>3
  <2> HIDE DEF P, op
  <2>4. ApplyListEdit(e, s, op) = e
    BY <2>1, <2>2, EditEffect
  <2> QED BY <2>1, <2>3, <2>4
<1> HIDE DEF N, P
<1>4. 0 .. N \subseteq S
  <2> HIDE DEF S
  <2> QED BY <1>1, <1>2, <1>3, UpTo
<1>5. N \in 0 .. N
  BY <1>1
<1> QED BY <1>4, <1>5 DEF N, P

(* Operation i is the last of the first n on its line of the list.         *)
IsLast(ops, n, i, action, role, list) ==
  /\ i \in 1 .. n
  /\ ops[i].action = action /\ ops[i].role = role /\ ops[i].list = list
  /\ \A k \in 1 .. n : k > i =>
       ~(ops[k].role = role /\ ops[k].list = list /\ ops[k].member = ops[i].member)

(* The members the first n operations leave added or removed.              *)
LastUpTo(ops, n, action, role, list) ==
  {m \in {ops[i].member : i \in 1 .. n} :
     \E i \in 1 .. n : IsLast(ops, n, i, action, role, list) /\ ops[i].member = m}

(* LastUpTo, by the operations.                                            *)
LEMMA LastUpToDef ==
  ASSUME NEW ops, NEW n \in Nat, NEW action, NEW role, NEW list
  PROVE  \A m : m \in LastUpTo(ops, n, action, role, list) <=>
           \E i \in 1 .. n : IsLast(ops, n, i, action, role, list) /\ ops[i].member = m
BY DEF LastUpTo

(* For the whole batch these are the members of LastOn.                    *)
LEMMA LastUpToAll ==
  ASSUME NEW ops, Len(ops) \in Nat, DOMAIN ops = 1 .. Len(ops), NEW action, NEW role, NEW list
  PROVE  LastUpTo(ops, Len(ops), action, role, list) = LastOn(ops, action, role, list)
<1> DEFINE n == Len(ops)
<1> HIDE DEF n
<1>1. ASSUME NEW m PROVE m \in LastOn(ops, action, role, list) <=>
           \E i \in 1 .. n : IsLast(ops, n, i, action, role, list) /\ ops[i].member = m
  <2>1. m \in LastOn(ops, action, role, list) <=>
          \E i \in 1 .. n : /\ ops[i].action = action /\ ops[i].role = role /\ ops[i].list = list
                            /\ \A k \in 1 .. n : k > i => <<ops[k].role, ops[k].list, ops[k].member>>
                                                       # <<role, list, ops[i].member>>
                            /\ ops[i].member = m
    BY DEF LastOn, n
  <2> QED BY <2>1 DEF IsLast
<1>2. \A m : m \in LastUpTo(ops, n, action, role, list) <=>
           \E i \in 1 .. n : IsLast(ops, n, i, action, role, list) /\ ops[i].member = m
  BY LastUpToDef DEF n
<1> QED BY <1>1, <1>2 DEF n

(* No operation, no member.                                                *)
LEMMA LastUpToZero ==
  ASSUME NEW ops, NEW action, NEW role, NEW list
  PROVE  LastUpTo(ops, 0, action, role, list) = {}
BY DEF LastUpTo

(* One more operation decides about its own line and no other.             *)
LEMMA LastUpToNext ==
  ASSUME NEW T, NEW ops \in Seq(T), NEW n \in Nat, NEW role, NEW list,
         NEW action
  PROVE  LET op == ops[n + 1]
             before == LastUpTo(ops, n, action, role, list)
             after == LastUpTo(ops, n + 1, action, role, list)
             on == op.role = role /\ op.list = list
         IN  /\ on /\ op.action = action => after = before \cup {op.member}
             /\ on /\ op.action # action => after = before \ {op.member}
             /\ ~on => after = before
<1> DEFINE op == ops[n + 1]
           before == LastUpTo(ops, n, action, role, list)
           after == LastUpTo(ops, n + 1, action, role, list)
           on == op.role = role /\ op.list = list
<1>0. n + 1 \in Nat
  OBVIOUS
<1>1. /\ \A m : m \in before <=> \E i \in 1 .. n : IsLast(ops, n, i, action, role, list) /\ ops[i].member = m
      /\ \A m : m \in after <=>
           \E i \in 1 .. n + 1 : IsLast(ops, n + 1, i, action, role, list) /\ ops[i].member = m
  BY <1>0, LastUpToDef
<1>2. \A i \in 1 .. n : IsLast(ops, n + 1, i, action, role, list) <=>
        IsLast(ops, n, i, action, role, list) /\ ~(on /\ op.member = ops[i].member)
  <2> TAKE i \in 1 .. n
  <2>1. n + 1 \in 1 .. n + 1 /\ n + 1 > i /\ i \in 1 .. n + 1
    OBVIOUS
  <2>2. \A k \in 1 .. n + 1 : k \in 1 .. n \/ k = n + 1
    OBVIOUS
  <2>3. \A k \in 1 .. n : k \in 1 .. n + 1
    OBVIOUS
  <2> QED BY <2>1, <2>2, <2>3 DEF IsLast
<1>3. IsLast(ops, n + 1, n + 1, action, role, list) <=> op.action = action /\ on
  <2>1. n + 1 \in 1 .. n + 1 /\ \A k \in 1 .. n + 1 : ~(k > n + 1)
    OBVIOUS
  <2> QED BY <2>1 DEF IsLast
<1>4. \A i \in 1 .. n + 1 : i \in 1 .. n \/ i = n + 1
  OBVIOUS
<1>5. n + 1 \in 1 .. n + 1 /\ \A i \in 1 .. n : i \in 1 .. n + 1
  OBVIOUS
<1> HIDE DEF before, after, on
<1>6. \A m : m \in after <=> (m \in before /\ ~(on /\ op.member = m)) \/ (op.action = action /\ on /\ m = op.member)
  <2> TAKE m
  <2>1. ASSUME m \in after
        PROVE  (m \in before /\ ~(on /\ op.member = m)) \/ (op.action = action /\ on /\ m = op.member)
    <3>1. PICK i \in 1 .. n + 1 : IsLast(ops, n + 1, i, action, role, list) /\ ops[i].member = m
      BY <1>1, <2>1
    <3> HIDE DEF op
    <3>2. CASE i \in 1 .. n
      BY <1>1, <1>2, <3>1, <3>2
    <3>3. CASE i = n + 1
      BY <1>3, <3>1, <3>3 DEF op
    <3> QED BY <1>4, <3>2, <3>3
  <2>2. ASSUME m \in before, ~(on /\ op.member = m) PROVE m \in after
    <3>1. PICK i \in 1 .. n : IsLast(ops, n, i, action, role, list) /\ ops[i].member = m
      BY <1>1, <2>2
    <3> QED BY <1>1, <1>2, <1>5, <2>2, <3>1
  <2>3. ASSUME op.action = action, on, m = op.member PROVE m \in after
    BY <1>1, <1>3, <1>5, <2>3
  <2> QED BY <2>1, <2>2, <2>3
<1>7. CASE ~on
  <2>1. after = before
    BY <1>6, <1>7
  <2> QED BY <1>7, <2>1 DEF on, before, after
<1>8. CASE on /\ op.action = action
  <2>1. after = before \cup {op.member}
    BY <1>6, <1>8
  <2> QED BY <1>8, <2>1 DEF on, before, after
<1>9. CASE on /\ op.action # action
  <2>1. after = before \ {op.member}
    BY <1>6, <1>9
  <2> QED BY <1>9, <2>1 DEF on, before, after
<1> QED BY <1>7, <1>8, <1>9

(* The last operation on a member decides, in a batch of any length.       *)
LEMMA ProgressMembers ==
  ASSUME NEW s \in Schemas, NEW e, NormalDoc(s, e), NEW T, NEW ops \in Seq(T), GoodOps(s, ops),
         NEW role \in Roles(s), NEW list \in Lists
  PROVE  Members(Progress(e, s, ops)[Len(ops)], s, role, list)
           = (Members(e, s, role, list) \ LastOn(ops, "remove", role, list))
               \cup LastOn(ops, "add", role, list)
<1> DEFINE N == Len(ops)
           P == Progress(e, s, ops)
           M(d) == Members(d, s, role, list)
           Last(n, action) == LastUpTo(ops, n, action, role, list)
           OK(n) == M(P[n]) = (M(e) \ Last(n, "remove")) \cup Last(n, "add")
           S == {n \in 0 .. N : OK(n)}
<1>1. P[0] = e /\ N \in Nat /\ DOMAIN ops = 1 .. N
  BY ProgressDef DEF GoodOps
<1>2. 0 \in S
  <2>1. Last(0, "add") = {} /\ Last(0, "remove") = {}
    BY LastUpToZero
  <2>2. OK(0)
    BY <1>1, <2>1
  <2> HIDE DEF OK
  <2> QED BY <1>1, <2>2
<1>3. ASSUME NEW n \in 0 .. N - 1, n \in S PROVE n + 1 \in S
  <2> DEFINE d == P[n]
             new == P[n + 1]
             op == ops[n + 1]
             okey == s.roleKeys[op.role]
             key == s.roleKeys[role]
             on == op.role = role /\ op.list = list
  <2>1. /\ NormalDoc(s, d) /\ GoodOp(s, op) /\ new = ApplyListEdit(d, s, op)
        /\ n + 1 \in 0 .. N
    BY EachStep
  <2>2. OK(n)
    BY <1>3
  <2>3. op.action \in {"add", "remove"} /\ op.role \in Roles(s) /\ op.list \in Lists
    BY <2>1, ListKeysDef DEF GoodOp, ValidOp, Roles
  <2>4. \A action :
          /\ on /\ op.action = action => Last(n + 1, action) = Last(n, action) \cup {op.member}
          /\ on /\ op.action # action => Last(n + 1, action) = Last(n, action) \ {op.member}
          /\ ~on => Last(n + 1, action) = Last(n, action)
    <3>1. n \in Nat
      BY <1>1
    <3> QED BY <3>1, LastUpToNext
  <2>5. M(d) = InList(BlockOf(d, key), list) /\ M(new) = InList(BlockOf(new, key), list)
    BY MembersDef
  <2> HIDE DEF d, new
  <2>6. /\ InList(BlockOf(new, okey), op.list) = Effect(op, InList(BlockOf(d, okey), op.list))
        /\ \A k \in Lists : k # op.list => InList(BlockOf(new, okey), k) = InList(BlockOf(d, okey), k)
        /\ \A k : k # okey => BlockOf(new, k) = BlockOf(d, k)
    BY <2>1, EditEffect
  <2>7. op.role # role => okey # key
    BY <2>3, SchemaFacts DEF Roles
  <2> HIDE DEF M, Last, op, key
  <2>8. CASE ~on
    <3>1. M(new) = M(d)
      <4>1. CASE op.role = role
        BY <2>5, <2>6, <2>8, <4>1 DEF key
      <4>2. CASE op.role # role
        BY <2>5, <2>6, <2>7, <4>2
      <4> QED BY <4>1, <4>2
    <3> QED BY <2>1, <2>2, <2>4, <2>8, <3>1 DEF d, new
  <2>9. CASE on
    <3>1. M(new) = Effect(op, M(d))
      BY <2>5, <2>6, <2>9 DEF key
    <3>2. OK(n + 1)
      <4>1. CASE op.action = "add"
        BY <2>2, <2>4, <2>9, <3>1, <4>1 DEF d, new, Effect
      <4>2. CASE op.action = "remove"
        BY <2>2, <2>4, <2>9, <3>1, <4>2 DEF d, new, Effect
      <4> QED BY <2>3, <4>1, <4>2
    <3> QED BY <2>1, <3>2
  <2> QED BY <2>8, <2>9
<1>4. N \in S
  <2> HIDE DEF S
  <2>1. N \in 0 .. N
    BY <1>1
  <2> QED BY <1>1, <1>2, <1>3, <2>1, UpTo
<1>5. Last(N, "add") = LastOn(ops, "add", role, list) /\ Last(N, "remove") = LastOn(ops, "remove", role, list)
  BY <1>1, LastUpToAll
<1> QED BY <1>4, <1>5
=============================================================================
