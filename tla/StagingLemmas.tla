---------------------------- MODULE StagingLemmas ----------------------------
(***************************************************************************)
(* What the staging pages' tables keep through any edits, for any lists of *)
(* members: each row knows the roles its member had and the origin these   *)
(* are listed under, so that the operations, which are the differences of  *)
(* the two halves of the rows, turn the list into the one shown.  And they *)
(* are a batch its handler runs: valid, with no line named twice.          *)
(***************************************************************************)
EXTENDS Staging, WellFoundedInduction, FiniteSetTheorems, SequenceTheorems, TLAPS

TableType(table, origins) ==
  LET rows == [Rows(table) -> [origin : origins, roles : SUBSET PageRoles]]
  IN  table \in [from : {table.from}, original : rows, state : rows,
                 removed : SUBSET Rows(table)]

\* Row u of a table loaded from lines.
RowOK(table, lines, u) ==
  /\ table.state[u].origin = table.original[u].origin
  /\ table.original[u].roles = RolesOf(lines, u)
  /\ OneOrigin(lines, u) =>
       Of(lines, u) = {RoleLine(r, table.original[u].origin, u) : r \in RolesOf(lines, u)}

TableOK(table, lines, origins) ==
  /\ TableType(table, origins)
  /\ Members(lines) \subseteq Rows(table)
  /\ \A u \in Rows(table) : RowOK(table, lines, u)

-----------------------------------------------------------------------------
(* Each set of natural numbers has a least element.                        *)
LEMMA NatHasMin ==
  ASSUME NEW S, S \subseteq Nat, S # {}
  PROVE  \E x \in S : \A y \in S : x <= y
<1> DEFINE R == {ss \in Nat \X Nat : ss[1] < ss[2]}
<1>1. IsWellFoundedOn(R, Nat)
  BY NatLessThanWellFounded DEF OpToRel
<1>2. \E x \in S : \A y \in S : <<y, x>> \notin R
  <2> HIDE DEF R
  <2> QED BY <1>1, WFMin
<1>3. \A x, y \in Nat : <<y, x>> \notin R => x <= y
  OBVIOUS
<1> QED BY <1>2, <1>3

(* The first origin of a listed member is one it is listed under.          *)
LEMMA FirstOriginListed ==
  ASSUME DOMAIN RoleOrder \subseteq Nat, DOMAIN OriginOrder \subseteq Nat,
         NEW lines, Known(lines), NEW u \in Members(lines)
  PROVE  \E i \in DOMAIN RoleOrder, j \in DOMAIN OriginOrder :
           /\ FirstOrigin(lines, u) = OriginOrder[j]
           /\ RoleLine(RoleOrder[i], OriginOrder[j], u) \in lines
<1> DEFINE hits == {p \in (DOMAIN RoleOrder) \X (DOMAIN OriginOrder) :
                      RoleLine(RoleOrder[p[1]], OriginOrder[p[2]], u) \in lines}
           Before(p, q) == p[1] < q[1] \/ (p[1] = q[1] /\ p[2] <= q[2])
           IsFirst(p) == p \in hits /\ \A q \in hits : Before(p, q)
           first == CHOOSE p \in hits : \A q \in hits : Before(p, q)
           firsts == {p[1] : p \in hits}
<1>1. hits # {}
  <2>1. PICK l \in lines : l[3] = u
    BY DEF Members
  <2>2. PICK i \in DOMAIN RoleOrder, j \in DOMAIN OriginOrder :
          l = RoleLine(RoleOrder[i], OriginOrder[j], u)
    BY <2>1 DEF Known
  <2>3. <<i, j>> \in hits
    BY <2>1, <2>2
  <2> QED BY <2>3
<1>2. \A p \in hits : p[1] \in Nat /\ p[2] \in Nat
  OBVIOUS
<1>3. PICK m \in firsts : \A x \in firsts : m <= x
  <2>1. firsts \subseteq Nat /\ firsts # {}
    BY <1>1, <1>2
  <2> HIDE DEF firsts
  <2> QED BY <2>1, NatHasMin
<1> DEFINE seconds == {p[2] : p \in {q \in hits : q[1] = m}}
<1>4. PICK n \in seconds : \A x \in seconds : n <= x
  <2>1. seconds \subseteq Nat /\ seconds # {}
    BY <1>2, <1>3
  <2> HIDE DEF seconds
  <2> QED BY <2>1, NatHasMin
<1>5. \E p \in hits : \A q \in hits : Before(p, q)
  <2>1. PICK p \in hits : p[1] = m /\ p[2] = n
    BY <1>4
  <2>2. ASSUME NEW q \in hits PROVE Before(p, q)
    <3>1. m <= q[1] /\ (q[1] = m => n <= q[2])
      BY <1>3, <1>4
    <3>2. m \in Nat /\ q[1] \in Nat
      BY <1>2, <2>1
    <3> QED BY <2>1, <3>1, <3>2
  <2> QED BY <2>2
<1>6. first \in hits
  <2> HIDE DEF hits, Before
  <2> QED BY <1>5
<1>7. FirstOrigin(lines, u) = OriginOrder[first[2]]
  BY DEF FirstOrigin
<1> HIDE DEF first
<1> QED BY <1>6, <1>7

-----------------------------------------------------------------------------
(* A freshly loaded table is right, for a list with known lines.           *)
LEMMA LoadOK ==
  ASSUME DOMAIN RoleOrder \subseteq Nat, DOMAIN OriginOrder \subseteq Nat,
         NEW from, NEW lines, Known(lines), NEW origins,
         \A j \in DOMAIN OriginOrder : OriginOrder[j] \in origins
  PROVE  TableOK(Load(from, lines), lines, origins) /\ Load(from, lines).from = from
<1> DEFINE table == Load(from, lines)
<1>1. /\ table.original = Original(lines) /\ table.state = Original(lines)
      /\ table.removed = {} /\ table.from = from
      /\ table = [from |-> from, original |-> table.original, state |-> table.state,
                  removed |-> table.removed]
  BY DEF Load
<1>2. Rows(table) = Members(lines)
  BY <1>1 DEF Rows, Original
<1>3. \A u \in Members(lines) :
        /\ Original(lines)[u] = [origin |-> FirstOrigin(lines, u), roles |-> RolesOf(lines, u)]
        /\ FirstOrigin(lines, u) \in origins
        /\ RolesOf(lines, u) \subseteq PageRoles
  <2> SUFFICES ASSUME NEW u \in Members(lines)
               PROVE  /\ Original(lines)[u] =
                           [origin |-> FirstOrigin(lines, u), roles |-> RolesOf(lines, u)]
                      /\ FirstOrigin(lines, u) \in origins
                      /\ RolesOf(lines, u) \subseteq PageRoles
    OBVIOUS
  <2>1. Original(lines)[u] = [origin |-> FirstOrigin(lines, u), roles |-> RolesOf(lines, u)]
    BY DEF Original
  <2>2. FirstOrigin(lines, u) \in origins
    BY FirstOriginListed
  <2>3. RolesOf(lines, u) \subseteq PageRoles
    BY DEF RolesOf, Known, PageRoles, RoleLine
  <2> QED BY <2>1, <2>2, <2>3
<1>4. TableType(table, origins)
  <2>1. Original(lines) \in [Members(lines) -> [origin : origins, roles : SUBSET PageRoles]]
    BY <1>3 DEF Original
  <2> QED BY <1>1, <1>2, <2>1 DEF TableType
<1>5. ASSUME NEW u \in Members(lines), OneOrigin(lines, u)
      PROVE  Of(lines, u) = {RoleLine(r, FirstOrigin(lines, u), u) : r \in RolesOf(lines, u)}
  <2>1. PICK i \in DOMAIN RoleOrder, j \in DOMAIN OriginOrder :
          /\ FirstOrigin(lines, u) = OriginOrder[j]
          /\ RoleLine(RoleOrder[i], OriginOrder[j], u) \in lines
    BY FirstOriginListed
  <2>2. RoleLine(RoleOrder[i], OriginOrder[j], u) \in Of(lines, u)
    BY <2>1 DEF Of, RoleLine
  <2>3. \A l \in Of(lines, u) : l[2] = FirstOrigin(lines, u)
    BY <1>5, <2>1, <2>2 DEF OneOrigin, RoleLine
  <2>4. \A l \in Of(lines, u) : l = RoleLine(l[1], l[2], u) /\ l \in lines /\ l[3] = u
    BY DEF Of, Known, RoleLine
  <2>5. \A l \in Of(lines, u) : l[1] \in RolesOf(lines, u)
    BY <2>4 DEF RolesOf
  <2>6. \A r \in RolesOf(lines, u) : \E l \in Of(lines, u) : l[1] = r
    BY DEF RolesOf, Of
  <2> QED BY <2>3, <2>4, <2>5, <2>6
<1>6. ASSUME NEW u \in Members(lines) PROVE RowOK(table, lines, u)
  <2> HIDE DEF table
  <2>1. table.original[u] = Original(lines)[u] /\ table.state[u] = Original(lines)[u]
    BY <1>1
  <2>2. Original(lines)[u] = [origin |-> FirstOrigin(lines, u), roles |-> RolesOf(lines, u)]
    BY <1>3
  <2> QED BY <1>5, <2>1, <2>2 DEF RowOK
<1>7. TableOK(table, lines, origins)
  <2> HIDE DEF table
  <2> QED BY <1>2, <1>4, <1>6 DEF TableOK
<1> QED BY <1>1, <1>7

(* Every edit of the page keeps that.                                      *)
LEMMA EditOK ==
  ASSUME NEW table, NEW lines, NEW origins, TableOK(table, lines, origins),
         NEW newcomers, NEW given, given \subseteq origins,
         NEW roles, roles \subseteq PageRoles,
         NEW edited \in Edits(table, newcomers, given, roles)
  PROVE  TableOK(edited, lines, origins) /\ edited.from = table.from
<1> DEFINE Row == [origin : origins, roles : SUBSET PageRoles]
<1>1. /\ table = [from |-> table.from, original |-> table.original, state |-> table.state,
                  removed |-> table.removed]
      /\ table.original \in [Rows(table) -> Row] /\ table.state \in [Rows(table) -> Row]
      /\ table.removed \subseteq Rows(table)
  BY DEF TableOK, TableType
<1>2. ASSUME NEW u \in newcomers \ Rows(table), NEW o \in given, edited = AddRow(table, u, o)
      PROVE  TableOK(edited, lines, origins) /\ edited.from = table.from
  <2> DEFINE new == [origin |-> o, roles |-> {}]
             With(rows) == [v \in Rows(table) \cup {u} |-> IF v = u THEN new ELSE rows[v]]
  <2>1. \A rows \in [Rows(table) -> Row] : With(rows) \in [Rows(table) \cup {u} -> Row]
    BY <1>2
  <2>2. /\ edited.original = With(table.original) /\ edited.state = With(table.state)
        /\ edited.removed = table.removed /\ edited.from = table.from
        /\ edited = [from |-> edited.from, original |-> edited.original,
                     state |-> edited.state, removed |-> edited.removed]
    BY <1>1, <1>2, <2>1 DEF AddRow
  <2>3. Rows(edited) = Rows(table) \cup {u}
    BY <2>2 DEF Rows
  <2>4. TableType(edited, origins)
    BY <1>1, <2>1, <2>2, <2>3 DEF TableType
  <2>5. u \notin Members(lines)
    BY <1>2 DEF TableOK
  <2>6. RolesOf(lines, u) = {} /\ Of(lines, u) = {}
    BY <2>5 DEF Members, RolesOf, Of
  <2>7. RowOK(edited, lines, u)
    BY <2>2, <2>6 DEF RowOK
  <2>8. \A v \in Rows(table) : RowOK(edited, lines, v)
    BY <1>2, <2>2 DEF TableOK, RowOK
  <2> QED BY <2>2, <2>3, <2>4, <2>7, <2>8 DEF TableOK
<1>3. ASSUME NEW R \in SUBSET Rows(table), edited = [table EXCEPT !.removed = R]
      PROVE  TableOK(edited, lines, origins) /\ edited.from = table.from
  <2>1. /\ edited.original = table.original /\ edited.state = table.state
        /\ edited.removed = R /\ edited.from = table.from
        /\ edited = [from |-> edited.from, original |-> edited.original,
                     state |-> edited.state, removed |-> edited.removed]
    BY <1>1, <1>3
  <2>2. Rows(edited) = Rows(table)
    BY <2>1 DEF Rows
  <2>3. TableType(edited, origins)
    BY <1>1, <2>1, <2>2 DEF TableType
  <2> QED BY <2>1, <2>2, <2>3 DEF TableOK, RowOK
<1>4. ASSUME NEW u \in Left(table), NEW role \in roles, edited = Toggle(table, u, role)
      PROVE  TableOK(edited, lines, origins) /\ edited.from = table.from
  <2> DEFINE ticked == table.state[u].roles
             now == IF role \in ticked THEN ticked \ {role} ELSE ticked \cup {role}
             state == [table.state EXCEPT ![u] = [@ EXCEPT !.roles = now]]
  <2>1. /\ edited.original = table.original /\ edited.state = state
        /\ edited.removed = table.removed /\ edited.from = table.from
        /\ edited = [from |-> edited.from, original |-> edited.original,
                     state |-> edited.state, removed |-> edited.removed]
    BY <1>1, <1>4 DEF Toggle
  <2>2. u \in Rows(table) /\ now \in SUBSET PageRoles
    BY <1>1, <1>4 DEF Left
  <2>3. /\ state \in [Rows(table) -> Row]
        /\ \A v \in Rows(table) : state[v].origin = table.state[v].origin
    BY <1>1, <2>2
  <2>4. Rows(edited) = Rows(table)
    BY <2>1 DEF Rows
  <2> HIDE DEF state
  <2>5. TableType(edited, origins)
    BY <1>1, <2>1, <2>3, <2>4 DEF TableType
  <2> QED BY <2>1, <2>3, <2>4, <2>5 DEF TableOK, RowOK
<1>5. ASSUME NEW u \in Left(table), edited = ToRemove(table, u)
      PROVE  TableOK(edited, lines, origins) /\ edited.from = table.from
  <2>1. table.removed \cup {u} \in SUBSET Rows(table)
    BY <1>1, <1>5 DEF Left
  <2> QED BY <1>3, <1>5, <2>1 DEF ToRemove
<1>6. ASSUME NEW u \in table.removed, edited = ToKeep(table, u)
      PROVE  TableOK(edited, lines, origins) /\ edited.from = table.from
  <2>1. table.removed \ {u} \in SUBSET Rows(table)
    BY <1>1
  <2> QED BY <1>3, <1>6, <2>1 DEF ToKeep
<1> QED BY <1>2, <1>4, <1>5, <1>6 DEF Edits

-----------------------------------------------------------------------------
Dropped(table, u) ==
  IF u \in table.removed THEN Was(table, u) ELSE Was(table, u) \ Now(table, u)
Gained(table, u) ==
  IF u \in table.removed THEN {} ELSE Now(table, u) \ Was(table, u)

(* There is an operation for each of the roles.                            *)
LEMMA OpsForRole ==
  ASSUME NEW rows, NEW u, NEW action, NEW roles, NEW r \in roles
  PROVE  \E op \in OpsFor(rows, u, action, roles) :
           op.action = action /\ op.line = RoleLine(r, rows[u].origin, u)
<1> DEFINE op == UserOp(action, r, rows[u].origin, u)
<1>1. op \in OpsFor(rows, u, action, roles)
  BY DEF OpsFor
<1>2. op.action = action /\ op.line = RoleLine(r, rows[u].origin, u)
  BY DEF UserOp
<1> QED BY <1>1, <1>2

(* The operations a table posts, one row at a time.                        *)
LEMMA OpsByRow ==
  ASSUME NEW table, NEW lines, NEW origins, TableOK(table, lines, origins), NEW l
  PROVE  /\ l \in LinesOf(ComputeOps(table), "remove") <=>
              \E u \in Rows(table) : \E r \in Dropped(table, u) :
                l = RoleLine(r, table.original[u].origin, u)
         /\ l \in LinesOf(ComputeOps(table), "add") <=>
              \E u \in Rows(table) : \E r \in Gained(table, u) :
                l = RoleLine(r, table.original[u].origin, u)
<1> DEFINE removals == UNION {OpsFor(table.original, u, "remove", Was(table, u)) : u \in table.removed}
           adds  == UNION {OpsFor(table.state, u, "add", Now(table, u) \ Was(table, u)) : u \in Left(table)}
           drops == UNION {OpsFor(table.state, u, "remove", Was(table, u) \ Now(table, u)) : u \in Left(table)}
<1>1. ComputeOps(table) = removals \cup adds \cup drops
  BY DEF ComputeOps
<1>2. /\ \A u \in Rows(table) : table.state[u].origin = table.original[u].origin
      /\ table.removed \subseteq Rows(table)
  BY DEF TableOK, TableType, RowOK
<1>3. \A op \in removals : op.action = "remove" /\ \E u \in table.removed : \E r \in Was(table, u) :
        op.line = RoleLine(r, table.original[u].origin, u)
  BY DEF OpsFor, UserOp
<1>4. \A op \in adds : op.action = "add" /\ \E u \in Left(table) : \E r \in Now(table, u) \ Was(table, u) :
        op.line = RoleLine(r, table.original[u].origin, u)
  BY <1>2 DEF OpsFor, UserOp, Left
<1>5. \A op \in drops : op.action = "remove" /\ \E u \in Left(table) : \E r \in Was(table, u) \ Now(table, u) :
        op.line = RoleLine(r, table.original[u].origin, u)
  BY <1>2 DEF OpsFor, UserOp, Left
<1>6. ASSUME NEW u \in table.removed, NEW r \in Was(table, u)
      PROVE  \E op \in removals :
               op.action = "remove" /\ op.line = RoleLine(r, table.original[u].origin, u)
  <2>1. PICK op \in OpsFor(table.original, u, "remove", Was(table, u)) :
          op.action = "remove" /\ op.line = RoleLine(r, table.original[u].origin, u)
    BY OpsForRole
  <2>2. op \in removals
    BY <2>1
  <2> QED BY <1>2, <2>1, <2>2 DEF Left
<1>7. ASSUME NEW u \in Left(table), NEW r \in Now(table, u) \ Was(table, u)
      PROVE  \E op \in adds :
               op.action = "add" /\ op.line = RoleLine(r, table.original[u].origin, u)
  <2>1. PICK op \in OpsFor(table.state, u, "add", Now(table, u) \ Was(table, u)) :
          op.action = "add" /\ op.line = RoleLine(r, table.state[u].origin, u)
    BY OpsForRole
  <2>2. op \in adds
    BY <2>1
  <2> QED BY <1>2, <2>1, <2>2 DEF Left
<1>8. ASSUME NEW u \in Left(table), NEW r \in Was(table, u) \ Now(table, u)
      PROVE  \E op \in drops :
               op.action = "remove" /\ op.line = RoleLine(r, table.original[u].origin, u)
  <2>1. PICK op \in OpsFor(table.state, u, "remove", Was(table, u) \ Now(table, u)) :
          op.action = "remove" /\ op.line = RoleLine(r, table.state[u].origin, u)
    BY OpsForRole
  <2>2. op \in drops
    BY <2>1
  <2> QED BY <1>2, <2>1, <2>2 DEF Left
<1> HIDE DEF removals, adds, drops
<1>9. \A action : l \in LinesOf(ComputeOps(table), action) <=>
        \E op \in removals \cup adds \cup drops : op.action = action /\ op.line = l
  BY <1>1 DEF LinesOf
<1>10. l \in LinesOf(ComputeOps(table), "remove") =>
         \E u \in Rows(table) : \E r \in Dropped(table, u) :
           l = RoleLine(r, table.original[u].origin, u)
  BY <1>2, <1>3, <1>4, <1>5, <1>9 DEF Dropped, Left
<1>11. ASSUME NEW u \in Rows(table), NEW r \in Dropped(table, u),
              l = RoleLine(r, table.original[u].origin, u)
       PROVE  l \in LinesOf(ComputeOps(table), "remove")
  BY <1>6, <1>8, <1>9, <1>11 DEF Dropped, Left
<1>12. l \in LinesOf(ComputeOps(table), "add") =>
         \E u \in Rows(table) : \E r \in Gained(table, u) :
           l = RoleLine(r, table.original[u].origin, u)
  BY <1>2, <1>3, <1>4, <1>5, <1>9 DEF Gained, Left
<1>13. ASSUME NEW u \in Rows(table), NEW r \in Gained(table, u),
              l = RoleLine(r, table.original[u].origin, u)
       PROVE  l \in LinesOf(ComputeOps(table), "add")
  BY <1>7, <1>9, <1>13 DEF Gained, Left
<1> QED BY <1>10, <1>11, <1>12, <1>13

(* The operations make of the list what the table shows of it.             *)
LEMMA OpsMakeShown ==
  ASSUME NEW table, NEW lines, NEW origins, TableOK(table, lines, origins),
         NEW u \in Rows(table), OneOrigin(lines, u)
  PROVE  Of(Applied(lines, ComputeOps(table)), u) = Of(Shown(table), u)
<1> DEFINE Line(r) == RoleLine(r, table.original[u].origin, u)
           removed == LinesOf(ComputeOps(table), "remove")
           added   == LinesOf(ComputeOps(table), "add")
<1>1. Of(lines, u) = {Line(r) : r \in Was(table, u)}
  BY DEF TableOK, RowOK, Was
<1>2. \A l : l[3] = u => (l \in removed <=> \E r \in Dropped(table, u) : l = Line(r))
  BY OpsByRow DEF RoleLine
<1>3. \A l : l[3] = u => (l \in added <=> \E r \in Gained(table, u) : l = Line(r))
  BY OpsByRow DEF RoleLine
<1>4. \A q, r : Line(q) = Line(r) <=> q = r
  BY DEF RoleLine
<1>5. \A r : Line(r)[3] = u
  BY DEF RoleLine
<1> DEFINE wanted == IF u \in table.removed THEN {} ELSE Now(table, u)
<1>6. Of(Shown(table), u) = {Line(r) : r \in wanted}
  <2>1. /\ \A v \in Rows(table) : Now(table, v) \subseteq PageRoles
        /\ table.state[u].origin = table.original[u].origin
    BY DEF TableOK, TableType, RowOK, Now
  <2>2. ASSUME NEW l \in Of(Shown(table), u)
        PROVE  u \in Left(table) /\ \E r \in Now(table, u) : l = Line(r)
    <3>1. PICK q \in Left(table) \X PageRoles :
            q[2] \in Now(table, q[1]) /\ l = RoleLine(q[2], table.state[q[1]].origin, q[1])
      BY DEF Of, Shown
    <3>2. q[1] = u
      BY <3>1 DEF Of, RoleLine
    <3> QED BY <2>1, <3>1, <3>2
  <2>3. ASSUME NEW r \in Now(table, u), u \in Left(table)
        PROVE  Line(r) \in Of(Shown(table), u)
    <3>1. <<u, r>> \in Left(table) \X PageRoles
      BY <2>1, <2>3
    <3>2. Line(r) \in Shown(table)
      BY <2>1, <3>1 DEF Shown
    <3> QED BY <1>5, <3>2 DEF Of
  <2> QED BY <2>2, <2>3 DEF Left
<1>7. \A r : r \in wanted <=>
             (r \in Was(table, u) /\ r \notin Dropped(table, u)) \/ r \in Gained(table, u)
  BY DEF Dropped, Gained
<1> HIDE DEF Line, removed, added, wanted
<1>8. \A l : l \in Of(Applied(lines, ComputeOps(table)), u) <=>
             l[3] = u /\ ((l \in Of(lines, u) /\ l \notin removed) \/ l \in added)
  BY DEF Of, Applied, removed, added
<1>9. \A l : l \in Of(Applied(lines, ComputeOps(table)), u) <=> \E r \in wanted : l = Line(r)
  BY <1>1, <1>2, <1>3, <1>4, <1>5, <1>7, <1>8
<1> QED BY <1>6, <1>9

-----------------------------------------------------------------------------
(* The requests under way, and the listings of what is posted. *)
(* A request that is sent joins the others.                                *)
LEMMA SentIsOneMore ==
  ASSUME NEW T, NEW before \in Seq(T), NEW f \in T, NEW after, Sent(before, f, after)
  PROVE  after \in Seq(T) /\ Len(after) = Len(before) + 1
BY DEF Sent

(* A reply, to whichever request, leaves the others.                       *)
LEMMA ArrivedIsOneLess ==
  ASSUME NEW T, NEW before \in Seq(T), NEW f, NEW after, Arrived(before, f, after)
  PROVE  after \in Seq(T) /\ Len(after) <= Len(before)
<1>1. PICK i \in DOMAIN before : after = Seqs!RemoveAt(before, i)
  BY DEF Arrived
<1>2. Len(before) \in Nat /\ i \in 1 .. Len(before) /\ \A k \in 1 .. Len(before) : before[k] \in T
  BY LenProperties
<1> DEFINE front == SubSeq(before, 1, i - 1)
           back  == SubSeq(before, i + 1, Len(before))
<1>3. front \in Seq(T) /\ Len(front) = i - 1
  <2>1. \A k \in 1 .. i - 1 : before[k] \in T
    BY <1>2
  <2> QED BY <1>2, <2>1, SubSeqProperties
<1>4. back \in Seq(T) /\ Len(back) = Len(before) - i
  <2>1. \A k \in i + 1 .. Len(before) : before[k] \in T
    BY <1>2
  <2> QED BY <1>2, <2>1, SubSeqProperties
<1>5. after = front \o back
  BY <1>1 DEF Seqs!RemoveAt
<1> HIDE DEF front, back
<1> QED BY <1>2, <1>3, <1>4, <1>5, ConcatProperties

(* The listing of a finite set has each of its elements once.              *)
LEMMA ListingDef ==
  ASSUME NEW S, IsFiniteSet(S)
  PROVE  /\ Cardinality(S) \in Nat
         /\ Listing(S) \in [1 .. Cardinality(S) -> S]
         /\ \A x \in S : \E i \in 1 .. Cardinality(S) : Listing(S)[i] = x
         /\ \A i, j \in 1 .. Cardinality(S) : Listing(S)[i] = Listing(S)[j] => i = j
<1> DEFINE N == Cardinality(S)
           Lists(q) == {q[i] : i \in DOMAIN q} = S
<1>1. N \in Nat /\ ExistsBijection(1 .. N, S)
  BY FS_CardinalityType
<1>2. \E q \in [1 .. N -> S] : Lists(q)
  <2>1. PICK q \in Bijection(1 .. N, S) : TRUE
    BY <1>1 DEF ExistsBijection
  <2>2. q \in [1 .. N -> S] /\ \A x \in S : \E i \in 1 .. N : q[i] = x
    BY <2>1 DEF Bijection, Surjection
  <2> QED BY <2>2
<1> DEFINE list == CHOOSE q \in [1 .. N -> S] : Lists(q)
<1>3. Listing(S) = list
  BY DEF Listing
<1>4. list \in [1 .. N -> S] /\ Lists(list)
  <2> HIDE DEF Lists
  <2> QED BY <1>2
<1> HIDE DEF list
<1>5. \A x \in S : \E i \in 1 .. N : list[i] = x
  BY <1>4
<1>6. list \in Surjection(1 .. N, S)
  BY <1>4, <1>5 DEF Surjection
<1>7. IsFiniteSet(1 .. N) /\ Cardinality(1 .. N) = N
  BY <1>1, FS_Interval
<1>8. list \in Injection(1 .. N, S)
  BY <1>6, <1>7, FS_SurjSameCardinalityImpliesInj
<1>9. \A i, j \in 1 .. N : list[i] = list[j] => i = j
  BY <1>8 DEF Injection, IsInjective
<1> QED BY <1>1, <1>3, <1>4, <1>5, <1>9

-----------------------------------------------------------------------------
(* Batches that are good, and what the handler makes of them. *)
\* A batch the validation lets through, no line of it named twice.
GoodBatch(ops, roles, origins) ==
  /\ IsFiniteSet(ops)
  /\ \A op \in ops : ValidOp(op, roles, origins)
  /\ \A o, p \in ops : o.line = p.line => o = p

(* The net of such a batch is the batch, whatever the order.               *)
LEMMA BatchOfListing ==
  ASSUME NEW ops, NEW roles, NEW origins, GoodBatch(ops, roles, origins), NEW file
  PROVE  LET batch == Batch(file, Listing(ops), roles, origins)
         IN  /\ batch.file = file /\ batch.valid
             /\ batch.add = LinesOf(ops, "add") /\ batch.del = LinesOf(ops, "remove")
<1> DEFINE N == Cardinality(ops)
           list == Listing(ops)
<1>1. /\ N \in Nat /\ list \in [1 .. N -> ops]
      /\ \A x \in ops : \E i \in 1 .. N : list[i] = x
      /\ \A i, j \in 1 .. N : list[i] = list[j] => i = j
  BY ListingDef DEF GoodBatch
<1> HIDE DEF list, N
<1>2. \A i \in DOMAIN list : ValidOp(list[i], roles, origins)
  BY <1>1 DEF GoodBatch
<1>3. \A j, k \in DOMAIN list : k > j => list[k].line # list[j].line
  <2> SUFFICES ASSUME NEW j \in DOMAIN list, NEW k \in DOMAIN list, k > j, list[k].line = list[j].line
               PROVE  FALSE
    OBVIOUS
  <2>1. list[k] \in ops /\ list[j] \in ops
    BY <1>1
  <2>2. list[k] = list[j]
    BY <2>1 DEF GoodBatch
  <2> QED BY <1>1, <2>2
<1>4. ASSUME NEW action PROVE Net(list, action) = LinesOf(ops, action)
  <2>1. Net(list, action) = {list[i].line : i \in {j \in DOMAIN list : list[j].action = action}}
    BY <1>3 DEF Net
  <2>2. ASSUME NEW l \in LinesOf(ops, action) PROVE l \in Net(list, action)
    <3>1. PICK op \in ops : op.action = action /\ op.line = l
      BY DEF LinesOf
    <3>2. PICK i \in DOMAIN list : list[i] = op
      BY <1>1
    <3> QED BY <2>1, <3>1, <3>2
  <2>3. ASSUME NEW l \in Net(list, action) PROVE l \in LinesOf(ops, action)
    <3>1. PICK i \in DOMAIN list : list[i].action = action /\ list[i].line = l
      BY <2>1
    <3>2. list[i] \in ops
      BY <1>1
    <3> QED BY <3>1, <3>2 DEF LinesOf
  <2> QED BY <2>2, <2>3
<1> QED BY <1>2, <1>4 DEF Batch, list

(* A batch with an operation is not empty as a sequence either.            *)
LEMMA ListingNotEmpty ==
  ASSUME NEW S, IsFiniteSet(S), S # {}
  PROVE  Listing(S) # <<>> /\ Listing(S) \in Seq(S) /\ Len(Listing(S)) = Cardinality(S)
<1>1. /\ Cardinality(S) \in Nat /\ Listing(S) \in [1 .. Cardinality(S) -> S]
      /\ Cardinality(S) # 0
  BY ListingDef, FS_EmptySet
<1> QED BY <1>1

-----------------------------------------------------------------------------
(* Induction up to a bound, for the loop of parseSpaceChanges.             *)
LEMMA UpTo ==
  ASSUME NEW N \in Nat, NEW S, 0 \in S, \A n \in 0 .. N - 1 : n \in S => n + 1 \in S
  PROVE  0 .. N \subseteq S
<1> DEFINE left == (0 .. N) \ S
<1> SUFFICES ASSUME left # {} PROVE FALSE
  OBVIOUS
<1>1. left \subseteq Nat
  OBVIOUS
<1>2. PICK m \in left : \A y \in left : m <= y
  <2> HIDE DEF left
  <2> QED BY <1>1, NatHasMin
<1>3. m \in 1 .. N
  BY <1>2
<1>4. m - 1 \in 0 .. N - 1 /\ m - 1 \in S
  BY <1>2, <1>3
<1>5. m \in S
  BY <1>3, <1>4
<1> QED BY <1>5

\* The form field: each space once, with its operations.
GoodChanges(changes, T) ==
  /\ changes \in Seq(T)
  /\ \A i \in 1 .. Len(changes) : changes[i].space # "" /\ changes[i].ops # <<>>
  /\ \A i, j \in 1 .. Len(changes) : changes[i].space = changes[j].space => i = j

First(changes, n) == [i \in 1 .. n |-> changes[i]]

(* Such entries are taken over one by one.                                 *)
LEMMA JoinOfNew ==
  ASSUME NEW T, NEW changes, GoodChanges(changes, T), NEW n \in 1 .. Len(changes)
  PROVE  JoinChange(First(changes, n - 1), changes[n]) = First(changes, n)
<1> DEFINE out == First(changes, n - 1)
<1>1. /\ Len(changes) \in Nat /\ n \in Nat /\ n >= 1 /\ n <= Len(changes)
      /\ \A i \in 1 .. Len(changes) : changes[i] \in T
  <2>1. changes \in Seq(T)
    BY DEF GoodChanges
  <2> QED BY <2>1, LenProperties
<1>2. First(changes, n) \in Seq(T) /\ Len(First(changes, n)) = n
  BY <1>1 DEF First
<1>3. out \in Seq(T) /\ Len(out) = n - 1
  BY <1>1 DEF First
<1>4. ~ \E i \in DOMAIN out : out[i].space = changes[n].space
  <2> SUFFICES ASSUME NEW i \in 1 .. n - 1, changes[i].space = changes[n].space PROVE FALSE
    BY <1>1 DEF First
  <2>1. i \in 1 .. Len(changes) /\ i # n
    BY <1>1
  <2> QED BY <2>1 DEF GoodChanges
<1>5. changes[n].space # "" /\ changes[n].ops # <<>>
  BY DEF GoodChanges
<1>6. JoinChange(out, changes[n]) = Append(out, changes[n])
  BY <1>4, <1>5 DEF JoinChange
<1>7. /\ Append(out, changes[n]) \in Seq(T) /\ Len(Append(out, changes[n])) = n
      /\ \A i \in 1 .. n : Append(out, changes[n])[i] = changes[i]
  <2>1. \A i \in 1 .. n - 1 : out[i] = changes[i]
    BY DEF First
  <2> HIDE DEF out
  <2> QED BY <1>1, <1>3, <2>1
<1>8. \A i \in 1 .. n : First(changes, n)[i] = changes[i]
  BY DEF First
<1> HIDE DEF out
<1>9. Append(out, changes[n]) = First(changes, n)
  BY <1>1, <1>2, <1>7, <1>8, SeqEqual
<1> QED BY <1>6, <1>9 DEF out

(* What parseSpaceChanges makes of entries for different spaces is these   *)
(* entries.                                                                *)
LEMMA ParseOfGood ==
  ASSUME NEW T, NEW changes, GoodChanges(changes, T)
  PROVE  ParseSpaceChanges(changes) = changes
<1> DEFINE N == Len(changes)
           IsOut(f) == f = [n \in 0 .. N |->
                              IF n = 0 THEN <<>> ELSE JoinChange(f[n - 1], changes[n])]
           all == [n \in 0 .. N |-> First(changes, n)]
<1>1. N \in Nat /\ changes \in Seq(T)
  BY LenProperties DEF GoodChanges
<1>2. First(changes, 0) = <<>>
  BY DEF First
<1>3. IsOut(all)
  <2> DEFINE next == [n \in 0 .. N |->
                        IF n = 0 THEN <<>> ELSE JoinChange(all[n - 1], changes[n])]
  <2>1. ASSUME NEW n \in 0 .. N PROVE all[n] = next[n]
    <3>1. CASE n = 0
      BY <1>2, <3>1
    <3>2. CASE n # 0
      <4>1. n \in 1 .. Len(changes) /\ n - 1 \in 0 .. N
        BY <1>1, <3>2
      <4>2. all[n - 1] = First(changes, n - 1)
        BY <4>1
      <4> QED BY <3>2, <4>1, <4>2, JoinOfNew
    <3> QED BY <3>1, <3>2
  <2>2. all = next
    BY <2>1
  <2> QED BY <2>2
<1> HIDE DEF all
<1> DEFINE out == CHOOSE f : IsOut(f)
<1>4. IsOut(out)
  <2> HIDE DEF IsOut
  <2> QED BY <1>3
<1>5. Parsed(changes) = out
  BY DEF Parsed
<1> HIDE DEF out
<1> DEFINE S == {n \in 0 .. N : out[n] = First(changes, n)}
<1>6. \A n \in 0 .. N : out[n] = IF n = 0 THEN <<>> ELSE JoinChange(out[n - 1], changes[n])
  BY <1>4
<1> HIDE DEF IsOut
<1>7. 0 \in S
  BY <1>1, <1>2, <1>6
<1>8. ASSUME NEW n \in 0 .. N - 1, n \in S PROVE n + 1 \in S
  <2>1. n + 1 \in 1 .. Len(changes) /\ n + 1 \in 0 .. N /\ n + 1 # 0 /\ (n + 1) - 1 = n
    BY <1>1
  <2>2. out[n + 1] = JoinChange(out[n], changes[n + 1])
    BY <1>6, <2>1
  <2>3. JoinChange(First(changes, n), changes[n + 1]) = First(changes, n + 1)
    BY <2>1, JoinOfNew
  <2> QED BY <1>8, <2>1, <2>2, <2>3
<1> HIDE DEF S
<1>9. 0 .. N \subseteq S
  BY <1>1, <1>7, <1>8, UpTo
<1>10. out[N] = First(changes, N)
  BY <1>1, <1>9 DEF S
<1>11. First(changes, N) = changes
  BY <1>1 DEF First
<1> QED BY <1>5, <1>10, <1>11 DEF ParseSpaceChanges

-----------------------------------------------------------------------------
(* Tables that fit the page, and their operations. *)
\* The rows of a table: finitely many, of members with names, with the origins
\* and roles the page offers.
Fits(table, origins, roles) ==
  /\ IsFiniteSet(Rows(table)) /\ Named(Rows(table))
  /\ \A u \in Rows(table) : /\ table.original[u].origin \in origins
                            /\ table.original[u].roles \subseteq roles
                            /\ table.state[u].roles \subseteq roles

(* A freshly loaded table fits, when the lines of its list do.             *)
LEMMA LoadFits ==
  ASSUME DOMAIN RoleOrder \subseteq Nat, DOMAIN OriginOrder \subseteq Nat,
         NEW lines, Known(lines), IsFiniteSet(lines), Named(Members(lines)),
         NEW origins, NEW roles, \A l \in lines : l[1] \in roles /\ l[2] \in origins,
         NEW from
  PROVE  Fits(Load(from, lines), origins, roles)
<1> DEFINE table == Load(from, lines)
           name == [l \in lines |-> l[3]]
<1>1. table.original = Original(lines) /\ table.state = Original(lines)
  BY DEF Load
<1>2. Rows(table) = Members(lines)
  BY <1>1 DEF Rows, Original
<1>3. IsFiniteSet(Members(lines))
  <2>1. name \in Surjection(lines, Members(lines))
    BY DEF Surjection, Members
  <2> HIDE DEF name
  <2> QED BY <2>1, FS_Surjection
<1>4. ASSUME NEW u \in Members(lines)
      PROVE  /\ Original(lines)[u].origin \in origins
             /\ Original(lines)[u].roles \subseteq roles
  <2>1. /\ Original(lines)[u].origin = FirstOrigin(lines, u)
        /\ Original(lines)[u].roles = RolesOf(lines, u)
    BY DEF Original
  <2>2. PICK i \in DOMAIN RoleOrder, j \in DOMAIN OriginOrder :
          /\ FirstOrigin(lines, u) = OriginOrder[j]
          /\ RoleLine(RoleOrder[i], OriginOrder[j], u) \in lines
    BY FirstOriginListed
  <2>3. RoleLine(RoleOrder[i], OriginOrder[j], u)[2] = OriginOrder[j]
    BY DEF RoleLine
  <2>4. FirstOrigin(lines, u) \in origins
    BY <2>2, <2>3
  <2>5. RolesOf(lines, u) \subseteq roles
    BY DEF RolesOf
  <2> QED BY <2>1, <2>4, <2>5
<1> HIDE DEF table
<1> QED BY <1>1, <1>2, <1>3, <1>4 DEF Fits, table

(* Every edit keeps that.                                                  *)
LEMMA EditFits ==
  ASSUME NEW table, NEW lines, NEW known, TableOK(table, lines, known),
         NEW origins, NEW roles, Fits(table, origins, roles),
         NEW newcomers, Named(newcomers),
         NEW edited \in Edits(table, newcomers, origins, roles)
  PROVE  Fits(edited, origins, roles)
<1>1. /\ table = [from |-> table.from, original |-> table.original, state |-> table.state,
                  removed |-> table.removed]
      /\ table.original \in [Rows(table) -> [origin : known, roles : SUBSET PageRoles]]
      /\ table.state \in [Rows(table) -> [origin : known, roles : SUBSET PageRoles]]
      /\ table.removed \subseteq Rows(table)
  BY DEF TableOK, TableType
<1>2. ASSUME NEW u \in newcomers \ Rows(table), NEW o \in origins, edited = AddRow(table, u, o)
      PROVE  Fits(edited, origins, roles)
  <2> DEFINE new == [origin |-> o, roles |-> {}]
             With(rows) == [v \in Rows(table) \cup {u} |-> IF v = u THEN new ELSE rows[v]]
  <2>1. edited.original = With(table.original) /\ edited.state = With(table.state)
    BY <1>1, <1>2 DEF AddRow
  <2>2. Rows(edited) = Rows(table) \cup {u}
    BY <2>1 DEF Rows
  <2>3. IsFiniteSet(Rows(edited)) /\ Named(Rows(edited))
    BY <1>2, <2>2, FS_AddElement DEF Fits, Named
  <2>4. /\ edited.original[u] = new /\ edited.state[u] = new
        /\ \A v \in Rows(table) : edited.original[v] = table.original[v] /\ edited.state[v] = table.state[v]
    BY <1>2, <2>1
  <2>5. new.origin = o /\ new.roles = {}
    OBVIOUS
  <2> HIDE DEF new
  <2> QED BY <1>2, <2>2, <2>3, <2>4, <2>5 DEF Fits
<1>3. ASSUME NEW R, edited = [table EXCEPT !.removed = R]
      PROVE  Fits(edited, origins, roles)
  <2>1. edited.original = table.original /\ edited.state = table.state
    BY <1>1, <1>3
  <2> QED BY <2>1 DEF Fits, Rows
<1>4. ASSUME NEW u \in Left(table), NEW role \in roles, edited = Toggle(table, u, role)
      PROVE  Fits(edited, origins, roles)
  <2> DEFINE ticked == table.state[u].roles
             now == IF role \in ticked THEN ticked \ {role} ELSE ticked \cup {role}
  <2>1. /\ edited.original = table.original
        /\ edited.state = [table.state EXCEPT ![u] = [@ EXCEPT !.roles = now]]
    BY <1>1, <1>4 DEF Toggle
  <2>2. u \in Rows(table) /\ now \subseteq roles
    BY <1>4 DEF Left, Fits
  <2> HIDE DEF now
  <2>3. /\ edited.state[u].roles = now
        /\ \A v \in Rows(table) : v # u => edited.state[v] = table.state[v]
    <3>1. table.state[u] \in [origin : known, roles : SUBSET PageRoles]
      BY <1>1, <2>2
    <3>2. [table.state[u] EXCEPT !.roles = now].roles = now
      BY <3>1
    <3>3. /\ edited.state[u] = [table.state[u] EXCEPT !.roles = now]
          /\ \A v \in Rows(table) : v # u => edited.state[v] = table.state[v]
      BY <1>1, <2>1, <2>2
    <3> QED BY <3>2, <3>3
  <2>4. \A v \in Rows(table) : edited.state[v].roles \subseteq roles
    BY <2>2, <2>3 DEF Fits
  <2> QED BY <2>1, <2>4 DEF Fits, Rows
<1>5. ASSUME NEW u \in Left(table), edited = ToRemove(table, u)
      PROVE  Fits(edited, origins, roles)
  BY <1>3, <1>5 DEF ToRemove
<1>6. ASSUME NEW u \in table.removed, edited = ToKeep(table, u)
      PROVE  Fits(edited, origins, roles)
  BY <1>3, <1>6 DEF ToKeep
<1> QED BY <1>2, <1>4, <1>5, <1>6 DEF Edits

(* The operations of a table that fits are a good batch.                   *)
LEMMA OpsGood ==
  ASSUME NEW table, NEW lines, NEW known, TableOK(table, lines, known),
         NEW origins, NEW roles, Fits(table, origins, roles), IsFiniteSet(roles)
  PROVE  GoodBatch(ComputeOps(table), roles, origins)
<1> DEFINE ops == ComputeOps(table)
           Op(a, u, r) == UserOp(a, r, table.original[u].origin, u)
<1>1. /\ \A u \in Rows(table) : table.state[u].origin = table.original[u].origin
      /\ table.removed \subseteq Rows(table)
  BY DEF TableOK, TableType, RowOK
<1>2. ASSUME NEW op \in ops
      PROVE  \E a \in {"add", "remove"}, u \in Rows(table), r \in roles :
               /\ op = Op(a, u, r)
               /\ a = "add" => r \in Gained(table, u)
               /\ a = "remove" => r \in Dropped(table, u)
  <2>1. CASE \E u \in table.removed : op \in OpsFor(table.original, u, "remove", Was(table, u))
    <3>1. PICK u \in table.removed : op \in OpsFor(table.original, u, "remove", Was(table, u))
      BY <2>1
    <3>2. PICK r \in Was(table, u) : op = Op("remove", u, r)
      BY <3>1 DEF OpsFor
    <3>3. u \in Rows(table) /\ r \in roles /\ r \in Dropped(table, u)
      BY <1>1, <3>2 DEF Fits, Was, Dropped
    <3> QED BY <3>2, <3>3
  <2>2. CASE \E u \in Left(table) : op \in OpsFor(table.state, u, "add", Now(table, u) \ Was(table, u))
    <3>1. PICK u \in Left(table) : op \in OpsFor(table.state, u, "add", Now(table, u) \ Was(table, u))
      BY <2>2
    <3>2. PICK r \in Now(table, u) \ Was(table, u) : op = UserOp("add", r, table.state[u].origin, u)
      BY <3>1 DEF OpsFor
    <3>3. u \in Rows(table) /\ r \in roles /\ r \in Gained(table, u)
      BY <3>2 DEF Fits, Now, Gained, Left
    <3>4. op = Op("add", u, r)
      BY <1>1, <3>2, <3>3
    <3> QED BY <3>3, <3>4
  <2>3. CASE \E u \in Left(table) : op \in OpsFor(table.state, u, "remove", Was(table, u) \ Now(table, u))
    <3>1. PICK u \in Left(table) : op \in OpsFor(table.state, u, "remove", Was(table, u) \ Now(table, u))
      BY <2>3
    <3>2. PICK r \in Was(table, u) \ Now(table, u) : op = UserOp("remove", r, table.state[u].origin, u)
      BY <3>1 DEF OpsFor
    <3>3. u \in Rows(table) /\ r \in roles /\ r \in Dropped(table, u)
      BY <3>2 DEF Fits, Was, Dropped, Left
    <3>4. op = Op("remove", u, r)
      BY <1>1, <3>2, <3>3
    <3> QED BY <3>3, <3>4
  <2> QED BY <2>1, <2>2, <2>3 DEF ComputeOps
<1>3. IsFiniteSet(ops)
  <2> DEFINE D == Rows(table) \X ({"add", "remove"} \X roles)
             all == {Op(d[2][1], d[1], d[2][2]) : d \in D}
             op == [d \in D |-> Op(d[2][1], d[1], d[2][2])]
  <2>1. IsFiniteSet({"add", "remove"})
    <3>1. IsFiniteSet({"add"})
      BY FS_Singleton
    <3>2. IsFiniteSet({"add"} \cup {"remove"})
      BY <3>1, FS_AddElement
    <3>3. {"add", "remove"} = {"add"} \cup {"remove"}
      OBVIOUS
    <3> QED BY <3>2, <3>3
  <2>2. IsFiniteSet(D)
    <3>1. IsFiniteSet({"add", "remove"} \X roles)
      BY <2>1, FS_Product
    <3> QED BY <3>1, FS_Product DEF Fits
  <2>3. op \in Surjection(D, all)
    BY DEF Surjection
  <2>4. ops \subseteq all
    <3> SUFFICES ASSUME NEW o \in ops PROVE o \in all
      OBVIOUS
    <3>1. PICK a \in {"add", "remove"}, u \in Rows(table), r \in roles : o = Op(a, u, r)
      BY <1>2
    <3>2. <<u, <<a, r>>>> \in D
      OBVIOUS
    <3> QED BY <3>1, <3>2
  <2> HIDE DEF op, all, ops
  <2>5. IsFiniteSet(all)
    BY <2>2, <2>3, FS_Surjection
  <2> QED BY <2>4, <2>5, FS_Subset
<1>4. \A op \in ops : ValidOp(op, roles, origins)
  <2> SUFFICES ASSUME NEW op \in ops PROVE ValidOp(op, roles, origins)
    OBVIOUS
  <2>1. PICK a \in {"add", "remove"}, u \in Rows(table), r \in roles : op = Op(a, u, r)
    BY <1>2
  <2>2. op.action = a /\ op.line[1] = r /\ op.line[2] = table.original[u].origin /\ op.line[3] = u
    BY <2>1 DEF UserOp, RoleLine
  <2> QED BY <2>2 DEF ValidOp, Fits, Named
<1>5. ASSUME NEW o \in ops, NEW p \in ops, o.line = p.line PROVE o = p
  <2>1. PICK a \in {"add", "remove"}, u \in Rows(table), r \in roles :
          /\ o = Op(a, u, r)
          /\ a = "add" => r \in Gained(table, u)
          /\ a = "remove" => r \in Dropped(table, u)
    BY <1>2
  <2>2. PICK b \in {"add", "remove"}, v \in Rows(table), q \in roles :
          /\ p = Op(b, v, q)
          /\ b = "add" => q \in Gained(table, v)
          /\ b = "remove" => q \in Dropped(table, v)
    BY <1>2
  <2>3. u = v /\ r = q
    BY <1>5, <2>1, <2>2 DEF UserOp, RoleLine
  <2>4. Gained(table, u) \cap Dropped(table, u) = {}
    BY DEF Gained, Dropped
  <2>5. a = b
    BY <2>1, <2>2, <2>3, <2>4
  <2> QED BY <2>1, <2>2, <2>3, <2>5
<1> QED BY <1>3, <1>4, <1>5 DEF GoodBatch
=============================================================================
