------------------------------- MODULE Staging -------------------------------
(***************************************************************************)
(* What the staging pages (src/internal/http/templates/manage_*.html) do   *)
(* with the list they load: a table of members and their roles, the edits  *)
(* of it, and the operations that are posted.  The member of a group page  *)
(* is an LDAP group, whose origin here is "ldap_groups".                   *)
(***************************************************************************)
EXTENDS ReadAPI, FiniteSets, TLC

Seqs == INSTANCE SequencesExt

CONSTANTS
  RoleOrder,    \* the roles, in the order of the reply
  OriginOrder   \* the origins, in the order the page reads them

ASSUME OrderAssumption == DOMAIN RoleOrder \subseteq Nat /\ DOMAIN OriginOrder \subseteq Nat

\* The value of an empty selector.
None == ""

PageRoles == {RoleOrder[i] : i \in DOMAIN RoleOrder}

Members(lines) == {l[3] : l \in lines}
RolesOf(lines, u) == {l[1] : l \in {m \in lines : m[3] = u}}

\* The origin under which a page meets u first.
FirstOrigin(lines, u) ==
  LET hits == {p \in (DOMAIN RoleOrder) \X (DOMAIN OriginOrder) :
                 RoleLine(RoleOrder[p[1]], OriginOrder[p[2]], u) \in lines}
      Before(p, q) == p[1] < q[1] \/ (p[1] = q[1] /\ p[2] <= q[2])
      first == CHOOSE p \in hits : \A q \in hits : Before(p, q)
  IN  OriginOrder[first[2]]

\* original: one origin for each member, the roles under any of them.
Original(lines) ==
  [u \in Members(lines) |-> [origin |-> FirstOrigin(lines, u),
                             roles |-> RolesOf(lines, u)]]

\* A freshly loaded table.  "from" is no variable of the page: it remembers
\* what was asked for.
Load(from, lines) ==
  [from |-> from, original |-> Original(lines), state |-> Original(lines), removed |-> {}]

-----------------------------------------------------------------------------
(* The edits of a table: a new user, the two boxes, a role's check box. *)

Rows(table) == DOMAIN table.original
Left(table) == Rows(table) \ table.removed

\* Mutant: the new row has no editable state.
AddRowToOriginal(table, u, origin) ==
  [table EXCEPT !.original = @ @@ (u :> [origin |-> origin, roles |-> {}])]

AddRow(table, u, origin) ==
  LET new == [origin |-> origin, roles |-> {}]
      With(rows) == [v \in Rows(table) \cup {u} |-> IF v = u THEN new ELSE rows[v]]
  IN  [table EXCEPT !.original = With(@), !.state = With(@)]

ToRemove(table, u) == [table EXCEPT !.removed = @ \cup {u}]
ToKeep(table, u)   == [table EXCEPT !.removed = @ \ {u}]

Toggle(table, u, role) ==
  [table EXCEPT !.state[u].roles = IF role \in @ THEN @ \ {role} ELSE @ \cup {role}]

\* The tables one edit leads to.
Edits(table, newcomers, origins, roles) ==
  {AddRow(table, u, o) : u \in newcomers \ Rows(table), o \in origins}
  \cup {ToRemove(table, u) : u \in Left(table)}
  \cup {ToKeep(table, u) : u \in table.removed}
  \cup {Toggle(table, u, role) : u \in Left(table), role \in roles}

-----------------------------------------------------------------------------
(* The operations a table posts. *)

OpsFor(rows, u, action, roles) == {UserOp(action, role, rows[u].origin, u) : role \in roles}

Was(table, u) == table.original[u].roles
Now(table, u) == table.state[u].roles

\* Mutant: a full removal drops the roles as they are ticked now.
OpsOfTicked(table) ==
  UNION ({OpsFor(table.original, u, "remove", Now(table, u)) : u \in table.removed}
         \cup {OpsFor(table.state, u, "add", Now(table, u) \ Was(table, u)) : u \in Left(table)}
         \cup {OpsFor(table.state, u, "remove", Was(table, u) \ Now(table, u)) : u \in Left(table)})

ComputeOps(table) ==
  UNION ({OpsFor(table.original, u, "remove", Was(table, u)) : u \in table.removed}
         \cup {OpsFor(table.state, u, "add", Now(table, u) \ Was(table, u)) : u \in Left(table)}
         \cup {OpsFor(table.state, u, "remove", Was(table, u) \ Now(table, u)) : u \in Left(table)})

-----------------------------------------------------------------------------
(* The requests under way, in the order they were sent: the replies come in *)
(* any order, and some requests are sent twice.                             *)

Sent(before, f, after) == after = Append(before, f)
Arrived(before, f, after) ==
  \E i \in DOMAIN before : before[i] = f /\ after = Seqs!RemoveAt(before, i)

\* Any order of a set of things posted.
Listing(set) == CHOOSE q \in [1 .. Cardinality(set) -> set] : {q[i] : i \in DOMAIN q} = set

-----------------------------------------------------------------------------
(* What the operations are for. *)

LinesOf(ops, action) == {op.line : op \in {o \in ops : o.action = action}}

\* The file after the operations.
Applied(lines, ops) == (lines \ LinesOf(ops, "remove")) \cup LinesOf(ops, "add")

\* The file the page shows: the ticked roles of the members in the left box.
Shown(table) ==
  {RoleLine(r[2], table.state[r[1]].origin, r[1]) :
     r \in {q \in Left(table) \X PageRoles : q[2] \in Now(table, q[1])}}

Of(lines, u) == {l \in lines : l[3] = u}

\* The lines of a list are of roles and origins the page knows.
Known(lines) ==
  \A l \in lines : \E i \in DOMAIN RoleOrder, j \in DOMAIN OriginOrder :
    l = RoleLine(RoleOrder[i], OriginOrder[j], l[3])

Named(names) == "" \notin names

\* The lists of a repository are finite, and their members have names.
Plain(files) == \A f \in DOMAIN files : IsFiniteSet(files[f]) /\ Named(Members(files[f]))

\* u is listed under one origin at most.
OneOrigin(lines, u) == \A k, l \in Of(lines, u) : k[2] = l[2]
=============================================================================
