----------------------------- MODULE ConfigRepo -----------------------------
(***************************************************************************)
(* The cf-mgmt configuration repository as the portal uses it through      *)
(* src/internal/gitlab/gitlab.go: a target branch of files, one branch and *)
(* at most one merge request per portal request (the branch name carries a *)
(* fresh random token), and the API calls that are on their way to GitLab. *)
(*                                                                         *)
(* A file is the set of its lines that matter to the portal (a user under  *)
(* a role and an origin, a group under a role, a space name in spaces.yml) *)
(* plus Header, which stands for the rest of an existing file.  A file     *)
(* that does not exist is the empty set.                                   *)
(*                                                                         *)
(* GitLab itself is external: its actions say what its calls do.  A call   *)
(* travels on wire[r]: the portal puts it there, GitLab executes it at any *)
(* later moment or never, also after the portal stopped waiting for it.    *)
(***************************************************************************)
EXTENDS Naturals, Sequences

CONSTANTS
  Requests,       \* the POST requests a run may see
  Files,          \* paths of the repository
  Lines,          \* lines a form may add or remove
  Header,         \* the rest of an existing file
  InitialConfig,  \* the target branch before the first request
  OutsideEdits    \* <<file, line>> pairs people may flip without the portal

Content == SUBSET (Lines \cup {Header})

ASSUME RepoAssumption ==
  /\ Header \notin Lines
  /\ InitialConfig \in [Files -> Content]
  /\ \A f \in Files : Header \in InitialConfig[f] \/ InitialConfig[f] = {}
  /\ OutsideEdits \subseteq (Files \X Lines)

VARIABLES
  target,    \* the files of the target branch
  branched,  \* branched[r]: r's branch exists
  base,      \* base[r]: the target when r's branch was cut
  tip,       \* tip[r]: the files of r's branch
  mr,        \* mr[r]: r's merge request
  wire,      \* wire[r]: r's call on its way to GitLab, or "done"
  outside    \* the <<file, line>> pairs flipped without the portal

repoVars == <<target, branched, base, tip, mr, wire, outside>>

Calls == {"branch", "commit", "mr"}

RepoTypeOK ==
  /\ target \in [Files -> Content]
  /\ branched \in [Requests -> BOOLEAN]
  /\ base \in [Requests -> [Files -> Content]]
  /\ tip \in [Requests -> [Files -> Content]]
  /\ mr \in [Requests -> {"none", "open", "merged", "closed"}]
  /\ wire \in [Requests -> Calls \cup {"idle", "done"}]
  /\ outside \subseteq OutsideEdits

RepoInit ==
  /\ target = InitialConfig
  /\ branched = [r \in Requests |-> FALSE]
  /\ base = [r \in Requests |-> InitialConfig]
  /\ tip = [r \in Requests |-> InitialConfig]
  /\ mr = [r \in Requests |-> "none"]
  /\ wire = [r \in Requests |-> "idle"]
  /\ outside = {}

-----------------------------------------------------------------------------
(* What the portal's calls do when GitLab executes them. *)

\* CreateBranch: the new branch starts at the target's head of this moment.
LandBranch(r) ==
  /\ wire[r] = "branch"
  /\ wire' = [wire EXCEPT ![r] = "done"]
  /\ branched' = [branched EXCEPT ![r] = TRUE]
  /\ base' = [base EXCEPT ![r] = target]
  /\ tip' = [tip EXCEPT ![r] = target]
  /\ UNCHANGED <<target, mr, outside>>

\* GitLab takes a commit only if every file to update exists on the branch and
\* no file to create does; otherwise the whole commit is rejected.
Applicable(files, updates, creates) ==
  /\ \A f \in updates : Header \in files[f]
  /\ \A f \in creates : Header \notin files[f]

\* CommitFiles: one commit replaces every file named in its actions as a whole.
LandCommit(r, updates, creates, content) ==
  /\ wire[r] = "commit"
  /\ Applicable(tip[r], updates, creates)
  /\ wire' = [wire EXCEPT ![r] = "done"]
  /\ tip' = [tip EXCEPT ![r] =
               [f \in Files |-> IF f \in updates \cup creates
                                  THEN content[f] ELSE tip[r][f]]]
  /\ UNCHANGED <<target, branched, base, mr, outside>>

\* OpenMR: the merge request exists from here on, whatever becomes of the reply.
LandMR(r) ==
  /\ wire[r] = "mr"
  /\ wire' = [wire EXCEPT ![r] = "done"]
  /\ mr' = [mr EXCEPT ![r] = "open"]
  /\ UNCHANGED <<target, branched, base, tip, outside>>

-----------------------------------------------------------------------------
(* The platform team and everyone else who writes to the repository. *)

\* Two sides that both created a file with different content cannot be merged.
NoConflict(r) ==
  \A f \in Files :
    (base[r][f] = {} /\ tip[r][f] # {} /\ target[f] # {}) => tip[r][f] = target[f]

\* Mutant: the branch's files take the place of the target's.
MergedOver(r, f) == IF tip[r][f] = base[r][f] THEN target[f] ELSE tip[r][f]

\* The three-way merge, line by line: the branch's own additions and removals
\* are carried over to the target.
Merged(r, f) ==
  (target[f] \ (base[r][f] \ tip[r][f])) \cup (tip[r][f] \ base[r][f])

Merge(r) ==
  /\ mr[r] = "open"
  /\ NoConflict(r)
  /\ target' = [f \in Files |-> Merged(r, f)]
  /\ mr' = [mr EXCEPT ![r] = "merged"]
  /\ UNCHANGED <<branched, base, tip, wire, outside>>

Close(r) ==
  /\ mr[r] = "open"
  /\ mr' = [mr EXCEPT ![r] = "closed"]
  /\ UNCHANGED <<target, branched, base, tip, wire, outside>>

\* A commit made without the portal adds a missing line to a file, or removes
\* one.  Each permitted pair is flipped at most once in a run.
OutsideCommit ==
  \E p \in OutsideEdits \ outside :
    /\ Header \in target[p[1]]
    /\ target' = [target EXCEPT ![p[1]] =
                    IF p[2] \in target[p[1]] THEN target[p[1]] \ {p[2]}
                                             ELSE target[p[1]] \cup {p[2]}]
    /\ outside' = outside \cup {p}
    /\ UNCHANGED <<branched, base, tip, mr, wire>>

=============================================================================
