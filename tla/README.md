# A TLA+ model of cf-mgmt-portal

cf-mgmt-portal lets Cloud Foundry org managers change the `cf-mgmt` YAML
configuration of their orgs without write access to the configuration
repository: every action ends in a GitLab merge request, or in nothing. This
directory models that program, checks it with TLC and proves its safety
properties with TLAPS.

Contents: [the system](#the-system) · [modules](#modules) ·
[properties](#properties) · [runs](#runs-and-bounds) · [fairness](#fairness) ·
[proofs](#proofs) · [disagreements found](#where-the-code-and-its-comments-disagree) ·
[limits](#what-is-not-modelled) · [plan](#plan)

## The system

| part | source | state it keeps | operations | hard about it |
|---|---|---|---|---|
| mutating handlers | `internal/http/handlers.go` 170–1161 | none of its own; a goroutine per POST with the files it read, the branch name, the step log | add user, remove user, manage users / org users / groups, create space | a chain of up to eight external calls; stale reads, late or lost replies, best-effort steps, death of the process in the middle |
| authorisation | `handlers.go` 26–96, `internal/cfapi/cfapi.go` | the service account's OAuth token, behind a mutex | `verifyOrgManager`: admin by name, admin by UAA group, OrgManager of the org | four lookups, during which roles, groups and org names change; a failed lookup must not be a grant; one token fetch holds up everybody |
| GitLab client, configuration repository | `internal/gitlab/gitlab.go` | at GitLab: target branch, request branches, merge requests | `GetFile`, `CreateBranch`, `CommitFiles`, `OpenMR`, `GroupMembers` | a call can time out and still be executed; commits replace whole files |
| YAML mutators | `internal/mutate/nodeedit.go`, `apply_*.go`, `add_/remove_*.go` | none | a batch of operations on a document's role blocks | placement of new blocks, bare keys, the no-op signal, long sequences of edits |
| space creation | `internal/mutate/create_space.go` | none | three file changes, seeded from `spaceDefaults.yml` | best-effort defaults; "create" although absence was not checked |
| step log, result page | `internal/http/steps.go`, `renderResult` | the `Recorder` of a request | `Do`, `Skip` | steps that fail without failing the request |
| sessions, CSRF, login | `internal/http/session.go`, `server.go`, `handlers.go` 98–168, `internal/auth` | nothing at the server; two signed cookies per browser | login, callback, logout, `requireAuth`, `verifyCSRF` | the cookies are shared by the tabs; each request reads the session twice, and it may expire in between |
| read API | `handlers.go` 1163–1270, `internal/mutate/list_*.go` | none | five lists for the pages | staleness only |
| staging pages | `internal/http/templates/manage_*.html` | in the browser: selectors, tables of members, staged edits | load, stage, switch space or org, submit | replies that come late, twice or not at all, while the visitor goes on |
| simple forms and pickers | the other templates | the browser's fields | fill in, submit | a late list of spaces |
| start, configuration | `cmd/portal/main.go` | environment | – | one instance, no recovery |

A page loads lists by the read API and posts a form. The handler decodes the
session, calls CF and UAA for the role, GitLab for the files, the mutators for the
new content, GitLab again for branch, commit, assignees and merge request, and
renders the log. Handlers share nothing in memory but the HTTP clients; the
client for CF and UAA has one token for all of them. They meet in the repository,
where each works on a branch with a fresh random name, and the platform team
merges.

What makes each part correct:

* *handlers*: a batch is done as a whole or not at all; the page is true; every
  request is answered; nobody's work is lost beyond a known window;
* *authorisation*: nothing is written for a user who was not entitled, the
  lookups amount to one check at one moment, and failing ones hold nobody up;
* *repository*: the configuration changes only by accepted merge requests of
  users permitted in the org they name, by the lines they asked for (or by people who
  do not need the portal), and in files of that org alone;
* *mutators*: an operation changes the membership of its list and nothing else,
  documents keep cf-mgmt's order, and "unchanged" is said exactly when it is so;
* *sessions*: what a form does is done in the name it was drawn for;
* *staging pages*: what is posted is what is shown, for the place that is shown,
  and no staged change goes unnoticed.

## Modules

The core, from the repository outwards:

`ConfigRepo` — the repository as the client uses it. A file is the set of its
lines the portal cares about, plus `Header` for the rest of an existing file; no
file is the empty set. `target`, `branched`, `base`, `tip` and `mr` are GitLab's
state; `wire[r]` is request r's call on its way. `LandBranch`, `LandCommit` and
`LandMR` execute the calls, at any moment after they were sent or never, also
when the handler has given up. `Merge` is the line-wise three-way merge, `Close`
and `OutsideCommit` are people. GitLab's own behaviour is external, modelled from
how the client uses it (a commit that updates a missing file or creates an
existing one is rejected as a whole).

`Portal` — the handlers. The six of them are the same text but for the form, the
files and the edit, so a request is a *form* (user, org, CSRF verdict, edits of
existing files, files to create) and a program counter with one value per
external call:

    new → [groups] → [role] → read… → [defaults] → branch → commit → members → mr → end

| action | code (`handlers.go`, `handleManageUsers` unless noted) |
|---|---|
| `Refuse`, `Start` | validation and CSRF 464–497; admin by name 76–81 |
| `InAdminGroup`, `NotInAdminGroup`, `GroupLookupFails` | `inAdminGroup` 52–70 |
| `RoleConfirmed`, `RoleNotConfirmed` | `UserHasOrgRole`, 86–95 |
| `ReadFile`, `ReadFails` | one turn of the loop 509–545: read and compute |
| `ReadDefaults` | `handleCreateSpace` 1035–1071 |
| `Decide` (part of the last read) | nothing changed 547–552, or `CreateBranch` is sent |
| `BranchCreated`, `Committed`, `LookupAssignees`, `MROpened` | 554–608, each on the reply of the call before it |
| `CallFails` | an error status, a timeout, a lost or undecodable reply of the three writing calls |
| `Crash` | the single process dies with all requests in flight |
| `GitLabCommit` | the content of the commit: `Result` of what was read |
| `ChangeRole` | roles and groups change in Cloud Foundry |

`current[r]` holds what r read, so that the time between read, branch and commit
is in the model. `held[r]` is a history variable: r's user was entitled at some
moment since r started. `errs[r]` is the set of steps logged as errors.

`Handlers` — what the six handlers make of their POST fields: validation,
`parseSpaceChanges`, paths, and the net edit of a batch. A path is what `path.Join`
makes of the fields, below the foundation's directory: empty names and `.` go, `..`
takes back an element, and a name with slashes is several. `Slashed` stands for
all of the last kind. The rest of each handler is `Portal`.

`Authz` — `verifyOrgManager` in full: `Start` is the list of admins, and each
later lookup (`groups`, `org`, `user`, `role`: `UserGroups`, `orgGUID`,
`userGUID`, `hasRole` of `cfapi.go`) is a token, the call, and its reply or
failure. The token is oauth2's: `Acquire` takes it, or takes the mutex to fetch
another, `TokenFetched` and `TokenFails` release it, everybody else waits.
Accounts have a name and an origin, orgs an id and a name that changes.
`past[c]` is a history variable: the facts that held at some moment since c
arrived. A login makes the group lookup too, for the admin badge (`NoOrg`).
`RoleCheck` is its abstract specification, one step per decision.

`Session` — one browser: its cookies, its tabs, and the requests they have under
way. `Login`, `Callback`, `Exchanged`, `Welcome` are a login (the reply's cookie
is taken when it arrives, which may be after another's), `Open`, `RequireAuth`,
`Render` a page, `Submit`, `RequireAuth`, `Act` a post; cookies expire, the server
restarts with the same or another key. States and sessions are numbered in the order
they are drawn; a CSRF token is that of its session.

`ReadAPI` — the five `/api` handlers and the `List*` functions: a function of the
repository, or a failure.

`Staging` — a table of members: loading it from a reply (`Load`, with the one
origin a member is given), its edits, and the operations it posts (`ComputeOps`,
the pages' `computeOpsFor`). `StagingPage` is `manage_users.html`, with a table
per space visited, the confirm dialogs and two selectors; `TablePages` is
`manage_org_users.html` and `manage_groups.html`, which keep one table.

| action | code |
|---|---|
| `ChooseOrg`, `AskOrg`, `ConfirmOrg`, `AskLeave`, `Cancel` | the org selector's handler and the two dialogs of `manage_users.html` |
| `ChooseSpace`, `ChooseNoSpace` | the space selector: a staged space is drawn, another is requested |
| `SpacesReply`, `SpacesFail`, `UsersReply`, `UsersFail` | the continuations of the requests, in any order |
| `LoadTable`, `TableFails` | those of the two other pages |
| `Edit` | `addNewUser` / `addNewGroup`, `moveSelected`, the check boxes |
| `Submit` | the form's handler, with the hidden field it fills in |

`NodeEdit` — `nodeedit.go` and the callers: a document is a sequence of keys and
values as in yaml.v2's `MapSlice`, a role block again one. `ConfigFile` — one file
under any sequence of batches.

How the parts fit together. `Portal` takes three things of the others in one step
each, and each is checked where the detail is: that authorisation is one step at
a moment of entitlement is `AsOneCheck` of `Authz`; that a batch is the lines it
adds and removes per file is `ExactMembers` of `ConfigFile`; that what the pages
post are well-formed forms, each line concerned by one operation, is `PostAccepted`
of the page modules, which apply the definitions of `Handlers` to what is posted.

`PortalProps`, `PortalInv` — the properties of the handlers, and the inductive invariants behind
them. `ReviewGate` — the abstract specification of the whole: proposals of permitted requests,
accepted or withdrawn by reviewers, and answers that are true for good unless
they say "failed". `PortalRefinement` — the mapping from the handlers to it.
The `MC*` modules are the instances TLC checks, the `*Proofs` modules the proofs.

## Properties

| property | says | hazard |
|---|---|---|
| `Provenance` | every line by which the target differs from what it was was changed by somebody outside or asked for, in that file, by a merged request of a user entitled to the org of its form – although commits replace whole, possibly stale, files | lost updates, interleaved requests |
| `LostUpdateBounded` | a merge changes a line nobody asked for only if it changed in the target between the request's read and its branch | stale read |
| `AllOrNothing` | a branch has the target it was cut from or all files of the batch; a merge request has all | multi-file batches, crashes |
| `BatchComplete` | a merge request lacks a change of its form only if the line was as asked when it was read and was changed back before the branch was cut | files skipped as unchanged |
| `AuthorisedWrites` | no call, branch or merge request without a grant, no grant without an entitlement during the request | best-effort lookups, role changes |
| `StaysInOrg` | the files of a merge request lie in the directory of the org the user was checked for; violated, see `paths` below | names that are paths |
| `InvalidWritesNothing` | one rejected operation in one space, or a refused form, and nothing is ever written | partial failure |
| `TruthfulPages` | "MR opened" only if it exists, "nothing to do" only if nothing was written or will be, "failed" iff an essential step is logged as an error | late and lost replies |
| `EveryRequestAnswered` | a request that was taken on gets a page, unless the process dies or its own role lookup never ends | hanging calls |
| `ImplementsGate` | the handlers refine `ReviewGate` | all of the above, seen from outside |
| `GrantBacked` | a grant rests on facts since the request arrived: the org bore that name, and an ldap account of the user held the role on that very org | lookups by name, then by id, while orgs are renamed; namesakes of other origins |
| `AsOneCheck` | `Authz` refines `RoleCheck` | answers of different moments put together |
| `Answered`, `AdminsNeverWait` | unless a token request hangs, every request is decided; admins by name are let through even then | one mutex for all requests |
| `ActsAsShown` | an accepted post acts as a named user, and as the one its form was drawn for | tabs that switch users, expiry between two reads |
| `ShownIsCurrent` | the boxes list the space whose table is edited | late replies |
| `NothingLostSilently` | staged changes of any space go only by an edit of the space on display, or after the dialog was answered (the header's "Sign out" and a reload are outside the model) | repeated replies, switching to and fro |
| `StagedIsShown` | the posted operations turn the loaded list into the one shown, for all members listed under one origin | sequences of edits and moves |
| `PostAccepted` | what a page posts is a form its handler runs, on files of the org, without operations that undo each other | two languages, one format |
| `ShownIsSelected` | the one table of the other pages is that of the selectors, unless a reply came after they were changed | late replies, see below |
| `DocOK`, `CanonicalOrder` | through any sequence of batches a document repeats nothing and keeps cf-mgmt's order | edit sequences |
| `ExactMembers`, `OthersIntact` | the lists change exactly as the operations say; every other item is where and what it was | node-level editing |
| `NoOpSignal` | the bytes come back iff no list changes, and a batch applied twice is a no-op | no-op detection |

## Runs and bounds

| run | instance | shows |
|---|---|---|
| `pipeline` | 2 requests, 5 forms (same file added and removed, two spaces, groups, new space), one outside commit, roles fixed; 256,000 states | `TypeOK`, `Provenance`, `AllOrNothing`, `BatchComplete`, `TruthfulPages`, `LostUpdateBounded`, `ImplementsGate` |
| `requests` | 1 request, all 15 forms: each handler, valid, invalid, forged, empty, with a name that is a path; 7,300 states; ann's roles and group come and go; handler fairness only | `AuthorisedWrites`, `Provenance`, `InvalidWritesNothing`, `TruthfulPages`, `ImplementsGate`, `EveryRequestAnswered` |
| `lookups` | 3 callers: ann for an org, ann's login, an admin; two accounts of the name ann, two orgs that can exchange names, two changes of the outside world; 110,000 states | `TypeOK`, `GrantBacked`, `AsOneCheck`, `Answered`, `AdminsNeverWait` |
| `session` | 2 tabs, 2 users, 2 logins | `TypeOK`, `ActsAsShown` |
| `staging` | 2 orgs with a space of the same name, 3 spaces, 2 requests under way, 3 edits; 191,000 states | `TypeOK`, `ShownIsCurrent`, `StagedIsShown`, `PostAccepted`, `NothingLostSilently` |
| `tables` | the same orgs with groups and org users, both pages; 46,000 states | `TypeOK`, `StagedIsShown`, `PostAccepted`, `ShownIsSelected` |
| `configfile` | 3 space files and an org file, 12 and 10 operations, batches of one or two, any number of batches | the five properties of `ConfigFile` |
| `stale`, `paths`, `netnoop`, `renamed`, `staging_late` | see below | disagreements |

Bounds.

* *Handlers.* Two requests are what a read–merge–branch race takes, one being
  merged while the other is between its read and its branch; a third adds no new
  kind of step, since requests meet only in `target`. Forms, roles and answers do
  not depend on other requests, so that `requests` has one, and every form. The
  files are two spaces, a new space's two files, `spaces.yml`, the org file and a
  space of another organisation, and the defaults: enough for batches over two files, for edits of
  one file by two requests, for two requests creating one space, and for a write
  to another org to be visible. Each pair in `OutsideEdits` is flipped at most
  once, which is what the exception of `BatchComplete` takes: without it the run
  fails. Roles change without a bound (the set of roles is finite). Requests are
  symmetric (no property or action names one) where a run checks safety only.
* *Lookups.* `MaxChanges` = 2: an org gives up a name and another takes it, or a
  role is granted and revoked. Tokens expire without a bound.
* *Session.* `MaxLogins` = 2: one tab signs in as another user while the other has
  a form; a third login adds no cookie. Tabs and users are symmetric.
* *Pages.* `MaxLoading` = 2: two replies can overtake each other, or be for one
  space. `MaxEdits` = 3: a newcomer is added, ticked and moved, or a box is ticked,
  its row moved and moved back. The requests under way are kept in the order they were sent
  and end in any. The proofs hold for any values of both.
* *Documents.* A batch has at most `MaxBatch` = 2 operations, which is what
  add-then-remove and a second operation on a just created block take; longer ones
  arise as sequences of batches, and the reachable documents are finite. In the
  proofs a batch has any number of operations.

The deadlock check is on everywhere: `Finished`, `AllDone` and `Gone` stutter once
all requests ended or the visitor left the page.

## Fairness

`Portal`'s `FairSpec` has weak fairness on the steps of each handler past
`verifyOrgManager`: a goroutine waits only for its own call, and those to GitLab end
after the 30 seconds of the client (`gitlab.go` 31–37). GitLab is not assumed fair:
`EveryRequestAnswered` holds though it never executes a call. Starting a request
is not fair either: nobody has to post a form.

The CF client also has 30 seconds (`cfapi.go:47`), but they do not cover all of a
call: oauth2's transport asks its token source for a token before it sends
anything, the source fetches one while it holds its mutex, and that request has the default
client, a background context and no limit. `FairSpec` therefore says nothing of the
two lookups (`Lookups`: the steps `groups` and `role`), and `EveryRequestAnswered`
is conditional, request by request: it is answered if it does not stay in its own
lookups for ever. When they end is the matter of `Authz`. Its `FairSpec` has weak fairness on a handler's first step and on the end of
a call, strong fairness on taking the mutex (Go's does not starve a goroutine), and
none on the token request. `Answered` is conditional on no fetch lasting for ever;
`AdminsNeverWait` is not.

## Proofs

Eight modules, for all values of the constants that satisfy the named
assumptions: any number of requests, files, users, orgs, tabs, replies, edits
and operations of a batch. Every safety property of the passing runs is proved
(`CanonicalOrder` under a hypothesis, see *Documents*), both refinements included.

| module | theorems | inductive invariant |
|---|---|---|
| `PortalProofs` | `TypeCorrect`, `Authorisation`; `ProvenanceHolds`; `CommitsAreWhole`, `BatchesAreComplete`, `LostUpdatesAreBounded`, `PagesAreTrue`, `InvalidFormsWriteNothing`, `HandlersImplementGate` | `AuthInv`; `ProvenanceInv`; `CommitInv`, `Answers`, `Validated` |
| `AuthzProofs` | `AuthzTypeCorrect`, `AuthzGrantBacked`, `AuthzIsOneCheck` | `IInv`, `ClientOK` |
| `SessionProofs` | `SessionTypeCorrect`, `SessionActsAsShown` | `IInv` |
| `StagingLemmas` | none of its own: what loading, an edit and the operations do to any table, what the handler makes of them | `TableOK`, `Fits` |
| `StagingProofs` | `StagingTypeCorrect`, `StagingShownIsCurrent`, `StagingNothingLost`, `StagingShowsWhatIsPosted`, `StagingPostAccepted` | `IInv`, `TInv` |
| `TableProofs` | `TablesTypeCorrect`, `TablesShownIsSelected`, `TablesShowWhatIsPosted`, `TablesPostAccepted` | the property itself, `IInv` |
| `NodeEditLemmas` | none of its own: what each helper of `nodeedit.go` does to any document | `NormalBlock`, `NormalDoc` |
| `ConfigFileProofs` | `DocumentsStayWellFormed`, `OrderStaysCanonical`, `MembershipIsExact`, `OthersStayIntact`, `NoOpSignalIsExact` | `FileInv`, `OrderInv` |

The assumptions are those of the modules, and TLC evaluates them in every run:
`RepoAssumption` and `PortalAssumption` (below), `AuthzAssumption` (the types of the
outside world), `NoUserAssumption` and `MaxLoginsAssumption`, `OrderAssumption`,
`FilesAssumption` (the files start well-formed and in
order, a bare key has no list for its value, a valid operation names a member),
`StagingAssumption` and `TablesAssumption` (the lists of the repository are finite and
name their members; their roles and origins are among those the pages list, and these
among those the handlers accept; for `manage_users.html` also that orgs and spaces
have names that may be in a path, since its handler refuses the others).

* **Types and authorisation.** `ResultContent`, `MergedContent`, `ReadContent` say
  that what a handler computes, what a merge yields and what a read returns are
  contents again; `DecideType` does the step all reads end in. `AuthorisedWrites`
  alone is not inductive: that a call on the wire was granted needs to know at
  which steps a request is past `verifyOrgManager` (`Permitted`), that a request
  that is not has nothing at GitLab (`Phase`), and that `held` has seen every
  moment at which a running request's user was entitled.
* **Provenance** is about the target alone, but a merge brings a branch to it,
  the branch a commit, and the commit what was read, possibly long before. The
  invariant follows that way: what a request has read is vouched for (`Traced`,
  first part; it was the target once), so is what is on its branch, but for the
  lines it asks for itself (second part), every edited file was read before the
  commit (`ReadAll`), and files keep their header, so that a "create" meets an
  empty file and an "update" an existing one (`Whole`). The assumption that
  carries weight is `WellFormed`: a form names each file once, none is the defaults
  file, and no line is both added and removed. It does not say where the files lie: the
  theorem holds of any names in the form, and is about the org in it; that a file is one of that
  org's is `StaysInOrg`, which does not hold.
* **Commits.** `CommitPhase` says at which steps a branch is still its base and
  from which it is `Done`: exactly `Result` of what was read, in exactly the
  written files. That is kept since a request with a branch reads no more
  (`Stable`, `DoneStable`). The three theorems are consequences of it: what a merge
  request lacks or a merge reverts is then a difference between what was read and the base.
* **Answers.** `Answers` strengthens `TruthfulPages` by what a request that has
  not ended may have logged; `Validated` says that operations are validated in the
  order of the files, all before the first writing call. `HandlersImplementGate`
  goes step by step: which step of `ReviewGate` each action is.
* **Lookups.** What a caller has found is among the facts of its time
  (`FoundInPast`), and those include the present ones (`PastHasPresent`), so that
  the last lookup decides for all: at that moment the role is held, on an org that
  has borne the name since the request arrived. That is why four calls are one check.
* **Sessions.** A form's token is a session's number and its user that session's
  owner (`FormOfOwner`), so equal tokens mean equal users; a session is only made
  of a named account (`ExchangesALogin`: an exchange belongs to a login that was started).
* **Pages.** `NothingLostSilently` is a matter of each step, but that an edit goes
  to the table on display needs `ShownIsCurrent`. `StagedIsShown` does not look at
  the replies and selectors at all: a row knows the roles its member had in the list
  it was loaded from, and the origin these are listed under (`RowOK`), a fresh
  table by `FirstOriginListed`, an edited one by `EditOK`, so that the differences the
  operations are made of (`OpsByRow`) turn the list into the one shown (`OpsMakeShown`).
  With two origins `RowOK` claims nothing (see the disagreements).
* **Posts.** `PostAccepted` crosses from the pages' script to the handlers. A table
  that was loaded and edited has finitely many rows, of named members, with the
  roles and origins its page offers (`Fits`); its operations are then a good batch
  (`OpsGood`): valid, and no line is named twice, as what a row gains and what it
  drops are disjoint. So the order in which they are posted does not matter and none is
  undone by a later one (`BatchOfListing`; `Listing` is any enumeration). For the
  spaces, the names of orgs and spaces make paths of three elements, the first of
  them the org (`PathOfSegments`), and `ParseOfGood` follows the loop of `parseSpaceChanges`: of entries with
  operations for different spaces it drops and joins nothing.
* **Documents.** An edit is followed block by block (`BlockEdit`) and then in the
  document: the operation's list changes by its member, or nothing does, and all else
  stays (`EditEffect`); a new block goes before the first item, past the
  head keys, that is no role block or a later one (`InsertIsAtPlace`, `InsertBlock`). A batch is the edits one
  after the other (`Progress`), so that each of `ProgressMembers` (the last operation
  on a line decides, `LastUpTo`), `ProgressOthers`, `ProgressOrder` and `ProgressNoOp`
  is an induction with `UpTo`. That the document is well-formed is inductive
  (`FileInv`) and all that four of the five properties need, which look one batch ahead
  from any such document. `CanonicalOrder` needs `OrderInv`, and the hypothesis
  that no file starts with an identity key that is not among its schema's head keys
  (`HeadsOnly`): `original-space` is one, and refutes the property in the run `renamed`.

TLC alone checks `EveryRequestAnswered`, `Answered` and `AdminsNeverWait`, since
liveness under fairness is out of the prover's reach, and the disagreements. That
the two schemas, the forms and the pages' constants of the runs satisfy the
assumptions is TLC's too.

Induction is by hand where it is needed: the library's induction theorems take an
operator as a parameter, which the installed provers cannot instantiate, so the
loops of the code are recursive functions (`Without`, `Progress`, `Parsed`), which
are shown to exist and followed with `UpTo`, an induction up to a bound over a set of numbers.

## Where the code and its comments disagree

* **`stale`.** A handler reads a file (`handlers.go:514`), creates the branch from
  the target's head of a later moment (557), and commits the whole file (565). A
  merge in between that touches the same file is reverted by the request's own
  diff, against `nodeedit.go:13-15` ("changes only the one list the action targets
  and leaves the rest of the document byte-for-byte intact") and
  `apply_space_user_ops.go:20-21` ("so the diff contains only the lines the ops
  actually change"). `LostUpdateBounded` shows this to be the only window.
* **`paths`.** Five of the six handlers join the org and the space of the form into a
  path as they come (`handlers.go:209`, 350, 721, 865, 1015, `create_space.go:58`), and
  check the role for the org field; a name that is more than one path segment leads
  to a file of another org, which the merge request then edits. Only
  `handleManageUsers` asks `validPathSegment` (479, 493), whose comment (644–647) says:
  "authz is org-scoped, so a crafted "space" like ../other-org must not reach
  path.Join". What stands is `Provenance`: the change was asked for in that file, by
  somebody entitled to the org of the form, and shown to the reviewer who merged it.
* **`netnoop`.** Adding and removing a user whose role block is missing leaves the
  empty block, against `apply_space_user_ops.go:31-33` ("this makes a net no-op
  batch (e.g. add then remove the same user) return the original bytes") and
  `apply_org_user_ops.go:24-26`; TLC's trace is on an org file.
* **`renamed`.** In a renamed space's file `original-space` follows `space`; it is not
  in `spaceSchema.headKeys`, so a new block goes before it and before blocks of a
  lower index, against `nodeedit.go:207` ("keeping canonical role order").
* **`staging_late`.** A reply with the users of a space is kept under the space's name
  alone (`manage_users.html:162`), also when the org was changed after the
  request. If the new org has a space of that name, it is shown from the former
  org's list, edited, and posted for the new org, against line 107 ("The whole map
  survives switching spaces; only an org change clears it").
One more was met without a run of its own. A user listed under two origins is one row of
`manage_users.html` with the first origin and the roles of both (187–188). Removal
names all of them under that origin (279), and the entries of the other stay, against
lines 17–18 ("move a user to the right to remove them from the space entirely").
`StagedIsShown` has these users as its exception.

The same lateness as in `staging_late`, without a comment that says otherwise, is on the two other
pages: a reply replaces the table whatever is selected by then
(`manage_groups.html:135-136`, `manage_org_users.html:127-128`), and
`_pickers.html:50-51` does so with its list of spaces. `ShownIsSelected` has the case as its
exception, and shows that there is no other.

## What is not modelled

* Simple forms and pickers: forms that are sent as they are filled in; the handler
  checks every field again, and `Handlers` has those checks. Templates, assets and
  `handleIndex` only render.
* The pages of `GroupMembers`, which is one best-effort step: its result only
  chooses the assignees of the merge request.
* Liveness of a login: the exchange of the code has no limit of its own
  (`auth.go:69`); the model lets it end or be given up, and claims nothing of when.
* Reading the environment, but for the two lists of admins.
* Names: one name with slashes (`Slashed`) stands for all of them. Names with a backslash
  or a leading dot, which `validPathSegment` refuses too, are not in the model, and
  paths out of the foundation's directory are no files of it. Names differ in more than
  case (`spaces.yml` is searched without regard to it). `StagingAssumption` asks that
  the orgs and spaces a page lists have names that are one segment.
* `handleCreateSpace` logs the requester's becoming a manager as a step that cannot
  fail in practice (1075–1088); its failure is left out.
* Leaving `manage_users.html` by the header's "Sign out" (`_header.html:11`) or by a
  reload drops staged changes without a dialog. The page's script has no say in it, so
  `NothingLostSilently` is a claim about what happens within the page.
* Bytes: documents stand for their YAML, marshalling is taken to tell different
  documents apart, and the typed round-trip of `spaces.yml` and `spaceDefaults.yml`
  is the set of lines it keeps. Merges are line-wise; conflicts of neighbouring
  lines, which GitLab may refuse to merge, are merges that do not happen.
* The repository does not change under the staging pages; that what they loaded
  is out of date when the form is posted is the handlers' matter, who read again.
* Wording, layout, durations, logging.

## Plan

1. *(done)* `ConfigRepo`, `Portal`, `Handlers`, `PortalProps`; `ReviewGate` and the
   refinement; `NodeEdit`, `ConfigFile`; types and authorisation proved.
2. *(done)* `Authz` and `RoleCheck`, `Session`, `ReadAPI`, `Staging` and the three pages,
   with their proofs; the other safety properties of the handlers and the
   refinement proved.
3. *(done)* The operators of `NodeEdit` and the five properties of `ConfigFile` proved
   for any documents and batches; the remaining type invariants; `PostAccepted`, from
   what is shown on a page to what its handler makes of it.
4. A module for the pages of `GroupMembers` while the group changes, and one for the
   pickers.
