# A TLA+ project for the Normandy server

Normandy stores *recipes* (an action, its arguments and the filter that decides
which Firefox clients run it), takes them through peer approval, signs them and
publishes them to Remote Settings, from where clients fetch them. This project
models how recipes come to be approved, enabled, signed and published, whom
their filters reach, and what happens to the actions, add-ons and signatures
they depend on; it checks the models with TLC and proves theorems about them
with TLAPS.

## The system

| Component | State it keeps | Operations | Where |
|---|---|---|---|
| Recipe lifecycle | rows of `Recipe`, `RecipeRevision`, `EnabledState`, `ApprovalRequest` | create, revise, delete, request approval, approve, reject, close, enable, disable | `recipes/models.py`, `recipes/api/v3/views.py` |
| Publishing | two Kinto buckets, `main-workspace` and `main` | put or delete a record, `to-sign`, `to-rollback` | `recipes/exports.py` |
| `sync_remote_settings` | none; a snapshot while it runs | compare, publish, unpublish | `recipes/management/commands` |
| `update_recipe_signatures` | `Recipe.signature` | sign what is enabled and old, unsign what is disabled | same |
| Signing | a cache of x5u chains and of errors | sign (by calling Autograph), verify a chain | `recipes/signing.py` |
| Argument validation | reads all recipes | slug uniqueness, rollout of a rollback | `Action.validate_arguments` |
| Filters | none | filter object to JEXL and capabilities | `recipes/filters.py` |
| Actions | rows of `Action`, implementation hash | `update_actions`, `update_action_signatures`, answer at a URL with the hash | `recipes/models.py`, commands |
| Extensions | `Extension` rows, files in the storage | create, update and delete if unused | `studies/`, `base/storage.py` |
| Add-on URLs | arguments of revisions | `update_addon_urls`, migration `0014` | commands, `migrations/` |
| Authentication | profile cache | bearer token to user | `base/api/authentication.py` |
| System checks | none | report configuration, expired or bad signatures | `recipes/checks.py` |
| Read API, storage, geolocation, health, capabilities | none | serialize, rewrite file names, look up | `base/`, `recipes/api/v1` |
| Client actions | preferences and storage of a client | show a heartbeat, run an experiment | `client/actions` |

**How they interact.** A web worker serves one request at a time; several run at
once, and cron runs the management commands beside them. They share one
database and one Kinto workspace. Creating and revising a recipe, approving,
rejecting and closing a request run in a database transaction; enabling,
disabling and requesting approval do not. Within them the worker calls
Autograph (to sign) and Remote Settings (to publish), whose effects no
transaction takes back.

**What is hard.** A request that fails midway leaves what it had committed, in
the database or in the workspace. `to-sign` and `to-rollback` act on the whole
workspace, whoever edited it. A revision keeps its own enabled state when another
one is approved. The command that repairs Remote Settings works from a snapshot.
`kinto_http` retries calls whose answer is lost. Nearly every handler and command
loads a row, thinks, and saves the whole row: what another committed in between
is written over. Failures and chains are cached, keys roll over, and files are
stored before the rows that name them. `PROJECT.json` lists these hazards at
their lines, with the properties that watch them.

**What makes each part correct.** Lifecycle: nobody's change reaches clients
without another user's approval; history stays one chain; a rollout and its
rollback are never on together. Signing: what is enabled or published carries
the signature of that same revision. Publishing: a request that is over has
left clients with what the database says, or the sync command makes it so.
Actions: a row, its hash and its signature agree, and no signature outlives its
key. Filters: a recipe reaches the clients its filters document, and asks no
client for what it lacks. Extensions: a row is true of its file, and files in
use stay.

## Modules

* **`Recipes`** - the lifecycle. One action per API handler and per run of a
  command; the calls inside succeed or fail in the ways `Fault` names, and each
  action leaves what the code would leave. `RemoteSettings` of `exports.py` is
  here a pair of buckets, `rs`, and operators on it (`Publish`,
  `FailedPublish`, ...) that handlers use as the code uses the class.
* **`RemoteSettings`** - `exports.py` call by call, and the handlers and
  `sync_remote_settings` that run it at the same time. Of the database it keeps
  the record each enabled recipe has.
* **`PeerApproval`** - the abstract promise: what clients are given was approved,
  the revision in force changes only by approval, and a recipe that is on moves
  to its new revision in that step. `Recipes` instantiates it (`Promise`), with
  `verdicts`, `approved`, the enabled recipes and the main bucket for its
  variables.
* **`RequestRaces`** - the same handlers taken apart into loading, checking and
  writing whole rows, two or more at a time, with the rules on other recipes'
  names; without users, signatures and Remote Settings, which `Recipes` has.
* **`Filters`**, **`Targeting`** - filter objects as operators, and the recipe
  that requests create and update with them.
* **`Signing`** - actions and their signatures, the commands that write them,
  the view that serves implementations, `verify_x5u` with its cache, and the
  system checks.
* **`Extensions`** - the extension API, its storage and the check for use.
* **`AddonUrls`** - `update_addon_urls` and migration `0014`, beside users,
  `update_recipe_signatures` and `sync_remote_settings` as single steps.
* **`MC...`** - constants and symmetry for TLC; **`...Proofs`** - the theorems.

### `Recipes` and the code

| Variable | Code |
|---|---|
| `recipes`, `latest`, `approved`, `signature` | the `Recipe` rows and their columns; a signature is the revision that was signed |
| `revision` | the `RecipeRevision` rows: recipe, parent, and `content`, which stands for action, arguments and filters |
| `enabled` | `revision.enabled_state.enabled`. It belongs to the revision, and stays when another revision is approved |
| `request` | the revision's `ApprovalRequest`, at most one |
| `rs` | the two buckets; a record is the revision it was made from and the signature inside it |
| `verdicts` | history: which revisions a user other than the requester approved or rejected |

`Create` and `Revise` are POST and PATCH of a recipe; `RequestApproval`,
`Approve`, `Reject`, `Close` the handlers of requests; `Enable`, `Disable` those
of recipes. `Approve` is three actions: `ApproveDisabled`; `ApproveEnabled`,
which carries the enabled state over and publishes before the transaction
commits; `ApproveRolledBack`, the same with a publication that raises.
`Enable` keeps its partial outcomes: the enabled state alone when Autograph
fails, the state and the signature when publishing does. The commands are
`UpdateRecipeSignatures`, `SyncRemoteSettings` and their runs that end early.
`Delete` models Django's cascade: revisions, states and requests go, the
published record stays. The ids of deleted rows are not used again, as in the
database.

Left out of a handler: what a revision contains beyond equality and the
conflict of a rollout with its rollback, comments, timestamps (which signatures
are old is a choice of `UpdateRecipeSignatures`), permissions, and
`validate_arguments`. A revision that changes nothing makes no row in the code
and no step here.

### `RemoteSettings` and the code

`job[w]` is the program counter and the local variables of a process. A handler
goes `edit` -> `sign` -> idle; a refused `to-sign` goes to `rollback`. The
command reads the main bucket (`SyncFetch`), then the database
(`SyncCompare`), then goes through its differences, those to publish first, each
with its own `to-sign`. Enabling and disabling commit when they begin, an approval in a
step of its own after its `to-sign` (`CommitApproval`); this is where the code's
transactions end. `Overlap` says whether requests for the same recipe may run at
the same time. Even then nobody begins on a recipe while an approval of it runs,
because the row the approval updates in its transaction is locked until that ends
(`MayBegin`); the approval itself may begin beside handlers that enable or disable
the recipe, which hold no lock while they publish. Each publishes the record as it
loaded it. `Asked` names the requests each handler may get, a bound for TLC.
`residue` is a history variable: the recipes whose edit is left in the workspace by a
process that ended, or went on, without answering for it.

The Kinto server is outside the repository. It is modelled from how
`exports.py` uses it and describes it (`exports.py:52-68`): `to-sign` copies the
whole workspace into the main bucket, `to-rollback` the main bucket into the
whole workspace.

### `RequestRaces` and the code

A job is a handler's local variables: `Load...` is `get_object` and what the
handler reads with it (the recipe's `latest_revision` and `approved_revision`,
the enabled state, the request), `CheckArguments`, `CheckSwitch` and
`CheckApprove` are the queries that may refuse, `Write...` the saves.
`WriteRecipe` writes the recipe as loaded, with the one column the handler
means to change: that is Django's `save()`. A handler that runs in a
transaction writes in one step; `enable`, `disable` and the request for
approval, which do not, write the recipe back in a step of their own
(`WriteBack`). A unique column refuses in the step that would break it. `Locked` is
the row lock that approving holds from its first save. `Content` has an action
that stands for all whose slug must be unique and one, the rollback, that must
name a rollout. `met` remembers which recipes' handlers were at work at one
time, so that properties can say how far the damage of a race may go.

### `Filters`, `Targeting` and the code

A rendered text is a sequence of operands, each the set of clients that satisfy
it, joined by `and` and `or`; a parenthesis makes one operand of a text. How a
client's parser ranks `&&` and `||` is not in the repository: clients of both
kinds are in the models. Each class of `filters.py` is an operator that
gives the text as `to_jexl` builds it, the clients its docstring promises, those
for whom there is no known reason to break the promise (`sound`), its
capabilities, and how rendering may end (text, the filter's own error, or
the `KeyError` of a field that is missing). `Capability` is the set of names that
capabilities have; a boolean is the value as it came, since `to_jexl` tests
that and not what the serializer made of it; the assumptions are that it has those that `filters.py` asks
for by name and that a client's version is a number. `Targeting` stores a recipe's filter
objects, raw expression and old columns through `Create` and `Update`, which
validate what the request brings and render the response in the same
transaction.

### `Signing` and the code

Time is counted in days. `Updated` and `Saved` are `Action.save` under
`update_actions`; a run of `update_action_signatures` reads the outdated rows
(`BeginSigning`) and saves each as it read it (`SignNext`). `Retrieve` is
`ActionImplementationView`, `served` its answers. `Verify` is `verify_x5u`: a
cached chain, a cached error, or a fetch, and then the validity of the chain on
that day. A check is a program counter over the chains it has still to verify.
That Autograph's old key overlaps the new by the signature's age and the
time between two runs is an assumption (`KeysAssumption`), as
`docs/ops/config.rst` asks for.

### `Extensions`, `AddonUrls` and the code

`job[w]` of `Extensions` is a request: it loads the row, looks for recipes
(`CheckUnused`), asks the storage for the name (`FindName`), puts the file
(`Put`), and writes the row (`Insert`, `Save`, `Destroy`); `Die` ends it
anywhere. A recipe is what its latest and its approved revision say of an
extension. `is_legacy` is kept as the code keeps it: set, never reset.

In `AddonUrls` a run keeps the rows it read. It takes the newest recipe's
revisions first: the order is `-created`, and a revision copies `created` from the
one before it, so that a recipe's own come in any order (`Reaches`). A revision
is skipped (`Skip`), or its recipe's row is read when its arguments are validated
(`Load`), the revision is saved (`Rewrite`), what the row names as approved is
signed (`Sign`) and the whole row written back (`WriteBack`). `Fail` ends a run
anywhere, `End` at a revision whose arguments are refused. The migration reads
all rows in one step and writes them in another (`BeginMigration`, `Migrate`), beside
users and, where `Beside` says so, beside a run.
`torn` remembers what was rewritten and not signed since, `crossed` the recipe
whose row the run holds if somebody else wrote it, `overtaken` what was switched
behind the back of the run or the migration.

## Runs

| Run | Bounds | What it shows |
|---|---|---|
| `lifecycle` | 1 recipe, 3 revisions, 2 users, any request closable; Autograph fails, or the answer of `to-sign` is lost | types; `OnlyReviewedInDatabase`; `HistoryIsAChain` |
| `switching` | 2 recipes, 3 revisions, a rollout and its rollback; approved requests stay; Remote Settings refuses | `NoConflictEnabled`, `OnlyReviewedPublished`, `SignatureMatches`, `PublishedSignatureMatches`, `ApprovalCarriesOver`, `OnlyEnableSwitchesOn`; each step is one of `PeerApproval` (`ImplementsPeerApproval`) |
| `convergence` | 2 recipes, 2 revisions, 1 user who reviews too, every failure without residue | `SyncConverges` of `Recipes` |
| `publishing` | 3 recipes, 3 workers, 2 contents, every call succeeds | `Settled` |
| `residue` | 2 recipes, one of them of 2 contents, 2 workers whose requests overlap on one recipe and across both, the command, every failure, crashes | types; `WorkspaceFollows`; `OnlyResidueBlocks` |
| `races` | 2 recipes, 3 revisions, 3 requests, 2 handlers, 1 name; handlers overlap at most twice | types; `OnlyReviewedInForce`, `NoFork`, `NamesUniqueOn`, `CanSwitchOff`; damage stays where handlers met: `NothingLost`, `OnlyOneOfPair` |
| `targeting` | 27 simple filters, their negations, pairs of nine of them under `and` and `or`, deeper nestings; two filters to a recipe; 256 kinds of client | types; `NeverUnfiltered`, `EveryPartRequired`, `MatchesAsDocumented`, `OldClientsSpared` |
| `signing` | 1 action, 1 recipe, 2 implementations, 2 keys, 5 days, every check | types; `SignedAsStored`, `ServedIsHashed`, `ServedVerifies`; `OutageEnds` |
| `extensions` | 2 extensions, 2 file names, 4 xpis (web, legacy, without version, unsigned), 1 recipe, 2 workers | types; `DescribesFile`, `UsedKept` |
| `addonurls` | 2 recipes, 3 revisions, one of them refused; the storage moves once, migration `0014` goes both ways between runs of the command | `SignedUnlessTorn`, `OnlyUsersSwitch`, `OnlyUsersApprove`; `UrlsMove` |
| `stalestate` | as `switching`, and approved requests may be closed | a violation of `NoConflictEnabled` |
| `testers` | a recipe of the `qaOnly` filter alone, the clients of `targeting` | a violation of `ClientsAsDocumented` |

Three revisions are what the lifecycle properties need: one that is approved
and enabled, one that supersedes it, and a third or the first again. Two
recipes are what conflicts and the sharing of the workspace need; three workers
let two others act between two calls of one. In `residue` two requests meet on one
recipe only when both workers have them, so each worker is asked for some of its
contents only (`AskedInTurn`): either enables it, the other approves another content or
disables it meanwhile. Two users are a requester and a
reviewer: no handler compares more. Two handlers that overlap twice let each read
before and write after the other, in both orders, around a third request;
pairwise nesting of filters is what joining without parentheses needs; two
keys and five days let a signature grow old, be replaced and its key expire;
two requests on extensions are what racing for a name or a use needs. Ids, users
and contents are only compared, so symmetry is sound for the safety runs;
liveness runs use none.
`CHECK_DEADLOCK FALSE` stands where ids run out and the model may stop; nothing
in the code waits for another process.

Two runs show a property violated:

* `stalestate` lets users close approved requests, and finds `NoConflictEnabled`
  broken. A revision keeps its enabled state when another is approved; once the
  recipe is disabled, the old revision's request closed, a new one requested and
  approved, `approve()` sees a recipe that is off and calls no `enable()`, and
  the old state switches it on: neither validated nor published.
* `testers`: the docstring of `QaOnlyFilter` names the preference
  `app.normandy.testing` (`filters.py:1074`), the filter asks for
  `app.normandy.testing-for-recipes` (`1100`).

`MatchesAsDocumented` leaves out what is known to differ from what the filters'
classes say, filter by filter and client by client (`sound`), and says that nothing else
does. Besides `qaOnly` that are four kinds, the first four under "Where code and
documents part".

**What the passing runs assume** is in their constants, and that Remote Settings
is configured (without it `exports.py` does nothing). `ClosableStatus` without
`"approved"`: users do not close approved requests (the API lets them;
`stalestate` shows what follows). `Faults` without `"stranded"`,
`"redelivered"`, `"crash"`: no residue stays in the workspace (`residue` shows
that nothing else blocks convergence). `Faults` without `"sign"`, for
`SignatureMatches`, and without `"unanswered"`, for `OnlyReviewedPublished`:
these failures break them, as the code stands. `WorkspaceFollows` takes every failure
and excepts the residues these leave, each until the next approval publishes it, the
next rollback reverts it or the record is written again. `addonurls` has no deployment
of the migration during a run of the command; the theorems about it do.

`races` takes no renaming (`Renames`): with it, two recipes may come to be on
under one name (see below). `OnlyOneOfPair` and `NothingLost` except recipes whose handlers
met, because there the code does lose updates. `DescribesFile` excepts names that two
requests found free at once, and `UsedKept` recipes that came to name an extension
after a request had looked: there the code loses the file. `SignedUnlessTorn`,
`OnlyUsersSwitch` and `OnlyUsersApprove` except what somebody wrote behind the back
of `update_addon_urls` or of the migration: there the code does undo it. These
properties say how far the damage goes, not that there is none.

**Fairness.** In `Recipes`, weak fairness of `SyncRemoteSettings`: cron starts
the command again and again, and a run without failing calls is among them. In
`RemoteSettings`, weak fairness of starting the command and of each process'
next call: a process does not hang, because `kinto_http` calls return or raise.
In `Signing`, weak fairness of the end of each cache entry, whose ages are
settings, and of the checks, which the load balancer's health checks repeat. In
`AddonUrls`, weak fairness of `EndMigration`, because a transaction ends, and of `Progress`: a run goes on and is started again (no
schedule in the repository does that: `UrlsMove` says what repeating the command
achieves); of `UpdateSignature` for each recipe, because signatures grow old and cron signs
old ones again; and of `SyncRemoteSettings`. Nothing obliges users to act. The
liveness properties ask for convergence only after users or migrations leave
the system alone, calls stop failing, or the network is back.

**Where code and documents part.** Met while modelling, and not a run each:

* A value of `preferenceExists` or `preferenceIsUserSet` that is the JSON string
  `"false"` passes the serializer as false and is rendered as true, because `to_jexl`
  tests the string (`filters.py:396`, `433`).
* A repeated version makes `VersionFilter` take a list with a gap for a range
  (`filters.py:630`): `[72, 72, 74]` includes 73, "any of the listed versions".
* `AndFilter`, "requiring all subfilters to match", joins texts of several
  operators without parentheses (`filters.py:846`): a platform filter of two
  platforms inside it makes it match too much.
* "Older than a given date" is rendered as `<=` (`filters.py:937`), and "newer than"
  takes in clients without telemetry (`940`).
* `close()` deletes a request whatever its status (`models.py:586`): a rejected
  revision can be requested and approved again unchanged;
  `docs/user/peer_approval.rst:32` says the recipe must be updated first.
* `revise()` closes only the request on the latest revision (`models.py:215`); one
  on an older revision stays open and can be approved. `peer_approval.rst:23`
  says changes close the request.
* When Autograph fails in `enable()` (`models.py:430`) the enabled state is
  committed already: the recipe is on with an older revision's signature, and the
  retry is refused. `docs/adrs/adr-0001-content-signing.rst:81` says the signature
  of each recipe validates its content.
* A DELETE that is applied, its answer lost and retried, is answered 404, and
  `unpublish()` approves nothing (`exports.py:191`): the record stays in the main
  bucket for good. `sync_remote_settings.py:33` says such recipes will be
  unpublished. `residue` shows that nothing else blocks the command.
* Another worker's `to-sign` publishes what an approval has put in the workspace;
  if that approval is then refused, the revision stays published
  (`exports.py:231`).
* `validate_arguments` compares a name with the latest revisions of other recipes,
  not with those in force (`models.py:745`): once a draft is renamed, another
  recipe may take, and be enabled under, the name that is still running.
* `NegateFilter` asks for no capability, whatever it negates (`filters.py:833`).
* A nested filter without a field it needs is stored, although it does not
  render: the serializer skips its `KeyError`.
* The checks of signatures let `BadCertificate` and `CachedRequestException`
  through (`checks.py:106`): a check that meets one reports nothing else.
* `update_action_signatures` saves whole rows it read: a change that
  `update_actions` committed meanwhile is lost until it runs again.
* The guard of extensions looks for `extensionId`; revisions of opt-out studies,
  since migration `0014`, name `extensionApiId`, which it never sees.
* The migration rewrites the content of enabled recipes and signs nothing;
  `update_addon_urls` forgets, in the next run, what an interrupted one did not
  sign. Both wait until the signatures are old.
* With each revision, `update_addon_urls` writes back the recipe's row as it was
  read before the revision was saved and before Autograph answered
  (`update_addon_urls.py:65`): an approval, a signature or a switch made in
  between is undone.
* A revision whose study's name another recipe has taken since ends every run of
  `update_addon_urls`: the revisions of recipes created before its own are never
  rewritten, and of its own recipe's only those the database happens to return
  first.
* `is_legacy` of an extension is set by a legacy add-on and never reset
  (`studies/models.py:71`): a web extension that replaces one stays marked as
  legacy. No document says what the mark is for; `DescribesFile` asks only that
  a legacy add-on has it.

## Theorems

For every value of the constants that satisfies the modules' assumptions. Every
safety invariant and every action property that a run checks is a theorem; each
follows from an inductive invariant, which says what else must be true for it to
be kept. In `RecipesProofs` and `RemoteSettingsProofs`:

* `RecipesProofs!TypeCorrect` - `TypeOK`, whatever fails. One lemma per operator
  on the buckets says that it returns buckets again.
* `PeerApproval` - `OnlyReviewedInDatabase`. Not inductive alone: a request whose
  status is approved must come from a peer's verdict, and every enabled, approved
  or signed revision from such a request, though the request may be closed since.
* `PublishedPeerApproval` - `OnlyReviewedPublished`, if failed approvals of
  changes are reverted. The workspace must hold only reviewed revisions too, so
  that copying it is safe.
* `CarryOver` - `ApprovalCarriesOver`, from the actions alone and the types.
* `OnlyEnabling`, `RolloutRollback` - `OnlyEnableSwitchesOn` and
  `NoConflictEnabled`, if approved requests are not closed. The invariant says
  that an enabled revision has kept its approved request, so that it cannot be
  approved a second time; from it, what is switched on was validated.
* `EnabledSigned`, `PublishedSigned` - `SignatureMatches` and
  `PublishedSignatureMatches`, if Autograph answers: records are made from
  enabled rows, so what either bucket holds was signed when it was put there.
* `OneChain` - `HistoryIsAChain`, whatever fails: only the latest revision has
  no child, and requests and approvals stay on its recipe's chain.
* `RemoteSettingsProofs!TypeCorrect` - with the invariant `Targets`: a process
  about to send `to-sign` knows a record it had to write, which is what an approval commits.
* `NoResidue` - `WorkspaceFollows`, whatever fails and overlaps: a process at `sign` or
  `rollback` answers for the record it edited, until it approves or reverts the whole
  workspace or somebody edits the record again and answers for it; one that ends
  before leaves its record to `residue`.
* `AllSettled` - `Settled`, for handlers that all succeed, without the command,
  one request for a recipe at a time. The invariant `SettledInv`: each busy
  recipe has one handler, which writes the record the database has or will have,
  and outside the recipes being published the workspace equals the main bucket.

* `Refinement` - `ImplementsPeerApproval`, with peer approval enforced, approved
  requests not closed, and refused approvals reverted: the invariants above say
  that what the buckets hold was reviewed, so that each action of `Recipes` is
  an `Approve`, `SwitchOn`, `SwitchOff`, `Withdraw`, `Republish` or a stutter.

In `RequestRacesProofs`, for any number of handlers, recipes and overlaps, from one
invariant on rows and on what handlers carry:

* `TypeCorrect`, and `ReviewedInForce` - `OnlyReviewedInForce`: what a stale row
  writes back was in force before, and a request that a handler found pending
  is approved in the step that records the review.
* `NeverForks` - `NoFork`: a new revision's parent is the row its handler loaded,
  and the unique column refuses a second child.
* `UniqueNamesOn` - `NamesUniqueOn`, without renaming: whoever enables the second
  of two recipes validates against the first, whose latest revision has had the
  name since before.

In `LoneRecipesProofs`, where handlers keep out of each other's way. `KInv` adds
to the invariant above that whatever the only handler of a recipe loaded is still
so (`AllCurrent`), whatever handlers of other recipes write. For that, the id of a
request must stand for one revision wherever it is carried (`OneRevision`), or
forgetting a request could take another recipe's; and `met` must have every two
handlers at work (`Together`), so that a recipe alone in it has one.

* `LoneRecipesLoseNothing` - `NothingLost`: `AllKept` says of every revision ever
  approved what `NothingLost` says of the one in force, since a revision may come
  to be in force again.
* `PairsApart` - `OnlyOneOfPair`: a handler past its check still carries the
  answer it was given, as no recipe it never met changed since (`Screened`).
* `SwitchedOff` - `CanSwitchOff`: the rollout a rollback names is never revised
  away while names stay (`HasRollout`), and a name has one holder (`OneHolder`);
  a handler that has checked its content, and not stored it yet, counts.

In `TargetingProofs`, `TypeCorrect`; `AlwaysFiltered` - `NeverUnfiltered`;
`PartsAreAnded` - `EveryPartRequired`, for
texts of any operators, because a parenthesis makes one operand of each part.
Then, for filters of every class, on lists of any length, nested to any depth:

* `AsDocumented` - `MatchesAsDocumented`, and `BaselineIsEnough` -
  `OldClientsSpared`. Their hypothesis is that what there is to submit is
  `Built`: in the least set that has the filters of each class and is closed
  under negation, `AndFilter` and `OrFilter`. `EveryFilterIsBuilt` shows that
  this set is closed itself, so the hypothesis leaves out no filter that fields
  of the documented kinds can make. Lists that a filter is made of are not
  empty: validation asks for that, though not of nested filters, whose empty
  lists render to nothing that parses.
* `AnyVersions` and `AnyOrAll`, about version and add-on filters by themselves.

The argument is a claim on one filter, `Honest`: its text begins with an operand,
clients satisfy it as documented where it is sound and renders, and it needs
nothing it does not list. There is a lemma per class that its filters are
honest, and one for each way of nesting that it makes honest filters of honest
ones. The texts of lists are made by folds. `JoinSteps` says that a fold takes
one step for each text, `JoinTokens` that a joined text has every operand of its
parts with their operators and no other: enough where one operator joins
(`JoinedTexts`), and `PairsJoined` says it token by token for lists of versions,
where two alternate. `SortedIs` is the lemma that sorting sorts, and `OneRange`
that versions which do not repeat and are as many as their range has are that
range: the shortcut `VersionFilter` takes. Induction here is on sets
(`ByInduction`, from the well-foundedness of the natural numbers), since the
provers cannot take the library's induction theorems, which have an operator as
a parameter.

In `SigningProofs`: `TypeCorrect`; `SignaturesMatch` - `SignedAsStored`, with an
invariant on the rows a run carries and on what a check has read;
`ImmutableImplementations` - `ServedIsHashed`; `NoneExpires` - `ServedVerifies`:
a signature is never older than the age, the time since the last run and the
days the run itself has not seen, which is what the keys' overlap covers.

In `ExtensionsProofs`: `TypeCorrect`; `RowsDescribeFiles` - `DescribesFile`, with
an invariant on the files that requests have put and names they found free;
`UsedExtensionsKept` - `UsedKept`: a request past its look carries an extension
that is unused or that it is `late` for.

In `AddonUrlsProofs`: `TypeCorrect`; `UsersSwitch` - `OnlyUsersSwitch`, since what a
run or the migration has read of a revision still to save is what users decided,
unless overtaken; `SignedOrTorn` - `SignedUnlessTorn`, and `UsersApprove` -
`OnlyUsersApprove`, with the invariant `RowFollows`: the row a run holds is as it
was, and what it will be written back with is signed, unless somebody wrote it.

Model-checked only: the liveness properties (`SyncConverges`,
`OnlyResidueBlocks`, `OutageEnds`, `UrlsMove`), which are beyond the prover
(fairness needs `ENABLED`). Of filters that join mixed operators, repeat a version or
quote a boolean, no theorem says more than what they ask for: they break their
promise, as described above.

## What was done, and what is left

Done, in order: `Recipes`, `RemoteSettings`; `PeerApproval` and its refinement;
`RequestRaces`; `Filters`, `Targeting`; `Signing`; `Extensions`; `AddonUrls`.

Proved, in order: `Recipes`, `RemoteSettings` and the refinement; then each of the
others with its model; last `LoneRecipesProofs`, and what filters render to.

Left: that a handler of `RemoteSettings` whose calls nobody interrupts does to
the buckets what `Recipes` says in one step; the authentication cache, if more
than its age comes to matter; the checks of configuration.

**Not modelled, and to stay so**: the read API apart from the implementations it
serves (no state); PEM, DER and signature arithmetic (bytes); JSON schemas and
branch slugs (one revision alone); authentication (a cached call of the
identity provider); geolocation, capabilities, health and settings (look-ups);
static files (names and headers, at build time); client actions (they run in
Firefox against an API that is not in the repository).
