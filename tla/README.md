# Envoy Standalone Gateway: TLA+ models and proofs

This directory specifies the management plane of the Envoy Standalone Gateway
(`esgw`) and its console: TLA+ modules translated from the Go source under
`internal/` and the TypeScript under `web/src/`, TLC configurations that check
them on small instances, and TLAPS proofs, for instances of any size, of the
publish path, static delivery, session handling and the console.

`PROJECT.json` is the index: components, runs, the map from each definition to
the source lines it models, the faulty variants that show each property can
fail, findings, hazards and theorems.

## 1. The system

`esgw` is one Go process. It keeps a *draft* (YAML files), compiles it to an
Envoy configuration (the *IR*, identified by its content hash), delivers it
either over xDS or as a static bootstrap file, and watches Envoy through its
admin endpoint to confirm that the configuration took effect. The console is a
React application that esgw serves; it holds no state but a query cache and
talks to the management API with a session cookie.

| Component | State | Operations | Talks to |
|---|---|---|---|
| M-CONF draft (`conf/draft.go`, `crud.go`, `replace.go`) | `config.d/*` or `native.yaml`, `versions/<seq>/config` | load and hash, write or delete one document, replace the whole set, snapshot | compiler, API |
| M-CONF publisher (`conf/publish.go`, `rollback.go`) | `Publisher.mu`; the locals of the call in progress | PublishWithBase, RollbackPublish, handleConfirmEvent, Recheck | draft, compiler, store, deliverer, M-STATE |
| M-STORE (`store/*.go`) | SQLite tables `versions`, `publish_runs`, users, sessions, certificates | row updates; the transaction TransitionPublish; the partial unique index `one_active_publish` | everyone |
| M-STATE (`state/*.go`) | current observation, expectation and its deadline, subscriber channels, single-flight table, series | ExpectVersion, poll and confirm loops, refresh, ObserveProcess | Envoy admin, publisher, M-PROC |
| M-DELIVER xDS (`deliver/xds`) | snapshot cache, status, event channels | Apply, stream callbacks | Envoy |
| M-DELIVER static (`deliver/static`) | the file, status | Apply: write, hot restart, restore | M-PROC |
| M-PROC (`proc/*.go`) | current process, status, `proc.json`, backoff window; one goroutine per process | Start (adopt or spawn), monitor, HotRestart, Close | Envoy processes, M-STATE |
| M-COMPILE, protocol (`compile`, `protocol`) | none | load, link, validate, materialize, patch, build | draft |
| Auth (`auth`, `store/auth.go`) | users, sessions, failure counters | bootstrap, login, authenticate with rotation, change password | store, API |
| Certificate store (`certstore`) | certificate files, index rows | create, delete, reference check | store, draft |
| M-API (`api`) | `ConfigAPI.mu` | handlers | everything above |
| API contract (`web/src/api/generated.ts`, `client.ts`) | none | method, declared header and statuses of every operation; the CSRF header of the client | console, M-API |
| Console session (`auth-boundary.tsx`, `auth-page.tsx`, `app-shell.tsx`, `main.tsx`) | query cache, route, form | boot, sign in and out, navigate, retry, poll, reload, reconnect | M-API |
| Console configuration page (`configuration-page.tsx`) | chosen file, editor text, validation, dialog; two queries, three mutations | load, edit, save, validate, publish | M-API |
| Other console pages | a query or two each | load, retry, poll; certificate upload and deletion | M-API |
| M-CORE (`core/app.go`) | life of the process | NewApp, Run, Close | everything above |

What is hard in it, and what makes each part correct:

* **Publishing** is a sequence of about ten separate writes to two tables, a
  directory and a deliverer, without a transaction around them. The request's
  context can be cancelled between any two of them and the process can die. The
  two tables must never contradict each other, at most one run may be active,
  at most one version effective, and every visible version must have its
  source.
* **Confirmation** is asynchronous: a dump read earlier is compared with an
  expectation set later; a verdict carries only an IR hash and goes through a
  bounded channel. It must reach the run it is about, and some verdict must
  come.
* **Edits** take another mutex than publishes and interleave with every step.
* **Restarts of esgw** keep the database, the files and Envoy, and lose
  everything else.
* **The supervisor** runs Start, a monitor per process and HotRestart as
  separate goroutines that share `current`, the status and `proc.json`; static
  delivery rewrites the file that all of them start Envoy from. No failure of
  a publish may take the data plane down.
* **Sessions** are looked up and renewed in separate statements, so that
  requests with one cookie race with each other, with logout and with a
  password change. A renewal must not fork a session, revive a revoked one or
  carry it past its absolute limit.
* **The console** keeps copies: answers come in any order, are retried, polled,
  cancelled by later ones and lost. What it shows must belong together, what
  it saves must not undo what others saved, and every wait must end.

The hazards are listed one by one, with their lines, in `PROJECT.json`.

## 2. Modules

```
Outputs ── Store ──────┐
     └── StateService ─┴── Publish ── PublishProps ── MCPublish      (TLC)
                                        │   │   └──── PublishProofs ── SourceProofs  (TLAPS)
                            ReleaseLedger ──┘ (INSTANCE, refinement)

Supervisor ── StaticDelivery ──┬── MCSupervisor                      (TLC)
                               └── StaticProofs                      (TLAPS)

ApiContract ── Auth ──┬── MCAuth                                     (TLC)
                      ├── AuthProofs                                 (TLAPS)
   QueryCache ──┬─────┴── ConsoleSession ─┬─ MCConsoleSession        (TLC)
                │                         └─ SessionProofs           (TLAPS)
                ├── ConsoleConfig ─┬─ MCConsoleConfig                (TLC)
                │                  └─ ConfigProofs                   (TLAPS)
                └── QueryCacheProofs                                 (TLAPS)
```

`SessionProofs` also extends `AuthProofs`, and both proof modules of the console
extend `QueryCacheProofs`.

### Outputs, Store
`Outputs` introduces the set of compiled outputs: an output *is* its `IR.Version`.
`Store` has the rows of `publish_runs` (`runState`, `runSeq`) and `versions`
(`verState`, `verIR`, `verRollback`) as functions of the row number and one
operator per statement: CreatePublishRun with the unique index,
UpdatePublishRun, NextVersionSeq (a RESERVED row), InsertVersion (an upsert)
and TransitionPublish, one transaction that checks the states it finds, moves
run and version and supersedes the effective version.

### StateService
The expectation, whether its deadline has passed, the dump a refresh has read
(`ReadDump`, without the mutex) and the verdict made from it later
(`FinishRefresh`, under the mutex), and the bounded channel to the publisher.
Of a dump, only the set of distinct non-empty `version_info` values is
compared, as in the code.

### Publish
The composition. `pc` and `pub` are the step and the locals of the call that
holds `Publisher.mu`; every database write, the two reads of LoadDraft, the
snapshot and the delivery are a step each, so edits, verdicts, a cancelled
context and a crash can come between any two. `Outcome(ok)` says when a call
that uses the request's context fails: always once the context is done,
otherwise only on one of `MaxFaults` faults. A failing step goes where the code
goes: to failRun (`FailRun`, `WriteFailure`, whose own error is ignored), or it
just returns. Contents of the draft are abstract; `Loadable`, `Mixed` and
`CompileOf` say which load, which are a forbidden mix of native and structured
files, and what they compile to. `Start` delivers the draft, as NewApp does.
Envoy is external: it takes one resource type at a time, may refuse it, may
restart, and its admin endpoint may stop answering.

### ReleaseLedger
The abstract specification: attempts with a phase and the set of live ones;
Submit, Recheck, Fail, TimeOut and Confirm. `PublishProps` instantiates it with
the runs as attempts, the phase computed from the run's state and the runs
whose version is effective as the live ones.

### Supervisor and StaticDelivery
`Supervisor` gives each goroutine its own program counter: `Starter` (0), the
monitor of each process (by the process's number) and `Applier` (the caller of
HotRestart). `spawnAndWait` is Spawn, SaveStarting, WaitOk or WaitFails, and
Ready, for Start and for monitors alike. HotRestart is HotEnter, ReadEpoch,
TakeEpoch, HotSpawn, HotWaitOk or HotWaitFails, and HotCommit; what it read of
`proc.json` stays in `copy` and is written back later, as in the code. Start's
own copy is written back after the status is already running (`AdoptSave`).
`Save` may fail before or after its rename. An observation is two admin
requests: during the hand-over of the admin endpoint the readiness can be the
parent's and the epoch the child's (`Observable`).
`StaticDelivery` adds Apply (write, hot restart, Restore or Applied), the
failure of the write, and the life of esgw: Boot writes the file before the
supervisor starts, and Close can come at any step and signals no Envoy.
`accepted`, which no code has, records that an Envoy was seen LIVE and that no
explicit `restart` policy has stopped it since. `FileIsLastGood` is about the
file only: `Apply` writes it before HotRestart decides, and an Envoy that Start
or a monitor starts before the refused file is taken back goes on running it
while the status names the older version. The model shows this; no property
forbids it.

### ApiContract and Auth
`ApiContract` is the contract the console is compiled against
(`generated.ts`): for each operation its method, whether it declares the
`X-ESGW-Request` header, and its statuses. Its assumption, which TLC evaluates,
says that every operation has one method and that the three statements of the
header rule (the contract, the middleware of `client.ts`, the first test of
`secureOperation`) agree. The declared statuses are recorded, but no property
compares the answers with them: the two disagree. `login` answers 400 to a body
that does not decode (`auth_handlers.go:72`), every operation with the header 403
without it, any operation 500 on an error of the store, and reads such as
`getConfigDraft` 401 without a session; the contract declares none of these.
`Auth` has the users and sessions tables, a cookie jar per client and one slot
`req[c][op]` per client and operation. A request goes through
`SecureOperation` (with `Authenticate`), then `Rotate` or `Touch`, then its
handler: `CreateAuthBootstrap`, `CreateUser`, `Login`, `IssueSession`,
`Logout`, `ChangePassword`, `UpdatePassword`. Each is one database statement, so
that other requests come in between: two bootstraps can both count no users
before either inserts one. With one name the unique index decides between them;
with two names both accounts are created, although `service.go:134` speaks of
the only administrator. A handler uses the cookie the request came with, also when
`Rotate` has just replaced it, as the code does. `Deliver` stores the cookie of
the answer. A connection can break at any step, esgw can restart, a client can
go away. Passwords are right or wrong; the limiter answers 429 at will; tokens
are drawn from those nobody holds.

### QueryCache
External: what the console uses of TanStack Query. An entry has a status, data,
whether a fetch runs and how many attempts of it failed; `Fetch`, `Resolve`,
`Reject` (which retries up to the configured number) and `SetQueryData`.

### ConsoleSession
One browser tab as a client of `Auth`: `Screen` is what AuthBoundary renders
from its two queries; pages keep queries mounted, which fetch, retry, poll and
are refetched; `Submit` and `SignInAnswered` are AuthPage, `SignOut` and
`SignOutAnswered` AppShell. What React and the query client do in one turn of
the event loop (mounting, the first attempt of a fetch) happens before the next
event (`Effects`, `Settled`).

### ConsoleConfig
The configuration page against a draft that other clients and an operator at
the file system change too. The two queries, the choice of the active file, the
effect that resets the editor text, the three mutations with what their
`onSuccess` awaits (the invalidated queries, which may be refetched, cancelled
and restarted), the publish dialog, leaving the page with mutations under way
and coming back. A draft's resource version is a hash of it, so here the draft
itself. On the server nothing but a save holds `ConfigAPI.mu`, so every read of
the files is a step:

* `getDraft` hashes the files (`HashDraft`) and reads them again for their
  contents (`ReadFiles`), so the version and the contents of one answer can
  belong to different drafts, and a file that has gone is an error;
* a save checks the version (`CheckReplace`), moves `config.d` away
  (`MoveAway`) and installs the new one (`Install`). `LoadDraft` creates
  `config.d` when it is absent (`CreateConfigDir`); a read that does so between
  the two renames makes the second one fail, and the one that should restore
  the old files too;
* a publish precompiles (`PrecheckPublish`), hashes and compares with the
  version asked for (`LoadHash`, `BaseMatches`), and compiles a second read
  (`LoadContent`). `slipped` remembers a write between these two, `raced` an
  edit on disk between the check and the commit of a save; no code has them.

Definitions named "Faulty variant" are not part of any specification. Each one
is a plausible bug in the definition that follows it, and shows that some
property would notice it.

## 3. Runs

| Run | Result | What it shows |
|---|---|---|
| `publish_safety` | pass | Ledgers agree, one active run, one effective version, sources exist, verdicts reach their run and are never dropped, finished is final, a rollback publishes exactly the source it restores, no published version is rewritten, and the whole implements `ReleaseLedger`: with crashes, cancelled clients, a fault, rechecks, edits and whole-set replacements |
| `publish_liveness` | pass | Every CONFIRMING run is decided |
| `supervisor` | pass | No interleaving of Start, monitors, HotRestart, restarts of esgw and failing operations leaves the machine without Envoy, loses sight of a started process, or leaves `proc.json` or the file untrue |
| `auth` | pass | With two clients, two requests under way, broken connections and restarts: a sign-in has at most one token, a revoked one stays revoked, none outlives its absolute limit, and of bootstraps that race to create one account only one is signed in |
| `console_session` | pass | The shell is shown only after a sign-in, and booting, submitting and the loading of a page end whatever fails |
| `console_config` | pass | A save replaces only the draft whose version its page had read, a publish delivers the draft whose version the page had read unless a write falls between the two reads of that publish, the editor's text stays in its file, and loading and saving end |
| `stuck_active` | violation | A client that disconnects leaves a run active for ever; the design gives VALIDATED runs a time to live |
| `snapshot_race` | violation | An edit between LoadDraft and Snapshot stores a source that is not the one delivered |
| `nack_confirmed` | violation | An Envoy that took the clusters and refused the listeners confirms the version |
| `lost_envoy` | violation | An Envoy that exits while a hot restart is failing is never replaced, and the status stays running |
| `draft_lost` | violation | A read between the two renames of a save makes the save fail and loses the draft, although ReplaceDraft says it restores it |
| `return_to_login` | violation | After a page's request is answered 401 the console keeps showing the shell: only the session query leads to the login page, and it is not asked again |

Bounds, and why they are enough:

* Two runs and two version numbers: every cross-talk between publishes is
  between a run and the one before it (a verdict for the older, a recheck of
  the older, supersession of the older version), and a third brings no new
  relation; the proofs lift this bound for all invariants of `publish_safety`.
  A call that could need a third run does not start (`RunAvailable`).
* Two or three contents: the same as before, different, and one that does not
  compile. One resource type, two where a part is refused.
* One fault: the code has no retry, so two faults in one call do not reach a
  new handler; a cancelled context makes every later call fail.
* Three Envoy processes: a parent, a child and a monitor's fresh start at the
  same time. Two starts of esgw: adoption needs an earlier one. Two crashes
  with `GiveUp = 2`: the restart and the giving up. The run has no fairness and
  `CHECK_DEADLOCK FALSE`, since with the bound on starts used up and esgw
  stopped nothing more happens.
* `auth`: two clients with two requests under way between them, over all pairs
  of auth operations: every race in this code is between two requests on one
  row or one name. Two sign-ins, three tokens (two live ones and a rotation), two ticks with
  `IdleTTL = AbsoluteTTL = 2`: rotation at half of the idle time, expiry, and
  both limits meeting. One fault. The theorems of section 4 lift all of these
  for every property of the run.
* `console_session`: one tab, one sign-in and one tick, after which the session
  is expired; with `IdleTTL = 1` there is no rotation, which `auth` covers. Two
  pages, one polled. A link is followed when nothing is under way and the
  entries of a page left are collected before one comes back; a reconnect
  finds no request under way. These bound the number of cached entries and
  requests, not the orders of answers of the pages shown. `MaxInFlight` is
  used by `AuthNext` only. `MaxFaults = 2`, of which a sign-in takes one
  (`FaultLeft`): a signed-in console meets one fault at any point, and before
  that two, with which the bootstrap query uses up its retry and the offline
  screen is reached. `LoadingEnds` is checked for pages with at most one polled
  query. On the runtime page five queries are polled, and one that failed
  without data is pending again at each poll; while they all fail, they need
  never be settled at the same moment.
* `console_config`: two files and three texts, one of which does not load and one
  that does not compile; `MaxEvents = 4` counts visits, mutations started, changes by
  others and lost answers. A lost update needs three of them (a visit, a save, a
  change by somebody else), a publish of a draft that changed meanwhile four (a
  visit, a validation, a publish, the change). The operator's clicks and keys
  are not counted. Both exceptions (`raced`, `slipped`) occur within the bound:
  without `slipped` the run reports a violation of `PublishMatchesBase`.
* The theorems of section 4 lift the bounds of `console_session` and
  `console_config` for every property of those runs that is not a liveness
  property.
* The three client runs have `CHECK_DEADLOCK FALSE`: with the bounds used up and
  every answer received, nobody need act.

Fairness (`publish_liveness`, `stuck_active`, `lost_envoy`): weak fairness of
the steps of a goroutine that is running, which Go's scheduler and the timers
of the poll loops provide, and strong fairness of two steps that wait for
something that comes and goes: the verdict handler for `Publisher.mu` (a Go
mutex does not starve a waiter) and the poll, repeated for ever, for an answer
of the admin endpoint. No fairness is assumed of clients, operators, edits,
crashes, faults or of Envoy taking a configuration. `publish_liveness` also
assumes that the admin endpoint recovers from every outage and that a refresh
begun completes: the timeout is looked at only after a successful refresh
(`state.go:382`), so during a permanent outage a CONFIRMING run is never
decided and blocks later publishes. That is a property of the code, not of the
bounds.

In `console_session` and `return_to_login` the browser's effects, and for each
operation the steps of its request (sending, the server's steps, receiving),
are weakly fair; in `console_config` likewise, for each query and each mutation,
the steps of the server and of the browser that follow each other. The browser's event loop and the server's
goroutine per request justify it. No user, script, operator, clock or fault is
obliged to act.

Timing: `ParentExits` assumes that a child does not order its parent to exit
while HotRestart still waits for that child. The configuration enforces
`liveTimeout` far below `--parent-shutdown-time-s`. `DataPlaneSurvives` rests on
this. It counts a draining parent as a surviving Envoy: a child that became
live and is killed because its record could not be saved leaves only that.

## 4. Proofs

`PublishProofs` proves, for every number of runs, versions, contents, outputs,
resource types and faults and every value of the switches (under
`StoreAssumption`, `StateAssumption`, `PublishAssumption` and the one on outputs,
all evaluated by TLC on every run):

* `TypeCorrect`, `ActiveIsUnique`, `EffectiveIsUnique`, `LedgersConsistent`,
  `SourcesExist`, `VerdictsReachTheirRun`, `VerdictsAreNotDropped`: the
  invariants of `publish_safety`;
* `FinishedStaysFinished`: the action property `TerminalIsFinal`;
* `Refinement`: `Spec => ImplementsLedger`.

None of the invariants is inductive by itself. The invariant proved
(`Invariance`) is `Inv == TypeOK /\ Tables /\ Stage /\ Verdicts`:

* `Tables` adds to the stated properties what each state of a run says of its
  version and conversely, and that two runs never share a version. Runs left
  behind by a cancelled context or a crash may be PUBLISHING with a version at
  four different points, which `RunOK` allows;
* `Stage` says, for each step of the call that holds the mutex, what its run
  and version look like. Without it a step could write over a version that
  another run has finished;
* `Verdicts` says that whatever M-STATE waits for, or has sent, is about the
  run that is CONFIRMING. It needs `OneActiveRun`, and `OneActiveRun` is kept
  by Recheck only because TransitionPublish is subject to the unique index.

There is one lemma per action, on top of frame lemmas and of three about
groups of writes: `UpdateRunTables`, `InsertTables` and `TransitionTables`. The
action property and the refinement come from `StepEffect`: every step changes
the tables in one of a few ways, each of which is an abstract step or a
stutter.

`SourceProofs` adds, on top of that invariant:

* `VersionsStay`: the action property `VersionsImmutable`. It needs `Recorded`:
  a version that was only reserved names no output, and a row that will be
  upserted again names the output the call has compiled;
* `RollbacksReproduce`: `RollbackReproduces`, under the hypothesis
  `"external" \notin Edits`. Edits through the API wait for the mutex a rollback
  holds; edits of the files behind it do not, and with them the property is
  false. The strengthenings are `Restoring` (what draft and snapshot hold at
  each step of a rollback) and `Restored` (rows that name the version they
  restore hold its source).

`StaticProofs` proves, for any number of processes, versions, faults, crashes
and starts of esgw, under `SupervisorAssumption` and `DeliveryAssumption`, all
the invariants of `supervisor`:

* `StaticTypeCorrect`, `ExitsStayWatched`, `RecordStaysTrue` and
  `FileStaysGood`, from `Inv == TypeOK /\ SupInv /\ Delivery`
  (`StaticInvariance`). `Records` says that the record, the copies of it that
  Start and HotRestart hold and the targets goroutines wait for are about
  processes that were started, with the epoch they have: a stale copy may be
  written back, but never a false one. `Booting` says that before Start has
  adopted a process no monitor runs and nothing is current, which
  `ExitsAreWatched` needs when AdoptOk reports an adopted process as running.
  `Delivery` says what the file holds while Apply runs;
* `DataPlaneStaysUp`: `DataPlaneSurvives`. That some process is alive is not
  inductive: it could be one a failing restart is about to stop. `Carried`
  says that a process carries traffic which no goroutine would stop
  (`Doomed`). It is kept when a drained process exits because its child has a
  larger epoch, while those Start and monitors may stop have epoch zero, and
  the child of a HotRestart does not end its parent while it is waited for.
  `Alone` and `Accepting` say that monitors and hot restarts begin only after
  a process was seen.

`AuthProofs` proves, for any clients, names, tokens, operations and lifetimes and
any number of requests, sign-ins, ticks and faults, under `LifetimeAssumption`
and `OpsAssumption` (the auth operations are among those sent, the others are
reads of the contract), every property of `auth`:

* `AuthTypeCorrect`, `OneTokenPerLoginHolds` and `OneBootstrapIsSignedIn`, its
  invariants;
* `RevokedStaysRevokedHolds` and `AbsoluteLimitIsKept`, its two action
  properties.

All of them are proved first of `ClientSpec`: the server with any clients, which
send what and when they like, without a bound on requests under way.
`BoundedClients` says that `AuthSpec` implements it, and `SessionProofs` that
the console does.

The inductive invariant is `AuthInv == AuthTypeOK /\ Reqs /\ Rows /\
OneTokenPerLogin`. `Rows` says that a row's sign-in has happened, so that the
number of a new one is unused, and that its absolute limit is the one set when
it was created. `Reqs` says what a request holds at each step: a token that was
looked up, the name it signs in with. It does *not* say that the row is still
there. The argument is that every step has one of three effects on the table
(`TableEffect`): rows disappear, one row moves from a token that has one to a
token that has none, or a new row is issued (`TableStep`). `AbsoluteLimitIsKept`
also needs that nothing but the lookup lets a request on
(`OnlyLookupAdmits`).

`OneBootstrapWins` is proved from `AuthInv` together with `Founders`: the name of
a bootstrap that has created its account and waits for its session is in the
users table. Nothing but a successful insert brings a bootstrap there
(`OnlyCreateUserFounds`), accounts are not removed (`UsersGrow`), so the insert
of a second bootstrap with that name fails.

`QueryCacheProofs` has no theorem of its own, but the lemmas the console proofs
share: what `Fetch`, `Resolve`, `Reject`, `SetQueryData` and a cancelled fetch
keep of an entry, for any set of data.

`SessionProofs` proves, for any pages, operations, lifetimes and number of
requests and faults, under `ConsoleAssumption`, `OpsAssumption` and
`LifetimeAssumption`:

* `ConsoleIsClient`: `ConsoleSession!Spec` implements `ClientSpec`. Its steps are
  those of a client (send an operation, receive an answer, drop everything on
  a reload), of the server, or touch neither;
* `ConsoleKeepsAuth`: by that, everything proved of `Auth` holds of console and
  server together;
* `ConsoleTypeCorrect` and `ShellIsEarned`, the invariants of
  `console_session`.

`ShellNeedsSession` is not inductive: it says nothing of an answer that is on its
way. `ConsoleInv == AuthInv /\ ConsoleTypeOK /\ NoneEarned /\ NotSignedIn` adds
that, before the first sign-in, no request has passed the session lookup or
been answered 2xx unless it may be answered so without a session
(`NoneEarned`), and that the session query has not succeeded (`NotSignedIn`).
Only an answer to the session query or to a sign-in makes it succeed.

`ConfigProofs` proves, for any number of files, texts and events, under
`ConfigAssumption`, every property of `console_config` but the two about
liveness:

* `ConfigTypeCorrect`, `TextStays` and `DialogIsSaved`, its invariants;
* `NoUpdateIsLost` and `PublishHasItsBase`, its action properties.

The inductive invariant (`ConfigInvariance`) is `ConfigInv == ServerOK /\
CacheOK /\ JobsOK /\ PageOK /\ EditorOK /\ SavesOK /\ PublishesOK`. The first four are types,
made precise where later steps rely on them (an answered request holds a
draft, a save not yet answered carries one). `EditorOK` is what
`TextStaysInItsFile` and `DialogShowsSaved` need together: those speak of a page
that shows its editor, and a refetch can hide the editor and bring it back. It
is kept because every step either leaves the file shown, its saved content and
the text alone (`KeepsView`), or loads the text from the file (`LoadsView`),
which is what the effect with its dependencies on both does (`RenderOK`).
`SavesOK` says that a save which passed its check still finds the draft it
expects unless an edit on disk came in, which holds only because no two saves
are between check and commit: `ConfigAPI.mu`. `PublishesOK` says that a publish
between its two reads still finds the draft it expects unless a write came in.
No mutex excludes that write, which is why `PublishMatchesBase` has the
exception; what is proved is that this window is the only one, whatever
happened between the page's read and the hash. The first file of a draft is the
least of a non-empty set of numbers (`FirstPath`, by well-foundedness of the
naturals).

Only model-checked: the liveness properties `ConfirmationResolves`,
`BootSettles`, `SubmitSettles`, `LoadingEnds`, `PageLoads` and `SaveSettles`,
and what the six runs that expect a violation show. Liveness under fairness is
outside what the prover handles. Every invariant and action property of the
passing runs is a theorem.

## 5. Not modelled

* Torn reads of a file being written: every writer renames. In `ConsoleConfig`
  the files of one pass over the directory are read at one moment; the hash and
  the contents are two.
* In `ConsoleConfig`, the replacement by another client is one step, as are
  edits of single objects; a disk that refuses a rename for another reason than
  an existing `config.d`. In `Publish` the install of a replacement succeeds:
  the lost draft of `draft_lost` is in `ConsoleConfig` only.
* Errors of the store in the auth service, which answer 500.
* `Publisher.Publish` and `Publisher.Confirm`, which only tests call.
* I/O failures inside RollbackSource and ReplaceDraft, the copying fallback of
  a rename across file systems, and the draft watcher (not wired).
* The single-flight and per-path backoff of admin requests, statistics,
  series and the parsers of other admin pages.
* A failure of SetSnapshot after the cache was updated, delivery events and
  their bounded channels.
* The length of backoff delays, discovery of the Envoy binary, the launcher
  process, supervisor events; static delivery without a managed Envoy;
  rendering.
* The compiler and the protocol loader (one constant function here; in
  `ConsoleConfig`, which drafts load and compile), API decoding, the command
  line and the Go code generated from the contract.
* The counting of the login limiter (429 comes at will) and the hashing of
  passwords and tokens.
* The certificate store and its handlers, and upload and deletion on the
  certificates page; the mode switch of the expert page; text, layout and
  presentational components; the bundles in `internal/console/ui`, which are
  built from `web/src`.

## 6. Plan

1. `Draft`: commitDraftStage's moves, backup, install and their undo, crashes
   between them, optimistic hashes; abstract specification: a replacement
   happens entirely or not at all. To be composed into `Publish` and
   `ConsoleConfig` in the place of their two-step replacement.
2. `XdsDeliver`: cache, status, NACK attribution, event channels; composed
   with Envoy's subscription.
3. `CertStore`: files and index, crashes, reference check against edits of the
   draft, with the certificates page as its client.
4. `Compile` and `Protocol` as pure operators: reference resolution, duplicate
   names, default filling, patch order, name allocation; checked against a
   declarative definition over bounded inputs.
5. `Service.get`: single-flight with cancelled leaders, and the lock held
   during `/certs`.
6. Proofs: the atomicity of `Draft` as a refinement, and the safety properties
   of the modules above.

## 7. Running

```
tlc -config publish_safety.cfg MCPublish      # likewise publish_liveness, stuck_active,
                                              # snapshot_race, nack_confirmed
tlc -config supervisor.cfg MCSupervisor       # likewise lost_envoy
tlc -config auth.cfg MCAuth
tlc -config console_session.cfg MCConsoleSession   # likewise return_to_login
tlc -config console_config.cfg MCConsoleConfig     # likewise draft_lost
tlapm PublishProofs.tla                       # likewise SourceProofs, StaticProofs
tlapm AuthProofs.tla                          # likewise QueryCacheProofs, SessionProofs,
                                              # ConfigProofs
```
