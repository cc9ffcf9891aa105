# qivitals in TLA+

qivitals is a heartbeat monitor: sensors are registered with a server, scripts
report for them, and the server shows each in a state that follows from how
long ago it last reported and from condition rules over what it reported. This
directory holds a TLA+ model of the server and of its clients (the web pages,
the commands that edit sensors and the one that reports for them), the TLC
configurations that check it and proofs that TLAPS checks.
All source paths are relative to the root of the repository.

    tlc -workers 2 -config service_memory.cfg MCQiVitalsService
    tlapm QiVitalsServiceProofs.tla

## The system

| Part | Source | State it keeps | Operations | Modules |
|---|---|---|---|---|
| Sensor service | `internal/server/qivitals_svc.go`, `qivitals_patching.go` | none of its own | RegisterSensor, ReportSensor, PatchSensor, DeleteSensor, QuerySensors | QiVitalsService, SensorQuery |
| Authorisation middleware | `internal/server/qivitals_authz.go` | none | one step before each of these | QiVitalsService, SensorQuery |
| Store contract | `internal/storage/storage.go` | sensors by identifier | Register, Patch, SendData, GetStatus, Query, Delete, GetIdentity, FindIdentity | SensorRegistry |
| In-memory store | `internal/storage/memory_storage.go` | a map of pointers under one RWMutex | the same | QiVitalsService, SensorQuery |
| PostgreSQL store | `internal/storage/postgresql_storage.go` | one table | the same, a statement each | QiVitalsService, SensorQuery |
| Snapshot store | `internal/storage/snapshot_storage.go`, `internal/server/app.go` | the in-memory store, a file, a temporary file | load, save every so often | SnapshotStorage |
| Sensor health | `qivitals_svc.go` (from line 226) | nothing is stored | the state of a sensor, computed for each reply | SensorHealth |
| Condition evaluator | `internal/server/condition_evaluator.go` | two caches under one RWMutex | evaluate a rule | ConditionEvaluator (caches), SensorHealth (meaning) |
| Magic links | `internal/server/magiclink_svc.go`, `internal/auth/magiclink.go`, `authn.go`, `internal/web/handlers/auth.go` | links that were not used yet | request a link, verify it | MagicLinks |
| Session tokens | `internal/auth/authn.go`, `interceptor.go`, `internal/web/handlers/auth.go`, `dashboard.go` | the map from addresses to users; cookies in browsers | sign in, sign out, authenticate a call, render a page's header | Sessions |
| Update command | `cmd/qivitals-cli/cmd/update.go` | none | read, translate flags, patch | RulePatches, SensorForm |
| Report command and its readers | `cmd/qivitals-cli/cmd/report.go`, `pkg/sensors` | none | collect, send | SensorReports |
| Sensor form | `internal/web/handlers/sensor.go` | the page in a browser | show, post | SensorForm |
| Dashboard | `internal/web/handlers/dashboard.go`, `internal/web/templates` | the page in a browser | ask, render, refresh, send again | Dashboard |
| Server process | `internal/server/app.go`, `cmd/qivitals-server/cmd/serve.go` | the certificate it trusts and the one it serves | start, serve, shut down | Server |
| Key files | `generate_certs.go`, `generate_keys.go`, `internal/auth/keygen.go` | pairs of files | generate | Server |
| Register, query, status and delete commands, email, logging, configuration files, database pool | see below | none, or read once | | not modelled |

A call comes in by gRPC or through the HTTP gateway, is authenticated, passes
the middleware, which resolves the sensor's identity with a store call of its
own, and reaches the handler, which makes further store calls: a patch reads
the sensor, applies the JSON patch to what it read, calls the store's Patch with
the version the client sent, and reads the sensor again for its reply. Nothing
holds a lock or a transaction across these calls. Each reply is computed from
the sensor, the clock and the condition rules, whose compiled expressions and
parsed templates all goroutines share. The web UI and the command line are
clients of the same five calls: the web UI in the server's own process, through
a TLS connection to its own port, with the visitor's session token passed on.

What is hard here:

- **Interleaving of calls.** Several store calls make one operation. Optimistic
  versions have to make up for the missing transaction.
- **Interleaving inside the in-memory store.** GetStatus and Query return the
  pointers of the map. Handlers and the snapshot loop read the fields of a
  sensor one by one without the mutex while Patch writes them one by one.
- **Two stores behind one interface.** They check natural keys at different
  places, filter labels and sort differently.
- **Persistence by snapshots.** Crashes, shutdowns and failed writes may fall
  anywhere between a query, a write, a rename, and a load that registers sensors
  one by one.
- **Time.** A state follows from an age that other clocks have a part in.
- **Caches** that are filled under a lock given up and taken again, with a limit.
- **Use of a link once** by requests that race, across restarts.
- **Two readings of one thing** by one operation: a page has its token verified
  by the service and again by the handler, a start reads its certificate for
  the client and again for the listener, a command looks for two key files and
  then writes them.
- **Pages that live on** in a browser while sensors, cookies and the process
  change behind them.
- **Reports that overlap**, come late or leave out what earlier ones had.
- **Lists edited by index**, by operations that shift each other, from a list
  read earlier.

`PROJECT.json` lists each of these hazards at its line, with the properties that
would catch it going wrong.

What makes each part correct:

- *service*: no patch overwrites what its author has not seen; an answer of
  success or "not found" tells the truth about the call's effect; all calls
  together look as if each took effect at once in a registry;
- *stores*: one sensor for a natural key, a version names one content for ever;
- *queries*: exactly what was asked for, limits after the order;
- *snapshots*: the file is always whole and covers everything that was there
  when its query ran, a start follows the file, changes reach the file;
- *health*: silence shows whatever the rules say, and the worst true rule wins;
- *evaluator*: a text is compiled once, caches are bounded, nobody waits for ever;
- *magic links*: one session for a link, and no refusal without a reason;
- *sessions*: a page that names a user shows what that user may see, and fails
  only for tokens that are no longer good;
- *dashboard*: a page shows what its form says and catches up by itself;
- *reports*: trouble cannot stay hidden behind a sensor that looks alive;
- *process*: identities are not overwritten, pages reach the service, calls get
  their time in a shutdown, a signal ends it;
- *editors*: what a flag or a form says is what happens, to the sensor seen.

## Modules

Sensors have identifiers, a *natural key* (the pair of namespace and name) and
*items* (labels and condition rules, with description and periods as one
column). Versions are drawn in order, 1, 2, 3...: the code draws random UUIDs,
which never repeat, and only compares them for equality.

**SensorRegistry** is the abstract store: Register, Patch, SendData, Delete in
one step each. `PatchChecksKey` says whether Patch looks after natural keys, as
the contract wants and Postgres does, or not, as the in-memory store does.

**QiVitalsService** is the service as it runs, over either store (`Backend`).
Each client has one call at a time, whose progress is `pc[c]`; an action is one
store call (Postgres, or the map under its mutex) or one access to a field of a
live object (`ReadField`, `PatchWrite`, `PatchStamp`). Over Postgres any
statement may fail, or be done without being acknowledged (`StatementFails`); the
handler then returns, with the error of the store or, from the middleware,
`NotFound`. `heap` keeps the objects, so a deleted sensor can still be read
through a pointer that was handed out before. `Call`, `Admit...`,
`ResolveIdentity`, `RegisterSensor`, `ReportSensor`, `DeleteSensor`, `PatchLoad`
... `PatchProbe`, `GetStatus`, `ReadField`, `RespondSensor` and `RespondDeleted`
follow the handlers line by line; an early return is a `Refuse`. The JSON patch is an `Edit`: another natural key, items added and removed, items
that have to be there, and paths that are not patchable. `Registry` is the
instance of SensorRegistry that the service implements: the sensor of an
identifier is the object of the map, with the columns that a running Patch has
still to write taken as not written before `PatchStamp`. It gives the registry
the clients' own edits and specifications, so that the registry allows a patch
to have no other effect than one of those edits on the sensor of that moment.

**SensorQuery** is a query from the request to the answer: the middleware, the
filters, order and limit of either store, and the states, which the service
filters while it builds the answer. Labels are maps (or nil, which the
in-memory store tells from empty). A text searched for is two sets of names:
those it occurs in, which the in-memory store finds, and those that match it
as the pattern of an `ILIKE`, which Postgres finds. What a sensor is ordered by
is a number. Sensors stand still during a query.

**SnapshotStorage** has the loop (query, marshal field by field, compare, write,
rename) beside the store's calls, crashes, shutdowns, failed writes and failed
renames, and the loading of a file sensor by sensor. A sensor is reduced to
natural key (which stands for all that a patch can change), version and the
number of reports.

**SensorHealth** has `calculateSensorStatus` and `applyConditionOverrides` as
operators and one sensor that is reported for and patched while time passes. A
rule says for which data its expression is true and for which it fails.

**ConditionEvaluator** has each goroutine between lock and unlock: looking up
under the read lock, looking again under the write lock, compiling or parsing,
dropping an entry when the cache is full.

**MagicLinks** has the generation and mailing of links and the three steps of a
visit (parse the token, use the entry up, issue a session), time and restarts.

**Sessions** extends it with what a session token is good for. A token is kept
by a browser, as a cookie with a shorter life, or by the visitor himself, as a
header. A page is answered for the token it sent (`Authenticate`) and has it
verified once more for its header (`Render`); between the two, time passes and
the visitor signs in or out elsewhere. A restart loses the pages under way and
may bring another key, other users or another order of the Go map that gives an
address to a user (`owner`).

**RulePatches** has the update command's translation of flags into operations,
their application one by one as the JSON patch library does (external), and a
patch by somebody else in between.

**SensorForm** has pages of the web UI and runs of the update command as clients
of SensorRegistry, which it extends: what each saw, what it sends, and with
which version. Either store may run (`memory`). What an editor sees is a row of
Postgres (`Look`), or is read from the live object field by field, the natural
key first and the specification last (`LookOn`), while others patch the sensor,
delete it or register it again.

**SensorReports** is the way of a report from the thing observed to the state
shown: runs of the report command collect (`Collect`), send and merge
(`SendData`), and may overlap, give up or fail at each point. The keys each
reader reports for what it found are operators (`ZpoolKeys`, `TlsKeys`,
`SmartKeys`); a generic report has the keys of its command line, or none at
all. A key's value is the observation it was taken from, so the merge
shows which observation a rule judges. It implements SensorHealth, which is
instantiated over it as `Health`.

**Dashboard** extends SensorQuery: a page in a browser asks with its form
(`RequestOf`), its query runs as any other (`Serve`), the answer becomes a grid
(`Render`, `RenderError`), is fetched again by htmx (`Refresh`, external) and
sent again by the visitor (`Submit`), while sensors change and the cookie goes.

**Server** has the generating commands, step by step over the four files, the
start that reads the certificate twice (`Boot`), signals, calls of the command
line and of pages, the shutdown with its five seconds, and kills. What the
libraries do (a pair that does not match does not load, `Shutdown` waits,
`GracefulStop` returns or ends the process) is external. A listener that fails
while it serves ends the process as a kill does (`log.Fatalf`) and is one of
those (`KillServer`).

The `MC...` modules give the constants values for TLC. Operators whose comment
begins with "Faulty variant" are used by no specification: they are the
mistakes each property is tried against (see "mutants" in `PROJECT.json`).

## Runs

| Run | What it shows | Bounds |
|---|---|---|
| service_memory | over the in-memory store: no lost update (`DocumentCurrent`), every call is answered (`CallsAnswered`), the service implements the registry (`ImplementsRegistry`); the inductive invariant `IInv` | 2 clients, 1 sensor, 2 keys, 2 items, 3 versions |
| service_postgres | over Postgres, whose statements may fail: natural keys unique (`NaturalKeysUnique`), replies no older than the call's effect (`ReadYourWrites`), views that stay true while their version is current (`ViewCurrent`), answers that tell the truth about effects (`AnswersTellEffect`); the service implements the registry | 2 clients, 2 sensors, 2 keys, 3 versions |
| editors | over either store, with a page and a command: a version names one content (`VersionNamesContent`), and the update command overwrites nothing it has not seen: no specification, and over Postgres no natural key either (`CommandsOverwriteNothing`) | 2 sensors, 2 keys, 1 item, 1 page, 1 command, 3 versions |
| dashboard | over either store, an answer without a limit is exactly what was asked for and may be seen (`AnswersExact`, of the queries that `Answered` admits), and a page of an answer is full and starts with the first by name (`PagesFirst`); a dashboard shows what its form says if that is `Ordinary` (`PageAsAsked`) and an open one catches up with sensors that change (`PageCatchesUp`) | 3 sensors of 4 kinds or none, 2 namespaces, 2 label keys (one also asked for with an empty value) and `undefined`, a text that occurs in a name and one that only matches as a pattern, 7 orders, limits 0 to 2; 1 change behind an open page |
| snapshot | the file covers everything that was there when its query ran; a start follows the file | 2 sensors, 2 keys, 3 versions, 2 stops, 1 failed write or rename |
| snapshot_live | what the store holds of a sensor (natural key, version and reports) reaches the file or is superseded | 1 sensor, 2 keys, 2 versions, 1 report, 1 stop, 1 failed write or rename |
| health | no rules hide silence; the loop over conditions shows the worst of what age and rules ask for; time alone never makes a sensor look better; a silent sensor goes red and stays so | every list of up to 2 rules that begins with the first name, 3 values for periods, ages from -1 to 3 |
| reports | a change is shown or the sensor fails of silence (`TroubleSurfaces`); rules over keys that every report carries judge what is there now (`CoreRulesCatchUp`); runs do to a sensor what SensorHealth allows (`ImplementsHealth`) | 2 runs at a time, 10 observations of 4 kinds, a heartbeat without data among them, periods 1 and 2, ages from -1 to 2 |
| evaluator | nothing compiled twice, the template cache keeps its limit, every evaluation ends | 2 goroutines, 3 expressions, 3 templates, room for 1 |
| sessions | one session for a link (`SingleUse`); refusals have one of three reasons (`RefusalsJustified`); a page that names a user shows that user's sensors (`HeadersTrue`) and fails only for keys, addresses or kept tokens that are gone (`FailuresJustified`) | 2 links, 2 visitors, one followed; links and cookies live 1, tokens 2, time to 3; 2 users, 2 configurations, 1 restart |
| rule_patches | replacements fit the list they meet (`OperationsFit`; removals that miss are tolerated), additions stay, the rest keeps its order | lists of up to 3, up to 5 flags, 1 foreign patch |
| server | an announced identity stays in both files (`IdentityKept`); pages of a server whose certificate was left alone while it started reach the service (`PagesReachTheService`); a call is cut only by a kill, a listener that fails, or after the time of a shutdown (`CallsGetTheirTime`); a signal ends the process (`SignalEnds`) | 3 generating commands, 2 starts, 1 call, 1 kill |

Type invariants are not properties of the runs: where a theorem states one it
is proved, and `IInv` of the service includes its own.

### Statements of the documentation that the code does not meet

While modelling we met some that the code does not meet. Each is a definition
of its module, most of them at its end, and not a property of the runs named
here: the runs are kept for what holds. To see the counterexample, give the
named configuration this property instead of its own, as an INVARIANT where it
is a predicate of one state.

| Definition | Configuration | What the code does |
|---|---|---|
| `QiVitalsService!ViewCurrent` | service_memory | A reply is read field by field from the live object (`memory_storage.go:145`) and may mix old content with the new version; a patch from it is accepted (`SensorForm!KeysOverwrittenAsSeen`). |
| `QiVitalsService!NaturalKeysUnique` | service_memory with `Ids = {i1, i2}`, 4 versions, `Calls <- ClashCalls` | In memory, Patch does not look for the natural keys that Register refuses (`memory_storage.go:37`, `:83`), against `storage.go:65` and `:88`. |
| `QiVitalsService!MissingMeansMissing` | service_postgres | The middleware takes every error of the store for "not found" (`qivitals_authz.go:65`). |
| `SnapshotStorage!RestoreLosesNoSensor` | snapshot | Two sensors of the file with one natural key come back as one (`snapshot_storage.go:119` drops the error). The file gets them from a rename, or from reading two sensors at different moments. |
| `SnapshotStorage!RestoreKeepsReports` | snapshot_live | What was reported, and when, is in the file and is not read back. |
| `SnapshotStorage!SnapshotsWereLive` | snapshot | The file may hold a content that no sensor ever had. |
| `SnapshotStorage!ShutdownSaves` | snapshot | The server never calls `Close`, so a graceful shutdown does not save. |
| `SensorHealth!TrueRulesCount` | health | Of two rules with one name, the target of the second never counts (`qivitals_svc.go:269`). |
| `SensorHealth!FailurePeriodFails` | health | With a graceful period above the failure period, a sensor is OK past the latter. |
| `SensorHealth!UnreportedIsUnknown` | health | A sensor that has never reported is OK, not UNKNOWN. |
| `ConditionEvaluator!ProgramsBounded` | evaluator | `maxCacheSize` bounds templates only. |
| `MagicLinks!ValidUntilUsedOrExpired` | sessions | After a restart a valid link is refused as used or expired. |
| `Sessions!StaleTokensAreNoTokens` | sessions | A token that is no longer good makes a call fail, where no token at all would have been answered with what is public (`interceptor.go:28`). |
| `RulePatches!RemovedByIndex` | rule_patches | Of two removals by index in one command, the second meets a list that the first has shifted (`update.go:98`, `:254`). |
| `RulePatches!FlagsCombine` | rule_patches | Additions beside "remove all" are lost. |
| `SensorForm!FormsOverwriteNothing` | editors | A form is posted with the newest version (`sensor.go:117`) and so overwrites what was patched after it was shown. |
| `SensorForm!KeysOverwrittenAsSeen` | editors | In memory the natural key of a reply is read before its version (`qivitals_svc.go:204`), so the update command may read the key that another patch replaces and the version of that patch, and undo it. |
| `SensorQuery!SearchesExact` | dashboard | Postgres takes `_` and `%` in a search text for wildcards (`postgresql_storage.go:220`), against `storage.go:48`. |
| `SensorQuery!StatesArePartOfTheQuery` | dashboard | Pages are cut before states are looked at (`qivitals_svc.go:177`), so a page of failed sensors may be empty. |
| `SensorQuery!LabelsExact` | dashboard | In memory, an empty label matches a missing one. |
| `SensorQuery!OfferedOrdersWork` | dashboard | Postgres refuses two of the orders the dashboard offers (`filter-form.html:133-139`). |
| `SensorQuery!IdentifiersKept` | dashboard | A query for one sensor by somebody who is not signed in returns all public sensors. |
| `Dashboard!StatusesObeyed` | dashboard | One status that is not known drops all statuses from the query (`dashboard.go:77`); the form offers `DEAD`, which is no state. |
| `Dashboard!SentTwice` | dashboard | A page with labels repeats them in its form, the second time as `labels[undefined]`; sent again, it finds nothing. |
| `Dashboard!HeaderTells` | dashboard | When the cookie goes while a page is open, its header goes on naming the user and the grid shows public sensors only. |
| `SensorReports!LatestTelemetry` | reports | Keys that a later report leaves out stay as they were (`memory_storage.go:128`). |
| `SensorReports!AllRulesCatchUp` | reports | Rules over such keys go on judging what is no longer there: an alarm over the `status` of a pool stays after the pool has recovered. |
| `Server!ExistingIdentityRefused` | server | Two `generate-keys` at a time both find no file and both write (`generate_keys.go:75`). |
| `Server!ShutdownIsGraceful` | server | A page accepted before the signal makes its loopback call when nobody listens any more, and fails. |
| `Server!InternalClientTrusts` | server | The certificate is read twice (`app.go:174` and when listening); if it changes in between, every page fails while the server serves. |

### Why the bounds are enough

A lost update, a torn read or a stale answer needs one reader and one writer
of one sensor, a re-registration under the same identifier needs three versions
(register, patch, register again), and a clash of natural keys needs two
sensors. Versions, reports, restarts, failures and time only bound the length of
behaviours. `MaxVersion` is in the guards of the actions that draw versions;
a call that
needs a version or a fresh identifier starts only while one is left for it
(`VersionLeft`, `NewIds`); time stands still at its bound, past every period and lifetime. `evaluator`
has fewer places than templates, so a full cache and the race for its last
place happen; lists of rules are one longer than the number of removals, so
that shifted indices still hit something. In `dashboard` one change behind an
open page is enough for a page that shows something old; what can be asked and
what can be there are enumerated from the start. In `sessions` a token outlives
its cookie and the link, each can expire while a page is under way, and a
restart falls before, between and after all of it. In `reports` two runs can
overlap in every order, and the observations of a kind differ in the keys they
come with. In `server` two commands race for one pair of files with a third one
after them, and a start may fail or be killed and be tried again. TLC evaluates
every assumption on the constants.

`CHECK_DEADLOCK FALSE` stands in the runs whose systems may really stop because
their bounds are used up or their single command has ended: sessions,
rule_patches, editors, dashboard (queries of other clients end) and server. The
service, the snapshot store, sensor health, reports and the evaluator are
checked for deadlock.

### Fairness

- *QiVitalsService*, *ConditionEvaluator*: strong fairness of each goroutine's
  own steps. The Go scheduler runs every runnable goroutine, and both
  `sync.Mutex` and `sync.RWMutex` hand a lock that is given up again and again to
  a waiter in the end (a waiting writer stops new readers), so a step that is
  enabled again and again is taken. Making a call and starting an evaluation are
  not fair: nobody has to call.
- *SnapshotStorage*: strong fairness of the loop, whose query takes the same
  mutex as the calls, weak fairness of loading and of a patch that holds the
  mutex. Crashes, stops and failures are not fair and are bounded.
- *SensorHealth*: weak fairness of time. Reports and patches are not fair.
- *SensorReports*: weak fairness of time and of the steps of a run that has
  begun, which has no loop and whose calls fail when their connection does. No
  job has to run the command (`Collect`), and what is observed may change or
  not.
- *Dashboard*: weak fairness of the server's answers and of `Refresh`: htmx
  fetches the grid of an open page every ten seconds. Nobody has to change a
  sensor or send a form again.
- *Server*: weak fairness of starting up, of the five seconds, of the end of
  `Shutdown` once they are over or nothing runs, and of `GracefulStop`. The
  listener belongs to the HTTP server, but calls that `ServeHTTP` passes on are
  known to the gRPC server; those that the time of the shutdown left over
  cannot be told to finish, and the library ends the process over them. So
  `GracefulStop` is taken to come to an end, one way or the other. Calls are not
  fair: they may take for ever.

Liveness is stated of these and of no other module.

## Proofs

TLAPS checks, for all values of the constants that satisfy the assumptions:

| Module | Theorem | Says |
|---|---|---|
| QiVitalsServiceProofs | Invariance, TypeCorrect, NoLostUpdate | The inductive invariant of the service, over either store, and what follows from it. |
| | Implementation | The service implements the registry, over either store. |
| | KeysStayUniqueInPostgres, ViewsStayCurrent | Over Postgres (`ASSUME ~Memory` in the theorem), no two sensors have one natural key, and what a client was shown is true while its version is current. |
| | RepliesReadTheirWrites, AnswersTrue | Over either store, replies are no older than their call's effect, and answers tell the truth about it. |
| SnapshotStorageProofs | Invariance, FileCovers | However the process ends and whatever fails, the file is whole and covers what was there when the last finished snapshot asked. |
| | StartFollowsFile | A start gives back the sensors of the file as they are there, except those whose key another one has taken, and no others. |
| DashboardProofs | Invariance, QueriesAnswered | Queries of any client over either store, save those that `Answered` leaves out: each answer without a limit is exact, each page full and the first in order. |
| | PageInvariance, AnswersAreExact, PagesAreFirst, PagesShowTheirForm | The same while pages are open, and a rendered page of an `Ordinary` form shows what the form says. |
| SensorHealthProofs | TypeCorrect, SilenceAlwaysShows, RulesAlwaysDecide, TimeOnlyDecays | For rules of any number, names and targets: silence shows, the worst of what age and rules ask for is shown, time never makes a sensor look better. |
| | EvaluatorInvariance, NoneCompiledTwice, TemplatesStayBounded | The evaluator: mutual exclusion of the write lock, and the two bounds. |
| CommandsProofs | EditInvariance, OperationsAlwaysFit, AdditionsAlwaysStay, OthersAlwaysKeepOrder | The update command, for lists of any length and any flags. |
| | ReportsImplement | Runs of the report command do to a sensor what SensorHealth allows. |
| SessionsProofs | Invariance, OneSessionPerLink, RefusedForAReason | Accounting of links, that a link is good once, and that none is refused without a reason, also across restarts. |
| | SessionsInvariance, PagesTellWho, PagesFailForAReason, OneSessionPerMail | What pages say and why they fail; a link is good once with sessions beside it. |
| | LinksBehave, RefusedForAReasonToo | Sessions implements MagicLinks, and so what was proved of refusals holds beside sessions. |
| SensorFormProofs | TypeCorrect, VersionsNameContent | The registry's types; a version names one content. |
| | EditorsTypeCorrect, NothingUnseenOverwritten | A command never overwrites a specification it has not seen, over either store, nor a natural key over Postgres. |
| ServerProofs | Invariance, IdentitiesStay, LoopbackWorks, CallsFinish | For any number of commands, calls, starts and kills: identities stay, pages reach the service, calls get their time. |

SensorHealthProofs and CommandsProofs each extend two components that never
run as one. The names of one of the two say which it is (`EvaluatorInit`,
`ReportsSpec`).

*NoLostUpdate* says that whenever the store would accept a patch, the document
the patch was computed from is what the sensor still holds. By itself it is not
inductive: it compares a document, read field by field, with an object that
others write field by field. `QiVitalsService!IInv` adds: versions in use have
been drawn (`Drawn`), a call past its read carries an object (`CallsWellFormed`),
the copy says which fields it has (`CopiesRead`), only the patch that holds the
mutex has columns left to write, and the object it writes is the one of its
target (`LockHeld`), and what a document has read so far is what its object
holds unless that object's version has moved on or is about to, with the mutex
held by a writer (`DocumentsPartial`, `DocumentsFresh`). The last point is the
heart of the argument: the writer that makes a document stale stamps a
new version before it gives up the mutex, so when the next patch gets it, the
comparison fails. The proof has a lemma for each action, and
actions that change nothing but the program counter share one.

*Implementation* follows from `RInv`, which adds to `IInv` that an object is the
sensor of one identifier (`SensorsApart`), that a call asks for what clients may
ask for (`RequestsAllowed`), and that a column a running patch has not to write
any more is what it wants it to be (`ColumnsWritten`), so that at
`PatchStamp`, where the patch takes effect in the registry, the object holds all
of it. Most steps are *quiet*: they leave the registry as it is. Seven have an
effect (`RegisterSensor`, `ReportSensor`, `DeleteSensor`, `PatchWrite`,
`PatchStamp`, `PatchUpdate` and, by taking the mutex, `PatchLock`), and a lemma for each of
them shows which step of the registry it is, or that it is none yet.
*KeysStayUniqueInPostgres* is proved of the registry's sensors, step by step of
the registry, and read back from them.
*RepliesReadTheirWrites* and *AnswersTrue* need that a call's effect is noted
exactly while its reply is read, and that what is there when it is read is the
effect or later (`WrotePast`): objects are stamped with later versions only, and
a sensor that is registered anew has a later one (`Rises`). *ViewsStayCurrent*
needs that what was shown was true of its version, which the refinement and
VersionsNameContent keep so (`Shown`, `SensorsRenewed`).

*NothingUnseenOverwritten* is the same argument for the update command: what it
saw is what the sensor holds while the version is the one it saw (`SeeingInv`),
and that is the version it sends. Over Postgres it sees all at once. In memory
it sees the specification after the version, so that a specification that is not
the version's comes with a version that is no longer the sensor's; of the natural
key, which it sees before the version, this is false, and the theorem leaves it
out over that store. The form has no such theorem, for it sends a version it
looked up later.

*FileCovers* compares versions that a document holds with versions that were
there when its query ran. A document is read field by field from objects that
go on changing, so the invariant (`SnapshotStorage!IInv`) says of each step of a
snapshot that what it has, or will still read, is no older than what was asked
for (`SnapshotUnderWay`). That rests on objects being live (`ObjectsLive`) and on
no version being known of two sensors, in the store, to the query, in the
document or in the file (`VersionsApart`): without the last, the objects that a
start makes for two sensors of the file could be one. *StartFollowsFile* needs
`RestoreUnderWay`: what has been loaded is as in the file, and what is missing
lost its key to another.

The *loops* of the code (over conditions, over the operations of a patch, over
flags) are recursive functions. That such a function is what its rounds make of
it, and what holds after the last round, is proved without the library's
induction theorems, which take an operator: a set of natural numbers that is
not empty has a least one (`LeastNatural`), so a set of rounds that has the first
and with each one the next has all of them (`RoundInduction`), and therefore a
function that follows the rounds exists (`RunExists`). *SilenceAlwaysShows*,
*RulesAlwaysDecide* and *TimeOnlyDecays* are statements about each round: no
round lowers severity, each round's result is the base or called for by a
rule, and a worse start does not end better. *EditInvariance* follows a list of rules
through additions, removals and replacements, in that order, by its `Shape`: how
long it is, that the additions are its end, and that the rest is in the order
read with no more missing than was named or replaced. It also shows that the ranges the
command counts while it builds its operations are those of the list when they
are applied; after a clear nothing is in range any more.

*QueriesAnswered* needs of a query, once the store has answered, that what is
handled and what is still to be handled together have each sensor once and none
that was not selected (`OnceEach`), miss none if there is no limit (`NoneMissing`),
are as many as a limit allows (`Full`), and are the first in the order
(`RestLast`). *PagesShowTheirForm* adds what the form of
the page asked for (`FormAsked`). All of them leave out what the two stores
answer in their own way (`Answered`, `Ordinary`): an empty label over the
in-memory store, which it takes for a missing one, and over Postgres a text
whose pattern matches other names than it occurs in (`LabelsExact` and
`SearchesExact` below the runs); and an identifier asked for without signing in.

*ReportsImplement* needs of the data that they are what earlier reports merged: a
report without data leaves them as they are, and stamps the sensor all the same,
as `SensorHealth!Report` allows.

*TemplatesStayBounded* needs that the templates kept are a finite set and that
a goroutine that found no room has made some before it inserts, under the lock
throughout. *NoneCompiledTwice* needs that a program stays once it is kept, and
that the second look is made under the lock that the insertion is made under.
*OneSessionPerLink* needs that a link in the map has given no session, and that
at most one visitor stands between using a link up and issuing its session.
*RefusedForAReason* needs that a link that was mailed by this process is in
the map or used, and that none is from a later start (`Recorded`).

*PagesTellWho* and *PagesFailForAReason* need that what a page was answered as
is what its token is good for until the next start, which no page survives
(`AnswersTrue` of Sessions). *IdentitiesStay* needs that a command that runs alone has looked
at both files before it writes and has written the private key before it goes
on (`IdentityGuarded`), *LoopbackWorks* that the certificate read first is the
file's until the second reading (`CertificateAgrees`), and *CallsFinish* that a
shutdown goes on with calls running only when the time is over
(`CallsAccounted`).

`IInv` of the service is also an invariant of a run of TLC; the others were
tried with TLC in the same configurations before they were proved.

Only model-checked: everything under fairness, that is CallsAnswered,
EventuallySaved, SilentTurnsRed, TroubleSurfaces, CoreRulesCatchUp,
EvaluationsEnd, PageCatchesUp and SignalEnds, for TLAPS does not reason about
ENABLED. Every other property of the runs is stated by a theorem.

## What is not modelled

- *Signed calls of the command line* (`internal/auth/token.go`): a token made
  anew for each command with the user's own key, checked by a library, without
  state. The models begin behind it.
- *Templates and renderer*: formatting, except for what the dashboard's form
  sends again. *Email senders, logging, configuration files, database pool*:
  I/O, formatting and what is read once, in order.
- *Register, query, status and delete commands*: they parse something and make
  one call.
- *Of the update command*: the update from a file, which no flag reaches. It
  would read a merge patch, which is an object, as a list of operations
  (`update.go:400`). *Of the JSON patch*: paths and documents character by
  character.
- *The order of `sort.Slice` for equal sensors*, and its use of an order that is
  not strict when descending (`memory_storage.go:222`): sensors of one rank come
  in either order.
- *Sensors that change during one query* with filters, which in memory returns
  live objects: SensorQuery's sensors stand still; a reply that is read piece by
  piece is modelled in QiVitalsService and SensorForm.
- *In QiVitalsService*: a registration without a namespace, which is authorised
  like one of `default` and stored without; the fields of one reply one by one
  (they are read as natural key, specification and version). *In SnapshotStorage*:
  description, labels and rules, which are marshalled after the version. *In
  SensorHealth*: rules that are nil, which one of two loops skips
  (`condition_evaluator.go:73`) and the other dereferences (`qivitals_svc.go:269`).
- *A data race on Go maps* is a crash in SnapshotStorage and nothing elsewhere.
- *What becomes of the form when the second query fails*: its error is dropped
  and its answer used (`sensor.go:117`).

Some things met on the way are outside the properties and worth knowing:

- A sensor that was registered and never reports looks OK for its graceful
  period and fails only after its failure period.
- The script in the head of the dashboard uses `document.body`, which is not
  there yet when it runs (`dashboard.html:13`).
- An interrupt during start-up only cancels a context that nobody asks
  (`root.go:60`).
- `generate-certs` that is killed midway leaves files with which no server
  starts (`generate_certs.go:110`).
- Verifying a link over REST sets no cookie: what
  `runtime.WithForwardResponseOption` returns is dropped (`app.go:155`).
- Creating a sensor reader never returns `ErrTypeNotFound`, so that the message
  of `report.go:100` never appears.
- Examples in the help of the query command are refused by its own parsers.

## Plan

Done: the core (registry, service over both stores, also over a Postgres that
fails), persistence, health, the evaluator's caches, magic links and sessions,
queries and the dashboard, the two editors, the report command, the server
process and its key files; the proofs of all safety properties of the runs and
of the refinements between modules.

Next, in this order:

1. Compose SnapshotStorage with the service's calls, so that a client sees the
   effect of a restart on a version it holds.
2. The sensor form over a store that fails.
3. What the register and query commands make of their flags, as operators.
