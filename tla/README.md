# Verification of meta-ads-agent

`meta-ads-agent` builds Meta advertising campaigns from a reviewed plan.  An
agent calls Meta through an MCP server; this repository holds what must not be
left to the agent: the check of a plan, the amounts, the campaign's recorded state,
the upload of media, the duplication of a campaign, the reports, the installer of the
agent's skills, and a deny-by-default approval gate.  Paths below are relative to `src/meta_ads_agent/` unless they start with
`docs/`, `tests/`, `hooks/` or `config/`.

The modules are TLA+.  TLC checks them on small instances, and TLAPS proves the
theorems of `*Proofs.tla` for every value of the constants.

## 1. Inventory

| Component | State | Operations | Talks to | What is hard |
|---|---|---|---|---|
| campaign state (`state/store.py`, `models/state.py`) | `state.json`: objects with their Meta ids, stage, failures, activation, plan fingerprint; one in-memory copy per session | `load_or_create_state`, `record_object`, `advance`, `record_failure`, `_flush` with `_merge_from_disk` | file lock, atomic write, the plan file, Meta (ids created between calls) | several sessions with copies of different age, a save that fails after the merge, a damaged file, a plan edited meanwhile |
| file lock, atomic write (`locking.py`, `workspace.py`) | one `flock` per file; a temporary file | acquire with deadline, release, replace | every writer | filesystems without `flock`, death while holding it |
| asset upload (`api/media.py`, `state/assets.py`) | manifest of (account, content) to id; media on Meta | probe, claim, lookup, upload, remember, poll | two locks, Meta | one upload per content across processes, lost answers, death between Meta's answer and the record, transcoding that never ends |
| installer (`install/engine.py`, `state.py`, `manifest.py`) | skill directories, the install-state record with its in-progress marker, backups, staging | install or upgrade, resume, rollback | file lock, the package, a user with an editor | a stop after any step, retries with another release, old backups, half-copied directories |
| migrations (`install/migrations.py`) | migration ledger, workspace backup | run pending migrations | workspace, scripts | once each, a stop between a migration and its ledger entry, two runs |
| fallback commands, action log (`cli/api_cmd.py`, `api/deletion.py`, `state/actionlog.py`) | `actions.jsonl` | read, refuse what is active, delete; create a creative; append to the log | Meta, file lock | the object activated after the check; a lost answer; a change that is not logged; a line cut off |
| plan and brand models (`models/plan.py`, `models/brand.py`) | `plan.yaml`, `brand.yaml` | load, refuse what contradicts itself | a person who writes them | budgets and dates inherited between levels; assets pinned to placements |
| plan validation (`validation/`) | a report | `validate-plan` against an account that was read | plan, brand, account context, local files | what it lets through is built without another look |
| money (`money.py`) | none | display amounts to minor units and back, description of a change | validation, duplication, approvals | currencies with 0 or 3 digits, accounts whose offset is not the table's |
| creatives (`api/creatives.py`) | creatives on Meta | build the request of each mode, refuse it | uploaded media, their transcoding | the default asset catches every placement; a still that is not there yet |
| duplicate detection (`duplicate.py`) | none | a new plan from a campaign that was read | Meta's answer, money, plan | what is left behind, another scale, another currency |
| approval gate (`hooks/approval_gate.py`) | a generated table of tool classes | answer a tool call: silence, ask, deny | the host, the table, the environment | a table that is old, lost or odd; a tool no rule names; a host that cannot ask |
| capability routing (`capabilities.py`, `tool_inventory.py`) | the capability map, the tool inventory | load, route, fall back, compare with a session, build the gate's table | skills, gate, session | one tool under several classes; a tool that disappears |
| analysis (`analysis/`, `cli/report_cmd.py`) | an export of insight rows | compare two periods, fatigue, breakdown, pacing | Meta's insights, which change for days | rows of several levels, rates, rounding, results still being attributed |
| naming, redaction, installer targets, command line, doctor | files they read | parsing, formatting, path discovery | all of the above | little state; left to tests |

Correctness, per component:

* campaign state - an id that `record_object` acknowledged stays on file; a save
  takes nothing back; two ids for one plan element are reported; objects on file
  belong to the plan the file names; a flush ends and frees its lock.
* asset upload - one media object per content and account; a returned id is on
  file; entries tell the content they were uploaded for; uploads end.
* installer - an installation that does not call itself interrupted is what it
  says; the way back from an interrupted update survives retries; a rollback
  undoes that update and nothing else.
* migrations - each applied once, never over a half-changed workspace, and never lost
  from the ledger; the first backup is of the original.
* fallback commands - nothing goes but what was approved by its right type; what
  delivers goes only after a race; every change is in the log, and the log can be read.
* plan to campaign - what is charged, shown and named in the EU is what the plan that
  validated says; a plan that validated is not refused half way, but for three known
  reasons; a build ends.
* duplicate and budget changes - a copy spends, reaches and shows what its source does;
  the change a person approves is the change of the charge.
* gate and routing - what a person must approve never runs unasked, whatever state the table
  is in; nothing live is created; a skill is sent to a layer that is there.
* analysis - no spend is counted twice, results without a warning are final, a
  decline that is reported is one, goes on since its date and has one unless it is exactly at the threshold, a rate is that of the whole window.

`PROJECT.json` lists every component, modelled or not, and the hazards by line.

## 2. Modules

| Module | Models |
|---|---|
| `CampaignRecord` | `CampaignState` as data: `record`, `advance`, the merge of two copies; pure operators |
| `StateStore` | sessions, the lock, `state.json`, Meta and the people around them |
| `CampaignLedger` | abstract: what the state file promises, a ledger that only grows |
| `AssetUpload` | uploading processes, the two locks, the manifest, Meta's transcoding |
| `UploadRegister` | abstract: what the upload promises, for each content and account a register that is written once |
| `Install` | one target directory, its record and backups, the running operation |
| `Migrations` | runs over the workspace: ledger, backups, scripts, and the user around them |
| `ApiCommands` | commands that delete and create, Meta and other people, the action log |
| `Money` | minor units, display amounts, the scale of an account, the description of a change; pure operators |
| `CampaignPlan` | which plans load: budgets, levels, schedules, targeting, placements, creatives; pure operators |
| `PlanChecks` | the report of `validate-plan` as the set of its codes; pure operators |
| `Creatives` | the request of each creative mode, what refuses it and what Meta makes of it; pure operators |
| `Duplicate` | the plan made from a campaign that was read, and what refuses it; pure operators |
| `CampaignBuild` | composes the five above: from a plan to a campaign and from that to a copy |
| `Capabilities` | the map: loading, routes, the comparison with a session, the table; pure operators |
| `ApprovalGate` | composes the map and the hook: sessions, hosts, tables, calls |
| `Decimals` | Python's `decimal`, in a bounded precision (not under `src/`) |
| `Insights`, `Analysis` | rows and sums; the four reports; pure operators |
| `Reports` | a campaign that delivers day by day, results that arrive late, exports and reports |
| `*Proofs` | the theorems about `StateStore`, `AssetUpload`, `Install`, `Migrations`, `ApiCommands`, `ApprovalGate`, `CampaignBuild` with `Money`, `Reports` |
| `MC*` | instances for TLC |

### StateStore

`pc[s]` is where a session is: `idle`, `ready` (it holds a copy of the state),
then through `_flush`: `locking`, `locked`, `merged`, `saved`.  `mem[s]` is the
copy, `disk` the content of the file, `pending[s]` the objects the session created on
Meta and has not recorded.  `LoadState`/`CreateState` are the two ends of
`load_or_create_state`; `RecordObject`, `Advance` and `RecordFailure` change the
copy and enter the flush; `MergeFromDisk`, `Save`, `SaveRecovered` (unreadable
file: a sidecar is written), `SaveFails` and `Release` are the body of `_flush`.
`Release` is where conflicts are raised.  `ProcessEnds` may come at any point and
frees the lock, as the operating system does.  `history` variables record
what callers were told.

Abstracted: a plan is an account and a content (what the fingerprint hashes);
names, timestamps and the number of retries are left out.  Reading the plan and
the state takes one step, since both happen before the session acts.

### AssetUpload

`pc[p]` follows `upload_image`/`upload_video`: probe, `claim` of the key, lookup,
upload, manifest lock, load, put, save, then `wait_for_video_processing` outside the claim.
Meta is two sets, the media objects and those still transcoding.  A file may be rewritten at
any time at which no process has read it and not yet sent it; with `FilesChange` also then.
`unfiled` is history: ids whose process stopped before it filed them.
As an `UploadRegister`, the manifest is the registers, `returned` the answers, and an id is lost when the process that
asked for it has stopped without filing it, or never heard of it.

### Install

A skill directory is what release its files are from, `absent`, or half of a
skill: `damaged` when the SKILL.md that identifies it is gone and `mixed`
otherwise.  Copying and deleting a directory takes two steps and
the operation may stop between them.  Directories are numbered as their names
sort, since every loop of the engine sorts them.  `pc` names the phase;
`todo` and `current` are the loop's position.  Staging is no variable: each attempt
rebuilds it from the package and verifies it before the swap.  `install_lock`
lets one operation run at a time, so there is one `pc`.  `before` and `good` are
history: the tree before the interrupted update, and the backup that holds it.

### Migrations

Migrations are numbered as `collect_migrations` lists them.  `effect` is what the
workspace holds of each one's change, `ledger` the ids in `.migrations.json`,
`known[r]` the copy a run loaded and writes back whole.  `pc[r]` follows
`run_migrations`: `loop`, `backup`/`copying`, `apply`/`applying`, `record` or
`note`, and `done` when the outcomes are printed.  A script's change takes two steps and may fail between
them; the built-in migration writes one file atomically.  A backup is copied
in two steps: the ledger and `.gitignore` sort before what scripts change.
`touched` is history.  Around the runs a person deletes the ledger, restores a backup (as a
whole, while no run is going: no code does it) and replaces scripts.  A script dies with the process that
runs it, and its `--check` and `--apply` do what `Migration` asks of them.

### ApiCommands

`pc[p]` follows `run_delete` or `run_create_creative`: `started`, `checked` (the
object was read and may go), `logging` (the attempt is over), and `append`'s
`locked` and `writing`.  A deletion takes everything under the object with it; a
call that fails may have been carried out.  A line is started (`Garbled`, `torn`) and
ended in two steps, since a process may die between them; `fresh` says whether it began
a line of its own.  `granted`, `raced`, `changed`, `excused` and `logged` are history.
The lock is taken to work; `StateStore` shows what a filesystem without `flock` does.

### CampaignBuild

`stage` is the stage of `models/state.py` that the build has reached, or `stopped`.
`ReadAccount` is the account context the agent saves (currency, offset, minimum budgets),
`ValidatePlan` is `run_validate_plan`, and `CreateCampaign`, `CreateAdSets`, `UploadAsset`,
`FinishUploads`, `CreateAd` and `CreateAdRefused` are the calls the agent makes from the plan and the
report, in the order of the stages; `Transcode` is Meta.  `ChangeBudget` shows
`describe_change` and changes the amount, once; `DuplicateCampaign` is `run_duplicate_plan`, once, and
`SetEnd` the schedule a person adds to the copy, which has none.

`campaign` has the fields Meta is sent and that `duplicate.py` reads: amounts in
minor units, targeting with platforms and positions, creatives with their assets.
Whether a plan loads (`Accepted`), what is found in it (`Findings`), what a creative
command refuses (`Refused`), waits for (`Waits`) and creates (`Created`), and the copied plan
(`CopiedPlan`) are operators of the pure modules, each with the order of conditions of the code.
Placements are the six that an asset can be pinned to; other positions go the same ways through the code, and `raw` keeps the keys of
all.  A local file is a key with what its name says and what its header says; its content is
the id that uploading it makes.  `PlanType`, `AccountType`, `BrandType` and `MetaCampaignType` are what the constants and
variables may hold: optional fields are sets of at most one, texts are strings of which only equality is used.  A call that is allowed succeeds: what a lost call or a crash does
is the subject of `StateStore`, `AssetUpload` and `ApiCommands`.

### ApprovalGate

`registry` and `inventory` are `config/capabilities.yaml` and `config/mcp-tools.yaml`, `live` the tools of a session,
`classes` the table generated for the hook: a table, `missing`, or `odd` (JSON of another
shape).  `EditMap`, `MetaChangesTools`, `Compare`, `BuildTable` and `DamageTable` happen to them at any time between
calls; `AskRoute` and `AskFallback` are `route` and `fallback_route`; a call goes through `CallTool`, `RunHook`
and one of `RunSilently`, `RunAsked` and `EndCall`.  `Answer` is `main`: the environment variable, the table
that raises, strict mode, the host.  A host that cannot ask (`codex`) treats an ask as a failed hook and lets the
call run, which is why the code denies there.  A tool's name is the set of its words; a call has the
statuses in its input with their depths.  Every name is one of Meta's tools and every input an object: the host calls the
hook for no other name (`hooks/hooks.json`) and sends no other input, so the two branches for those are left out.

### Reports

`delivered` and `results` are what happened, for each ad and day; a result of a day may
arrive up to `AttributionDays` later (`LateResult`).  `Export` asks Meta for rows over a window:
per day or for the whole window, per ad or per campaign, per placement or not, with or without
reach.  `RunCompare`, `RunFatigue`, `RunBreakdown` and `RunPacing` run a report over the file with the options the
agent may give.  What the report shows is compared with `delivered`, not with the rows.
`Decimals` rounds to `Precision` digits, half to even, after each operation as Python's
context does with 28; the reports order their operations as the code does.

## 3. Runs

| Run | Shows |
|---|---|
| `store_sessions` | two sessions, two ids for one plan element, two plan contents, crashes, failing writes, a damaged file: `RecordedIsDurable`, `ConflictReported`, `FingerprintDescribesObjects`, and `StateStore` implements `CampaignLedger` |
| `store_liveness` | a flush ends and no path keeps the lock; also with recorded failures and shared assets |
| `store_silent_conflict` | expected violation; see 6 |
| `upload_processes` | two processes, two accounts, crashes, lost answers, failing writes: `OneUploadPerContent`, `ManifestTellsContent`, every upload ends, and `AssetUpload` implements `UploadRegister` |
| `install_resumed` | `HonestRecord` and `WayBack` across stops, retries, rollbacks and pruning |
| `install_edits` | with user edits, `--no-backup`, and archives and rollbacks that stop half way: `RollbackIsSafe` |
| `migrations` | runs that stop, fail, are withheld consent; deleted ledgers, restored backups, replaced scripts: `NoSecondRun`, `HonestLedger`, `OriginalIsKept`, `LaterNeverSeesHalf`; a run ends |
| `api_commands` | two commands against people and a Meta that loses answers: `OnlyApprovedGoes`, `DeliveryIsStoppedFirst`, `EveryChangeIsLogged`, `LoggedIsReadable` |
| `campaign_build` | plans around every boundary, three accounts: `BuiltAsPlanned`, `ServesAsPlanned`, `StopsAreKnown`, `CopyDeliversTheSame`, `ShownChangeIsReal`; a build ends |
| `approval_gate` | maps edited, tables lost, odd or old, tools added and removed, both hosts, every mode: `HarmIsAsked`, `NothingLiveIsCreated`, `RoutesAreKnown` |
| `reports` | four days, late results, exports of every kind: `NothingCountedTwice`, `ReportIsFinal`, `DeclineIsOngoing`, `RatesAreOfTheWhole` |
| `reports_decline` | expected violation; see 6 |

Bounds.  *Two sessions or processes*: every hazard of the store and of the
manifest is a race of one writer with one other; a third adds no new
order of load, merge and save, and the proofs cover any number.  *Two ids, one
plan element*: enough for a conflict; `store_liveness` adds
a plan element that shares an asset.  *`RemoteIds`* bounds successful uploads; two are needed for a
duplicate, and a second key needs the second.  *One file* whose content changes and two accounts: two keys and two
contents without a second file.  *`MaxBackups`*: backups taken in
the life of a target; three with a retention of two make pruning happen
(`install_resumed`), one in `install_edits`; the proofs cover any.  *Two skills, two releases*, one skill
dropped by the second release: an upgrade removes it, a downgrade adds it.  Partial
contents are two kinds because `_looks_like_our_skill` tells two kinds apart.
The code keeps three backups; `BackupRetention` is smaller in the runs so that
pruning happens within the bound.  *Three migrations*, one built-in and two scripts, so that a failure has something before and after it;
`MaxBackups` is the number of backups under which a run may start.  *A campaign and an
ad set in it*, two processes, one creative, and two lines of log (`MaxLog`): a command
starts only if its line still fits.  A deeper hierarchy adds no order of check and call, and the
proofs cover any.

*Plans*: one usual plan and, around it, every value of one part at a time (budgets, levels,
bids, countries, audiences, pins, creatives, tracking, names, schedules, campaigns).  The checks
of different parts do not read each other's, except budgets with schedules and levels, and pins with placements, which
are varied together.  *Three accounts*: PLN, a HUF account whose offset (100) is not the table's, and JPY, so that
the three scales and the disagreement are there.  One campaign, one copy, one change of budget.
*Ten tools*, one of each kind the hook or the map tells apart; five maps, three inventories, three sets of live tools; the
modes unset, `strict` and `0`; statuses on the outermost level and on the deepest that is
searched.  *Four days, two ads*, windows of one and two days: a window, the one before it, and a day for
results to arrive.  Precision 4 (TLC's integers have 32 bits), and thresholds that small counts reach (noise 13 %, decline 25 %, five clicks,
one result).  Days are a quarter off, to the unit, or further, or less: a decline exactly at the threshold, one beyond it, and a
recovery in between are all there, and `Precision` 4 rounds the first apart.
The `.cfg` files name definitions `The...` of the `MC` modules, each another definition's value: TLC evaluates what a `.cfg`
names without normalising it, and its workers would then sort one shared set at the same time.
Symmetry is used over ids and sessions where no liveness property is checked.

`CHECK_DEADLOCK FALSE`: in the `StateStore` runs ids run out and every session may
have ended; in the `Install` runs a record that cannot be read blocks every command
(see 6), and the bound on backups may leave nothing to run; in
`api_commands` the log may be full and everything deleted; in `campaign_build` the copy is built
and its budget changed, or the build has stopped; in `reports` the last day is over.

Fairness.  `FairSpec` of `StateStore` gives weak fairness to the flush of each
session: its steps are straight-line code, and the wait for the lock has a
deadline (`locking.py:52-59`), so a polling process always goes on.  There is no fairness on
agents, on people, or on processes that may die.  `FairSpec` of `AssetUpload` gives
weak fairness to each process's next step: the lock waits have deadlines, the SDK
calls time out, and the poll has one (`api/media.py:225-234`).  Meta is given no
fairness there: a video may never be ready.  `Spec` of `Migrations` gives weak fairness to the steps of each run that was started:
nothing in it waits, and a script is given 300 seconds (`install/migrations.py:230`).  Nobody
has to start a run.  `FairSpec` of `CampaignBuild` is about the build alone: the agent goes on with a plan that
validated, and Meta transcodes the videos it was sent - without that an ad would rightly wait for ever, and
`AssetUpload` is where Meta may never finish.  What `BuildsEnd` shows is that no order of uploads, stills and ads
leaves a build waiting for something nobody makes.  `PersistentUserSpec` of `Install` is used only to
refute `ForceRebuilds` even for a user who keeps trying.

Every property of a passing run has a mutant in `PROJECT.json`: an operator
beside the one it replaces, marked "a mistake", under which TLC finds the property
violated.

## 4. Proofs

`StateStoreProofs` proves, for any number of sessions, ids, plan elements, plans
and stages (assumptions: `LastStageAssumption`, `RefsAssumption`, `FingerprintAssumption`, `StoreAssumption`):

* `TypeCorrect` - `Spec => []TypeOK`.
* `StoreInvariant` - when `LockWorks`, `Spec => []StoreInv`.  `RecordedIsDurable` is not
  inductive: that a save loses nothing needs that the copy being saved
  extends the file (`MergedHoldsFile`), which the merge gives (`MergeExtends`) and which
  survives until the save because only the lock's holder writes (`LockHeld`); that
  a saved copy is the file (`SavedIsFile`) gives the acknowledgement of
  an id; `AbsentIsEmpty` covers the first save.
* `RecordedStaysOnDisk`, `FileNeverShrinks` - from `StoreInvariant`.
* `ObjectsExistOnMeta`, `StoreImplementsLedger` - every step of the store maps to
  a step of `CampaignLedger` or a stutter.
* `ConflictsAreReported` - with or without a working lock.  The strengthening
  is `CopyConflictsCovered`: a conflict inside any session's copy is already
  covered, because a copy starts as the file and only the merge
  adds foreign objects to it, returning the conflicts it makes (`MergeReportsConflicts`).
* `ResumeIsForOnePlan` - when `LockWorks` and `~EarlyEdits`.  `PlanInv` relates each copy to the
  plan its session loaded (`CopyDescribesPlan`), to the file (`CopyAgreesWithFile`)
  and the plan file (`PlanIsCurrent`).

The hypotheses are real limits of the code: without them `StateStoreUnlocked.cfg`
and `StateStoreEarlyEdit.cfg` violate the same properties.

`AssetUploadProofs` proves, for any number of processes, files, contents, accounts
and ids (assumption: `UploadAssumption`):

* `TypeCorrect` - with `HasId`, where a process has an id: a returned id is never empty.
* `UploadInvariant` - when `LockWorks`.  `OneUploadPerContent` is not inductive: two processes
  could both have missed the content.  `HoldsClaim` makes a key's worker unique,
  `NotFiledYet` keeps its lookup true until it files, `CopyIsCurrent` (from `HoldsManifest`)
  makes load, put and save one step, and `EveryUploadIsKnown` says where
  every id is: filed, held by the worker of its key, or with a process that was stopped.
* `SameContentIsUploadedOnce`, `ResultsStayOnFile`, `EntriesStay` - from `UploadInvariant`.
* `UploadImplementsRegister` - every step is a step of `UploadRegister` or a stutter: nothing is uploaded for a content that
  is on file or that somebody alive may still file, what is filed is never replaced, and an answer is what is on file.  One more
  invariant is needed, `LostIsLost`: what counts as lost stays lost, so that no id comes back from a process that stopped.
* `ManifestTellsTheTruth` - without any lock, when `~FilesChange` (no file is rewritten
  between its fingerprint and its upload): contents travel with the probe, the upload, the loaded copy and
  the entry (`TellsInv`).

`MigrationsProofs` proves, for any number of migrations, scripts, processes and backups
(assumption: `MigrationsAssumption`), `TypeCorrect` and, when `OneAtATime`:

* `MigrationsInvariant` - what a run knows is so (`KnownIsDone`), all it went past is done
  or was left alone by it (`PassedIsDone`), where it is tells how far its migration has got
  (`PlaceTells`), the backup it copies is of the workspace as it is (`CopyIsCurrent`), and its backup
  covers what no migration has touched yet (`BackupCovers`).
* `LedgerIsHonest`, `OriginalStays`, `NoneOverAHalf`, `ReportsAreTrue`, `NoneRunsTwice`,
  `ScriptsAreDeclared` - from `MigrationsInvariant`.

`MigrationsTwice.cfg` refutes `NoSecondRun` without the hypothesis.

`ApiCommandsProofs` proves, for any account, any number of processes and a log of any
length (assumption: `ApiAssumption`):

* `TypeCorrect`, and `ApiInvariant`: `pc` says who holds the lock (`LockIsHeld`), the
  line being written is the last one (`FreshIsLast`), what goes on was
  approved, has its type and is not active unless raced (`CommandIsGranted`), and what is to be
  reported happened (`VerdictIsTrue`).
* `OnlyTheApproved`, `DeliveryStopsFirst`, `LogIsTrue`, `LogIsAppendOnly` - from `ApiInvariant`,
  torn writes included.
* `ChangesAreLogged`, `AppendsCanBeRead` - when `~TornWrites`.  The strengthening is
  `TornIsWritten`: a line without its newline is being written by the process that began it.
  `ApiCommandsTorn.cfg` refutes the second without the hypothesis.

`InstallProofs` proves, for any skills, releases, number of backups and retention
(assumptions: `InstallAssumption`, `NoneAssumption`):

* `TypeCorrect` - with `TypeInv`: an update knows its release, and the backup that is
  filled or restored exists.
* `RecordIsHonest` - when `Undisturbed` (no edits, no stop inside an archive or a rollback, the first installation is
  the installer's).  `HonestRecord` speaks of the installation at rest; the invariant (`HonestInv`) has
  to know that the marker is there before anything is touched, that what an update archives is
  what it found (`Archived`), that every finished backup is as honest as the installation it was taken of, and
  that a rollback brings back what its backup holds (`Restored`).
* `WayBackStaysOpen` - when `~ClockGoesBack`, whatever stops and whatever the user edits.  `WayBackInv`: the
  marker names the good backup, and the backup being taken is the newest, so that pruning never
  meets it (`PruneKeepsNewest`).
* `RollbackTakesBackOnlyThis` - `RollbackIsSafe`, under the same hypothesis.  `MarkerInv`: the marker names the newest backup
  or none that exists; the record in that backup has the version that is installed; and a record that was archived
  with a marker in it (see 6) names this very backup or one that was never made, so that restoring it cannot point
  a second rollback at another one.  `TreeInv`: what the tree lacked the backup lacks, a rollback clears it and does not bring it back.

`ApprovalGateProofs` proves, for any tools, maps, inventories, hosts, modes and calls (assumptions:
`ToolsAssumption`, `HostsAssumption`):

* `TypeCorrect`, and `GateInvariant`: what ran was answered by the hook for that very call, by the table of
  that moment.
* `NoLiveCreate` - when no status is deeper than the hook looks (`ShallowCalls`).
* `HarmIsAlwaysAsked` - when a harmful tool the table does not know is not named like a read (`HarmIsNamed`).  The table
  keeps the most severe class of each tool, which is what makes any capability's need for approval one of the tool.
* `RoutesStayKnown` - without hypotheses.

`CampaignBuildProofs` proves, for any plans, accounts, brands, files and budgets of their types (assumptions:
`TypesAssumption`, `AccountsAssumption`, `ReadingsAssumption` - what was read of an account is true, though it may be incomplete -
`KindsAssumption` - an id in a plan is of the kind its field names - and `LiteralsAssumption`, because the prover does not know
that a quoted word is a string; TLC evaluates all of them):

* `InvHolds` - `Spec => []IInv`.  The properties speak of what is on Meta and of the plan; nothing in them says that the
  plan on file is still the one that validated, so none is inductive.  `IInv` says so (`StillValid`), and what has been sent of it so
  far: nothing before its stage (`NotAheadOfStage`), the campaign (`CampaignIsPlanned`), each ad set but for its
  ads (`AdSetsArePlanned`), each creative as the request of its place in the plan made it, with the stills there were
  (`AdsArePlanned`), from assets of the right kind (`KindsAreKept`).  `TypeIsKept` and `StopsAreOfThreeKinds` are two of its conjuncts:
  the second needs that what the checks let through (`ValidatedIsSound`, `FilesAreUsable`) is all that
  a creative command refuses (`RefusedIsKnown`).
* `NoBudgetWithoutEnd` - a lifetime budget ends, one level pays, the EU is told who pays, without hypotheses.
* `BuiltIsPlanned` - `BuiltAsPlanned`, when `AccountIsRead`: the account context has the currency, and the offset where the table
  has another.  The code only warns where it has not ("currency.unverified").
* `ShownIsReal` - `ShownChangeIsReal`, when `AccountIsRead`: that a percentage rounded half up is right to the tenth is `HalfUpIsNear`.
* `PinsAreServed` - `ServesAsPlanned`: the first rule that matches a placement labels exactly what the plan pins there (`FeedServes`,
  `PinsAreThePlans`), and the checks see to it that every pin is where the ad set delivers (`TargetsAreDelivered`).
* `CopyIsTheSame` - `CopyDeliversTheSame`, when `AccountIsRead`, `SourceScaleIsKnown` and `NoPlatformIsAPlacement`.  `SInv`
  adds what survives of the source once its plan is overwritten: what any built campaign is (`SourceWasBuilt`: one kind of
  budget, positions on their platforms, creatives as the commands make them), and that the plan is its copy but for the
  dates (`PlanIsTheCopy`).  Then amounts come back through
  display and minor units (`BudgetComesBack`), placements through names (`CopyDeliversThere`), creatives through what is read of them
  (`CopyShowsTheSame`).  `CampaignBuildOffset.cfg` refutes it without the second hypothesis; the third excludes a platform that is
  called what a placement is, which `models/plan.py:231` lets through and Meta does not.

It proves of `Money`, for any amounts: `AcceptedAmountIsShown` (an amount that converts is shown as it was written),
`ChargeCanBeWritten` (each charge is some amount a person can write), `IncreaseIsCalledOne` (the description of a change says
the direction of the charge).

`TheoremsApply` in `MCCampaignBuild` has TLC evaluate the hypotheses on the instance of the run.  Where a proof needs the least
or the greatest of some numbers (the first rule, the last pin, the next ad) it takes it from the well-foundedness of the naturals
(`LeastMember`, `GreatestMember`).

`ReportsProofs` proves, for any ads, deliveries, late results, windows, levels and schedules (assumption: `ReportsAssumption` -
there are ads, an id is not `None`, a delivery without impressions spent nothing):

* `InvariantHolds` - `Spec => []IInv`.  A report is compared with what was delivered, of which the file is only an image.
  `IInv` says what image: rows are of days up to the export's (`RowsHaveDays`), each counts what its ads did on its days
  (`RowsAreReal`), no ad has two rows for a day (`OneRowADay`), none that delivered lacks one (`NoneIsMissing`), a row of results
  is of that moment (`ResultsAreCurrent`); and that days which are over stay as they were (`PastIsKept`) carries
  a report from the day it was made to every later one.  TLC checks `IInv` on the instance of `reports`.
* `SpendIsCountedOnce` - `NothingCountedTwice`, when no row of reach is over a single day.  Such a row passes for one of that day's
  rows (`analysis/insights.py:317`), and section 6 shows the day counted twice.
* `SettledIsFinal` - `ReportIsFinal`, under the same hypothesis and when a comparison is of an export of its day; of an older
  one the note is about the wrong days (section 6).
* `TypesAreKept` - `TypeOK`, which says of a comparison that its two periods are of one length and meet.
* `DeclineIsDated` - what a report of fatigue says of a decline, in rates as they are rounded: from the date it gives every window
  was down to the last, the one before was not, what was spent since is what was delivered since, and it gives none only where the
  floor says the ad is not down (`DeclinesAreDated`).  A
  second invariant, `ReportIsOfFile`, keeps the report tied to the export at hand and the rows of each ad to its days
  (`AreDaysOf`: one row a day, none missing, every count of it the count of that day), so that the rate of a window of rows is the rate
  of its deliveries (`CtrOfDays`).  That a baseline can be chosen at all (`GreatestExists`, `BaselineIsEligible`) needs that rates
  compare like numbers: `CtrsOrder` proves it of the decimals of `Decimals` by bringing them to one exponent (`LeqInUnits`).
* `DeclineGoesOn` - `DeclineIsOngoing`, the same in whole numbers, at the threshold and near it.  `RateStands` says how far a rate
  as it is rounded is from the rate, `FallsAreNear` and `ChangesAreNear` carry that to the floor and to the change, and
  `FallsAreExact` and `ChangesAreExact` conclude: two whole numbers that differ differ by at least one, which no rounding error
  reaches.  So a window down by more than the threshold is never taken for one that is not, nor the other way round, and
  only exactly on the threshold can the two roundings disagree.
* `DeclineHasADateBelow` - the part of it about declines without a date: what `reports_decline` finds happens nowhere but
  exactly on the threshold.

These three are of an export of its day without a row of reach over a single day, as above, and of any `Precision` (the last two
of two digits or more; Python's context has 28).  They have one more hypothesis, `PowersOfTen`: `10^(k + 1) = 10 * 10^k`, which
is how `^` is defined; the provers calculate small powers and know no law of them, so the theorems name the law they
use, and what follows from it (`PowersArePositive`, `PowersAdd`) is proved.  The last two also assume `EnoughDigits`:
the clicks of one window times the impressions of another are at most 10^(`Precision` - 1) / 400, which is 2.5 * 10^24 for Python - far
above any account.  Four digits are not enough for that in the instance of `reports`, whose numbers agree all the same: there
TLC checks `DeclineIsOngoing` without the hypothesis.

Sums over sets of rows are folds.  A sum of natural numbers is shown to be the number of the units it is made of
(`SumIsTheCount`; a smallest subset on which the two differ cannot exist, which stands in for induction), so that a sum of rows equals a sum of days because
the units of the rows are those of the days, each once.

Properties that are proved and not run: `FileOnlyGrows`, `ResultsAreOnFile`, `ManifestIsStable`, `ReportIsTrue`, `OnlyDeclaredScripts`,
`LogTellsTheTruth`, `LogOnlyGrows`, and the type invariants of `Migrations` and `ApiCommands`.

Model-checked only: all liveness (temporal fairness is outside the prover's reach), and of `Reports` `RatesAreOfTheWhole`.  It
compares quotients, each rounded to `Precision` digits, with exact ones (a change with the noise band, a placement with the
whole, a projection with even spend).  Near a band they may disagree as they do at the threshold of a decline; how near was worked out for
the decline only, so the others are said of the instance.

## 5. Not modelled

`resume_from`, `reconcile` and the printing of state; workspace layout; naming and redaction (regular expressions over
text); SDK request construction beyond the creatives (a call succeeds, fails, or succeeds and loses its
answer); target discovery on WSL and Windows; free text of plan and brand; the command line's parsing and printing;
the doctor.  Of validation, `check_creative_routing` (`validation/checks_creative.py:153-217`), the policy texts and the wording of
reports.  Of analysis, the parsing of rows, the questions read off the chain of metrics (`analysis/compare.py:243-272`), the `results`
column that replaces actions, and `power.py` (quantiles of the normal distribution).

## 6. Disagreements

The first table are runs of the project; each quotes the line it contradicts under
"findings" in `PROJECT.json`.

| Run | The code |
|---|---|
| `store_silent_conflict` | a failed save forgets the conflicts its merge found |
| `reports_decline` | a CTR down by exactly the threshold is declined and has no date: the change and the floor are rounded on their own |

The second are limits found while modelling, each with a configuration that
shows it (`tlc -config <cfg> MC<module>.tla`).

| Configuration, property | The code |
|---|---|
| `StateStoreEarlyEdit`, `FingerprintDescribesObjects` | an empty state resumed under an edited plan keeps the old fingerprint (`state/store.py:155`) |
| `StateStoreUnlocked`, `FileOnlyGrows` | without `flock` two flushes overlap and the second save erases (`locking.py:97`) |
| `AssetUploadCrash`, `OneUploadEver` | killed between Meta's answer and the manifest, the bytes go up again (`api/media.py:151`; "once per ad account, ever") |
| `InstallPartialBackup`, `HonestRecord` | a backup cut short is restored as if complete (`install/engine.py:307-329`) |
| `InstallRollbackDies`, `HonestRecord` | a rollback of a finished installation that stops leaves no marker (`install/engine.py:415`) |
| `MigrationsTwice`, `NoSecondRun` | nothing keeps two runs apart, and both may apply a migration (`install/migrations.py:358`; "once each") |
| `ApiCommandsTorn`, `LoggedIsReadable` | the record after a line cut off is appended to that line, and `read()` drops both (`state/actionlog.py:83`) |
| `CampaignBuildMisnamed`, `ValidatedIsNotStopped` | a video named `.jpg` passes the plan's check of local files, and its upload is refused when the campaign and its ad sets exist (`validation/checks_creative.py:220-250`; "Everything that could make a write fail halfway is checked here") |
| `CampaignBuildOffset`, `CopyDeliversTheSame` | a source saved without `currency_offset` is read in the table's scale: an account that differs is copied at a hundredth or a hundred times its budget (`duplicate.py:16-18`) |
| `ApprovalGateDeep`, `NothingLiveIsCreated` | a status deeper than eight levels is not seen (`hooks/approval_gate.py:88`; ADR-011 "anywhere in the input") |

The third are shown by one of the runs' configurations with the changes named.

| Configuration, change, property | The code |
|---|---|
| `StateStoreSafety`, `Ids` three and `Refs` two ad sets, `RefusedIdIsKept` | `record()` raises before the flush: the new id reaches no file ("no id is lost") |
| `StateStoreSafety`, `Refs` and `AssetRefs` two videos, `Ids` one, `PlanRefIsKept` | the merge erases the plan element of an asset both sessions recorded (`state/store.py:295`) |
| `AssetUpload`, `HandedIsReady` as property | a reused video id is returned while Meta still processes it (`api/media.py:129`) |
| `AssetUpload`, `FilesChange = TRUE`, `ManifestTellsContent` | a file rewritten during the claim's wait is filed under its old content (`api/media.py:150`) |
| `InstallHonest`, `NothingStale` as invariant | a half-deleted dropped skill is recognised by no later run (`install/engine.py:375`; "nothing stale survives") |
| `InstallHonest`, `Starts = {"by hand"}`, `BackupWanted` both, `MaxBackups` 2, retention 1, `HonestRecord` | a rollback to a backup without a record keeps the newer version recorded (`install/engine.py:425`) |
| `InstallHonest`, `ClockGoesBack = TRUE`, `MaxBackups` 2, retention 1, `WayBack` | after the clock went back, the backup just taken is the one pruned (`install/engine.py:331`) |
| `InstallHonest`, `BackupWanted` both, `MaxBackups` 2, retention 1, `NoMarkerInBackup` | a retry may archive the record with the marker in it (`install/engine.py:233`) |
| `InstallEdits` under `PersistentUserSpec`, `Starts = {"recorded"}`, `ForceRebuilds` | `install --force` cannot rebuild an unreadable record (`install/engine.py:123`) |
| `Migrations`, `EveryChangeIsBackedUp` | the built-in migration is applied without a backup, since it changes no user data (`install/migrations.py:377`; "before the first one that changes anything") |
| `CampaignBuild` under `Spec`, `Drafts <- TwinDrafts`, `ValidatedIsNotStopped` | two files of one content, one pinned and one default, validate and are refused by the creative (`models/plan.py:424`) |
| `CampaignBuild` under `Spec`, `Drafts <- PinnedVideoDrafts`, `ValidatedIsNotStopped` | a multi-variant creative with several videos validates, and the command takes one `--video-id` (`cli/api_cmd.py:420`) |
| `CampaignBuild`, `Drafts <- OnPlatforms`, `TargetsIsWhereItDelivers` | an ad set with platforms and no positions delivers to placements that the plan's `targets` denies (`models/plan.py:261-268`, `duplicate.py:251-259`) |
| `CampaignBuild`, `Drafts <- ThePosts`, `PostsAreDuplicated` | an Instagram post is copied without its Page, which a plan must name: the duplicate is refused (`duplicate.py:289-294`; `duplicate-input.md:64` "an existing-post ad") |
| `ApprovalGate`, `Registries <- FlaggedMaps`, `Inventories <- OneInventory`, `DeclaredIsAsked` | an entry's own `requires_approval` never reaches the table the hook reads (`capabilities.py:106-107`) |
| `Reports`, `OldExports = TRUE`, `ReportIsFinal` | a comparison made days after its export carries no warning that its results were still arriving (`analysis/compare.py:234`) |
| `Reports`, `ReachLengths = {1, 2}`, `NothingCountedTwice` | `report fatigue --days 1` with the documented row of the whole window counts that day twice |

Others, without a configuration: a breakdown over daily rows and window rows of placements counts both; the pacing of a lifetime budget takes its
day from all rows, other levels' too; `check_currency` looks in the table before it looks at the account (`validation/checks_account.py:115-119`);
a copy drops the spend cap and, of an existing post, the Instagram account; `--currency` overrides the source's currency and
keeps its offset; the gate believes a table from an older map that gives a tool a milder class than today's (only
`tests/test_hooks.py:257` keeps the two together).

## 7. Plan

1. Done: `CampaignRecord`, `StateStore`, `CampaignLedger`; `AssetUpload`, `UploadRegister`; `Install`; `Migrations`; `ApiCommands`;
   `Money`, `CampaignPlan`, `PlanChecks`, `Creatives`, `Duplicate`, `CampaignBuild`; `Capabilities`, `ApprovalGate`;
   `Decimals`, `Insights`, `Analysis`, `Reports`.
2. Done: proofs about the first five, the gate, money, `CampaignBuild` and `Reports`.
3. `resume_from` and `reconcile` beside `StateStore`: what a resumed session and a
   comparison with Meta make of a recorded campaign; `CampaignBuild` over that record, with
   crashes between calls.
4. An upgrade as `Install` composed with `Migrations`.
5. Abstract specifications still to be stated: an atomic
   installer (old or new, or says so) for `Install`, a once-only register for `Migrations`.
