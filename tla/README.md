# Verification of AiCoding

TLA+ models of the parts of AiCoding whose correctness depends on the order of
several steps, model-checked by TLC, with theorems checked by TLAPS. Paths
below are relative to the repository.

## 1. The system

`aicoding` is a command-line tool kept in a Git repository. Every command is a
short-lived process; there is no daemon and almost no lock. State lives in

- the worktree, the index and the refs of Git, which the user keeps changing;
- `<git common dir>/aicoding/`, shared by all worktrees and all processes:
  `validation/v1` (Receipts, commit aliases, the cache of tool versions),
  `validation/reports`, the pin cache, the temp ledger;
- `<git dir>/aicoding/work/`, per worktree: the sessions of bounded work;
- `.aicoding/` in the worktree: kit install states, the rollback snapshot, the
  fresh-clone baseline;
- `$CODEX_HOME/config.toml` and component directories: MCP servers.

So the hard behaviours are those of processes that share files without
excluding each other: interleavings of their file steps, a kill between two
steps, a step that fails after others succeeded, and Git state that moves
between the moment it is read and the moment it is used.

### Inventory

| Component | State | Operations | Interacts with | Correct when |
|---|---|---|---|---|
| Evidence store `validationevidence/{store,checker}.go` | Receipt, report files, commit alias of each identity | Put, PutNode, Check, CheckNode, BindCommit, List, Clean | called by runs, hooks, work loop; raced by `cache clean` | a hit is one complete report of one run; evidence is never exchanged; a retry after a failure works |
| Cache retention `cache/{cache,retention}.go` | report, temp, pin, test-result directories | scan, plan, remove | every owner of those directories | removes only what nothing needs |
| Validation run `testengine/{engine,evidence,node_evidence}.go` | subject, results, end state of a run | capture, reuse, execute, recheck, publish, bind | evidence store, Git | a published Receipt tells the truth about its tree |
| Test cases `testengine/engine.go` | slots, processes, deadlines, verdicts | select, run static, command, concurrent and materialized cases, judge | processes | exit 0 means every selected case ran and none failed |
| Toolchain probes `validationevidence/fingerprint.go` | disk cache of tool versions | locate, probe, cache | runs | an identity names the tools and files as they were |
| Push gate `cli/hook_validation.go`, `validationevidence/policy.go`, `gitx`, `pathpolicy` | none of its own; aliases and remote refs | post-commit bind, `check --bind-alias`, pre-push gate | Git, evidence store | a protected ref moves only to validated commits and as the policy says |
| Commit hook `cli/cli.go` | none | five checks in parallel | Git index and worktree | what is committed passed |
| Plan binding `plan/*` | PLAN.md front matter | check, approve, status | Git trees | a change outside an approved scope is seen |
| Change flow `cli/change.go` | none | detect, classify, verify | Git, evidence, engine | green means these paths were validated as the policy says |
| Fresh clone and release trial `freshclone`, `testengine` | clone, baseline | clone, overlay, build, unpack, drift | Git, temp ledger | the trial is of the sources it names |
| Bounded work `loopkit/*`, `cli/work.go` | `attempts.jsonl`, `state.json` | record, next, status | evidence store, Git | a session that loads is in order, of one spec, and stops at its limits |
| Temp ledger `platform/temp.go` | append-only ledger per clone, temp directories | create, record outcome, release | `cache clean --scope temp`, fresh clone, materialize | never removes what is in use or under investigation |
| Kit pins `kit/{pins,materialize,source}.go` | content-addressed pin cache | prefetch, inspect, register, remove | registry, `cache clean --scope pins` | a pin that inspects is complete |
| Kit lifecycle `kit/{actions,plugin_runtime}.go` | install state, sources, plugin, one rollback snapshot | install, update, uninstall, rollback | pins, Codex CLI | rollback returns to the state before the last action; a source survives a fault |
| Kit export `kit/export.go` | zip, digest, manifest | bundle, package | worktree | zip, digest and manifest agree |
| Scaffolds `kit/init.go`, `cli` | new files, registry, policy | kit, skill and mcp init | registries | all or nothing |
| Repository init `repoinit` | Git configuration, skeleton, markers | init, status | worktree | markers tell the truth |
| MCP lifecycle `mcpcontrol/lifecycle.go` | venv, managed block of the Codex config, install state | install, update, uninstall, status | Codex config, Python | all three agree after every outcome; foreign config survives |
| MCP probe `mcpcontrol/probe.go` | process or HTTP session | initialize, list, close | any MCP server | in order, ends, leaks nothing |
| Repo context `repocontext/*` | owned artifacts, manifest | install, sync, uninstall | worktree | only owned files are touched, what may have drifted is known, status is true |
| Runner `runner/runner.go` | slots, context, results | run tasks in parallel | lifecycle, checks | every task has one result; green is earned |
| Lifecycle composition `lifecycle/*` | none | fan-out to kit, MCP, runtime skills, repo context | those | the report tells of every adapter |
| Governance `governance/{dependencies,dependency_inventory,layout}.go` | policy, registries, tree | dependency and layout gates | worktree | green means every edge and path is allowed |
| Command line `cli/{cli,catalog}.go`, `report/result.go` | none | routes, flags, refusals, answers | all | exit code, ok and advice agree |
| The rest: race scope, document commands, registries, catalogs, rendering, leaf checks | none | read files, return a verdict | | each rule on its own |

`PROJECT.json` lists every component with its status and the reason where it
is not modelled, and under `hazards` each thing that is hard to test at its
line, with the properties that cover it.

## 2. Modules

The modules of one component share no state with those of another unless the
table says so: where the program's parts meet, they meet in files and in Git,
and the module of a part has in it what the others do to those files.

| Module | Models | Builds on |
|---|---|---|
| `EvidenceRegister` | what the evidence store promises: one register per identity | |
| `EvidenceStore` | the file steps of Put, Check, Clean and of the report purge, with `putMu`, crashes and failures | implements `EvidenceRegister` (INSTANCE WITH) |
| `StoreScenarios` | three ways the store is used: one process, processes that agree, cleans apart from Puts | extends `EvidenceStore` |
| `ValidationRun` | a validation run on a worktree that moves; the store's operations as single steps | |
| `CaseRun` | the cases of one run: processes, deadlines, slots, exit code | |
| `PushGate` | binding of aliases, the pre-push gate, the transfer | extends `ValidationRun` |
| `ToolchainCache` | the identity of the toolchain and its cache | |
| `WorkLoop` | `work record` and `transition.Decide` | |
| `TempLedger` | temporary directories, their ledger, `cache clean --scope temp` | |
| `PinCache` | prefetch, install and clean of pinned sources | |
| `KitLifecycle` | install, update, uninstall, rollback, plugin refresh | |
| `KitExport` | the bundle and the package of a kit | |
| `Scaffold` | kit, skill and mcp init with their rollback | |
| `RepoSetup` | `init` of a repository | |
| `McpLifecycle`, `McpProbe` | MCP components, and one probe of a server | |
| `RepoContext` | generated context and its manifest | |
| `GitTrees` | HEAD, index, worktree, the user, the path lists of Git | base of the next four |
| `PlanBinding`, `ChangeFlow`, `FreshClone`, `CommitHook` | plan mode, change verify, trials on a copy, the pre-commit hook | extend `GitTrees` |
| `TaskRunner` | a batch of the runner, and how callers gather it | |
| `LifecycleRun` | a request over the adapters | extends `TaskRunner` |
| `Governance` | dependency and layout gates | |
| `CommandLine` | routes, refusals, answers, a user who follows the advice | |
| `MC*` | the instances for TLC; `MCEngine`, `MCWorkbench`, `MCHousekeeping`, `MCLifecycles` and `MCServices` put several components into one run | each extends its modules |
| `*Proofs` | the theorems | each extends its module |

The composite `MC` modules have a variable `part`: a behaviour is one of the
named part, and the variables of the others stay in one state. The components
of a part share no state, so the states of the run are those of the parts one
by one, and a property is guarded by its part only where the others sleep in
states that are none of its own.

### EvidenceStore and EvidenceRegister

A *slot* is the exact path of a validation identity. `receipts` is its Receipt
file; `made`, `files` and `published` its report directory, the files left in
it and the reports that were published there; `aliased` the slots a commit
alias names. The bytes of a report are a *revision*: reports of whole trees
hold times, so that each publication has a new one; node reports are a function
of the statuses. A writer goes through `Put` (validation of the call),
`Acquire` (`putMu`), `OpenReceipt`/`ReadFile` (`readStoredReceipt`), then
`Publish` (staged directory renamed into place) or `PublishBlocked` (a
directory is there already: adopt it if it is complete), and `Record` (the
Receipt by temporary file and rename). `Check` first does `Stat`. `Clean`
visits the directories and removes Receipt, report files one at a time, then
the directory; `Purge*` is `cache clean --scope validation-reports`.
`CrashHandle` and `CrashRemover` kill a process anywhere.

`EvidenceRegister` forgets the files: a register holds one piece of evidence or
nothing, evidence is put into an empty register and only ever removed, and an
answer is what a call saw at one moment. The mapping reads a register as full
when the Receipt is there with the whole report it names. It covers the slots
of whole trees; a node report is a function of its statuses and may be
published twice with equal bytes.

`StoreScenarios` says under which circumstances the promises are made: in *one*
the goroutines of one process Put while readers check and cleans remove, in
*processes* several processes come to one conclusion and nobody cleans, in
*apart* a clean runs only when no Put does. A scenario restricts which calls are
made and when, never what a call does.

Assumed: one profile, files are not tampered with, reads do not fail
transiently. `PurgeVisit` decides on a directory in one step, and the
verification of the alias's Receipt in `Bind` is one step.

### ValidationRun and CaseRun

`git` is the user's repository: `commits`, `head`, `index`, `work`. The user
stages, commits and amends at any time, and edits files between runs or, where
`EditDuringRun` says so, at any time. A run reads the status and the tree of its
subject (`Begin`, `ReadTree`), looks the tree up, plans each node against node
Receipts, executes what is left on the *worktree*, captures the subject again,
and publishes whole-tree and node Receipts and the alias of HEAD. Test cases are
an arbitrary function `Verdict` of the tree, constrained only by
`RunAssumption`: the verdict of a case depends on the paths its node owns. That
is what node reuse relies on in the code and what it cannot verify.

`CaseRun` opens the execution: the cases of a profile in order, static ones,
commands under a deadline of their own and that of the run, those that run
concurrently over slots, and the materialized one with the processes it starts;
what is judged to be a pass, and with which code the command ends. A panic is an
outcome of its own.

### PushGate

Adds `remote` refs, binders (the post-commit hook, which reads commit and tree
of HEAD in two parallel tasks, and `validation check --bind-alias`) and
pushers. A push names objects; the gate checks its updates one by one
(`GateRef`, `GateAlias`, `GateReceipt`), any rejected one rejects the push, and
Git then sends the refs one by one. Assumed: every push goes through the hook
(`--no-verify` is outside the program), and the remote compares and swaps, as
the Git protocol does. The check that configured gate refs are well-formed is
left out.

### WorkLoop

`log` is `attempts.jsonl`, `state` the projection `state.json`. A recorder
loads both, looks up the gates of the WorkSpec, checks the write scope,
decides, loads both *again* (inside `workstate.Record`), appends, renames the
new `state.json`. `Crash` may leave half a line. `Decide` is a total function
of the history, the satisfied gates, the scope and the clock, in the order of
the code. `work next` and `work status` only read and have no action. A line
is appended whole unless the process is killed.

### TempLedger

An owner is one call of `FreshClone` or of the materialize check:
`CreateTempDir` (`MakeDir`, `Register`), the work, and its end: release
(`Releasing`, `RemoveDir`, `Released`) or a last record, `failed` or
`investigating` (`RecordOutcome`). A clean lists (`Clean`), plans from the
ledger (`ReadLedger`, where `--adopt` and `--all-repos` are chosen) and works
through its plan, with the records before and after each removal. `latest`,
`later` and `aged` are what readers take from the ledger: the last record of
each directory, which is the later of two, and which are 24 hours old. `Tick`
lets records turn old only while no process is at work: no command runs for 24
hours. `disowned` is history: what some clean has adopted.

### The lifecycles

- `PinCache`: an entry is the set of its parts in place. A prefetch builds in a
  staging directory and renames; the loser adopts a complete entry. A clean
  removes part by part what the registry does not reference *when it scans*.
- `KitLifecycle`: states and sources are numbers of the manifest version they
  were made from; `replacePinnedMaterialization` is its two renames, the plugin
  refresh is remove and then add through the Codex CLI, the snapshot is written
  before the kits are handled in order.
- `KitExport`: collect, zip file by file, remove and rename, read again for the
  digest, one digest per file from the worktree, manifest, digest file.
  `os.WriteFile` is a truncation and a write.
- `McpLifecycle`: the configuration is a sequence of tokens that is read whole,
  edited, and written in place: `os.WriteFile` cuts the file off and then writes
  from its beginning, so that of two writes that overlap the end of the longer
  text may stay behind the shorter one (`mixed`). The venv is staged and renamed,
  and each failure takes its recovery path.
- `RepoContext`: a scan, then the artifacts one by one, then the manifest. A
  digest that agrees with the manifest is skipped without a look at the disk.
  `stray` is history: the files that a hand, a call that broke off, or a time of
  two calls at work may have left otherwise than the manifest has them, and that
  no call working alone has written or removed since. Everything else is in order.
- `Scaffold`, `RepoSetup`: the files in order, the authorities rewritten from
  what was read at the start, steps back in reverse order.

### Plan mode, change verify, trials, hook

All stand on `GitTrees`: three trees, the user who edits, moves, deletes, stages
and commits, and the lists as Git makes them (`DiffTreeFiles` pairs renames and
shows the new name only; the filter ACMR of `StagedFiles` drops deletions and
changes of type, a file that became a link or a link that became a file;
`CommitFiles` prints nothing for a commit that has not exactly one parent). Every
read of Git is a process and so a step of its own. `PlanBinding` has the hook's
`plan check`, `plan approve` and `plan status`, where the scope is matched before
the exempt paths; `ChangeFlow` the detection in four modes, the profile by the
impact policy, the Receipt or the run; `FreshClone` the clone of HEAD with the
worktree laid over it, the baseline, and the drift advice; `CommitHook` the five
checks that read index and worktree, each at its moment. `ChangeFlow` and
`FreshClone` have no links among their files.

### ToolchainCache and RepoSetup

An executable is its path and a `stamp`, its size and time. Any change of a tool
may bring any stamp, a new one, the one it has, or one it had before (a restored
file, a link that is switched back); `recycled` is history: the tools that took a
stamp under which another version is filed, or about to be. `RepoSetup` is the
list of steps of `init`, its last ones the markers.

### Runner, lifecycle, probe, command line, governance

`TaskRunner` is `runner.Run`: goroutines, the semaphore, cancellation by a
deadline or by a failed critical task, panics, and the two ways in which callers
gather a batch. `LifecycleRun` runs the selected adapters as such a batch.
`McpProbe` faces a server that does what it likes. `CommandLine` has the route
table as data, the refusals of each handler as a predicate over what is asked
for, and `Execute`; of what an operation changes it keeps the evidence and the
pinned kit, which are what an answer finds missing. A test that exits with 0 may
publish no Receipt, which its report says (`published`). `Governance` has the two
gates as operators over the policy, the registries and the files, and the developers who edit these, stage, commit,
and run the gates or do not: `contents` is the worktree as the marks a rule looks
for, `tracked` and `staged` what Git has of it, `depGate` and `layoutGate` what
the gates said last of what is there now, and `ungated` whether a commit went by
a green layout gate.

## 3. Runs

A configuration fixes the constants; the bounds (`Max...`) stand in the guards of
the actions they bound.

| Run | Asks | Instance |
|---|---|---|
| `store` | a hit is one report; a retry succeeds; processes converge; Receipts immutable; the register is implemented | three scenarios that start in their own states: *one process* (two goroutines, two Puts, a reader, a clean), *processes* (three, one conclusion, four Puts, nobody cleans), *apart* (two goroutines, three Puts, cleans that never meet a Put); two report files |
| `store_fair` | does every Put return, does a clean remove the evidence | two writers, a clean, a purge that crashes; a tree and a node identity; weak fairness |
| `run_sound` | Receipts tell the truth, a reported PASS is one, exit 0 is earned | two runs at once, two paths, two nodes, two versions, edits between runs, two commits; beside it the cases of one run: five cases in eight configurations |
| `push` | protected refs move only to passing trees and as the policy says; an alias names its own tree | two pushers, a protected and a free ref, three commits, one run, one binding, two pushes |
| `work` | a session that loads is in order and of one spec, stops at its limits, ended validated; the gates of governance, the commit hook and the scaffolds | two recorders that crash, five records, four attempts; two edits of the tree or the policy; two scaffolds with two faults and one file of the user |
| `housekeeping` | temp directories, the toolchain identity, repository init | three owners, two cleans, two worktrees; two processes, three identities, two changes of the machine among two stamps and two versions; three inits, three harms |
| `lifecycles` | MCP components, pins, kits, context, export | two processes and two calls on two components; two fetchers, an importer, a cleaner with a Git and a content pin; three kit calls with two faults on a pinned and a plain kit; three context calls, of which two may meet and the last is alone, one change of the facts, one edit; two exporters, two exports, two touches |
| `services` | runner and lifecycle, probe, plan mode, change verify, fresh clone and release, command line | batches of three tasks over one or two slots; two requests; each transport with one message of noise; two edits, one approval, two change calls, one clone; every command on every repository of the model |
| `store_retry_violation` | *expected violation* | a clean killed between two report files |
| `run_dirty_violation` | *expected violation* | an edit during a run |
| `work_limits_violation` | *expected violation* | two recorders |
| `sensitive_violation` | *expected violation* | a deletion, rename or change of type of a sensitive file |

Two of each actor is where interleavings of this code begin to matter: no
handler looks at more than one other actor's effect. The exception is the race
of three processes for one identity, of which two lose and could still be told
apart by the third. Two report files distinguish "all" from "the first". Three
commits are the smallest history with two branches. Three directories in two
worktrees are the fewest with which a clean of one worktree and one of all
retain different failures. Three kit calls are an action, one that fails, and
the rollback or retry. The view of `run_sound` leaves out the locals of a run
that has ended, which `Begin` and the steps after it set before they read them,
and its symmetry exchanges runs. In `work` recorders, and processes of scaffolds,
are alike, so that one of them is the one that begins; in `lifecycles` the
processes of a part make their calls in turn, each call being a process of its
own. The gates pass on one tree in the plan mode of `services`.

The type invariants are checked by the proofs where there are any, on the same
instances otherwise; they are not among the properties of the runs, which are
about what could be wrong.

### What disagrees

| Run | What happens |
|---|---|
| `store_retry_violation` | a `clean` killed between two report files leaves a directory that no later Put can adopt or replace |
| `run_dirty_violation` | a run whose worktree changed while it ran still publishes |
| `work_limits_violation` | two recorders both decide before either appends, so an attempt lands after the stop |
| `sensitive_violation` | a sensitive file that is deleted, renamed away or replaced by a link is in no list, so no plan has to cover it |

`PROJECT.json` quotes the lines under `findings`.

Limits of the code that the models show and that no run states:

- `ReceiptImmutable` holds where the writers share `putMu` or come to one
  conclusion. Two processes whose runs of one identity pass with different
  statuses each publish, and the second Receipt replaces the first.
- A Put that meets a clean may leave what a killed clean leaves.
- `cache clean --scope validation-reports` may remove a report that became
  referenced between the scan and the removal. Readers then see a miss, never a
  mixed report.
- A work session in `checkpoint` refuses every later attempt: there is no
  command that resumes it.
- `--adopt` takes whatever the ledger of this clone does not name: a directory
  made but not yet registered, or one of another clone.
- Each record renews the time of its temp directory, so that a clean killed
  after its first record protects the directory for 24 hours.
- An uninstall of an MCP component that is killed is repaired by no update.
- A failed export may leave its temporary zip; two exports at once may leave the
  digest of each other's zip.
- A killed clean of the pin cache leaves an entry that can be neither used nor
  prefetched again until it is removed.
- The plan hook reads specs from the worktree while the index is committed.
- The cache of tool versions knows an executable by path, size and time. When a
  tool takes a stamp under which the cache has another version, the identity
  names that version; `IdentityWasTrue` speaks of the tools to which this has
  not happened.
- Two writes of the Codex configuration that overlap may leave a server in it
  twice. Until then no server stands there twice, and the user's text survives
  even then.
- An update of the repository context looks at the manifest, not at the disk: a
  file that the manifest records as wanted is not put right when it was edited,
  deleted or cut short, until its facts change or an uninstall removes the
  manifest; `doctor` reports it. What a call without a manifest leaves behind
  stays. `ContextIsAccountedFor` names these files; it does not say that they are
  repaired.
- `plan status` matches the scope before the exempt paths. Under a scope that
  takes in the plan's own PLAN.md, the rewrite by which the approval marks it
  approved counts as a change of the scope.
- In head mode `change verify` finds no changes in a merge or a root commit and
  takes the default profile.
- A test may exit with 0 and leave no Receipt: a required case ended with a
  warning, what was tested changed meanwhile, or the store failed. `validation
  check` then advises the same test again; the advice leads on when the report
  says that the run is reusable.
- Of two inits that rewrite one registry at once, the later write drops the entry
  of the earlier (`touched` exempts this from `InitIsAllOrNothing`).

### Fairness

`store_fair` has weak fairness of the steps of a call that has begun (a
goroutine that can run is scheduled, a system call returns), of the unlock on
return, and of a clean that was started. `services` has weak fairness of the
goroutines of a batch (`RunBatch`, `Wait`, the steps of each task: a task
returns, since a stuck one is what its own deadline is for) and, of a probe, of
its own steps, its timers and `command.Wait`; the server owes nothing. Starting
a call, crashing, editing and answering are never fair. `CHECK_DEADLOCK FALSE`
stands where the bounded commands of all processes may have been used up.

## 4. Proofs

The theorems hold for every value of the constants that satisfies the named
assumptions: any number of processes, nodes, kits, pins, tasks and versions, and
calls without bound. Each has the same shape: an inductive invariant, a lemma
that it holds initially, one lemma per action or group of actions that it is
preserved, and one temporal step. What follows is what makes each invariant
inductive.

- **EvidenceStoreProofs**: `StoreTypeOK`, `StoreHitIsOneReport`,
  `StoreReceiptImmutable`, `StoreImplementsRegister`, `StorePutsAgree`,
  `StorePutsConverge`, `StoreRetryCanSucceed`, and the four on the scenarios.
  A hit needs that the revisions read one by one were all there *when the
  Receipt was read*. What a reader has matched so far is what the directory
  holds, or the report is *doomed*: some file it has not read is gone, or a newer
  revision has taken its place, and it cannot match any more, because a directory
  only loses files until it is removed and a new publication has a new revision.
  This one holds whatever the processes, purges and crashes do. The others have a
  hypothesis on the behaviour and are false without it: `OneProcessPuts` (the
  Puts at work at a time share `putMu`), `Agreeing` (processes without a common
  lock, one passing conclusion per identity, no removals), `Orderly` (either of
  the two; for immutability and the refinement), and for the retry `Apart` with
  `NobodyKillsRemovers` (removals run one at a time, meet no Put and are not
  killed).
  Of the scenarios, `StoreProcessesConverge`, `StoreApartRetrySucceeds`,
  `ScenariosImplementRegister`, `ScenariosReceiptImmutable`: every behaviour of
  `ScenarioSpec` is one that keeps such a hypothesis at each step. In *one* and
  *apart* whoever is not of the process is asleep, so that the Puts at work share
  `putMu`. In *processes* the runs bring one conclusion and no Put is refused for
  it, so that every status, every Receipt on disk and every Receipt in the hands
  of a process says the same (`AgreedOn`), with no removal at work (`Harmony`,
  `ScenarioInv`). The retry assumes `NobodyKillsRemovers`, an assumption on the
  constants.
  The refinement maps a slot to a full register when its Receipt is there with
  the whole report it names, and maps each step to a step of the register or a
  stutter.
- **ValidationRunProofs**: `RunTypeOK`, `RunAliasNamesOwnTree`,
  `RunReceiptsSound`, `RunPassIsTrue`. The last two assume `EditDuringRun =
  FALSE`; with edits they are false (`run_dirty_violation`). Every status a run
  holds is the verdict on its tree (`Faithful`), and `RunAssumption` carries it
  from one tree to another that agrees on the paths of the node.
  Of `CaseRun`, `CaseTypes` and `CasesZeroExitIsEarned`: every case up to the one at work has
  failed, is sound or was not asked for, and where the run ended early a failed
  case is in its report. A case that is skipped, timed out or left to a cancelled
  context must have got there through one of these three.
- **PushGateProofs**: `PushTypeOK`, `PushProtectedIsValidated`,
  `PushPushesObeyPolicy`. Commits only grow, so what the gate saw of a commit's
  tree stays true; a Receipt, once seen for the tree, proves that the tree passes
  whatever is cleaned later. For the policy, an update the gate has examined
  stays allowed (`PolicyInv`): ancestry is defined by the sets of commits closed
  under parents, so that it survives a longer history without an induction, and
  the remote compares the old value when it swaps.
- **WorkbenchProofs**: `WorkTypeOK`, `WorkLoadsInOrder`, `WorkLoadsOneSpec`,
  `WorkSatisfiedWasValidated`, `WorkAloneWithinLimits`. Behind the first is
  `Sound \/ Doomed`: the log is in order and the recorders that passed the second
  load agree with it, or log and projection have parted in a way no later step
  mends, so that the session never loads again. The limits hold `alone`, as long
  as no recorder has begun beside another (with two they are false,
  `work_limits_violation`): then what the one at work has read is still what
  the files hold, and its decision to go on is one within the limits.
  `HookChecksCommit`: while nobody moves the index, a check that ended without
  an error speaks of the index that will be committed, although it reads one
  thing after the other, and partly from the worktree; what it has read so far
  is good in the part of the index where worktree and index agree.
  `ScaffoldAllOrNothing`: the files an init has made are its own, and one that
  nothing disturbed has changed those and the authorities it rewrote and nothing
  else, at every step forward and back, so that a rollback that removes the first
  and restores the second leaves what there was before.
  `GovernanceTypes`, `GovernanceKeepsTheRules`: what a gate said last is still
  true of what is there, since every edit takes the answer back, and a tracked
  file that nobody has staged is in its place unless a commit went by the gate
  (`GovernanceInv`). That a green gate means that the rules are kept is shown of
  the operators. No component reaches up: those of a layer no higher than its own
  are closed under dependency, and what a component reaches is in every closed
  set (`NothingAbove`), which needs no induction over paths. No file on disk
  escapes: each directory on the way down to a file below a root the policy names
  is above that root or below it (`InsideSelf`), so that the walk of the inventory
  enters it, and the rule sees the file (`InventoryIsWhole`, `FilesObey`). One
  binding each: ids are unique on both sides, and both have the same
  (`RegistriesCovered`).
- **HousekeepingProofs**: `TempTypeOK`, `TempReleasedIsGone`, `TempSparesOwners`,
  `TempKeepsFailures`.
  What a clean has read may be out of date when it removes an entry; what follows
  from it is not. A directory without a record of the last 24 hours has no owner
  at work (`Quiet`), one that its owner kept is recorded as under investigation
  until somebody adopts it (`KeptIsRecorded`), so the owner of an entry has ended
  when the plan is made, and stays ended (`Planned`). That enough failures stay
  is not a matter of what one clean retains, since another with a wider scope may
  remove it: among the old scenes that are there, `Keep` are later than any one
  that some clean plans to remove (`Ranked`). Taking a planned scene out of the
  order leaves those that are later than it, which are later than every older
  one too; so `Keep` are left, and the others stay ranked (`Enough`).
  `ToolTypeOK`, `ToolIdentityWasTrue`: a version that is filed, or about to be,
  under a stamp is the present one when the stamp is, and every computation that
  has located this stamp has seen it while it was under way, whoever asked for it;
  unless the tool is recycled (`Fits`). A change of a tool keeps this: either
  nothing else is filed under the stamp that it brings, or it recycles the tool.
  `SetupHonest`: every step of init before the one it is at is in place while the
  user leaves the repository alone, and the markers are the last steps. Assumed
  is that no step is listed twice, as in the lists of the code (`SetupAssumption`).
- **KitExportProofs**: `ExportTypes`, `ExportPackagesAreSound`. A zip that is
  about to be renamed is whole (`ZipIsWhole`), so what lies at its place is
  (`PackageIsWhole`); an exporter nobody has disturbed has in its zip, digest and
  entries what the worktree holds (`Follows`).
- **LifecycleProofs**: pins, context and kits.
  `PinTypes`, `PinGitPinsAreWhole`: an entry of a Git pin that no clean is taking
  apart is absent or whole, since it comes by one rename; a fetcher that lost the
  race, and an importer at each step of its copy, know it (`EntriesInv`,
  `FetcherInv`, `ImporterInv`).
  `CtxTypes`, `CtxContextIsAccountedFor`: a call that works alone knows the
  manifest, and the files that are not stray are as the manifest has them but for
  those it has still to change (`CallInv`); between calls they all are (`AtRest`).
  A call that breaks off adds to the stray files those it was to change, so that
  this is kept; while two calls are at work every file is stray, and nothing is
  left to show until the next call works alone.
  `KitTypes`, `KitSourceSurvivesOneFault`, `KitRollbackRestores`,
  `KitLostPluginIsReported`: the two renames of a replacement leave, at each
  step, the old or the new source under one of its two names; a second fault may
  strike between recovery and retry, so that the invariant counts up to one
  (`SourceInv`); the snapshot has the state of each kit that the action has yet
  to write, or has written since (`SnapshotInv`).
  `McpTyped`, `McpSound`: the texts that calls read, write and back up are sane
  (no server twice, and a managed section is closed where it was opened), which
  cutting a section off, replacing it, appending one and removing one keep, until
  the end of one text is left behind another (`mixed`). The
  user's own part is the beginning of a backup from before the first write on
  (`KeptInv`). While calls have not overlapped, what the text that the one at
  work has read registers is installed, the environment it set aside included,
  and its backup is that text once it has changed the configuration (`OneCall`).
  Assumed is that the user's configuration defines no server twice, which the
  Codex CLI would refuse to read (`McpAssumption`).
- **ServiceProofs**: `RunnerGreenRanEverything`, `LifeGreenIsEarned`,
  `ProbeTypes`, `ProbeOrder`, `PlanKept`, `PlanApprovalBinds`,
  `ChangeGreenIsSound`, `CloneTriedAsClaimed`. A skipped task counts as OK; but
  nothing is skipped while the context is good, a context that a failure
  cancelled has a failed task to show for it, and where a deadline cancels, the
  callers gather data and a skipped task has none (`Results`). A task that has handed anything over was
  begun, once (`BegunOnce`). Over the adapters, a pass means the goal was reached
  (`Reached`). In a probe the answers taken and the requests left are together
  the requests asked (`ProgressInv`), what a message answers is told by its id
  (`WireInv`), and the single answer to initialize decides whether there is a
  session (`SessionInv`).
  Plan mode, change verify and the fresh clone read Git in several steps while
  the user works, so each invariant ties what has been read to the trees as they
  are, as long as nobody has moved what the call has read, and says nothing of it
  afterwards: the PLAN.md that is approved and HEAD (`stirred`), the worktree of
  `change verify` (`moved`), the two trees of the clone (`calm`). Plan mode: a path
  the hook let pass has been covered by an approved plan at some time, and HEAD has
  changed such paths only, but for those whose type a commit changed (`HookKept`);
  what is approved is HEAD's (`ApproveKept`), and the scope in force is the approved
  one while nobody touches the PLAN.md (`ScopeKept`). Change verify: the paths a call goes
  by are all that has changed but for the old names of renames and for a commit that
  has not exactly one parent (`Covered`), and a
  Receipt or a test of the captured tree speaks of the worktree, since whatever
  is captured as not dirty *is* the worktree (`CapturedIsWorktree`, `RunKept`).
  Fresh clone: every file of the copy is that of HEAD or that of the worktree
  according to the lists worked through so far, and the five lists together are
  the difference between the two (`CloneKept`, `OverlayIsTheWorktree`).
  `RunnerKeepsTypes`, `LifeKeepsTypes`, `PlanKeepsTypes`, `ChangeKeepsTypes`: the types; that a scope
  in force is one of patterns needs that the plans of the worktree name such only
  (`ScopesNamed`).
  `CommandAnswersAreHonest`: one lemma per handler says what its replies are like
  (`Plain`, or `Honest` where the level asked for matters), for every invocation
  whose words are those of its command (`WellFormed`) and whatever the work below
  comes to, and `FinalizeDecision` with `Execute` makes of such a reply an answer whose exit
  code, decision and category agree (`Finalized`, `SettledHonest`). That advice
  leads on is the one part about several calls: between a refusal for missing
  evidence and the next try, the repository holds what the advised call has left
  there when it succeeded and, if it was a test, said that its run is reusable
  (`Followed`, `CommandInv`).

Every safety property and every action property of the passing runs is stated by
a theorem. Model-checked only is liveness (`PutEnds`, `CleanRemovesEvidence`,
`EveryServiceEnds`): fairness and ENABLED are out of the provers' reach.
`Scaffold`, `CommitHook` and `FreshClone` have no type invariant of their own; the
proofs state what they need of it (`ScaffoldTypes`, `HookTypes`, `CloneKept`,
`ReleaseKept`).

Assumed of the constants, beside their types and what is named above: a task with
a deadline hands over data (`RunnerAssumption`), and there is a pattern for a plan
and a request to begin with.

The composite runs state a property of a component for the part that is at work;
the theorem is about the component, of whatever part the run has.

## 5. Not modelled

Contents of reports, wording, JSON encoding, path normalisation, Windows
specifics; Git itself; the checks that read files and return a verdict each on
its own (race scope, document commands, registry and structure checks, leaf
checks of governance, repository health, documentation policy, the C style
tools), for which a unit test is the right tool; catalog snapshots and rendering;
`CodingKit` content and the PowerShell scripts; tampering with files and
transient read errors of the store; more than one validation profile. Of the
modelled parts, left out: `governance` on README badges, prompt ownership and
skill dependency policy; the verbose forms of the command line; the files in
which a probe's server is configured.

## 6. Plan

1. The operations that `PROJECT.json` names as left out of a component whose status
   is *partly*, beginning with the node evidence of cases that read what their
   node does not own.
2. The leaf checks of governance and of the registries, each as an operator with a
   reference definition.
