# workspaced, modelled in TLA+

This directory holds TLA+ models of the parts of workspaced where order,
concurrency and failure decide whether the program is right, the TLC runs that
check them on small instances, and TLAPS proofs of the properties the rest of
the program stands on.

Every definition is translated from the Go source; `PROJECT.json` maps each one
to the lines it stands for. An action is one critical section or system call of
one goroutine; between two actions any other goroutine, process or the user may
act. Data is kept only as far as a property tells it apart.

```
tlc -workers 2 -config MCTaskGroup_chain.cfg MCTaskGroup
tlapm TaskGroup_proofs.tla
```

1. The system — 2. The modules — 3. The runs — 4. The proofs — 5. Where the code
and its documentation part — 6. What is not modelled — 7. Plan

## 1. The system

workspaced deploys a user's dotfiles (`home apply`) and a code base's generated
files, installs and runs pinned tools, lints and formats, backs up, keeps the
shell history, builds and deploys NixOS machines, and routes an editor to
language servers. A command enters a session, whose root task group runs all of
its work; the group's tasks load a configuration, fetch sources and tools into a
cache, plan and write files, and report progress. A daemon may run commands in
its process.

| Component | State it keeps | Operations | What is hard | What makes it correct | Here |
|---|---|---|---|---|---|
| Task engine (`pkg/taskgroup/taskgroup.go`, `task_collection.go`) | tasks, live collection, three semaphores, wait groups, contexts | Go, runTask, finishTask, Wait, SubGroup, Isolate | a goroutine per task, selects with two ready arms, pruning, cancellation, one semaphore for all nested groups | slots are accounted for; a fn runs after its dependencies; Wait is a join; failures stay in their group; nesting never deadlocks | `TaskGroup`, `TaskContract` |
| Map and Each (`pkg/taskgroup/map.go`) | orchestrator, results, error | Run | the caller's select on done and its context; serial chains by task id | Run joins its items and loses no failure; serial items keep their order | `MapRun` |
| Session (`pkg/taskgroup/session.go`, `linewriter.go`, `cmd/workspaced/root.go`) | hooks, UI program, captured stderr, terminal flags | Enter, AfterWait, Close | hooks against Close, the lazy UI, a pipe for stderr, an impatient user | no line is lost; hooks run last, once, on the real terminal | `Session` |
| Progress UI and logging (`pkg/taskgroup/bubbletea.go`, `pkg/logging`) | handlers and flags of every group, bars | startUI, SubGroup, record, tick, sync | handlers are copied to groups while groups are made; snapshots while tasks come and go | a record is shown once, at its place; a task has one bar | `Display` |
| Live rows (`pkg/taskgroup/linefilter.go`) | unread bytes, line, cursor | Write | a read may end inside a sequence or rune | chunks do not matter | `Row` |
| HTTP progress (`pkg/driver/httpclient/progress.go`, `pkg/driver/rsync`) | an Internet task per request | RoundTrip, body close | hand-over of a response against cancellation | slots bound the bodies; none is leaked; the task ends | `HttpProgress` |
| Driver registry (`pkg/driver`) and configuration (`internal/configcue`) | factories, weights, cached checks; files | Register, SetWeights, Get; load | cached verdicts, checks that need drivers, weights of the process set by each load | a Get returns | `Config` |
| Module and source references (`internal/configcue/loader.go`, `internal/module`, `internal/modfile/module_ref.go`) | none; lock rows | resolve an input, a module, an item | three pieces of code with rules of their own | they lead to one place | `Sources` |
| Desired-state pipeline, self/place/icons modules, icon themes, dconf | files gathered, warnings, cached bundles, marker | scan, expand, concatenate, check; generate; load | workers in parallel, a bundle cached by its fingerprint | every file has one place; a cached bundle is whole | `Pipeline` |
| Deployer and dotfiles manager (`internal/deployer`, `internal/dotfiles`) | files, `state.json` | Apply: plan, execute, save | parallel items, faults between write and save, .gitignore and the user changing things between | success means converged; the state names what was deployed; nothing foreign is touched | `Deploy` |
| Source cache, tool install, `internal/atomicfile` | cached directories, temp and old siblings, per-key mutexes | EnsureCachedDir, EnsureInstalled, ReplaceDir | callers in one process and several, crashes in the swap | the live tree is whole and is not lost | `Materialize` |
| Lock files, lazy tools, source providers (`internal/modfile`, `internal/tool/lazy.go`) | `workspaced.lock.json`, source cache | mod lock, refresh, resolve | read-modify-write; pins taken over from earlier runs | what is locked changes for a reason, and is what runs | `Locks` |
| Tool backends and GitHub (`internal/tool/backend`, `internal/githubutil`) | token of the process | list versions, choose an asset, fetch | the token's lookup may install the program that is asked for it | the right asset; no lookup within itself | `Releases` |
| Shims and version resolution (`internal/tool`, `internal/tool/resolution`, `internal/semver`) | tool directories | RunTool, Resolve | a directory read while an install replaces it | the program asked for, or the newest | `Shims` |
| Self-install and self-update, artifacts (`cmd/workspaced/selfupdate`, `internal/tool/backend/install`) | the binary, its temp files, the shim | copy, download, unpack, move | the binary runs while it is replaced | the fixed path names a whole binary | `Update` |
| Daemon (`cmd/workspaced/daemon`) | connections, output channel, restart flag | handleWS, handleRequest, restart | pump, reader and handler; exec under other connections | a command happens once, and as told | `Daemon` |
| Shell history (`internal/db`, `cmd/workspaced/utils/history`) | table, transactions | record, ingest, list, search | recorders, the daemon and an ingest at once | kept once, with its time; searches show the newest | `History` |
| Backup (`internal/backup`) | working trees, remotes, archives | git sync, archive, rsync | steps that fail half-way through a rebase | nothing in a tree is lost; success means it is away | `Backup` |
| Checks, lint, format, review (`internal/checks`) | results, reports | Detect, run, decode, annotate | tools that fail while siblings succeed; line numbers of a diff | silence is good news; annotations are of added lines | `Checks`, `Review` |
| Queue of root commands (`internal/sudo`, `cmd/workspaced/driver/sudo`, `internal/nix/gc.go`) | a file per slug | add, approve, reject, cleanup | no lock; generations change between the reading and the cleanup | a request waits until decided; what is in use is kept | `Sudo` |
| Nix builds and deploys (`internal/nix`, `cmd/workspaced/utils/nix`) | build cache, stores, generations | build, copy, rebuild, deploy | the flake is edited, stores collected, nodes rebooted meanwhile | builds are current; done means done | `Nix` |
| LSP proxy (`internal/lsp`) | documents, language bindings, backends, pending requests | initialize, message loop, ensureLanguage, forwarding, merging, closeAll, Backend | answers, timeouts and exits race; a goroutine per notification | one answer per request, with all that was said; servers follow documents; none is left running | `LspProxy`, `LspRoutes` |
| Palette, desktop drivers, other providers and formats, command line, helpers | mostly none | sequential | external programs, floating point | | section 6 |

How they interact: everything above runs as tasks of the engine. The planner,
the executor, linters and backups use Map; installs and the source cache are
called from tasks and take their context; a configuration load resolves sources
and gets drivers; an apply runs the pipeline and then the deployer; shims read
what installs write; the proxy runs tools that the tool manager resolves; the
daemon runs commands that otherwise run in the client.

Composition follows these lines. `MapRun` EXTENDS `TaskGroup` and calls its
actions, and is proved to run on it. The other modules use of the engine what
`TaskGroup` and `MapRun` show (a bounded number of items at work, the first error
cancels those not yet started, Run joins): `Deploy` as `TakesSlot`, `Cut` and
`MapOver`, `Checks` as the items of `Schedule` and `MapReturns`, `Backup` and
`HttpProgress` likewise. `Locks` ends a lazy tool's resolution in an install, whose
steps are `Materialize`, whose parts are written by `Releases` and `Update`; `Shims`
has of such an install what a reader of the directories can tell apart.

## 2. The modules

### TaskContract, TaskGroup
`TaskGroup` is the engine. `pc[t]` is the line at which runTask's goroutine of t
is: `deps` (lines 562-605 of taskgroup.go), `acquire`, `body` (fn runs), `record`
(recordError), then the deferred calls `release`, `close`, `prune`, `wgdone`.
`pins`, `waiters`, `live` and `latest` are the TaskCollection; `slots` the lengths
of the semaphore channels; `gerr`, `cancelled` and `verdict` are a group's first
error, its context and what Wait returned. A fn is abstract: as long as it runs
it may create SubGroups, schedule tasks, and Wait; it returns with or without an
error after it waited for what it started (Isolate and Map do).

`TaskContract` says what a caller may rely on without any of this: phases, needs,
pools, verdicts. `TaskGroup!ImplementsContract` is the refinement (INSTANCE with a
mapping of `pc` and `err` to phases).

### MapRun
The caller of Run, the Control orchestrator and the items' fns on the engine. It
reuses the engine's actions `Go`, `Wait`, `SubGroup`, `FnReturns`, `FnFails`.

### Session
`main` is where the command's goroutine is, from `Enter` over `RunEReturns` through
the steps of `Close`; `stderr` and `flags` are os.Stderr and the terminal; `text[t]`
where a task's line is: in the pipe, in the row, in the UI's channel, on the screen.
`Copy` is the pipe's goroutine, `UIPrints` the UI's loop, `Linger` and `ChildExits`
a child that keeps the pipe open. A sender waits until the UI takes its line or is
gone, which is what makes the order of Close matter.

### Display
Which handler a record reaches. `group[g]` is a group's copy of the UI's handler and
flag; `SetsUsing` and `SetLogHandler` are the two walks that startUI makes over the
groups, `CopiesParent` and `JoinsParent` the two steps of SubGroup between which such
a walk may pass. `Visit` is the snapshot, group by group, `Sync` the rows.

### Row
linefilter.go byte by byte: `Consume` reads one rune or escape sequence, or says that
it is not complete; `Read(n)` is a Write of the next n bytes. A byte is named by what
it stands for. `TabStop` is putRune's loop over the blanks of a tab, which does not end
at the last column: the row is `hung` from then on.

### HttpProgress
`RoundTrip` schedules, `Promoted` has the task's steps (slot, request, hand-over,
waiting for the body, release), `CallerActs` the caller's select, reads and Close.
`Careless` are callers that drop a body.

### Config
A load has three compilations (`LoadStep`), whose result sets the weights of the
process; `GetStep` is Get with its order, its sync.Once per driver, the checks and the
making of drivers, which may call Get for another interface (`registry`; `calls` is the
stack of frames), and `Doctor` checks all of them. A driver's Once that is held
(`BeginCheck` to `EndCheck`) is waited for by whoever comes, also by the goroutine that
holds it; `Hangs` says who waits for itself or for others that wait. Files are what weights
they give.

### Sources
The configuration and the lock file are chosen at the start; `Load`, `ScanModule` and
`Prepare` are the three readers, each with the code's own case analysis of heads,
paths and pins; a reference has at most one path (`SourcesAssumption`).
A place is a base directory and segments below it.

### Pipeline
`BeginApply`, one worker per module (`ResolveModule`, and for icons `FindBundle`,
`WipeWork`, `DrawIcon`, `WriteIndexTheme`, `MoveBundleAside`, `MoveBundleIn`,
`ListBundle`), the two steps in which a worker adds a warning to the shared sink (`ReadSink`,
`AppendWarning`), then `Assemble`: templates, multi-file templates, concatenation,
relocation, the conflict check. `ExecuteAndHook` writes the dconf marker and loads
it if it changed. `CrashApply` may come between any two.

### Deploy
One apply after another. `disk` is the target tree (a version, a directory or nothing
per path), `saved` is state.json, `mem` the loaded and patched state, `act` and `step`
the plan and the progress of each item. `Begin` is the pipeline, Load and DropIgnored;
`PlanOne` the planner's decision for one target; `StartWrite`, `ClearTarget`, `Install`,
`StartDelete`, `RemoveFound` are the system calls of one item; `ExecuteReturns` reduces
patches; `Save` writes the state. Faults (`StepFails`, `ItemFault`), `Crash` and
`UserEdits` may come between any two; a crash leaves the items where they are. `ours`,
`edited` and `unbroken` are histories: what an apply wrote and the user left alone,
whether the user wrote during this apply, and that none before it failed or crashed.

### Materialize
One cache key. `dest`, `tmp`, `old` hold sets of parts written. `KeyLocked` chooses
between the source cache, with its mutex per key and process, and the tool
install, which has none but verifies a warm tree. Crashes restart all callers of a
process.

### Locks
`lockfile[w]` is a workspace's file, `mem` what a goroutine or process (a `Locker`) read of
it, `got` what it resolved. Nothing keeps two of them from one file: the items of a lint
resolve their lazy tools in parallel, and commands run beside each other. Any number of
lockers is at work at once, and `Replace` is the rename that others do not see coming.
`meanwhile[p]` is a history: the rows of p's file that others changed since p first read
it. `LocksStep` follows `mod lock`, the refresh before an apply and the three tries of
a lazy tool (workspace, home, again), each as read, resolve, fetch, write. `World`
moves upstream's branches and releases and edits configurations.

What the properties promise beside other writers is what the code can promise: who writes
may undo rows that others wrote since it read, and no others (`RowsKept`), and what a command
has settled is so of each row that nobody else has changed since (`LockIsObeyed`). A
command that nobody disturbs is promised all of it.

### Releases
`frames[w]` is the stack of installs of a goroutine: the one in hand may be one that
the token's lookup began. `once` and `token` are auth.go's sync.Once; a lookup by a
shim of gh runs in a child process with its own. `Works(w)` is the next request, the
choice of release and asset, or the return.

### Shims
`dirs` holds what each version directory has, under its name or under `.tmp` and
`.old`; `ResolveVersion` reads the wishes, `ReadPackage` lists a package, `Try` looks
for the program in the next candidate, any newest one of a package (sort.Slice keeps
no order among equal versions). `InstallBegins` to `InstallEnds` are an install
as the directories show it.

### Update
Paths name inodes, and a writer keeps its inode under a renamed or removed path: that
is what a running binary, a half-written download and a second attempt have to do with
each other. One action per system call that the paths show.

### Daemon
`reader`, `pump` and `handler` of each connection, `outCh` between them; the client
falls back to running the command itself (`local`). `HandlerEnds` execs the new binary
over all connections.

### History
Each prompt is a process: it sends its event to the daemon or inserts it. An ingest is
one transaction (`BatchInsert`, `CommitIngest`, `Rollback`); sqlite's lock makes others wait
or fail. `OpenFinder`, `Choose`, `Abort` and `AfterWait` are the finder and the hook that
prints what was chosen.

### Backup
One action per git command; a history is the set of its changes, `Conflicts` says
which cannot be rebased on which. `stand[a]` is where an action's Run is, `staged[a]`
what it committed or packed. `PeerPushes`, `Edit` and `LeaveBranch` are others and the
user. `ActionFails` stops an action where it is, also inside a rebase. Actions may share
a tree: one may remove what another has just cloned (`CheckoutFallback` finds no
repository), or turn its remote elsewhere (`Refused`). `Undisturbed` names the actions
of which the command's success says something.

### Checks, Review
`DetectTool` looks tools up one after the other, `Schedule` and `MapReturns` are the Map,
`BuildCmd`, `Refuse` and `Exit` an item; what becomes of a failure and of what the codec
reads is `told` and `report`. `Review` chooses the base, reads a diff hunk by hunk as
parseUnifiedDiffLines does, and annotates. `Misread` and `Misnamed` are the two kinds of
findings of which the code's answer is wrong (section 5).

### Sudo
The queue is a file per slug. `Get`, `Run` and `RemoveIt` are approve's steps: another
request may take the slug between them. `ReadLinks` and `ReadMaster` are the cleanup,
`NewGeneration` and `GoBack` the profile's user.

### Nix
A store path is what and of which revision. `Archive`, `Lookup`, `BuildHere`, `CopyTo`,
`BuildThere`, `CopyFrom`, `Uses` are a build; `BuildNode`, `CopyClosure`, `Detect`, `Check`,
`Switch` one node of a deploy. `EditFlake`, `Collect` and `Reboot` come between.

### LspProxy, LspRoutes
`LspProxy` has the interleavings: `loop`/`job` is the single message loop; `known` and
`backends` are the two maps under p.mu; `pending`, `chan`, `took`, `watch` are one Backend's
pending map, the request's channel, the reader between unlock and send, and the two
goroutines that call failPending; `fan` and `writes` are syncNotify's goroutines.
Language servers are external: they may answer in any order, never, or exit.

`LspRoutes` has the decisions: the handshake and its workspace, the configuration and
its normalisation, a document's language, the attachments in their order, capabilities,
and mergeResults over the shapes answers may have. Each message is handled at once.

### MCRuntime, MCCommands, MCServices
The composites EXTEND the components about which something is proved, so that a run
and a theorem name the same definitions and the ASSUMEs are evaluated: MCRuntime
`Session`, `HttpProgress`, `Daemon` and `Materialize`, MCServices `LspProxy`, `Deploy` and
`Releases`, MCCommands all of its parts but `Row` and `Review`. These two, `Config` and
`LspRoutes`, about which nothing is proved, are INSTANCEs.

Modules that share no state are checked side by side: each composite has a variable
`part`, chosen at the start, and one disjunct per part that leaves the others alone.
The parts that a behaviour does not exercise stay at one initial state, so the state
space is the sum and not the product of the parts. Properties of the parts are named in
the composites; fairness speaks of a part only in its own behaviours, or is vacuous at
the initial state where the others stay. This is a way to run many components in few
runs, not a claim about their interaction.

## 3. The runs

| Run | Instance | Shows |
|---|---|---|
| `taskgroup_chain` | 4 tasks, 1 group, 1 IO slot; dependencies by id and by a description two tasks share; the context may end | slots, pins, pruning, descriptions, verdicts and the root cause are right in every interleaving; the contract is implemented |
| `taskgroup_nest` | a Control task with a SubGroup of two tasks, a sibling on the same slot; fairness | Wait joins, failures stay below, every Wait returns |
| `map_parallel` | 2 items, 1 slot, a bystander whose failure or context ends the map; fairness | Run joins, reports failures, ends |
| `runtime` | the parts `session`, `http`, `daemon`, `config`, `source`; fairness | what one waits for returns, and what was said, begun or fetched is not lost or doubled |
| `commands` | the parts `locks`, `backup`, `update`, `pipeline`, `install`, `display`, `child`, `checks`, `review`, `history`, `sudo`, `nix`, `sources`, `shims` | what commands leave on disk and what they show is right |
| `services` | the parts `lsp`, `routes`, `apply`, `releases`; fairness | answers are whole, servers follow, applies converge, the right asset is installed, and each ends |
| `map_prune` (violated) | 2 serial items, nothing fails | a serial map fails when its first item is pruned before the second is scheduled |
| `deploy_overlap` (violated) | a file becomes a directory or back | a fault-free apply fails |
| `materialize_tool` (violated) | 2 processes, no faults | a half-written tree becomes live |
| `daemon_restart` (violated) | a refused client and a new binary; fairness | the daemon never replaces itself |
| `lsp_reorder` (violated) | the editor does not pause | two changes reach a server in the other order |
| `review_dashes` (violated) | lines that begin with two dashes | an added line is not annotated |

A violated run checks one property that the repository states; `PROJECT.json`
quotes the place under "findings".

### What the parts of the composites check

| Part | Instance | Properties |
|---|---|---|
| `session` | 2 tasks, one with an unterminated line; 1 ctrl-c or child that stays | `NoLineLost`: after Close every line said to a live UI was shown once, a part of a line too. `HooksRunLast`: hooks find no task, no UI and the real terminal, and all run, in order, whatever failed. Close returns, unless the user or a child interferes with the UI |
| `http` | 2 requests, 1 slot, the group may end | `BodiesAccounted`: no more bodies than slots, none left open that nobody can close, unless the group's end met the response on its way (section 5). Calls and tasks end |
| `daemon` | 2 commands, 1 history event, channel of 1, 1 packet of output, 1 lost connection, a new binary, the tray's stop | `OnceAndAsTold`: a command begins at most once, by whomever, and a client that ends well had it done and has all its output. Every client returns |
| `config` | 2 goroutines, 4 drivers of 3 interfaces, whose checks and News get one another in a line, as the repository's do, or in a circle (of checks, of a check and a New, of one with itself); 2 loads or doctors, 1 edit | every Get returns, unless goroutines wait for one another's Onces or for their own, and that happens only where drivers get one another in a circle |
| `source` | 3 goroutines of one process, one without the cache, one dry run; 1 fault or crash | `CacheIsSound`: whole tree, kept, no leftovers, no warm fetch. Calls return |
| `locks` | 2 workspaces, 2 lockers, 2 operations; 1 move upstream, edit or fault, or 2 of them when the operations follow one another | `LockIsObeyed`: after a refresh every row is as configured, follows a branch and has a pin; tools run in the locked version; but for rows that another locker wrote meanwhile. `RowsChangeForAReason`: a row changes only by `mod lock`, or since its configuration did, and a write undoes no rows but those that others wrote since it read |
| `backup` | git, archive and rsync on one tree, 2 conflicting changes, 2 runs, 1 fault | `BranchWorkKept`: no step loses what lies in a tree or on its branch. `ReportedMeansSafe`: success means that what each action found is at its destination |
| `update` | 1 updater, 1 newer release, 4 inodes, 2 mishaps | `BinaryIsSound`: the fixed path never names half a binary, and success means that the release that was chosen is behind the shim, whole and executable |
| `pipeline` | self, place and icons modules, 2 icons, 2 applies, 1 fault or crash | `BundleIsWhole`: a cached theme has all its icons. `EveryFileHasOnePlace`: no two files of one path, a place for each file; what a step drops is warned of |
| `install` | 3 processes install one tool, 1 fault | `InstallKept`: an install is only moved aside for a successor |
| `display` | 2 tasks, 2 groups, the UI may start at any time | `ShownOnce`: each record once, on the UI or else on stderr, and each bar has one row |
| `child` | "x" and any 3 of 14 things (among them tabs up to the last column and beyond), in any chunks | `OutputIsRead`, its first part `ChunksDoNotMatter`: what is committed and shown, and whether the filter hangs, is as with one Write of everything |
| `checks` | 3 tools, 3 files, 1 edit, 1 fault, an interrupt | `SilenceIsGoodNews`: a linter that applies and is not in the report found nothing, or the log or the exit says why; formatters run one at a time and all of them; no tool that is to be given files runs without one |
| `review` | 2 files of one name, in the root and below; lines that begin with dashes, pluses or both kinds of header; lint started in the root or below; hunks up to line 2 | `OutputIsRead`, its second part `OthersDoNotMatter`: a finding is annotated exactly if its line was added, whatever the other files' lines say and whatever was removed |
| `history` | 2 prompts, a bash file, an atuin database, 1 ingest, 1 search | `HistoryIsKept`: a command is kept once with its time; an ingest leaves all or none; searches show the newest |
| `sudo` | cleanup, rebuild, a request by hand; 2 approvers | `QueueIsHonest`: a request waits until run or rejected, save by a shared slug; it runs at most once for each approver and each approval that was killed or could not run it; a cleanup keeps the generation in use, unless the user has gone back to an older one |
| `nix` | 4 jobs, deploy to 2 nodes, 2 revisions, 1 collection, 1 reboot, 1 fault | `BuildsAreCurrent`: a build is of the flake as it was during the call and its path exists; a node of a deploy that is told done runs, or boots, a revision no older than the command, and no node was switched live to another nixpkgs |
| `sources` | 2 inputs, 8 kinds of references, with and without a lock row | `RoadsMeet`: schema, files, items and inputs of one reference are in one place |
| `shims` | 2 packages; 1.9, 1.10, 1.10-beta; a leftover; 1 install | `ShimIsRight`: a shim never runs another version than the one asked for; with no install under way it finds the first package that has it, or its newest version |
| `lsp` | 2 documents, 2 languages sharing a server, 2 messages, 1 server exit | `AnswersAreWhole`: one answer per request and no leaked entry; `BackendsFollowDocs` for an editor that pauses; `NoOrphans`; every message is handled |
| `routes` | 2 configurations, 4 methods, every mix of two servers' answers, 2 opened documents | `AnswersAreWhole` (its second part): the servers a request concerns are asked, once and in order; all they say is shown, and a list stays incomplete if a part of it is |
| `apply` | 3 paths, file/script/symlink, bundles, --no-cache, dry run, .gitignore changes; 2 applies, 1 fault or crash, 1 edit | `SuccessMeansConverged`: files and state are as wanted, nothing is left behind. `FilesAreSafe`: nothing foreign is touched, no regular file vanishes. Applies end |
| `releases` | 2 goroutines, 3 releases of every trait on an Android host, 1 fault | `RightAsset`: the asset is of the release asked for, or of the newest stable one, and fits the host; no lookup of the token starts another. Installs end |

`runtime` has 146,578 distinct states, `commands` 1,806,269 and `services` 430,889;
each takes between one and four minutes with two workers.

### Bounds
Four tasks are the least with a diamond, a shared description and a task pruned
before its key is used; one slot is the hardest pool. Two items give a successor in
a serial map and two writers in a parallel one. Three callers of a cache are a holder,
a waiter and one that came late. Two applies, two backups and two operations on a
lock suffice for whatever the first leaves behind to meet the second, and for what two
at once do to each other: a third one could only be undone in the same way. In the run
commands that lock a whole configuration run in one workspace, and Home is where tools
fall back to (`HomeForTools`); two lockers at once meet one event of the world and two
that follow one another meet two (`Events`). The lockers are interchangeable, hence the
symmetry. Two messages of
an editor are an open and a change or request, with the shutdown or the end of the
stream following at any time; the request and its server's exit race in every way with
one exit. One fault is enough where each action must cope with what one fault leaves;
an update has two, since the second attempt may fail as well. One item of the outside
world that moves (a release published, a flake edited, a generation made) may do so
between any two steps. Channels and retained rows are given the smallest capacity that
can be full (OutCap, Slots 1, Slack 0); the row's backlog is the exception: MaxPending
is never reached, since the code drops it by design (section 5). Every bound on a
counter is a constant whose name begins with Max.

Some freedoms are cut in the composites to keep the sum small; each is a predicate
there with a comment: `Ordinary` (one thing at a time is unusual about GitHub's
token), `Reviewed` (which diffs meet which environment), `Together` (which builds run
beside each other).

### Fairness
* TaskGroup, MapRun: the Go scheduler runs each runnable goroutine (weak fairness of
  Advance per task); a fn that is not itself stuck returns (Return); a goroutine in
  Wait wakes when the counter is zero.
* Session: Close goes on, the command returns, tasks end, the pipe's and the UI's
  goroutines run. A child that stays need not exit and nobody has to interrupt: Close
  does not wait for either.
* HttpProgress: goroutines run, a server answers or fails, callers that are not careless
  read on and close; a slot that is released again and again is taken (strong fairness
  of Acquire: channel senders queue first come, first served).
* Daemon: goroutines run and commands end, a client goes on once it has begun. Nobody
  has to come, and nothing forces the new binary.
* Config: each goroutine in a Get or a load goes on. A sync.Once held is waited for.
* Materialize: as above, and a mutex that is released again and again is eventually
  taken (strong fairness of TakeLock; sync.Mutex has a starvation mode).
* Deploy: an apply's goroutines run and system calls return. Nothing forces a fault,
  a crash or an edit.
* Releases: requests are answered, fail or time out.
* LspProxy: goroutines run and timers fire; servers need not answer, save that a
  server answers `shutdown` or exits. The code waits for that answer without a timeout
  and with p.mu held (proxy.go:650), so without the assumption the proxy hangs.

`commands` has no fairness: its properties are about what is there and what changes.

## 4. The proofs

Each theorem holds for every value of the constants that the named ASSUMEs of the
modules allow (finitely many tasks, functions on their domains, a context derives from
itself, the orchestrator owns exactly the SubGroup); TLC evaluates them in every run.
Further hypotheses are stated in the theorem and named here. An invariant is proved
through a strengthening that each step keeps; there is one lemma per action, or per
conjunct.

`TaskGroup_proofs` (any tasks, groups, pools, limits, dependency graph):

* `TypeCorrect` and `PoolsAccounted`. TypeOK and PoolAccounting are not inductive
  alone: that a deferred `wg.Done` does not go below zero needs that the counter counts
  the unfinished tasks of the group. `Accounts` is TypeOK, PoolAccounting and `WgExact`
  together, with `LatestExists` (a nonempty set of tasks has a newest one) for the
  CHOOSE of the description map.
* `DependenciesFirst`. The strengthening `DependencyInv` says how far the goroutine
  got through its pins: those before `dep[t]` are Met (done is closed, no error), all of
  them once it passed, and Met is for good (`MetForGood`).
* `WaitJoins`, from WgExact: at zero nobody is unfinished, and nothing can be
  scheduled on a group whose Wait returned.
* `FailuresStayBelow`: an error of a task is recorded on its own group before that
  group's context ends, and every end of a context has one of these causes.
* `VerdictsAreTrue`. `Causes` says where each error comes from, `Recorded` that a task
  past recordError left its group failed; together a nil verdict is justified. `Blame`
  follows a dependent's error to its dependency, and `RootCause` says that when the first
  error of a group is a dependent's, the dependency was cut off by the context: had its
  fn failed, its own error would have been recorded before its done was closed.
* `CollectionIsExact`. A pin count is the number of positions at which unfinished tasks
  pin a task (`Owed`, by cardinality, since a dependency may be named twice); a release
  takes away exactly what was added, and `latest` follows each removal from `live`.
* `EngineImplementsContract`: TaskGroup's Spec implies TaskContract's, under the mapping
  of pc and err to phases. Initial states map to initial states (`InitRefines`) and
  each step to a step or a stutter (`NextRefines`, one lemma per action): scheduling,
  starting, ending and Wait are steps of the contract, the deferred calls, the walk over
  the dependencies and the pruning are stutters. `Ready` collects what the mapping
  needs: slots are accounted for, dependencies met, and pins are of the same group.

`MapRun_proofs` (any number of items and bystanders):

* `RunsOnEngine`: MapSpec => Spec, so everything above holds of each map. The step
  that needs an invariant is the return of the orchestrator's fn, which the engine
  allows only when nothing of its SubGroup is left (`ReturnInv`).
* `SerialOrder`: when the fn of an item runs, all earlier items are done without an
  error. By `KeyedPins` a key that is an id is pinned as that task or not at all;
  `SerialInv` follows the chain one item per step, so no induction over the items is
  needed.
* `ResultsTrue`. `ResultsInv` ties the caller's verdict to the orchestrator's and that to
  the SubGroup's: Run returns after the loop has scheduled every item and Wait has joined
  them, and an item that succeeded stored its result before it was done.

`Installs_proofs`, of what is installed, locked and found again (Materialize with any
callers, processes and parts of a tree; Update with any releases, crashes and failures;
Locks, Pipeline, Sources and Shims):

* `CacheTypeCorrect`; `KeyLockExcludes`, with the key lock: of the callers of one process
  at most one is between lock and unlock (`HolderInside`).
* `SourceCacheIsSound`, with the key lock and one process, as in `home apply`. `SwapInv`:
  the temp holds what was fetched so far and is whole from the check on, what was moved
  aside is the live tree, and siblings exist only while a caller is at a step that owns
  them. For two processes it does not hold; `materialize_tool` shows a run of that.
* `InstalledIsKept`, for a tool without a lock: needs that the context of no caller that
  verifies a warm tree ends (`MayEnd \subseteq NoCache`), since a cut-off verification is
  taken for a broken install.
* `BinaryStaysSound` of Update, for updates that do not overlap (`OneAtATime`). No inode
  has two names (`OneName`), so what is written under one cannot be seen under another;
  what a process writes is its temp file or the member it unpacks, never the fixed path
  (`Writes`); and each step of an update finds under its path, whole from the close on,
  what the one before has put there (`Carries`), which is the release the command chose.
  With two updates at a time one may truncate the member that the other is about to move
  to the fixed path; the code has no lock against it, and the run has one updater.
* `ObeysTheLock` and `RowsChangeRarely` of Locks (any workspaces, sources, tools, operations,
  edits and moves upstream). An operation carries its own copy of the rows from one step
  to the next, beside what it resolved and the configuration that it read, and any number
  of others write the same file in between. `AtWork` says for each step which of these
  agree with the file outside of the rows in `meanwhile`: a row that still serves its input
  is what was resolved for it, and what is about to be written back differs from the file
  only in rows that others wrote since. `AtWork` of one locker is kept by the steps of the
  others because each `Replace` adds to `meanwhile` whatever it makes differ (`WritesOver`
  and `WorkStands`). The rows-kept property needs no further hypothesis; what a refresh
  settles needs `OneInputPerRepo` (two inputs of one repository share a row, so that one
  refresh cannot settle both; section 5).
* `BundlesAreWhole` of Pipeline (any modules and icons, applies, faults and crashes). A
  work directory holds the icons drawn since it was wiped, and is moved in when all were.
  Hypothesis: `BundlesApart`, no two icon modules of one fingerprint, which would share a
  work directory (section 5).
* `RoadsAlwaysMeet` of Sources (any repositories, pins and heads of references, at most one
  path each): the three readers come to the same place by case analysis of a reference.
  `SrcInv` says what each of them has left when it is done.
* `ShimsRunRight` of Shims (any packages and version directories, any order on them). By
  `FoundIsAsked` what was found is of the version looked for; by `FoundIsNewest`, as long
  as nobody installs, every package before the one being read has been settled and a
  found version has none above it.

`Runtime_proofs`, of two components that share no state:

* `BodiesAreAccounted` of HttpProgress (any requests and slots). `TaskLeads` says which
  states of a task and its caller go together, `ParkedToTheEnd` that the task keeps its
  slot to the end of the body, so that bodies are bounded by slots (`SlotsHeld`).
* `OnceAsTold` of Daemon (any clients and senders, any length of output, any capacity of
  the channel, any number of lost connections). A request is in one place at a time: with
  its client, on the way, or with the reader (`RequestIsOnce`), an event likewise
  (`EventIsOnce`). What a packet in outCh or on the way to the client says of its request
  is true: nothing follows a result, which says that the command ran to its end, and
  nothing is beside a refusal, which says that it did not begin (`PacketsAreTrue`). That
  is why a refused client may run the command itself and one that lost its connection
  must not.

`Session_proofs` (any tasks, lines and hooks, a user and children who interfere at any
time): `NoLineIsLost` and `HooksAreLast`. `StagesDone` says what each stage of Close has
left behind (tasks ended, pipe drained, UI quit, terminal restored), `HooksInOrder` that
what ran is a prefix of what was registered, `FirstErrorCounts` whose error is returned.

`LspProxy_proofs` (any servers, languages and documents):

* `ProxyTypeCorrect`; `NoServerIsLeft`: every server that runs is in the map that closeAll
  walks, or in the hands of the loop (`Published`).
* `EveryRequestIsAnsweredOnce`: PendingIsWaitedFor, a part of AnswersAreWhole. A request
  is in one of three places (`OneOfThree`): pending, in the hands of whoever took it out
  of the map, or in the channel; taking it out under the mutex is what moves it.
* `ServersFollowTheEditor`, for an editor that is slower than the notifications it
  sends (`Paced`; without it `lsp_reorder` shows two changes overtaking each other).
  `Following`: what is in flight is current, a binding under way was not told yet, and
  every running server of a bound language has a document, is being told of it by
  ensureLanguage, or has a notification due.

`Deploy_proofs` (any home, configurations, ignored paths, applies, faults and edits):
`ApplyTypeCorrect`, `SuccessIsTrue`, `FilesStaySafe`. `Accounted` is what the state
will name (loaded state, plan, work, patches), `Converging` what the files hold of items
that are done, `Named` that what an apply wrote is named by the state or still wanted. The
action property follows from what each system call may do to one path. The module has
also `RightAssetsOnly` of Releases (any goroutines, releases and assets). `LookupsAreOne`
says whose lookup of the token is under way, `StackIsRight` that below a lookup there is
the install that began it and above it one that asks no token; `HostIsBest` is the
arithmetic of the scores, by which an asset of another system never wins. Hypothesis:
`OneTagPerVersion`, no repository has releases "1.2" and "v1.2" (section 5).

`Commands_proofs`, of six components that share no state:

* `ReportIsTrue` and `WorkIsKept` of Backup (any actions on any shared trees and
  destinations). Past its checkout an action's tree is a repository with a commit, which
  no other action takes away, and what it committed stays in the history
  (`CommitsStand`); the remote of its tree is its own Dst unless another action sends
  the same tree elsewhere (`RoadsAreSet`); what has arrived stays (`OkIsSafe`). Where
  there is nothing, or no commit, there is no file or no history to lose
  (`TreesAreWhole`). For an action that is disturbed in this sense, or whose archive
  another one overwrites, ReportedMeansSafe says nothing; the code has no rule against
  such configurations.
* `QueueStaysHonest` of Sudo (any requesters and approvers, any slugs, any number of
  generations). A file, and what an approver has read, is of a request that was queued
  under that slug (`OfRequests`). A request that is no longer in the queue gave way to
  another of its slug, to a rejection or to a run (`Waits`). It is run at most once for
  each approver and each approval that was killed or could not run it, which
  `AttemptsCount` counts in two ways: by who will remove the file while it is there, by
  who can still run it when it is gone. A cleanup lists generations older than the one in
  use (`MasterStays`), which only a rollback makes untrue.
* `BuildsStayCurrent` of Nix (any jobs, nodes, packages, number of revisions, collections
  and reboots). What a job works on is of a revision between the one at its beginning and
  now (`OfNow`), what it hands out is there unless a collection came since (`Handed`), and
  what a node runs and boots is in its store and, once its task is done, of the deploy,
  unless the machine has rebooted (`OfNode`). By `NixAssumption` this
  machine is not the builder.
* `SilenceIsGood` of Checks (any tools, files, edits and faults): by
  `Accounted` each way in which an item may be done is one that the report, the log or the
  exit tells of, and `Over` says what the end of the command rests on.
* `HistoryStays` of History (any prompts, sources, events and ingests). An event is in one
  place until its insert, so it is kept once; the rows of an open ingest are apart from
  the others until the commit. Hypothesis: `ParsesRight`, that the scan of a bash history
  yields each command with the stamp above it. That is what a recursive function computes
  for one file; TLC evaluates it as an assumption of `commands`.
* `RecordsAreShownOnce` of Display (any tasks and groups, the UI starting at any time).
  `Grounded`: groups are made by tasks of groups, down to Main, so that any set of tasks
  has one whose group none of them made. `Due`: a walk still comes by a group if every
  set of groups that contains it and is closed under making meets what the walk has left.
  `Handlers`: with a UI no task begins before both walks are over, and every group made
  from then on copies a parent that knows the UI; `RowsAreOne`: a bar has one row because
  a task in the snapshot is either shown or still to come.

Only model-checked:

* liveness, which this prover does not handle: `EveryWaitReturns`, `RunEnds`,
  `CallsReturn`, `WorkEnds`;
* what the folds, merges and sorts of sequences compute: `OutputIsRead` (the bytes of a
  row, the lines of a diff), `EveryFileHasOnePlace` (lists of files that are gathered and
  grouped) and the second part of `AnswersAreWhole` (`AnswerIsWhole`, mergeResults). Already
  that a recursive function has the values of its equation needs a theorem with an operator
  as a parameter, which no installed prover instantiates.

## 5. Where the code and its documentation part

Shown by the violated runs: serial maps (map.go:107), overlapping targets
(executor.go:198), tool installs in two processes (manager.go:152), a daemon that never
restarts (daemon.go:316), the order of notifications (proxy.go:258), a deleted line of
dashes (review.go:211).

The rest was met while modelling. Where the models contain the code concerned, they
contain the behaviour, and properties are stated so as to say what does hold.

Engine and session
* taskgroup.go:601: a task cut off by its context records no error, so Wait may
  return nil although a task failed. `VerdictIsTrue` says this is the only way.
* taskgroup.go:691: after a success Wait leaves the group's context alive, although
  the comment on the group says it is cancelled.
* task_collection.go:88: a finished task that nobody waits for is pruned, so a key Go
  returned stops to resolve.
* taskgroup.go:841: SubGroup copies the handler under one lock and registers under
  another; a UI that starts in between does not reach the child group.
* map.go:95-97: a map whose SubGroup was born cancelled returns nil results, with a nil
  error unless the select sees the context. `ResultsAreTrue` says results are missing
  from a success only then.
* progress.go:111: a caller whose context ends may leave a response in resCh unclosed;
  one that drops a body keeps its slot.
* linefilter.go:109: a tab puts blanks until the column is at the next stop, but put returns
  without going on at column 1024, so a tab there never ends, and with it the goroutine
  that reads the child's output.
* linefilter.go:36: a Write of more than 8192 bytes is cut to its last 8192, also plain
  text, although the comment speaks of "Hostile / unterminated OSC"; ReadFrom reads 32 KiB.
* bubbletea.go: every refresh message starts another chain of ticks.

Configuration and references
* driver.go:87: the first check decides for the life of the process. A check that comes
  back to its own driver, or two that get each other's, wait for ever, although the
  comment on the cache speaks of preventing a deadlock; no drivers of the repository do.
* Two loads share the driver weights of the process; the last one decides for both.
* modfile/module_ref.go: an input "self:sub" with a path, and an alias from one, are refused or
  doubled; "github:o/r@v1" of an input is resolved at HEAD while the path told to the
  configuration is keyed by the pin; a module of an input "github:o/r" has no provider.
* Two aliases of one repository share a lock row; an input named like a locked
  repository fails with a mismatch that locking again does not cure.

Desired state
* executor.go:207: a failed apply records none of what it wrote; if the next
  configuration no longer wants it, it is never pruned. `SuccessMeansConverged` asks for
  nothing left behind only when no apply was disturbed.
* planner.go:58: a bundle is skipped on the state's fingerprint alone. After a failed
  apply of another bundle that fingerprint is stale, so bundles are asked for only with
  --no-cache.
* planner.go:98: a directory in the way of a script with the same mode makes the plan
  fail where the executor would have replaced it.
* manager.go:121: two applies of one root save over each other; there is no lock.
* template/multifile.go: a part with a bad header is dropped silently.
* A file relocated by codebase apply loses its module's scope.
* plugin of modules: two place modules may lose each other's warning; two icon modules
  of one fingerprint generate into one directory.
* A dconf hook that fails is only logged, and its marker stays: it is not loaded later.

Tools and locks
* cache.go:63: `dest.tmp` is shared across processes; the per-key mutex is not.
* install_verify.go:22: a context that is over makes a warm install look broken, and it
  is removed. `install` ends only the context of a caller that ignores the warm tree; with
  one of another caller InstallKept fails.
* sumops.go:8: the lock file is read, changed and written without a lock: of two items of
  one lint (lint/run.go:52), or two processes, the one that writes last undoes the other's
  rows.
* resolver.go:55: "latest" reads `.tmp` and `.old` directories; 1.10-beta is preferred to
  1.10; "v1.2.3" in .tool-versions never matches "1.2.3"; the first package by name wins.
* The resolver knows no .cmd or .bat; `tool list` shows `.tmp` and `.old`.
* GitHub: the direct download after a failed verified one checks no hash; tags "1.2" and
  "v1.2" give different releases by route; requests during the token's lookup go
  anonymous, and an empty token stays when the first lookup's context had ended;
  `h[:16]` needs a digest of that length.
* Two updaters at once write one temp file; `update` has one.

Commands
* review.go: an added line "++ x" is read as a file header, an added "++x" and a deleted
  "--x" as unchanged lines; lint in a subdirectory does
  not take relative paths to the repository's root.
* lint's help says "Exit code is non-zero only if a linter fails to run", but failures
  are logged, left out, and the exit code is 0. eslint's truncated output is accepted.
* git sync removes a directory that is no clone; side branches and what the user
  writes meanwhile go with it. `BranchWorkKept` speaks of trees and their branch.
* History: an empty enter records the previous command again; atuin's microseconds are
  divided as nanoseconds; an event that meets an ingest's lock is lost while the client
  was told ok.
* Sudo: internal/types/types.go:6 speaks of a "timestamp for validity checks" that nothing checks;
  approve removes a newer request of its slug without running it.
* Nix: a deploy says "already running" although another generation boots; Rebuild ignores
  a remote result if the dotfiles root is in the store; a queued rebuild's path has no gc
  root.

LSP
* proxy.go:559 says "Respond with method not found so backends don't hang; log.", but
  requests of a server are answered for four methods, the others only logged; and none
  while the server initializes, for it is not in p.backends yet.
* proxy.go:473: the comment speaks of concurrent callers waiting; ensureLanguage runs in
  the loop only, and a failed start leaves the language marked for the session.
* proxy.go:58: a message that cannot be read ends the loop without closeAll.
* Requests about a document of no language go to all live servers; completionItem/resolve
  goes to every capable server in the map's order; attachment keys sort as strings (10_x
  before 1_x).

## 6. What is not modelled

* Palette and pictures, recolouring and scaling of icons: floating-point arithmetic
  without state.
* CUE's unification, file formats, decoding of configurations: external evaluation. The
  models take its result.
* Desktop drivers (clipboard, dialogs, displays, media, power): one external program or
  D-Bus call each; which driver is chosen is `Config`.
* Other tool providers and module formats: URLs and names; `Releases` has the two GitHub
  routes and mise.
* Pure helpers, logging's text, the command line's flags and wiring, and small packages.
* LSP requests and notifications that servers send the editor; a second `initialize`; a
  garbled message of a server, which ends its reader while it lives.
* Contents where only identity matters: hashes are equal or not, templates yield the
  names they yield, archives have their members.
* Power loss between a write and its reaching the disk: the code does not fsync
  directories, and the models' crashes are of processes.

## 7. Plan

What is left are models: the messages that servers send through the proxy, two updaters,
and two applies of one root, each with a counterexample of its own. They wait for room: the
runs are as many as are checked in reasonable time. Of the proofs, what the folds compute
(end of section 4) waits for a prover that handles the induction theorems.
