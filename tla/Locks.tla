------------------------------- MODULE Locks -------------------------------
(***************************************************************************)
(* workspaced.lock.json and the commands that fill it: `mod lock`, the     *)
(* refresh before an apply, and the resolution of a lazy tool, which pins  *)
(* the tool, installs it and runs it.  The lock of a workspace is read,    *)
(* changed in memory and written as a whole, and nothing keeps others from *)
(* writing it meanwhile: the items of a lint resolve their tools at once.  *)
(* Sources are fetched into a cache that outlives the process.             *)
(*                                                                         *)
(* A row of the lock belongs to a tool or to a repository.  A tool's row   *)
(* is the version it is pinned to; a repository's row is the branch it     *)
(* follows and the commit it is pinned to.                                 *)
(***************************************************************************)
EXTENDS Naturals, FiniteSets

CONSTANTS
  Locker,         \* goroutines or processes that use the lock
  Space, Home,    \* workspaces; Home is the dotfiles
  Tool, Source,   \* lazy tools, inputs
  Repo, RepoOf,   \* the repository of each input that has one
  Branch, Default, Commit, HEAD, Latest, None, NoFile,
  Configs,        \* the configurations a workspace may have
  MaxOps, MaxMoves, MaxConfigEdits, MaxLockFaults

ASSUME LocksAssumption ==
  /\ Home \in Space /\ Default \in Branch /\ Commit # {}
  /\ None \notin Commit \cup Tool /\ Repo \cap Tool = {}
  /\ RepoOf \in [Source -> Repo \cup {None}]
  /\ \A c \in Configs : /\ \A t \in Tool : c[t] \in Nat \cup {Latest, None}
                       /\ \A s \in Source : c[s] \in Branch \cup Commit \cup {HEAD, None}
  /\ \A D \in SUBSET (Repo \cup Tool) : NoFile \notin [D -> Nat \cup [track : Branch, pin : Commit]]
  /\ {MaxOps, MaxMoves, MaxConfigEdits, MaxLockFaults} \subseteq Nat

VARIABLES
  conf,     \* what each workspace's configuration asks of its tools and inputs
  lockfile, \* each workspace's lock file
  cache,    \* the commit in the source cache, by repository and reference
  tip,      \* upstream: the head commit of a repository's branches
  newest,   \* upstream: the newest release of each tool
  pc, job,  \* where a process is, and its command
  mem,      \* the lock as the process loaded it last
  got,      \* what it resolved: entries of inputs, versions of tools
  meanwhile, \* history: the rows of its workspace's lock that others changed
             \* since it first read them
  spent     \* bounds: commands begun, upstream moves, edits, faults

lockVars == <<conf, lockfile, cache, tip, newest, pc, job, mem, got, meanwhile, spent>>

NoJob == [kind |-> "none"]
NoRows == [x \in {} |-> None]
Only(x, v) == [y \in {x} |-> v]
With(f, x, v) == [y \in DOMAIN f \cup {x} |-> IF y = x THEN v ELSE f[y]]
Row(track, pin) == [track |-> track, pin |-> pin]

LocksInit ==
  /\ conf \in [Space -> Configs]
  /\ lockfile = [w \in Space |-> NoFile]
  /\ cache = NoRows
  /\ tip = [r \in Repo |-> [b \in Branch |-> CHOOSE c \in Commit : TRUE]]
  /\ newest = [t \in Tool |-> 1]
  /\ pc = [p \in Locker |-> "idle"]
  /\ job = [p \in Locker |-> NoJob]
  /\ mem = [p \in Locker |-> NoRows]
  /\ got = [p \in Locker |-> NoRows]
  /\ meanwhile = [p \in Locker |-> {}]
  /\ spent = [ops |-> 0, moves |-> 0, edits |-> 0, faults |-> 0]

Spend(b, max) == spent[b] < max /\ spent' = [spent EXCEPT ![b] = @ + 1]
Goto(p, l) == pc' = [pc EXCEPT ![p] = l]
Upstream == <<tip, newest>>

-----------------------------------------------------------------------------
(* Commands.  A job remembers the configuration it loaded.                 *)

AskedBy(p) == job[p].asks

\* The inputs a lock is made for: those of the providers that have one.
Sources(p) == {s \in Source : AskedBy(p)[s] # None}

Start(p, j) ==
  /\ job' = [job EXCEPT ![p] = j]
  /\ mem' = [mem EXCEPT ![p] = NoRows]
  /\ got' = [got EXCEPT ![p] = NoRows]
  /\ meanwhile' = [meanwhile EXCEPT ![p] = {}]
  /\ Goto(p, "ensure")

\* `mod lock` (forced) and the refresh that precedes an apply, in w.
BeginLocks(p, w) ==
  /\ pc[p] = "idle" /\ Spend("ops", MaxOps)
  /\ \E k \in {"modlock", "refresh"}, fresh \in BOOLEAN :
       Start(p, [kind |-> k, space |-> w, asks |-> conf[w], noCache |-> fresh])
  /\ UNCHANGED <<conf, lockfile, cache, Upstream>>

\* A tool's configuration comes from the workspace, else from Home.
FindTool(w, t) == IF conf[w][t] # None THEN conf[w][t] ELSE conf[Home][t]

ToolJob(w, t, from, again) ==
  [kind |-> "tool", space |-> w, tool |-> t, asks |-> FindTool(w, t), from |-> from, again |-> again]

\* A tool of a `needs` table is tried once more, under its own name.
BeginTool(p, w, t, again) ==
  /\ pc[p] = "idle" /\ Spend("ops", MaxOps)
  /\ Start(p, ToolJob(w, t, w, again))
  /\ UNCHANGED <<conf, lockfile, cache, Upstream>>

\* The command failed, or this way of resolving the tool did: the next one is
\* Home, then the second try.
Fail(p) ==
  LET j == job[p] IN
    IF j.kind # "tool" THEN Goto(p, "failed") /\ UNCHANGED <<job, mem, got, meanwhile>>
    ELSE IF j.space # Home THEN Start(p, ToolJob(Home, j.tool, j.from, j.again))
    ELSE IF j.again THEN Start(p, ToolJob(j.from, j.tool, j.from, FALSE))
    ELSE Goto(p, "failed") /\ UNCHANGED <<job, mem, got, meanwhile>>

\* Whatever reads the network, a file or a configuration may fail.
ReadFails(p) ==
  /\ pc[p] \notin {"idle", "done", "failed"} /\ Spend("faults", MaxLockFaults)
  /\ Fail(p)
  /\ UNCHANGED <<conf, lockfile, cache, Upstream>>

Crashes(p) ==
  /\ pc[p] # "idle" /\ Spend("faults", MaxLockFaults)
  /\ Goto(p, "idle") /\ job' = [job EXCEPT ![p] = NoJob]
  /\ mem' = [mem EXCEPT ![p] = NoRows] /\ got' = [got EXCEPT ![p] = NoRows]
  /\ meanwhile' = [meanwhile EXCEPT ![p] = {}]
  /\ UNCHANGED <<conf, lockfile, cache, Upstream>>

Return(p) ==
  /\ pc[p] \in {"done", "failed"} /\ Goto(p, "idle")
  /\ job' = [job EXCEPT ![p] = NoJob]
  /\ mem' = [mem EXCEPT ![p] = NoRows] /\ got' = [got EXCEPT ![p] = NoRows]
  /\ meanwhile' = [meanwhile EXCEPT ![p] = {}]
  /\ UNCHANGED <<conf, lockfile, cache, Upstream, spent>>

-----------------------------------------------------------------------------
(* The file.                                                               *)

OnDisk(w) == IF lockfile[w] = NoFile THEN NoRows ELSE lockfile[w]
LoadInto(p) == mem' = [mem EXCEPT ![p] = OnDisk(job[p].space)]

Differing(f, g) ==
  {x \in DOMAIN f \cup DOMAIN g : x \notin DOMAIN f \cap DOMAIN g \/ f[x] # g[x]}

\* A temporary file takes the place of the lock; it is not seen half written.
Replace(p, rows) ==
  LET w == job[p].space
      Shares(q) == q # p /\ pc[q] # "idle" /\ job[q].space = w
  IN /\ lockfile' = [lockfile EXCEPT ![w] = rows]
     /\ meanwhile' = [q \in Locker |->
          IF Shares(q) THEN meanwhile[q] \cup Differing(OnDisk(w), rows) ELSE meanwhile[q]]

Write(p, rows) == IF rows = mem[p] THEN UNCHANGED <<lockfile, meanwhile>> ELSE Replace(p, rows)

\* EnsureFiles: stat, load, and write an empty file if there was nothing.
Ensure(p) ==
  /\ pc[p] = "ensure"
  /\ Goto(p, IF lockfile[job[p].space] = NoFile THEN "create" ELSE "read")
  /\ UNCHANGED <<conf, lockfile, cache, Upstream, job, mem, got, meanwhile, spent>>

CreateLockFile(p) ==
  /\ pc[p] = "create" /\ LoadInto(p)
  /\ meanwhile' = [meanwhile EXCEPT ![p] = {}]
  /\ Goto(p, IF OnDisk(job[p].space) = NoRows THEN "empty" ELSE "read")
  /\ UNCHANGED <<conf, lockfile, cache, Upstream, job, got, spent>>

WriteEmpty(p) ==
  /\ pc[p] = "empty" /\ Goto(p, "read")
  /\ Replace(p, NoRows)
  /\ UNCHANGED <<conf, cache, Upstream, job, mem, got, spent>>

-----------------------------------------------------------------------------
(* Sources.                                                                *)

\* A row saves a new resolution: it follows a branch and has a pin ...
Reusable(row) == row.track \in Branch /\ row.pin # None

\* ... and still is what the configuration asks for.
Matches(ref, row) == ref = HEAD \/ ref \in {row.track, row.pin}

Pinned(rows, s, ref) ==
  /\ RepoOf[s] \in DOMAIN rows
  /\ Reusable(rows[RepoOf[s]]) /\ Matches(ref, rows[RepoOf[s]])

\* Pins of an earlier run are taken over unless the lock is forced.
ReadPins(p) ==
  /\ pc[p] = "read" /\ job[p].kind \in {"modlock", "refresh"}
  /\ LoadInto(p) /\ meanwhile' = [meanwhile EXCEPT ![p] = {}]
  /\ LET rows == OnDisk(job[p].space)
         kept == {s \in Sources(p) : job[p].kind = "refresh" /\ Pinned(rows, s, AskedBy(p)[s])}
     IN got' = [got EXCEPT ![p] = [s \in kept |-> rows[RepoOf[s]]]]
  /\ Goto(p, "hash")
  /\ UNCHANGED <<conf, lockfile, cache, Upstream, job, spent>>

\* Mutation: A commit is followed like a branch.
FollowedCommit(ref) == IF ref = HEAD THEN Default ELSE ref

\* What a fetch of ref brings now, and the branch to follow.
Fetched(r, ref) == IF ref \in Commit THEN ref
                   ELSE IF ref = HEAD THEN tip[r][Default] ELSE tip[r][ref]
Followed(ref) == IF ref \in Branch THEN ref ELSE Default

\* The cached tree of a reference is taken as it is.
CacheKey(p, s) == <<RepoOf[s], AskedBy(p)[s]>>
EnsureSource(p, s) ==
  IF CacheKey(p, s) \in DOMAIN cache /\ ~job[p].noCache
    THEN cache[CacheKey(p, s)]
    ELSE Fetched(RepoOf[s], AskedBy(p)[s])
LockHash(p, s) == Row(Followed(AskedBy(p)[s]), EnsureSource(p, s))

\* One item of the Map.  An input without a repository (local) has no hash,
\* and that is an error.
HashOne(p, s) ==
  /\ pc[p] = "hash" /\ s \in Sources(p) \ DOMAIN got[p]
  /\ RepoOf[s] # None
  /\ cache' = With(cache, CacheKey(p, s), EnsureSource(p, s))
  /\ got' = [got EXCEPT ![p] = With(@, s, LockHash(p, s))]
  /\ UNCHANGED <<conf, lockfile, Upstream, pc, job, mem, meanwhile, spent>>

HashRefused(p, s) ==
  /\ pc[p] = "hash" /\ s \in Sources(p) /\ RepoOf[s] = None
  /\ Fail(p)
  /\ UNCHANGED <<conf, lockfile, cache, Upstream, spent>>

\* UpdateSumFile, first half: the file is loaded again.
LoadForSources(p) ==
  /\ pc[p] = "hash" /\ DOMAIN got[p] = Sources(p)
  /\ LoadInto(p) /\ Goto(p, "putsources")
  /\ UNCHANGED <<conf, lockfile, cache, Upstream, job, got, meanwhile, spent>>

\* Rows are keyed by repository: of two inputs of one, the later one stays,
\* and Go ranges over the entries in any order.
Merged(rows, entries) ==
  LET touched == {RepoOf[s] : s \in DOMAIN entries}
      picks == {f \in [touched -> DOMAIN entries] : \A r \in touched : RepoOf[f[r]] = r}
  IN {[r \in touched \cup DOMAIN rows |-> IF r \in touched THEN entries[f[r]] ELSE rows[r]] : f \in picks}

PutSources(p) ==
  /\ pc[p] = "putsources"
  /\ \E rows \in Merged(mem[p], got[p]) : Write(p, rows)
  /\ Goto(p, IF job[p].kind = "refresh" THEN "scan" ELSE "done")
  /\ UNCHANGED <<conf, cache, Upstream, job, mem, got, spent>>

-----------------------------------------------------------------------------
(* Tools.                                                                  *)

\* RefreshLazyToolLocks: the tools without a locked version need work.
NeedsWork(p) == {t \in Tool : AskedBy(p)[t] # None} \ DOMAIN mem[p]

Scan(p) ==
  /\ pc[p] = "scan" /\ LoadInto(p)
  /\ LET todo == {t \in Tool : AskedBy(p)[t] # None} \ DOMAIN OnDisk(job[p].space)
     IN Goto(p, IF todo = {} THEN "done" ELSE "latest")
  /\ got' = [got EXCEPT ![p] = NoRows]
  /\ UNCHANGED <<conf, lockfile, cache, Upstream, job, meanwhile, spent>>

VersionOf(ask, t) == IF ask = Latest THEN newest[t] ELSE ask

LatestOne(p, t) ==
  /\ pc[p] = "latest" /\ t \in NeedsWork(p) \ DOMAIN got[p]
  /\ got' = [got EXCEPT ![p] = With(@, t, VersionOf(AskedBy(p)[t], t))]
  /\ UNCHANGED <<conf, lockfile, cache, Upstream, pc, job, mem, meanwhile, spent>>

\* The reduce: one UpdateSumFile per tool, in the order of their names.
LoadForTools(p) ==
  /\ \/ pc[p] = "latest" /\ DOMAIN got[p] = NeedsWork(p)
     \/ pc[p] = "reload"
  /\ LoadInto(p) /\ Goto(p, "puttool")
  /\ UNCHANGED <<conf, lockfile, cache, Upstream, job, got, meanwhile, spent>>

IsFirst(t, S) == t \in S /\ \A u \in S : t <= u

PutTool(p) ==
  /\ pc[p] = "puttool" /\ job[p].kind = "refresh"
  /\ \E t \in Tool :
       /\ IsFirst(t, DOMAIN got[p])
       /\ Write(p, With(mem[p], t, got[p][t]))
       /\ LET left == DOMAIN got[p] \ {t}
          IN /\ got' = [got EXCEPT ![p] = [u \in left |-> @[u]]]
             /\ Goto(p, IF left = {} THEN "done" ELSE "reload")
  /\ UNCHANGED <<conf, cache, Upstream, job, mem, spent>>

\* Mutation: The configured version goes before the locked one.
LookUpConfigured(p) ==
  /\ pc[p] = "read" /\ job[p].kind = "tool"
  /\ LET t == job[p].tool
         rows == OnDisk(job[p].space)
     IN IF AskedBy(p) = None THEN Fail(p)
        ELSE /\ LoadInto(p) /\ meanwhile' = [meanwhile EXCEPT ![p] = {}]
             /\ got' = [got EXCEPT ![p] =
                  IF AskedBy(p) # Latest THEN Only(t, AskedBy(p))
                  ELSE IF t \in DOMAIN rows THEN Only(t, rows[t]) ELSE NoRows]
             /\ Goto(p, IF t \in DOMAIN rows \/ AskedBy(p) # Latest THEN "reload" ELSE "ask")
             /\ UNCHANGED job
  /\ UNCHANGED <<conf, lockfile, cache, Upstream, spent>>

LockedVersion(rows, t) == IF t \in DOMAIN rows THEN Only(t, rows[t]) ELSE NoRows

\* resolveLazyToolInWorkspace: a locked version goes before the configured one.
LookUp(p) ==
  /\ pc[p] = "read" /\ job[p].kind = "tool"
  /\ LET t == job[p].tool
         rows == OnDisk(job[p].space)
     IN IF AskedBy(p) = None THEN Fail(p)
        ELSE /\ LoadInto(p) /\ meanwhile' = [meanwhile EXCEPT ![p] = {}]
             /\ got' = [got EXCEPT ![p] =
                  IF LockedVersion(rows, t) # NoRows THEN LockedVersion(rows, t)
                  ELSE IF AskedBy(p) # Latest THEN Only(t, AskedBy(p)) ELSE NoRows]
             /\ Goto(p, IF t \in DOMAIN rows \/ AskedBy(p) # Latest THEN "reload" ELSE "ask")
             /\ UNCHANGED job
  /\ UNCHANGED <<conf, lockfile, cache, Upstream, spent>>

AskLatest(p) ==
  /\ pc[p] = "ask"
  /\ got' = [got EXCEPT ![p] = Only(job[p].tool, newest[job[p].tool])]
  /\ Goto(p, "reload")
  /\ UNCHANGED <<conf, lockfile, cache, Upstream, job, mem, meanwhile, spent>>

PinTool(p) ==
  /\ pc[p] = "puttool" /\ job[p].kind = "tool"
  /\ Write(p, With(mem[p], job[p].tool, got[p][job[p].tool])) /\ Goto(p, "install")
  /\ UNCHANGED <<conf, cache, Upstream, job, mem, got, spent>>

Install(p) ==
  /\ pc[p] = "install" /\ Goto(p, "done")
  /\ UNCHANGED <<conf, lockfile, cache, Upstream, job, mem, got, meanwhile, spent>>

-----------------------------------------------------------------------------
(* The world.                                                              *)

PushCommit(r, b, c) ==
  /\ Spend("moves", MaxMoves)
  /\ tip[r][b] # c /\ tip' = [tip EXCEPT ![r][b] = c]
  /\ UNCHANGED <<conf, lockfile, cache, newest, pc, job, mem, got, meanwhile>>

Release(t) ==
  /\ Spend("moves", MaxMoves)
  /\ newest' = [newest EXCEPT ![t] = @ + 1]
  /\ UNCHANGED <<conf, lockfile, cache, tip, pc, job, mem, got, meanwhile>>

EditConfig(w, c) ==
  /\ Spend("edits", MaxConfigEdits)
  /\ conf[w] # c /\ conf' = [conf EXCEPT ![w] = c]
  /\ UNCHANGED <<lockfile, cache, Upstream, pc, job, mem, got, meanwhile>>

World ==
  \/ \E r \in Repo, b \in Branch, c \in Commit : PushCommit(r, b, c)
  \/ \E t \in Tool : Release(t)
  \/ \E w \in Space, c \in Configs : EditConfig(w, c)

LocksStep(p) ==
  \/ \E w \in Space : BeginLocks(p, w)
  \/ \E w \in Space, t \in Tool, again \in BOOLEAN : BeginTool(p, w, t, again)
  \/ ReadFails(p) \/ Crashes(p) \/ Return(p)
  \/ Ensure(p) \/ CreateLockFile(p) \/ WriteEmpty(p)
  \/ ReadPins(p) \/ LoadForSources(p) \/ PutSources(p)
  \/ \E s \in Source : HashOne(p, s) \/ HashRefused(p, s)
  \/ Scan(p) \/ LoadForTools(p) \/ PutTool(p)
  \/ \E t \in Tool : LatestOne(p, t)
  \/ LookUp(p) \/ AskLatest(p) \/ PinTool(p) \/ Install(p)

LocksNext == World \/ \E p \in Locker : LocksStep(p)

LocksSpec == LocksInit /\ [][LocksNext]_lockVars

-----------------------------------------------------------------------------
(* Properties.                                                             *)

\* What p's job is for: `mod lock` pins sources anew, and a refresh those that
\* are not pinned as its configuration asks.
MayChange(p, x) ==
  \E s \in Source :
    /\ RepoOf[s] = x
    /\ \/ job[p].kind = "modlock"
       \/ /\ job[p].kind = "refresh" /\ AskedBy(p)[s] # None
          /\ ~Pinned(lockfile[job[p].space], s, AskedBy(p)[s])

ActsIn(p, w) == pc[p] # "idle" /\ pc'[p] # pc[p] /\ job[p].space = w

RowsKept(w) ==
  lockfile'[w] # lockfile[w] /\ lockfile[w] # NoFile =>
    \E p \in Locker : ActsIn(p, w) /\ \A x \in DOMAIN lockfile[w] :
      \/ x \in meanwhile[p]
      \/ /\ x \in DOMAIN lockfile'[w]
         /\ lockfile'[w][x] = lockfile[w][x] \/ MayChange(p, x)

\* Reproducible runs: what is locked changes only by `mod lock`, or when the
\* row of a source is no longer what the refreshing configuration asks for.
\* No row disappears, and a tool's version never changes.  Who writes the whole
\* file over what others wrote after it read the file may undo just their rows.
RowsChangeForAReason == [][\A w \in Space : RowsKept(w)]_lockVars

\* RefreshWorkspaceLocks: after a refresh every input follows a branch, never
\* HEAD or a commit, and is pinned as configured, and every tool has a version;
\* whatever an earlier run, a crash or another configuration left there.  A tool
\* that resolves runs in the version its workspace's lock names, also when it
\* was found in Home's configuration or on a second try.  It is so of each row
\* that nobody else has changed since.
LockIsObeyed ==
  \A p \in Locker : pc[p] = "done" =>
    LET rows == OnDisk(job[p].space) IN
      /\ job[p].kind = "refresh" =>
           /\ \A s \in Source : AskedBy(p)[s] # None =>
                RepoOf[s] \in meanwhile[p] \/ Pinned(rows, s, AskedBy(p)[s])
           /\ \A t \in Tool : AskedBy(p)[t] # None => t \in meanwhile[p] \cup DOMAIN rows
      /\ job[p].kind = "tool" =>
           \/ job[p].tool \in meanwhile[p]
           \/ job[p].tool \in DOMAIN rows /\ rows[job[p].tool] = got[p][job[p].tool]
=============================================================================
