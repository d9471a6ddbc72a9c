------------------------------- MODULE Backup -------------------------------
(***************************************************************************)
(* `home backup run`: every configured action runs as an item of a Map,    *)
(* isolated from the others.  A git_repo_sync action commits what lies in  *)
(* a working tree and brings it to its Dst, an archive action replaces a   *)
(* tar file, an rsync action copies.  git is modelled by what its commands *)
(* do to a repository: histories are the sets of changes they contain.     *)
(***************************************************************************)
EXTENDS Naturals, FiniteSets

CONSTANTS
  Action, Kind,     \* the configured actions; "git", "archive" or "rsync"
  Src, Dst,         \* what each action reads, and where it puts it
  Change,           \* what users and other machines write
  Conflicts,        \* pairs of changes that cannot be rebased on each other
  NoRef,            \* a branch, remote or file that is not there
  MaxRuns, MaxMishaps

ASSUME BackupAssumption ==
  /\ Kind \in [Action -> {"git", "archive", "rsync"}]
  /\ DOMAIN Src = Action /\ DOMAIN Dst = Action
  /\ Conflicts \subseteq Change \X Change
  /\ \A h \in SUBSET Change : h # NoRef
  /\ {MaxRuns, MaxMishaps} \subseteq Nat

VARIABLES
  repo,      \* each source's working tree and repository
  remote,    \* the branch at each destination; an archive or a copy likewise
  stand,     \* where each action is
  verdict,   \* each action's outcome
  staged,    \* what an action has committed, or packed, to bring away
  full,      \* the command: "idle", "running", "ok", "failed" or "cancelled"
  used       \* bounds: runs, mishaps

backupVars == <<repo, remote, stand, verdict, staged, full, used>>

Gits == {a \in Action : Kind[a] = "git"}

\* There may be no directory, one without git, one that git init left, or a
\* clone; `side` is what only another local branch has.
WorkTree(git, head, log, side, dirty, there) ==
  [git |-> git, head |-> head, log |-> log, side |-> side, dirty |-> dirty,
   url |-> NoRef, there |-> there]
Absent == WorkTree(FALSE, "none", {}, {}, {}, FALSE)
Cloned(log) == WorkTree(TRUE, "branch", log, {}, {}, TRUE)
Unborn == WorkTree(TRUE, "unborn", {}, {}, {}, TRUE)
Beginnings == {Absent, [Absent EXCEPT !.there = TRUE], Unborn, Cloned({})}

BackupInit ==
  /\ repo \in [{Src[a] : a \in Action} -> Beginnings]
  /\ remote \in [{Dst[a] : a \in Action} -> {NoRef, {}}]
  /\ stand = [a \in Action |-> "idle"]
  /\ verdict = [a \in Action |-> "none"]
  /\ staged = [a \in Action |-> {}]
  /\ full = "idle"
  /\ used = [runs |-> 0, mishaps |-> 0]

Local(a) == repo[Src[a]]
Remote(a) == remote[Dst[a]]
Present(a) == IF Remote(a) = NoRef THEN {} ELSE Remote(a)
SetLocal(a, r) == repo' = [repo EXCEPT ![Src[a]] = r]
At(a, l) == stand' = [stand EXCEPT ![a] = l]
Ends(a, v) == At(a, "ended") /\ verdict' = [verdict EXCEPT ![a] = v]
\* A failed action becomes an outcome; Isolate keeps it from its siblings.
Stops(a) == Ends(a, "failed") /\ UNCHANGED full
Spend1(b, max) == used[b] < max /\ used' = [used EXCEPT ![b] = @ + 1]

Known == UNION ({repo[s].log \cup repo[s].side \cup repo[s].dirty : s \in DOMAIN repo}
                \cup {remote[d] : d \in {e \in DOMAIN remote : remote[e] # NoRef}})

-----------------------------------------------------------------------------
(* RunFullBackup.                                                          *)

RunFullBackup ==
  /\ full # "running" /\ Spend1("runs", MaxRuns)
  /\ full' = "running"
  /\ stand' = [a \in Action |-> "begin"]
  /\ verdict' = [a \in Action |-> "none"]
  /\ staged' = [a \in Action |-> {}]
  /\ UNCHANGED <<repo, remote>>

Report ==
  /\ full = "running" /\ \A a \in Action : stand[a] = "ended"
  /\ full' = IF \A a \in Action : verdict[a] = "ok" THEN "ok" ELSE "failed"
  /\ UNCHANGED <<repo, remote, stand, verdict, staged, used>>

\* A command that fails, a network that is away: the action's Run returns it.
ActionFails(a) ==
  /\ full = "running" /\ stand[a] \notin {"idle", "ended"} /\ Spend1("mishaps", MaxMishaps)
  /\ Stops(a)
  /\ UNCHANGED <<repo, remote, staged>>

\* The user's interrupt cancels every action, and Map returns the error.
Cancel ==
  /\ full = "running" /\ Spend1("mishaps", MaxMishaps)
  /\ full' = "cancelled"
  /\ verdict' = [a \in Action |-> IF stand[a] = "ended" THEN verdict[a] ELSE "cancelled"]
  /\ stand' = [a \in Action |-> "ended"]
  /\ repo' \in {[s \in DOMAIN repo |->
        IF s \in hit THEN [repo[s] EXCEPT !.head = "rebase"] ELSE repo[s]] :
          hit \in SUBSET {Src[a] : a \in {b \in Gits : stand[b] = "pull"}}}
  /\ UNCHANGED <<remote, staged>>

-----------------------------------------------------------------------------
(* GitRepoSyncAction.Run.                                                  *)

In(a, l) == full = "running" /\ a \in Gits /\ stand[a] = l
OnlyLocal(a) == UNCHANGED <<remote, staged, full, used>>

\* Mutation: The files beside an unborn .git do not matter.
CheckRepoWipes(a) ==
  /\ In(a, "begin")
  /\ LET r == Local(a) IN
       IF ~r.git
         THEN IF r.dirty # {} THEN Stops(a) /\ UNCHANGED repo
              ELSE SetLocal(a, Absent) /\ At(a, "clone") /\ UNCHANGED verdict
       ELSE IF r.head # "unborn" THEN At(a, "commit") /\ UNCHANGED <<repo, verdict>>
       ELSE SetLocal(a, Absent) /\ At(a, "clone") /\ UNCHANGED verdict
  /\ OnlyLocal(a)

\* A directory without .git must be empty to be replaced by a clone; a
\* repository without a commit must hold nothing but .git.
CheckRepo(a) ==
  /\ In(a, "begin")
  /\ LET r == Local(a) IN
       IF ~r.git
         THEN IF r.dirty # {} THEN Stops(a) /\ UNCHANGED repo
              ELSE SetLocal(a, Absent) /\ At(a, "clone") /\ UNCHANGED verdict
       ELSE IF r.head # "unborn" THEN At(a, "commit") /\ UNCHANGED <<repo, verdict>>
       ELSE IF r.dirty # {} THEN Stops(a) /\ UNCHANGED repo
       ELSE SetLocal(a, Absent) /\ At(a, "clone") /\ UNCHANGED verdict
  /\ OnlyLocal(a)

\* A remote whose HEAD names no branch leaves a clone without a checkout.
Clone(a) ==
  /\ In(a, "clone")
  /\ IF Local(a).there THEN Stops(a) /\ UNCHANGED repo
     ELSE /\ \E r \in {Unborn} \cup (IF Remote(a) = NoRef THEN {} ELSE {Cloned(Remote(a))}) :
               SetLocal(a, r)
          /\ At(a, "checkout") /\ UNCHANGED verdict
  /\ OnlyLocal(a)

\* The fallback is a branch of origin, if it has any.  What another action has
\* removed in between is no repository.
CheckoutFallback(a) ==
  /\ In(a, "checkout")
  /\ IF ~Local(a).git THEN Stops(a) /\ UNCHANGED repo
     ELSE IF Local(a).head # "unborn" THEN At(a, "commit") /\ UNCHANGED <<repo, verdict>>
     ELSE IF Remote(a) = NoRef THEN Stops(a) /\ UNCHANGED repo
     ELSE /\ SetLocal(a, [Local(a) EXCEPT !.head = "branch", !.log = Remote(a)])
          /\ At(a, "commit") /\ UNCHANGED verdict
  /\ OnlyLocal(a)

\* git add -A and git commit.
CommitIfDirty(a) ==
  /\ In(a, "commit")
  /\ SetLocal(a, [Local(a) EXCEPT !.log = @ \cup Local(a).dirty, !.dirty = {}])
  /\ staged' = [staged EXCEPT ![a] = Local(a).log \cup Local(a).dirty]
  /\ At(a, "remote")
  /\ UNCHANGED <<remote, verdict, full, used>>

EnsureRemoteURL(a) ==
  /\ In(a, "remote")
  /\ SetLocal(a, [Local(a) EXCEPT !.url = Dst[a]])
  /\ At(a, "list") /\ UNCHANGED verdict /\ OnlyLocal(a)

\* A remote that cannot be listed counts as one without the branch; during a
\* rebase HEAD names none.
RemoteHasBranch(a) ==
  /\ In(a, "list")
  /\ \/ Local(a).head = "branch" /\ remote[Local(a).url] # NoRef /\ At(a, "pull") /\ UNCHANGED used
     \/ (Local(a).head # "branch" \/ remote[Local(a).url] = NoRef) /\ At(a, "push") /\ UNCHANGED used
     \/ Spend1("mishaps", MaxMishaps) /\ At(a, "push")
  /\ UNCHANGED <<repo, remote, verdict, staged, full>>

\* Another action on the tree may have turned the remote elsewhere meanwhile.
Refused(a) == Local(a).dirty # {} \/ remote[Local(a).url] = NoRef
Clash(a) == LET r == Local(a) IN
  \E c \in (r.log \ remote[r.url]), d \in (remote[r.url] \ r.log) : <<c, d>> \in Conflicts

\* git pull --rebase refuses a dirty tree and needs the branch; a conflict is
\* aborted, and the abort may fail.
PullRebase(a) ==
  /\ In(a, "pull")
  /\ \/ Refused(a) /\ Stops(a) /\ UNCHANGED <<repo, used>>
     \/ ~Refused(a) /\ Clash(a) /\ Stops(a) /\ UNCHANGED <<repo, used>>
     \/ /\ ~Refused(a) /\ Clash(a) /\ Stops(a) /\ Spend1("mishaps", MaxMishaps)
        /\ SetLocal(a, [Local(a) EXCEPT !.head = "rebase"])
     \/ /\ ~Refused(a) /\ ~Clash(a) /\ At(a, "push") /\ UNCHANGED <<verdict, full, used>>
        /\ SetLocal(a, [Local(a) EXCEPT !.log = @ \cup remote[Local(a).url]])
  /\ UNCHANGED <<remote, staged>>

\* Mutation: A push that is refused is only logged.
PushLogs(a) ==
  /\ In(a, "push")
  /\ LET r == Local(a) IN
       /\ IF r.head = "branch" /\ (remote[r.url] = NoRef \/ remote[r.url] \subseteq r.log)
            THEN remote' = [remote EXCEPT ![r.url] = r.log]
            ELSE UNCHANGED remote
       /\ Ends(a, "ok") /\ UNCHANGED full
  /\ UNCHANGED <<repo, staged, used>>

\* git push only moves a branch forward, and only a branch.
Push(a) ==
  /\ In(a, "push")
  /\ LET r == Local(a) IN
       IF r.head = "branch" /\ (remote[r.url] = NoRef \/ remote[r.url] \subseteq r.log)
         THEN remote' = [remote EXCEPT ![r.url] = r.log] /\ Ends(a, "ok") /\ UNCHANGED full
         ELSE Stops(a) /\ UNCHANGED remote
  /\ UNCHANGED <<repo, staged, used>>

-----------------------------------------------------------------------------
(* The other kinds.                                                        *)

\* What is read must be there.
Takes(a, next) ==
  /\ IF Local(a).there
       THEN /\ staged' = [staged EXCEPT ![a] = Local(a).log \cup Local(a).dirty]
            /\ At(a, next) /\ UNCHANGED verdict
       ELSE Stops(a) /\ UNCHANGED staged
  /\ UNCHANGED <<repo, remote, full, used>>

\* tar writes a temporary file, which refuses a tree that changes under it ...
Pack(a) ==
  /\ full = "running" /\ Kind[a] = "archive" /\ stand[a] = "begin"
  /\ Takes(a, "install")

\* ... and the finished one replaces the output.
InstallArchive(a) ==
  /\ full = "running" /\ Kind[a] = "archive" /\ stand[a] = "install"
  /\ remote' = [remote EXCEPT ![Dst[a]] = staged[a]]
  /\ Ends(a, "ok") /\ UNCHANGED <<repo, staged, full, used>>

\* rsync is a task of its own in the IO pool; files arrive one by one.
RsyncLeaf(a) ==
  /\ full = "running" /\ Kind[a] = "rsync" /\ stand[a] = "begin"
  /\ Takes(a, "copy")

Copy(a) ==
  /\ full = "running" /\ Kind[a] = "rsync" /\ stand[a] = "copy"
  /\ IF staged[a] \subseteq Present(a) THEN Ends(a, "ok") /\ UNCHANGED remote
     ELSE /\ \E c \in staged[a] \ Present(a) :
               remote' = [remote EXCEPT ![Dst[a]] = Present(a) \cup {c}]
          /\ UNCHANGED <<stand, verdict>>
  /\ UNCHANGED <<repo, staged, full, used>>

-----------------------------------------------------------------------------
(* The user, and the other machines that push to a destination.            *)

\* `there` also holds for the files of a directory without git.
Edit(s, c) ==
  /\ c \notin Known
  /\ repo' = [repo EXCEPT ![s].dirty = @ \cup {c}, ![s].there = TRUE]
  /\ UNCHANGED <<remote, stand, verdict, staged, full, used>>

\* git checkout --orphan, and a branch that is left behind with its commits.
LeaveBranch(s) ==
  /\ repo[s].head = "branch" /\ repo[s].log # {} /\ repo[s].dirty = {}
  /\ full # "running"
  /\ repo' = [repo EXCEPT ![s].head = "unborn", ![s].side = @ \cup repo[s].log, ![s].log = {}]
  /\ UNCHANGED <<remote, stand, verdict, staged, full, used>>

PeerPushes(a, c) ==
  /\ a \in Gits /\ c \notin Known /\ Remote(a) # NoRef
  /\ remote' = [remote EXCEPT ![Dst[a]] = @ \cup {c}]
  /\ UNCHANGED <<repo, stand, verdict, staged, full, used>>

BackupNext ==
  \/ RunFullBackup \/ Report \/ Cancel
  \/ \E a \in Action :
       \/ ActionFails(a)
       \/ CheckRepo(a) \/ Clone(a) \/ CheckoutFallback(a) \/ CommitIfDirty(a)
       \/ EnsureRemoteURL(a) \/ RemoteHasBranch(a) \/ PullRebase(a) \/ Push(a)
       \/ Pack(a) \/ InstallArchive(a) \/ RsyncLeaf(a) \/ Copy(a)
       \/ \E c \in Change : PeerPushes(a, c)
  \/ \E s \in DOMAIN repo : LeaveBranch(s) \/ \E c \in Change : Edit(s, c)

BackupSpec == BackupInit /\ [][BackupNext]_backupVars

-----------------------------------------------------------------------------
(* Properties.                                                             *)

\* commitIfDirty, clone, pullRebase: whatever fails, conflicts, is interrupted
\* or is written meanwhile, no step loses what lies in a working tree or is
\* committed to its branch.
BranchWorkKept ==
  [][\A s \in DOMAIN repo :
       repo[s].log \cup repo[s].dirty
         \subseteq repo'[s].log \cup repo'[s].dirty \cup repo'[s].side]_backupVars

\* No other action pushes the same tree elsewhere or packs over what is brought.
Undisturbed(a) ==
  /\ a \in Gits => \A b \in Gits : Src[b] = Src[a] => Dst[b] = Dst[a]
  /\ \A b \in Action : Kind[b] = "archive" /\ Dst[b] = Dst[a] => b = a

\* RunFullBackup: a backup that reports success has brought to each action's
\* destination all that the action found, if no other action is in its way.
ReportedMeansSafe ==
  full = "ok" => \A a \in Action : Undisturbed(a) => staged[a] \subseteq Present(a)
=============================================================================
