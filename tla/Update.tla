------------------------------- MODULE Update -------------------------------
(***************************************************************************)
(* How the workspaced binary gets to its fixed place: `self-install`       *)
(* copies the running one, `self-update` builds it from source or brings   *)
(* the newest release through the download, unpack and move that every     *)
(* tool's artifact takes.  Paths under the install directory are shared by *)
(* all processes; a path names an inode, and a writer keeps its inode when *)
(* the path is renamed or removed under it.                                *)
(***************************************************************************)
EXTENDS Integers, FiniteSets

CONSTANTS
  Updater,          \* processes that install, one command at a time
  MaxVersion,       \* releases: 0..MaxVersion; 0 is the one that runs
  MaxInode, MaxHarm \* bounds: files at once; crashes and failures

Version == 0..MaxVersion
Inode == 1..MaxInode

ASSUME UpdateAssumption ==
  {MaxVersion, MaxInode, MaxHarm} \subseteq Nat

VARIABLES
  release,   \* the newest release
  path,      \* the inode each path names, or 0
  inode,     \* each file: its release, whether it is whole, executable
  shim,      \* ~/.local/bin/workspaced is there
  doing,     \* the command of each process, and where it is
  opened,    \* the inode it writes, or 0
  harm       \* how much went wrong

updateVars == <<release, path, inode, shim, doing, opened, harm>>

\* What a release's update downloads, unpacks, and finds in the end.
Stage(v) == {"download", "extract", "out"} \X {v}
Bin == <<"bin", 0>>
Paths == {Bin} \cup UNION {Stage(v) : v \in Version}
Blank == [ver |-> 0, whole |-> FALSE, runs |-> FALSE, by |-> "nobody"]
Idle == [kind |-> "none", at |-> "idle", ver |-> 0]

UpdateInit ==
  /\ release = 0
  /\ path = [x \in Paths |-> 0]
  /\ inode = [i \in Inode |-> Blank]
  /\ shim = FALSE
  /\ doing = [p \in Updater |-> Idle]
  /\ opened = [p \in Updater |-> 0]
  /\ harm = 0

Ver(p) == doing[p].ver
Doing(p, l) == doing[p].at = l
Proceeds(p, l) == doing' = [doing EXCEPT ![p].at = l]
Harms == harm < MaxHarm /\ harm' = harm + 1

Free == {i \in Inode : (\A x \in Paths : path[x] # i) /\ \A p \in Updater : opened[p] # i}
Fresh == CHOOSE i \in Free : TRUE

\* open(2): the file that is there, truncated, or a new one.
Open(p, i, f) ==
  /\ inode' = [inode EXCEPT ![i] = f]
  /\ opened' = [opened EXCEPT ![p] = i]
NewFile(p, ver, runs) == [ver |-> ver, whole |-> FALSE, runs |-> runs, by |-> p]
Create(p, f) == Free # {} /\ Open(p, Fresh, f)

\* The last who opened a file determines when it is whole again.
Finished(p) ==
  [inode EXCEPT ![opened[p]].whole = @ \/ inode[opened[p]].by = p]

-----------------------------------------------------------------------------
(* Commands.                                                               *)

\* findSourcePath chooses between the build and the release.
Begin(p) ==
  /\ Doing(p, "idle")
  /\ \E k \in {"source", "github", "install"}, force \in BOOLEAN :
       LET nothing == ~force /\ IF k = "github" THEN release = 0 ELSE k = "install" /\ path[Bin] # 0
       IN doing' = [doing EXCEPT ![p] =
            [kind |-> IF nothing THEN "none" ELSE k,
             ver |-> IF k = "github" THEN release ELSE 0,
             at |-> CASE k = "github" /\ nothing -> "done"
                      [] k = "github" /\ ~nothing -> "download"
                      [] k = "install" /\ nothing -> "shim"
                      [] OTHER -> "temp"]]
  /\ UNCHANGED <<release, path, inode, shim, opened, harm>>

Cleared(p, names) == [x \in Paths |-> IF x \in names THEN 0 ELSE path[x]]

\* The deferred RemoveAll of the release's directories, on every return.
Leave(p) ==
  /\ doing[p].at \in {"done", "failed"}
  /\ path' = IF doing[p].kind = "github" THEN Cleared(p, Stage(Ver(p))) ELSE path
  /\ doing' = [doing EXCEPT ![p] = Idle]
  /\ opened' = [opened EXCEPT ![p] = 0]
  /\ UNCHANGED <<release, inode, shim, harm>>

\* A step that fails; a member of an archive that cannot be written is removed.
StepFails(p) ==
  /\ doing[p].at \notin {"idle", "done", "failed"} /\ Harms
  /\ path' = IF Doing(p, "unpacking") THEN Cleared(p, {<<"extract", Ver(p)>>}) ELSE path
  /\ opened' = [opened EXCEPT ![p] = 0]
  /\ Proceeds(p, "failed")
  /\ UNCHANGED <<release, inode, shim>>

Dies(p) ==
  /\ ~Doing(p, "idle") /\ Harms
  /\ doing' = [doing EXCEPT ![p] = Idle]
  /\ opened' = [opened EXCEPT ![p] = 0]
  /\ UNCHANGED <<release, path, inode, shim>>

-----------------------------------------------------------------------------
(* The build and the copy: a temporary file of their own.                  *)

\* Mutation: the build writes to the fixed path.
WriteInPlace(p) ==
  /\ Doing(p, "temp")
  /\ IF path[Bin] = 0 THEN Create(p, NewFile(p, 0, TRUE)) /\ path' = [path EXCEPT ![Bin] = Fresh]
     ELSE Open(p, path[Bin], NewFile(p, 0, TRUE)) /\ UNCHANGED path
  /\ Proceeds(p, "writing")
  /\ UNCHANGED <<release, shim, harm>>

WriteTemp(p) ==
  /\ Doing(p, "temp")
  /\ Create(p, NewFile(p, 0, TRUE))
  /\ Proceeds(p, "writing")
  /\ UNCHANGED <<release, path, shim, harm>>

RenameTemp(p) ==
  /\ Doing(p, "writing")
  /\ inode' = Finished(p)
  /\ path' = [path EXCEPT ![Bin] = opened[p]]
  /\ opened' = [opened EXCEPT ![p] = 0]
  /\ Proceeds(p, "shim")
  /\ UNCHANGED <<release, shim, harm>>

-----------------------------------------------------------------------------
(* InstallArtifact.                                                        *)

\* DownloadFile goes through a temporary file of its own, and tries the direct
\* download when the one that verifies a hash fails.
DownloadFile(p) ==
  /\ Doing(p, "download") /\ Free # {}
  /\ LET i == Fresh IN
       /\ inode' = [inode EXCEPT ![i] = [NewFile(p, Ver(p), FALSE) EXCEPT !.whole = TRUE]]
       /\ path' = [path EXCEPT ![<<"download", Ver(p)>>] = i]
  /\ Proceeds(p, "unpack")
  /\ UNCHANGED <<release, shim, opened, harm>>

\* Extract: a member of an archive is opened in place, with or without its
\* executable bit; a bare binary is written through a temporary file.
OpenMember(p) ==
  /\ Doing(p, "unpack") /\ path[<<"download", Ver(p)>>] # 0
  /\ LET from == inode[path[<<"download", Ver(p)>>]]
         at == <<"extract", Ver(p)>>
     IN \/ \E runs \in BOOLEAN :
             LET f == NewFile(p, from.ver, runs) IN
               IF path[at] # 0
                 THEN Open(p, path[at], f) /\ UNCHANGED path
                 ELSE Create(p, f) /\ path' = [path EXCEPT ![at] = Fresh]
        \/ /\ Free # {}
           /\ inode' = [inode EXCEPT ![Fresh] =
                [NewFile(p, from.ver, TRUE) EXCEPT !.whole = TRUE]]
           /\ opened' = [opened EXCEPT ![p] = Fresh]
           /\ path' = [path EXCEPT ![at] = Fresh]
  /\ Proceeds(p, "unpacking")
  /\ UNCHANGED <<release, shim, harm>>

CloseMember(p) ==
  /\ Doing(p, "unpacking")
  /\ inode' = Finished(p)
  /\ opened' = [opened EXCEPT ![p] = 0]
  /\ Proceeds(p, "move")
  /\ UNCHANGED <<release, path, shim, harm>>

\* MoveContents moves what it finds, and the directory it came from goes.
MoveContents(p) ==
  /\ Doing(p, "move")
  /\ path' = [Cleared(p, {<<"download", Ver(p)>>, <<"extract", Ver(p)>>}) EXCEPT
       ![<<"out", Ver(p)>>] = IF path[<<"extract", Ver(p)>>] # 0
                               THEN path[<<"extract", Ver(p)>>] ELSE @]
  /\ Proceeds(p, "rename")
  /\ UNCHANGED <<release, inode, shim, opened, harm>>

-----------------------------------------------------------------------------
(* updateFromGitHub, after InstallArtifact.                                *)

\* What another process has removed is an error.
Missing(p) ==
  /\ \/ Doing(p, "unpack") /\ path[<<"download", Ver(p)>>] = 0
     \/ Doing(p, "rename") /\ path[<<"out", Ver(p)>>] = 0
  /\ Proceeds(p, "failed")
  /\ UNCHANGED <<release, path, inode, shim, opened, harm>>

RenameBinary(p) ==
  /\ Doing(p, "rename") /\ path[<<"out", Ver(p)>>] # 0
  /\ path' = [path EXCEPT ![Bin] = path[<<"out", Ver(p)>>], ![<<"out", Ver(p)>>] = 0]
  /\ Proceeds(p, "chmod")
  /\ UNCHANGED <<release, inode, shim, opened, harm>>

Chmod(p) ==
  /\ Doing(p, "chmod")
  /\ inode' = [inode EXCEPT ![path[Bin]].runs = TRUE]
  /\ Proceeds(p, "shim")
  /\ UNCHANGED <<release, path, shim, opened, harm>>

EnsureWorkspacedShim(p) ==
  /\ Doing(p, "shim")
  /\ shim' = TRUE /\ Proceeds(p, "done")
  /\ UNCHANGED <<release, path, inode, opened, harm>>

Publish ==
  /\ release < MaxVersion /\ release' = release + 1
  /\ UNCHANGED <<path, inode, shim, doing, opened, harm>>

UpdateNext ==
  \/ Publish
  \/ \E p \in Updater :
       \/ Begin(p) \/ Leave(p) \/ StepFails(p) \/ Dies(p)
       \/ WriteTemp(p) \/ RenameTemp(p)
       \/ DownloadFile(p) \/ OpenMember(p) \/ CloseMember(p) \/ MoveContents(p)
       \/ Missing(p) \/ RenameBinary(p) \/ Chmod(p) \/ EnsureWorkspacedShim(p)

UpdateSpec == UpdateInit /\ [][UpdateNext]_updateVars

-----------------------------------------------------------------------------
(* Properties.                                                             *)

Installed == inode[path[Bin]]

\* Whatever crashes or fails, and whatever an earlier attempt has left, the
\* binary that the shim starts is a whole one; and an update that ended well has
\* put the release it chose behind the shim, whole and executable.
BinaryIsSound ==
  /\ path[Bin] # 0 => Installed.whole
  /\ \A p \in Updater : Doing(p, "done") /\ doing[p].kind # "none"
       => shim /\ Installed.whole /\ Installed.runs /\ Installed.ver = Ver(p)
=============================================================================
