-------------------------- MODULE Commands_proofs --------------------------
(***************************************************************************)
(* What commands promise: `home backup run`, for every set of actions,     *)
(* whichever of them share a working tree or a destination; the queue of   *)
(* `sudo`, for any number of those who ask and of those who approve; a nix *)
(* build or deploy, for any jobs, nodes and revisions; lint and format,    *)
(* for any tools and files; the shell history, for any recorders, ingests  *)
(* and searches; and the progress UI, for any groups and tasks.  They      *)
(* share no state.                                                         *)
(***************************************************************************)
EXTENDS Backup, Sudo, Nix, Checks, History, Display, FiniteSetTheorems, TLAPS

-----------------------------------------------------------------------------
(* home backup run.                                                        *)

Dests == {Dst[a] : a \in Action}
Sources == {Src[a] : a \in Action}
Branch == (SUBSET Change) \cup {NoRef}

Repository ==
  [git : BOOLEAN, head : {"none", "unborn", "branch", "rebase"},
   log : SUBSET Change, side : SUBSET Change, dirty : SUBSET Change,
   url : Dests \cup {NoRef}, there : BOOLEAN]

Stands == {"idle", "begin", "clone", "checkout", "commit", "remote", "list", "pull", "push",
           "install", "copy", "ended"}

BackupTypeOK ==
  /\ repo \in [Sources -> Repository]
  /\ remote \in [Dests -> Branch]
  /\ stand \in [Action -> Stands]
  /\ verdict \in [Action -> {"none", "ok", "failed", "cancelled"}]
  /\ staged \in [Action -> SUBSET Change]
  /\ full \in {"idle", "running", "ok", "failed", "cancelled"}
  /\ used \in [{"runs", "mishaps"} -> Nat]

\* A directory that holds nothing yet has no files, and one without a commit no
\* history.
TreesAreWhole ==
  \A s \in Sources :
    /\ repo[s].git => repo[s].there
    /\ ~repo[s].git => repo[s].log = {}
    /\ ~repo[s].there => repo[s].dirty = {}
    /\ repo[s].head = "unborn" => repo[s].log = {}

\* An action at work is an action of a backup that runs, and a success that is
\* reported is every action's.
Working(a) == stand[a] \notin {"idle", "ended"}
CommandKnows ==
  /\ full # "running" => \A a \in Action : ~Working(a)
  /\ full = "ok" => \A a \in Action : stand[a] = "ended" /\ verdict[a] = "ok"

\* Past the checkout the tree is a repository with a commit, which no other
\* action of the backup takes away; what was committed stays in its history.
Committing == {"commit", "remote", "list", "pull", "push"}
Committed == {"remote", "list", "pull", "push"}
Sending == {"list", "pull", "push"}
CommitsStand ==
  \A a \in Action :
    /\ stand[a] \in Committing => Local(a).git /\ Local(a).head # "unborn"
    /\ stand[a] \in Committed => staged[a] \subseteq Local(a).log

\* What is sent goes to a destination, and to the action's own if no other
\* action disturbs it.
RoadsAreSet ==
  \A a \in Action : stand[a] \in Sending =>
    /\ Local(a).url \in Dests
    /\ Undisturbed(a) => Local(a).url = Dst[a]

\* Only an action of git's kind commits and sends.
KindsKeep == \A a \in Action : stand[a] \in Committing => a \in Gits

\* What a successful action took is at its destination, and stays there.
OkIsSafe ==
  \A a \in Action :
    stand[a] = "ended" /\ verdict[a] = "ok" /\ Undisturbed(a) => staged[a] \subseteq Present(a)

BackupInv ==
  /\ BackupTypeOK /\ TreesAreWhole /\ CommandKnows
  /\ CommitsStand /\ RoadsAreSet /\ KindsKeep /\ OkIsSafe

-----------------------------------------------------------------------------

\* A tree that an action makes is a tree.
LEMMA TreesMade ==
  /\ Absent \in Repository /\ Unborn \in Repository
  /\ \A l \in SUBSET Change : Cloned(l) \in Repository
BY DEF Absent, Unborn, Cloned, WorkTree, Repository

\* A tree that is checked out or committed is a tree: what changes, and what
\* does not.
LEMMA CheckedOut ==
  ASSUME NEW r \in Repository, NEW l \in SUBSET Change
  PROVE  LET q == [r EXCEPT !.head = "branch", !.log = l] IN
           /\ q \in Repository /\ q.head = "branch" /\ q.log = l /\ q.git = r.git
           /\ q.there = r.there /\ q.dirty = r.dirty /\ q.url = r.url /\ q.side = r.side
BY DEF Repository

LEMMA AllCommitted ==
  ASSUME NEW r \in Repository
  PROVE  LET q == [r EXCEPT !.log = @ \cup r.dirty, !.dirty = {}] IN
           /\ q \in Repository /\ q.head = r.head /\ q.log = r.log \cup r.dirty
           /\ q.git = r.git /\ q.there = r.there /\ q.dirty = {} /\ q.url = r.url
           /\ q.side = r.side
BY DEF Repository

\* The configuration: every action has a source and a destination.
LEMMA Places ==
  ASSUME NEW a \in Action
  PROVE  Src[a] \in Sources /\ Dst[a] \in Dests
BY DEF Sources, Dests

\* No backup has run yet.
LEMMA BackupInitInv == BackupInit => BackupInv
<1> SUFFICES ASSUME BackupInit PROVE BackupInv
  OBVIOUS
<1>1. \A r \in Beginnings : /\ r \in Repository /\ r.log = {} /\ r.dirty = {}
                            /\ r.git => r.there
  <2> SUFFICES ASSUME NEW r \in Beginnings
               PROVE  /\ r \in Repository /\ r.log = {} /\ r.dirty = {}
                      /\ r.git => r.there
    OBVIOUS
  <2>1. CASE r = Absent
    BY <2>1, TreesMade DEF Absent, WorkTree
  <2>2. CASE r = [Absent EXCEPT !.there = TRUE]
    BY <2>2 DEF Absent, WorkTree, Repository
  <2>3. CASE r = Unborn
    BY <2>3, TreesMade DEF Unborn, WorkTree
  <2>4. CASE r = Cloned({})
    BY <2>4, TreesMade DEF Cloned, WorkTree
  <2> QED
    BY <2>1, <2>2, <2>3, <2>4 DEF Beginnings
<1>2. BackupTypeOK
  <2>1. repo \in [Sources -> Repository]
    BY <1>1 DEF BackupInit, Sources
  <2>2. remote \in [Dests -> Branch]
    BY DEF BackupInit, Dests, Branch
  <2> QED
    BY <2>1, <2>2 DEF BackupInit, BackupTypeOK, Stands
<1>3. TreesAreWhole
  BY <1>1 DEF BackupInit, TreesAreWhole, Sources
<1> QED
  BY <1>2, <1>3 DEF BackupInit, BackupInv, CommandKnows, Working, CommitsStand, RoadsAreSet,
    KindsKeep, OkIsSafe, Committing, Committed, Sending

\* Only a tree without history is taken away, so no action that commits loses
\* its own.
LEMMA CheckRepoInv ==
  ASSUME BackupInv, NEW a \in Action, CheckRepo(a)
  PROVE  BackupInv'
<1> USE DEF BackupInv, CheckRepo, In, OnlyLocal, SetLocal, At, Ends, Stops, Local
<1> Src[a] \in Sources /\ Dst[a] \in Dests
  BY Places
<1>8. \A s \in Sources :
       repo'[s] = repo[s] \/ ~repo[s].git \/ repo[s].head = "unborn"
  BY DEF BackupTypeOK, Repository
<1>1. BackupTypeOK'
  BY TreesMade DEF BackupTypeOK, Stands, Branch, Repository
<1>2. TreesAreWhole'
  BY BackupAssumption DEF BackupTypeOK, Absent, Unborn, Cloned, WorkTree, TreesAreWhole, Repository
<1>3. CommandKnows'
  BY BackupAssumption DEF BackupTypeOK, CommandKnows, Working
<1>4. CommitsStand'
  <2> SUFFICES ASSUME NEW b \in Action
               PROVE  /\ stand'[b] \in Committing => Local(b)'.git /\ Local(b)'.head # "unborn"
                      /\ stand'[b] \in Committed => staged'[b] \subseteq Local(b)'.log
    BY DEF CommitsStand
  <2> Src[b] \in Sources
    BY Places
  <2> QED
    BY <1>8 DEF BackupTypeOK, CommitsStand, TreesAreWhole, Committing, Committed, Local
<1>5. RoadsAreSet'
  <2> SUFFICES ASSUME NEW b \in Action, stand'[b] \in Sending
               PROVE  Local(b)'.url \in Dests /\ (Undisturbed(b) => Local(b)'.url = Dst[b])
    BY DEF RoadsAreSet, Undisturbed
  <2> Src[b] \in Sources
    BY Places
  <2> QED
    BY <1>8 DEF BackupTypeOK, CommitsStand, RoadsAreSet, TreesAreWhole, Committing, Sending, Local
<1>6. KindsKeep'
  BY BackupAssumption DEF BackupTypeOK, KindsKeep, Committing
<1>7. OkIsSafe'
  BY BackupAssumption DEF BackupTypeOK, OkIsSafe, Present, Remote, Undisturbed
<1> QED
  BY <1>1, <1>2, <1>3, <1>4, <1>5, <1>6, <1>7

\* A clone is made where there is nothing.
LEMMA CloneInv ==
  ASSUME BackupInv, NEW a \in Action, Clone(a)
  PROVE  BackupInv'
<1> USE DEF BackupInv, Clone, In, OnlyLocal, SetLocal, At, Ends, Stops, Local, Remote
<1> Src[a] \in Sources /\ Dst[a] \in Dests
  BY Places
<1>8. \A s \in Sources : repo'[s] = repo[s] \/ ~repo[s].there
  BY DEF BackupTypeOK, Repository
<1>1. BackupTypeOK'
  BY TreesMade DEF BackupTypeOK, Stands, Branch, Repository
<1>2. TreesAreWhole'
  BY BackupAssumption DEF BackupTypeOK, Absent, Unborn, Cloned, WorkTree, TreesAreWhole, Repository
<1>3. CommandKnows'
  BY BackupAssumption DEF BackupTypeOK, CommandKnows, Working
<1>4. CommitsStand'
  <2> SUFFICES ASSUME NEW b \in Action
               PROVE  /\ stand'[b] \in Committing => Local(b)'.git /\ Local(b)'.head # "unborn"
                      /\ stand'[b] \in Committed => staged'[b] \subseteq Local(b)'.log
    BY DEF CommitsStand
  <2> Src[b] \in Sources
    BY Places
  <2> QED
    BY <1>8 DEF BackupTypeOK, CommitsStand, TreesAreWhole, Committing, Committed, Local
<1>5. RoadsAreSet'
  <2> SUFFICES ASSUME NEW b \in Action, stand'[b] \in Sending
               PROVE  Local(b)'.url \in Dests /\ (Undisturbed(b) => Local(b)'.url = Dst[b])
    BY DEF RoadsAreSet, Undisturbed
  <2> Src[b] \in Sources
    BY Places
  <2> QED
    BY <1>8 DEF BackupTypeOK, CommitsStand, RoadsAreSet, TreesAreWhole, Committing, Sending, Local
<1>6. KindsKeep'
  BY BackupAssumption DEF BackupTypeOK, KindsKeep, Committing
<1>7. OkIsSafe'
  BY BackupAssumption DEF BackupTypeOK, OkIsSafe, Present, Remote, Undisturbed
<1> QED
  BY <1>1, <1>2, <1>3, <1>4, <1>5, <1>6, <1>7

\* The fallback checks out a branch, where there is none yet, or does nothing.
LEMMA CheckoutTree ==
  ASSUME BackupInv, NEW a \in Action, CheckoutFallback(a)
  PROVE  /\ repo' \in [Sources -> Repository]
         /\ \A s \in Sources :
              \/ repo'[s] = repo[s]
              \/ /\ repo[s].git /\ repo[s].head = "unborn"
                 /\ repo'[s].git /\ repo'[s].head = "branch"
                 /\ repo'[s].there = repo[s].there /\ repo'[s].dirty = repo[s].dirty
         /\ stand'[a] = "commit" => Local(a)'.git /\ Local(a)'.head # "unborn"
<1> USE DEF BackupInv
<1> Src[a] \in Sources /\ Dst[a] \in Dests
  BY Places
<1> DEFINE Keeps == repo' = repo /\ (stand'[a] = "commit" => Local(a).git /\ Local(a).head # "unborn")
           Checks == /\ Remote(a) # NoRef /\ Local(a).git /\ Local(a).head = "unborn"
                     /\ SetLocal(a, [Local(a) EXCEPT !.head = "branch", !.log = Remote(a)])
<1>1. CASE Keeps
  BY <1>1 DEF Local, BackupTypeOK
<1>2. CASE Checks
  <2>1. Local(a) \in Repository /\ Remote(a) \in SUBSET Change
    BY <1>2 DEF BackupTypeOK, Branch, Local, Remote
  <2>2. PICK q \in Repository :
          /\ q = [Local(a) EXCEPT !.head = "branch", !.log = Remote(a)]
          /\ q.head = "branch" /\ q.git = Local(a).git
          /\ q.there = Local(a).there /\ q.dirty = Local(a).dirty
    BY <2>1, CheckedOut
  <2>3. repo' = [repo EXCEPT ![Src[a]] = q]
    BY <1>2, <2>2 DEF SetLocal
  <2> QED
    BY <1>2, <2>2, <2>3 DEF Local, BackupTypeOK
<1>3. Keeps \/ Checks
  BY DEF CheckoutFallback, Stops, Ends, At, BackupTypeOK
<1> QED
  BY <1>1, <1>2, <1>3

\* A checkout leaves the trees of those that commit.
LEMMA CheckoutFallbackInv ==
  ASSUME BackupInv, NEW a \in Action, CheckoutFallback(a)
  PROVE  BackupInv'
<1> USE DEF BackupInv
<1> Src[a] \in Sources /\ Dst[a] \in Dests
  BY Places
<1>1. /\ a \in Gits /\ stand[a] = "checkout" /\ full = "running"
      /\ UNCHANGED <<remote, staged, full, used>>
      /\ stand' = [stand EXCEPT ![a] = stand'[a]] /\ stand'[a] \in {"ended", "commit"}
      /\ verdict' = [verdict EXCEPT ![a] = verdict'[a]] /\ verdict'[a] \in {verdict[a], "failed"}
      /\ stand'[a] = "ended" => verdict'[a] = "failed"
  BY DEF CheckoutFallback, In, OnlyLocal, Stops, Ends, At, BackupTypeOK
<1>2. /\ repo' \in [Sources -> Repository]
      /\ \A s \in Sources :
           \/ repo'[s] = repo[s]
           \/ /\ repo[s].git /\ repo[s].head = "unborn"
              /\ repo'[s].git /\ repo'[s].head = "branch"
              /\ repo'[s].there = repo[s].there /\ repo'[s].dirty = repo[s].dirty
      /\ stand'[a] = "commit" => Local(a)'.git /\ Local(a)'.head # "unborn"
  BY CheckoutTree
<1>3. BackupTypeOK'
  BY <1>1, <1>2 DEF BackupTypeOK, Stands
<1>4. TreesAreWhole'
  BY <1>2 DEF BackupTypeOK, TreesAreWhole
<1>5. CommandKnows'
  BY <1>1 DEF CommandKnows
<1>6. CommitsStand' /\ RoadsAreSet' /\ KindsKeep'
  <2>1. ASSUME NEW b \in Action, b # a, stand[b] \in Committing
        PROVE  Local(b)' = Local(b)
    <3> Src[b] \in Sources
      BY Places
    <3> QED
      BY <1>2, <2>1 DEF CommitsStand, Local
  <2> QED
    BY <1>1, <1>2, <2>1
    DEF CommitsStand, RoadsAreSet, KindsKeep, Undisturbed, Committing, Committed, Sending, BackupTypeOK
<1>7. OkIsSafe'
  BY <1>1 DEF BackupTypeOK, OkIsSafe, Present, Remote, Undisturbed
<1> QED
  BY <1>3, <1>4, <1>5, <1>6, <1>7

\* A commit takes all that lies in the tree, which is a repository.
LEMMA CommitTree ==
  ASSUME BackupInv, NEW a \in Action, CommitIfDirty(a)
  PROVE  /\ repo' \in [Sources -> Repository]
         /\ \A s \in Sources :
              \/ repo'[s] = repo[s] /\ s # Src[a]
              \/ /\ repo[s].git /\ repo[s].head # "unborn" /\ s = Src[a]
                 /\ repo'[s].git /\ repo'[s].head # "unborn" /\ repo'[s].there = repo[s].there
                 /\ repo'[s].log = repo[s].log \cup repo[s].dirty /\ repo'[s].dirty = {}
                 /\ repo'[s].url = repo[s].url
<1> USE DEF BackupInv
<1> Src[a] \in Sources /\ Dst[a] \in Dests
  BY Places
<1>1. Local(a) \in Repository /\ Local(a).git /\ Local(a).head # "unborn"
  BY DEF CommitIfDirty, In, BackupTypeOK, Local, CommitsStand, Committing
<1>2. PICK q \in Repository :
        /\ q = [Local(a) EXCEPT !.log = @ \cup Local(a).dirty, !.dirty = {}]
        /\ q.head = Local(a).head /\ q.log = Local(a).log \cup Local(a).dirty
        /\ q.git = Local(a).git /\ q.there = Local(a).there /\ q.dirty = {}
        /\ q.url = Local(a).url
  BY <1>1, AllCommitted
<1>3. repo' = [repo EXCEPT ![Src[a]] = q]
  BY <1>2 DEF CommitIfDirty, SetLocal
<1> QED
  BY <1>1, <1>2, <1>3 DEF Local, BackupTypeOK

\* What is committed is what the action answers for.
LEMMA CommitIfDirtyInv ==
  ASSUME BackupInv, NEW a \in Action, CommitIfDirty(a)
  PROVE  BackupInv'
<1> USE DEF BackupInv
<1> Src[a] \in Sources /\ Dst[a] \in Dests
  BY Places
<1>1. /\ a \in Gits /\ stand[a] = "commit" /\ full = "running"
      /\ UNCHANGED <<remote, verdict, full, used>>
      /\ stand' = [stand EXCEPT ![a] = "remote"]
      /\ staged' = [staged EXCEPT ![a] = Local(a).log \cup Local(a).dirty]
  BY DEF CommitIfDirty, In, At
<1>2. /\ repo' \in [Sources -> Repository]
      /\ \A s \in Sources :
           \/ repo'[s] = repo[s] /\ s # Src[a]
           \/ /\ repo[s].git /\ repo[s].head # "unborn" /\ s = Src[a]
              /\ repo'[s].git /\ repo'[s].head # "unborn" /\ repo'[s].there = repo[s].there
              /\ repo'[s].log = repo[s].log \cup repo[s].dirty /\ repo'[s].dirty = {}
              /\ repo'[s].url = repo[s].url
  BY CommitTree
<1>3. BackupTypeOK'
  <2>1. Local(a).log \cup Local(a).dirty \in SUBSET Change
    BY DEF BackupTypeOK, Local, Repository
  <2> QED
    BY <1>1, <1>2, <2>1 DEF BackupTypeOK, Stands
<1>4. TreesAreWhole'
  BY <1>2 DEF BackupTypeOK, TreesAreWhole
<1>5. CommandKnows'
  BY <1>1 DEF CommandKnows
<1>6. CommitsStand' /\ RoadsAreSet' /\ KindsKeep'
  <2>1. ASSUME NEW b \in Action, stand[b] \in Committing
        PROVE  /\ Local(b)'.git /\ Local(b)'.head # "unborn" /\ Local(b)'.url = Local(b).url
               /\ Local(b).log \subseteq Local(b)'.log
    <3> Src[b] \in Sources
      BY Places
    <3> QED
      BY <1>2, <2>1 DEF CommitsStand, Local
  <2>2. Local(a)'.log = Local(a).log \cup Local(a).dirty
    BY <1>2 DEF Local
  <2> QED
    BY <1>1, <2>1, <2>2
    DEF CommitsStand, RoadsAreSet, KindsKeep, Undisturbed, Committing, Committed, Sending, BackupTypeOK
<1>7. OkIsSafe'
  BY <1>1 DEF BackupTypeOK, OkIsSafe, Present, Remote, Undisturbed
<1> QED
  BY <1>3, <1>4, <1>5, <1>6, <1>7

\* The remote of a tree is turned to the Dst of an action on it.
LEMMA EnsureRemoteURLInv ==
  ASSUME BackupInv, NEW a \in Action, EnsureRemoteURL(a)
  PROVE  BackupInv'
<1> USE DEF BackupInv, EnsureRemoteURL, In, OnlyLocal, SetLocal, At, Local
<1> Src[a] \in Sources /\ Dst[a] \in Dests
  BY Places
<1>1. BackupTypeOK'
  BY SMTT(20), TreesMade DEF BackupTypeOK, Stands, Branch, Repository
<1>2. TreesAreWhole'
  BY BackupAssumption DEF BackupTypeOK, TreesAreWhole, Repository
<1>3. CommandKnows'
  BY BackupAssumption DEF BackupTypeOK, CommandKnows, Working
<1>4. CommitsStand'
  BY BackupAssumption DEF BackupTypeOK, CommitsStand, Committing, Committed, Local, Repository
<1>5. RoadsAreSet'
  <2> SUFFICES ASSUME NEW b \in Action, stand'[b] \in Sending
               PROVE  Local(b)'.url \in Dests /\ (Undisturbed(b) => Local(b)'.url = Dst[b])
    BY DEF RoadsAreSet, Undisturbed
  <2> Src[b] \in Sources
    BY Places
  <2>1. CASE Src[b] = Src[a]
    <3>1. Local(b)'.url = Dst[a]
      BY <2>1 DEF BackupTypeOK, Repository
    <3>2. b \in Gits
      BY DEF BackupTypeOK, KindsKeep, Committing, Sending
    <3> QED
      BY <2>1, <3>1, <3>2 DEF Undisturbed
  <2>2. CASE Src[b] # Src[a]
    BY <2>2 DEF BackupTypeOK, RoadsAreSet, Sending
  <2> QED
    BY <2>1, <2>2
<1>6. KindsKeep'
  BY BackupAssumption DEF BackupTypeOK, KindsKeep, Committing
<1>7. OkIsSafe'
  BY BackupAssumption DEF BackupTypeOK, OkIsSafe, Present, Remote, Undisturbed
<1> QED
  BY <1>1, <1>2, <1>3, <1>4, <1>5, <1>6, <1>7

\* The look at the remote decides between pull and push.
LEMMA RemoteHasBranchInv ==
  ASSUME BackupInv, NEW a \in Action, RemoteHasBranch(a)
  PROVE  BackupInv'
<1> USE DEF BackupInv, RemoteHasBranch, In, At, Local, Spend1
<1> Src[a] \in Sources /\ Dst[a] \in Dests
  BY Places
<1>1. BackupTypeOK'
  BY TreesMade DEF BackupTypeOK, Stands, Branch, Repository
<1>2. TreesAreWhole'
  BY BackupAssumption DEF BackupTypeOK, TreesAreWhole, Repository
<1>3. CommandKnows'
  BY BackupAssumption DEF BackupTypeOK, CommandKnows, Working
<1>4. CommitsStand'
  BY BackupAssumption DEF BackupTypeOK, CommitsStand, Committing, Committed, Local, Repository
<1>5. RoadsAreSet'
  BY BackupAssumption DEF BackupTypeOK, RoadsAreSet, Undisturbed, Sending, Local, Repository
<1>6. KindsKeep'
  BY BackupAssumption DEF BackupTypeOK, KindsKeep, Committing
<1>7. OkIsSafe'
  BY BackupAssumption DEF BackupTypeOK, OkIsSafe, Present, Remote, Undisturbed
<1> QED
  BY <1>1, <1>2, <1>3, <1>4, <1>5, <1>6, <1>7

\* A pull adds to the history, or leaves it as it is.
LEMMA PullRebaseInv ==
  ASSUME BackupInv, NEW a \in Action, PullRebase(a)
  PROVE  BackupInv'
<1> USE DEF BackupInv, PullRebase, In, At, Ends, Stops, SetLocal, Local, Spend1, Refused
<1> Src[a] \in Sources /\ Dst[a] \in Dests
  BY Places
<1>9. repo' \in [Sources -> Repository]
  <2>1. [Local(a) EXCEPT !.head = "rebase"] \in Repository
    BY DEF BackupTypeOK, Repository
  <2>2. ASSUME ~Refused(a) PROVE [Local(a) EXCEPT !.log = @ \cup remote[Local(a).url]] \in Repository
    <3> DEFINE here == repo[Src[a]]
    <3>1. here \in Repository /\ here.url \in Dests
      BY DEF BackupTypeOK, RoadsAreSet, Sending
    <3>2. remote[here.url] \in SUBSET Change
      BY <2>2, <3>1 DEF BackupTypeOK, Branch
    <3>3. here.log \cup remote[here.url] \in SUBSET Change
      BY <3>1, <3>2 DEF Repository
    <3> QED BY <3>1, <3>3 DEF Repository
  <2> QED
    BY <2>1, <2>2 DEF BackupTypeOK
<1>8. \A s \in Sources :
        \/ repo'[s] = repo[s]
        \/ /\ repo[s].git /\ repo[s].head # "unborn"
           /\ repo'[s].git /\ repo'[s].head # "unborn"
           /\ repo'[s].there = repo[s].there /\ repo'[s].dirty = repo[s].dirty
           /\ repo'[s].url = repo[s].url /\ repo[s].log \subseteq repo'[s].log
  BY DEF BackupTypeOK, CommitsStand, Committing, Repository
<1>1. BackupTypeOK'
  BY <1>9 DEF BackupTypeOK, Stands
<1>2. TreesAreWhole'
  BY <1>8 DEF BackupTypeOK, TreesAreWhole, Repository
<1>3. CommandKnows'
  BY BackupAssumption DEF BackupTypeOK, CommandKnows, Working
<1>4. CommitsStand'
  <2> SUFFICES ASSUME NEW b \in Action
               PROVE  /\ stand'[b] \in Committing => Local(b)'.git /\ Local(b)'.head # "unborn"
                      /\ stand'[b] \in Committed => staged'[b] \subseteq Local(b)'.log
    BY DEF CommitsStand
  <2> Src[b] \in Sources
    BY Places
  <2> QED
    BY <1>8 DEF BackupTypeOK, CommitsStand, TreesAreWhole, Committing, Committed, Local
<1>5. RoadsAreSet'
  <2> SUFFICES ASSUME NEW b \in Action, stand'[b] \in Sending
               PROVE  Local(b)'.url \in Dests /\ (Undisturbed(b) => Local(b)'.url = Dst[b])
    BY DEF RoadsAreSet, Undisturbed
  <2> Src[b] \in Sources
    BY Places
  <2> QED
    BY <1>8 DEF BackupTypeOK, CommitsStand, RoadsAreSet, TreesAreWhole, Committing, Sending, Local
<1>6. KindsKeep'
  BY BackupAssumption DEF BackupTypeOK, KindsKeep, Committing
<1>7. OkIsSafe'
  BY BackupAssumption DEF BackupTypeOK, OkIsSafe, Present, Remote, Undisturbed
<1> QED
  BY <1>1, <1>2, <1>3, <1>4, <1>5, <1>6, <1>7

\* A push that is not refused brings all that was committed.
LEMMA PushInv ==
  ASSUME BackupInv, NEW a \in Action, Push(a)
  PROVE  BackupInv'
<1> USE DEF BackupInv, Push, In, At, Ends, Stops, Local
<1> Src[a] \in Sources /\ Dst[a] \in Dests
  BY Places
<1>1. BackupTypeOK'
  BY TreesMade DEF BackupTypeOK, Stands, Branch, Repository
<1>2. TreesAreWhole'
  BY BackupAssumption DEF BackupTypeOK, TreesAreWhole, Repository
<1>3. CommandKnows'
  BY BackupAssumption DEF BackupTypeOK, CommandKnows, Working
<1>4. CommitsStand'
  BY BackupAssumption DEF BackupTypeOK, CommitsStand, Committing, Committed, Local, Repository
<1>5. RoadsAreSet'
  BY BackupAssumption DEF BackupTypeOK, RoadsAreSet, Undisturbed, Sending, Local, Repository
<1>6. KindsKeep'
  BY BackupAssumption DEF BackupTypeOK, KindsKeep, Committing
<1>7. OkIsSafe'
  <2> SUFFICES ASSUME NEW b \in Action, stand'[b] = "ended", verdict'[b] = "ok", Undisturbed(b)
               PROVE  staged'[b] \subseteq Present(b)'
    BY DEF OkIsSafe, Undisturbed
  <2> Dst[b] \in Dests
    BY Places
  <2>1. Present(b) \subseteq Present(b)'
    BY BackupAssumption DEF BackupTypeOK, Present, Remote, Repository
  <2>2. CASE b = a
    <3>1. Local(a).url = Dst[a]
      BY <2>2 DEF RoadsAreSet, Sending
    <3>2. staged[a] \subseteq Local(a).log
      BY DEF CommitsStand, Committed
    <3>3. remote'[Dst[a]] = Local(a).log
      BY <2>2, <3>1 DEF BackupTypeOK
    <3> QED
      BY <2>2, <3>2, <3>3, BackupAssumption DEF BackupTypeOK, Present, Remote, Repository
  <2>3. CASE b # a
    BY <2>1, <2>3 DEF BackupTypeOK, OkIsSafe
  <2> QED
    BY <2>2, <2>3
<1> QED
  BY <1>1, <1>2, <1>3, <1>4, <1>5, <1>6, <1>7

\* An archive takes what it finds.
LEMMA PackInv ==
  ASSUME BackupInv, NEW a \in Action, Pack(a)
  PROVE  BackupInv'
<1> USE DEF BackupInv, Pack, Takes, At, Ends, Stops, Local
<1> Src[a] \in Sources /\ Dst[a] \in Dests
  BY Places
<1>1. BackupTypeOK'
  BY TreesMade DEF BackupTypeOK, Stands, Branch, Repository
<1>2. TreesAreWhole'
  BY BackupAssumption DEF BackupTypeOK, TreesAreWhole, Repository
<1>3. CommandKnows'
  BY BackupAssumption DEF BackupTypeOK, CommandKnows, Working
<1>4. CommitsStand'
  BY BackupAssumption DEF BackupTypeOK, CommitsStand, Committing, Committed, Local, Repository
<1>5. RoadsAreSet'
  BY BackupAssumption DEF BackupTypeOK, RoadsAreSet, Undisturbed, Sending, Local, Repository
<1>6. KindsKeep'
  BY BackupAssumption DEF BackupTypeOK, KindsKeep, Committing
<1>7. OkIsSafe'
  BY BackupAssumption DEF BackupTypeOK, OkIsSafe, Present, Remote, Undisturbed
<1> QED
  BY <1>1, <1>2, <1>3, <1>4, <1>5, <1>6, <1>7

\* The archive that is put in place holds what was taken.
LEMMA InstallArchiveInv ==
  ASSUME BackupInv, NEW a \in Action, InstallArchive(a)
  PROVE  BackupInv'
<1> USE DEF BackupInv, InstallArchive, At, Ends
<1> Src[a] \in Sources /\ Dst[a] \in Dests
  BY Places
<1>1. BackupTypeOK'
  BY TreesMade DEF BackupTypeOK, Stands, Branch, Repository
<1>2. TreesAreWhole'
  BY BackupAssumption DEF BackupTypeOK, TreesAreWhole, Repository
<1>3. CommandKnows'
  BY BackupAssumption DEF BackupTypeOK, CommandKnows, Working
<1>4. CommitsStand'
  BY BackupAssumption DEF BackupTypeOK, CommitsStand, Committing, Committed, Local, Repository
<1>5. RoadsAreSet'
  BY BackupAssumption DEF BackupTypeOK, RoadsAreSet, Undisturbed, Sending, Local, Repository
<1>6. KindsKeep'
  BY BackupAssumption DEF BackupTypeOK, KindsKeep, Committing
<1>7. OkIsSafe'
  BY BackupAssumption DEF BackupTypeOK, OkIsSafe, Present, Remote, Undisturbed
<1> QED
  BY <1>1, <1>2, <1>3, <1>4, <1>5, <1>6, <1>7

\* A copy takes what it finds.
LEMMA RsyncLeafInv ==
  ASSUME BackupInv, NEW a \in Action, RsyncLeaf(a)
  PROVE  BackupInv'
<1> USE DEF BackupInv, RsyncLeaf, Takes, At, Ends, Stops, Local
<1> Src[a] \in Sources /\ Dst[a] \in Dests
  BY Places
<1>1. BackupTypeOK'
  BY TreesMade DEF BackupTypeOK, Stands, Branch, Repository
<1>2. TreesAreWhole'
  BY BackupAssumption DEF BackupTypeOK, TreesAreWhole, Repository
<1>3. CommandKnows'
  BY BackupAssumption DEF BackupTypeOK, CommandKnows, Working
<1>4. CommitsStand'
  BY BackupAssumption DEF BackupTypeOK, CommitsStand, Committing, Committed, Local, Repository
<1>5. RoadsAreSet'
  BY BackupAssumption DEF BackupTypeOK, RoadsAreSet, Undisturbed, Sending, Local, Repository
<1>6. KindsKeep'
  BY BackupAssumption DEF BackupTypeOK, KindsKeep, Committing
<1>7. OkIsSafe'
  BY BackupAssumption DEF BackupTypeOK, OkIsSafe, Present, Remote, Undisturbed
<1> QED
  BY <1>1, <1>2, <1>3, <1>4, <1>5, <1>6, <1>7

\* A copy ends when all files have arrived.
LEMMA CopyInv ==
  ASSUME BackupInv, NEW a \in Action, Copy(a)
  PROVE  BackupInv'
<1> USE DEF BackupInv, Copy, At, Ends, Present, Remote
<1> Src[a] \in Sources /\ Dst[a] \in Dests
  BY Places
<1>1. BackupTypeOK'
  BY TreesMade DEF BackupTypeOK, Stands, Branch, Repository
<1>2. TreesAreWhole'
  BY BackupAssumption DEF BackupTypeOK, TreesAreWhole, Repository
<1>3. CommandKnows'
  BY BackupAssumption DEF BackupTypeOK, CommandKnows, Working
<1>4. CommitsStand'
  BY BackupAssumption DEF BackupTypeOK, CommitsStand, Committing, Committed, Local, Repository
<1>5. RoadsAreSet'
  BY BackupAssumption DEF BackupTypeOK, RoadsAreSet, Undisturbed, Sending, Local, Repository
<1>6. KindsKeep'
  BY BackupAssumption DEF BackupTypeOK, KindsKeep, Committing
<1>7. OkIsSafe'
  <2> SUFFICES ASSUME NEW b \in Action, stand'[b] = "ended", verdict'[b] = "ok", Undisturbed(b)
               PROVE  staged'[b] \subseteq Present(b)'
    BY DEF OkIsSafe, Undisturbed
  <2> Dst[b] \in Dests
    BY Places
  <2>1. Present(b) \subseteq Present(b)'
    BY BackupAssumption DEF BackupTypeOK, Branch
  <2>2. CASE b = a
    BY <2>2 DEF BackupTypeOK
  <2>3. CASE b # a
    BY <2>1, <2>3 DEF BackupTypeOK, OkIsSafe
  <2> QED
    BY <2>2, <2>3
<1> QED
  BY <1>1, <1>2, <1>3, <1>4, <1>5, <1>6, <1>7

\* An action may fail anywhere.
LEMMA ActionFailsInv ==
  ASSUME BackupInv, NEW a \in Action, ActionFails(a)
  PROVE  BackupInv'
<1> USE DEF BackupInv, ActionFails, Stops, Ends, At, Spend1
<1> Src[a] \in Sources /\ Dst[a] \in Dests
  BY Places
<1>1. BackupTypeOK'
  BY TreesMade DEF BackupTypeOK, Stands, Branch, Repository
<1>2. TreesAreWhole'
  BY BackupAssumption DEF BackupTypeOK, TreesAreWhole, Repository
<1>3. CommandKnows'
  BY BackupAssumption DEF BackupTypeOK, CommandKnows, Working
<1>4. CommitsStand'
  BY BackupAssumption DEF BackupTypeOK, CommitsStand, Committing, Committed, Local, Repository
<1>5. RoadsAreSet'
  BY BackupAssumption DEF BackupTypeOK, RoadsAreSet, Undisturbed, Sending, Local, Repository
<1>6. KindsKeep'
  BY BackupAssumption DEF BackupTypeOK, KindsKeep, Committing
<1>7. OkIsSafe'
  BY BackupAssumption DEF BackupTypeOK, OkIsSafe, Present, Remote, Undisturbed
<1> QED
  BY <1>1, <1>2, <1>3, <1>4, <1>5, <1>6, <1>7

\* A backup begins, and every action with it.
LEMMA RunFullBackupInv ==
  ASSUME BackupInv, RunFullBackup
  PROVE  BackupInv'
<1> USE DEF BackupInv, RunFullBackup, Spend1
<1>1. BackupTypeOK'
  BY DEF BackupTypeOK, Stands, Branch, Repository
<1>2. TreesAreWhole'
  BY BackupAssumption DEF BackupTypeOK, TreesAreWhole, Repository
<1>3. CommandKnows'
  BY BackupAssumption DEF BackupTypeOK, CommandKnows, Working
<1>4. CommitsStand'
  BY BackupAssumption DEF BackupTypeOK, CommitsStand, Committing, Committed, Local, Repository
<1>5. RoadsAreSet'
  BY BackupAssumption DEF BackupTypeOK, RoadsAreSet, Undisturbed, Sending, Local, Repository
<1>6. KindsKeep'
  BY BackupAssumption DEF BackupTypeOK, KindsKeep, Committing
<1>7. OkIsSafe'
  BY BackupAssumption DEF BackupTypeOK, OkIsSafe, Present, Remote, Undisturbed
<1> QED
  BY <1>1, <1>2, <1>3, <1>4, <1>5, <1>6, <1>7

\* A backup ends when every action has.
LEMMA ReportInv ==
  ASSUME BackupInv, Report
  PROVE  BackupInv'
<1> USE DEF BackupInv, Report
<1>1. BackupTypeOK'
  BY DEF BackupTypeOK, Stands, Branch, Repository
<1>2. TreesAreWhole'
  BY BackupAssumption DEF BackupTypeOK, TreesAreWhole, Repository
<1>3. CommandKnows'
  BY BackupAssumption DEF BackupTypeOK, CommandKnows, Working
<1>4. CommitsStand'
  BY BackupAssumption DEF BackupTypeOK, CommitsStand, Committing, Committed, Local, Repository
<1>5. RoadsAreSet'
  BY BackupAssumption DEF BackupTypeOK, RoadsAreSet, Undisturbed, Sending, Local, Repository
<1>6. KindsKeep'
  BY BackupAssumption DEF BackupTypeOK, KindsKeep, Committing
<1>7. OkIsSafe'
  BY BackupAssumption DEF BackupTypeOK, OkIsSafe, Present, Remote, Undisturbed
<1> QED
  BY <1>1, <1>2, <1>3, <1>4, <1>5, <1>6, <1>7

\* An interrupt ends all actions; a rebase under way stays as it is.
LEMMA CancelInv ==
  ASSUME BackupInv, Cancel
  PROVE  BackupInv'
<1> USE DEF BackupInv, Cancel, Spend1
<1>1. BackupTypeOK'
  <2>1. repo' \in [Sources -> Repository]
    BY SMTT(20) DEF BackupTypeOK, Repository
  <2> QED
    BY <2>1 DEF BackupTypeOK, Stands
<1>2. TreesAreWhole'
  <2> SUFFICES ASSUME NEW s \in Sources
               PROVE  /\ repo'[s].git = repo[s].git /\ repo'[s].there = repo[s].there
                      /\ repo'[s].log = repo[s].log /\ repo'[s].dirty = repo[s].dirty
                      /\ repo'[s].head \in {repo[s].head, "rebase"}
    BY DEF TreesAreWhole
  <2> QED
    BY DEF BackupTypeOK, Repository
<1>3. CommandKnows'
  BY BackupAssumption DEF BackupTypeOK, CommandKnows, Working
<1>4. CommitsStand'
  BY BackupAssumption DEF BackupTypeOK, CommitsStand, Committing, Committed, Local, Repository
<1>5. RoadsAreSet'
  BY BackupAssumption DEF BackupTypeOK, RoadsAreSet, Undisturbed, Sending, Local, Repository
<1>6. KindsKeep'
  BY BackupAssumption DEF BackupTypeOK, KindsKeep, Committing
<1>7. OkIsSafe'
  BY BackupAssumption DEF BackupTypeOK, OkIsSafe, Present, Remote, Undisturbed
<1> QED
  BY <1>1, <1>2, <1>3, <1>4, <1>5, <1>6, <1>7

\* A user writes to a tree at any time.
LEMMA EditInv ==
  ASSUME BackupInv, NEW s \in Sources, NEW c \in Change, Edit(s, c)
  PROVE  BackupInv'
<1> USE DEF BackupInv
<1>1. PICK q \in Repository :
        /\ repo' = [repo EXCEPT ![s] = q]
        /\ q.there /\ q.git = repo[s].git /\ q.head = repo[s].head
        /\ q.log = repo[s].log /\ q.url = repo[s].url
  <2> DEFINE r == repo[s]
             q == [[r EXCEPT !.dirty = @ \cup {c}] EXCEPT !.there = TRUE]
  <2>1. r \in Repository
    BY DEF BackupTypeOK
  <2>2. /\ q \in Repository /\ q.there /\ q.git = r.git /\ q.head = r.head
        /\ q.log = r.log /\ q.url = r.url
    <3> HIDE DEF r
    <3> QED
      BY <2>1 DEF Repository
  <2>3. repo' = [repo EXCEPT ![s] = q]
    BY DEF Edit, BackupTypeOK
  <2> QED
    BY <2>2, <2>3
<1>2. /\ repo' \in [Sources -> Repository]
      /\ \A z \in Sources :
           /\ repo'[z].git = repo[z].git /\ repo'[z].head = repo[z].head
           /\ repo'[z].log = repo[z].log /\ repo'[z].url = repo[z].url
           /\ repo'[z] = repo[z] \/ repo'[z].there
  BY <1>1 DEF BackupTypeOK
<1>3. UNCHANGED <<remote, stand, verdict, staged, full, used>>
  BY DEF Edit
<1>4. BackupTypeOK'
  BY <1>2, <1>3 DEF BackupTypeOK
<1>5. TreesAreWhole'
  BY <1>2 DEF TreesAreWhole
<1>6. CommitsStand' /\ RoadsAreSet'
  <2>1. \A b \in Action : Src[b] \in Sources
    BY Places
  <2> QED
    BY <1>2, <1>3, <2>1 DEF CommitsStand, RoadsAreSet, Undisturbed, Local
<1>7. CommandKnows' /\ KindsKeep' /\ OkIsSafe'
  BY <1>3 DEF CommandKnows, Working, KindsKeep, OkIsSafe, Undisturbed, Present, Remote
<1> QED
  BY <1>4, <1>5, <1>6, <1>7

\* A user leaves a branch while no backup runs.
LEMMA LeaveBranchInv ==
  ASSUME BackupInv, NEW s \in Sources, LeaveBranch(s)
  PROVE  BackupInv'
<1> USE DEF BackupInv, LeaveBranch
<1>1. BackupTypeOK'
  <2>1. repo' \in [Sources -> Repository]
    BY DEF BackupTypeOK, Repository
  <2> QED
    BY <2>1 DEF BackupTypeOK
<1>2. TreesAreWhole'
  BY BackupAssumption DEF BackupTypeOK, TreesAreWhole, Repository
<1>3. CommandKnows'
  BY BackupAssumption DEF BackupTypeOK, CommandKnows, Working
<1>4. CommitsStand'
  BY DEF BackupTypeOK, CommitsStand, CommandKnows, Working, Committing, Committed
<1>5. RoadsAreSet'
  BY DEF BackupTypeOK, RoadsAreSet, CommandKnows, Working, Sending, Undisturbed
<1>6. KindsKeep'
  BY BackupAssumption DEF BackupTypeOK, KindsKeep, Committing
<1>7. OkIsSafe'
  BY BackupAssumption DEF BackupTypeOK, OkIsSafe, Present, Remote, Undisturbed
<1> QED
  BY <1>1, <1>2, <1>3, <1>4, <1>5, <1>6, <1>7

\* Another machine pushes to a destination at any time.
LEMMA PeerPushesInv ==
  ASSUME BackupInv, NEW a \in Action, NEW c \in Change, PeerPushes(a, c)
  PROVE  BackupInv'
<1> USE DEF BackupInv, PeerPushes, Remote
<1>1. BackupTypeOK'
  BY DEF BackupTypeOK, Stands, Branch, Repository
<1>2. TreesAreWhole'
  BY BackupAssumption DEF BackupTypeOK, TreesAreWhole, Repository
<1>3. CommandKnows'
  BY BackupAssumption DEF BackupTypeOK, CommandKnows, Working
<1>4. CommitsStand'
  BY BackupAssumption DEF BackupTypeOK, CommitsStand, Committing, Committed, Local, Repository
<1>5. RoadsAreSet'
  BY BackupAssumption DEF BackupTypeOK, RoadsAreSet, Undisturbed, Sending, Local, Repository
<1>6. KindsKeep'
  BY BackupAssumption DEF BackupTypeOK, KindsKeep, Committing
<1>7. OkIsSafe'
  <2> SUFFICES ASSUME NEW b \in Action, stand[b] = "ended", verdict[b] = "ok", Undisturbed(b)
               PROVE  staged[b] \subseteq Present(b)'
    BY DEF OkIsSafe, Undisturbed
  <2>1. staged[b] \subseteq Present(b)
    BY DEF OkIsSafe
  <2> Dst[b] \in Dests
    BY Places
  <2>2. Present(b) \subseteq Present(b)'
    <3>1. remote[Dst[a]] \cup {c} # NoRef
      BY Places, BackupAssumption DEF BackupTypeOK, Branch
    <3> QED
      BY <3>1, Places DEF BackupTypeOK, Present
  <2> QED
    BY <2>1, <2>2
<1> QED
  BY <1>1, <1>2, <1>3, <1>4, <1>5, <1>6, <1>7

-----------------------------------------------------------------------------

\* Every step keeps the invariant.
LEMMA BackupNextInv == BackupInv /\ [BackupNext]_backupVars => BackupInv'
<1> SUFFICES ASSUME BackupInv, [BackupNext]_backupVars PROVE BackupInv'
  OBVIOUS
<1>1. CASE RunFullBackup \/ Report \/ Cancel
  BY <1>1, RunFullBackupInv, ReportInv, CancelInv
<1>2. ASSUME NEW a \in Action,
             \/ ActionFails(a)
             \/ CheckRepo(a) \/ Clone(a) \/ CheckoutFallback(a) \/ CommitIfDirty(a)
             \/ EnsureRemoteURL(a) \/ RemoteHasBranch(a) \/ PullRebase(a) \/ Push(a)
             \/ Pack(a) \/ InstallArchive(a) \/ RsyncLeaf(a) \/ Copy(a)
      PROVE  BackupInv'
  BY <1>2, CheckRepoInv, CloneInv, CheckoutFallbackInv, CommitIfDirtyInv, EnsureRemoteURLInv,
    RemoteHasBranchInv, PullRebaseInv, PushInv, PackInv, InstallArchiveInv, RsyncLeafInv, CopyInv,
    ActionFailsInv
<1>3. ASSUME NEW a \in Action, NEW c \in Change, PeerPushes(a, c) PROVE BackupInv'
  BY <1>3, PeerPushesInv
<1>4. ASSUME NEW s \in Sources, LeaveBranch(s) \/ \E c \in Change : Edit(s, c) PROVE BackupInv'
  BY <1>4, LeaveBranchInv, EditInv
<1>5. CASE UNCHANGED backupVars
  BY <1>5 DEF backupVars, BackupInv, BackupTypeOK, TreesAreWhole, CommandKnows, Working,
    CommitsStand, RoadsAreSet, KindsKeep, OkIsSafe, Undisturbed, Local, Present, Remote
<1>6. DOMAIN repo = Sources
  BY DEF BackupInv, BackupTypeOK
<1> QED
  BY <1>1, <1>2, <1>3, <1>4, <1>5, <1>6 DEF BackupNext

\* home backup run: the invariant holds whatever runs, fails, is written or is
\* interrupted.
THEOREM BackupInvariant == BackupSpec => []BackupInv
<1>1. BackupInit => BackupInv
  BY BackupInitInv
<1>2. BackupInv /\ [BackupNext]_backupVars => BackupInv'
  BY BackupNextInv
<1> QED
  BY <1>1, <1>2, PTL DEF BackupSpec

\* RunFullBackup: when the command reports success, everything that an action
\* found or committed is at its destination, unless another action packs over
\* it or sends the same tree elsewhere.
THEOREM ReportIsTrue == BackupSpec => []ReportedMeansSafe
<1>1. BackupInv => ReportedMeansSafe
  BY DEF BackupInv, CommandKnows, OkIsSafe, ReportedMeansSafe
<1> QED
  BY <1>1, BackupInvariant, PTL

\* What a step makes of a tree: no file and no commit of a branch goes, but for
\* the branch that its user leaves.
LEMMA StepKeepsWork ==
  ASSUME BackupInv, [BackupNext]_backupVars, NEW s \in Sources
  PROVE  repo[s].log \cup repo[s].dirty \subseteq repo'[s].log \cup repo'[s].dirty \cup repo'[s].side
<1> USE DEF BackupInv
<1>1. repo \in [Sources -> Repository] /\ repo[s] \in Repository
  BY DEF BackupTypeOK
<1>2. CASE repo' = repo
  BY <1>2
<1>3. CASE Cancel
  BY <1>1, <1>3 DEF Cancel, Repository
<1>4. ASSUME NEW a \in Action, CheckRepo(a) \/ Clone(a)
      PROVE  repo'[s] = repo[s] \/ repo[s].log \cup repo[s].dirty = {}
  BY <1>1, <1>4 DEF CheckRepo, Clone, SetLocal, Local, TreesAreWhole
<1>5. ASSUME NEW a \in Action, CheckoutFallback(a)
      PROVE  repo'[s] = repo[s] \/ (repo[s].log = {} /\ repo'[s].dirty = repo[s].dirty)
  BY <1>5, CheckoutTree DEF TreesAreWhole
<1>6. ASSUME NEW a \in Action, CommitIfDirty(a)
      PROVE  repo'[s] = repo[s] \/ repo'[s].log = repo[s].log \cup repo[s].dirty
  BY <1>6, CommitTree
<1>7. ASSUME NEW a \in Action, EnsureRemoteURL(a)
      PROVE  repo'[s].log = repo[s].log /\ repo'[s].dirty = repo[s].dirty
  BY <1>1, <1>7 DEF EnsureRemoteURL, SetLocal, Local, Repository
<1>8. ASSUME NEW a \in Action, PullRebase(a)
      PROVE  repo[s].log \subseteq repo'[s].log /\ repo'[s].dirty = repo[s].dirty
  BY <1>1, <1>8 DEF PullRebase, SetLocal, Local, Repository
<1>9. ASSUME NEW z \in Sources, NEW c \in Change, Edit(z, c)
      PROVE  repo'[s].log = repo[s].log /\ repo[s].dirty \subseteq repo'[s].dirty
  BY <1>1, <1>9 DEF Edit, Repository
<1>10. ASSUME NEW z \in Sources, LeaveBranch(z)
       PROVE  repo[s].log \subseteq repo'[s].log \cup repo'[s].side /\ repo'[s].dirty = repo[s].dirty
  BY <1>1, <1>10 DEF LeaveBranch, Repository
<1>11. \A a \in Action :
         \/ ActionFails(a) \/ RemoteHasBranch(a) \/ Push(a)
         \/ Pack(a) \/ InstallArchive(a) \/ RsyncLeaf(a) \/ Copy(a)
         \/ \E c \in Change : PeerPushes(a, c)
         => repo' = repo
  BY DEF ActionFails, RemoteHasBranch, Push, Pack, InstallArchive, RsyncLeaf, Takes, Copy, PeerPushes
<1>12. RunFullBackup \/ Report \/ UNCHANGED backupVars => repo' = repo
  BY DEF RunFullBackup, Report, backupVars
<1> QED
  BY <1>1, <1>2, <1>3, <1>4, <1>5, <1>6, <1>7, <1>8, <1>9, <1>10, <1>11, <1>12 DEF BackupNext

\* commitIfDirty, clone, pullRebase and the rest: no step of any action, with
\* any others on the same tree, loses what lies in a working tree or is committed
\* to its branch.
THEOREM WorkIsKept == BackupSpec => BranchWorkKept
<1>1. BackupInv /\ [BackupNext]_backupVars
      => [\A s \in DOMAIN repo :
            repo[s].log \cup repo[s].dirty
              \subseteq repo'[s].log \cup repo'[s].dirty \cup repo'[s].side]_backupVars
  BY StepKeepsWork DEF BackupInv, BackupTypeOK
<1> QED
  BY <1>1, BackupInvariant, PTL DEF BackupSpec, BranchWorkKept

-----------------------------------------------------------------------------
(* The queue of sudo.                                                      *)

Reaches == {"idle", "listed", "none", "ask", "queued", "failed", "done"}
Requests ==
  /\ queue \in [Slug -> Requester \cup {Nothing}]
  /\ req \in [Requester -> [at : Reaches, slug : Slug \cup {Nothing}, files : SUBSET Nat]]
  /\ \A r \in Requester : req[r].at \in {"ask", "queued"} => req[r].slug \in Slug
Approvals ==
  app \in [Approver -> [at : {"idle", "run", "remove"}, slug : Slug \cup {Nothing},
                        by : Requester \cup {Nothing}]]
Tallies == attempts \in [Requester -> Nat] /\ slips \in Nat
Profiles == links \in SUBSET Nat /\ master \in Nat /\ rolledBack \in BOOLEAN
SudoTypeOK == Requests /\ Approvals /\ Tallies /\ Profiles

(* A file in the queue, and what an approver has read, is of a request     *)
(* that was queued under the same slug; who removes it has tried it.       *)
OfRequests ==
  /\ \A s \in Slug : queue[s] # Nothing =>
       req[queue[s]].slug = s /\ req[queue[s]].at = "queued"
  /\ \A a \in Approver : app[a].at # "idle" =>
       /\ app[a].by \in Requester /\ app[a].slug \in Slug
       /\ req[app[a].by].slug = app[a].slug /\ req[app[a].by].at = "queued"
       /\ app[a].at = "remove" => attempts[app[a].by] > 0

Executing(r) == {a \in Approver : app[a].at = "run" /\ app[a].by = r}
Removing(r) == {a \in Approver : app[a].at = "remove" /\ app[a].by = r}
InQueue(r) == queue[req[r].slug] = r

(* While its file is there, each attempt has an approver who will remove   *)
(* it, or who was killed; afterwards nobody can read it any more.          *)
Tried(r) ==
  IF InQueue(r) THEN attempts[r] <= Cardinality(Removing(r)) + slips
  ELSE attempts[r] + Cardinality(Executing(r)) <= Cardinality(Approver) + slips
AttemptsCount ==
  \A r \in Requester :
    IF req[r].at = "queued" THEN Tried(r)
    ELSE attempts[r] = IF req[r].at = "done" THEN 1 ELSE 0

(* A file gives way to another of its slug, to a rejection or to a run.    *)
Rivals(r) == {q \in Requester \ {r} : req[q].at = "queued" /\ req[q].slug = req[r].slug}
Held(r) == InQueue(r) \/ attempts[r] > 0 \/ Rivals(r) # {} \/ req[r].slug \in rejected
Waits == \A r \in Requester : req[r].at = "queued" => Held(r)

(* Generations only grow, and a list is of generations before the one in   *)
(* use.                                                                    *)
MasterStays ==
  ~rolledBack =>
    /\ master \in links /\ \A l \in links : l <= master
    /\ \A r \in Requester :
         /\ \A l \in req[r].files : l <= master
         /\ req[r].at = "idle" => req[r].files = {}
         /\ req[r].at \notin {"idle", "listed"} => master \notin req[r].files

SudoInv == SudoTypeOK /\ OfRequests /\ AttemptsCount /\ Waits /\ MasterStays

LEMMA SudoInvInit == SudoInit => SudoInv
<1> SUFFICES ASSUME SudoInit PROVE SudoInv
  OBVIOUS
<1> USE SudoAssumption DEF SudoInit
<1>1. Requests
  BY DEF Requests, Reaches
<1>2. Approvals
  BY DEF Approvals
<1>3. Tallies
  BY DEF Tallies
<1>6. Profiles
  <2>1. links \in SUBSET Nat /\ master \in Nat
    OBVIOUS
  <2>2. rolledBack \in BOOLEAN
    OBVIOUS
  <2> QED BY <2>1, <2>2 DEF Profiles
<1>4. OfRequests /\ AttemptsCount /\ Waits
  BY DEF OfRequests, AttemptsCount, Waits
<1>5. MasterStays
  BY DEF MasterStays
<1> QED BY <1>1, <1>2, <1>3, <1>4, <1>5, <1>6 DEF SudoInv, SudoTypeOK

LEMMA RequestsStep ==
  ASSUME SudoTypeOK, OfRequests, [SudoNext]_sudoVars
  PROVE  Requests'
<1> USE SudoAssumption DEF SudoTypeOK, Requests, Reaches
<1>1. ASSUME NEW r \in Requester, ReadLinks(r) PROVE Requests'
  BY <1>1 DEF ReadLinks, Profiles
<1>2. ASSUME NEW r \in Requester, ReadMaster(r) PROVE Requests'
  <2>1. "nix-gc-cleanup" \in Slug
    BY DEF Slug
  <2> QED BY <1>2, <2>1 DEF ReadMaster
<1>3. ASSUME NEW r \in Requester, Ask(r) PROVE Requests'
  <2>1. "rebuild" \in Slug /\ Given \subseteq Slug /\ Random \subseteq Slug
    BY DEF Slug
  <2>2. PICK s \in Slug : req' = [req EXCEPT ![r].at = "ask", ![r].slug = s]
    BY <1>3, <2>1 DEF Ask
  <2>3. req' \in [Requester -> [at : Reaches, slug : Slug \cup {Nothing}, files : SUBSET Nat]]
    <3> DEFINE Told == [at : Reaches, slug : Slug \cup {Nothing}, files : SUBSET Nat]
    <3>1. req \in [Requester -> Told] /\ req[r] \in Told
      OBVIOUS
    <3>2. [[req[r] EXCEPT !.at = "ask"] EXCEPT !.slug = s] \in Told
      BY <3>1
    <3> HIDE DEF Told
    <3>3. req' = [req EXCEPT ![r] = [[req[r] EXCEPT !.at = "ask"] EXCEPT !.slug = s]]
      BY <2>2, <3>1
    <3>4. req' \in [Requester -> Told]
      BY <3>1, <3>2, <3>3
    <3> QED BY <3>4 DEF Told
  <2>4. queue' = queue
    BY <1>3 DEF Ask
  <2>5. \A q \in Requester : req'[q].at \in {"ask", "queued"} => req'[q].slug \in Slug
    BY <2>2
  <2> QED BY <2>3, <2>4, <2>5
<1>4. ASSUME NEW r \in Requester, RunsAsRoot(r) PROVE Requests'
  BY <1>4 DEF RunsAsRoot
<1>5. ASSUME NEW r \in Requester, Enqueue(r) PROVE Requests'
  BY SMTT(20), <1>5 DEF Enqueue
<1>6. ASSUME NEW a \in Approver,
             (\E s \in Slug : Get(a, s)) \/ Run(a) \/ CannotRun(a) \/ Killed(a)
      PROVE  Requests'
  BY <1>6 DEF Get, Run, CannotRun, Killed
<1>7. ASSUME NEW a \in Approver, RemoveIt(a) PROVE Requests'
  BY <1>7 DEF RemoveIt
<1>8. ASSUME NEW s \in Slug, Reject(s) PROVE Requests'
  BY <1>8 DEF Reject
<1>9. CASE NewGeneration \/ GoBack \/ UNCHANGED sudoVars
  BY <1>9 DEF NewGeneration, GoBack, sudoVars
<1> QED BY <1>1, <1>2, <1>3, <1>4, <1>5, <1>6, <1>7, <1>8, <1>9 DEF SudoNext

LEMMA ApprovalsStep ==
  ASSUME SudoTypeOK, [SudoNext]_sudoVars
  PROVE  Approvals'
<1> USE SudoAssumption DEF SudoTypeOK, Approvals
<1>1. ASSUME NEW r \in Requester,
             ReadLinks(r) \/ ReadMaster(r) \/ Ask(r) \/ RunsAsRoot(r) \/ Enqueue(r)
      PROVE  Approvals'
  BY <1>1 DEF ReadLinks, ReadMaster, Ask, RunsAsRoot, Enqueue
<1>2. ASSUME NEW a \in Approver, NEW s \in Slug, Get(a, s) PROVE Approvals'
  BY <1>2 DEF Get, Requests
<1>3. ASSUME NEW a \in Approver, Run(a) \/ CannotRun(a) \/ RemoveIt(a) \/ Killed(a)
      PROVE  Approvals'
  BY <1>3 DEF Run, CannotRun, RemoveIt, Killed
<1>4. CASE (\E s \in Slug : Reject(s)) \/ NewGeneration \/ GoBack \/ UNCHANGED sudoVars
  BY <1>4 DEF Reject, NewGeneration, GoBack, sudoVars
<1> QED BY <1>1, <1>2, <1>3, <1>4 DEF SudoNext

LEMMA TalliesStep ==
  ASSUME SudoTypeOK, OfRequests, [SudoNext]_sudoVars
  PROVE  Tallies' /\ Profiles'
<1> USE SudoAssumption DEF SudoTypeOK, Tallies, Profiles
<1>1. ASSUME NEW r \in Requester, Runs(r)
      PROVE  attempts' \in [Requester -> Nat] /\ links' \in SUBSET Nat
  <2>1. attempts' \in [Requester -> Nat]
    BY <1>1 DEF Runs
  <2>2. links' \subseteq links
    BY <1>1 DEF Runs
  <2> QED BY <2>1, <2>2
<1>2. ASSUME NEW r \in Requester, ReadLinks(r) \/ ReadMaster(r) \/ Ask(r) \/ Enqueue(r)
      PROVE  Tallies' /\ Profiles'
  BY <1>2 DEF ReadLinks, ReadMaster, Ask, Enqueue, profile
<1>3. ASSUME NEW r \in Requester, RunsAsRoot(r) PROVE Tallies' /\ Profiles'
  BY <1>1, <1>3 DEF RunsAsRoot
<1>4. ASSUME NEW a \in Approver, (\E s \in Slug : Get(a, s)) \/ RemoveIt(a) \/ Killed(a)
      PROVE  Tallies' /\ Profiles'
  BY <1>4 DEF Get, RemoveIt, Killed, profile
<1>5. ASSUME NEW a \in Approver, Run(a) PROVE Tallies' /\ Profiles'
  <2>1. app[a].by \in Requester
    BY <1>5 DEF Run, OfRequests
  <2>2. attempts' \in [Requester -> Nat] /\ links' \in SUBSET Nat
    BY <1>1, <1>5, <2>1 DEF Run
  <2> QED BY <1>5, <2>2 DEF Run
<1>6. ASSUME NEW a \in Approver, CannotRun(a) PROVE Tallies' /\ Profiles'
  <2>1. UNCHANGED profile /\ slips' \in Nat
    BY <1>6 DEF CannotRun
  <2>2. attempts' \in [Requester -> Nat]
    <3>1. app[a].by \in Requester /\ attempts' = [attempts EXCEPT ![app[a].by] = @ + 1]
      BY <1>6 DEF CannotRun, OfRequests
    <3> QED BY <3>1
  <2> QED BY <2>1, <2>2 DEF profile
<1>7. CASE NewGeneration \/ GoBack
  <2>1. links' \in SUBSET Nat /\ master' \in Nat
    <3>1. CASE NewGeneration
      <4>1. PICK n \in 2 .. MaxLinks : master' = n /\ links' = links \cup {n}
        BY <3>1 DEF NewGeneration
      <4>2. n \in Nat
        OBVIOUS
      <4> QED BY <4>1, <4>2
    <3>2. CASE GoBack
      BY <3>2 DEF GoBack
    <3> QED BY <1>7, <3>1, <3>2
  <2>2. rolledBack' \in BOOLEAN
    BY <1>7 DEF NewGeneration, GoBack
  <2>3. UNCHANGED <<attempts, slips>>
    BY <1>7 DEF NewGeneration, GoBack
  <2> QED BY <2>1, <2>2, <2>3
<1>8. CASE (\E s \in Slug : Reject(s)) \/ UNCHANGED sudoVars
  BY <1>8 DEF Reject, sudoVars, profile
<1> QED BY <1>2, <1>3, <1>4, <1>5, <1>6, <1>7, <1>8 DEF SudoNext

LEMMA OfRequestsStep ==
  ASSUME SudoTypeOK, OfRequests, [SudoNext]_sudoVars
  PROVE  OfRequests'
<1> USE SudoAssumption DEF SudoTypeOK, Requests, Approvals, Tallies, OfRequests
<1>1. ASSUME NEW r \in Requester, ReadLinks(r) \/ ReadMaster(r) \/ Ask(r) \/ RunsAsRoot(r)
      PROVE  OfRequests'
  <2>1. /\ req[r].at # "queued" /\ \A q \in Requester : q # r => req'[q] = req[q]
        /\ UNCHANGED <<queue, app>>
        /\ \A q \in Requester : attempts'[q] \in {attempts[q], attempts[q] + 1}
    BY <1>1 DEF ReadLinks, ReadMaster, Ask, RunsAsRoot, Runs
  <2> QED BY <2>1
<1>2. ASSUME NEW r \in Requester, Enqueue(r) PROVE OfRequests'
  <2>1. /\ req[r].at # "queued" /\ \A q \in Requester : q # r => req'[q] = req[q]
        /\ UNCHANGED <<app, attempts>>
    BY <1>2 DEF Enqueue
  <2>2. CASE req[r].slug \notin Invalid /\ queue' = [queue EXCEPT ![req[r].slug] = r]
             /\ req' = [req EXCEPT ![r].at = "queued"]
    BY <2>1, <2>2
  <2>3. CASE queue' = queue
    BY <2>1, <2>3
  <2> QED BY <1>2, <2>2, <2>3 DEF Enqueue
<1>3. ASSUME NEW a \in Approver, NEW s \in Slug, Get(a, s) PROVE OfRequests'
  BY <1>3 DEF Get
<1>4. ASSUME NEW a \in Approver, Run(a) \/ CannotRun(a) PROVE OfRequests'
  <2>1. /\ app[a].at = "run" /\ app[a].by \in Requester
        /\ app' = [app EXCEPT ![a].at = "remove"] /\ UNCHANGED <<queue, req>>
        /\ attempts' = [attempts EXCEPT ![app[a].by] = @ + 1]
    BY <1>4 DEF Run, CannotRun, Runs
  <2>2. attempts'[app[a].by] > 0 /\ \A q \in Requester : attempts'[q] >= attempts[q]
    BY <2>1
  <2>3. \A s \in Slug : queue'[s] # Nothing => req'[queue'[s]].slug = s /\ req'[queue'[s]].at = "queued"
    BY <2>1
  <2>4. ASSUME NEW b \in Approver, app'[b].at # "idle"
        PROVE  /\ app'[b].by \in Requester /\ app'[b].slug \in Slug
               /\ req'[app'[b].by].slug = app'[b].slug /\ req'[app'[b].by].at = "queued"
               /\ app'[b].at = "remove" => attempts'[app'[b].by] > 0
    <3>1. CASE b = a
      BY <2>1, <2>2, <2>4, <3>1
    <3>2. CASE b # a
      BY <2>1, <2>2, <2>4, <3>2
    <3> QED BY <3>1, <3>2
  <2> QED BY <2>3, <2>4
<1>5. ASSUME NEW a \in Approver, RemoveIt(a) \/ Killed(a) PROVE OfRequests'
  <2>1. /\ app' = [app EXCEPT ![a].at = "idle"] /\ UNCHANGED <<req, attempts>>
        /\ \A s \in Slug : queue'[s] \in {Nothing, queue[s]}
    BY <1>5 DEF RemoveIt, Killed
  <2>2. \A b \in Approver : b # a => app'[b] = app[b]
    BY <2>1
  <2>3. app'[a].at = "idle"
    BY <2>1
  <2> QED BY <2>1, <2>2, <2>3
<1>6. ASSUME NEW s \in Slug, Reject(s) PROVE OfRequests'
  BY <1>6 DEF Reject
<1>7. CASE NewGeneration \/ GoBack \/ UNCHANGED sudoVars
  BY <1>7 DEF NewGeneration, GoBack, sudoVars
<1> QED BY <1>1, <1>2, <1>3, <1>4, <1>5, <1>6, <1>7 DEF SudoNext

LEMMA Counted ==
  ASSUME NEW r
  PROVE  /\ IsFiniteSet(Executing(r)) /\ IsFiniteSet(Removing(r))
         /\ Cardinality(Executing(r)) \in Nat /\ Cardinality(Removing(r)) \in Nat
         /\ Cardinality(Approver) \in Nat
         /\ Cardinality(Executing(r)) + Cardinality(Removing(r)) <= Cardinality(Approver)
<1>1. IsFiniteSet(Executing(r)) /\ IsFiniteSet(Removing(r))
  BY SudoAssumption, FS_Subset DEF Executing, Removing
<1>2. /\ Cardinality(Executing(r)) \in Nat /\ Cardinality(Removing(r)) \in Nat
      /\ Cardinality(Approver) \in Nat
  BY <1>1, SudoAssumption, FS_CardinalityType
<1>3. Executing(r) \cap Removing(r) = {}
  BY DEF Executing, Removing
<1>4. Cardinality(Executing(r) \cup Removing(r)) = Cardinality(Executing(r)) + Cardinality(Removing(r))
  <2>1. Cardinality(Executing(r) \cup Removing(r)) =
          Cardinality(Executing(r)) + Cardinality(Removing(r)) - Cardinality(Executing(r) \cap Removing(r))
    BY <1>1, FS_Union
  <2>2. Cardinality(Executing(r) \cap Removing(r)) = 0
    BY <1>3, FS_EmptySet
  <2> QED BY <1>2, <2>1, <2>2
<1>5. Cardinality(Executing(r) \cup Removing(r)) <= Cardinality(Approver)
  <2>1. Executing(r) \cup Removing(r) \in SUBSET Approver
    BY DEF Executing, Removing
  <2> QED BY <2>1, SudoAssumption, FS_Subset
<1> QED BY <1>1, <1>2, <1>4, <1>5

(* Once its file is gone a request can only be run by who has read it.     *)
LEMMA Gone ==
  ASSUME SudoTypeOK, NEW r \in Requester, Tried(r)
  PROVE  attempts[r] + Cardinality(Executing(r)) <= Cardinality(Approver) + slips
BY Counted DEF Tried, SudoTypeOK, Tallies

LEMMA TriedStays ==
  ASSUME SudoTypeOK, SudoTypeOK', NEW r \in Requester, Tried(r),
         attempts'[r] = attempts[r], slips' >= slips,
         Executing(r)' = Executing(r), Removing(r)' = Removing(r),
         InQueue(r)' => InQueue(r)
  PROVE  Tried(r)'
<1>1. attempts[r] + Cardinality(Executing(r)) <= Cardinality(Approver) + slips
  BY Gone
<1>2. attempts[r] \in Nat /\ slips \in Nat /\ slips' \in Nat
  BY DEF SudoTypeOK, Tallies
<1> QED BY <1>1, <1>2, Counted DEF Tried

AttemptsOK(r) ==
  IF req[r].at = "queued" THEN Tried(r)
  ELSE attempts[r] = IF req[r].at = "done" THEN 1 ELSE 0

LEMMA RequesterCounts ==
  ASSUME SudoTypeOK, SudoTypeOK', AttemptsCount, NEW q \in Requester, NEW r \in Requester,
         ReadLinks(q) \/ ReadMaster(q) \/ Ask(q) \/ RunsAsRoot(q) \/ Enqueue(q)
  PROVE  AttemptsOK(r)'
<1> USE SudoAssumption DEF SudoTypeOK, Requests, Tallies, Reaches
<1>1. app' = app /\ Executing(r)' = Executing(r) /\ Removing(r)' = Removing(r)
  BY DEF ReadLinks, ReadMaster, Ask, RunsAsRoot, Enqueue, Executing, Removing
<1>2. AttemptsOK(r) /\ slips' >= slips
  BY DEF AttemptsCount, AttemptsOK, ReadLinks, ReadMaster, Ask, RunsAsRoot, Enqueue
<1>3. CASE r # q
  <2>1. req'[r] = req[r] /\ attempts'[r] = attempts[r]
        /\ (req[r].at = "queued" /\ InQueue(r)' => InQueue(r))
    <3>1. req'[r] = req[r]
      BY <1>3 DEF ReadLinks, ReadMaster, Ask, RunsAsRoot, Enqueue
    <3>2. attempts'[r] = attempts[r]
      BY <1>3 DEF ReadLinks, ReadMaster, Ask, RunsAsRoot, Enqueue, Runs
    <3>3. queue' = queue \/ \E s \in Slug : queue' = [queue EXCEPT ![s] = q]
      BY DEF ReadLinks, ReadMaster, Ask, RunsAsRoot, Enqueue
    <3>4. req[r].at = "queued" /\ InQueue(r)' => InQueue(r)
      <4> SUFFICES ASSUME req[r].at = "queued", queue'[req[r].slug] = r PROVE queue[req[r].slug] = r
        BY <3>1 DEF InQueue
      <4>1. ASSUME NEW s \in Slug, queue' = [queue EXCEPT ![s] = q]
            PROVE  queue[req[r].slug] = r
        <5>1. req[r].slug \in Slug
          OBVIOUS
        <5> QED BY <1>3, <4>1, <5>1
      <4> QED BY <3>3, <4>1
    <3> QED BY <3>1, <3>2, <3>4
  <2>2. req[r].at = "queued" => Tried(r)'
    BY <1>1, <1>2, <2>1, TriedStays DEF AttemptsOK
  <2> QED BY <1>2, <2>1, <2>2 DEF AttemptsOK
<1>4. CASE r = q
  <2>1. req[r].at \in {"idle", "listed", "ask"} /\ attempts[r] = 0
    BY <1>2, <1>4 DEF AttemptsOK, ReadLinks, ReadMaster, Ask, RunsAsRoot, Enqueue
  <2>2. CASE ReadLinks(q) \/ ReadMaster(q) \/ Ask(q)
    BY <1>4, <2>1, <2>2 DEF ReadLinks, ReadMaster, Ask, AttemptsOK
  <2>3. CASE RunsAsRoot(q)
    BY <1>4, <2>1, <2>3 DEF RunsAsRoot, Runs, AttemptsOK
  <2>4. CASE Enqueue(q)
    <3>1. attempts'[r] = 0 /\ req'[r].at \in {"queued", "failed"} /\ req'[r].slug = req[r].slug
          /\ (req'[r].at = "queued" => queue'[req[r].slug] = r)
      BY <1>4, <2>1, <2>4 DEF Enqueue
    <3>2. req'[r].at = "queued" => InQueue(r)'
      BY <3>1 DEF InQueue
    <3>3. Cardinality(Removing(r)') \in Nat /\ slips' \in Nat
      BY <1>1, Counted
    <3> QED BY <3>1, <3>2, <3>3 DEF AttemptsOK, Tried
  <2> QED BY <2>2, <2>3, <2>4
<1> QED BY <1>3, <1>4

LEMMA ApproverCounts ==
  ASSUME SudoTypeOK, SudoTypeOK', OfRequests, AttemptsCount, NEW a \in Approver,
         NEW r \in Requester,
         (\E s \in Slug : Get(a, s)) \/ Run(a) \/ CannotRun(a) \/ RemoveIt(a) \/ Killed(a)
  PROVE  AttemptsOK(r)'
<1> USE SudoAssumption DEF SudoTypeOK, Tallies
<1>1. req' = req
  BY DEF Get, Run, CannotRun, RemoveIt, Killed
<1>2. CASE req[r].at # "queued"
  <2>1. attempts'[r] = attempts[r]
    BY <1>2 DEF Get, Run, Runs, CannotRun, RemoveIt, Killed, OfRequests
  <2> QED BY <1>1, <1>2, <2>1 DEF AttemptsCount, AttemptsOK
<1>3. CASE req[r].at = "queued"
  <2>0. Tried(r) /\ attempts[r] + Cardinality(Executing(r)) <= Cardinality(Approver) + slips
    BY <1>3, Gone DEF AttemptsCount
  <2> SUFFICES Tried(r)'
    BY <1>1, <1>3 DEF AttemptsOK
  <2> DEFINE going == Cardinality(Executing(r))
             rem == Cardinality(Removing(r))
  <2>1. /\ going \in Nat /\ rem \in Nat /\ going + rem <= Cardinality(Approver)
        /\ Cardinality(Approver) \in Nat
        /\ IsFiniteSet(Executing(r)) /\ IsFiniteSet(Removing(r))
    BY Counted
  <2>2. ASSUME NEW s \in Slug, Get(a, s) PROVE Tried(r)'
    <3>1. /\ app[a].at = "idle" /\ UNCHANGED <<queue, attempts, slips>>
          /\ app' = [app EXCEPT ![a] = [at |-> "run", slug |-> s, by |-> queue[s]]]
          /\ InQueue(r)' = InQueue(r) /\ queue[s] # Nothing
      BY <1>1, <2>2 DEF Get, InQueue
    <3>2. Removing(r)' = Removing(r)
      BY <3>1 DEF Removing, Approvals
    <3>3. CASE queue[s] = r
      <4>1. InQueue(r)
        BY <3>1, <3>3 DEF OfRequests, InQueue
      <4> QED BY <2>0, <3>1, <3>2, <4>1 DEF Tried
    <3>4. CASE queue[s] # r
      <4>1. Executing(r)' = Executing(r)
        BY <3>1, <3>4 DEF Executing, Approvals
      <4> QED BY <2>0, <3>1, <3>2, <4>1, TriedStays
    <3> QED BY <3>3, <3>4
  <2>3. CASE Run(a) \/ CannotRun(a)
    <3>1. /\ app[a].at = "run" /\ app' = [app EXCEPT ![a].at = "remove"]
          /\ attempts' = [attempts EXCEPT ![app[a].by] = @ + 1] /\ app[a].by \in Requester
          /\ slips' >= slips /\ slips' \in Nat /\ UNCHANGED queue
          /\ InQueue(r)' = InQueue(r)
      BY <1>1, <2>3 DEF Run, Runs, CannotRun, OfRequests, InQueue
    <3>2. CASE app[a].by = r
      <4>1. Executing(r)' = Executing(r) \ {a} /\ a \in Executing(r)
        BY <3>1, <3>2 DEF Executing, Approvals
      <4>2. Removing(r)' = Removing(r) \cup {a} /\ a \notin Removing(r)
        BY <3>1, <3>2 DEF Removing, Approvals
      <4>3. Cardinality(Executing(r)') = going - 1 /\ Cardinality(Removing(r)') = rem + 1
        <5>1. Cardinality(Executing(r) \ {a}) = going - 1
          BY <2>1, <4>1, FS_RemoveElement
        <5>2. Cardinality(Removing(r) \cup {a}) = rem + 1
          BY <2>1, <4>2, FS_AddElement
        <5> QED BY <4>1, <4>2, <5>1, <5>2
      <4>4. attempts'[r] = attempts[r] + 1 /\ attempts[r] \in Nat
        BY <3>1, <3>2
      <4>5. CASE InQueue(r)
        <5>1. attempts[r] <= rem + slips
          BY <2>0, <4>5 DEF Tried
        <5>2. attempts'[r] <= Cardinality(Removing(r)') + slips'
          BY <2>1, <3>1, <4>3, <4>4, <5>1
        <5> QED BY <3>1, <4>5, <5>2 DEF Tried
      <4>6. CASE ~InQueue(r)
        <5>1. attempts'[r] + Cardinality(Executing(r)') <= Cardinality(Approver) + slips'
          BY <2>0, <2>1, <3>1, <4>3, <4>4
        <5> QED BY <3>1, <4>6, <5>1 DEF Tried
      <4> QED BY <4>5, <4>6
    <3>3. CASE app[a].by # r
      <4>1. Executing(r)' = Executing(r) /\ Removing(r)' = Removing(r) /\ attempts'[r] = attempts[r]
        BY <3>1, <3>3 DEF Executing, Removing, Approvals
      <4> QED BY <2>0, <3>1, <4>1, TriedStays
    <3> QED BY <3>2, <3>3
  <2>4. CASE RemoveIt(a)
    <3>1. /\ app[a].at = "remove" /\ app' = [app EXCEPT ![a].at = "idle"]
          /\ queue' = [queue EXCEPT ![app[a].slug] = Nothing] /\ UNCHANGED <<attempts, slips>>
      BY <2>4 DEF RemoveIt
    <3>2. Executing(r)' = Executing(r)
      BY <3>1 DEF Executing, Approvals
    <3>3. CASE app[a].slug = req[r].slug
      <4>1. ~InQueue(r)'
        BY <1>1, <3>1, <3>3 DEF InQueue, OfRequests, Requests
      <4> QED BY <2>0, <3>1, <3>2, <4>1 DEF Tried
    <3>4. CASE app[a].slug # req[r].slug
      <4>1. app[a].by # r /\ (InQueue(r)' => InQueue(r))
        BY <1>1, <3>1, <3>4 DEF InQueue, OfRequests, Requests
      <4>2. Removing(r)' = Removing(r)
        BY <3>1, <4>1 DEF Removing, Approvals
      <4> QED BY <2>0, <3>1, <3>2, <4>1, <4>2, TriedStays
    <3> QED BY <3>3, <3>4
  <2>5. CASE Killed(a)
    <3>1. /\ app' = [app EXCEPT ![a].at = "idle"] /\ slips' = slips + 1
          /\ UNCHANGED <<queue, attempts>> /\ InQueue(r)' = InQueue(r)
      BY <1>1, <2>5 DEF Killed, InQueue
    <3>2. Executing(r)' = Executing(r) \ {a} /\ Removing(r)' = Removing(r) \ {a}
      BY <3>1 DEF Executing, Removing, Approvals
    <3>3. /\ Cardinality(Executing(r)') \in {going, going - 1}
          /\ Cardinality(Removing(r)') \in {rem, rem - 1}
      BY <2>1, <3>2, FS_RemoveElement
    <3>4. attempts[r] \in Nat /\ slips \in Nat
      OBVIOUS
    <3> QED BY <2>0, <2>1, <3>1, <3>3, <3>4 DEF Tried
  <2> QED BY <2>2, <2>3, <2>4, <2>5
<1> QED BY <1>2, <1>3

LEMMA AttemptsStep ==
  ASSUME SudoTypeOK, SudoTypeOK', OfRequests, AttemptsCount, [SudoNext]_sudoVars
  PROVE  AttemptsCount'
<1> SUFFICES ASSUME NEW r \in Requester PROVE AttemptsOK(r)'
  BY DEF AttemptsCount, AttemptsOK
<1>1. AttemptsOK(r)
  BY DEF AttemptsCount, AttemptsOK
<1>2. ASSUME NEW s \in Slug, Reject(s) PROVE AttemptsOK(r)'
  <2>1. /\ UNCHANGED <<req, app, attempts, slips>> /\ queue' = [queue EXCEPT ![s] = Nothing]
        /\ Executing(r)' = Executing(r) /\ Removing(r)' = Removing(r)
    BY <1>2 DEF Reject, Executing, Removing
  <2>2. InQueue(r)' => InQueue(r)
    BY <2>1, SudoAssumption DEF InQueue, SudoTypeOK, Requests
  <2>3. req[r].at = "queued" => Tried(r)'
    BY <1>1, <2>1, <2>2, TriedStays DEF AttemptsOK, SudoTypeOK, Tallies
  <2> QED BY <1>1, <2>1, <2>3 DEF AttemptsOK
<1>3. CASE NewGeneration \/ GoBack \/ UNCHANGED sudoVars
  <2>1. UNCHANGED <<queue, req, app, attempts, slips>>
    BY <1>3 DEF NewGeneration, GoBack, sudoVars
  <2> QED BY <1>1, <2>1 DEF AttemptsOK, Tried, InQueue, Executing, Removing
<1> QED BY <1>2, <1>3, RequesterCounts, ApproverCounts DEF SudoNext

LEMMA WaitsStep ==
  ASSUME SudoTypeOK, SudoTypeOK', OfRequests, Waits, [SudoNext]_sudoVars
  PROVE  Waits'
<1> USE SudoAssumption DEF SudoTypeOK, Requests, Approvals, Tallies
<1> SUFFICES ASSUME NEW r \in Requester, req'[r].at = "queued" PROVE Held(r)'
  BY DEF Waits
<1>1. ASSUME NEW q \in Requester,
             ReadLinks(q) \/ ReadMaster(q) \/ Ask(q) \/ RunsAsRoot(q) \/ Enqueue(q)
      PROVE  Held(r)'
  <2>1. /\ rejected' = rejected /\ req[q].at # "queued"
        /\ \A p \in Requester : p # q => req'[p] = req[p]
    BY <1>1 DEF ReadLinks, ReadMaster, Ask, RunsAsRoot, Enqueue
  <2>2. CASE r = q
    <3>1. Enqueue(q) /\ req'[q].slug = req[q].slug
      BY <1>1, <2>2 DEF ReadLinks, ReadMaster, Ask, RunsAsRoot, Enqueue
    <3>2. queue' = [queue EXCEPT ![req[q].slug] = q] /\ req[q].slug \in Slug
      BY <2>2, <3>1 DEF Enqueue
    <3> QED BY <2>2, <3>1, <3>2 DEF InQueue, Held
  <2>3. CASE r # q
    <3>1. req'[r] = req[r] /\ Held(r)
      BY <2>1, <2>3 DEF Waits
    <3>2. Rivals(r) \subseteq Rivals(r)'
      BY <2>1, <3>1 DEF Rivals
    <3>3. CASE InQueue(r)
      <4>1. CASE queue' = queue
        BY <3>1, <3>3, <4>1 DEF Held, InQueue
      <4>2. CASE queue' # queue
        <5>1. queue' = [queue EXCEPT ![req[q].slug] = q] /\ req'[q].at = "queued"
              /\ req'[q].slug = req[q].slug
          BY <1>1, <4>2 DEF ReadLinks, ReadMaster, Ask, RunsAsRoot, Enqueue
        <5>2. CASE req[q].slug = req[r].slug
          BY <2>3, <3>1, <5>1, <5>2 DEF Held, Rivals
        <5>3. CASE req[q].slug # req[r].slug
          BY <3>1, <3>3, <5>1, <5>3 DEF Held, InQueue
        <5> QED BY <5>2, <5>3
      <4> QED BY <4>1, <4>2
    <3>4. CASE attempts[r] > 0
      <4>1. attempts'[r] = attempts[r]
        BY <1>1, <2>3 DEF ReadLinks, ReadMaster, Ask, RunsAsRoot, Enqueue, Runs
      <4> QED BY <3>4, <4>1 DEF Held
    <3>5. CASE Rivals(r) # {} \/ req[r].slug \in rejected
      BY <2>1, <3>1, <3>2, <3>5 DEF Held
    <3> QED BY <3>1, <3>3, <3>4, <3>5 DEF Held
  <2> QED BY <2>2, <2>3
<1>2. ASSUME req' = req PROVE Held(r) /\ Rivals(r)' = Rivals(r)
  BY <1>2 DEF Waits, Rivals
<1>3. ASSUME NEW a \in Approver, Run(a) \/ CannotRun(a) PROVE Held(r)'
  <2>1. /\ UNCHANGED <<queue, req, rejected>> /\ app[a].by \in Requester
        /\ attempts' = [attempts EXCEPT ![app[a].by] = @ + 1]
    BY <1>3 DEF Run, Runs, CannotRun, OfRequests
  <2>2. attempts'[r] >= attempts[r]
    BY <2>1
  <2> QED BY <1>2, <2>1, <2>2 DEF Held, InQueue
<1>4. ASSUME NEW a \in Approver, RemoveIt(a) PROVE Held(r)'
  <2>1. /\ UNCHANGED <<req, attempts, rejected>> /\ app[a].at = "remove"
        /\ queue' = [queue EXCEPT ![app[a].slug] = Nothing]
    BY <1>4 DEF RemoveIt
  <2>2. CASE app[a].slug # req[r].slug
    BY <1>2, <2>1, <2>2 DEF Held, InQueue
  <2>3. CASE app[a].slug = req[r].slug
    <3>1. /\ app[a].by \in Requester /\ attempts[app[a].by] > 0
          /\ req[app[a].by].slug = req[r].slug /\ req[app[a].by].at = "queued"
      BY <2>1, <2>3 DEF OfRequests
    <3>2. CASE app[a].by = r
      BY <2>1, <3>1, <3>2 DEF Held
    <3>3. CASE app[a].by # r
      BY <2>1, <3>1, <3>3 DEF Held, Rivals
    <3> QED BY <3>2, <3>3
  <2> QED BY <2>2, <2>3
<1>5. ASSUME NEW s \in Slug, Reject(s) PROVE Held(r)'
  <2>1. /\ UNCHANGED <<req, attempts>> /\ rejected' = rejected \cup {s}
        /\ queue' = [queue EXCEPT ![s] = Nothing]
    BY <1>5 DEF Reject
  <2>2. CASE s = req[r].slug
    BY <2>1, <2>2 DEF Held
  <2>3. CASE s # req[r].slug
    BY <1>2, <2>1, <2>3 DEF Held, InQueue
  <2> QED BY <2>2, <2>3
<1>6. ASSUME (\E a \in Approver : (\E s \in Slug : Get(a, s)) \/ Killed(a))
             \/ NewGeneration \/ GoBack \/ UNCHANGED sudoVars
      PROVE  Held(r)'
  <2>1. UNCHANGED <<queue, req, attempts, rejected>>
    BY <1>6 DEF Get, Killed, NewGeneration, GoBack, sudoVars
  <2> QED BY <1>2, <2>1 DEF Held, InQueue
<1> QED BY <1>1, <1>3, <1>4, <1>5, <1>6 DEF SudoNext

LEMMA MasterStaysStep ==
  ASSUME SudoTypeOK, OfRequests, MasterStays, [SudoNext]_sudoVars
  PROVE  MasterStays'
<1> USE SudoAssumption DEF SudoTypeOK, Requests, Profiles
<1> SUFFICES ASSUME ~rolledBack' PROVE MasterStays'
  BY DEF MasterStays
<1>1. ASSUME NEW r \in Requester, ReadLinks(r) PROVE MasterStays'
  <2>1. ~rolledBack /\ master' = master /\ links' = links
    BY <1>1 DEF ReadLinks, profile
  <2>2. req' = [req EXCEPT ![r].at = "listed", ![r].files = links]
    BY <1>1 DEF ReadLinks
  <2>3. \A q \in Requester : req'[q] = req[q] \/ (req'[q].at = "listed" /\ req'[q].files = links)
    BY <2>2
  <2> QED BY <2>1, <2>3 DEF MasterStays
<1>2. ASSUME NEW r \in Requester, ReadMaster(r) PROVE MasterStays'
  <2>1. ~rolledBack /\ master' = master /\ links' = links
    BY <1>2 DEF ReadMaster, profile
  <2>2. /\ req'[r].files = req[r].files \ {master} /\ req'[r].at # "idle"
        /\ \A q \in Requester : q # r => req'[q] = req[q]
    BY <1>2 DEF ReadMaster
  <2> QED BY <2>1, <2>2 DEF MasterStays
<1>3. ASSUME NEW r \in Requester, Ask(r) \/ Enqueue(r) PROVE MasterStays'
  <2>1. ~rolledBack /\ master' = master /\ links' = links
    BY <1>3 DEF Ask, Enqueue, profile
  <2>2. \A q \in Requester : /\ req'[q].files = req[q].files
                             /\ req'[q].at \in {"idle", "listed"} => req'[q].at = req[q].at
                             /\ req[q].at = "listed" => req'[q].at = "listed"
    BY <1>3 DEF Ask, Enqueue
  <2> QED BY <2>1, <2>2 DEF MasterStays
<1>4. ASSUME NEW r \in Requester, Runs(r), UNCHANGED <<master, rolledBack>>,
             req[r].at \in {"ask", "queued"},
             \A q \in Requester : /\ req'[q].files = req[q].files
                                  /\ req'[q].at = req[q].at \/ (req[q].at = "ask" /\ req'[q].at = "done")
      PROVE  MasterStays'
  <2>1. ~rolledBack /\ links' \subseteq links /\ (\A l \in links : l \notin req[r].files => l \in links')
    BY <1>4 DEF Runs
  <2>2. master \in links /\ master \notin req[r].files
    BY <1>4, <2>1 DEF MasterStays
  <2> QED BY <1>4, <2>1, <2>2 DEF MasterStays
<1>5. ASSUME NEW r \in Requester, RunsAsRoot(r) PROVE MasterStays'
  <2>1. /\ Runs(r) /\ UNCHANGED <<master, rolledBack>> /\ req[r].at = "ask"
        /\ req' = [req EXCEPT ![r].at = "done"]
    BY <1>5 DEF RunsAsRoot
  <2>2. \A q \in Requester : /\ req'[q].files = req[q].files
                             /\ req'[q].at = req[q].at \/ (req[q].at = "ask" /\ req'[q].at = "done")
    BY <2>1
  <2> QED BY <1>4, <2>1, <2>2
<1>6. ASSUME NEW a \in Approver, Run(a) PROVE MasterStays'
  <2>1. /\ Runs(app[a].by) /\ UNCHANGED <<req, master, rolledBack>>
        /\ app[a].by \in Requester /\ req[app[a].by].at = "queued"
    BY <1>6 DEF Run, OfRequests
  <2> QED BY <1>4, <2>1
<1>7. CASE NewGeneration
  <2>1. PICK n \in 2 .. MaxLinks :
          /\ \A l \in links : l < n
          /\ master' = n /\ links' = links \cup {n} /\ UNCHANGED <<req, rolledBack>>
    BY <1>7 DEF NewGeneration
  <2>2. n \in Nat /\ ~rolledBack /\ master < n
    BY <2>1 DEF MasterStays
  <2>3. master' \in links' /\ \A l \in links' : l <= master'
    BY <2>1, <2>2
  <2>4. \A r \in Requester : \A l \in req[r].files : l < n
    BY <2>2 DEF MasterStays
  <2>5. \A r \in Requester : n \notin req[r].files
    BY <2>2, <2>4
  <2>6. \A r \in Requester : req'[r] = req[r] /\ (req[r].at = "idle" => req[r].files = {})
    BY <2>1, <2>2 DEF MasterStays
  <2>7. \A r \in Requester :
          /\ \A l \in req'[r].files : l <= master'
          /\ req'[r].at = "idle" => req'[r].files = {}
          /\ req'[r].at \notin {"idle", "listed"} => master' \notin req'[r].files
    <3>1. SUFFICES ASSUME NEW r \in Requester
                   PROVE  /\ \A l \in req[r].files : l <= n
                          /\ n \notin req[r].files
      BY <2>1, <2>6
    <3>2. req[r].files \subseteq Nat
      OBVIOUS
    <3> QED BY <2>2, <2>4, <2>5, <3>2
  <2> QED BY <2>3, <2>7 DEF MasterStays
<1>8. CASE (\E a \in Approver : (\E s \in Slug : Get(a, s)) \/ CannotRun(a) \/ RemoveIt(a) \/ Killed(a))
           \/ (\E s \in Slug : Reject(s)) \/ GoBack \/ UNCHANGED sudoVars
  <2>1. UNCHANGED <<req, links, master, rolledBack>>
    BY <1>8 DEF Get, CannotRun, RemoveIt, Killed, Reject, GoBack, sudoVars, profile
  <2> QED BY <2>1 DEF MasterStays
<1> QED BY <1>1, <1>2, <1>3, <1>5, <1>6, <1>7, <1>8 DEF SudoNext

LEMMA SudoInvStep == SudoInv /\ [SudoNext]_sudoVars => SudoInv'
<1> SUFFICES ASSUME SudoInv, [SudoNext]_sudoVars PROVE SudoInv'
  OBVIOUS
<1> USE DEF SudoInv
<1>1. SudoTypeOK'
  BY RequestsStep, ApprovalsStep, TalliesStep DEF SudoTypeOK
<1> QED BY <1>1, OfRequestsStep, AttemptsStep, WaitsStep, MasterStaysStep

LEMMA SudoInvIsHonest == SudoInv => QueueIsHonest
<1> SUFFICES ASSUME SudoInv PROVE QueueIsHonest
  OBVIOUS
<1> USE DEF SudoInv
<1>1. master \in links \/ rolledBack
  BY DEF MasterStays
<1>2. ASSUME NEW r \in Requester, req[r].at = "queued", ~Shared(req[r].slug),
             req[r].slug \notin rejected
      PROVE  queue[req[r].slug] = r \/ attempts[r] > 0
  BY <1>2 DEF Waits, Held, Rivals, InQueue, Shared
<1>3. ASSUME NEW r \in Requester, req[r].at = "queued"
      PROVE  attempts[r] <= Cardinality(Approver) + slips
  <2>1. attempts[r] + Cardinality(Executing(r)) <= Cardinality(Approver) + slips
    BY <1>3, Gone DEF AttemptsCount
  <2> QED BY <2>1, Counted DEF SudoTypeOK, Tallies
<1> QED BY <1>1, <1>2, <1>3 DEF QueueIsHonest, AttemptsCount

(* The queue is honest, for any number of those who ask and who approve: what *)
(* was asked waits for its run or its rejection or gives way to another of    *)
(* its slug, it is run at most once for each approver and each approval that  *)
(* was killed or could not run it, and the cleanup of a profile leaves the    *)
(* generation in use unless the user went back.                               *)
THEOREM QueueStaysHonest == SudoSpec => []QueueIsHonest
<1>1. SudoInit => SudoInv
  BY SudoInvInit
<1>2. SudoInv /\ [SudoNext]_sudoVars => SudoInv'
  BY SudoInvStep
<1>3. SudoInv => QueueIsHonest
  BY SudoInvIsHonest
<1> QED BY <1>1, <1>2, <1>3, PTL DEF SudoSpec

-----------------------------------------------------------------------------
(* nix.                                                                    *)


JobRec == [at : {"idle", "absent", "archive", "copy", "lookup", "build", "remote", "back",
                 "result", "built", "ok", "failed"},
           v : Nat, begun : Nat, gcs : Nat]
DeployAction == {"auto", "switch", "boot", NoAction}
NodeRec == [running : Nat, boot : Nat, from : Nat, live : BOOLEAN]
DepRec == [at : {"idle", "build", "copy", "detect", "check", "switch", "ok", "failed"},
           v : Nat, action : DeployAction, seen : Nat]
StorePath == ({"source", "out"} \cup Node) \X Nat

NixTypes ==
  /\ flake \in Nat /\ gcs \in Nat /\ reboots \in Nat
  /\ store \in [Machine -> SUBSET StorePath]
  /\ work \in [Job -> JobRec]
  /\ node \in [Node -> NodeRec]
  /\ dep \in [Node -> DepRec]
  /\ deploy \in [at : {"none", "absent", "running", "told", "failed"}, action : DeployAction,
                 begun : Nat]

\* The revision that a job works on.
OfNow(j) ==
  /\ work[j].begun <= flake /\ work[j].gcs <= gcs
  /\ work[j].at \in {"copy", "lookup", "build", "remote", "back", "result", "built"} =>
       /\ work[j].v >= work[j].begun \/ (inStore /\ JobKind[j] \in {"rebuild", "apply"} /\ work[j].v = 0)
       /\ work[j].v <= flake
  /\ work[j].at \in {"copy", "remote"} => j \in remotely
  /\ work[j].at = "result" => JobKind[j] = "apply"

\* The result that it has.
Handed(j) ==
  /\ work[j].at = "result" /\ work[j].gcs = gcs => Holds(Here, Out(work[j].v))
  /\ work[j].at = "built" /\ work[j].gcs = gcs =>
       \/ Holds(Here, Out(work[j].v))
       \/ Holds(Builder, Out(work[j].v)) /\ j \in remotely \ CopyBack

\* What a node has, what its task works on, and what was seen before a switch.
OfNode(n) ==
  /\ {Top(n, node[n].running), Top(n, node[n].boot)} \subseteq store[n]
  /\ deploy.at \in {"none", "absent"} => dep[n].at = "idle"
  /\ deploy.at = "told" => dep[n].at = "ok"
  /\ dep[n].at \in {"copy", "detect", "check", "switch", "ok"} => dep[n].v >= deploy.begun
  /\ dep[n].at = "ok" => dep[n].v \in {node[n].running, node[n].boot} \/ reboots > 0
  /\ dep[n].seen <= reboots
  /\ dep[n].at \in {"check", "switch"} /\ deploy.action = "auto" /\ dep[n].action # "boot"
       /\ dep[n].seen = reboots => Nixpkgs[dep[n].v] = Nixpkgs[node[n].running]
  /\ node[n].live => dep[n].at \in {"ok", "failed"}
  /\ node[n].live /\ deploy.action = "auto" /\ dep[n].seen = reboots =>
       Nixpkgs[node[n].from] = Nixpkgs[node[n].running]

NixInv ==
  /\ NixTypes /\ deploy.begun <= flake
  /\ \A j \in Job : OfNow(j) /\ Handed(j)
  /\ \A n \in Node : OfNode(n)

StoreGrows ==
  /\ store' \in [Machine -> SUBSET StorePath]
  /\ \A m \in Machine : store[m] \subseteq store'[m]

LEMMA NixInitInv == NixInit => NixInv
<1> SUFFICES ASSUME NixInit PROVE NixInv OBVIOUS
<1> USE DEF NixInit
<1>1. store \in [Machine -> SUBSET StorePath]
  BY DEF Top, StorePath
<1>2. work \in [Job -> JobRec] /\ \A j \in Job : work[j].at \in {"idle", "absent"} /\ work[j].begun = 0
                                                 /\ work[j].gcs = 0
  <2>1. PICK S \in SUBSET Job :
          work = [j \in Job |-> [at |-> IF j \in S THEN "idle" ELSE "absent", v |-> 0, begun |-> 0, gcs |-> 0]]
    OBVIOUS
  <2>2. ASSUME NEW j \in Job
        PROVE  [at |-> IF j \in S THEN "idle" ELSE "absent", v |-> 0, begun |-> 0, gcs |-> 0] \in JobRec
    BY DEF JobRec
  <2>3. work \in [Job -> JobRec]  BY <2>1, <2>2
  <2> QED BY <2>1, <2>3
<1>3. node \in [Node -> NodeRec] /\ \A n \in Node : node[n].running = 1 /\ node[n].boot = 1 /\ ~node[n].live
  <2>1. [running |-> 1, boot |-> 1, from |-> 1, live |-> FALSE] \in NodeRec  BY DEF NodeRec
  <2>2. node \in [Node -> NodeRec]  BY <2>1
  <2> QED BY <2>2
<1>4. dep \in [Node -> DepRec] /\ \A n \in Node : dep[n].at = "idle" /\ dep[n].seen = 0
  <2>1. [at |-> "idle", v |-> 0, action |-> NoAction, seen |-> 0] \in DepRec  BY DEF DepRec, DeployAction
  <2>2. dep \in [Node -> DepRec]  BY <2>1
  <2> QED BY <2>2
<1>5. /\ deploy \in [at : {"none", "absent", "running", "told", "failed"}, action : DeployAction, begun : Nat]
      /\ deploy.at \in {"none", "absent"} /\ deploy.begun = 0
  BY DEF DeployAction
<1>6. \A n \in Node : n \in Machine /\ store[n] = {Top(n, 1)}
  BY DEF Machine
<1>7. ASSUME NEW j \in Job PROVE OfNow(j) /\ Handed(j)
  BY <1>2 DEF OfNow, Handed
<1>8. ASSUME NEW n \in Node PROVE OfNode(n)
  BY <1>3, <1>4, <1>5, <1>6 DEF OfNode
<1> QED BY <1>1, <1>2, <1>3, <1>4, <1>5, <1>7, <1>8 DEF NixInv, NixTypes

\* What others do leaves a job as it is: the flake gets newer, and a store that
\* loses a path is one collection later.
LEMMA JobStays ==
  ASSUME NixInv, NEW j \in Job, work'[j] = work[j], UNCHANGED hostEnv,
         flake' \in Nat, flake' >= flake, gcs' \in Nat, gcs' >= gcs,
         gcs' = gcs => \A m \in Machine : store[m] \subseteq store'[m]
  PROVE  OfNow(j)' /\ Handed(j)'
<1>1. /\ flake \in Nat /\ gcs \in Nat /\ work[j] \in JobRec /\ OfNow(j) /\ Handed(j)
  BY DEF NixInv, NixTypes
<1>2. work[j].begun \in Nat /\ work[j].v \in Nat /\ work[j].gcs \in Nat  BY <1>1 DEF JobRec
<1>3. remotely' = remotely /\ inStore' = inStore  BY DEF remotely, hostEnv
<1>4. OfNow(j)'  BY <1>1, <1>2, <1>3 DEF OfNow
<1>5. Here \in Machine /\ Builder \in Machine  BY DEF Machine
<1>6. Handed(j)'
  <2>1. CASE gcs' = gcs  BY <2>1, <1>1, <1>3, <1>5 DEF Handed, Holds
  <2>2. CASE gcs' # gcs
    <3>1. work'[j].gcs # gcs'  BY <2>2, <1>1, <1>2 DEF OfNow
    <3> QED BY <3>1 DEF Handed
  <2> QED BY <2>1, <2>2
<1> QED BY <1>4, <1>6

\* Nor does what others do disturb a node that neither switches nor reboots.
LEMMA NodeStays ==
  ASSUME NixInv, NEW n \in Node, node'[n] = node[n], dep'[n] = dep[n],
         UNCHANGED <<deploy, reboots>>,
         store[n] \cap {Top(n, node[n].running), Top(n, node[n].boot)} \subseteq store'[n]
  PROVE  OfNode(n)'
BY DEF NixInv, OfNode

LEMMA OneJob ==
  ASSUME NixInv, NEW j \in Job, NEW w \in JobRec, work' = [work EXCEPT ![j] = w],
         UNCHANGED <<hostEnv, flake, nodes, gcs, reboots>>, StoreGrows,
         OfNow(j)' /\ Handed(j)'
  PROVE  NixInv'
<1>1. NixTypes'  BY DEF NixInv, NixTypes, StoreGrows, nodes
<1>2. ASSUME NEW k \in Job PROVE OfNow(k)' /\ Handed(k)'
  <2>1. CASE k = j  BY <2>1
  <2>2. CASE k # j
    <3>1. work'[k] = work[k]  BY <2>2 DEF NixInv, NixTypes
    <3>2. flake' \in Nat /\ flake' >= flake /\ gcs' \in Nat /\ gcs' >= gcs  BY DEF NixInv, NixTypes
    <3> QED BY <3>1, <3>2, JobStays DEF StoreGrows
  <2> QED BY <2>1, <2>2
<1>3. ASSUME NEW n \in Node PROVE OfNode(n)'
  <2>1. n \in Machine  BY DEF Machine
  <2> QED BY <2>1, NodeStays DEF nodes, StoreGrows
<1>4. deploy'.begun <= flake'  BY DEF NixInv, nodes
<1> QED BY <1>1, <1>2, <1>3, <1>4 DEF NixInv

LEMMA OneNode ==
  ASSUME NixInv, NEW n \in Node, NEW d \in DepRec, dep' = [dep EXCEPT ![n] = d],
         NEW x \in NodeRec, node' = [node EXCEPT ![n] = x],
         UNCHANGED <<jobs, deploy, gcs, reboots>>, StoreGrows, OfNode(n)'
  PROVE  NixInv'
<1>1. NixTypes'  BY DEF NixInv, NixTypes, StoreGrows, jobs
<1>2. ASSUME NEW k \in Job PROVE OfNow(k)' /\ Handed(k)'
  <2>1. flake' \in Nat /\ flake' >= flake /\ gcs' \in Nat /\ gcs' >= gcs  BY DEF NixInv, NixTypes, jobs
  <2> QED BY <2>1, JobStays DEF StoreGrows, jobs
<1>3. ASSUME NEW k \in Node PROVE OfNode(k)'
  <2>1. CASE k = n  BY <2>1
  <2>2. CASE k # n
    <3>1. node'[k] = node[k] /\ dep'[k] = dep[k] /\ k \in Machine
      BY <2>2 DEF NixInv, NixTypes, Machine
    <3> QED BY <3>1, NodeStays DEF StoreGrows
  <2> QED BY <2>1, <2>2
<1>4. deploy'.begun <= flake'  BY DEF NixInv, jobs
<1> QED BY <1>1, <1>2, <1>3, <1>4 DEF NixInv

LEMMA GetsGrows ==
  ASSUME NixInv, NEW m \in Machine, NEW p \in StorePath, Gets(m, p)
  PROVE  StoreGrows /\ p \in store'[m]
BY DEF NixInv, NixTypes, Gets, StoreGrows

LEMMA SameStoreGrows == NixInv /\ UNCHANGED store => StoreGrows
BY DEF NixInv, NixTypes, StoreGrows

\* What a job is.
LEMMA JobOf ==
  ASSUME NixInv, NEW j \in Job
  PROVE  /\ work[j] \in JobRec /\ j \in DOMAIN work /\ flake \in Nat /\ gcs \in Nat
         /\ work[j].v \in Nat /\ work[j].begun \in Nat /\ work[j].gcs \in Nat
         /\ OfNow(j) /\ Handed(j)
         /\ Here \in Machine /\ Builder \in Machine
         /\ FlakeSource(work[j].v) \in StorePath /\ Out(work[j].v) \in StorePath
         /\ FlakeSource(0) \in StorePath /\ FlakeSource(flake) \in StorePath
<1>1. work[j] \in JobRec /\ j \in DOMAIN work /\ flake \in Nat /\ gcs \in Nat /\ OfNow(j) /\ Handed(j)
  BY DEF NixInv, NixTypes
<1>2. work[j].v \in Nat /\ work[j].begun \in Nat /\ work[j].gcs \in Nat  BY <1>1 DEF JobRec
<1> QED BY <1>1, <1>2 DEF Machine, FlakeSource, Out, StorePath

LEMMA GoesTyped ==
  ASSUME NixInv, NEW j \in Job,
         NEW at \in {"idle", "absent", "archive", "copy", "lookup", "build", "remote", "back",
                     "result", "built", "ok", "failed"},
         JobGoes(j, at)
  PROVE  LET w == [work[j] EXCEPT !.at = at] IN
           /\ w \in JobRec /\ work' = [work EXCEPT ![j] = w]
           /\ work'[j].at = at /\ work'[j].v = work[j].v /\ work'[j].begun = work[j].begun
           /\ work'[j].gcs = work[j].gcs
BY JobOf DEF JobGoes, JobRec

\* A job that only goes to another place, where no more is promised of it.
LEMMA JobGoesInv ==
  ASSUME NixInv, NEW j \in Job,
         NEW at \in {"archive", "copy", "lookup", "build", "remote", "back", "ok", "failed"},
         JobGoes(j, at), UNCHANGED <<hostEnv, flake, nodes, gcs, reboots>>, StoreGrows,
         at \in {"copy", "lookup", "build", "remote", "back"} =>
           work[j].at \in {"copy", "lookup", "build", "remote", "back", "result", "built"},
         at \in {"copy", "remote"} => j \in remotely
  PROVE  NixInv'
<1> DEFINE w == [work[j] EXCEPT !.at = at]
<1>1. /\ w \in JobRec /\ work' = [work EXCEPT ![j] = w]
      /\ work'[j].at = at /\ work'[j].v = work[j].v /\ work'[j].begun = work[j].begun
      /\ work'[j].gcs = work[j].gcs
  BY GoesTyped
<1>2. remotely' = remotely /\ inStore' = inStore  BY DEF remotely, hostEnv
<1>3. OfNow(j)'
  <2>1. CASE at \in {"copy", "lookup", "build", "remote", "back"}
    BY <2>1, <1>1, <1>2, JobOf DEF OfNow
  <2>2. CASE at \in {"archive", "ok", "failed"}
    BY <2>2, <1>1, JobOf DEF OfNow
  <2> QED BY <2>1, <2>2
<1>4. Handed(j)'  BY <1>1 DEF Handed
<1> HIDE DEF w
<1> QED BY <1>1, <1>3, <1>4, OneJob

\* A result that is there now.
LEMMA BuiltInv ==
  ASSUME NixInv, NEW j \in Job, Built(j), UNCHANGED <<hostEnv, flake, nodes, gcs, reboots>>, StoreGrows,
         work[j].at \in {"copy", "lookup", "build", "remote", "back"},
         \/ Out(work[j].v) \in store'[Here]
         \/ Out(work[j].v) \in store'[Builder] /\ j \in remotely \ CopyBack
  PROVE  NixInv'
<1> DEFINE w == [work[j] EXCEPT !.at = "built", !.gcs = gcs]
<1>1. w \in JobRec  BY JobOf DEF JobRec
<1>2. work' = [work EXCEPT ![j] = w]  BY JobOf DEF Built, JobRec
<1>3. work'[j].at = "built" /\ work'[j].v = work[j].v /\ work'[j].begun = work[j].begun /\ work'[j].gcs = gcs
  BY <1>2, JobOf DEF JobRec
<1>4. remotely' = remotely /\ inStore' = inStore  BY DEF remotely, hostEnv
<1>5. OfNow(j)'  BY <1>3, <1>4, JobOf DEF OfNow
<1>6. Handed(j)'  BY <1>3, <1>4 DEF Handed, Holds
<1> HIDE DEF w
<1> QED BY <1>1, <1>2, <1>5, <1>6, OneJob

LEMMA BeginJobInv ==
  ASSUME NixInv, NEW j \in Job, BeginJob(j)
  PROVE  NixInv'
<1> DEFINE to == IF JobKind[j] = "apply" /\ host = "plain" THEN "ok"
                 ELSE IF JobKind[j] \in {"apply", "rebuild"} /\ j \notin remotely /\ host \in {"unknown", "plain"}
                 THEN "failed" ELSE "archive"
           w == [work[j] EXCEPT !.begun = flake, !.at = to]
<1>1. to \in {"ok", "failed", "archive"}  OBVIOUS
<1>2. work' = [work EXCEPT ![j].begun = flake, ![j].at = to]  BY DEF BeginJob
<1> HIDE DEF to
<1>3. w \in JobRec  BY <1>1, JobOf DEF JobRec
<1>4. work' = [work EXCEPT ![j] = w]  BY <1>2, JobOf DEF JobRec
<1>5. work'[j].at = to /\ work'[j].begun = flake /\ work'[j].gcs = work[j].gcs
  BY <1>4, JobOf DEF JobRec
<1>6. StoreGrows /\ UNCHANGED <<hostEnv, flake, nodes, gcs, reboots>>
  BY SameStoreGrows DEF BeginJob, bounds
<1>7. OfNow(j)' /\ Handed(j)'  BY <1>1, <1>5, <1>6, JobOf DEF OfNow, Handed
<1> HIDE DEF w
<1> QED BY <1>3, <1>4, <1>6, <1>7, OneJob

LEMMA ArchiveInv ==
  ASSUME NixInv, NEW j \in Job, Archive(j)
  PROVE  NixInv'
<1> DEFINE v == IF JobKind[j] \in {"rebuild", "apply"} /\ j \notin remotely /\ inStore THEN 0 ELSE flake
           to == IF j \in remotely THEN "copy" ELSE "lookup"
           w == [work[j] EXCEPT !.v = v, !.at = to]
<1>1. /\ v \in Nat /\ v <= flake /\ to \in {"copy", "lookup"} /\ (to = "copy" => j \in remotely)
      /\ v = flake \/ (inStore /\ JobKind[j] \in {"rebuild", "apply"} /\ v = 0)
  BY JobOf
<1>2. work' = [work EXCEPT ![j].v = v, ![j].at = to] /\ Gets(Here, FlakeSource(v))  BY DEF Archive
<1>3. FlakeSource(v) \in StorePath  BY <1>1 DEF FlakeSource, StorePath
<1> HIDE DEF to, v
<1>4. w \in JobRec  BY <1>1, JobOf DEF JobRec
<1>5. work' = [work EXCEPT ![j] = w]  BY <1>2, JobOf DEF JobRec
<1>6. work'[j].at = to /\ work'[j].v = v /\ work'[j].begun = work[j].begun /\ work'[j].gcs = work[j].gcs
  BY <1>5, JobOf DEF JobRec
<1>7. UNCHANGED <<hostEnv, flake, nodes, gcs, reboots>>
  BY DEF Archive, bounds
<1>8. remotely' = remotely /\ inStore' = inStore  BY <1>7 DEF remotely, hostEnv
<1>9. OfNow(j)' /\ Handed(j)'
  BY <1>1, <1>6, <1>7, <1>8, JobOf DEF OfNow, Handed
<1>10. StoreGrows  BY <1>2, <1>3, JobOf, GetsGrows
<1> HIDE DEF w
<1> QED BY <1>4, <1>5, <1>7, <1>9, <1>10, OneJob

LEMMA LookupInv ==
  ASSUME NixInv, NEW j \in Job, Lookup(j)
  PROVE  NixInv'
<1>1. /\ work[j].at = "lookup" /\ StoreGrows /\ UNCHANGED <<hostEnv, flake, nodes, gcs, reboots>>
      /\ UNCHANGED store
  BY SameStoreGrows DEF Lookup, bounds
<1>2. \/ Built(j) /\ Holds(Here, Out(work[j].v))
      \/ JobGoes(j, "build")
  BY DEF Lookup
<1>3. CASE Built(j) /\ Holds(Here, Out(work[j].v))  BY <1>1, <1>3, BuiltInv DEF Holds
<1>4. CASE JobGoes(j, "build")  BY <1>1, <1>4, JobGoesInv
<1> QED BY <1>2, <1>3, <1>4

LEMMA BuildHereInv ==
  ASSUME NixInv, NEW j \in Job, BuildHere(j)
  PROVE  NixInv'
<1>1. work[j].at = "build" /\ Built(j) /\ UNCHANGED <<hostEnv, flake, nodes, gcs, reboots>>
        /\ Gets(Here, Out(work[j].v))
  BY DEF BuildHere, bounds
<1>2. StoreGrows /\ Out(work[j].v) \in store'[Here]  BY <1>1, JobOf, GetsGrows
<1> QED BY <1>1, <1>2, BuiltInv

LEMMA CopyToInv ==
  ASSUME NixInv, NEW j \in Job, CopyTo(j)
  PROVE  NixInv'
<1>1. work[j].at = "copy" /\ JobGoes(j, "remote") /\ UNCHANGED <<hostEnv, flake, nodes, gcs, reboots>>
        /\ Gets(Builder, FlakeSource(work[j].v))
  BY DEF CopyTo, bounds
<1>2. StoreGrows  BY <1>1, JobOf, GetsGrows
<1>3. j \in remotely  BY <1>1, JobOf DEF OfNow
<1> QED BY <1>1, <1>2, <1>3, JobGoesInv

LEMMA BuildThereInv ==
  ASSUME NixInv, NEW j \in Job, BuildThere(j)
  PROVE  NixInv'
<1>1. /\ work[j].at = "remote" /\ UNCHANGED <<hostEnv, flake, nodes, gcs, reboots>>
      /\ Gets(Builder, Out(work[j].v))
  BY DEF BuildThere, bounds
<1>2. StoreGrows /\ Out(work[j].v) \in store'[Builder]  BY <1>1, JobOf, GetsGrows
<1>3. j \in remotely  BY <1>1, JobOf DEF OfNow
<1>4. CASE j \in CopyBack
  <2>1. JobGoes(j, "back")  BY <1>4 DEF BuildThere
  <2> QED BY <1>1, <1>2, <2>1, JobGoesInv
<1>5. CASE j \notin CopyBack
  <2>1. Built(j)  BY <1>5 DEF BuildThere
  <2> QED BY <1>1, <1>2, <1>3, <1>5, <2>1, BuiltInv
<1> QED BY <1>4, <1>5

LEMMA CopyFromInv ==
  ASSUME NixInv, NEW j \in Job, CopyFrom(j)
  PROVE  NixInv'
<1>1. /\ work[j].at = "back" /\ UNCHANGED <<hostEnv, flake, nodes, gcs, reboots>>
      /\ Gets(Here, Out(work[j].v))
  BY DEF CopyFrom, bounds
<1>2. StoreGrows /\ Out(work[j].v) \in store'[Here]  BY <1>1, JobOf, GetsGrows
<1>3. CASE JobKind[j] # "apply"
  <2>1. Built(j)  BY <1>3 DEF CopyFrom, Built
  <2> QED BY <1>1, <1>2, <2>1, BuiltInv
<1>4. CASE JobKind[j] = "apply"
  <2> DEFINE w == [work[j] EXCEPT !.at = "result", !.gcs = gcs]
  <2>1. w \in JobRec  BY JobOf DEF JobRec
  <2>2. work' = [work EXCEPT ![j] = w]  BY <1>4, JobOf DEF CopyFrom, JobRec
  <2>3. work'[j].at = "result" /\ work'[j].v = work[j].v /\ work'[j].begun = work[j].begun
          /\ work'[j].gcs = gcs
    BY <2>2, JobOf DEF JobRec
  <2>4. remotely' = remotely /\ inStore' = inStore  BY <1>1 DEF remotely, hostEnv
  <2>5. OfNow(j)'  BY <1>1, <1>4, <2>3, <2>4, JobOf DEF OfNow
  <2>6. Handed(j)'  BY <1>2, <2>3 DEF Handed, Holds
  <2> HIDE DEF w
  <2> QED BY <1>1, <1>2, <2>1, <2>2, <2>5, <2>6, OneJob
<1> QED BY <1>3, <1>4

LEMMA RebuildInv ==
  ASSUME NixInv, NEW j \in Job, Rebuild(j)
  PROVE  NixInv'
<1>1. work[j].at = "result" /\ UNCHANGED <<hostEnv, flake, nodes, gcs, reboots>>
  BY DEF Rebuild, bounds
<1>2. remotely' = remotely /\ inStore' = inStore  BY <1>1 DEF remotely, hostEnv
<1>3. CASE inStore
  <2> DEFINE w == [work[j] EXCEPT !.v = 0, !.at = "lookup"]
  <2>1. w \in JobRec  BY JobOf DEF JobRec
  <2>2. work' = [work EXCEPT ![j] = w]  BY <1>3, JobOf DEF Rebuild, JobRec
  <2>3. work'[j].at = "lookup" /\ work'[j].v = 0 /\ work'[j].begun = work[j].begun
          /\ work'[j].gcs = work[j].gcs
    BY <2>2, JobOf DEF JobRec
  <2>4. OfNow(j)' /\ Handed(j)'  BY <1>1, <1>2, <1>3, <2>3, JobOf DEF OfNow, Handed
  <2>5. StoreGrows  BY <1>3, JobOf, GetsGrows DEF Rebuild
  <2> HIDE DEF w
  <2> QED BY <1>1, <2>1, <2>2, <2>4, <2>5, OneJob
<1>4. CASE ~inStore
  <2> DEFINE w == [work[j] EXCEPT !.at = "built"]
  <2>1. JobGoes(j, "built") /\ UNCHANGED store  BY <1>4 DEF Rebuild
  <2>2. /\ w \in JobRec /\ work' = [work EXCEPT ![j] = w]
        /\ work'[j].at = "built" /\ work'[j].v = work[j].v /\ work'[j].begun = work[j].begun
        /\ work'[j].gcs = work[j].gcs
    BY <2>1, GoesTyped
  <2>3. OfNow(j)'  BY <1>1, <1>2, <2>2, JobOf DEF OfNow
  <2>4. Handed(j)'  BY <1>1, <2>1, <2>2, JobOf DEF Handed, Holds
  <2>5. StoreGrows  BY <2>1, SameStoreGrows
  <2> HIDE DEF w
  <2> QED BY <1>1, <2>2, <2>3, <2>4, <2>5, OneJob
<1> QED BY <1>3, <1>4

LEMMA UsesInv ==
  ASSUME NixInv, NEW j \in Job, Uses(j)
  PROVE  NixInv'
<1>1. \E at \in {"ok", "failed"} : JobGoes(j, at)  BY DEF Uses
<1>2. StoreGrows /\ UNCHANGED <<hostEnv, flake, nodes, gcs, reboots>>
  BY SameStoreGrows DEF Uses, bounds
<1> QED BY <1>1, <1>2, JobGoesInv

LEMMA JobFailsInv ==
  ASSUME NixInv, NEW j \in Job, JobFails(j)
  PROVE  NixInv'
<1>1. StoreGrows /\ UNCHANGED <<hostEnv, flake, nodes, gcs, reboots>> /\ JobGoes(j, "failed")
  BY SameStoreGrows DEF JobFails
<1> QED BY <1>1, JobGoesInv

\* What a node and its task are.
LEMMA NodeOf ==
  ASSUME NixInv, NEW n \in Node
  PROVE  /\ node[n] \in NodeRec /\ dep[n] \in DepRec /\ OfNode(n)
         /\ n \in DOMAIN node /\ n \in DOMAIN dep /\ n \in Machine /\ Here \in Machine
         /\ node = [node EXCEPT ![n] = node[n]]
         /\ flake \in Nat /\ reboots \in Nat /\ deploy.begun \in Nat /\ deploy.begun <= flake
         /\ deploy.action \in DeployAction
         /\ dep[n].v \in Nat /\ dep[n].seen \in Nat
         /\ node[n].running \in Nat /\ node[n].boot \in Nat
         /\ Top(n, dep[n].v) \in StorePath /\ Top(n, flake) \in StorePath
<1>1. /\ node[n] \in NodeRec /\ dep[n] \in DepRec /\ OfNode(n)
      /\ n \in DOMAIN node /\ n \in DOMAIN dep
      /\ flake \in Nat /\ reboots \in Nat /\ deploy.begun \in Nat /\ deploy.begun <= flake
      /\ deploy.action \in DeployAction
      /\ node = [node EXCEPT ![n] = node[n]]
  BY DEF NixInv, NixTypes
<1>2. /\ dep[n].v \in Nat /\ dep[n].seen \in Nat
      /\ node[n].running \in Nat /\ node[n].boot \in Nat
  BY <1>1 DEF NodeRec, DepRec
<1> QED BY <1>1, <1>2 DEF Machine, Top, StorePath

LEMMA DeployInv ==
  ASSUME NixInv, NEW a \in {"auto", "switch", "boot"}, Deploy(a)
  PROVE  NixInv'
<1>1. deploy' = [at |-> "running", action |-> a, begun |-> flake] /\ deploy.at = "none"
  BY DEF Deploy
<1>2. \A n \in Node : dep'[n] = [dep[n] EXCEPT !.at = "build"]
  BY DEF Deploy
<1>3. ASSUME NEW n \in Node
      PROVE  /\ dep'[n] \in DepRec
             /\ dep'[n].at = "build" /\ dep'[n].v = dep[n].v /\ dep'[n].seen = dep[n].seen
  BY <1>2, NodeOf DEF DepRec
<1>4. dep' \in [Node -> DepRec]
  <2>1. dep' = [n \in Node |-> dep'[n]]  BY DEF Deploy
  <2> QED BY <2>1, <1>3
<1>5. deploy' \in [at : {"none", "absent", "running", "told", "failed"}, action : DeployAction, begun : Nat]
  BY <1>1 DEF NixInv, NixTypes, DeployAction
<1>6. UNCHANGED <<jobs, store, node, gcs, reboots>>  BY DEF Deploy, bounds
<1>7. NixTypes'  BY <1>4, <1>5, <1>6 DEF NixInv, NixTypes, jobs
<1>8. ASSUME NEW n \in Node PROVE OfNode(n)'
  <2>1. node'[n] = node[n] /\ store'[n] = store[n] /\ ~node[n].live
    BY <1>1, <1>6, NodeOf DEF OfNode
  <2> QED BY <1>1, <1>3, <1>6, <2>1, NodeOf DEF OfNode
<1>9. ASSUME NEW j \in Job PROVE OfNow(j)' /\ Handed(j)'
  <2>1. flake' \in Nat /\ flake' >= flake /\ gcs' \in Nat /\ gcs' >= gcs
    BY <1>6 DEF NixInv, NixTypes, jobs
  <2> QED BY <1>6, <2>1, JobStays DEF jobs
<1>10. deploy'.begun <= flake'  BY <1>1, <1>6 DEF jobs, NixInv, NixTypes
<1> QED BY <1>7, <1>8, <1>9, <1>10 DEF NixInv

LEMMA BuildNodeInv ==
  ASSUME NixInv, NEW n \in Node, BuildNode(n)
  PROVE  NixInv'
<1> DEFINE d == [dep[n] EXCEPT !.at = "copy", !.v = flake]
<1>1. d \in DepRec /\ d.at = "copy" /\ d.v = flake /\ d.seen = dep[n].seen  BY NodeOf DEF DepRec
<1>2. dep' = [dep EXCEPT ![n] = d]  BY NodeOf DEF BuildNode, DepRec
<1> HIDE DEF d
<1>3. dep'[n] = d /\ dep[n].at = "build"  BY <1>2, NodeOf DEF BuildNode
<1>4. UNCHANGED <<jobs, deploy, gcs, reboots>> /\ node' = node  BY DEF BuildNode, bounds
<1>5. StoreGrows  BY NodeOf, GetsGrows DEF BuildNode
<1>6. OfNode(n)'  BY <1>1, <1>3, <1>4, <1>5, NodeOf DEF OfNode, StoreGrows
<1> QED BY <1>1, <1>2, <1>4, <1>5, <1>6, NodeOf, OneNode

LEMMA CopyClosureInv ==
  ASSUME NixInv, NEW n \in Node, CopyClosure(n)
  PROVE  NixInv'
<1> DEFINE to == IF deploy.action = "auto" THEN "detect" ELSE "check"
           d == [dep[n] EXCEPT !.at = to, !.action = deploy.action]
<1>1. to \in {"detect", "check"} /\ (to = "check" => deploy.action # "auto")  OBVIOUS
<1>2. dep' = [dep EXCEPT ![n].at = to, ![n].action = deploy.action]  BY DEF CopyClosure
<1> HIDE DEF to
<1>3. d \in DepRec /\ d.at = to /\ d.v = dep[n].v /\ d.seen = dep[n].seen  BY <1>1, NodeOf DEF DepRec
<1>4. dep' = [dep EXCEPT ![n] = d]  BY <1>2, NodeOf DEF DepRec
<1> HIDE DEF d
<1>5. dep'[n] = d /\ dep[n].at = "copy"  BY <1>4, NodeOf DEF CopyClosure
<1>6. UNCHANGED <<jobs, deploy, gcs, reboots>> /\ node' = node  BY DEF CopyClosure, bounds
<1>7. StoreGrows  BY NodeOf, GetsGrows DEF CopyClosure
<1>8. OfNode(n)'  BY <1>1, <1>3, <1>5, <1>6, <1>7, NodeOf DEF OfNode, StoreGrows
<1> QED BY <1>3, <1>4, <1>6, <1>7, <1>8, NodeOf, OneNode

LEMMA DetectNodeInv ==
  ASSUME NixInv, NEW n \in Node, Detect(n)
  PROVE  NixInv'
<1>1. PICK a \in {"boot"} \cup IF Nixpkgs[dep[n].v] = Nixpkgs[node[n].running] THEN {"switch"} ELSE {} :
        dep' = [dep EXCEPT ![n].at = "check", ![n].action = a, ![n].seen = reboots]
  BY DEF Detect
<1>2. a \in {"boot", "switch"} /\ (a # "boot" => Nixpkgs[dep[n].v] = Nixpkgs[node[n].running])
  OBVIOUS
<1> DEFINE d == [dep[n] EXCEPT !.at = "check", !.action = a, !.seen = reboots]
<1>3. d \in DepRec /\ d.at = "check" /\ d.v = dep[n].v /\ d.seen = reboots /\ d.action = a
  BY <1>2, NodeOf DEF DepRec, DeployAction
<1>4. dep' = [dep EXCEPT ![n] = d]  BY <1>1, NodeOf DEF DepRec
<1> HIDE DEF d
<1>5. dep'[n] = d /\ dep[n].at = "detect"  BY <1>4, NodeOf DEF Detect
<1>6. UNCHANGED <<jobs, deploy, gcs, reboots>> /\ node' = node /\ store' = store  BY DEF Detect, bounds
<1>7. OfNode(n)'  BY <1>2, <1>3, <1>5, <1>6, NodeOf DEF OfNode
<1> QED BY <1>3, <1>4, <1>6, <1>7, NodeOf, SameStoreGrows, OneNode

\* A task that only goes to another place.
LEMMA StepsTyped ==
  ASSUME NixInv, NEW n \in Node,
         NEW at \in {"idle", "build", "copy", "detect", "check", "switch", "ok", "failed"},
         NodeSteps(n, at)
  PROVE  LET d == [dep[n] EXCEPT !.at = at] IN
           /\ d \in DepRec /\ dep' = [dep EXCEPT ![n] = d]
           /\ dep'[n].at = at /\ dep'[n].v = dep[n].v /\ dep'[n].seen = dep[n].seen
           /\ dep'[n].action = dep[n].action
BY NodeOf DEF NodeSteps, DepRec

\* An unchanged node whose task goes on to the switch, is done or fails.
LEMMA StepsInv ==
  ASSUME NixInv, NEW n \in Node, NEW at \in {"switch", "ok", "failed"}, NodeSteps(n, at),
         UNCHANGED <<jobs, store, node, deploy, gcs, reboots>>,
         dep[n].at \notin {"idle", "ok", "failed"},
         at # "failed" => dep[n].at = "check",
         at = "ok" => node[n].running = dep[n].v
  PROVE  NixInv'
<1> DEFINE d == [dep[n] EXCEPT !.at = at]
<1>1. /\ d \in DepRec /\ dep' = [dep EXCEPT ![n] = d]
      /\ dep'[n].at = at /\ dep'[n].v = dep[n].v /\ dep'[n].seen = dep[n].seen
      /\ dep'[n].action = dep[n].action
  BY StepsTyped
<1> HIDE DEF d
<1>2. OfNode(n)'
  <2>1. ~node[n].live /\ deploy.at \notin {"none", "absent", "told"}  BY NodeOf DEF OfNode
  <2> QED BY <1>1, <2>1, NodeOf DEF OfNode
<1> QED BY <1>1, <1>2, NodeOf, SameStoreGrows, OneNode

LEMMA CheckNodeInv ==
  ASSUME NixInv, NEW n \in Node, Check(n) \/ CheckFails(n)
  PROVE  NixInv'
<1>1. /\ dep[n].at = "check" /\ UNCHANGED <<jobs, store, node, deploy, gcs, reboots>>
      /\ NodeSteps(n, "switch") \/ (NodeSteps(n, "ok") /\ node[n].running = dep[n].v)
  BY DEF Check, CheckFails, bounds
<1>2. CASE NodeSteps(n, "switch")  BY <1>1, <1>2, StepsInv
<1>3. CASE NodeSteps(n, "ok") /\ node[n].running = dep[n].v  BY <1>1, <1>3, StepsInv
<1> QED BY <1>1, <1>2, <1>3

\* A switch, and what a killed one may have done.
LEMMA SwitchesInv ==
  ASSUME NixInv, NEW n \in Node, dep[n].at = "switch", Holds(n, Top(n, dep[n].v)),
         node' = [node EXCEPT ![n] = Switched(n)],
         NEW at \in {"ok", "failed"}, NodeSteps(n, at),
         UNCHANGED <<jobs, store, deploy, gcs, reboots>>
  PROVE  NixInv'
<1> DEFINE d == [dep[n] EXCEPT !.at = at]
<1>1. /\ d \in DepRec /\ dep' = [dep EXCEPT ![n] = d]
      /\ dep'[n].at = at /\ dep'[n].v = dep[n].v /\ dep'[n].seen = dep[n].seen
      /\ dep'[n].action = dep[n].action
  BY StepsTyped
<1> HIDE DEF d
<1>2. /\ Switched(n) \in NodeRec /\ Switched(n).boot = dep[n].v /\ Switched(n).from = node[n].running
      /\ Switched(n).live = (dep[n].action # "boot")
      /\ Switched(n).running = IF dep[n].action = "boot" THEN node[n].running ELSE dep[n].v
  BY NodeOf DEF Switched, NodeRec
<1>3. node'[n] = Switched(n)  BY NodeOf
<1>4. OfNode(n)'
  <2>1. deploy.at \notin {"none", "absent", "told"} /\ Top(n, dep[n].v) \in store[n]
    BY NodeOf DEF OfNode, Holds
  <2>2. {Top(n, node'[n].running), Top(n, node'[n].boot)} \subseteq store'[n]
    BY <1>2, <1>3, <2>1, NodeOf DEF OfNode
  <2>3. node'[n].live /\ deploy'.action = "auto" /\ dep'[n].seen = reboots' =>
          Nixpkgs[node'[n].from] = Nixpkgs[node'[n].running]
    BY ZenonT(30), <1>1, <1>2, <1>3, NodeOf DEF OfNode
  <2>4. dep'[n].v = node'[n].boot /\ dep'[n].v >= deploy'.begun  BY <1>1, <1>2, <1>3, NodeOf DEF OfNode
  <2>5. dep'[n].seen <= reboots'  BY <1>1, NodeOf DEF OfNode
  <2> QED BY <1>1, <2>1, <2>2, <2>3, <2>4, <2>5 DEF OfNode
<1> QED BY <1>1, <1>2, <1>4, SameStoreGrows, OneNode

LEMMA SwitchInv ==
  ASSUME NixInv, NEW n \in Node, Switch(n)
  PROVE  NixInv'
<1>1. UNCHANGED <<jobs, store, deploy, gcs, reboots>>  BY DEF Switch, bounds
<1> QED BY <1>1, SwitchesInv DEF Switch

LEMMA FailsNodeInv ==
  ASSUME NixInv, NEW n \in Node, FailsNode(n)
  PROVE  NixInv'
<1>1. UNCHANGED <<jobs, store, deploy, gcs, reboots>> /\ NodeSteps(n, "failed")
        /\ dep[n].at \notin {"idle", "ok", "failed"}
  BY DEF FailsNode
<1>2. CASE node' = node  BY <1>1, <1>2, StepsInv
<1>3. CASE dep[n].at = "switch" /\ Holds(n, Top(n, dep[n].v)) /\ node' = [node EXCEPT ![n] = Switched(n)]
  BY <1>1, <1>3, SwitchesInv
<1> QED BY <1>2, <1>3 DEF FailsNode

LEMMA DeployEndsInv ==
  ASSUME NixInv, DeployEnds
  PROVE  NixInv'
<1> DEFINE to == IF \A n \in Node : dep[n].at = "ok" THEN "told" ELSE "failed"
<1>1. deploy' = [deploy EXCEPT !.at = to] /\ to \in {"told", "failed"}
        /\ (to = "told" => \A n \in Node : dep[n].at = "ok")
  BY DEF DeployEnds
<1> HIDE DEF to
<1>2. /\ deploy' \in [at : {"none", "absent", "running", "told", "failed"}, action : DeployAction, begun : Nat]
      /\ deploy'.at = to /\ deploy'.action = deploy.action /\ deploy'.begun = deploy.begun
  BY <1>1 DEF NixInv, NixTypes
<1>3. UNCHANGED <<jobs, store, node, dep, gcs, reboots>>  BY DEF DeployEnds, bounds
<1>4. NixTypes'  BY <1>2, <1>3 DEF NixInv, NixTypes, jobs
<1>5. ASSUME NEW n \in Node PROVE OfNode(n)'
  BY <1>1, <1>2, <1>3, NodeOf DEF OfNode
<1>6. ASSUME NEW j \in Job PROVE OfNow(j)' /\ Handed(j)'
  <2>1. flake' \in Nat /\ flake' >= flake /\ gcs' \in Nat /\ gcs' >= gcs
    BY <1>3 DEF NixInv, NixTypes, jobs
  <2> QED BY <1>3, <2>1, JobStays DEF jobs
<1> QED BY <1>2, <1>3, <1>4, <1>5, <1>6 DEF NixInv, jobs

LEMMA EditFlakeInv ==
  ASSUME NixInv, EditFlake
  PROVE  NixInv'
<1>1. flake \in Nat /\ flake' = flake + 1 /\ UNCHANGED <<hostEnv, store, work, node, dep, deploy, gcs, reboots>>
  BY DEF EditFlake, NixInv, NixTypes, nodes, bounds
<1>2. NixTypes'  BY <1>1 DEF NixInv, NixTypes
<1>3. ASSUME NEW n \in Node PROVE OfNode(n)'  BY <1>1, NodeOf DEF OfNode
<1>4. ASSUME NEW j \in Job PROVE OfNow(j)' /\ Handed(j)'
  <2>1. flake' \in Nat /\ flake' >= flake /\ gcs' \in Nat /\ gcs' >= gcs
    BY <1>1 DEF NixInv, NixTypes
  <2> QED BY <1>1, <2>1, JobStays
<1>5. deploy'.begun <= flake'  BY <1>1 DEF NixInv, NixTypes
<1> QED BY <1>2, <1>3, <1>4, <1>5 DEF NixInv

LEMMA CollectInv ==
  ASSUME NixInv, NEW m \in Machine, Collect(m)
  PROVE  NixInv'
<1>1. /\ gcs \in Nat /\ gcs' = gcs + 1 /\ store' = [store EXCEPT ![m] = @ \cap Kept(m)]
      /\ UNCHANGED <<jobs, node, dep, deploy, reboots>>
  BY DEF Collect, NixInv, NixTypes, nodes
<1>2. store' \in [Machine -> SUBSET StorePath] /\ \A k \in Machine : k # m => store'[k] = store[k]
  BY <1>1 DEF NixInv, NixTypes
<1>3. NixTypes'  BY <1>1, <1>2 DEF NixInv, NixTypes, jobs
<1>4. ASSUME NEW n \in Node PROVE OfNode(n)'
  <2>1. n \in Machine  BY DEF Machine
  <2>2. store[n] \cap {Top(n, node[n].running), Top(n, node[n].boot)} \subseteq store'[n]
    <3>1. CASE n = m
      <4>1. Kept(m) = {Top(n, node[n].running), Top(n, node[n].boot)}  BY <3>1 DEF Kept
      <4>2. store'[n] = store[n] \cap Kept(m)  BY <1>1, <2>1, <3>1 DEF NixInv, NixTypes
      <4> QED BY <4>1, <4>2
    <3>2. CASE n # m  BY <3>2, <1>2, <2>1
    <3> QED BY <3>1, <3>2
  <2> QED BY <1>1, <2>2, NodeStays
<1>5. ASSUME NEW j \in Job PROVE OfNow(j)' /\ Handed(j)'
  <2>1. flake' \in Nat /\ flake' >= flake /\ gcs' \in Nat /\ gcs' >= gcs /\ gcs' # gcs
    BY <1>1 DEF NixInv, NixTypes, jobs
  <2> QED BY <1>1, <2>1, JobStays DEF jobs
<1>6. deploy'.begun <= flake'  BY <1>1 DEF NixInv, jobs
<1> QED BY <1>3, <1>4, <1>5, <1>6 DEF NixInv

LEMMA RebootInv ==
  ASSUME NixInv, NEW n \in Node, Reboot(n)
  PROVE  NixInv'
<1> DEFINE x == [node[n] EXCEPT !.running = node[n].boot, !.live = FALSE]
<1>1. x \in NodeRec /\ x.running = node[n].boot /\ x.boot = node[n].boot /\ ~x.live
  BY NodeOf DEF NodeRec
<1>2. node' = [node EXCEPT ![n] = x]  BY NodeOf DEF Reboot, NodeRec
<1> HIDE DEF x
<1>3. node'[n] = x /\ \A k \in Node : k # n => node'[k] = node[k]  BY <1>2, NodeOf DEF NixInv, NixTypes
<1>4. reboots \in Nat /\ reboots' = reboots + 1 /\ UNCHANGED <<jobs, store, dep, deploy, gcs>>
  BY NodeOf DEF Reboot
<1>5. NixTypes'  BY <1>1, <1>2, <1>4 DEF NixInv, NixTypes, jobs
<1>6. ASSUME NEW k \in Node PROVE OfNode(k)'
  <2>1. OfNode(k) /\ dep[k].seen \in Nat  BY NodeOf
  <2>2. dep'[k].seen < reboots' /\ reboots' > 0  BY <1>4, <2>1 DEF OfNode
  <2>3. dep'[k].seen # reboots' /\ dep'[k].seen <= reboots'  BY <1>4, <2>1, <2>2
  <2>4. {Top(k, node'[k].running), Top(k, node'[k].boot)} \subseteq store'[k]
    BY <1>1, <1>3, <1>4, <2>1 DEF OfNode
  <2>5. node'[k].live => dep'[k].at \in {"ok", "failed"}  BY <1>1, <1>3, <1>4, <2>1 DEF OfNode
  <2> QED BY <1>4, <2>1, <2>2, <2>3, <2>4, <2>5 DEF OfNode
<1>7. ASSUME NEW j \in Job PROVE OfNow(j)' /\ Handed(j)'
  <2>1. flake' \in Nat /\ flake' >= flake /\ gcs' \in Nat /\ gcs' >= gcs
    BY <1>4 DEF NixInv, NixTypes, jobs
  <2> QED BY <1>4, <2>1, JobStays DEF jobs
<1>8. deploy'.begun <= flake'  BY <1>4 DEF NixInv, jobs
<1> QED BY <1>5, <1>6, <1>7, <1>8 DEF NixInv

LEMMA NixStep ==
  ASSUME NixInv, [NixNext]_nixVars
  PROVE  NixInv'
<1>1. ASSUME NEW j \in Job,
             \/ BeginJob(j) \/ Archive(j) \/ Lookup(j) \/ BuildHere(j) \/ CopyTo(j) \/ BuildThere(j)
             \/ CopyFrom(j) \/ Rebuild(j) \/ Uses(j) \/ JobFails(j)
      PROVE  NixInv'
  BY <1>1, BeginJobInv, ArchiveInv, LookupInv, BuildHereInv, CopyToInv, BuildThereInv, CopyFromInv,
     RebuildInv, UsesInv, JobFailsInv
<1>2. ASSUME NEW a \in {"auto", "switch", "boot"}, Deploy(a) PROVE NixInv'  BY <1>2, DeployInv
<1>3. ASSUME NEW n \in Node,
             \/ BuildNode(n) \/ CopyClosure(n) \/ Detect(n) \/ Check(n) \/ CheckFails(n)
             \/ Switch(n) \/ FailsNode(n) \/ Reboot(n)
      PROVE  NixInv'
  BY <1>3, BuildNodeInv, CopyClosureInv, DetectNodeInv, CheckNodeInv, SwitchInv, FailsNodeInv, RebootInv
<1>4. CASE DeployEnds \/ EditFlake  BY <1>4, DeployEndsInv, EditFlakeInv
<1>5. ASSUME NEW m \in Machine, Collect(m) PROVE NixInv'  BY <1>5, CollectInv
<1>6. CASE UNCHANGED nixVars
  <2>1. UNCHANGED <<hostEnv, flake, store, work, node, dep, deploy, gcs, reboots>>
    BY <1>6 DEF nixVars, hostEnv
  <2>2. \A j \in Job : OfNow(j)' /\ Handed(j)'
    <3>1. flake' \in Nat /\ flake' >= flake /\ gcs' \in Nat /\ gcs' >= gcs
      BY <2>1 DEF NixInv, NixTypes
    <3> QED BY <2>1, <3>1, JobStays
  <2> QED BY <2>1, <2>2 DEF NixInv, NixTypes, OfNode
<1> QED BY <1>1, <1>2, <1>3, <1>4, <1>5, <1>6 DEF NixNext

\* A build is of the flake as it was during the call, whichever cache it comes
\* from, and the path that is handed out exists; what a node runs or boots is
\* whole; and when the deploy is told done, each node runs or boots a revision no
\* older than the command, none switched live to another nixpkgs unasked; for any
\* jobs, nodes and revisions, through edits, collections, reboots and failures.
THEOREM BuildsStayCurrent == NixSpec => []BuildsAreCurrent
<1>1. NixInit => NixInv  BY NixInitInv
<1>2. NixInv /\ [NixNext]_nixVars => NixInv'  BY NixStep
<1>3. NixInv => BuildsAreCurrent
  <2> SUFFICES ASSUME NixInv PROVE BuildsAreCurrent OBVIOUS
  <2>1. ASSUME NEW j \in Job, work[j].at = "built"
        PROVE  /\ work[j].v >= work[j].begun \/ (inStore /\ JobKind[j] \in {"rebuild", "apply"} /\ work[j].v = 0)
               /\ work[j].v <= flake
               /\ work[j].gcs = gcs => \E m \in {Here, Builder} :
                                        Holds(m, Out(work[j].v)) /\ (m = Builder => j \in remotely \ CopyBack)
    BY <2>1, JobOf, NixAssumption DEF OfNow, Handed
  <2>2. ASSUME NEW n \in Node
        PROVE  /\ {Top(n, node[n].running), Top(n, node[n].boot)} \subseteq store[n]
               /\ deploy.at = "told" =>
                    dep[n].v >= deploy.begun /\ (dep[n].v \in {node[n].running, node[n].boot} \/ reboots > 0)
               /\ node[n].live /\ deploy.action = "auto" /\ dep[n].seen = reboots =>
                    Nixpkgs[node[n].from] = Nixpkgs[node[n].running]
    BY NodeOf DEF OfNode
  <2> QED BY <2>1, <2>2 DEF BuildsAreCurrent
<1> QED BY <1>1, <1>2, <1>3, PTL DEF NixSpec

-----------------------------------------------------------------------------
(* codebase lint and format.                                               *)


Scheduled == \E t \in Checker : item[t] # "none"

\* What is known of an item that is done.
Accounted(t) ==
  \/ run[t] = "refused"
  \/ /\ mode = "lint"
     /\ t \in told \/ printed[t][1] \in {"clean", "nothing"} \/ run[t] = "findings"
  \/ mode = "format" /\ (run[t] = "failure" \/ ~printed[t][2])

Over ==
  /\ next = Len(Tools) + 1 /\ \A t \in Passed : item[t] = "done"
  /\ ending = "ok" => \A t \in Passed : /\ run[t] \notin {"refused", "failure"}
                                        /\ mode = "lint" /\ run[t] = "findings" => <<t, run[t]>> \in report

CheckInv ==
  /\ mode \in {"lint", "format"} /\ ending \in {"none", "ok", "failed"} /\ next \in Nat
  /\ item \in [Checker -> {"none", "waits", "runs", "done"}]
  /\ run = [t \in Checker |-> run[t]] /\ printed = [t \in Checker |-> printed[t]]
  /\ argv = [t \in Checker |-> argv[t]] /\ found = [t \in Checker |-> found[t]]
  /\ Scheduled => next = Len(Tools) + 1 /\ \A t \in Passed : item[t] # "none"
  /\ \A t \in Checker :
       /\ item[t] # "none" => t \in Passed
       /\ item[t] = "done" => Accounted(t)
       /\ run[t] = "refused" => ended
       /\ mode = "format" /\ item[t] \in {"runs", "done"} => \A u \in Passed : u < t => item[u] = "done"
       /\ item[t] = "runs" /\ Tools[t].args /\ found[t].glob # {} => argv[t] # {}
  /\ ending # "none" => Over

LEMMA CheckInitInv == ChecksInit => CheckInv
<1> SUFFICES ASSUME ChecksInit PROVE CheckInv OBVIOUS
<1>1. /\ item \in [Checker -> {"none", "waits", "runs", "done"}] /\ \A t \in Checker : item[t] = "none"
      /\ \A t \in Checker : run[t] = "nil"
  BY DEF ChecksInit
<1> QED BY <1>1 DEF ChecksInit, CheckInv, Scheduled

\* Once the command is over, nothing but a stutter is left.
LEMMA NothingAfter == ASSUME CheckInv, ending # "none" PROVE ~ChecksNext
<1> SUFFICES ASSUME ChecksNext PROVE FALSE OBVIOUS
<1>1. \A t \in Checker : item[t] \notin {"waits", "runs"}  BY DEF CheckInv, Over
<1> QED BY <1>1 DEF ChecksNext, DetectTool, Schedule, MapReturns, EditTree, Interrupt, BuildCmd, Refuse,
                    Exit, MayBegin

\* One item begins or is done.
LEMMA ItemGoes ==
  ASSUME CheckInv, NEW t \in Checker, item[t] \in {"waits", "runs"}, NEW to \in {"runs", "done"},
         item' = [item EXCEPT ![t] = to],
         UNCHANGED <<mode, next, found, ended, ending, report>>,
         NEW r, run' = [run EXCEPT ![t] = r], NEW a, argv' = [argv EXCEPT ![t] = a],
         NEW o, printed' = [printed EXCEPT ![t] = o], told \subseteq told',
         to = "done" => \/ r = "refused"
                        \/ mode = "lint" /\ (t \in told' \/ o[1] \in {"clean", "nothing"} \/ r = "findings")
                        \/ mode = "format" /\ (r = "failure" \/ ~o[2]),
         r = "refused" => ended,
         mode = "format" => \A u \in Passed : u < t => item[u] = "done",
         to = "runs" /\ Tools[t].args /\ found[t].glob # {} => a # {}
  PROVE  CheckInv'
<1>1. /\ item' \in [Checker -> {"none", "waits", "runs", "done"}] /\ item'[t] = to
      /\ run' = [u \in Checker |-> run'[u]] /\ run'[t] = r
      /\ argv' = [u \in Checker |-> argv'[u]] /\ argv'[t] = a
      /\ printed' = [u \in Checker |-> printed'[u]] /\ printed'[t] = o
      /\ \A u \in Checker : u # t => /\ item'[u] = item[u] /\ run'[u] = run[u]
                                     /\ argv'[u] = argv[u] /\ printed'[u] = printed[u]
  BY DEF CheckInv
<1>2. Passed' = Passed /\ Passed \subseteq Checker /\ t \in Passed  BY DEF Passed, CheckInv
<1>3. ending = "none"  BY <1>2 DEF CheckInv, Over
<1>4. Scheduled  BY DEF Scheduled
<1>5. Accounted(t)' <=> \/ r = "refused"
                        \/ mode = "lint" /\ (t \in told' \/ o[1] \in {"clean", "nothing"} \/ r = "findings")
                        \/ mode = "format" /\ (r = "failure" \/ ~o[2])
  BY <1>1 DEF Accounted
<1>6. \A u \in Checker : u # t /\ Accounted(u) => Accounted(u)'  BY <1>1 DEF Accounted
<1>7. ASSUME NEW u \in Checker
      PROVE  /\ item'[u] # "none" => u \in Passed'
             /\ item'[u] = "done" => Accounted(u)'
             /\ run'[u] = "refused" => ended'
             /\ mode' = "format" /\ item'[u] \in {"runs", "done"} =>
                  \A v \in Passed' : v < u => item'[v] = "done"
             /\ item'[u] = "runs" /\ Tools[u].args /\ found'[u].glob # {} => argv'[u] # {}
  <2>1. CASE u = t
    <3>1. \A v \in Passed : v < t => v # t  BY <1>2, ChecksAssumption DEF Checker
    <3> QED BY <1>1, <1>2, <1>5, <2>1, <3>1
  <2>2. CASE u # t
    <3>1. mode = "format" /\ item[u] \in {"runs", "done"} => ~(t < u)  BY <1>2 DEF CheckInv
    <3>2. mode = "format" /\ item[u] \in {"runs", "done"} => \A v \in Passed : v < u => item[v] = "done"
      BY DEF CheckInv
    <3> QED BY <1>1, <1>2, <1>6, <2>2, <3>1, <3>2 DEF CheckInv
  <2> QED BY <2>1, <2>2
<1>8. next = Len(Tools) + 1 /\ \A u \in Passed : item[u] # "none"  BY <1>4 DEF CheckInv
<1>9. next' = Len(Tools) + 1 /\ \A u \in Passed' : item'[u] # "none"  BY <1>1, <1>2, <1>8
<1> QED BY <1>1, <1>3, <1>7, <1>9 DEF CheckInv

\* What ItemFails does, as an instance of that.
LEMMA ItemFailsGoes ==
  ASSUME CheckInv, NEW t \in Checker, item[t] \in {"waits", "runs"}, ItemFails(t),
         UNCHANGED <<mode, next, found, ended, ending, report, argv>>,
         NEW o, printed' = [printed EXCEPT ![t] = o],
         mode = "format" => \A u \in Passed : u < t => item[u] = "done"
  PROVE  CheckInv'
<1> DEFINE r == IF mode = "lint" THEN "nil" ELSE "failure"
<1>1. /\ run' = [run EXCEPT ![t] = r] /\ told' = told \cup {t} /\ item' = [item EXCEPT ![t] = "done"]
      /\ argv' = [argv EXCEPT ![t] = argv[t]]
  BY DEF ItemFails, CheckInv
<1>2. \/ mode = "lint" /\ (t \in told' \/ o[1] \in {"clean", "nothing"} \/ r = "findings")
      \/ mode = "format" /\ (r = "failure" \/ ~o[2])
  BY <1>1 DEF CheckInv
<1>3. r # "refused" /\ told \subseteq told'  BY <1>1
<1> QED BY <1>1, <1>2, <1>3, ItemGoes

LEMMA BuildCmdInv == ASSUME CheckInv, NEW t \in Checker, BuildCmd(t) PROVE CheckInv'
<1> DEFINE named == Tools[t].args /\ found[t].glob # {}
           files == IF named THEN found[t].glob \cap tree ELSE {}
<1>1. /\ item[t] = "waits" /\ UNCHANGED <<mode, next, found, printed, ended, ending, report>>
      /\ mode = "format" => \A u \in Passed : u < t => item[u] = "done"
      /\ printed' = [printed EXCEPT ![t] = printed[t]]
  BY DEF BuildCmd, MayBegin, CheckInv
<1>2. CASE ItemFails(t) /\ UNCHANGED argv  BY <1>1, <1>2, ItemFailsGoes
<1>3. CASE /\ argv' = [argv EXCEPT ![t] = files] /\ item' = [item EXCEPT ![t] = "runs"]
           /\ UNCHANGED <<run, told>> /\ ~(named /\ files = {})
  <2>1. run' = [run EXCEPT ![t] = run[t]] /\ (run[t] = "refused" => ended)  BY <1>3 DEF CheckInv
  <2> QED BY ZenonT(30), <1>1, <1>3, <2>1, ItemGoes
<1> QED BY <1>2, <1>3 DEF BuildCmd

LEMMA RefuseInv == ASSUME CheckInv, NEW t \in Checker, Refuse(t) PROVE CheckInv'
<1>1. /\ item[t] = "waits" /\ UNCHANGED <<mode, next, found, ended, ending, report>>
      /\ mode = "format" => \A u \in Passed : u < t => item[u] = "done"
      /\ printed' = [printed EXCEPT ![t] = printed[t]] /\ argv' = [argv EXCEPT ![t] = argv[t]]
      /\ run' = [run EXCEPT ![t] = "refused"] /\ item' = [item EXCEPT ![t] = "done"]
      /\ told \subseteq told' /\ ended
  BY DEF Refuse, MayBegin, CheckInv
<1> QED BY <1>1, ItemGoes

\* What a codec takes for no finding is output without one.
LEMMA DecodeIs ==
  ASSUME NEW codec, NEW out
  PROVE  /\ Decode(codec, out) \in {"findings", "clean", "nil", "error"}
         /\ Decode(codec, out) \in {"clean", "nil"} => out \in {"clean", "nothing"}
BY DEF Decode

LEMMA ExitInv == ASSUME CheckInv, NEW t \in Checker, Exit(t) PROVE CheckInv'
<1>1. PICK out \in {"findings", "clean", "nothing", "junk", "cut"}, failed \in BOOLEAN :
        /\ printed' = [printed EXCEPT ![t] = <<out, failed>>]
        /\ LET result == IF mode = "lint" THEN LintResult(t, out, failed)
                         ELSE IF failed THEN "error" ELSE "nil"
           IN IF result = "error" THEN ItemFails(t)
              ELSE /\ run' = [run EXCEPT ![t] = result]
                   /\ item' = [item EXCEPT ![t] = "done"]
                   /\ UNCHANGED told
  BY DEF Exit
<1> DEFINE result == IF mode = "lint" THEN LintResult(t, out, failed)
                     ELSE IF failed THEN "error" ELSE "nil"
<1>2. /\ item[t] = "runs" /\ UNCHANGED <<mode, next, found, ended, ending, report, argv>>
      /\ argv' = [argv EXCEPT ![t] = argv[t]]
  BY DEF Exit, CheckInv
<1>3. mode = "format" => \A u \in Passed : u < t => item[u] = "done"  BY <1>2 DEF CheckInv
<1>4. CASE result = "error"  BY <1>1, <1>2, <1>3, <1>4, ItemFailsGoes
<1>5. CASE result # "error"
  <2>1. /\ run' = [run EXCEPT ![t] = result] /\ item' = [item EXCEPT ![t] = "done"] /\ told \subseteq told'
    BY <1>1, <1>5
  <2>2. /\ result # "refused"
        /\ \/ mode = "lint" /\ (out \in {"clean", "nothing"} \/ result = "findings")
           \/ mode = "format" /\ ~failed
    BY <1>5, DecodeIs DEF LintResult, CheckInv
  <2>3. \/ mode = "lint" /\ (<<out, failed>>[1] \in {"clean", "nothing"} \/ result = "findings")
        \/ mode = "format" /\ ~(<<out, failed>>[2])
    BY <2>2
  <2>4. printed' = [printed EXCEPT ![t] = <<out, failed>>]  BY <1>1
  <2> HIDE DEF result
  <2> QED BY ZenonT(30), <1>2, <1>3, <2>1, <2>2, <2>3, <2>4, ItemGoes
<1> QED BY <1>4, <1>5

LEMMA DetectToolInv == ASSUME CheckInv, DetectTool PROVE CheckInv'
<1>1. /\ ending = "none" /\ next \in Checker /\ next' = next + 1
      /\ UNCHANGED <<mode, item, argv, printed, run, ended, ending, report>>
      /\ found' = [t \in Checker |-> found'[t]]
  BY DEF DetectTool, CheckInv
<1>2. \A t \in Checker : item[t] = "none"
  BY <1>1, ChecksAssumption DEF CheckInv, Scheduled, Checker
<1> QED BY <1>1, <1>2 DEF CheckInv, Scheduled

LEMMA ScheduleInv == ASSUME CheckInv, Schedule PROVE CheckInv'
<1>1. /\ ending = "none" /\ next = Len(Tools) + 1 /\ \A t \in Checker : item[t] = "none"
      /\ UNCHANGED <<mode, next, found, argv, printed, run, ended>>
  BY DEF Schedule
<1>2. Passed' = Passed /\ Passed \subseteq Checker  BY <1>1 DEF Passed
<1>3. CASE Passed = {}
  <2>1. ending' = "ok" /\ item' = item  BY <1>3 DEF Schedule
  <2> QED BY <1>1, <1>2, <1>3, <2>1 DEF CheckInv, Scheduled, Over
<1>4. CASE Passed # {}
  <2>1. ending' = ending /\ item' = [t \in Checker |-> IF t \in Passed THEN "waits" ELSE "none"]
    BY <1>4 DEF Schedule
  <2>2. \A t \in Checker : item'[t] = IF t \in Passed THEN "waits" ELSE "none"  BY <2>1
  <2>3. item' \in [Checker -> {"none", "waits", "runs", "done"}]  BY <2>1
  <2> QED BY <1>1, <1>2, <2>1, <2>2, <2>3 DEF CheckInv
<1> QED BY <1>3, <1>4

LEMMA ReturnsInv == ASSUME CheckInv, MapReturns PROVE CheckInv'
<1>1. /\ ending = "none" /\ Passed # {} /\ \A t \in Passed : item[t] = "done"
      /\ UNCHANGED <<mode, next, found, item, argv, printed, run, told, ended>>
      /\ ending' \in {"ok", "failed"}
  BY DEF MapReturns
<1>2. Passed' = Passed /\ Passed \subseteq Checker  BY <1>1 DEF Passed
<1>3. next = Len(Tools) + 1
  <2>1. PICK t : t \in Passed  BY <1>1
  <2>2. item[t] = "done"  BY <1>1, <2>1
  <2> QED BY <1>2, <2>1, <2>2 DEF CheckInv, Scheduled
<1>4. ending' = "ok" =>
        \A t \in Passed : /\ run[t] \notin {"refused", "failure"}
                          /\ mode = "lint" /\ run[t] = "findings" => <<t, run[t]>> \in report'
  BY <1>2 DEF MapReturns, BundleRuns
<1>5. Over'  BY <1>1, <1>2, <1>3, <1>4 DEF Over
<1>6. \A t \in Checker : Accounted(t) => Accounted(t)'  BY <1>1 DEF Accounted
<1> QED BY <1>1, <1>2, <1>5, <1>6 DEF CheckInv, Scheduled

LEMMA CheckStep == ASSUME CheckInv, [ChecksNext]_checksVars PROVE CheckInv'
<1>1. CASE ChecksNext /\ (EditTree \/ Interrupt)
  <2>1. /\ UNCHANGED <<mode, next, found, item, argv, printed, run, told, ending, report>>
        /\ ended => ended'
    BY <1>1 DEF EditTree, Interrupt
  <2>2. Passed' = Passed /\ Over' = Over /\ \A t \in Checker : Accounted(t) => Accounted(t)'
    BY <2>1 DEF Passed, Over, Accounted
  <2> QED BY <2>1, <2>2 DEF CheckInv, Scheduled
<1>2. CASE UNCHANGED checksVars
  <2>1. UNCHANGED <<mode, next, found, item, argv, printed, run, told, ending, report, ended>>
    BY <1>2 DEF checksVars
  <2>2. Passed' = Passed /\ Over' = Over /\ \A t \in Checker : Accounted(t) => Accounted(t)'
    BY <2>1 DEF Passed, Over, Accounted
  <2> QED BY <2>1, <2>2 DEF CheckInv, Scheduled
<1> QED BY <1>1, <1>2, DetectToolInv, ScheduleInv, ReturnsInv, BuildCmdInv, RefuseInv, ExitInv DEF ChecksNext

\* Silence is good news, for any tools, rules, edits of the tree, failures and
\* an interrupt: a lint that is over without an error has each linter's run in
\* the report, or it found nothing, or the log names it; a format that is over
\* without an error has run each formatter to a good end, one at a time; and no
\* tool that is to be given files runs without one.
THEOREM SilenceIsGood == ChecksSpec => []SilenceIsGoodNews
<1>1. ChecksInit => CheckInv  BY CheckInitInv
<1>2. CheckInv /\ [ChecksNext]_checksVars => CheckInv'  BY CheckStep
<1>3. CheckInv => SilenceIsGoodNews
  <2> SUFFICES ASSUME CheckInv PROVE SilenceIsGoodNews OBVIOUS
  <2>1. Passed \subseteq Checker  BY DEF Passed
  <2>2. ASSUME ending = "ok", NEW t \in Passed
        PROVE  IF mode = "format" THEN item[t] = "done" /\ ~printed[t][2]
               ELSE t \in told \/ printed[t][1] \in {"clean", "nothing"} \/ <<t, "findings">> \in report
    <3>1. /\ item[t] = "done" /\ Accounted(t) /\ run[t] \notin {"refused", "failure"}
          /\ mode = "lint" /\ run[t] = "findings" => <<t, run[t]>> \in report
      BY <2>1, <2>2 DEF CheckInv, Over
    <3> QED BY <3>1 DEF Accounted
  <2>3. ASSUME mode = "format", NEW t \in Passed, NEW u \in Passed, item[t] = "runs", item[u] = "runs"
        PROVE  t = u
    <3>1. ~(t < u) /\ ~(u < t)  BY <2>1, <2>3 DEF CheckInv
    <3>2. t \in Int /\ u \in Int  BY <2>1, ChecksAssumption DEF Checker
    <3> QED BY <3>1, <3>2
  <2>4. ASSUME ending # "none", ~ended, NEW t \in Passed PROVE item[t] = "done" /\ run[t] # "refused"
    BY <2>1, <2>4 DEF CheckInv, Over
  <2>5. \A t \in Passed : item[t] = "runs" /\ Tools[t].args /\ found[t].glob # {} => argv[t] # {}
    BY <2>1 DEF CheckInv
  <2> QED BY <2>2, <2>3, <2>4, <2>5 DEF SilenceIsGoodNews
<1> QED BY <1>1, <1>2, <1>3, PTL DEF ChecksSpec

-----------------------------------------------------------------------------
(* The shell history.                                                      *)


TimesIn(q, who) == Cardinality({i \in DOMAIN q : q[i].who = who})

\* A recorder's event is its own, and its row is there when it is kept.
Recording(r) ==
  /\ recording[r].at \in {"run", "sent", "own"} =>
       /\ recording[r].event.cmd \in Command /\ recording[r].event.time \in Int
       /\ recording[r].event.who = r /\ recording[r].event.cwd \in {"cwd", Unset}
       /\ recording[r].event = Event(recording[r].event.cmd, recording[r].event.cwd,
                                     recording[r].event.time, recording[r].event.who)
  /\ recording[r].at \in {"sent", "own"} => recording[r].event.cwd = "cwd"
  /\ TimesIn(rows, r) = IF recording[r].at = "kept" THEN 1 ELSE 0

\* Every row of a source is there as often as the others: once for each ingest
\* that ended well.
Taking(s, n) ==
  /\ n <= ingests /\ (ingest.at = "insert" => n < ingests)
  /\ \A k \in DOMAIN Taken(s) : TimesIn(rows, <<s, k>>) = n
  /\ ingest.source = s /\ ingest.at = "ok" => n > 0

Ingesting ==
  /\ ingest = [at |-> ingest.at, source |-> ingest.source, events |-> ingest.events, done |-> ingest.done]
  /\ ingests \in Nat
  /\ ingest.at = "insert" => /\ ingest.source \in DOMAIN Old /\ Parsed(ingest.source) # Unset
                             /\ ingest.events = Parsed(ingest.source)
  /\ \A s \in DOMAIN Old : \E n \in Nat : Taking(s, n)

Finding ==
  /\ finder = [at |-> finder.at, shown |-> finder.shown, chosen |-> finder.chosen, seen |-> finder.seen]
  /\ finder.seen \in 0..Len(rows) /\ \A i \in DOMAIN finder.shown : finder.shown[i] \in DOMAIN rows
  /\ \A i \in DOMAIN finder.shown : \A x \in 1..finder.seen :
       x \notin {finder.shown[j] : j \in 1..i} => rows[finder.shown[i]].time >= rows[x].time
  /\ finder.at \in {"chosen", "done"} =>
       \E i \in DOMAIN finder.shown : finder.chosen = rows[finder.shown[i]].cmd
  /\ finder.at # "done" => output = Unset
  /\ finder.at = "done" => output = Trimmed[finder.chosen]

HistInv ==
  /\ rows \in Seq(RowSet) /\ clock \in Nat /\ last \in Command \cup {Unset}
  /\ \A i \in DOMAIN rows : rows[i].who \notin Recorder =>
       rows[i].time = Taken(rows[i].who[1])[rows[i].who[2]]
  /\ recording = [r \in Recorder |-> recording[r]]
  /\ \A r \in Recorder : recording[r] = [at |-> recording[r].at, event |-> recording[r].event]
  /\ \A r \in Recorder : Recording(r)
  /\ Ingesting /\ Finding

LEMMA AppendIs ==
  ASSUME NEW S, NEW q \in Seq(S), NEW e \in S
  PROVE  /\ Append(q, e) \in Seq(S) /\ Len(q) \in Nat /\ DOMAIN q = 1..Len(q)
         /\ Len(Append(q, e)) = Len(q) + 1 /\ DOMAIN Append(q, e) = 1..(Len(q) + 1)
         /\ Append(q, e)[Len(q) + 1] = e /\ \A i \in 1..Len(q) : Append(q, e)[i] = q[i]
OBVIOUS

LEMMA ConcatIs ==
  ASSUME NEW S, NEW q \in Seq(S), NEW z \in Seq(S)
  PROVE  /\ q \o z \in Seq(S) /\ Len(q) \in Nat /\ DOMAIN q = 1..Len(q)
         /\ Len(z) \in Nat /\ DOMAIN z = 1..Len(z)
         /\ Len(q \o z) = Len(q) + Len(z) /\ DOMAIN (q \o z) = 1..(Len(q) + Len(z))
         /\ \A i \in 1..Len(q) : (q \o z)[i] = q[i]
         /\ \A i \in 1..Len(z) : (q \o z)[Len(q) + i] = z[i]
OBVIOUS

LEMMA TimesIs ==
  ASSUME NEW S, NEW q \in Seq(S), NEW who
  PROVE  IsFiniteSet({i \in DOMAIN q : q[i].who = who}) /\ TimesIn(q, who) \in Nat
<1>1. IsFiniteSet(1..Len(q)) /\ DOMAIN q = 1..Len(q)  BY FS_Interval
<1>2. {i \in DOMAIN q : q[i].who = who} \subseteq 1..Len(q)  BY <1>1
<1>3. IsFiniteSet({i \in DOMAIN q : q[i].who = who})  BY <1>1, <1>2, FS_Subset
<1> QED BY <1>3, FS_CardinalityType DEF TimesIn

\* One more row of who.
LEMMA OneMore ==
  ASSUME NEW S, NEW q \in Seq(S), NEW z \in Seq(S), NEW who, NEW k,
         k \notin DOMAIN q,
         {i \in DOMAIN z : z[i].who = who} = {i \in DOMAIN q : q[i].who = who} \cup {k}
  PROVE  TimesIn(z, who) = TimesIn(q, who) + 1
<1> DEFINE old == {i \in DOMAIN q : q[i].who = who}
<1>1. IsFiniteSet(old) /\ k \notin old  BY TimesIs
<1>2. Cardinality(old \cup {k}) = Cardinality(old) + 1  BY <1>1, FS_AddElement
<1> QED BY <1>2 DEF TimesIn

LEMMA TimesAppended ==
  ASSUME NEW S, NEW q \in Seq(S), NEW e \in S, NEW who
  PROVE  TimesIn(Append(q, e), who) = TimesIn(q, who) + (IF e.who = who THEN 1 ELSE 0)
<1> DEFINE z == Append(q, e)
<1>1. /\ z \in Seq(S) /\ Len(q) \in Nat /\ DOMAIN q = 1..Len(q) /\ DOMAIN z = 1..(Len(q) + 1)
      /\ z[Len(q) + 1] = e /\ \A i \in 1..Len(q) : z[i] = q[i]
  BY AppendIs
<1> HIDE DEF z
<1>2. CASE e.who = who
  <2>1. {i \in DOMAIN z : z[i].who = who} = {i \in DOMAIN q : q[i].who = who} \cup {Len(q) + 1}
    BY <1>1, <1>2
  <2>2. z \in Seq(S) /\ Len(q) + 1 \notin DOMAIN q  BY <1>1
  <2>3. TimesIn(z, who) = TimesIn(q, who) + 1  BY <2>1, <2>2, OneMore
  <2> QED BY <1>2, <2>3 DEF z
<1>3. CASE e.who # who
  <2>1. {i \in DOMAIN z : z[i].who = who} = {i \in DOMAIN q : q[i].who = who}  BY <1>1, <1>3
  <2>2. TimesIn(z, who) = TimesIn(q, who)  BY <2>1 DEF TimesIn
  <2>3. TimesIn(q, who) \in Nat  BY TimesIs
  <2> QED BY <1>3, <2>2, <2>3 DEF z
<1> QED BY <1>2, <1>3

\* A batch in which who has one row, or none.
LEMMA TimesBatch ==
  ASSUME NEW S, NEW q \in Seq(S), NEW z \in Seq(S), NEW who
  PROVE  /\ \A k \in DOMAIN z : z[k].who = who /\ (\A i \in DOMAIN z : z[i].who = who => i = k) =>
              TimesIn(q \o z, who) = TimesIn(q, who) + 1
         /\ (\A i \in DOMAIN z : z[i].who # who) => TimesIn(q \o z, who) = TimesIn(q, who)
<1> DEFINE b == q \o z
<1>1. /\ b \in Seq(S) /\ Len(q) \in Nat /\ DOMAIN q = 1..Len(q) /\ DOMAIN b = 1..(Len(q) + Len(z))
      /\ Len(z) \in Nat /\ DOMAIN z = 1..Len(z)
      /\ \A i \in 1..Len(q) : b[i] = q[i]
      /\ \A i \in 1..Len(z) : b[Len(q) + i] = z[i]
  BY ConcatIs
<1> HIDE DEF b
<1>2. \A i \in DOMAIN b : i \in DOMAIN q \/ (i - Len(q) \in DOMAIN z /\ b[i] = z[i - Len(q)])
  <2> SUFFICES ASSUME NEW i \in DOMAIN b, i \notin DOMAIN q
               PROVE  i - Len(q) \in DOMAIN z /\ b[i] = z[i - Len(q)]
    OBVIOUS
  <2>1. i \in Int /\ i > Len(q) /\ i <= Len(q) + Len(z)  BY <1>1
  <2>2. i - Len(q) \in 1..Len(z) /\ Len(q) + (i - Len(q)) = i  BY <1>1, <2>1
  <2> QED BY <1>1, <2>2
<1>3. ASSUME NEW k \in DOMAIN z, z[k].who = who, \A i \in DOMAIN z : z[i].who = who => i = k
      PROVE  TimesIn(b, who) = TimesIn(q, who) + 1
  <2> DEFINE n == Len(q) + k
  <2>1. n \notin DOMAIN q /\ n \in DOMAIN b /\ b[n] = z[k]  BY <1>1
  <2>2. \A i \in DOMAIN b : b[i].who = who => (i \in DOMAIN q /\ q[i].who = who) \/ i = n
    BY <1>1, <1>2, <1>3
  <2> HIDE DEF n
  <2>3. \A i \in DOMAIN q : i \in DOMAIN b /\ b[i] = q[i]  BY <1>1
  <2>4. {i \in DOMAIN b : b[i].who = who} = {i \in DOMAIN q : q[i].who = who} \cup {n}
    BY <1>3, <2>1, <2>2, <2>3
  <2>5. b \in Seq(S) /\ n \notin DOMAIN q  BY <1>1, <2>1
  <2> QED BY <2>4, <2>5, OneMore
<1>4. ASSUME \A i \in DOMAIN z : z[i].who # who PROVE TimesIn(b, who) = TimesIn(q, who)
  <2>1. \A i \in DOMAIN q : i \in DOMAIN b /\ b[i] = q[i]  BY <1>1
  <2>2. {i \in DOMAIN b : b[i].who = who} = {i \in DOMAIN q : q[i].who = who}
    BY <1>1, <1>2, <1>4, <2>1
  <2> QED BY <2>2 DEF TimesIn
<1> QED BY <1>3, <1>4 DEF b

-----------------------------------------------------------------------------

LEMMA HistInitInv == HistInit => HistInv
<1> SUFFICES ASSUME HistInit PROVE HistInv OBVIOUS
<1> USE DEF HistInit
<1>1. rows = << >> /\ rows \in Seq(RowSet) /\ Len(rows) = 0 /\ DOMAIN rows = {}  OBVIOUS
<1>2. \A who : TimesIn(rows, who) = 0
  <2> SUFFICES ASSUME NEW who PROVE TimesIn(rows, who) = 0  OBVIOUS
  <2>1. {i \in DOMAIN rows : rows[i].who = who} = {}  BY <1>1
  <2> QED BY <2>1, FS_EmptySet DEF TimesIn
<1>3. \A r \in Recorder : Recording(r)  BY <1>2 DEF Recording
<1>4. Ingesting
  <2>1. \A s \in DOMAIN Old : Taking(s, 0)  BY <1>2 DEF Taking
  <2> QED BY <2>1 DEF Ingesting
<1>5. Finding
  <2>1. DOMAIN finder.shown = {} /\ finder.seen = 0  OBVIOUS
  <2> QED BY <1>1, <2>1 DEF Finding
<1> QED BY <1>1, <1>3, <1>4, <1>5 DEF HistInv

\* One recorder goes on without touching the table.
LEMMA RecorderGoes ==
  ASSUME HistInv, NEW r \in Recorder, NEW a, NEW e,
         recording' = [recording EXCEPT ![r] = [at |-> a, event |-> e]],
         recording[r].at # "kept", a # "kept",
         a \in {"run", "sent", "own"} =>
           /\ e.cmd \in Command /\ e.time \in Int /\ e.who = r /\ e.cwd \in {"cwd", Unset}
           /\ e = Event(e.cmd, e.cwd, e.time, e.who),
         a \in {"sent", "own"} => e.cwd = "cwd",
         UNCHANGED <<clock, rows, ingest, ingests, finder, output>>, last' \in Command \cup {Unset}
  PROVE  HistInv'
<1>1. /\ recording'[r] = [at |-> a, event |-> e] /\ \A q \in Recorder : q # r => recording'[q] = recording[q]
      /\ recording' = [q \in Recorder |-> recording'[q]]
      /\ \A q \in Recorder : recording'[q] = [at |-> recording'[q].at, event |-> recording'[q].event]
  BY DEF HistInv
<1>2. recording'[r].at = a /\ recording'[r].event = e  BY <1>1
<1>3. Recording(r)'
  <2>1. TimesIn(rows, r) = 0  BY DEF HistInv, Recording
  <2> QED BY <1>2, <2>1 DEF Recording
<1>4. \A q \in Recorder : q # r => Recording(q)'  BY <1>1 DEF HistInv, Recording
<1>5. Ingesting' /\ Finding'  BY DEF HistInv, Ingesting, Taking, Finding
<1> QED BY <1>1, <1>3, <1>4, <1>5 DEF HistInv

\* What an event of a recorder is.
LEMMA OfRecorder ==
  ASSUME HistInv, NEW r \in Recorder, recording[r].at \in {"run", "sent", "own"}
  PROVE  /\ recording[r].event.cmd \in Command /\ recording[r].event.time \in Int
         /\ recording[r].event.who = r /\ recording[r].event.cwd \in {"cwd", Unset}
         /\ recording[r].event = Event(recording[r].event.cmd, recording[r].event.cwd,
                                       recording[r].event.time, recording[r].event.who)
         /\ recording[r].at \in {"sent", "own"} => recording[r].event.cwd = "cwd"
BY DEF HistInv, Recording

LEMMA PromptInv ==
  ASSUME HistInv, NEW r \in Recorder, NEW c \in Command \cup {Unset}, Prompt(r, c) PROVE HistInv'
<1>1. /\ recording[r].at = "none" /\ last' \in Command \cup {Unset}
      /\ UNCHANGED <<clock, rows, ingest, ingests, finder, output>>
  BY DEF Prompt, HistInv
<1>2. CASE last' = Unset
  <2>1. recording' = [recording EXCEPT ![r] = [at |-> "skipped", event |-> Unset]]
    BY <1>2 DEF Prompt
  <2> QED BY <1>1, <2>1, RecorderGoes
<1>3. CASE last' # Unset
  <2> DEFINE e == Event(last', "cwd", clock, r)
  <2>1. recording' = [recording EXCEPT ![r] = [at |-> "run", event |-> e]]  BY <1>3 DEF Prompt
  <2>2. /\ e.cmd \in Command /\ e.time \in Int /\ e.who = r /\ e.cwd \in {"cwd", Unset}
        /\ e = Event(e.cmd, e.cwd, e.time, e.who)
    BY <1>1, <1>3 DEF Event, HistInv
  <2> HIDE DEF e
  <2> QED BY <1>1, <2>1, <2>2, RecorderGoes
<1> QED BY <1>2, <1>3

LEMMA ByHandInv ==
  ASSUME HistInv, NEW r \in Recorder, NEW c \in Command, ByHand(r, c) PROVE HistInv'
<1> DEFINE e == Event(c, Unset, 0, r)
<1>1. /\ recording[r].at = "none" /\ last' \in Command \cup {Unset}
      /\ UNCHANGED <<clock, rows, ingest, ingests, finder, output>>
      /\ recording' = [recording EXCEPT ![r] = [at |-> "run", event |-> e]]
  BY DEF ByHand, HistInv
<1>2. /\ e.cmd \in Command /\ e.time \in Int /\ e.who = r /\ e.cwd \in {"cwd", Unset}
      /\ e = Event(e.cmd, e.cwd, e.time, e.who)
  BY DEF Event
<1> HIDE DEF e
<1> QED BY <1>1, <1>2, RecorderGoes

LEMMA SendEventInv == ASSUME HistInv, NEW r \in Recorder, SendEvent(r) PROVE HistInv'
<1> DEFINE e == recording[r].event
           f == Complete(e)
           a == IF daemon = "up" THEN "sent" ELSE "own"
<1>1. /\ recording[r].at = "run" /\ last' \in Command \cup {Unset}
      /\ UNCHANGED <<clock, rows, ingest, ingests, finder, output>>
      /\ recording' = [recording EXCEPT ![r] = [at |-> a, event |-> f]]
  BY DEF SendEvent, HistInv
<1>2. /\ e.cmd \in Command /\ e.time \in Int /\ e.who = r /\ e.cwd \in {"cwd", Unset}
      /\ e = Event(e.cmd, e.cwd, e.time, e.who)
  BY <1>1, OfRecorder
<1>3. clock \in Int  BY DEF HistInv
<1> DEFINE time == IF e.time = 0 THEN clock ELSE e.time
           cwd == IF e.cwd = Unset THEN "cwd" ELSE e.cwd
<1>4. f = Event(e.cmd, cwd, time, r)  BY <1>2 DEF Complete
<1>5. cwd = "cwd" /\ time \in Int  BY <1>2, <1>3
<1>6. /\ f.cmd \in Command /\ f.time \in Int /\ f.who = r /\ f.cwd = "cwd"
      /\ f = Event(f.cmd, f.cwd, f.time, f.who)
  BY <1>2, <1>4, <1>5 DEF Event
<1> HIDE DEF f
<1> QED BY <1>1, <1>6, RecorderGoes

LEMMA DaemonEndsInv == ASSUME HistInv, DaemonEnds PROVE HistInv'
<1>1. /\ recording' = [r \in Recorder |->
            IF recording[r].at = "sent" THEN [recording[r] EXCEPT !.at = "lost"] ELSE recording[r]]
      /\ UNCHANGED <<clock, last, rows, ingest, ingests, finder, output>>
  BY DEF DaemonEnds
<1>2. ASSUME NEW r \in Recorder
      PROVE  recording'[r] = [at |-> recording'[r].at, event |-> recording'[r].event] /\ Recording(r)'
  <2>1. recording[r] = [at |-> recording[r].at, event |-> recording[r].event] /\ Recording(r)
    BY DEF HistInv
  <2>2. CASE recording[r].at = "sent"
    <3>1. recording'[r] = [at |-> "lost", event |-> recording[r].event]  BY <1>1, <2>1, <2>2
    <3>2. recording'[r].at = "lost"  BY <3>1
    <3>3. TimesIn(rows, r) = 0  BY <2>1, <2>2 DEF Recording
    <3> QED BY <1>1, <3>1, <3>2, <3>3 DEF Recording
  <2>3. CASE recording[r].at # "sent"
    <3>1. recording'[r] = recording[r]  BY <1>1, <2>3
    <3> QED BY <1>1, <2>1, <3>1 DEF Recording
  <2> QED BY <2>2, <2>3
<1>3. Ingesting' /\ Finding'  BY <1>1 DEF HistInv, Ingesting, Taking, Finding
<1>4. recording' = [r \in Recorder |-> recording'[r]]  BY <1>1
<1> QED BY <1>1, <1>2, <1>3, <1>4 DEF HistInv

\* More rows behind the others: what a search showed is what it was.
LEMMA FindingGrows ==
  ASSUME HistInv, DOMAIN rows \subseteq DOMAIN rows', \A i \in DOMAIN rows : rows'[i] = rows[i],
         Len(rows') \in Nat, Len(rows) <= Len(rows'), UNCHANGED <<finder, output>>
  PROVE  Finding'
<1>1. Finding /\ rows \in Seq(RowSet)  BY DEF HistInv
<1>2. finder.seen \in 0..Len(rows')  BY <1>1 DEF Finding
<1>3. \A x \in 1..finder.seen : x \in DOMAIN rows  BY <1>1 DEF Finding
<1> QED BY <1>1, <1>2, <1>3 DEF Finding

LEMMA InsertInv == ASSUME HistInv, ParsesRight, NEW r \in Recorder, Insert(r) PROVE HistInv'
<1>1. /\ recording[r].at \in {"sent", "own"}
      /\ UNCHANGED <<clock, last, ingest, ingests, finder, output>>
  BY DEF Insert
<1> DEFINE e == recording[r].event
<1>2. /\ e.cmd \in Command /\ e.time \in Int /\ e.who = r /\ e.cwd = "cwd"
      /\ e = Event(e.cmd, e.cwd, e.time, e.who)
  BY <1>1, OfRecorder
<1>3. recording[r] = [at |-> recording[r].at, event |-> e]  BY DEF HistInv
<1>4. CASE WriteLocked
  <2> DEFINE a == IF recording[r].at = "sent" THEN "lost" ELSE "failed"
  <2>1. /\ recording' = [recording EXCEPT ![r] = [at |-> a, event |-> e]] /\ rows' = rows
    BY <1>3, <1>4 DEF Insert
  <2>2. last' \in Command \cup {Unset}  BY <1>1 DEF HistInv
  <2> QED BY <1>1, <1>2, <2>1, <2>2, RecorderGoes
<1>5. CASE ~WriteLocked
  <2>1. /\ recording' = [recording EXCEPT ![r] = [at |-> "kept", event |-> e]]
        /\ rows' = Append(rows, e) /\ rows \in Seq(RowSet)
    BY <1>3, <1>5 DEF Insert, HistInv
  <2>2. e \in RowSet  BY <1>2 DEF RowSet, Dirs, Event
  <2>3. /\ rows' \in Seq(RowSet) /\ Len(rows) \in Nat /\ DOMAIN rows = 1..Len(rows)
        /\ Len(rows') = Len(rows) + 1 /\ DOMAIN rows' = 1..(Len(rows) + 1)
        /\ rows'[Len(rows) + 1] = e /\ \A i \in 1..Len(rows) : rows'[i] = rows[i]
    BY <2>1, <2>2, AppendIs
  <2>4. \A who : TimesIn(rows', who) = TimesIn(rows, who) + (IF e.who = who THEN 1 ELSE 0)
    BY <2>1, <2>2, TimesAppended
  <2>5. \A who : TimesIn(rows, who) \in Nat  BY <2>1, TimesIs
  <2>6. \A i \in DOMAIN rows' : rows'[i].who \notin Recorder =>
          rows'[i].time = Taken(rows'[i].who[1])[rows'[i].who[2]]
    <3>1. \A i \in DOMAIN rows' : i \in DOMAIN rows \/ i = Len(rows) + 1  BY <2>3
    <3> QED BY <1>2, <2>3, <3>1 DEF HistInv
  <2>7. /\ recording' = [q \in Recorder |-> recording'[q]]
        /\ recording'[r] = [at |-> "kept", event |-> e]
        /\ \A q \in Recorder : q # r => recording'[q] = recording[q]
        /\ \A q \in Recorder : recording'[q] = [at |-> recording'[q].at, event |-> recording'[q].event]
    BY <2>1 DEF HistInv
  <2>8. ASSUME NEW q \in Recorder PROVE Recording(q)'
    <3>1. CASE q = r
      <4>1. TimesIn(rows', r) = 1  BY <1>1, <1>2, <2>4 DEF HistInv, Recording
      <4>2. recording'[r].at = "kept"  BY <2>7
      <4> QED BY <3>1, <4>1, <4>2 DEF Recording
    <3>2. CASE q # r
      <4>1. TimesIn(rows', q) = TimesIn(rows, q)  BY <1>2, <2>4, <2>5, <3>2
      <4> QED BY <2>7, <3>2, <4>1 DEF HistInv, Recording
    <3> QED BY <3>1, <3>2
  <2>9. Ingesting'
    <3>1. ASSUME NEW s \in DOMAIN Old, NEW k \in DOMAIN Taken(s)
          PROVE  TimesIn(rows', <<s, k>>) = TimesIn(rows, <<s, k>>)
      <4>1. k \in Nat  BY DEF ParsesRight
      <4>2. e.who # <<s, k>>  BY <1>2, <4>1, HistoryAssumption
      <4> QED BY <2>4, <2>5, <4>2
    <3> QED BY <1>1, <3>1 DEF HistInv, Ingesting, Taking
  <2>10. Finding'  BY <1>1, <2>3, FindingGrows
  <2> QED BY <1>1, <2>3, <2>6, <2>7, <2>8, <2>9, <2>10 DEF HistInv
<1> QED BY <1>4, <1>5

\* An ingest goes on without touching the table.
LEMMA IngestGoes ==
  ASSUME HistInv, UNCHANGED <<clock, last, recording, rows, finder, output>>, Ingesting'
  PROVE  HistInv'
<1>1. Finding' /\ \A r \in Recorder : Recording(r)'  BY DEF HistInv, Finding, Recording
<1> QED BY <1>1 DEF HistInv

LEMMA IngestInv == ASSUME HistInv, ParsesRight, NEW s \in DOMAIN Old, Ingest(s) PROVE HistInv'
<1> DEFINE to == IF Parsed(s) = Unset THEN "failed" ELSE IF Parsed(s) = <<>> THEN "ok" ELSE "insert"
           read == IF Parsed(s) = Unset THEN <<>> ELSE Parsed(s)
<1>1. /\ UNCHANGED <<clock, last, recording, rows, finder, output>> /\ ingests' = ingests + 1
      /\ ingest' = [source |-> s, done |-> 0, at |-> to, events |-> read]
  BY DEF Ingest
<1>2. ingest'.source = s /\ ingest'.at = to /\ ingest'.events = read /\ ingest'.done = 0
  BY <1>1
<1>3. ingests \in Nat /\ \A z \in DOMAIN Old : \E n \in Nat : Taking(z, n)  BY DEF HistInv, Ingesting
<1>4. ASSUME NEW z \in DOMAIN Old PROVE \E n \in Nat : Taking(z, n)'
  <2>1. PICK n \in Nat : Taking(z, n)  BY <1>3
  <2>2. CASE z = s /\ to = "ok"
    <3>1. Parsed(s) = <<>> /\ Parsed(s) # Unset  BY <2>2
    <3>2. DOMAIN Taken(s) = {}  BY <3>1 DEF ParsesRight
    <3>3. PICK m \in Nat : m = ingests + 1  BY <1>3
    <3>4. Taking(z, m)'  BY <1>1, <1>2, <1>3, <2>2, <3>2, <3>3 DEF Taking
    <3> QED BY <3>4
  <2>3. CASE ~(z = s /\ to = "ok")
    <3>1. Taking(z, n)'  BY <1>1, <1>2, <1>3, <2>1, <2>3 DEF Taking
    <3> QED BY <3>1
  <2> QED BY <2>2, <2>3
<1>5. to = "insert" => Parsed(s) # Unset /\ read = Parsed(s)  OBVIOUS
<1> HIDE DEF to, read
<1>6. Ingesting'  BY <1>1, <1>2, <1>3, <1>4, <1>5 DEF Ingesting
<1> QED BY <1>1, <1>6, IngestGoes

LEMMA BatchInv == ASSUME HistInv, BatchInsert \/ Rollback PROVE HistInv'
<1>1. UNCHANGED <<clock, last, recording, rows, finder, output, ingests>>  BY DEF BatchInsert, Rollback
<1>2. ingest = [at |-> ingest.at, source |-> ingest.source, events |-> ingest.events, done |-> ingest.done]
  BY DEF HistInv, Ingesting
<1>3. /\ ingest'.at \in {"insert", "failed"} /\ ingest.at = "insert"
      /\ ingest'.source = ingest.source /\ ingest'.events = ingest.events
      /\ ingest' = [at |-> ingest'.at, source |-> ingest'.source, events |-> ingest'.events,
                    done |-> ingest'.done]
  <2>1. CASE BatchInsert
    <3>1. ingest.at = "insert" /\ ingest' = [ingest EXCEPT !.done = ingest.done + 1]
      BY <2>1 DEF BatchInsert
    <3> QED BY <1>2, <3>1
  <2>2. CASE Rollback
    <3>1. ingest.at = "insert" /\ ingest' = [ingest EXCEPT !.at = "failed"]  BY <2>2 DEF Rollback
    <3> QED BY <1>2, <3>1
  <2> QED BY <2>1, <2>2
<1>4. Ingesting'  BY <1>1, <1>3 DEF HistInv, Ingesting, Taking
<1> QED BY <1>1, <1>4, IngestGoes

LEMMA CommitInv == ASSUME HistInv, ParsesRight, CommitIngest PROVE HistInv'
<1> DEFINE s == ingest.source
           ev == Parsed(s)
<1>1. /\ UNCHANGED <<clock, last, recording, finder, output, ingests>> /\ ingest.at = "insert"
      /\ ingest' = [ingest EXCEPT !.at = "ok"] /\ rows' = rows \o ingest.events
  BY DEF CommitIngest
<1>2. /\ ingest = [at |-> ingest.at, source |-> s, events |-> ingest.events, done |-> ingest.done]
      /\ s \in DOMAIN Old /\ ev # Unset /\ ingest.events = ev /\ ingests \in Nat
      /\ \A z \in DOMAIN Old : \E n \in Nat : Taking(z, n)
  BY <1>1 DEF HistInv, Ingesting
<1>3. /\ ev \in Seq(RowSet) /\ DOMAIN Taken(s) = DOMAIN ev /\ rows \in Seq(RowSet)
      /\ \A k \in DOMAIN ev : ev[k].who = <<s, k>> /\ ev[k].time = Taken(s)[k] /\ k \in Nat
  BY <1>2 DEF ParsesRight, HistInv
<1>4. rows' = rows \o ev  BY <1>1, <1>2
<1>5. /\ ingest'.source = s /\ ingest'.events = ingest.events /\ ingest'.at = "ok"
      /\ ingest' = [at |-> ingest'.at, source |-> ingest'.source, events |-> ingest'.events,
                    done |-> ingest'.done]
  BY <1>1, <1>2
<1> HIDE DEF s, ev
<1>6. /\ rows' \in Seq(RowSet) /\ Len(rows) \in Nat /\ DOMAIN rows = 1..Len(rows)
      /\ Len(ev) \in Nat /\ DOMAIN ev = 1..Len(ev)
      /\ Len(rows') = Len(rows) + Len(ev) /\ DOMAIN rows' = 1..(Len(rows) + Len(ev))
      /\ \A i \in 1..Len(rows) : rows'[i] = rows[i]
      /\ \A i \in 1..Len(ev) : rows'[Len(rows) + i] = ev[i]
  BY <1>3, <1>4, ConcatIs
<1>7. ASSUME NEW who, \A i \in DOMAIN ev : ev[i].who # who
      PROVE  TimesIn(rows', who) = TimesIn(rows, who)
  BY <1>3, <1>4, <1>7, TimesBatch
<1>8. ASSUME NEW k \in DOMAIN ev PROVE TimesIn(rows', <<s, k>>) = TimesIn(rows, <<s, k>>) + 1
  <2>1. ev[k].who = <<s, k>> /\ \A i \in DOMAIN ev : ev[i].who = <<s, k>> => i = k  BY <1>3
  <2> QED BY <1>3, <1>4, <2>1, TimesBatch
<1>9. \A i \in DOMAIN rows' : rows'[i].who \notin Recorder =>
        rows'[i].time = Taken(rows'[i].who[1])[rows'[i].who[2]]
  <2> SUFFICES ASSUME NEW i \in DOMAIN rows', rows'[i].who \notin Recorder
               PROVE  rows'[i].time = Taken(rows'[i].who[1])[rows'[i].who[2]]
    OBVIOUS
  <2>1. CASE i \in DOMAIN rows  BY <1>6, <2>1 DEF HistInv
  <2>2. CASE i \notin DOMAIN rows
    <3> DEFINE k == i - Len(rows)
    <3>1. i \in Int /\ i > Len(rows) /\ i <= Len(rows) + Len(ev)  BY <1>6, <2>2
    <3>2. k \in DOMAIN ev /\ Len(rows) + k = i  BY <1>6, <3>1
    <3> HIDE DEF k
    <3>3. rows'[i] = ev[k]  BY <1>6, <3>2
    <3>4. ev[k].who = <<s, k>> /\ ev[k].time = Taken(s)[k]  BY <1>3, <3>2
    <3>5. <<s, k>>[1] = s /\ <<s, k>>[2] = k  OBVIOUS
    <3> QED BY <3>3, <3>4, <3>5
  <2> QED BY <2>1, <2>2
<1>10. ASSUME NEW r \in Recorder PROVE Recording(r)'
  <2>1. ASSUME NEW i \in DOMAIN ev PROVE ev[i].who # r
    <3>1. <<s, i>> \in (DOMAIN Old) \X Nat /\ ev[i].who = <<s, i>>  BY <1>2, <1>3
    <3> QED BY <3>1, HistoryAssumption
  <2>2. TimesIn(rows', r) = TimesIn(rows, r)  BY <1>7, <2>1
  <2> QED BY <1>1, <2>2 DEF HistInv, Recording
<1>11. ASSUME NEW z \in DOMAIN Old PROVE \E n \in Nat : Taking(z, n)'
  <2>1. PICK n \in Nat : Taking(z, n)  BY <1>2
  <2>2. CASE z = s
    <3>1. \A k \in DOMAIN Taken(s) : TimesIn(rows', <<s, k>>) = n + 1
      BY <1>3, <1>8, <2>1, <2>2 DEF Taking
    <3>2. Taking(z, n + 1)'  BY <1>1, <1>2, <1>5, <2>1, <2>2, <3>1 DEF Taking
    <3> QED BY <3>2
  <2>3. CASE z # s
    <3>1. \A k \in DOMAIN Taken(z) : \A i \in DOMAIN ev : ev[i].who # <<z, k>>  BY <1>3, <2>3
    <3>2. \A k \in DOMAIN Taken(z) : TimesIn(rows', <<z, k>>) = n  BY <1>7, <2>1, <3>1 DEF Taking
    <3>3. Taking(z, n)'  BY <1>1, <1>5, <2>1, <2>3, <3>2 DEF Taking
    <3> QED BY <3>3
  <2> QED BY <2>2, <2>3
<1>12. Ingesting'  BY <1>1, <1>2, <1>5, <1>11 DEF Ingesting
<1>13. Finding'  BY <1>1, <1>6, FindingGrows
<1> QED BY <1>1, <1>6, <1>9, <1>10, <1>12, <1>13 DEF HistInv

\* The finder goes on; nobody writes.
LEMMA FinderGoes ==
  ASSUME HistInv, UNCHANGED <<last, recording, rows, ingest, ingests>>, clock' \in Nat, Finding'
  PROVE  HistInv'
<1>1. Ingesting' /\ \A r \in Recorder : Recording(r)'  BY DEF HistInv, Ingesting, Taking, Recording
<1> QED BY <1>1 DEF HistInv

LEMMA TickInv == ASSUME HistInv, Tick PROVE HistInv'
<1>1. UNCHANGED <<last, recording, rows, ingest, ingests, finder, output>> /\ clock' \in Nat
  BY DEF Tick, HistInv
<1>2. Finding'  BY <1>1 DEF HistInv, Finding
<1> QED BY <1>1, <1>2, FinderGoes

LEMMA OpenFinderInv == ASSUME HistInv, OpenFinder PROVE HistInv'
<1>1. /\ finder.at = "closed" /\ UNCHANGED <<clock, last, recording, rows, ingest, ingests, output>>
      /\ clock \in Nat /\ rows \in Seq(RowSet) /\ output = Unset
  BY DEF OpenFinder, HistInv, Finding
<1> DEFINE n == IF Len(rows) < Limit THEN Len(rows) ELSE Limit
<1>2. PICK s \in Newest(n) :
        finder' = [at |-> IF s = <<>> THEN "none" ELSE "open", shown |-> s, chosen |-> Unset,
                   seen |-> Len(rows)]
  BY DEF OpenFinder
<1>3. n \in Nat /\ Len(rows) \in Nat /\ DOMAIN rows = 1..Len(rows)  BY <1>1, HistoryAssumption
<1> HIDE DEF n
<1>4. /\ s \in [1..n -> DOMAIN rows]
      /\ \A i, j \in 1..n : i < j => rows[s[i]].time >= rows[s[j]].time
      /\ \A x \in DOMAIN rows \ {s[i] : i \in 1..n} : \A i \in 1..n : rows[s[i]].time >= rows[x].time
  BY DEF Newest, ToSet
<1>5. /\ finder'.shown = s /\ finder'.seen = Len(rows) /\ finder'.at \in {"none", "open"}
      /\ finder' = [at |-> finder'.at, shown |-> finder'.shown, chosen |-> finder'.chosen,
                    seen |-> finder'.seen]
  BY <1>2
<1>6. ASSUME NEW i \in 1..n, NEW x \in DOMAIN rows, x \notin {s[j] : j \in 1..i}
      PROVE  rows[s[i]].time >= rows[x].time
  <2>1. CASE x \in {s[j] : j \in 1..n}
    <3>1. PICK j \in 1..n : x = s[j]  BY <2>1
    <3>2. i < j  BY <1>3, <1>6, <3>1
    <3> QED BY <1>4, <3>1, <3>2
  <2>2. CASE x \notin {s[j] : j \in 1..n}  BY <1>4, <2>2
  <2> QED BY <2>1, <2>2
<1>7. DOMAIN s = 1..n  BY <1>4
<1>8. Finding'  BY <1>1, <1>3, <1>4, <1>5, <1>6, <1>7 DEF Finding
<1> QED BY <1>1, <1>8, FinderGoes

LEMMA ChooseInv == ASSUME HistInv, NEW i \in 1..Limit, Choose(i) PROVE HistInv'
<1>1. /\ finder.at = "open" /\ UNCHANGED <<clock, last, recording, rows, ingest, ingests, output>>
      /\ clock \in Nat /\ i \in DOMAIN finder.shown
      /\ finder = [at |-> finder.at, shown |-> finder.shown, chosen |-> finder.chosen, seen |-> finder.seen]
  BY DEF Choose, HistInv, Finding
<1>2. finder' = [at |-> "chosen", shown |-> finder.shown, chosen |-> rows[finder.shown[i]].cmd,
                 seen |-> finder.seen]
  <2>1. finder' = [finder EXCEPT !.at = "chosen", !.chosen = rows[finder.shown[i]].cmd]  BY DEF Choose
  <2> QED BY <1>1, <2>1
<1>3. Finding'  BY SMTT(20), <1>1, <1>2 DEF HistInv, Finding
<1> QED BY <1>1, <1>3, FinderGoes

LEMMA AbortInv == ASSUME HistInv, Abort PROVE HistInv'
<1>1. /\ finder.at = "open" /\ UNCHANGED <<clock, last, recording, rows, ingest, ingests, output>>
      /\ clock \in Nat /\ finder' = [finder EXCEPT !.at = "aborted"]
      /\ finder = [at |-> finder.at, shown |-> finder.shown, chosen |-> finder.chosen, seen |-> finder.seen]
  BY DEF Abort, HistInv, Finding
<1>2. finder' = [at |-> "aborted", shown |-> finder.shown, chosen |-> finder.chosen, seen |-> finder.seen]
  BY <1>1
<1>3. Finding'  BY <1>1, <1>2 DEF HistInv, Finding
<1> QED BY <1>1, <1>3, FinderGoes

LEMMA AfterWaitInv == ASSUME HistInv, AfterWait PROVE HistInv'
<1>1. /\ finder.at = "chosen" /\ UNCHANGED <<clock, last, recording, rows, ingest, ingests>>
      /\ clock \in Nat /\ finder' = [finder EXCEPT !.at = "done"] /\ output' = Trimmed[finder.chosen]
      /\ finder = [at |-> finder.at, shown |-> finder.shown, chosen |-> finder.chosen, seen |-> finder.seen]
  BY DEF AfterWait, HistInv, Finding
<1>2. finder' = [at |-> "done", shown |-> finder.shown, chosen |-> finder.chosen, seen |-> finder.seen]
  BY <1>1
<1>3. Finding'  BY <1>1, <1>2 DEF HistInv, Finding
<1> QED BY <1>1, <1>3, FinderGoes

LEMMA HistStep == ASSUME HistInv, ParsesRight, [HistNext]_histVars PROVE HistInv'
<1>1. CASE UNCHANGED histVars
  <2>1. UNCHANGED <<clock, last, recording, rows, ingest, ingests, finder, output>>  BY <1>1 DEF histVars
  <2>2. Finding' /\ clock' \in Nat  BY <2>1 DEF HistInv, Finding
  <2> QED BY <2>1, <2>2, FinderGoes
<1>2. CASE HistNext
  BY <1>2, TickInv, DaemonEndsInv, PromptInv, ByHandInv, SendEventInv, InsertInv, IngestInv, BatchInv,
     CommitInv, OpenFinderInv, ChooseInv, AbortInv, AfterWaitInv DEF HistNext
<1> QED BY <1>1, <1>2

\* The history is kept, for any prompts, recorders, ingests and searches in any
\* order, with a daemon or without, through locked tables, rollbacks and the
\* daemon's end: a command reported as kept is there once and no other is; an
\* ingest adds all of its rows with their own times or none; a search shows the
\* newest and prints one of them.  What an ingest parses is taken to be right:
\* that is a recursion over the data, which TLC evaluates.
THEOREM HistoryStays == ASSUME ParsesRight PROVE HistSpec => []HistoryIsKept
<1>1. HistInit => HistInv  BY HistInitInv
<1>2. HistInv /\ [HistNext]_histVars => HistInv'  BY HistStep
<1>3. HistInv => HistoryIsKept
  <2> SUFFICES ASSUME HistInv PROVE HistoryIsKept OBVIOUS
  <2>1. \A r \in Recorder : Times(r) = IF recording[r].at = "kept" THEN 1 ELSE 0
    BY DEF HistInv, Recording, TimesIn, Times
  <2>2. ASSUME NEW s \in DOMAIN Old
        PROVE  \E n \in 0..ingests : /\ \A k \in DOMAIN Taken(s) : Times(<<s, k>>) = n
                                     /\ ingest.source = s /\ ingest.at = "ok" => n > 0
    <3>1. PICK n \in Nat : Taking(s, n)  BY DEF HistInv, Ingesting
    <3>2. n \in 0..ingests  BY <3>1 DEF HistInv, Ingesting, Taking
    <3>3. \A k \in DOMAIN Taken(s) : Times(<<s, k>>) = n  BY <3>1 DEF Taking, TimesIn, Times
    <3> QED BY <3>1, <3>2, <3>3 DEF Taking
  <2>3. /\ \A i \in DOMAIN finder.shown : \A x \in 1..finder.seen :
             x \notin {finder.shown[j] : j \in 1..i} => rows[finder.shown[i]].time >= rows[x].time
        /\ output # Unset => \E i \in DOMAIN finder.shown : output = Trimmed[rows[finder.shown[i]].cmd]
    BY DEF HistInv, Finding
  <2>4. \A i \in DOMAIN rows : rows[i].who \notin Recorder =>
          rows[i].time = Taken(rows[i].who[1])[rows[i].who[2]]
    BY DEF HistInv
  <2> QED BY <2>1, <2>2, <2>3, <2>4 DEF HistoryIsKept
<1> QED BY <1>1, <1>2, <1>3, PTL DEF HistSpec

-----------------------------------------------------------------------------
(* The progress UI.                                                        *)

DispTypeOK ==
  /\ wantUI \in BOOLEAN /\ ui \in {"none", "starting", "on", "off"}
  /\ group \in [Group -> [at : {"none", "copied", "made"}, by : Task \cup {Main},
                          onLog : BOOLEAN, using : BOOLEAN]]
  /\ task \in [Task -> [at : {"none", "running", "done"}, group : Group \cup {NotYet},
                        onLog : BOOLEAN, total : {-1, 1}]]
  /\ shown = [t \in Task |-> shown[t]]
  /\ walk \subseteq Group /\ snap \subseteq Task \cup {NotYet} /\ bars \subseteq Task
  /\ order \in Seq(Task)

Maker(t) == group[task[t].group].by

\* Groups are made by tasks of groups, down to the command's own goroutine:
\* whichever tasks one takes, one of them is in a group that none of them made.
Grounded == \A S \in SUBSET Started : S # {} => \E t \in S : Maker(t) \notin S

\* Who is done left no group with a running task behind.
Forest ==
  /\ group[Root].at = "made" /\ group[Root].by = Main
  /\ \A t \in Started : task[t].group \in Made
  /\ \A g \in Group : group[g].at # "none" /\ group[g].by \in Task => group[g].by \in Started
  /\ Grounded
  /\ \A g \in Group :
       group[g].at # "none" /\ group[g].by \in Task /\ task[group[g].by].at = "done" =>
         group[g].at = "made" /\ \A t \in Task : task[t].group = g => task[t].at # "running"
  /\ ui = "off" => \A t \in Task : task[t].at # "running"

\* With the UI, tasks begin when it is there, and every group knows it.
Handlers ==
  /\ ~wantUI => /\ ui \in {"none", "off"}
                /\ \A g \in Group : ~group[g].onLog /\ ~group[g].using
                /\ \A t \in Task : ~task[t].onLog
  /\ wantUI /\ ui \in {"none", "starting"} => Started = {}
  /\ ui = "starting" => \A g \in Group : group[g].at # "none" => group[g].at = "made" /\ group[g].using
  /\ wantUI /\ ui = "on" =>
       /\ \A g \in Group : group[g].at # "none" => group[g].using /\ group[g].onLog
       /\ \A t \in Started : task[t].onLog
  /\ \A t \in Task : shown[t] # NotYet => shown[t] = IF wantUI THEN <<"ui">> ELSE <<"stderr">>

Parent(g) == GroupOf(group[g].by)
Closed(C) == C \subseteq Made /\ \A x \in C \ {Root} : Parent(x) \in C
\* The walk has still to come by g: it is on every way up from there.
Due(g) == g \in Made /\ \A C \in SUBSET Group : Closed(C) /\ g \in C => C \cap walk # {}

\* A row is of a task that has a bar or is done, and while the UI looks for
\* tasks, each that has a bar and runs was found or will be.
RowsAreOne ==
  /\ \A m, n \in DOMAIN order : order[m] = order[n] => m = n
  /\ \A n \in DOMAIN order : order[n] \in Started /\ task[order[n]].total = 1
  /\ \A t \in bars : \E n \in DOMAIN order : order[n] = t
  /\ \A n \in DOMAIN order : order[n] \notin bars => task[order[n]].at = "done" /\ order[n] \notin snap
  /\ walk \subseteq Made
  /\ \A t \in snap \ {NotYet} : t \in Started /\ task[t].total = 1
  /\ walk # {} \/ snap # {} => \A t \in bars : Live(t) => t \in snap \/ Due(task[t].group)

DispInv == DispTypeOK /\ Forest /\ Handlers /\ RowsAreOne

-----------------------------------------------------------------------------

LEMMA DispInitInv == DispInit => DispInv
<1> SUFFICES ASSUME DispInit PROVE DispInv  OBVIOUS
<1> USE DEF DispInit
<1>1. DispTypeOK  BY DisplayAssumption DEF DispTypeOK
<1>2. Started = {}  BY DEF Started
<1>3. Forest  BY <1>2, DisplayAssumption DEF Forest, Grounded, Started
<1>4. Handlers  BY <1>2 DEF Handlers
<1>5. RowsAreOne  BY <1>2 DEF RowsAreOne
<1> QED BY <1>1, <1>3, <1>4, <1>5 DEF DispInv

\* What a step leaves alone of who made and who runs what.
SameShape ==
  /\ \A g \in Group : group'[g].at = group[g].at /\ group'[g].by = group[g].by
  /\ \A t \in Task : task'[t].at = task[t].at /\ task'[t].group = task[t].group

LEMMA ShapeKeeps ==
  ASSUME DispTypeOK, Forest, SameShape
  PROVE  /\ Started' = Started /\ Made' = Made
         /\ \A t \in Task : Live(t)' = Live(t)
         /\ \A g \in Made : Parent(g)' = Parent(g)
<1>1. Started' = Started /\ Made' = Made  BY DEF SameShape, Started, Made
<1>2. \A t \in Task : Live(t)' = Live(t)  BY <1>1 DEF SameShape, Live
<1>3. \A g \in Made : g \in Group /\ group[g].by \in Task \cup {Main}  BY DEF Made, DispTypeOK
<1>4. \A g \in Made : Parent(g)' = Parent(g)  BY <1>3, DisplayAssumption DEF SameShape, Parent, GroupOf
<1> QED BY <1>1, <1>2, <1>4

LEMMA ForestKept ==
  ASSUME DispTypeOK, Forest, SameShape, ui' = "off" => \A t \in Task : task[t].at # "running"
  PROVE  Forest'
<1>1. Started' = Started /\ Made' = Made  BY ShapeKeeps
<1>2. \A t \in Started : task[t].group \in Group /\ t \in Task  BY DEF Forest, Started, Made
<1>3. \A t \in Started : Maker(t)' = Maker(t)  BY <1>2 DEF SameShape, Maker
<1>4. Grounded'  BY <1>1, <1>3 DEF Forest, Grounded
<1>5. \A g \in Group : group[g].by \in Task => task'[group[g].by].at = task[group[g].by].at
  BY DEF SameShape
<1> QED BY <1>1, <1>2, <1>4, <1>5, DisplayAssumption DEF Forest, SameShape

LEMMA DueKept ==
  ASSUME Made' = Made, \A x \in Made : Parent(x)' = Parent(x), walk' = walk, NEW g, Due(g)
  PROVE  Due(g)'
<1>1. \A C \in SUBSET Group : Closed(C)' => Closed(C)  BY DEF Closed
<1> QED BY <1>1 DEF Due

\* Rows under steps that do not touch them.
LEMMA RowsKept ==
  ASSUME DispTypeOK, Forest, RowsAreOne,
         Made' = Made, \A x \in Made : Parent(x)' = Parent(x),
         UNCHANGED <<walk, snap, bars, order>>,
         \A t \in Started : /\ t \in Started' /\ task'[t].group = task[t].group
                            /\ task[t].total = 1 => task'[t].total = 1
                            /\ task'[t].at = task[t].at \/ task'[t].at = "done"
  PROVE  RowsAreOne'
<1>1. \A g : Due(g) => Due(g)'  BY DueKept
<1>2. \A t \in bars : t \in Started
  BY DEF RowsAreOne
<1>3. \A t \in bars : Live(t)' => Live(t)
  BY <1>2 DEF Live, Started, DispTypeOK
<1>4. \A t \in bars : Live(t)' => t \in snap \/ Due(task[t].group) \/ (walk = {} /\ snap = {})
  BY <1>3 DEF RowsAreOne
<1>5. \A t \in bars : task'[t].group = task[t].group  BY <1>2
<1>6. walk' # {} \/ snap' # {} => \A t \in bars' : Live(t)' => t \in snap' \/ Due(task[t].group)'
  BY <1>1, <1>2, <1>4, <1>5 DEF Due
<1> QED BY <1>6 DEF RowsAreOne

-----------------------------------------------------------------------------
(* The steps that leave the shape alone.                                   *)

LEMMA SetsUsingInv == ASSUME DispInv, SetsUsing PROVE DispInv'
<1> USE DEF DispInv, SetsUsing
<1>1. DispTypeOK'  BY ZenonT(30) DEF DispTypeOK
<1>2. SameShape  BY DEF SameShape, DispTypeOK
<1>3. Forest'  BY <1>2, ForestKept
<1>4. Started' = Started /\ Started = {}  BY <1>2, ShapeKeeps DEF Handlers
<1>5. \A g \in Group : group[g].at # "none" => g \in Made
  BY <1>4 DEF Made, Running, DispTypeOK, Forest
<1>6. Handlers'  BY <1>4, <1>5 DEF Handlers, DispTypeOK, Made
<1>7. RowsAreOne'
  <2>1. Made' = Made /\ \A x \in Made : Parent(x)' = Parent(x)  BY <1>2, ShapeKeeps
  <2> QED BY <1>4, <2>1, RowsKept
<1> QED BY <1>1, <1>3, <1>6, <1>7

LEMMA SetLogHandlerInv == ASSUME DispInv, SetLogHandler PROVE DispInv'
<1> USE DEF DispInv, SetLogHandler
<1>1. DispTypeOK'
  <2>1. \A g \in Group : group'[g] \in [at : {"none", "copied", "made"}, by : Task \cup {Main},
                                       onLog : BOOLEAN, using : BOOLEAN]
    BY ZenonT(30) DEF DispTypeOK
  <2>2. \A t \in Task : task'[t] \in [at : {"none", "running", "done"}, group : Group \cup {NotYet},
                                      onLog : BOOLEAN, total : {-1, 1}]
    BY DEF DispTypeOK
  <2>3. DOMAIN group' = Group /\ DOMAIN task' = Task  OBVIOUS
  <2> QED BY <2>1, <2>2, <2>3 DEF DispTypeOK
<1>2. SameShape  BY DEF SameShape, DispTypeOK
<1>3. Forest'  BY <1>2, ForestKept
<1>4. wantUI /\ Started' = Started /\ Started = {}  BY <1>2, ShapeKeeps DEF Handlers, DispTypeOK
<1>5. Handlers'  BY <1>4 DEF Handlers, DispTypeOK, Made
<1>6. RowsAreOne'
  <2>1. Made' = Made /\ \A x \in Made : Parent(x)' = Parent(x)  BY <1>2, ShapeKeeps
  <2> QED BY <1>4, <2>1, RowsKept
<1> QED BY <1>1, <1>3, <1>5, <1>6

\* Who waited for what it made, and is not a running task, left none running.
LEMMA AllAreDone ==
  ASSUME DispTypeOK, Forest, WaitedFor(Main)
  PROVE  \A t \in Task : task[t].at # "running"
<1> DEFINE S == {t \in Task : task[t].at = "running"}
<1> SUFFICES ASSUME S # {} PROVE FALSE  OBVIOUS
<1>1. S \in SUBSET Started  BY DEF Started
<1>2. PICK t \in S : Maker(t) \notin S  BY <1>1 DEF Forest, Grounded
<1>3. task[t].group \in Group /\ group[task[t].group].at = "made" /\ t \in Task /\ task[t].at = "running"
  BY <1>1, <1>2 DEF Forest, Made
<1>4. Maker(t) \in Task \cup {Main}  BY <1>3 DEF Maker, DispTypeOK
<1>5. Maker(t) # Main  BY <1>3 DEF WaitedFor, Maker
<1>6. Maker(t) \in Started /\ task[Maker(t)].at # "running"  BY <1>2, <1>3, <1>4, <1>5 DEF Forest, Maker
<1>7. task[Maker(t)].at = "done"  BY <1>6 DEF Started, DispTypeOK
<1> QED BY <1>3, <1>4, <1>5, <1>7 DEF Forest, Maker

LEMMA TeardownInv == ASSUME DispInv, TeardownUI PROVE DispInv'
<1> USE DEF DispInv, TeardownUI
<1>1. DispTypeOK'
  <2>1. \A g \in Group : group'[g] \in [at : {"none", "copied", "made"}, by : Task \cup {Main},
                                       onLog : BOOLEAN, using : BOOLEAN]
    <3> TAKE g \in Group
    <3>1. /\ group[g].at \in {"none", "copied", "made"} /\ group[g].by \in Task \cup {Main}
          /\ group[g].onLog \in BOOLEAN /\ group[g].using \in BOOLEAN
          /\ group[g] = [at |-> group[g].at, by |-> group[g].by, onLog |-> group[g].onLog,
                         using |-> group[g].using]
      BY DEF DispTypeOK
    <3>2. CASE g \in Made
      <4>1. group'[g] = [group[g] EXCEPT !.onLog = FALSE, !.using = FALSE]
        BY <3>2
      <4> QED BY <3>1, <4>1
    <3>3. CASE g \notin Made
      <4>1. group'[g] = group[g]
        BY <3>3
      <4> QED BY <3>1, <4>1
    <3> QED BY <3>2, <3>3
  <2>2. group' = [g \in Group |-> group'[g]]
    BY DEF DispTypeOK
  <2>3. /\ ui' \in {"none", "starting", "on", "off"} /\ walk' = {} /\ snap' = {}
        /\ UNCHANGED <<wantUI, task, shown, bars, order>>
    OBVIOUS
  <2> QED BY <2>1, <2>2, <2>3 DEF DispTypeOK
<1>2. SameShape  BY ZenonT(30) DEF SameShape, DispTypeOK
<1>3. \A t \in Task : task[t].at # "running"  BY AllAreDone
<1>4. Started' = Started /\ Made' = Made  BY <1>2, ShapeKeeps
<1>5. Forest'  BY <1>2, <1>3, ForestKept
<1>6. Handlers'
  <2>1. ~wantUI => \A g \in Group : ~group'[g].onLog /\ ~group'[g].using
    <3> SUFFICES ASSUME ~wantUI, NEW g \in Group PROVE ~group'[g].onLog /\ ~group'[g].using
      OBVIOUS
    <3>1. ~group[g].onLog /\ ~group[g].using  BY DEF Handlers
    <3>2. CASE g \in Made  BY <3>2 DEF DispTypeOK
    <3>3. CASE g \notin Made  BY <3>1, <3>3
    <3> QED BY <3>2, <3>3
  <2> QED BY <1>4, <2>1 DEF Handlers
<1>7. RowsAreOne'  BY <1>4 DEF RowsAreOne
<1> QED BY <1>1, <1>5, <1>6, <1>7

LEMMA ProgressInv == ASSUME DispInv, NEW t \in Task, Progress(t) PROVE DispInv'
<1> USE DEF DispInv, Progress
<1>1. DispTypeOK'  BY SMTT(20) DEF DispTypeOK
<1>2. SameShape  BY DEF SameShape, DispTypeOK
<1>3. Forest'  BY <1>2, ForestKept DEF Forest
<1>4. Started' = Started  BY <1>2, ShapeKeeps
<1>5. \A u \in Task : task'[u].onLog = task[u].onLog  BY DEF DispTypeOK
<1>6. Handlers'  BY <1>4, <1>5 DEF Handlers, DispTypeOK, Started
<1>7. RowsAreOne'
  <2>1. Made' = Made /\ \A x \in Made : Parent(x)' = Parent(x)  BY <1>2, ShapeKeeps
  <2>2. \A u \in Started : task[u].total = 1 => task'[u].total = 1  BY DEF DispTypeOK, Started
  <2> QED BY <1>2, <1>4, <2>1, <2>2, RowsKept DEF SameShape, Started
<1> QED BY <1>1, <1>3, <1>6, <1>7

-----------------------------------------------------------------------------
(* Where a record goes.                                                    *)

LEMMA WrittenWhere ==
  ASSUME DispInv, NEW t \in Task, Live(t)
  PROVE  WrittenTo(t) = IF wantUI THEN <<"ui">> ELSE <<"stderr">>
<1> DEFINE D == Started \cup {Main}
           Def(f) == [w \in D |-> IF w = Main THEN <<"stderr">>
                        ELSE (IF HasHandler(w) THEN <<"ui">> ELSE <<>>)
                          \o (IF group[task[w].group].using THEN <<>> ELSE f[group[task[w].group].by])]
           by == CHOOSE f : f = Def(f)
<1>1. WrittenTo(t) = by[t]  BY DEF WrittenTo
<1>2. t \in Started /\ Main \notin Started  BY DisplayAssumption DEF Live, Started
<1>3. \A w \in Started : /\ w \in Task /\ task[w].group \in Group /\ group[task[w].group].at = "made"
                          /\ Maker(w) \in D
  BY DEF DispInv, Forest, Made, Started, DispTypeOK, Maker
<1>4. CASE wantUI
  <2>1. ui = "on"  BY <1>2, <1>4 DEF DispInv, Forest, Handlers, DispTypeOK, Live
  <2>2. \A w \in Started : HasHandler(w) /\ group[task[w].group].using
    BY <1>3, <1>4, <2>1 DEF DispInv, Handlers, HasHandler
  <2> DEFINE F == [w \in D |-> IF w = Main THEN <<"stderr">> ELSE <<"ui">>]
  <2>3. F = Def(F)
    <3>1. <<"ui">> \o <<>> = <<"ui">>  OBVIOUS
    <3>2. \A w \in D : F[w] = Def(F)[w]  BY <1>2, <2>2, <3>1
    <3> QED BY <3>2
  <2>4. by = Def(by)  BY <2>3
  <2> HIDE DEF by
  <2>5. by[t] = <<"ui">> \o <<>>  BY <1>2, <2>2, <2>4
  <2> QED BY <1>1, <1>4, <2>5
<1>5. CASE ~wantUI
  <2>1. \A w \in Started : ~HasHandler(w) /\ ~group[task[w].group].using
    BY <1>3, <1>5 DEF DispInv, Handlers, HasHandler
  <2> DEFINE F == [w \in D |-> <<"stderr">>]
  <2>2. F = Def(F)
    <3>1. <<>> \o <<"stderr">> = <<"stderr">>  OBVIOUS
    <3>2. F[Main] = Def(F)[Main]  OBVIOUS
    <3>3. ASSUME NEW w \in Started PROVE F[w] = Def(F)[w]
      <4>1. group[task[w].group].by \in D /\ w # Main /\ w \in D  BY <1>2, <1>3 DEF Maker
      <4>2. F[group[task[w].group].by] = <<"stderr">>  BY <4>1
      <4>3. Def(F)[w] = <<>> \o <<"stderr">>  BY <2>1, <4>1, <4>2
      <4> QED BY <3>1, <4>1, <4>3
    <3> QED BY <3>2, <3>3
  <2>3. by = Def(by)  BY <2>2
  <2> HIDE DEF by
  <2>4. by[Main] = <<"stderr">> /\ \A w \in Started : by[w] = <<>> \o by[Maker(w)]
    BY <1>2, <2>1, <2>3 DEF Maker
  <2> DEFINE S == {w \in Started : by[w] # <<"stderr">>}
  <2>5. S = {}
    <3> SUFFICES ASSUME S # {} PROVE FALSE  OBVIOUS
    <3>1. PICK w \in S : Maker(w) \notin S  BY DEF DispInv, Forest, Grounded
    <3>2. by[Maker(w)] = <<"stderr">>  BY <1>3, <2>4, <3>1
    <3> QED BY <2>4, <3>1, <3>2
  <2> QED BY <1>1, <1>2, <1>5, <2>5
<1> QED BY <1>4, <1>5

LEMMA LogInv == ASSUME DispInv, NEW t \in Task, Log(t) PROVE DispInv'
<1> USE DEF Log
<1>1. shown'[t] = (IF wantUI THEN <<"ui">> ELSE <<"stderr">>) /\ \A u \in Task \ {t} : shown'[u] = shown[u]
  BY WrittenWhere DEF DispInv, DispTypeOK
<1>2. DispTypeOK'  BY DEF DispInv, DispTypeOK
<1>3. SameShape  BY DEF SameShape
<1>4. Forest'  BY <1>3, ForestKept DEF DispInv, Forest
<1>5. Started' = Started  BY DEF Started
<1>6. Handlers'  BY <1>1, <1>5 DEF DispInv, Handlers
<1>7. RowsAreOne'
  <2>1. Made' = Made /\ \A x \in Made : Parent(x)' = Parent(x)  BY <1>3, ShapeKeeps DEF DispInv
  <2> QED BY <1>5, <2>1, RowsKept DEF DispInv
<1> QED BY <1>2, <1>4, <1>6, <1>7 DEF DispInv

-----------------------------------------------------------------------------
(* Groups and tasks.                                                       *)

LEMMA CopiesInv ==
  ASSUME DispInv, NEW g \in Group, NEW w \in Task \cup {Main}, CopiesParent(w, g)
  PROVE  DispInv'
<1> USE DEF DispInv, CopiesParent
<1>1. /\ w # Main => w \in Started /\ task[w].at = "running"
      /\ GroupOf(w) \in Group /\ group[GroupOf(w)].at = "made"
  BY DisplayAssumption DEF Running, Started, GroupOf, Forest, Made
<1>2. DispTypeOK'  BY <1>1 DEF DispTypeOK
<1>3. /\ group'[g] = [at |-> "copied", by |-> w, onLog |-> group[GroupOf(w)].onLog,
                      using |-> group[GroupOf(w)].using]
      /\ \A h \in Group : h # g => group'[h] = group[h]
  BY DEF DispTypeOK
<1>4. Started' = Started /\ Made' = Made /\ g \notin Made  BY <1>3 DEF Started, Made
<1>5. \A t \in Started : Maker(t)' = Maker(t)  BY <1>3, <1>4 DEF Maker, Forest, Made
<1>6. Forest'
  <2>1. Grounded'  BY <1>4, <1>5 DEF Forest, Grounded
  <2>2. group'[Root].at = "made" /\ group'[Root].by = Main  BY <1>3, DisplayAssumption DEF Forest
  <2>3. \A h \in Group : group'[h].at # "none" /\ group'[h].by \in Task => group'[h].by \in Started
    BY <1>1, <1>3, DisplayAssumption DEF Forest
  <2>4. \A h \in Group :
          group'[h].at # "none" /\ group'[h].by \in Task /\ task[group'[h].by].at = "done" =>
            group'[h].at = "made" /\ \A t \in Task : task[t].group = h => task[t].at # "running"
    BY <1>1, <1>3, DisplayAssumption DEF Forest
  <2> QED BY <1>4, <2>1, <2>2, <2>3, <2>4 DEF Forest
<1>7. Handlers'
  <2>1. ui # "starting"  BY <1>1 DEF Handlers, Running, DispTypeOK
  <2> QED BY <1>1, <1>3, <1>4, <2>1 DEF Handlers
<1>8. RowsAreOne'
  <2>1. \A x \in Made : Parent(x)' = Parent(x)  BY <1>3, <1>4 DEF Parent, GroupOf, Made
  <2> QED BY <1>4, <2>1, RowsKept
<1> QED BY <1>2, <1>6, <1>7, <1>8

LEMMA FinishInv == ASSUME DispInv, NEW t \in Task, Finish(t) PROVE DispInv'
<1> USE DEF DispInv, Finish
<1>1. DispTypeOK'  BY DEF DispTypeOK
<1>2. /\ task'[t].at = "done" /\ \A u \in Task : u # t => task'[u] = task[u]
      /\ \A u \in Task : task'[u].group = task[u].group /\ task'[u].total = task[u].total
                        /\ task'[u].onLog = task[u].onLog
  BY DEF DispTypeOK
<1>3. Started' = Started /\ Made' = Made /\ t \in Started  BY <1>2 DEF Started, Made, Live
<1>4. \A u \in Started : Maker(u)' = Maker(u)  BY <1>2 DEF Maker, Started
<1>5. Forest'
  <2>1. Grounded'  BY <1>3, <1>4 DEF Forest, Grounded
  <2>2. \A h \in Group :
          group[h].at # "none" /\ group[h].by \in Task /\ task'[group[h].by].at = "done" =>
            group[h].at = "made" /\ \A u \in Task : task'[u].group = h => task'[u].at # "running"
    BY <1>2 DEF Forest, WaitedFor
  <2> QED BY <1>2, <1>3, <2>1, <2>2 DEF Forest, Started
<1>6. Handlers'  BY <1>2, <1>3 DEF Handlers, Started
<1>7. RowsAreOne'
  <2>1. \A x \in Made : Parent(x)' = Parent(x)
    BY <1>2, DisplayAssumption DEF Parent, GroupOf, Made, DispTypeOK
  <2>2. \A u \in Started : task'[u].at = task[u].at \/ task'[u].at = "done"  BY <1>2 DEF Started
  <2> QED BY <1>2, <1>3, <2>1, <2>2, RowsKept DEF Started
<1> QED BY <1>1, <1>5, <1>6, <1>7

LEMMA GoInv ==
  ASSUME DispInv, NEW w \in Task \cup {Main}, NEW g \in Group, NEW t \in Task, Go(w, g, t)
  PROVE  DispInv'
<1> USE DEF DispInv, Go
<1>1. DispTypeOK'  BY DEF DispTypeOK
<1>2. /\ task'[t] = [at |-> "running", group |-> g, onLog |-> group[g].onLog, total |-> -1]
      /\ \A u \in Task : u # t => task'[u] = task[u]
      /\ task[t].at = "none" /\ g \in Made
  BY DEF DispTypeOK, MayGo, Made
<1>3. Started' = Started \cup {t} /\ t \notin Started /\ Made' = Made  BY <1>2 DEF Started, Made
<1>4. \A u \in Started : Maker(u)' = Maker(u) /\ Maker(u) # t
  BY <1>2, <1>3 DEF Maker, Started, Forest, Made
<1>5. Maker(t)' # t  BY <1>2, <1>3 DEF Maker, Forest, Made
<1>6. Grounded'
  <2> SUFFICES ASSUME NEW S \in SUBSET (Started \cup {t}), S # {}
               PROVE  \E u \in S : Maker(u)' \notin S
    BY <1>3 DEF Grounded
  <2>1. CASE S \ {t} = {}
    <3>1. S = {t}  BY <2>1
    <3> QED BY <1>5, <3>1
  <2>2. CASE S \ {t} # {}
    <3>1. S \ {t} \in SUBSET Started  OBVIOUS
    <3>2. PICK u \in S \ {t} : Maker(u) \notin S \ {t}  BY <2>2, <3>1 DEF Forest, Grounded
    <3> QED BY <1>4, <3>1, <3>2
  <2> QED BY <2>1, <2>2
<1>7. \E u \in Task \cup {Main} : Running(u) /\ (group[g].by = u \/ (u # Main /\ task[u].group = g))
  BY DEF MayGo
<1>8. Forest'
  <2>1. ui # "off"  BY <1>7 DEF Running, Forest
  <2>2. group[g].by \in Task => task[group[g].by].at # "done"
    BY <1>2, <1>7, DisplayAssumption DEF Running, Forest, Made
  <2>3. \A h \in Group :
          group[h].at # "none" /\ group[h].by \in Task /\ task'[group[h].by].at = "done" =>
            group[h].at = "made" /\ \A u \in Task : task'[u].group = h => task'[u].at # "running"
    BY <1>2, <2>2 DEF Forest
  <2>4. \A u \in Started' : task'[u].group \in Made  BY <1>2, <1>3 DEF Forest, Started
  <2> QED BY <1>3, <1>6, <2>1, <2>3, <2>4 DEF Forest
<1>9. Handlers'
  <2>1. wantUI => ui = "on"  BY DEF Ready
  <2> QED BY <1>2, <1>3, <2>1 DEF Handlers, Made, Started
<1>10. RowsAreOne'
  <2>1. \A x \in Made : Parent(x)' = Parent(x)
    BY <1>2, <1>3, DisplayAssumption DEF Parent, GroupOf, Forest, Made, DispTypeOK, Started
  <2> QED BY <1>2, <1>3, <2>1, RowsKept DEF Started
<1> QED BY <1>1, <1>8, <1>9, <1>10

\* No task is in a group that is only now made.
LEMMA DueJoins ==
  ASSUME DispTypeOK, Forest, NEW k \in Group, JoinsParent(k), NEW g, Due(g)
  PROVE  Due(g)'
<1> USE DEF JoinsParent
<1>1. Made' = Made \cup {k} /\ k \notin Made /\ k # Root  BY DEF Made, DispTypeOK, Forest
<1>2. \A x \in Made : Parent(x)' = Parent(x) /\ x \in Group /\ group[x].at = "made"
  BY DEF Parent, GroupOf, Made, DispTypeOK
<1>3. \A x \in Made \ {Root} : Parent(x) # k
  <2> TAKE x \in Made \ {Root}
  <2>1. group[x].by = Main => Parent(x) = Root  BY DEF Parent, GroupOf
  <2>2. group[x].by # Main => group[x].by \in Started  BY <1>2 DEF Forest, DispTypeOK
  <2> QED BY <1>1, <2>1, <2>2 DEF Parent, GroupOf, Forest
<1>4. ASSUME NEW C \in SUBSET Group, Closed(C)', g \in C PROVE C \cap walk # {}
  <2>1. Closed(C \ {k})  BY <1>1, <1>2, <1>3, <1>4 DEF Closed
  <2>2. g \in C \ {k}  BY <1>1, <1>4 DEF Due
  <2> QED BY <2>1, <2>2 DEF Due
<1> QED BY <1>1, <1>4 DEF Due

LEMMA JoinsInv == ASSUME DispInv, NEW g \in Group, JoinsParent(g) PROVE DispInv'
<1> USE DEF DispInv, JoinsParent
<1>1. DispTypeOK'  BY ZenonT(30) DEF DispTypeOK
<1>2. /\ group'[g].at = "made" /\ \A h \in Group : h # g => group'[h].at = group[h].at
      /\ \A h \in Group : group'[h].by = group[h].by /\ group'[h].using = group[h].using
                        /\ group'[h].onLog = group[h].onLog
  BY DEF DispTypeOK
<1>3. Started' = Started /\ Made' = Made \cup {g}  BY <1>2 DEF Started, Made
<1>4. \A t \in Started : Maker(t)' = Maker(t)  BY <1>2 DEF Maker, Forest, Made
<1>5. Forest'
  <2>1. Grounded'  BY <1>3, <1>4 DEF Forest, Grounded
  <2> QED BY <1>2, <1>3, <2>1 DEF Forest
<1>6. Handlers'  BY <1>2, <1>3 DEF Handlers
<1>7. RowsAreOne'
  <2>1. \A h : Due(h) => Due(h)'  BY DueJoins
  <2>2. \A t \in bars : task[t].group \in Made  BY DEF RowsAreOne, Forest
  <2>3. \A t \in bars : Live(t)' => Live(t)  BY <2>2 DEF Live
  <2>4. walk' # {} \/ snap' # {} => \A t \in bars' : Live(t)' => t \in snap' \/ Due(task[t].group)'
    BY <2>1, <2>3 DEF RowsAreOne
  <2> QED BY <1>3, <2>4 DEF RowsAreOne
<1> QED BY <1>1, <1>5, <1>6, <1>7

-----------------------------------------------------------------------------
(* The walk.                                                               *)

\* Every group that there is hangs on the root.
LEMMA UpToRoot ==
  ASSUME DispTypeOK, Forest, NEW C \in SUBSET Group, Closed(C), C # {}
  PROVE  Root \in C
<1> SUFFICES ASSUME Root \notin C PROVE FALSE  OBVIOUS
<1> DEFINE S == {group[x].by : x \in C}
<1>1. \A x \in C : x \in Group /\ group[x].at = "made" /\ Parent(x) \in C  BY DEF Closed, Made
<1>2. \A x \in C : group[x].by \in Started /\ group[x].by # Main /\ task[group[x].by].group = Parent(x)
  <2> TAKE x \in C
  <2>1. group[x].by # Main  BY <1>1 DEF Parent, GroupOf
  <2>2. group[x].by \in Task  BY <1>1, <2>1 DEF DispTypeOK
  <2> QED BY <1>1, <2>1, <2>2 DEF Forest, Parent, GroupOf
<1>3. S \in SUBSET Started /\ S # {}  BY <1>2
<1>4. PICK t \in S : Maker(t) \notin S  BY <1>3 DEF Forest, Grounded
<1>5. PICK x \in C : t = group[x].by  BY <1>4
<1> QED BY <1>1, <1>2, <1>4, <1>5 DEF Maker

LEMMA TickUIInv == ASSUME DispInv, TickUI PROVE DispInv'
<1> USE DEF DispInv, TickUI
<1>1. DispTypeOK'  BY DisplayAssumption DEF DispTypeOK
<1>2. SameShape  BY DEF SameShape
<1>3. Forest'  BY <1>2, ForestKept DEF Forest
<1>4. Started' = Started /\ Made' = Made  BY DEF Started, Made
<1>5. Handlers'  BY <1>4 DEF Handlers
<1>6. RowsAreOne'
  <2>1. ASSUME NEW g \in Made PROVE Due(g)'
    <3>1. \A C : Closed(C)' <=> Closed(C)  BY <1>4 DEF Closed, Parent, GroupOf
    <3> QED BY <1>4, <2>1, <3>1, UpToRoot DEF Due
  <2>2. \A t \in bars : task[t].group \in Made  BY DEF RowsAreOne, Forest
  <2>3. Root \in Made  BY DisplayAssumption DEF Made, Forest
  <2> QED BY <1>4, <2>1, <2>2, <2>3 DEF RowsAreOne
<1> QED BY <1>1, <1>3, <1>5, <1>6

LEMMA DueVisit ==
  ASSUME DispTypeOK, NEW h \in Group, Visit(h), NEW g, Due(g), g # h
  PROVE  Due(g)'
<1> USE DEF Visit
<1>1. Made' = Made /\ \A C : Closed(C)' <=> Closed(C)  BY DEF Made, Closed, Parent, GroupOf
<1>2. ASSUME NEW C \in SUBSET Group, Closed(C), g \in C, C \cap walk' = {} PROVE FALSE
  <2>1. \A x \in C \ {Root} : x \in Made /\ Parent(x) \in C  BY <1>2 DEF Closed
  <2>2. \A x \in C \ {Root} : Parent(x) # h  BY <1>2, <2>1 DEF Kids, Parent
  <2>3. Closed(C \ {h})  BY <1>2, <2>1, <2>2 DEF Closed
  <2>4. C \ {h} \in SUBSET Group /\ g \in C \ {h}  BY <1>2
  <2>5. (C \ {h}) \cap walk # {}  BY <2>3, <2>4 DEF Due
  <2> QED BY <1>2, <2>5
<1> QED BY <1>1, <1>2 DEF Due

LEMMA VisitInv == ASSUME DispInv, NEW g \in Group, Visit(g) PROVE DispInv'
<1> USE DEF DispInv, Visit
<1>1. DispTypeOK'  BY DEF DispTypeOK, Kids, Made
<1>2. SameShape  BY DEF SameShape
<1>3. Forest'  BY <1>2, ForestKept DEF Forest
<1>4. Started' = Started /\ Made' = Made  BY DEF Started, Made
<1>5. Handlers'  BY <1>4 DEF Handlers
<1>6. RowsAreOne'
  <2>1. \A t \in bars : t \in Started /\ t \in Task /\ task[t].total = 1  BY DEF RowsAreOne, DispTypeOK
  <2>2. ASSUME NEW t \in bars, Live(t) PROVE t \in snap' \/ Due(task[t].group)'
    <3>1. t \in snap \/ Due(task[t].group)  BY <2>2 DEF RowsAreOne
    <3>2. task[t].group = g => t \in snap'  BY <2>1, <2>2
    <3> QED BY <3>1, <3>2, DueVisit
  <2>3. \A t \in bars' : Live(t)' => t \in snap' \/ Due(task[t].group)'  BY <1>4, <2>2 DEF Live
  <2>4. walk' \subseteq Made  BY DEF RowsAreOne, Kids
  <2>5. \A t \in snap' \ {NotYet} : t \in snap \ {NotYet} \/ (t \in Task /\ Live(t) /\ task[t].total > 0)
    OBVIOUS
  <2>6. \A t \in snap' \ {NotYet} : t \in Started' /\ task'[t].total = 1
    BY <1>4, <2>5 DEF RowsAreOne, Live, Started, DispTypeOK
  <2>7. \A n \in DOMAIN order : order[n] \in Task  BY DEF DispTypeOK
  <2>8. \A n \in DOMAIN order : order[n] \notin bars => task[order[n]].at = "done" /\ order[n] \notin snap'
    BY <2>5, <2>7, DisplayAssumption DEF RowsAreOne, Live
  <2> QED BY <1>4, <2>3, <2>4, <2>6, <2>8 DEF RowsAreOne
<1> QED BY <1>1, <1>3, <1>5, <1>6

-----------------------------------------------------------------------------
(* The bars.                                                               *)

\* A sequence of a finite set's elements, each once, has all of them.
LEMMA SeqsOfSet ==
  ASSUME NEW S, IsFiniteSet(S), NEW f \in SetToSeqs(S)
  PROVE  /\ f \in Seq(S)
         /\ \A m, n \in DOMAIN f : f[m] = f[n] => m = n
         /\ \A x \in S : \E n \in DOMAIN f : f[n] = x
<1> DEFINE D == 1..Cardinality(S)
<1>1. Cardinality(S) \in Nat  BY FS_CardinalityType
<1>2. f \in [D -> S] /\ \A i, j \in D : i # j => f[i] # f[j]  BY DEF SetToSeqs
<1>3. f \in Injection(D, S)  BY <1>2 DEF Injection, IsInjective
<1>4. Cardinality(D) = Cardinality(S)  BY <1>1, FS_Interval
<1>5. f \in Surjection(D, S)  BY <1>3, <1>4, FS_Injection
<1>6. \A x \in S : \E n \in D : f[n] = x  BY <1>5 DEF Surjection
<1> QED BY <1>1, <1>2, <1>6

\* What is appended is new, and what has a bar is kept in its order.
LEMMA RowsOfSync ==
  ASSUME NEW T, NEW o \in Seq(T), \A m, n \in DOMAIN o : o[m] = o[n] => m = n,
         NEW b, NEW p \in Compacted(o, b)
  PROVE  /\ p \in Seq(T)
         /\ \A m, n \in DOMAIN p : p[m] = p[n] => m = n
         /\ \A n \in DOMAIN p : \E m \in DOMAIN o : p[n] = o[m]
         /\ \A m \in DOMAIN o : o[m] \in b => \E n \in DOMAIN p : p[n] = o[m]
<1> DEFINE left == {n \in 1..Len(o) : Len(o) > Cardinality(b) + Slack => o[n] \in b}
<1>1. PICK f \in SetToSeqs(left) : p = [n \in DOMAIN f |-> o[f[n]]]  BY DEF Compacted
<1>2. Len(o) \in Nat /\ DOMAIN o = 1..Len(o)  OBVIOUS
<1>3. left \in SUBSET (1..Len(o)) /\ IsFiniteSet(left)
  <2>1. IsFiniteSet(1..Len(o))  BY <1>2, FS_Interval
  <2> QED BY <2>1, FS_Subset
<1>4. \A n \in DOMAIN o : o[n] \in b => n \in left  BY <1>2
<1> HIDE DEF left
<1>5. f \in Seq(left) /\ (\A m, n \in DOMAIN f : f[m] = f[n] => m = n)
      /\ \A x \in left : \E n \in DOMAIN f : f[n] = x
  BY <1>3, SeqsOfSet
<1>6. \A n \in DOMAIN f : f[n] \in left /\ f[n] \in DOMAIN o
  <2>1. \A n \in DOMAIN f : f[n] \in left  BY <1>5
  <2> QED BY <1>2, <1>3, <2>1
<1>7. DOMAIN p = DOMAIN f /\ \A n \in DOMAIN f : p[n] = o[f[n]]  BY <1>1
<1>8. p \in Seq(T)
  <2>1. DOMAIN p = 1..Len(f) /\ Len(f) \in Nat  BY <1>5, <1>7
  <2>2. \A n \in DOMAIN p : p[n] \in T  BY <1>2, <1>6, <1>7
  <2>3. p \in [1..Len(f) -> T]  BY <1>1, <2>1, <2>2
  <2> QED BY <2>1, <2>3
<1>9. ASSUME NEW m \in DOMAIN p, NEW n \in DOMAIN p, p[m] = p[n] PROVE m = n
  BY <1>5, <1>6, <1>7, <1>9
<1>10. \A m \in DOMAIN o : o[m] \in b => \E n \in DOMAIN p : p[n] = o[m]
  BY <1>4, <1>5, <1>7
<1> QED BY <1>6, <1>7, <1>8, <1>9, <1>10

\* One after the other, no element of both.
LEMMA RowsAppended ==
  ASSUME NEW T, NEW o \in Seq(T), NEW q \in Seq(T),
         \A m, n \in DOMAIN o : o[m] = o[n] => m = n,
         \A m, n \in DOMAIN q : q[m] = q[n] => m = n,
         \A m \in DOMAIN o : \A n \in DOMAIN q : o[m] # q[n]
  PROVE  /\ o \o q \in Seq(T)
         /\ \A m, n \in DOMAIN (o \o q) : (o \o q)[m] = (o \o q)[n] => m = n
         /\ \A n \in DOMAIN (o \o q) : (\E m \in DOMAIN o : (o \o q)[n] = o[m])
                                    \/ \E m \in DOMAIN q : (o \o q)[n] = q[m]
         /\ \A m \in DOMAIN o : \E n \in DOMAIN (o \o q) : (o \o q)[n] = o[m]
         /\ \A m \in DOMAIN q : \E n \in DOMAIN (o \o q) : (o \o q)[n] = q[m]
<1>1. /\ o \o q \in Seq(T) /\ Len(o \o q) = Len(o) + Len(q) /\ Len(o) \in Nat /\ Len(q) \in Nat
      /\ DOMAIN (o \o q) = 1..(Len(o) + Len(q)) /\ DOMAIN o = 1..Len(o) /\ DOMAIN q = 1..Len(q)
  OBVIOUS
<1>2. \A n \in 1..(Len(o) + Len(q)) :
        (o \o q)[n] = IF n <= Len(o) THEN o[n] ELSE q[n - Len(o)]
  OBVIOUS
<1>3. \A n \in DOMAIN (o \o q) : IF n <= Len(o) THEN n \in DOMAIN o ELSE n - Len(o) \in DOMAIN q
  BY <1>1
<1>4. ASSUME NEW m \in DOMAIN (o \o q), NEW n \in DOMAIN (o \o q), (o \o q)[m] = (o \o q)[n]
      PROVE  m = n
  <2>1. CASE m <= Len(o) /\ n <= Len(o)  BY <1>1, <1>2, <1>3, <1>4, <2>1
  <2>2. CASE m <= Len(o) /\ ~(n <= Len(o))  BY <1>1, <1>2, <1>3, <1>4, <2>2
  <2>3. CASE ~(m <= Len(o)) /\ n <= Len(o)  BY <1>1, <1>2, <1>3, <1>4, <2>3
  <2>4. CASE ~(m <= Len(o)) /\ ~(n <= Len(o))
    <3>1. m - Len(o) = n - Len(o)  BY <1>1, <1>2, <1>3, <1>4, <2>4
    <3> QED BY <1>1, <3>1
  <2> QED BY <2>1, <2>2, <2>3, <2>4
<1>5. \A n \in DOMAIN (o \o q) : (\E m \in DOMAIN o : (o \o q)[n] = o[m])
                              \/ \E m \in DOMAIN q : (o \o q)[n] = q[m]
  BY <1>1, <1>2, <1>3
<1>6. \A m \in DOMAIN o : m \in DOMAIN (o \o q) /\ (o \o q)[m] = o[m]  BY <1>1, <1>2
<1>7. \A m \in DOMAIN q : m + Len(o) \in DOMAIN (o \o q) /\ (o \o q)[m + Len(o)] = q[m]
  BY <1>1, <1>2
<1> QED BY <1>1, <1>4, <1>5, <1>6, <1>7

LEMMA SyncInv == ASSUME DispInv, Sync PROVE DispInv'
<1> USE DEF DispInv, Sync
<1>1. SameShape  BY DEF SameShape
<1>2. Forest'  BY <1>1, ForestKept DEF Forest
<1>3. Started' = Started /\ Made' = Made  BY DEF Started, Made
<1>4. Handlers'  BY <1>3 DEF Handlers
<1>5. bars' \subseteq Started /\ bars' \subseteq Task  BY DEF RowsAreOne, DispTypeOK
<1>6. IsFiniteSet(bars' \ bars)  BY <1>5, DisplayAssumption, FS_Subset
<1>7. PICK new \in SetToSeqs(bars' \ bars) : order' \in Compacted(order \o new, bars')  OBVIOUS
<1>8. /\ new \in Seq(bars' \ bars)
      /\ \A m, n \in DOMAIN new : new[m] = new[n] => m = n
      /\ \A x \in bars' \ bars : \E n \in DOMAIN new : new[n] = x
  BY <1>6, SeqsOfSet
<1>9. \A n \in DOMAIN new : new[n] \in bars' \ bars  BY <1>8
<1>10. \A m \in DOMAIN order : \A n \in DOMAIN new : order[m] # new[n]  BY <1>9 DEF RowsAreOne
<1>11. order \in Seq(Task) /\ new \in Seq(Task)  BY <1>5, <1>8 DEF DispTypeOK
<1> DEFINE all == order \o new
<1>12. /\ all \in Seq(Task)
       /\ \A m, n \in DOMAIN all : all[m] = all[n] => m = n
       /\ \A n \in DOMAIN all : (\E m \in DOMAIN order : all[n] = order[m])
                             \/ \E m \in DOMAIN new : all[n] = new[m]
       /\ \A m \in DOMAIN order : \E n \in DOMAIN all : all[n] = order[m]
       /\ \A m \in DOMAIN new : \E n \in DOMAIN all : all[n] = new[m]
  BY <1>8, <1>10, <1>11, RowsAppended DEF RowsAreOne
<1> HIDE DEF all
<1>13. order' \in Compacted(all, bars')  BY <1>7 DEF all
<1>14. /\ order' \in Seq(Task)
       /\ \A m, n \in DOMAIN order' : order'[m] = order'[n] => m = n
       /\ \A n \in DOMAIN order' : \E m \in DOMAIN all : order'[n] = all[m]
       /\ \A m \in DOMAIN all : all[m] \in bars' => \E n \in DOMAIN order' : order'[n] = all[m]
  BY <1>12, <1>13, RowsOfSync
<1>15. DispTypeOK'  BY <1>5, <1>14 DEF DispTypeOK
<1>16. \A n \in DOMAIN order' : (\E m \in DOMAIN order : order'[n] = order[m]) \/ order'[n] \in bars'
  BY <1>9, <1>12, <1>14
<1>17. \A t \in bars \ bars' : task[t].at = "done"
  <2> TAKE t \in bars \ bars'
  <2>1. t \in Task /\ t \in Started /\ task[t].group \in Made  BY DEF RowsAreOne, DispTypeOK, Forest
  <2>2. t \notin snap  BY <2>1, DisplayAssumption
  <2>3. ~Due(task[t].group)
    <3> SUFFICES ASSUME Due(task[t].group) PROVE FALSE  OBVIOUS
    <3>1. Closed(Made)
      <4> SUFFICES ASSUME NEW x \in Made \ {Root} PROVE Parent(x) \in Made  BY DEF Closed
      <4>1. group[x].by \in Task \cup {Main} /\ x \in Group /\ group[x].at = "made"
        BY DEF Made, DispTypeOK
      <4>2. CASE group[x].by = Main  BY <4>2, DisplayAssumption DEF Parent, GroupOf, Forest, Made
      <4>3. CASE group[x].by \in Task
        BY <4>1, <4>3, DisplayAssumption DEF Parent, GroupOf, Forest
      <4> QED BY <4>1, <4>2, <4>3
    <3>2. Made \in SUBSET Group  BY DEF Made
    <3> QED BY <2>1, <3>1, <3>2 DEF Due
  <2>4. ~Live(t)  BY <2>2, <2>3 DEF RowsAreOne
  <2> QED BY <2>1, <2>4 DEF Live, Started, DispTypeOK
<1>18. \A m \in DOMAIN order : /\ order[m] \in Started /\ task[order[m]].total = 1
                               /\ order[m] \notin bars' => task[order[m]].at = "done"
  BY <1>17 DEF RowsAreOne
<1>19. \A t \in bars' : task[t].total = 1  BY DEF RowsAreOne
<1>20. ASSUME NEW t \in bars' PROVE \E n \in DOMAIN order' : order'[n] = t
  <2>1. \E n \in DOMAIN all : all[n] = t
    <3>1. CASE t \in bars  BY <1>12, <3>1 DEF RowsAreOne
    <3>2. CASE t \notin bars  BY <1>8, <1>12, <3>2
    <3> QED BY <3>1, <3>2
  <2> QED BY <1>14, <2>1
<1>21. RowsAreOne'
  <2>1. walk' = {} /\ snap' = {}  OBVIOUS
  <2>2. \A n \in DOMAIN order' : /\ order'[n] \in Started /\ task[order'[n]].total = 1
                                 /\ order'[n] \notin bars' => task[order'[n]].at = "done"
    BY <1>5, <1>16, <1>18, <1>19
  <2> QED BY <1>3, <1>14, <1>20, <2>1, <2>2 DEF RowsAreOne
<1> QED BY <1>2, <1>4, <1>15, <1>21

-----------------------------------------------------------------------------

LEMMA DispInvInductive == DispInv /\ [DispNext]_dispVars => DispInv'
<1> SUFFICES ASSUME DispInv, [DispNext]_dispVars PROVE DispInv'  OBVIOUS
<1>1. CASE SetsUsing \/ SetLogHandler \/ TeardownUI \/ TickUI \/ Sync
  BY <1>1, SetsUsingInv, SetLogHandlerInv, TeardownInv, TickUIInv, SyncInv
<1>2. CASE \E g \in Group : JoinsParent(g) \/ Visit(g)  BY <1>2, JoinsInv, VisitInv
<1>3. CASE \E g \in Group : \E w \in Task \cup {Main} :
             CopiesParent(w, g) \/ \E t \in Task : Go(w, g, t)
  BY <1>3, CopiesInv, GoInv
<1>4. CASE \E t \in Task : Progress(t) \/ Finish(t) \/ Log(t)  BY <1>4, ProgressInv, FinishInv, LogInv
<1>5. CASE UNCHANGED dispVars
  <2> USE <1>5 DEF dispVars
  <2>1. DispTypeOK'  BY DEF DispInv, DispTypeOK
  <2>2. SameShape  BY DEF SameShape
  <2>3. Forest'  BY <2>2, ForestKept DEF DispInv, Forest
  <2>4. Started' = Started /\ Made' = Made /\ \A x \in Made : Parent(x)' = Parent(x)
    BY <2>2, ShapeKeeps DEF DispInv
  <2>5. Handlers'  BY <2>4 DEF DispInv, Handlers
  <2>6. RowsAreOne'  BY <2>4, RowsKept DEF DispInv
  <2> QED BY <2>1, <2>3, <2>5, <2>6 DEF DispInv
<1> QED BY <1>1, <1>2, <1>3, <1>4, <1>5 DEF DispNext

LEMMA RowsOfBars == DispInv => ShownOnce
<1> SUFFICES ASSUME DispInv PROVE ShownOnce  OBVIOUS
<1>1. ASSUME NEW t \in bars PROVE Cardinality(Rows(t)) = 1
  <2>1. order \in Seq(Task) /\ DOMAIN order = 1..Len(order)  BY DEF DispInv, DispTypeOK
  <2>2. PICK n \in DOMAIN order : order[n] = t  BY DEF DispInv, RowsAreOne
  <2>3. Rows(t) = {n}  BY <2>1, <2>2 DEF Rows, DispInv, RowsAreOne
  <2> QED BY <2>3, FS_Singleton
<1> QED BY <1>1 DEF ShownOnce, DispInv, Handlers

\* However groups are made before and after the UI is there, and tasks log,
\* tick and end: a record is written once, to the UI while it is there and
\* else to stderr, and a bar has one row.
THEOREM RecordsAreShownOnce == DispSpec => []ShownOnce
<1>1. DispInit => DispInv  BY DispInitInv
<1>2. DispInv /\ [DispNext]_dispVars => DispInv'  BY DispInvInductive
<1>3. DispInv => ShownOnce  BY RowsOfBars
<1> QED BY <1>1, <1>2, <1>3, PTL DEF DispSpec
=============================================================================
