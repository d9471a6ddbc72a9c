------------------------------ MODULE Sources ------------------------------
(***************************************************************************)
(* Where a reference leads.  An input names a source (self, a directory, a *)
(* GitHub repository), a module and an item of core:place say where in it  *)
(* they live.  Three pieces of code follow such references: the loader of  *)
(* the configuration, which takes a module's schema from the directory and *)
(* tells the configuration the path of every input; the resolver of        *)
(* modules, whose answer is where the files come from; and the resolver of *)
(* an item's reference.                                                    *)
(*                                                                         *)
(* A reference "head:a:b" is a head and what follows it, segment by        *)
(* segment; a segment is a path and perhaps a pin, "path@version".         *)
(***************************************************************************)
EXTENDS Naturals, Sequences, FiniteSets

CONSTANTS
  Alias,         \* names an input may have, but self
  Reference,     \* references an input or a module may state
  Path,          \* paths a module may state
  InputVersion,  \* versions an input may ask for
  ModuleName,    \* name of the module
  Item,          \* references an item of core:place may state
  Locked,        \* lock files: the reference locked for each repository
  Unstated

\* A reference as it is written: a head and at most one path, which has no colon.
\* An item's is never looked at for a version.
Written == [head : STRING, right : Seq([at : Seq(STRING), pin : InputVersion \cup {Unstated}])]
Self == [head |-> "self", right |-> <<>>]

ASSUME SourcesAssumption ==
  /\ Reference \cup Item \subseteq Written /\ \A s \in Reference \cup Item : Len(s.right) <= 1
  /\ \A s \in Item : \A i \in DOMAIN s.right : s.right[i].pin = Unstated
  /\ Alias \subseteq STRING \ {"self"} /\ ModuleName \in STRING /\ Path \subseteq Seq(STRING)
  /\ Unstated \notin InputVersion \cup Path \cup Written \cup {Self}
  /\ \A l \in Locked : DOMAIN l \subseteq Seq(STRING)

VARIABLES
  inputs, entry, itemRef, lockRows,  \* the configuration, an item, the lock file
  phase, runtime, schema, files, target  \* how far the plan is; its answers

srcVars == <<inputs, entry, itemRef, lockRows, phase, runtime, schema, files, target>>

Config == <<inputs, entry, itemRef, lockRows>>

-----------------------------------------------------------------------------
(* References and places.                                                  *)

Segment(p) == <<[at |-> p, pin |-> Unstated]>>
IsBlank(right) == Len(right) = 1 /\ right[1].at = <<>>
HasPin(right) == \E i \in DOMAIN right : right[i].pin # Unstated

Place(under, at) == [under |-> under, at |-> <<at>>]
Workspace == Place("workspace", <<>>)
ModulesBase == Place("workspace", <<"modules">>)
\* The cache directory of a key: a repository at a reference.
Checkout(repo, pin, ref) == Place(<<"cache", repo, pin, ref>>, <<>>)

\* A colon in what is joined ends up in the name of a directory.
Join(base, right) ==
  [base EXCEPT !.at = <<base.at[1] \o right[1].at>> \o [i \in DOMAIN Tail(right) |-> Tail(right)[i].at]]

Unresolved == [kind |-> "error"]
Foreign == [kind |-> "foreign"]  \* for a module provider that does not exist
FoundAt(p) == [kind |-> "at", place |-> p]
\* Only self and core provide modules; neither takes a version.
Provided(p, right) == IF HasPin(right) THEN Unresolved ELSE FoundAt(p)

\* A reference whose head is one of these is not looked up among the inputs.
Direct == {"self", "core", "registry", "http", "https", "github", "local"}
DefaultPath == <<"modules", ModuleName>>

-----------------------------------------------------------------------------
(* The sources of a configuration.                                         *)

\* What `from` says, with the version of the input in place of its own.  A
\* path is the local one's, a repository is GitHub's.
ParseSource(from, version) ==
  LET what == IF from.right = <<>> THEN <<>> ELSE from.right[1].at IN
  [provider |-> from.head, ref |-> version,
   repo |-> IF from.head = "github" THEN what ELSE <<>>,
   path |-> IF from.head = "github" THEN <<>> ELSE what]

Named == {n \in DOMAIN inputs : inputs[n].from # Unstated}
ModFile == [n \in Named |-> ParseSource(inputs[n].from, inputs[n].version)]

\* An input without a colon in `from` stops every reader of the inputs.
Readable == \A n \in Named : inputs[n].from = Self \/ ~ (inputs[n].from.right = <<>> \/ IsBlank(inputs[n].from.right))

\* A row of the lock is found by the name of its repository, and an input is
\* looked up by its own name.
FindSource(n) == {r \in DOMAIN lockRows : r = <<n>>}
Overlaid(n) ==
  LET s == ModFile[n] IN
  IF s.ref = Unstated /\ FindSource(n) # {} THEN [s EXCEPT !.ref = lockRows[<<n>>]] ELSE s
LockMismatch(n) ==
  FindSource(n) # {} /\ (ModFile[n].provider # "github" \/ ModFile[n].repo # <<n>> \/ ModFile[n].path # <<>>)

\* The directory of a source on this machine.
Base(s) ==
  IF s.path # <<>> THEN Place("workspace", s.path)
  ELSE IF s.provider = "local" THEN ModulesBase ELSE Workspace

-----------------------------------------------------------------------------
(* The resolver of modules.                                                *)

ResolveSource(spec) ==
  LET n == spec.head IN
  IF spec.right = <<>> \/ IsBlank(spec.right) THEN Unresolved
  ELSE IF n = "self" THEN Provided(Join(Workspace, spec.right), spec.right)
  ELSE IF n \in Direct THEN Foreign
  ELSE IF n \notin DOMAIN ModFile \/ LockMismatch(n) THEN Unresolved
  ELSE IF ModFile[n].provider \in {"self", "local"} THEN Provided(Join(Base(Overlaid(n)), spec.right), spec.right)
  ELSE IF ModFile[n].provider = "github" /\ ModFile[n].repo = <<>> THEN Unresolved
  ELSE Foreign

\* A path is added to a reference as one more segment.
Under(spec, path) == [spec EXCEPT !.right = @ \o Segment(path)]

ResolveEntry ==
  LET path == IF entry.path = Unstated THEN DefaultPath ELSE entry.path IN
  IF entry.from # Unstated THEN ResolveSource(entry.from)
  ELSE IF entry.input = Unstated \/ entry.input = Self THEN FoundAt(Join(Workspace, Segment(path)))
  ELSE IF entry.input.right # <<>>
    THEN ResolveSource(IF entry.path = Unstated THEN entry.input ELSE Under(entry.input, path))
  ELSE IF entry.input.head \notin Named THEN Unresolved
  ELSE ResolveSource(Under(inputs[entry.input.head].from, path))

-----------------------------------------------------------------------------
(* The loader.                                                             *)

\* The path is added to the reference unless it has the default's form.
LocalSpec(path, spec) ==
  IF spec.head # "self" THEN Unstated
  ELSE IF spec.right = <<>> \/ IsBlank(spec.right) THEN Join(Workspace, Segment(path))
  ELSE IF Len(path) = 2 /\ path[1] = "modules" THEN Join(Workspace, spec.right)
  ELSE Join(Join(Workspace, spec.right), Segment(path))

LocalModule ==
  LET path == IF entry.path = Unstated THEN DefaultPath ELSE entry.path IN
  IF entry.from # Unstated THEN LocalSpec(path, entry.from)
  ELSE IF entry.input = Unstated THEN LocalSpec(path, Self)
  ELSE IF entry.input.right # <<>> \/ entry.input = Self THEN LocalSpec(path, entry.input)
  ELSE IF entry.input.head \notin Named THEN Unstated
  ELSE LocalSpec(path, inputs[entry.input.head].from)

\* The path of an input is named by the text of the reference, pin and all.
AsWritten(s) == IF s.pin = Unstated THEN s.at ELSE Append(s.at, s.pin)
RuntimePath(n) ==
  LET from == inputs[n].from IN
  IF n = "self" \/ from = Self THEN Workspace
  ELSE IF from.head = "github" THEN Checkout(from.right[1].at, from.right[1].pin, inputs[n].version)
  ELSE IF from.head = "local" THEN Place("workspace", AsWritten(from.right[1]))
  ELSE Unstated

-----------------------------------------------------------------------------
(* The resolver of items.                                                  *)

\* Mutation: a directory is sought among the modules, not in the workspace.
ResolveRefInModules(ref) ==
  LET n == ref.head
      s == IF n \in DOMAIN ModFile THEN ModFile[n] ELSE ParseSource([head |-> n, right |-> <<>>], Unstated) IN
  IF ref.right = <<>> \/ IsBlank(ref.right) THEN [kind |-> "plain"]
  ELSE IF s.provider = "local" THEN FoundAt(Join(Join(ModulesBase, Segment(s.path)), ref.right))
  ELSE IF s.provider = "self" THEN FoundAt(Join(Base(s), ref.right))
  ELSE IF n \in DOMAIN ModFile THEN Unresolved ELSE [kind |-> "plain"]

ResolveRef(ref) ==
  LET n == ref.head
      s == IF n \in DOMAIN ModFile THEN ModFile[n] ELSE ParseSource([head |-> n, right |-> <<>>], Unstated) IN
  IF ref.right = <<>> \/ IsBlank(ref.right) THEN [kind |-> "plain"]
  ELSE IF s.provider = "github"
    THEN IF s.repo = <<>> THEN Unresolved ELSE FoundAt(Join(Checkout(s.repo, Unstated, s.ref), ref.right))
  ELSE IF s.provider \in {"local", "self"} THEN FoundAt(Join(Base(s), ref.right))
  ELSE IF n \in DOMAIN ModFile THEN Unresolved ELSE [kind |-> "plain"]

-----------------------------------------------------------------------------
(* A plan: the configuration is loaded, the module resolved, its items     *)
(* prepared.                                                               *)

\* `from` settles where a module is, so an entry states it or an input.
ModuleEntries ==
  {e \in [from : Reference \cup {Unstated},
          input : {Unstated, Self} \cup Reference \cup {[head |-> n, right |-> <<>>] : n \in Alias},
          path : Path \cup {Unstated}] : e.from = Unstated \/ e.input = Unstated}

\* A reference names at most one input: one besides self is enough.
InputSets ==
  UNION {[{"self"} \cup A -> [from : Reference \cup {Unstated, Self}, version : InputVersion \cup {Unstated}]] :
           A \in {{}} \cup {{n} : n \in Alias}}

SrcInit ==
  /\ inputs \in {i \in InputSets : i["self"] = [from |-> Self, version |-> Unstated]}
  /\ entry \in ModuleEntries /\ itemRef \in Item /\ lockRows \in Locked
  /\ phase = "load" /\ runtime = Unstated /\ schema = Unstated /\ files = Unstated /\ target = Unstated

Load ==
  /\ phase = "load"
  /\ IF Readable
     THEN /\ runtime' = [n \in Named |-> RuntimePath(n)] /\ schema' = LocalModule /\ phase' = "modules"
     ELSE phase' = "failed" /\ UNCHANGED <<runtime, schema>>
  /\ UNCHANGED <<Config, files, target>>

ScanModule ==
  /\ phase = "modules" /\ files' = ResolveEntry
  /\ phase' = IF files'.kind = "at" THEN "items" ELSE "failed"
  /\ UNCHANGED <<Config, runtime, schema, target>>

Prepare ==
  /\ phase = "items" /\ target' = ResolveRef(itemRef)
  /\ phase' = IF target'.kind = "error" THEN "failed" ELSE "done"
  /\ UNCHANGED <<Config, runtime, schema, files>>

SrcNext == Load \/ ScanModule \/ Prepare
SrcSpec == SrcInit /\ [][SrcNext]_srcVars

-----------------------------------------------------------------------------
(* Properties.                                                             *)

\* The entry says once where the module is: a path is stated for an input
\* that is a plain name, and the input's own reference has none.
SaysOnce ==
  /\ entry.path # Unstated => entry.from = Unstated /\ (entry.input = Unstated \/ entry.input.right = <<>>)
  /\ (entry.from = Unstated /\ entry.input # Unstated /\ entry.input.right = <<>> /\ entry.input.head \in Named) =>
       (inputs[entry.input.head].from.head = "self" => inputs[entry.input.head].from = Self)

\* All roads lead to one place.  The schema a module's configuration is checked
\* against is that of the directory its files come from; an item that names an
\* input ends up below the path the configuration was told for this input,
\* unless the input's reference carries a pin of its own; and a module and an
\* item that state the same reference mean the same directory.
RoadsMeet ==
  /\ (phase \in {"items", "done"} /\ schema # Unstated /\ SaysOnce) => files = FoundAt(schema)
  /\ (phase = "done" /\ target.kind = "at" /\ itemRef.head \in Named) =>
       /\ (runtime[itemRef.head] # Unstated /\ ~ HasPin(inputs[itemRef.head].from.right))
            => target.place = Join(runtime[itemRef.head], itemRef.right)
       /\ (entry.from = itemRef => files = target)
=============================================================================
