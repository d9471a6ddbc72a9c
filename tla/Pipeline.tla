------------------------------ MODULE Pipeline ------------------------------
(***************************************************************************)
(* What an apply wants to be there.  The plugins of the pipeline gather    *)
(* the files of the config tree and of the enabled modules, whose workers  *)
(* run in parallel; expand templates; put .d.tmpl directories together;    *)
(* and refuse two files of one path.  A bundle of icons is generated once  *)
(* per fingerprint, beside the cache, and moved into it.  The dconf marker *)
(* is a file like the others, and a hook loads dconf when it changed.      *)
(*                                                                         *)
(* Paths are sequences of names.  A template's text is known by the module *)
(* whose configuration it was rendered with.                               *)
(***************************************************************************)
EXTENDS Naturals, Sequences, FiniteSets, Functions, SequencesExt

CONSTANTS
  Module,           \* enabled modules: numbers, in the order of their names
  Provider,         \* "self", "place" or "icons"
  Tree, Files,      \* files of the config tree, and what a self module may hold
  Origin,           \* what each place module's source holds
  PlaceSteps,       \* its steps
  Bundle, Icon,     \* each icon module's fingerprint, and the icons of a theme
  Names,            \* the files that a multi-file template yields
  Relocated,        \* BOOLEAN: codebase apply, not home apply
  Setting,          \* dconf contents
  Vacant, MaxApplies, MaxPipelineFaults

ASSUME PipelineAssumption ==
  /\ Module \subseteq Nat \ {0}
  /\ Provider \in [Module -> {"self", "place", "icons"}]
  /\ Vacant \notin [icons : SUBSET Icon, index : BOOLEAN]
  /\ Relocated \in BOOLEAN /\ {MaxApplies, MaxPipelineFaults} \subseteq Nat

VARIABLES
  step,       \* where the apply is
  worker,     \* each module's worker
  batch,      \* the files it has resolved
  sink,       \* warnings collected
  sinkRead,   \* those a worker has read to add its own
  theme,      \* each fingerprint's work, cache and old directories
  drawn,      \* the icons a worker has drawn
  desired,    \* what the pipeline returned
  dconf,      \* contents wanted, in the marker, in the managed marker, loaded
  budget      \* bounds: applies and faults

pipelineVars == <<step, worker, batch, sink, sinkRead, theme, drawn, desired, dconf, budget>>

Fingerprint == {Bundle[m] : m \in {n \in Module : Provider[n] = "icons"}}
Empty == [icons |-> {}, index |-> FALSE]

PipelineInit ==
  /\ step = "idle"
  /\ worker = [m \in Module |-> "none"]
  /\ batch = [m \in Module |-> <<>>]
  /\ sink = {} /\ sinkRead = [m \in Module |-> Vacant]
  /\ theme = [f \in Fingerprint |-> [work |-> Vacant, cache |-> Vacant, old |-> Vacant]]
  /\ drawn = [m \in Module |-> {}]
  /\ desired = <<>>
  /\ dconf \in {[wanted |-> s, marker |-> Vacant, managed |-> Vacant, loaded |-> Vacant] : s \in Setting}
  /\ budget = [applies |-> 0, faults |-> 0]

PipelineFault == budget.faults < MaxPipelineFaults /\ budget' = [budget EXCEPT !.faults = @ + 1]

-----------------------------------------------------------------------------
(* core:place.  Steps rewrite the tree of an origin before it is placed.   *)

Entries(m) == [at |-> Origin[m], warned |-> FALSE, ok |-> TRUE]

Move(t, s) ==
  LET moving == {e \in t.at : IsPrefix(s.from, e.rel)}
      moved == {[e EXCEPT !.rel = s.to \o SubSeq(@, Len(s.from) + 1, Len(@))] : e \in moving}
      hit == {e \in t.at \ moving : \E n \in moved : n.rel = e.rel}
  IN [t EXCEPT !.at = ((@ \ moving) \ hit) \cup moved, !.warned = @ \/ moving = {} \/ hit # {}]

Require(t, s) == [t EXCEPT !.ok = @ /\ ((\E e \in t.at : e.rel = s.from) # s.negate)]

Apply(t, s) == IF s.op = "move" THEN Move(t, s) ELSE Require(t, s)
Placed(m) == FoldLeft(Apply, Entries(m), PlaceSteps[m])

Static(path, m, src) == [path |-> path, kind |-> "static", part |-> 0, scope |-> m, src |-> src]
PlacedFiles(m) == SetToSeq({Static(e.rel, m, e.src) : e \in Placed(m).at})

-----------------------------------------------------------------------------
(* The module scanner: one worker per module.                              *)

Scanning(m, at) == step = "modules" /\ worker[m] = at
WorkerTo(m, at) == worker' = [worker EXCEPT ![m] = at]
Warns(m) == Provider[m] = "place" /\ Placed(m).warned

BeginApply ==
  /\ step = "idle" /\ budget.applies < MaxApplies
  /\ budget' = [budget EXCEPT !.applies = @ + 1]
  /\ step' = "modules"
  /\ worker' = [m \in Module |-> "started"] /\ batch' = [m \in Module |-> <<>>]
  /\ sink' = {} /\ sinkRead' = [m \in Module |-> Vacant] /\ desired' = <<>>
  /\ drawn' = [m \in Module |-> {}]
  /\ UNCHANGED <<theme, dconf>>

\* A self module without a module.cue, or with a stray file, is refused; so is
\* an origin that lacks what a step requires.
ResolveModule(m) ==
  /\ Scanning(m, "started") /\ Provider[m] # "icons"
  /\ IF Provider[m] = "place" /\ ~Placed(m).ok
       THEN WorkerTo(m, "failed") /\ UNCHANGED batch
       ELSE /\ \E fs \in IF Provider[m] = "place" THEN {PlacedFiles(m)} ELSE Files[m] :
                 batch' = [batch EXCEPT ![m] = fs]
            /\ WorkerTo(m, IF Warns(m) THEN "warning" ELSE "resolved")
  /\ UNCHANGED <<step, sink, sinkRead, theme, drawn, desired, dconf, budget>>

ModuleFails(m) ==
  /\ Scanning(m, "started") /\ PipelineFault /\ WorkerTo(m, "failed")
  /\ UNCHANGED <<step, batch, sink, sinkRead, theme, drawn, desired, dconf>>

\* *sink = append(*sink, msg): read, then write.
ReadSink(m) ==
  /\ Scanning(m, "warning") /\ sinkRead[m] = Vacant
  /\ sinkRead' = [sinkRead EXCEPT ![m] = sink]
  /\ UNCHANGED <<step, worker, batch, sink, theme, drawn, desired, dconf, budget>>

AppendWarning(m) ==
  /\ Scanning(m, "warning") /\ sinkRead[m] # Vacant
  /\ sink' = sinkRead[m] \cup {m} /\ WorkerTo(m, "resolved")
  /\ UNCHANGED <<step, batch, sinkRead, theme, drawn, desired, dconf, budget>>

-----------------------------------------------------------------------------
(* core:base16-icons-linux.                                                *)

Work(m) == theme[Bundle[m]].work
Cached(m) == theme[Bundle[m]].cache
Still == UNCHANGED <<step, batch, sink, sinkRead, desired, dconf>>

\* An index in the cache means that it is warm.
FindBundle(m) ==
  /\ Scanning(m, "started") /\ Provider[m] = "icons"
  /\ Cached(m) # Vacant /\ Cached(m).index
  /\ WorkerTo(m, "listing") /\ Still /\ UNCHANGED <<theme, drawn, budget>>

\* Cold, or --no-cache: the work directory of the fingerprint is emptied.
WipeWork(m) ==
  /\ Scanning(m, "started") /\ Provider[m] = "icons"
  /\ theme' = [theme EXCEPT ![Bundle[m]].work = Empty]
  /\ WorkerTo(m, "drawing") /\ Still /\ UNCHANGED <<drawn, budget>>

\* The icons of a theme are drawn in parallel.
DrawIcon(m, i) ==
  LET w == IF Work(m) = Vacant THEN Empty ELSE Work(m) IN
  /\ Scanning(m, "drawing") /\ i \notin drawn[m]
  /\ theme' = [theme EXCEPT ![Bundle[m]].work = [w EXCEPT !.icons = @ \cup {i}]]
  /\ drawn' = [drawn EXCEPT ![m] = @ \cup {i}]
  /\ Still /\ UNCHANGED <<worker, budget>>

\* Mutation: A theme is published without the icon that failed.
DrawFailsAnyway(m) ==
  /\ Scanning(m, "drawing") /\ PipelineFault /\ Work(m) # Vacant
  /\ theme' = [theme EXCEPT ![Bundle[m]].work.index = TRUE]
  /\ WorkerTo(m, "replacing") /\ Still /\ UNCHANGED drawn

\* An icon that cannot be rendered ends the generation.
DrawFails(m) ==
  /\ Scanning(m, "drawing") /\ PipelineFault
  /\ theme' = [theme EXCEPT ![Bundle[m]].work = Vacant]
  /\ WorkerTo(m, "failed") /\ Still /\ UNCHANGED drawn

\* The index is written when every icon was drawn.
WriteIndexTheme(m) ==
  /\ Scanning(m, "drawing") /\ drawn[m] = Icon /\ Still
  /\ IF Work(m) = Vacant THEN WorkerTo(m, "failed") /\ UNCHANGED theme
     ELSE /\ theme' = [theme EXCEPT ![Bundle[m]].work.index = TRUE]
          /\ WorkerTo(m, "replacing")
  /\ UNCHANGED <<drawn, budget>>

\* ReplaceDir moves what is there aside first, and back if the other move fails.
MoveBundleAside(m) ==
  /\ Scanning(m, "replacing")
  /\ theme' = [theme EXCEPT ![Bundle[m]].old = Cached(m), ![Bundle[m]].cache = Vacant]
  /\ WorkerTo(m, "moving") /\ Still /\ UNCHANGED <<drawn, budget>>

MoveBundleIn(m) ==
  /\ Scanning(m, "moving")
  /\ theme' = [theme EXCEPT ![Bundle[m]] =
       [work |-> Vacant, cache |-> IF Work(m) = Vacant THEN @.old ELSE Work(m), old |-> Vacant]]
  /\ WorkerTo(m, IF Work(m) = Vacant THEN "failed" ELSE "listing")
  /\ Still /\ UNCHANGED <<drawn, budget>>

ListBundle(m) ==
  /\ Scanning(m, "listing")
  /\ IF Cached(m) = Vacant THEN WorkerTo(m, "failed") /\ UNCHANGED batch
     ELSE /\ batch' = [batch EXCEPT ![m] =
                SetToSeq({Static(<<Bundle[m], i>>, m, <<m, i>>) : i \in Cached(m).icons})]
          /\ WorkerTo(m, "resolved")
  /\ UNCHANGED <<step, sink, sinkRead, theme, drawn, desired, dconf, budget>>

-----------------------------------------------------------------------------
(* The plugins that follow.                                                *)

\* The map returns the batches in the order of the modules.
Gathered == Tree \o FlattenSeq([k \in 1..Cardinality(Module) |-> batch[SetToSortSeq(Module, <)[k]]])

\* A relocated file is no ScopedFile: it has no module.
Relocate(fs) == IF Relocated THEN [k \in DOMAIN fs |-> [fs[k] EXCEPT !.scope = 0]] ELSE fs

\* Each file of a multi-file text lies under the template's path.
MultiFile(f) == [k \in DOMAIN Names |-> [f EXCEPT !.path = Append(@, Names[k])]]
ExpandFile(f) ==
  CASE f.kind = "skip" -> <<>>
    [] f.kind = "multi" -> MultiFile(f)
    [] OTHER -> <<f>>
ExpandTemplates(fs) == FlattenSeq([k \in DOMAIN fs |-> ExpandFile(fs[k])])

\* Of a .d.tmpl directory, the parts in the order of their names.
Parts(fs, p) == SortSeq(SelectSeq(fs, LAMBDA f : f.part > 0 /\ f.path = p), LAMBDA f, g : f.part < g.part)
Concatenated(p, parts) == [path |-> p, of |-> parts]
Concatenate(fs) ==
  LET plain == SelectSeq(fs, LAMBDA f : f.part = 0)
      groups == SetToSeq({fs[k].path : k \in {j \in DOMAIN fs : fs[j].part > 0}})
  IN [k \in DOMAIN plain |-> Concatenated(plain[k].path, <<plain[k]>>)]
       \o [k \in DOMAIN groups |-> Concatenated(groups[k], Parts(fs, groups[k]))]

\* Mutation: Files that were put together are not looked at.
ConflictingPlain(ds) ==
  \E i, j \in DOMAIN ds : i < j /\ ds[i].path = ds[j].path /\ ds[i].of[1].part = ds[j].of[1].part

Conflicting(ds) == \E i, j \in DOMAIN ds : i < j /\ ds[i].path = ds[j].path

Assemble ==
  LET ds == Concatenate(ExpandTemplates(Relocate(Gathered))) IN
  /\ step = "modules" /\ \A m \in Module : worker[m] \in {"resolved", "failed"}
  /\ IF (\E m \in Module : worker[m] = "failed") \/ Conflicting(ds)
       THEN step' = "idle" /\ UNCHANGED desired
       ELSE step' = "planned" /\ desired' = ds
  /\ UNCHANGED <<worker, batch, sink, sinkRead, theme, drawn, dconf, budget>>

-----------------------------------------------------------------------------
(* The dconf marker.                                                       *)

Changed == dconf.wanted # dconf.marker \/ dconf.marker # dconf.managed

\* Everything is written, the hook loads dconf if the marker was among it, and
\* the state is saved.  A hook's failure is only logged.
ExecuteAndHook ==
  /\ step = "planned" /\ step' = "applied"
  /\ \/ dconf' = [dconf EXCEPT !.marker = dconf.wanted, !.managed = dconf.wanted,
                               !.loaded = IF Changed THEN dconf.wanted ELSE @] /\ UNCHANGED budget
     \/ Changed /\ PipelineFault /\ dconf' = [dconf EXCEPT !.marker = dconf.wanted, !.managed = dconf.wanted]
  /\ UNCHANGED <<worker, batch, sink, sinkRead, theme, drawn, desired>>

\* Another file cannot be written: no hook, and no state.
ExecuteFails ==
  /\ step = "planned" /\ step' = "idle" /\ PipelineFault
  /\ dconf' \in {dconf, [dconf EXCEPT !.marker = dconf.wanted]}
  /\ UNCHANGED <<worker, batch, sink, sinkRead, theme, drawn, desired>>

EndApply ==
  /\ step = "applied" /\ step' = "idle"
  /\ UNCHANGED <<worker, batch, sink, sinkRead, theme, drawn, desired, dconf, budget>>

ChangeSetting(s) ==
  /\ step = "idle" /\ s # dconf.wanted /\ budget.applies < MaxApplies
  /\ dconf' = [dconf EXCEPT !.wanted = s]
  /\ UNCHANGED <<step, worker, batch, sink, sinkRead, theme, drawn, desired, budget>>

\* What is on disk stays.
CrashApply ==
  /\ step # "idle" /\ step' = "idle" /\ PipelineFault
  /\ UNCHANGED <<worker, batch, sink, sinkRead, theme, drawn, desired, dconf>>

PipelineNext ==
  \/ BeginApply \/ Assemble \/ ExecuteAndHook \/ ExecuteFails \/ EndApply \/ CrashApply
  \/ \E s \in Setting : ChangeSetting(s)
  \/ \E m \in Module :
       \/ ResolveModule(m) \/ ModuleFails(m) \/ ReadSink(m) \/ AppendWarning(m)
       \/ FindBundle(m) \/ WipeWork(m) \/ DrawFails(m) \/ WriteIndexTheme(m)
       \/ MoveBundleAside(m) \/ MoveBundleIn(m) \/ ListBundle(m)
       \/ \E i \in Icon : DrawIcon(m, i)

PipelineSpec == PipelineInit /\ [][PipelineNext]_pipelineVars
-----------------------------------------------------------------------------
(* Properties.                                                             *)

\* A bundle that is in the cache under its fingerprint is whole, whenever an
\* icon fails or the command dies: nobody looks at it again but for its index.
BundleIsWhole ==
  \A f \in Fingerprint :
    theme[f].cache # Vacant => theme[f].cache.index /\ theme[f].cache.icons = Icon

\* "zero-substitution policy": whatever plugin yields them, no two files have
\* one path, and each that was not skipped has its place; "soft diagnostics
\* (logged and shown after the plan file diff)": a file of an origin that a
\* step's move has dropped is told of.
EveryFileHasOnePlace ==
  LET holders(f) == {d \in DOMAIN desired : \E j \in DOMAIN desired[d].of : desired[d].of[j].src = f.src}
  IN /\ step \in {"planned", "applied"} =>
          /\ \A i, j \in DOMAIN desired : desired[i].path = desired[j].path => i = j
          /\ \A k \in DOMAIN Gathered : LET f == Gathered[k] IN
               Cardinality(holders(f)) =
                 CASE f.kind = "skip" -> 0 [] f.kind = "multi" -> Len(Names) [] OTHER -> 1
     /\ step = "planned" => \A m \in Module : Provider[m] = "place" =>
          \/ m \in sink
          \/ \A e \in Origin[m] : \E k \in DOMAIN batch[m] : batch[m][k].src = e.src
=============================================================================
