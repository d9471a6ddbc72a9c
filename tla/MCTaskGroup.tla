---------------------------- MODULE MCTaskGroup ----------------------------
(* Instances of TaskGroup for TLC.                                         *)
EXTENDS TaskGroup

OnePool == {"io"}
OneSlot == [p \in OnePool |-> 1]

(* One group, one slot: a chain, a diamond by id and by a description two  *)
(* tasks share, and a key that may be pruned before it is used.            *)
ChainTask == {"a", "b", "c", "d"}
ChainGroup == {"root"}
ChainHome == [t \in ChainTask |-> "root"]
ChainKind == [a |-> "io", b |-> "io", c |-> "io", d |-> "control"]
ChainDesc == {"fetch", "merge"}
ChainDescOf == [a |-> "fetch", b |-> "fetch", c |-> "merge", d |-> "merge"]
ChainDeps == [a |-> <<>>, b |-> <<>>, c |-> <<"a", "fetch">>, d |-> <<"merge">>]
ChainSpawner == [t \in ChainTask |-> "main"]
ChainOwner == [g \in ChainGroup |-> "main"]
ChainMayEnd == ChainGroup
ChainBelow == [g \in ChainGroup |-> {"root"}]

(* Control task o Isolates a SubGroup whose tasks share the pool with s, a *)
(* sibling of o on the root.                                               *)
NestTask == {"o", "p", "q", "s"}
NestGroup == {"root", "sub"}
NestHome == [o |-> "root", s |-> "root", p |-> "sub", q |-> "sub"]
NestKind == [o |-> "control", s |-> "io", p |-> "io", q |-> "io"]
NestDesc == {"x"}
NestDescOf == [t \in NestTask |-> "x"]
NestDeps == [o |-> <<>>, s |-> <<>>, p |-> <<>>, q |-> <<"p">>]
NestSpawner == [o |-> "main", s |-> "main", p |-> "o", q |-> "o"]
NestOwner == [root |-> "main", sub |-> "o"]
NestMayEnd == {"sub"}
NestBelow == [root |-> {"root", "sub"}, sub |-> {"sub"}]
=============================================================================
