------------------------------ MODULE MCMapRun ------------------------------
(* Instances of MapRun: two or three items on one IO slot and a bystander  *)
(* of the caller's group whose failure cancels the map from above.         *)
EXTENDS MapRun

MTask == {"orch", "i1", "i2", "s"}
MGroup == {"root", "sub"}
MHome == [orch |-> "root", s |-> "root", i1 |-> "sub", i2 |-> "sub"]
MKind == [orch |-> "control", s |-> "control", i1 |-> "io", i2 |-> "io"]
MDesc == {"x"}
MDescOf == [t \in MTask |-> "x"]
ParallelDeps == [t \in MTask |-> <<>>]
SerialDeps == [ParallelDeps EXCEPT !["i2"] = <<"i1">>]
MSpawner == [orch |-> "main", s |-> "main", i1 |-> "orch", i2 |-> "orch"]
MOwner == [root |-> "main", sub |-> "orch"]
MBelow == [root |-> {"root", "sub"}, sub |-> {"sub"}]
MItem == <<"i1", "i2">>
MBystander == {"s"}
OnePool == {"io"}
OneSlot == [p \in OnePool |-> 1]
Nowhere == {}
AtRoot == {"root"}
=============================================================================
