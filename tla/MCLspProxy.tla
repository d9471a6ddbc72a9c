----------------------------- MODULE MCLspProxy -----------------------------
(* One language served by two servers, another that shares one of them,    *)
(* and a document of each.                                                 *)
EXTENDS LspProxy

CONSTANTS go, cue, gopls, lint, main, conf

MLangOf == [d \in Doc |-> IF d = main THEN go ELSE cue]
MBindings == [l \in Lang |-> IF l = go THEN <<gopls, lint>> ELSE <<lint>>]
MCapable == [l \in Lang |-> ServersOf(l)]
=============================================================================
