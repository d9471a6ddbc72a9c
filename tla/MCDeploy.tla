------------------------------ MODULE MCDeploy ------------------------------
(* Small homes for Deploy: d is a directory or a file, f lies in d, g is   *)
(* in the home; versions 1 and 2 of a file, a script and a symlink.        *)
EXTENDS Deploy

CONSTANTS d, f, g, home, file1, file2, script, link, srcA, srcB

Parents == [p \in Path |-> IF p = f THEN d ELSE home]
Kinds == [v \in Version |-> IF v = script THEN "exec"
                            ELSE IF v = link THEN "link" ELSE "file"]
Sources == [v \in Version |-> IF v = file1 THEN srcA ELSE srcB]

Holding(P, v) == [p \in Path |-> IF p \in P THEN v ELSE Absent]

\* A file where the directory of another is wanted.
Overlapping == {Holding({d}, file1), Holding({f}, file1)}

NoneIgnored == {{}}
NoBundles == {}
=============================================================================
