------------------------------ MODULE MCDaemon ------------------------------
(* A command and a history event, and a binary that changes under them.    *)
EXTENDS Daemon

CONSTANTS c1, h
=============================================================================
