------------------------------- MODULE MCFileLock -------------------------------
(* The application with two threads that use a file, and the command-line tool with two. *)
EXTENDS FileLock

CONSTANTS a1, a2, b1, b2, app, cli

MCProcOf == [t \in Threads |-> IF t \in {b1, b2} THEN cli ELSE app]
=============================================================================
