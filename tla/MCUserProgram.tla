--------------------------- MODULE MCUserProgram ---------------------------
(***************************************************************************)
(* The programs of main.c for UserProgram.  Those with up to two tasks are *)
(* interrupted anywhere and without end; FORK3, with eight tasks, a few    *)
(* times, before its forks and at the beginning of its lines.              *)
(***************************************************************************)
EXTENDS UserProgram

Small(m) == m # FORK3
SomeTicks(m) == IF Small(m) THEN 0 ELSE 4

Everywhere  == {"getpid", "global_variable++", "++counter", "message", "store",
                "putc", "write", "reset", "jump", "bnez", "fork"}
SomeSteps(m) == IF Small(m) THEN Everywhere ELSE {"fork", "getpid"}
=============================================================================
