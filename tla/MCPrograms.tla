------------------------------ MODULE MCPrograms ------------------------------
(* Two functions: one with a parameter and a local, and ClientDisconnect, whose *)
(* local shares the place of that local.                                        *)
EXTENDS Programs

MCStart == [touch |-> 1, leave |-> 2]
MCLocals == [touch |-> 2, leave |-> 1]
MCNumParms == [touch |-> 1, leave |-> 0]
MCFunctions == DOMAIN MCStart
=============================================================================
