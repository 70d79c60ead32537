------------------------------ MODULE MCLoopback ------------------------------
(* Loopback with buffers of 24 bytes, which hold two or three messages, and    *)
(* two payloads: one whose length is a multiple of four and one that needs     *)
(* padding.                                                                    *)
EXTENDS Loopback

CONSTANTS short, long

MCPayloads == {short, long}
MCSizeOf(p) == IF p = short THEN 1 ELSE 8
===============================================================================
