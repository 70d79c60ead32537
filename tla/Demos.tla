--------------------------------- MODULE Demos ---------------------------------
(***************************************************************************)
(* What the client is doing: connected to a server or not, playing a demo, *)
(* recording one, and where it is in the loop of demos (cl_demo.c,         *)
(* cl_main.c, host.c, host_cmd.c).  The functions call one another in the  *)
(* middle of their work, so each is an operator from a client to a client. *)
(*                                                                         *)
(* One FILE serves for reading and for writing.  To use it when it is NULL *)
(* is undefined; here the program stops.                                   *)
(***************************************************************************)
EXTENDS Integers

CONSTANTS MaxDemos    \* MAX_DEMOS

ASSUME DemosAssumption == MaxDemos \in Nat \ {0}

Clients == [
    run : BOOLEAN,             \* FALSE once it has crashed or quit
    connected : BOOLEAN,       \* cls.state = ca_connected
    sv_active : BOOLEAN,       \* sv.active
    demoplayback : BOOLEAN, demorecording : BOOLEAN,
    demofile : {"none", "read", "write"},
    demonum : -1 .. MaxDemos,
    listed : 0 .. MaxDemos]    \* how many of cls.demos there are

NoClient == [run |-> TRUE, connected |-> FALSE, sv_active |-> FALSE, demoplayback |-> FALSE,
             demorecording |-> FALSE, demofile |-> "none", demonum |-> 0, listed |-> 0]

\* The client is in one place.
OnePlace(c) ==
    /\ c.sv_active => c.connected /\ ~c.demoplayback
    /\ c.demoplayback => c.connected

UseFile(c) == [c EXCEPT !.run = @ /\ c.demofile # "none"]

\* CL_StopPlayback; c plays a demo.
StopPlayback(c) ==
    [UseFile(c) EXCEPT !.demofile = "none", !.demoplayback = FALSE, !.connected = FALSE]

\* CL_Stop_f: only a command may stop a recording, not what a client told the server.
StopRecording(c, cmd_source) ==
    IF c.demorecording /\ cmd_source = "command"
    THEN [UseFile(c) EXCEPT !.demofile = "none", !.demorecording = FALSE]
    ELSE c

\* CL_Disconnect up to the server; a slip would leave the recording for later.
LeaveSilently(c, cmd_source) ==
    IF c.demoplayback THEN StopPlayback(c) ELSE [c EXCEPT !.connected = FALSE]

Leave(c, cmd_source) ==
    IF c.demoplayback THEN StopPlayback(c)
    ELSE IF c.connected THEN [StopRecording(c, cmd_source) EXCEPT !.connected = FALSE]
    ELSE c

\* Host_ShutdownServer, which disconnects the client first.
ShutdownServer(c, cmd_source) ==
    IF c.sv_active THEN [Leave(c, cmd_source) EXCEPT !.sv_active = FALSE] ELSE c

\* CL_Disconnect: the server of a client that plays a demo is left alone.
Disconnect(c, cmd_source) ==
    IF c.connected /\ ~c.demoplayback
    THEN [Leave(c, cmd_source) EXCEPT !.sv_active = FALSE]
    ELSE Leave(c, cmd_source)

\* CL_Disconnect_f, and how Host_Map_f and Host_Quit_f begin.
DisconnectAll(c) == ShutdownServer(Disconnect(c, "command"), "command")

\* CL_NextDemo, and whether it inserts a playdemo.
PlaysNext(c) == c.demonum # -1 /\ c.listed > 0

NextDemo(c) ==
    CASE c.demonum = -1 -> c
      [] c.demonum # -1 /\ c.listed = 0 -> [c EXCEPT !.demonum = -1]
      [] c.demonum # -1 /\ c.listed > 0 ->
            [c EXCEPT !.demonum = IF c.demonum < c.listed THEN c.demonum + 1 ELSE 1]

\* CL_EstablishConnection, with a connection made.
EstablishConnection(c) ==
    IF c.demoplayback THEN c
    ELSE [Disconnect(c, "command") EXCEPT !.connected = TRUE, !.demonum = -1]

\* Host_Connect_f.
Connect(c) ==
    LET d == [c EXCEPT !.demonum = -1]
    IN  EstablishConnection(IF d.demoplayback THEN StopPlayback(d) ELSE d)

\* Host_Map_f, whose SV_SpawnServer may fail, and Host_Loadgame_f once the file is
\* open.
NoMap(c) == DisconnectAll([c EXCEPT !.demonum = -1])
StartMap(c) == Connect([NoMap(c) EXCEPT !.sv_active = TRUE])

\* Host_Error and Host_EndGame up to their longjmp.
Error(c, cmd_source) ==
    [Disconnect(ShutdownServer(c, cmd_source), cmd_source) EXCEPT !.demonum = -1]

EndGame(c, cmd_source) ==
    LET d == ShutdownServer(c, cmd_source)
    IN  IF d.demonum # -1 THEN NextDemo(d) ELSE Disconnect(d, cmd_source)

\* CL_PlayDemo_f.
PlayDemo(c, found) ==
    LET d == Disconnect(c, "command")
    IN  IF found
        THEN [d EXCEPT !.demofile = "read", !.demoplayback = TRUE, !.connected = TRUE]
        ELSE [d EXCEPT !.demofile = "none", !.demonum = -1]

\* The end of CL_Record_f; a file that is open already is left open.
Record(c, opens) ==
    IF opens THEN [c EXCEPT !.demofile = "write", !.demorecording = TRUE]
    ELSE [c EXCEPT !.demofile = "none"]

\* Host_Startdemos_f: demos listed before are not taken back.
StartsLoop(c) == ~c.sv_active /\ c.demonum # -1 /\ ~c.demoplayback

List(c, n) == [c EXCEPT !.listed = IF n > @ THEN n ELSE @]

StartDemos(c, n) ==
    IF StartsLoop(c) THEN NextDemo([List(c, n) EXCEPT !.demonum = 0])
    ELSE [List(c, n) EXCEPT !.demonum = -1]

\* Host_Demos_f.
BackToDemos(c) == DisconnectAll([c EXCEPT !.demonum = IF @ = -1 THEN 1 ELSE @])

\* Host_Stopdemo_f.
StopDemo(c) == IF c.demoplayback THEN StopPlayback(c) ELSE c

\* CL_GetMessage and CL_WriteDemoMessage: a message of a demo or of a server.
GetMessage(c) == IF c.demoplayback \/ c.demorecording THEN UseFile(c) ELSE c
================================================================================
