------------------------------- MODULE Session -------------------------------
(***************************************************************************)
(* A game on the local machine: the frames of Host_Frame, the console      *)
(* commands that start, change and end a level, and the sign-on handshake  *)
(* between the server and the one local client over the loopback network.  *)
(*                                                                         *)
(* Everything runs in one thread.  pc is the phase of the frame; todo holds *)
(* the host operations that a command or an error still has to perform,    *)
(* one network call per step, and goes before the phase.  A message is a   *)
(* sequence of items, a client's message a sequence of string commands.    *)
(* Levels are numbered by the loads that succeed.                          *)
(***************************************************************************)
EXTENDS Integers, Sequences, SequencesExt

CONSTANTS
    Sockets, None,
    MaxMessage,    \* NET_MAXMESSAGE, with four bytes to a message
    Lines,         \* what the user may type: sequences of commands
    Exits,         \* the outcomes of the levels that the game code changes to
    ExitsEarly,    \* whether it does so before the player has begun
    MaxLoads       \* bound: lines are typed and exits taken up to that many

Outcomes == {"ok", "bad", "error"}   \* loaded; no such map; Host_Error on the way

Commands ==
    {<<c, o>> : c \in {"map", "changelevel"}, o \in Outcomes}
      \cup {<<c>> : c \in {"restart", "disconnect", "connect", "reconnect", "wait"}}

ASSUME SessionAssumption ==
    /\ Lines \subseteq Seq(Commands)
    /\ Exits \subseteq Outcomes
    /\ ExitsEarly \in BOOLEAN
    /\ MaxLoads \in Nat

Items ==
    {<<"serverinfo", l>> : l \in 1..MaxLoads + 1} \cup {<<"signon", n>> : n \in 1..3}
      \cup {<<"stufftext", c>> : c \in {<<"reconnect">>}}
      \cup {<<"names">>, <<"update">>}
      \cup {<<"prespawn">>, <<"spawn">>, <<"begin">>, <<"disconnect">>}

VARIABLES
    free, active, driverdata, canSend, buf, len,          \* the network, see
    pending, client, server, netcon, slots, conns,        \* Loopback
    pc, todo, cbuf, msg,        \* phase, operations, command text, net_message
    signon, clMessage, clLevel, \* cls.signon, cls.message, the level in cl
    svActive, spawned, sendsignon, svMessage,  \* sv.active and the client's slot
    issued,                     \* svs.changelevel_issued
    loads                       \* the levels loaded so far

netVars == <<free, active, driverdata, canSend, buf, len,
             pending, client, server, netcon, slots, conns>>
clientVars == <<signon, clMessage, clLevel>>
slotVars == <<spawned, sendsignon, svMessage>>
serverVars == <<svActive, slotVars, issued, loads>>
vars == <<netVars, pc, todo, cbuf, msg, clientVars, serverVars>>

(* svs.maxclients is 1; every message has the length 4. *)
Size(p) == 4
Net == INSTANCE Loopback WITH MaxClients <- 1, Payloads <- Seq(Items), SizeOf <- Size

Connected == netcon # None      \* cls.state = ca_connected
Slot == slots[1]                \* netconnection of the client slot, None if not active

Init ==
    /\ Net!Init
    /\ pc = "input" /\ todo = <<>> /\ cbuf = <<>> /\ msg = <<>>
    /\ signon = 0 /\ clMessage = <<>> /\ clLevel = 0
    /\ svActive = FALSE /\ spawned = FALSE /\ sendsignon = FALSE /\ svMessage = <<>>
    /\ issued = FALSE /\ loads = 0

-----------------------------------------------------------------------------
(* Host operations.                                                        *)

(* SV_SpawnServer tells the clients first, if a level is running. *)
SpawnOps(outcome) == <<<<"notify">>, <<"spawn", outcome>>>>

(* The operations of a console command. *)
OpsOf(c) ==
    CASE c[1] = "map" -> <<<<"hangup">>, <<"shutdown">>>> \o SpawnOps(c[2])
                           \o <<<<"hangup">>, <<"dial">>>>
      [] c[1] = "changelevel" -> IF svActive THEN SpawnOps(c[2]) ELSE <<>>
      [] c[1] = "restart" -> IF svActive THEN SpawnOps("ok") ELSE <<>>
      [] c[1] = "disconnect" -> <<<<"hangup">>, <<"shutdown">>>>
      [] c[1] = "connect" -> <<<<"hangup">>, <<"dial">>>>
      [] c[1] = "reconnect" -> <<c>>
      [] c[1] = "wait" -> <<>>

(* Host_Error, and a slip that leaves the server up. *)
ErrorKeepsServer == <<<<"hangup">>>>
ErrorOps == <<<<"shutdown">>, <<"hangup">>>>

(* Host_Error: shut down, then longjmp out of the frame. *)
HostError ==
    /\ todo' = ErrorOps
    /\ pc' = "abort"
    /\ msg' = <<>>

Op(name) == todo # <<>> /\ Head(todo)[1] = name

(* After(ops) is the rest of the work, with ops before it. *)
After(ops) == todo' = ops \o Tail(todo) /\ UNCHANGED <<pc, msg>>

(* A call to the network that may fail without anybody looking. *)
Linked(s) == Net!Held(s) /\ driverdata[s] # None

(* CL_Disconnect: clc_disconnect is sent unreliably, then the socket closed.   *)
Hangup ==
    /\ Op("hangup")
    /\ IF Connected
         THEN /\ clMessage' = <<>>
              /\ IF Linked(netcon)
                   THEN Net!SendUnreliableMessage(netcon, <<<<"disconnect">>>>)
                   ELSE UNCHANGED netVars
              /\ After(<<<<"close">>>>)
              /\ UNCHANGED signon
         ELSE /\ signon' = 0
              /\ After(<<>>)
              /\ UNCHANGED <<netVars, clMessage>>
    /\ UNCHANGED <<cbuf, clLevel, serverVars>>

CloseClient ==
    /\ Op("close")
    /\ Net!ClientClose
    /\ signon' = 0
    /\ After(IF svActive THEN <<<<"shutdown">>>> ELSE <<>>)
    /\ UNCHANGED <<cbuf, clMessage, clLevel, serverVars>>

(* Host_ShutdownServer.  The local client is gone before the server flushes   *)
(* its messages and says goodbye, so that nothing of it arrives anywhere.     *)
Shutdown ==
    /\ Op("shutdown")
    /\ After(CASE ~svActive -> <<>>
               [] svActive /\ Connected -> <<<<"hangup">>, <<"drop">>>>
               [] svActive /\ ~Connected -> <<<<"drop">>>>)
    /\ svActive' = FALSE
    /\ UNCHANGED <<netVars, cbuf, clientVars, slotVars, issued, loads>>

DropClients ==
    /\ Op("drop")
    /\ IF Slot # None THEN Net!DropClient(1) ELSE UNCHANGED netVars
    /\ spawned' = FALSE /\ sendsignon' = FALSE /\ svMessage' = <<>>
    /\ After(<<>>)
    /\ UNCHANGED <<cbuf, clientVars, svActive, issued, loads>>

(* SV_SendReconnect: the text goes out at once, whatever canSend says, and    *)
(* the local client obeys it at once as well.                                 *)
Notify ==
    /\ Op("notify")
    /\ IF svActive /\ Slot # None /\ Linked(Slot)
         THEN Net!SendMessage(Slot, <<<<"stufftext", <<"reconnect">>>>>>)
         ELSE UNCHANGED netVars
    /\ signon' = IF svActive THEN 0 ELSE signon
    /\ After(<<>>)
    /\ UNCHANGED <<cbuf, clMessage, clLevel, serverVars>>

(* SV_SendServerinfo of level l to an active slot whose message is so far m,  *)
(* and a slip that lets the player go on as begun.                            *)
InfoKeepsSpawned(m, l) ==
    /\ svMessage' = m \o <<<<"serverinfo", l>>, <<"signon", 1>>>>
    /\ sendsignon' = TRUE
    /\ UNCHANGED spawned
SendServerinfo(m, l) ==
    /\ svMessage' = m \o <<<<"serverinfo", l>>, <<"signon", 1>>>>
    /\ sendsignon' = TRUE
    /\ spawned' = FALSE

(* Host_ClearMemory: cls.signon and cl.  It leaves cls.message alone.         *)
ClearMemory == signon' = 0 /\ clLevel' = 0 /\ UNCHANGED clMessage

(* SV_SpawnServer proper, by how the load turns out.  A map that is not found *)
(* leaves sv.active false and the slot as it was; no caller goes on then.     *)
SpawnServer ==
    /\ Op("spawn")
    /\ issued' = FALSE
    /\ ClearMemory
    /\ LET outcome == Head(todo)[2]
       IN  /\ svActive' = (outcome = "ok")
           /\ loads' = IF outcome = "ok" THEN loads + 1 ELSE loads
           /\ IF outcome = "ok" /\ Slot # None
                THEN SendServerinfo(svMessage, loads + 1)
                ELSE UNCHANGED slotVars
           /\ CASE outcome = "ok" -> After(<<>>)
                [] outcome = "bad" -> todo' = <<>> /\ UNCHANGED <<pc, msg>>
                [] outcome = "error" -> HostError
    /\ UNCHANGED <<netVars, cbuf>>

(* CL_EstablishConnection, and Host_Reconnect_f after it. *)
Dial ==
    /\ Op("dial")
    /\ Net!Connect
    /\ signon' = 0
    /\ After(<<>>)
    /\ UNCHANGED <<cbuf, clMessage, clLevel, serverVars>>

DialFails ==
    /\ Op("dial")
    /\ Net!ConnectNoClient
    /\ HostError
    /\ UNCHANGED <<cbuf, clientVars, serverVars>>

Reconnect ==
    /\ Op("reconnect")
    /\ signon' = 0
    /\ After(<<>>)
    /\ UNCHANGED <<netVars, cbuf, clMessage, clLevel, serverVars>>

Operation ==
    \/ Hangup \/ CloseClient \/ Shutdown \/ DropClients
    \/ Notify \/ SpawnServer \/ Dial \/ DialFails \/ Reconnect

-----------------------------------------------------------------------------
(* Phases of a frame.                                                      *)

At(phase) == todo = <<>> /\ pc = phase
Go(phase) == pc' = phase /\ UNCHANGED todo

(* The bound: every command pending may be a load. *)
MayLoad == loads + Len(cbuf) < MaxLoads

(* The user types a line, or not. *)
Type ==
    /\ At("input")
    /\ MayLoad
    /\ \E line \in Lines : cbuf' = cbuf \o line
    /\ Go("commands")
    /\ UNCHANGED <<netVars, msg, clientVars, serverVars>>

NoInput ==
    /\ At("input")
    /\ Go("commands")
    /\ UNCHANGED <<netVars, cbuf, msg, clientVars, serverVars>>

LongJump ==
    /\ At("abort")
    /\ Go("input")
    /\ UNCHANGED <<netVars, cbuf, msg, clientVars, serverVars>>

(* Cbuf_Execute, a command at a time. *)
ExecuteCommand ==
    /\ At("commands")
    /\ cbuf # <<>>
    /\ cbuf' = Tail(cbuf)
    /\ IF Head(cbuf) = <<"wait">>
         THEN Go("send")
         ELSE todo' = OpsOf(Head(cbuf)) /\ UNCHANGED pc
    /\ UNCHANGED <<netVars, msg, clientVars, serverVars>>

CommandsDone ==
    /\ At("commands")
    /\ cbuf = <<>>
    /\ Go("send")
    /\ UNCHANGED <<netVars, cbuf, msg, clientVars, serverVars>>

(* NET_CanSendMessage, and a slip that forgets the unread message. *)
LinkedOnly(s) == Linked(s)
CanSendMessage(s) == Linked(s) /\ canSend[s]

(* CL_SendCmd.  Without a server it comes after the server's frame, which is  *)
(* empty then.  Moves say nothing about the session and are left out.         *)
SendCmd ==
    /\ At("send")
    /\ IF Connected /\ clMessage # <<>> /\ CanSendMessage(netcon)
         THEN Net!SendMessage(netcon, clMessage) /\ clMessage' = <<>>
         ELSE UNCHANGED <<netVars, clMessage>>
    /\ Go(IF svActive THEN "accept" ELSE "read")
    /\ UNCHANGED <<cbuf, msg, signon, clLevel, serverVars>>

(* SV_CheckForNewClients and SV_ConnectClient. *)
Accept ==
    /\ At("accept")
    /\ pending
    /\ Net!CheckNewConnections
    /\ SendServerinfo(<<>>, loads)
    /\ Go("run")
    /\ UNCHANGED <<cbuf, msg, clientVars, svActive, issued, loads>>

NothingToAccept ==
    /\ At("accept")
    /\ ~pending
    /\ Go("run")
    /\ UNCHANGED <<netVars, cbuf, msg, clientVars, serverVars>>

Waiting(s) == s # None /\ len[s] # 0

(* SV_ReadClientMessage and CL_GetMessage, for the end s in its phase. *)
ReadMessage(phase, s) ==
    /\ At(phase)
    /\ msg = <<>>
    /\ Waiting(s)
    /\ msg' = buf[s][0].payload
    /\ Net!GetMessage(s)
    /\ UNCHANGED <<pc, todo, cbuf, clientVars, serverVars>>

AllRead(phase, s, next) ==
    /\ At(phase)
    /\ msg = <<>>
    /\ ~Waiting(s)
    /\ Go(next)
    /\ UNCHANGED <<netVars, cbuf, msg, clientVars, serverVars>>

(* What Host_Spawn_f does to the message it finds: SZ_Clear. *)
NamesFor(m) == <<<<"names">>, <<"signon", 3>>>>

(* A stage of the sign-on, asked for by a player who has not begun; a slip     *)
(* would not have it sent.                                                     *)
StageUnsent(m) ==
    IF spawned THEN UNCHANGED slotVars ELSE svMessage' = m /\ UNCHANGED <<spawned, sendsignon>>
Stage(m) ==
    IF spawned
      THEN UNCHANGED slotVars
      ELSE svMessage' = m /\ sendsignon' = TRUE /\ UNCHANGED spawned

(* Host_PreSpawn_f, Host_Spawn_f and Host_Begin_f for the client.  A client   *)
(* that says disconnect is dropped in Shutdown before this could be read.     *)
ServerCommand ==
    /\ At("run")
    /\ msg # <<>>
    /\ msg' = Tail(msg)
    /\ CASE Head(msg) = <<"prespawn">> -> Stage(Append(svMessage, <<"signon", 2>>))
         [] Head(msg) = <<"spawn">> -> Stage(NamesFor(svMessage))
         [] Head(msg) = <<"begin">> -> spawned' = TRUE /\ UNCHANGED <<sendsignon, svMessage>>
    /\ UNCHANGED <<netVars, pc, todo, cbuf, clientVars, svActive, issued, loads>>

(* SV_Physics runs the game code, which may do nothing of interest, ask for   *)
(* another level (PF_changelevel) or fail (PR_RunError).                      *)
Physics ==
    /\ At("physics")
    /\ Go("datagram")
    /\ UNCHANGED <<netVars, cbuf, msg, clientVars, serverVars>>

Exit ==
    /\ At("physics")
    /\ Slot # None /\ (ExitsEarly \/ spawned)
    /\ ~issued /\ MayLoad
    /\ issued' = TRUE
    /\ \E o \in Exits : cbuf' = Append(cbuf, <<"changelevel", o>>)
    /\ Go("datagram")
    /\ UNCHANGED <<netVars, msg, clientVars, svActive, slotVars, loads>>

ProgramError ==
    /\ At("physics")
    /\ HostError
    /\ UNCHANGED <<netVars, cbuf, clientVars, serverVars>>

(* SV_SendClientMessages: the datagram of a player who has begun ... *)
Datagram ==
    /\ At("datagram")
    /\ IF Slot # None /\ spawned /\ Linked(Slot)
         THEN Net!SendUnreliableMessage(Slot, <<<<"update">>>>)
         ELSE UNCHANGED netVars
    /\ Go("deliver")
    /\ UNCHANGED <<cbuf, msg, clientVars, serverVars>>

(* ... and the reliable message; before that only when a stage is due. *)
Deliver ==
    /\ At("deliver")
    /\ IF Slot # None /\ (spawned \/ sendsignon) /\ svMessage # <<>> /\ CanSendMessage(Slot)
         THEN /\ Net!SendMessage(Slot, svMessage)
              /\ svMessage' = <<>> /\ sendsignon' = FALSE
         ELSE UNCHANGED <<netVars, svMessage, sendsignon>>
    /\ Go("read")
    /\ UNCHANGED <<cbuf, msg, clientVars, svActive, spawned, issued, loads>>

(* CL_SignonReply. *)
Reply(n) == CASE n = 1 -> <<<<"prespawn">>>>
              [] n = 2 -> <<<<"spawn">>>>
              [] n = 3 -> <<<<"begin">>>>

Parsed == msg' = Tail(msg) /\ UNCHANGED <<pc, todo>>

(* CL_ParseServerMessage, an item at a time. *)
ParseServerinfo(l) ==
    /\ clMessage' = <<>>
    /\ clLevel' = l
    /\ signon' = IF svActive THEN signon ELSE 0
    /\ Parsed /\ UNCHANGED cbuf

ParseSignon(n) ==
    /\ IF n <= signon
         THEN HostError /\ UNCHANGED <<signon, clMessage>>
         ELSE signon' = n /\ clMessage' = clMessage \o Reply(n) /\ Parsed
    /\ UNCHANGED <<cbuf, clLevel>>

(* svc_updatename is an error while cl.maxclients is 0. *)
ParseNames ==
    /\ IF clLevel = 0 THEN HostError ELSE Parsed
    /\ UNCHANGED <<cbuf, clientVars>>

(* The first update is the final stage. *)
ParseUpdate ==
    /\ signon' = IF signon = 3 THEN 4 ELSE signon
    /\ Parsed /\ UNCHANGED <<cbuf, clMessage, clLevel>>

ParseStufftext(c) ==
    /\ cbuf' = Append(cbuf, c)
    /\ Parsed /\ UNCHANGED clientVars

ParseServerMessage ==
    /\ At("read")
    /\ msg # <<>>
    /\ CASE Head(msg)[1] = "serverinfo" -> ParseServerinfo(Head(msg)[2])
         [] Head(msg)[1] = "signon" -> ParseSignon(Head(msg)[2])
         [] Head(msg)[1] = "names" -> ParseNames
         [] Head(msg)[1] = "update" -> ParseUpdate
         [] Head(msg)[1] = "stufftext" -> ParseStufftext(Head(msg)[2])
    /\ UNCHANGED <<netVars, serverVars>>

Frame ==
    \/ Operation
    \/ NoInput \/ LongJump \/ ExecuteCommand \/ CommandsDone
    \/ SendCmd
    \/ Accept \/ NothingToAccept
    \/ ReadMessage("run", Slot) \/ AllRead("run", Slot, "physics") \/ ServerCommand
    \/ Physics \/ Exit \/ ProgramError
    \/ Datagram \/ Deliver
    \/ ReadMessage("read", netcon) \/ AllRead("read", netcon, "input") \/ ParseServerMessage

Next == Type \/ Frame

Spec == Init /\ [][Next]_vars

(* The main loop calls Host_Frame for ever. *)
FairSpec == Spec /\ WF_vars(Frame)

-----------------------------------------------------------------------------
(* SV_CheckForNewClients finds what it takes for granted: the loopback sockets *)
(* that Loop_CheckNewConnections writes through without a test, and a free     *)
(* client slot, whatever failed loads and failed connections came before.      *)
AcceptHasEnds ==
    At("accept") /\ pending =>
      client # None /\ server # None /\ Slot = None

(* The client is never given a stage of the sign-on but the next one: the      *)
(* server waits with it until the client has obeyed the last reconnect.        *)
SignonInStep ==
    At("read") /\ msg # <<>> /\ Head(msg)[1] = "signon" => Head(msg)[2] = signon + 1

(* A player takes part in a level (spawned) only after having been told that   *)
(* very level's serverinfo and all its stages.                                 *)
BegunInOrder ==
    todo = <<>> /\ svActive /\ spawned => signon >= 3 /\ clLevel = loads

(* A client connected to a running server gets into the game, or the game ends.*)
SignsOn ==
    svActive /\ Connected ~> signon = 4 \/ ~svActive \/ ~Connected

=============================================================================
