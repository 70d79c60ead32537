------------------------------- MODULE FrontEnd -------------------------------
(***************************************************************************)
(* What the player has in front of him: the game or a demo, the console,   *)
(* or a menu (keys.c, console.c, menu.c), and how commands and menu items  *)
(* start and end games and demos.                                          *)
(*                                                                         *)
(* A frame handles key events, executes the command buffer, and reads a    *)
(* message from the server or the demo.  Keys, console lines and menu      *)
(* items only put text into the buffer; which command a text is, is        *)
(* settled when it is executed.  What is inserted in front is told apart:  *)
(* the playdemo of CL_NextDemo, and the bind of the keys menu.             *)
(***************************************************************************)
EXTENDS Demos, Sequences

CONSTANTS MaxText    \* bound: the texts in the command buffer

ASSUME FrontEndAssumption == MaxText \in Nat \ {0}

VARIABLES
    key_dest,                   \* who gets the keys
    m_state,                    \* the menu
    m_quit_prevstate, wasInMenus, bind_grab, m_save_demonum,
    cls,                        \* see Demos
    cbuf,                       \* the texts in the command buffer
    phase                       \* of Host_Frame

quit == <<m_quit_prevstate, wasInMenus>>
menu == <<key_dest, m_state, quit, bind_grab, m_save_demonum>>
vars == <<menu, cls, cbuf, phase>>

\* The menus of this build, which has no network driver that would enable the
\* others and no video driver that sets vid_menudrawfn, and where Escape leads to.
Parent == [singleplayer |-> "main", multiplayer |-> "main", options |-> "main", help |-> "main",
           load |-> "singleplayer", save |-> "singleplayer", setup |-> "multiplayer",
           keys |-> "options"]
Menus == DOMAIN Parent \cup {"main", "quit"}

TypeOK ==
    /\ key_dest \in {"game", "console", "message", "menu"}
    /\ m_state \in Menus \cup {"none"}
    /\ m_quit_prevstate \in (Menus \ {"quit"}) \cup {"none"}
    /\ wasInMenus \in BOOLEAN /\ bind_grab \in BOOLEAN
    /\ m_save_demonum \in -1 .. MaxDemos
    /\ cls \in Clients
    /\ cbuf \in Seq({"text", "bind", "playdemo"})
    /\ phase \in {"keys", "cbuf", "client"}

\* quake.rc is in the buffer.
Init ==
    /\ key_dest = "game" /\ m_state = "none"
    /\ m_quit_prevstate = "none" /\ wasInMenus = FALSE /\ bind_grab = FALSE
    /\ m_save_demonum = 0
    /\ cls = NoClient
    /\ cbuf = <<"text">> /\ phase = "keys"

-----------------------------------------------------------------------------
(* Menu functions; the client they are called with is c.                     *)

\* M_Menu_X_f; they leave everything else alone.
Open(m) ==
    /\ key_dest' = "menu" /\ m_state' = m
    /\ UNCHANGED <<quit, bind_grab, m_save_demonum>>

\* M_Menu_Main_f keeps the place in the loop when the menus are entered.
OpenMain(c) ==
    /\ key_dest' = "menu" /\ m_state' = "main"
    /\ IF key_dest # "menu"
       THEN m_save_demonum' = c.demonum /\ cls' = [c EXCEPT !.demonum = -1]
       ELSE cls' = c /\ UNCHANGED m_save_demonum
    /\ UNCHANGED <<quit, bind_grab>>

\* Con_ToggleConsole_f.
ToggleConsole ==
    \/ key_dest = "console" /\ ~cls.connected /\ OpenMain(cls)
    \/ /\ key_dest # "console" \/ cls.connected
       /\ key_dest' = IF key_dest = "console" THEN "game" ELSE "console"
       /\ UNCHANGED <<m_state, quit, bind_grab, m_save_demonum, cls>>

\* To the game: out of the menus.
CloseMenu == key_dest' = "game" /\ m_state' = "none"

\* M_ToggleMenu_f.
ToggleMenu ==
    \/ /\ key_dest = "menu" /\ m_state = "main"
       /\ CloseMenu /\ UNCHANGED <<quit, bind_grab, m_save_demonum, cls>>
    \/ key_dest = "menu" /\ m_state # "main" /\ OpenMain(cls)
    \/ key_dest = "console" /\ ToggleConsole
    \/ key_dest \in {"game", "message"} /\ OpenMain(cls)

\* M_Menu_Quit_f; a slip would take a menu that was left long ago for the one that
\* is open.
OpenQuitOver ==
    /\ m_state # "quit"
    /\ wasInMenus' = TRUE /\ m_quit_prevstate' = m_state
    /\ key_dest' = "menu" /\ m_state' = "quit"
    /\ UNCHANGED <<bind_grab, m_save_demonum>>

OpenQuit ==
    /\ m_state # "quit"
    /\ wasInMenus' = (key_dest = "menu") /\ m_quit_prevstate' = m_state
    /\ key_dest' = "menu" /\ m_state' = "quit"
    /\ UNCHANGED <<bind_grab, m_save_demonum>>

\* Host_Quit_f at the console, and Y in the quit menu.
Exit == cls' = [DisconnectAll(cls) EXCEPT !.run = FALSE]

\* M_Menu_Save_f asks for a single player's game, and none in an intermission.
MaySave == cls.sv_active

-----------------------------------------------------------------------------
(* Key events.                                                               *)

Keys == cls.run /\ phase = "keys" /\ UNCHANGED phase

Room == Len(cbuf) < MaxText

\* Cbuf_AddText and Cbuf_InsertText of a playdemo; a slip would add it.
AddNext(texts) == Append(texts, "playdemo")
InsertNext(texts) == <<"playdemo">> \o texts

\* M_Main_Key, Escape: out of the menus, and on with the demos.
LeaveMain ==
    LET c == [cls EXCEPT !.demonum = m_save_demonum]
        next == c.demonum # -1 /\ ~c.demoplayback /\ ~c.connected
    IN  /\ CloseMenu /\ UNCHANGED <<quit, bind_grab, m_save_demonum>>
        /\ cls' = IF next THEN NextDemo(c) ELSE c
        /\ IF next /\ PlaysNext(c) THEN Room /\ cbuf' = InsertNext(cbuf) ELSE UNCHANGED cbuf

\* M_Quit_Key, Escape or N; a slip would always leave the menus.
LeaveQuitOut == CloseMenu /\ UNCHANGED <<quit, bind_grab, m_save_demonum, cls, cbuf>>

LeaveQuit ==
    /\ IF wasInMenus THEN m_state' = m_quit_prevstate /\ UNCHANGED key_dest ELSE CloseMenu
    /\ UNCHANGED <<quit, bind_grab, m_save_demonum, cls, cbuf>>

\* M_Keydown, Escape.
MenuEscape ==
    \/ m_state = "main" /\ LeaveMain
    \/ m_state = "quit" /\ LeaveQuit
    \/ /\ m_state = "keys" /\ bind_grab
       /\ bind_grab' = FALSE /\ UNCHANGED <<key_dest, m_state, quit, m_save_demonum, cls, cbuf>>
    \/ /\ m_state \in DOMAIN Parent /\ ~(m_state = "keys" /\ bind_grab)
       /\ IF Parent[m_state] = "main" THEN OpenMain(cls)
          ELSE Open(Parent[m_state]) /\ UNCHANGED cls
       /\ UNCHANGED cbuf

\* Key_Event, Escape, and Key_Message.
Escape ==
    /\ Keys
    /\ \/ key_dest = "menu" /\ MenuEscape
       \/ key_dest \in {"game", "console"} /\ ToggleMenu /\ UNCHANGED cbuf
       \/ /\ key_dest = "message" /\ key_dest' = "game"
          /\ UNCHANGED <<m_state, quit, bind_grab, m_save_demonum, cls, cbuf>>

\* Most keys bring up the menu while a demo plays.
DemoKey ==
    /\ Keys /\ cls.demoplayback /\ key_dest = "game"
    /\ ToggleMenu /\ UNCHANGED cbuf

\* A line is entered at the console, or a key is bound to a command, which works in
\* the game and for the function keys also elsewhere.
AddText ==
    /\ Keys /\ Room /\ key_dest # "message"
    /\ cbuf' = Append(cbuf, "text") /\ UNCHANGED <<menu, cls>>

\* Key_Message, Enter: say.
Say ==
    /\ Keys /\ Room /\ key_dest = "message"
    /\ key_dest' = "game" /\ cbuf' = Append(cbuf, "text")
    /\ UNCHANGED <<m_state, quit, bind_grab, m_save_demonum, cls>>

\* M_X_Key, Enter on an item.
In(m) == Keys /\ key_dest = "menu" /\ m_state = m

MainItem ==
    /\ In("main")
    /\ (\E m \in {"singleplayer", "multiplayer", "options", "help"} : Open(m)) \/ OpenQuit
    /\ UNCHANGED <<cls, cbuf>>

SinglePlayerItem ==
    /\ In("singleplayer")
    /\ Open("load") \/ (MaySave /\ Open("save"))
    /\ UNCHANGED <<cls, cbuf>>

MultiPlayerItem == In("multiplayer") /\ Open("setup") /\ UNCHANGED <<cls, cbuf>>

\* The name and the colors that were chosen are commands.
SetupItem ==
    /\ In("setup") /\ Open("multiplayer")
    /\ cbuf' = cbuf \/ (Room /\ cbuf' = Append(cbuf, "text"))
    /\ UNCHANGED cls

OptionsItem == In("options") /\ Open("keys") /\ UNCHANGED <<cls, cbuf>>

OpenItem == MainItem \/ SinglePlayerItem \/ MultiPlayerItem \/ SetupItem \/ OptionsItem

\* Go to console.
ConsoleItem ==
    /\ In("options")
    /\ m_state' = "none" /\ key_dest' = "console"
    /\ UNCHANGED <<quit, bind_grab, m_save_demonum, cls, cbuf>>

\* A slot to load from or to save to.
SlotItem ==
    /\ In("load") \/ In("save")
    /\ Room
    /\ CloseMenu /\ cbuf' = Append(cbuf, "text")
    /\ UNCHANGED <<quit, bind_grab, m_save_demonum, cls>>

\* New Game: the menu is not left.
NewGameItem ==
    /\ In("singleplayer") /\ Room
    /\ key_dest' = "game" /\ cbuf' = Append(cbuf, "text")
    /\ UNCHANGED <<m_state, quit, bind_grab, m_save_demonum, cls>>

\* M_Keys_Key: Enter, and the key to bind, which inserts a bind unless it is the
\* console's.
GrabKey ==
    /\ In("keys")
    /\ bind_grab' = ~bind_grab
    /\ cbuf' = cbuf \/ (bind_grab /\ Room /\ cbuf' = <<"bind">> \o cbuf)
    /\ UNCHANGED <<key_dest, m_state, quit, m_save_demonum, cls>>

\* M_Quit_Key, Y.
QuitItem ==
    /\ In("quit")
    /\ key_dest' = "console" /\ Exit
    /\ UNCHANGED <<m_state, quit, bind_grab, m_save_demonum, cbuf>>

Key ==
    \/ Escape \/ DemoKey \/ AddText \/ Say \/ OpenItem \/ ConsoleItem \/ SlotItem \/ NewGameItem
    \/ GrabKey \/ QuitItem

-----------------------------------------------------------------------------
(* Commands.                                                                 *)

Execute(text) == cls.run /\ phase = "cbuf" /\ cbuf # <<>> /\ Head(cbuf) = text

\* Key_Bind_f changes nothing here.
Bind == Execute("bind") /\ cbuf' = Tail(cbuf) /\ UNCHANGED <<menu, cls, phase>>

\* A command that changes the client only, one that inserts a playdemo, one that
\* raises Host_Error, which gives up the frame, and one for a menu.
ClientCommand(c) ==
    /\ Execute("text") /\ cbuf' = Tail(cbuf)
    /\ cls' = c /\ UNCHANGED <<menu, phase>>

InsertingCommand(c, plays) ==
    /\ Execute("text")
    /\ cbuf' = IF plays THEN InsertNext(Tail(cbuf)) ELSE Tail(cbuf)
    /\ cls' = c /\ UNCHANGED <<menu, phase>>

FailingCommand(c) ==
    /\ Execute("text") /\ cbuf' = Tail(cbuf)
    /\ cls' = Error(c, "command") /\ phase' = "keys" /\ UNCHANGED menu

MenuCommand ==
    /\ Execute("text") /\ cbuf' = Tail(cbuf) /\ UNCHANGED phase
    /\ \/ ToggleMenu \/ ToggleConsole \/ OpenMain(cls)
       \/ \E m \in DOMAIN Parent : (m = "save" => MaySave) /\ Open(m) /\ UNCHANGED cls
       \/ OpenQuit /\ UNCHANGED cls

\* Host_Quit_f.
QuitCommand ==
    /\ Execute("text") /\ cbuf' = Tail(cbuf) /\ UNCHANGED phase
    /\ \/ key_dest # "console" /\ OpenQuit /\ UNCHANGED cls
       \/ key_dest = "console" /\ Exit /\ UNCHANGED menu

\* Con_MessageMode_f.
MessageMode ==
    /\ Execute("text") /\ cbuf' = Tail(cbuf)
    /\ key_dest' = "message"
    /\ UNCHANGED <<m_state, quit, bind_grab, m_save_demonum, cls, phase>>

\* Host_Map_f, also called by CL_Record_f, whose recording then starts.
MapCommand(c) ==
    /\ Execute("text") /\ cbuf' = Tail(cbuf)
    /\ key_dest' = "game" /\ cls' = c
    /\ UNCHANGED <<m_state, quit, bind_grab, m_save_demonum, phase>>

FailingMap ==
    /\ Execute("text") /\ cbuf' = Tail(cbuf)
    /\ key_dest' = "game" /\ cls' = Error(NoMap(cls), "command") /\ phase' = "keys"
    /\ UNCHANGED <<m_state, quit, bind_grab, m_save_demonum>>

RecordMap == \E c \in {NoMap(cls), StartMap(cls)}, opens \in BOOLEAN : MapCommand(Record(c, opens))

RecordCommand == ~cls.connected /\ \E opens \in BOOLEAN : ClientCommand(Record(cls, opens))

\* load of a file that is missing or wrong, that cannot be spawned, and a good one.
LoadCommand ==
    \/ ClientCommand([cls EXCEPT !.demonum = -1])
    \/ ClientCommand(NoMap(cls)) \/ ClientCommand(StartMap(cls)) \/ FailingCommand(NoMap(cls))

\* changelevel and restart: the new level; none, and the client stays with what is
\* left of the server it had; Host_Error by a program of the new level.
ChangeLevel ==
    /\ cls.sv_active /\ ~cls.demoplayback
    /\ LET serverless == [cls EXCEPT !.sv_active = FALSE]
       IN  ClientCommand(cls) \/ ClientCommand(serverless) \/ FailingCommand(serverless)

ConnectCommand ==
    \/ ClientCommand(Connect(cls))
    \/ FailingCommand(Disconnect(cls, "command"))

DemoCommand ==
    \/ \E found \in BOOLEAN : ClientCommand(PlayDemo(cls, found))
    \/ ClientCommand(StopRecording(cls, "command"))
    \/ ClientCommand(StopDemo(cls))
    \/ \E n \in 0 .. MaxDemos :
          InsertingCommand(StartDemos(cls, n),
                           StartsLoop(cls) /\ PlaysNext([List(cls, n) EXCEPT !.demonum = 0]))
    \/ LET c == BackToDemos(cls) IN InsertingCommand(NextDemo(c), PlaysNext(c))

\* wait: the rest of the buffer is for the next frame.
Wait ==
    /\ Execute("text") /\ cbuf' = Tail(cbuf) /\ phase' = "client"
    /\ UNCHANGED <<menu, cls>>

Command ==
    \/ MenuCommand \/ QuitCommand \/ MessageMode
    \/ (\E c \in {NoMap(cls), StartMap(cls)} : MapCommand(c)) \/ FailingMap
    \/ RecordMap \/ RecordCommand \/ LoadCommand \/ ChangeLevel \/ ConnectCommand
    \/ ClientCommand(DisconnectAll(cls)) \/ FailingCommand(cls) \/ DemoCommand \/ Wait

\* The loop's next demo.
PlayNext ==
    /\ Execute("playdemo") /\ cbuf' = Tail(cbuf)
    /\ \E found \in BOOLEAN : cls' = PlayDemo(cls, found)
    /\ UNCHANGED <<menu, phase>>

-----------------------------------------------------------------------------
(* The rest of the frame.                                                    *)

Enter(from, to) == cls.run /\ phase = from /\ phase' = to

\* The keys have been handled; the buffer is empty; a frame without an event.
Turn ==
    /\ \/ Enter("keys", "cbuf")
       \/ cbuf = <<>> /\ Enter("cbuf", "client")
       \/ Enter("client", "keys")
    /\ UNCHANGED <<menu, cls, cbuf>>

\* CL_ReadFromServer: a message of a demo or of a server, which may have stopped
\* since it sent it.
Message == Enter("client", "keys") /\ cls.connected

ReadMessage ==
    /\ Message /\ cls' = GetMessage(cls)
    /\ UNCHANGED <<menu, cbuf>>

\* The demo runs out.
DemoRunsOut ==
    /\ Enter("client", "keys") /\ cls.demoplayback
    /\ cls' = StopPlayback(cls)
    /\ UNCHANGED <<menu, cbuf>>

\* svc_disconnect, of a demo or of the server that drops the client, and
\* Host_Error, in a message or in the server; the last command may have been one
\* that the server executed for the client.
Source == IF cls.sv_active THEN {"command", "client"} ELSE {"command"}

ServerEnds ==
    /\ Message
    /\ LET c == GetMessage(cls)
       IN  \E src \in Source :
              LET d == ShutdownServer(c, src)
              IN  /\ cls' = EndGame(c, src)
                  /\ IF PlaysNext(d) THEN Room /\ cbuf' = InsertNext(cbuf) ELSE UNCHANGED cbuf
    /\ UNCHANGED menu

Fails ==
    /\ Enter("client", "keys") /\ cls.connected
    /\ \E src \in Source : cls' = Error(cls, src)
    /\ UNCHANGED <<menu, cbuf>>

Next == Key \/ Command \/ Bind \/ PlayNext \/ Turn \/ ReadMessage \/ DemoRunsOut \/ ServerEnds \/ Fails

Spec == Init /\ [][Next]_vars

-----------------------------------------------------------------------------
(* Properties.                                                               *)

\* Keys that go to the menus find one: M_Keydown and M_Draw ignore m_none, and the
\* player, Escape included, would be stuck.
NoDeadEnd == key_dest = "menu" => m_state # "none"

\* What makes it inductive: the quit menu has a menu to go back to.
NoDeadEndInv ==
    /\ NoDeadEnd
    /\ (m_state = "quit" /\ wasInMenus) => m_quit_prevstate # "none"

\* How many presses of Escape lead back to the game.
Level == [main |-> 1, singleplayer |-> 2, multiplayer |-> 2, options |-> 2, help |-> 2,
          load |-> 3, save |-> 3, setup |-> 3, keys |-> 3]
Grabs(m) == IF m = "keys" /\ bind_grab THEN 1 ELSE 0
Presses ==
    CASE key_dest # "menu" -> 0
      [] key_dest = "menu" /\ m_state # "quit" -> Level[m_state] + Grabs(m_state)
      [] key_dest = "menu" /\ m_state = "quit" ->
            1 + (IF wasInMenus THEN Level[m_quit_prevstate] + Grabs(m_quit_prevstate) ELSE 0)

\* Escape leads out of the menus: every press is one level nearer to the game, also
\* out of the quit menu that a function key opened over any other, and however that
\* other was entered.
EscapeLeads == [][ (Escape /\ key_dest = "menu") => Presses' = Presses - 1 ]_vars

\* The demo loop never ends a game: CL_NextDemo inserts its playdemo in front of
\* what is in the buffer, so that no map or load can get between; and a client that
\* plays a demo has no game going on elsewhere: the server it runs is the one it is
\* connected to.
LoopSparesGame ==
    /\ OnePlace(cls)
    /\ cls.sv_active => \A i \in 1 .. Len(cbuf) : cbuf[i] # "playdemo"

\* In a game that is not a demo: connected to a server, if only to one that a
\* failed changelevel has stopped.
InGame(c) == c.connected /\ ~c.demoplayback

\* "CL_Stop_f" is called by CL_Disconnect: whatever command takes the client out of
\* a game that is recorded has the recording finished.
RecordingEnds ==
    [][ (Command /\ ~RecordMap /\ cls.demorecording /\ InGame(cls) /\ ~InGame(cls'))
        => ~cls'.demorecording ]_vars
===============================================================================
