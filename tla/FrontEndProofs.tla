----------------------------- MODULE FrontEndProofs -----------------------------
(***************************************************************************)
(* Proofs about the menus, the client and the loop of demos, for every     *)
(* bound on the demos and on the command buffer; and, by an instance, that *)
(* the command buffer itself is the queue of commands they take it for.    *)
(***************************************************************************)
EXTENDS FrontEnd, TLAPS, SequenceTheorems, FiniteSetTheorems, WellFoundedInduction

-----------------------------------------------------------------------------
(* What the functions of Demos do to a client.                               *)

Sources == {"command", "client"}

LEMMA UseFileKeeps ==
    ASSUME NEW c \in Clients
    PROVE  /\ UseFile(c) \in Clients
           /\ UseFile(c).connected = c.connected
           /\ UseFile(c).sv_active = c.sv_active
           /\ UseFile(c).demoplayback = c.demoplayback
BY DEF Clients, UseFile

LEMMA StopPlaybackEffect ==
    ASSUME NEW c \in Clients
    PROVE  /\ StopPlayback(c) \in Clients
           /\ ~StopPlayback(c).demoplayback /\ ~StopPlayback(c).connected
           /\ StopPlayback(c).sv_active = c.sv_active
BY UseFileKeeps DEF Clients, StopPlayback

LEMMA StopRecordingEffect ==
    ASSUME NEW c \in Clients, NEW s \in Sources
    PROVE  /\ StopRecording(c, s) \in Clients
           /\ StopRecording(c, s).demoplayback = c.demoplayback
           /\ StopRecording(c, s).connected = c.connected
           /\ StopRecording(c, s).sv_active = c.sv_active
<1> DEFINE u == UseFile(c)
<1>1. /\ u \in Clients
      /\ u.connected = c.connected /\ u.sv_active = c.sv_active /\ u.demoplayback = c.demoplayback
  BY UseFileKeeps
<1>2. CASE c.demorecording /\ s = "command"
  <2>1. StopRecording(c, s) = [u EXCEPT !.demofile = "none", !.demorecording = FALSE]
    BY <1>2 DEF StopRecording
  <2> HIDE DEF u
  <2> QED  BY <1>1, <2>1 DEF Clients
<1>3. CASE ~(c.demorecording /\ s = "command")
  BY <1>3 DEF StopRecording
<1> QED  BY <1>2, <1>3

LEMMA LeaveEffect ==
    ASSUME NEW c \in Clients, NEW s \in Sources, OnePlace(c)
    PROVE  /\ Leave(c, s) \in Clients
           /\ ~Leave(c, s).demoplayback /\ ~Leave(c, s).connected
           /\ Leave(c, s).sv_active = c.sv_active
<1>1. CASE c.demoplayback
  BY <1>1, StopPlaybackEffect DEF Leave
<1>2. CASE ~c.demoplayback /\ c.connected
  <2> DEFINE r == StopRecording(c, s)
  <2>1. r \in Clients /\ ~r.demoplayback /\ r.sv_active = c.sv_active
    BY <1>2, StopRecordingEffect
  <2>2. Leave(c, s) = [r EXCEPT !.connected = FALSE]
    BY <1>2 DEF Leave
  <2> HIDE DEF r
  <2> QED  BY <2>1, <2>2 DEF Clients
<1>3. CASE ~c.demoplayback /\ ~c.connected
  BY <1>3 DEF Leave
<1> QED  BY <1>1, <1>2, <1>3

LEMMA DemonumEffect ==
    ASSUME NEW c \in Clients, NEW n \in -1 .. MaxDemos
    PROVE  LET d == [c EXCEPT !.demonum = n]
           IN  /\ d \in Clients /\ d.demonum = n /\ d.listed = c.listed
               /\ d.connected = c.connected /\ d.sv_active = c.sv_active
               /\ d.demoplayback = c.demoplayback
BY DEF Clients

LEMMA MinusOne == -1 \in -1 .. MaxDemos
BY DemosAssumption

LEMMA ShutdownServerEffect ==
    ASSUME NEW c \in Clients, NEW s \in Sources, OnePlace(c)
    PROVE  LET d == ShutdownServer(c, s)
           IN  d \in Clients /\ OnePlace(d) /\ ~d.sv_active
<1>1. CASE c.sv_active
  <2> DEFINE l == Leave(c, s)
  <2>1. l \in Clients /\ ~l.demoplayback /\ ~l.connected
    BY <1>1, LeaveEffect
  <2>2. ShutdownServer(c, s) = [l EXCEPT !.sv_active = FALSE]
    BY <1>1 DEF ShutdownServer
  <2> HIDE DEF l
  <2> QED  BY <2>1, <2>2 DEF Clients, OnePlace
<1>2. CASE ~c.sv_active
  BY <1>2 DEF ShutdownServer
<1> QED  BY <1>1, <1>2

LEMMA DisconnectEffect ==
    ASSUME NEW c \in Clients, NEW s \in Sources, OnePlace(c)
    PROVE  LET d == Disconnect(c, s)
           IN  /\ d \in Clients /\ OnePlace(d)
               /\ ~d.sv_active /\ ~d.connected /\ ~d.demoplayback
<1> DEFINE l == Leave(c, s)
<1>1. l \in Clients /\ ~l.demoplayback /\ ~l.connected /\ l.sv_active = c.sv_active
  BY LeaveEffect
<1>2. CASE c.connected /\ ~c.demoplayback
  <2>1. Disconnect(c, s) = [l EXCEPT !.sv_active = FALSE]
    BY <1>2 DEF Disconnect
  <2> HIDE DEF l
  <2> QED  BY <1>1, <2>1 DEF Clients, OnePlace
<1>3. CASE ~(c.connected /\ ~c.demoplayback)
  <2>1. Disconnect(c, s) = l
    BY <1>3 DEF Disconnect
  <2>2. ~c.sv_active
    BY <1>3 DEF OnePlace
  <2> HIDE DEF l
  <2> QED  BY <1>1, <2>1, <2>2 DEF OnePlace
<1> QED  BY <1>2, <1>3

LEMMA DisconnectAllEffect ==
    ASSUME NEW c \in Clients, OnePlace(c)
    PROVE  LET d == DisconnectAll(c)
           IN  d \in Clients /\ OnePlace(d) /\ ~d.sv_active /\ ~d.connected /\ ~d.demoplayback
<1> DEFINE d == Disconnect(c, "command")
<1>1. d \in Clients /\ OnePlace(d) /\ ~d.sv_active /\ ~d.connected /\ ~d.demoplayback
  BY DisconnectEffect DEF Sources
<1>2. DisconnectAll(c) = d
  BY <1>1 DEF DisconnectAll, ShutdownServer
<1> QED  BY <1>1, <1>2

LEMMA NextDemoEffect ==
    ASSUME NEW c \in Clients, OnePlace(c)
    PROVE  LET d == NextDemo(c)
           IN  d \in Clients /\ OnePlace(d) /\ d.sv_active = c.sv_active
<1>1. c.demonum \in -1 .. MaxDemos /\ c.listed \in 0 .. MaxDemos
  BY DEF Clients
<1>2. PICK n \in -1 .. MaxDemos : NextDemo(c) = c \/ NextDemo(c) = [c EXCEPT !.demonum = n]
  <2>1. CASE c.demonum = -1
    BY <2>1, MinusOne DEF NextDemo
  <2>2. CASE c.demonum # -1 /\ c.listed = 0
    BY <2>2, MinusOne DEF NextDemo
  <2>3. CASE c.demonum # -1 /\ c.listed > 0
    <3> DEFINE n == IF c.demonum < c.listed THEN c.demonum + 1 ELSE 1
    <3>1. n \in -1 .. MaxDemos
      BY <1>1, DemosAssumption
    <3>2. NextDemo(c) = [c EXCEPT !.demonum = n]
      BY <1>1, <2>3 DEF NextDemo
    <3> QED  BY <3>1, <3>2
  <2> QED  BY <1>1, <2>1, <2>2, <2>3
<1> DEFINE d == [c EXCEPT !.demonum = n]
<1>3. d \in Clients /\ OnePlace(d) /\ d.sv_active = c.sv_active
  BY DemonumEffect DEF OnePlace
<1> QED  BY <1>2, <1>3

LEMMA EstablishConnectionEffect ==
    ASSUME NEW c \in Clients, OnePlace(c), ~c.demoplayback
    PROVE  LET d == EstablishConnection(c) IN d \in Clients /\ OnePlace(d) /\ ~d.sv_active
<1> DEFINE d == Disconnect(c, "command")
<1>1. d \in Clients /\ ~d.sv_active /\ ~d.demoplayback
  BY DisconnectEffect DEF Sources
<1>2. EstablishConnection(c) = [d EXCEPT !.connected = TRUE, !.demonum = -1]
  BY DEF EstablishConnection
<1> HIDE DEF d
<1> QED  BY <1>1, <1>2, MinusOne DEF Clients, OnePlace

LEMMA ConnectEffect ==
    ASSUME NEW c \in Clients, OnePlace(c)
    PROVE  LET d == Connect(c) IN d \in Clients /\ OnePlace(d) /\ ~d.sv_active
<1> DEFINE d == [c EXCEPT !.demonum = -1]
           e == IF d.demoplayback THEN StopPlayback(d) ELSE d
<1>1. d \in Clients /\ OnePlace(d)
  BY DemonumEffect, MinusOne DEF OnePlace
<1>2. Connect(c) = EstablishConnection(e)
  BY DEF Connect
<1> HIDE DEF d
<1>3. e \in Clients /\ OnePlace(e) /\ ~e.demoplayback
  BY <1>1, StopPlaybackEffect DEF OnePlace
<1> HIDE DEF e
<1> QED  BY <1>2, <1>3, EstablishConnectionEffect

LEMMA NoMapEffect ==
    ASSUME NEW c \in Clients, OnePlace(c)
    PROVE  LET d == NoMap(c)
           IN  d \in Clients /\ OnePlace(d) /\ ~d.sv_active /\ ~d.connected /\ ~d.demoplayback
<1> DEFINE d == [c EXCEPT !.demonum = -1]
<1>1. d \in Clients /\ OnePlace(d)
  BY DemonumEffect, MinusOne DEF OnePlace
<1>2. NoMap(c) = DisconnectAll(d)
  BY DEF NoMap
<1> HIDE DEF d
<1> QED  BY <1>1, <1>2, DisconnectAllEffect

\* The server runs before its own client connects, and is the one it connects to.
LEMMA StartMapEffect ==
    ASSUME NEW c \in Clients, OnePlace(c)
    PROVE  StartMap(c) \in Clients /\ OnePlace(StartMap(c))
<1> DEFINE n == NoMap(c)
           d == [n EXCEPT !.sv_active = TRUE]
           e == [d EXCEPT !.demonum = -1]
<1>1. n \in Clients /\ ~n.connected /\ ~n.demoplayback
  BY NoMapEffect
<1>2. StartMap(c) = Connect(d)
  BY DEF StartMap
<1> HIDE DEF n
<1>3. d \in Clients /\ ~d.connected /\ ~d.demoplayback
  BY <1>1 DEF Clients
<1> HIDE DEF d
<1>4. e \in Clients /\ ~e.connected /\ ~e.demoplayback
  BY <1>3, DemonumEffect, MinusOne
<1>5. Connect(d) = EstablishConnection(e)
  BY <1>4 DEF Connect
<1> HIDE DEF e
<1>6. Disconnect(e, "command") = e
  BY <1>4 DEF Disconnect, Leave
<1>7. EstablishConnection(e) = [e EXCEPT !.connected = TRUE, !.demonum = -1]
  BY <1>4, <1>6 DEF EstablishConnection
<1>8. StartMap(c) = [e EXCEPT !.connected = TRUE, !.demonum = -1]
  BY <1>2, <1>5, <1>7
<1> HIDE DEF e
<1> QED  BY <1>4, <1>8, MinusOne DEF Clients, OnePlace

LEMMA ErrorEffect ==
    ASSUME NEW c \in Clients, NEW s \in Sources, OnePlace(c)
    PROVE  LET d == Error(c, s) IN d \in Clients /\ OnePlace(d) /\ ~d.sv_active
<1> DEFINE d == Disconnect(ShutdownServer(c, s), s)
<1>1. d \in Clients /\ OnePlace(d) /\ ~d.sv_active
  BY ShutdownServerEffect, DisconnectEffect
<1>2. Error(c, s) = [d EXCEPT !.demonum = -1]
  BY DEF Error
<1> HIDE DEF d
<1> QED  BY <1>1, <1>2, DemonumEffect, MinusOne DEF OnePlace

LEMMA EndGameEffect ==
    ASSUME NEW c \in Clients, NEW s \in Sources, OnePlace(c)
    PROVE  LET d == EndGame(c, s) IN d \in Clients /\ OnePlace(d) /\ ~d.sv_active
BY ShutdownServerEffect, DisconnectEffect, NextDemoEffect DEF EndGame

LEMMA PlayDemoEffect ==
    ASSUME NEW c \in Clients, NEW found \in BOOLEAN, OnePlace(c)
    PROVE  LET d == PlayDemo(c, found) IN d \in Clients /\ OnePlace(d) /\ ~d.sv_active
<1> DEFINE d == Disconnect(c, "command")
<1>1. d \in Clients /\ OnePlace(d) /\ ~d.sv_active
  BY DisconnectEffect DEF Sources
<1>2. CASE found
  <2>1. PlayDemo(c, found)
          = [d EXCEPT !.demofile = "read", !.demoplayback = TRUE, !.connected = TRUE]
    BY <1>2 DEF PlayDemo
  <2> HIDE DEF d
  <2> QED  BY <1>1, <2>1 DEF Clients, OnePlace
<1>3. CASE ~found
  <2>1. PlayDemo(c, found) = [d EXCEPT !.demofile = "none", !.demonum = -1]
    BY <1>3 DEF PlayDemo
  <2> HIDE DEF d
  <2> QED  BY <1>1, <2>1, MinusOne DEF Clients, OnePlace
<1> QED  BY <1>2, <1>3

LEMMA RecordEffect ==
    ASSUME NEW c \in Clients, NEW opens \in BOOLEAN, OnePlace(c)
    PROVE  LET d == Record(c, opens)
           IN  d \in Clients /\ OnePlace(d) /\ d.sv_active = c.sv_active
BY DEF Record, Clients, OnePlace

LEMMA StopDemoEffect ==
    ASSUME NEW c \in Clients, OnePlace(c)
    PROVE  LET d == StopDemo(c)
           IN  d \in Clients /\ OnePlace(d) /\ d.sv_active = c.sv_active
BY StopPlaybackEffect DEF StopDemo, OnePlace

LEMMA GetMessageEffect ==
    ASSUME NEW c \in Clients, OnePlace(c)
    PROVE  LET d == GetMessage(c)
           IN  d \in Clients /\ OnePlace(d) /\ d.sv_active = c.sv_active
BY UseFileKeeps DEF GetMessage, OnePlace

LEMMA ListEffect ==
    ASSUME NEW c \in Clients, NEW n \in 0 .. MaxDemos, OnePlace(c)
    PROVE  LET d == List(c, n)
           IN  d \in Clients /\ OnePlace(d) /\ d.sv_active = c.sv_active
BY DEF List, Clients, OnePlace

LEMMA StartDemosEffect ==
    ASSUME NEW c \in Clients, NEW n \in 0 .. MaxDemos, OnePlace(c)
    PROVE  LET d == StartDemos(c, n)
           IN  d \in Clients /\ OnePlace(d) /\ d.sv_active = c.sv_active
<1> DEFINE l == List(c, n)
<1>1. l \in Clients /\ OnePlace(l) /\ l.sv_active = c.sv_active
  BY ListEffect
<1>2. 0 \in -1 .. MaxDemos
  BY DemosAssumption
<1>3. StartDemos(c, n) = NextDemo([l EXCEPT !.demonum = 0])
      \/ StartDemos(c, n) = [l EXCEPT !.demonum = -1]
  BY DEF StartDemos
<1> HIDE DEF l
<1>4. \A k \in {0, -1} : LET d == [l EXCEPT !.demonum = k]
                         IN  d \in Clients /\ OnePlace(d) /\ d.sv_active = c.sv_active
  BY <1>1, <1>2, MinusOne, DemonumEffect DEF OnePlace
<1> QED  BY <1>3, <1>4, NextDemoEffect

LEMMA BackToDemosEffect ==
    ASSUME NEW c \in Clients, OnePlace(c)
    PROVE  LET d == BackToDemos(c) IN d \in Clients /\ OnePlace(d) /\ ~d.sv_active
<1> DEFINE n == IF c.demonum = -1 THEN 1 ELSE c.demonum
<1>1. n \in -1 .. MaxDemos
  BY DemosAssumption DEF Clients
<1>2. BackToDemos(c) = DisconnectAll([c EXCEPT !.demonum = n])
  BY DEF BackToDemos
<1> HIDE DEF n
<1> DEFINE d == [c EXCEPT !.demonum = n]
<1>3. d \in Clients /\ OnePlace(d)
  BY <1>1, DemonumEffect DEF OnePlace
<1> HIDE DEF d
<1>4. BackToDemos(c) = DisconnectAll(d)
  BY <1>2 DEF d
<1> QED  BY <1>3, <1>4, DisconnectAllEffect

-----------------------------------------------------------------------------
(* The menus.                                                                *)

MenuInv ==
    /\ key_dest \in {"game", "console", "message", "menu"}
    /\ m_state \in Menus \cup {"none"}
    /\ m_quit_prevstate \in (Menus \ {"quit"}) \cup {"none"}
    /\ wasInMenus \in BOOLEAN /\ bind_grab \in BOOLEAN
    /\ NoDeadEndInv

LEMMA MenusAreKnown ==
    /\ \A m \in DOMAIN Parent : m \in Menus /\ Parent[m] \in Menus /\ Parent[m] # "quit" /\ Parent[m] # "none"
    /\ {"singleplayer", "multiplayer", "options", "help", "load", "save", "setup", "keys"} \subseteq Menus
    /\ "main" \in Menus /\ "quit" \in Menus /\ "none" \notin Menus
BY DEF Parent, Menus

LEMMA OpenKeeps ==
    ASSUME MenuInv, NEW m \in Menus, m # "quit", Open(m)
    PROVE  MenuInv'
BY MenusAreKnown DEF MenuInv, NoDeadEndInv, NoDeadEnd, Open, quit

LEMMA OpenMainKeeps ==
    ASSUME MenuInv, NEW c, OpenMain(c)
    PROVE  MenuInv'
BY MenusAreKnown DEF MenuInv, NoDeadEndInv, NoDeadEnd, OpenMain, quit

LEMMA OpenQuitKeeps ==
    ASSUME MenuInv, OpenQuit
    PROVE  MenuInv'
BY MenusAreKnown DEF MenuInv, NoDeadEndInv, NoDeadEnd, OpenQuit, quit

LEMMA CloseMenuKeeps ==
    ASSUME MenuInv, CloseMenu, UNCHANGED <<quit, bind_grab>>
    PROVE  MenuInv'
BY DEF MenuInv, NoDeadEndInv, NoDeadEnd, CloseMenu, quit

\* The keys go elsewhere, whatever the menu.
LEMMA AsideKeeps ==
    ASSUME MenuInv, key_dest' \in {"game", "console", "message"},
           UNCHANGED <<m_state, quit>>, bind_grab' \in BOOLEAN
    PROVE  MenuInv'
BY DEF MenuInv, NoDeadEndInv, NoDeadEnd, quit

LEMMA UnchangedKeeps ==
    ASSUME MenuInv, UNCHANGED menu
    PROVE  MenuInv'
BY DEF MenuInv, NoDeadEndInv, NoDeadEnd, menu, quit

LEMMA ToggleConsoleKeeps ==
    ASSUME MenuInv, ToggleConsole
    PROVE  MenuInv'
<1>1. CASE OpenMain(cls)
  BY <1>1, OpenMainKeeps
<1>2. CASE ~OpenMain(cls)
  BY <1>2, AsideKeeps DEF ToggleConsole, MenuInv
<1> QED  BY <1>1, <1>2

LEMMA ToggleMenuKeeps ==
    ASSUME MenuInv, ToggleMenu
    PROVE  MenuInv'
BY CloseMenuKeeps, OpenMainKeeps, ToggleConsoleKeeps DEF ToggleMenu

LEMMA LeaveQuitKeeps ==
    ASSUME MenuInv, m_state = "quit", LeaveQuit
    PROVE  MenuInv'
<1>1. CASE wasInMenus
  BY <1>1 DEF LeaveQuit, MenuInv, NoDeadEndInv, NoDeadEnd, quit
<1>2. CASE ~wasInMenus
  BY <1>2, CloseMenuKeeps DEF LeaveQuit
<1> QED  BY <1>1, <1>2

LEMMA MenuEscapeKeeps ==
    ASSUME MenuInv, MenuEscape
    PROVE  MenuInv'
<1>1. CASE m_state = "main" /\ LeaveMain
  BY <1>1, CloseMenuKeeps DEF LeaveMain
<1>2. CASE m_state = "quit" /\ LeaveQuit
  BY <1>2, LeaveQuitKeeps
<1>3. CASE /\ bind_grab' = FALSE
           /\ UNCHANGED <<key_dest, m_state, quit, m_save_demonum, cls, cbuf>>
  BY <1>3 DEF MenuInv, NoDeadEndInv, NoDeadEnd, quit
<1>4. CASE m_state \in DOMAIN Parent /\ (OpenMain(cls) \/ Open(Parent[m_state]))
  BY <1>4, MenusAreKnown, OpenMainKeeps, OpenKeeps
<1> QED  BY <1>1, <1>2, <1>3, <1>4 DEF MenuEscape

LEMMA KeyKeepsMenu ==
    ASSUME MenuInv, Key
    PROVE  MenuInv'
<1>1. CASE Escape
  <2>1. CASE MenuEscape
    BY <2>1, MenuEscapeKeeps
  <2>2. CASE ToggleMenu
    BY <2>2, ToggleMenuKeeps
  <2>3. CASE /\ key_dest' = "game"
             /\ UNCHANGED <<m_state, quit, bind_grab, m_save_demonum, cls, cbuf>>
    BY <2>3, AsideKeeps DEF MenuInv
  <2> QED  BY <1>1, <2>1, <2>2, <2>3 DEF Escape
<1>2. CASE DemoKey
  BY <1>2, ToggleMenuKeeps DEF DemoKey
<1>3. CASE AddText
  BY <1>3, UnchangedKeeps DEF AddText
<1>4. CASE Say
  BY <1>4, AsideKeeps DEF Say, MenuInv
<1>5. CASE OpenItem
  BY <1>5, OpenKeeps, OpenQuitKeeps, MenusAreKnown
     DEF OpenItem, MainItem, SinglePlayerItem, MultiPlayerItem, SetupItem, OptionsItem
<1>6. CASE ConsoleItem
  BY <1>6 DEF ConsoleItem, MenuInv, NoDeadEndInv, NoDeadEnd, quit
<1>7. CASE SlotItem
  BY <1>7, CloseMenuKeeps DEF SlotItem
<1>8. CASE NewGameItem
  BY <1>8, AsideKeeps DEF NewGameItem, MenuInv
<1>9. CASE GrabKey
  BY <1>9 DEF GrabKey, MenuInv, NoDeadEndInv, NoDeadEnd, quit
<1>10. CASE QuitItem
  BY <1>10, AsideKeeps DEF QuitItem, MenuInv
<1> QED  BY <1>1, <1>2, <1>3, <1>4, <1>5, <1>6, <1>7, <1>8, <1>9, <1>10 DEF Key

\* A command leaves the menus alone, opens one, or sends the keys elsewhere.
LEMMA CommandMenus ==
    ASSUME Command
    PROVE  \/ UNCHANGED menu
           \/ MenuCommand \/ QuitCommand
           \/ /\ key_dest' \in {"game", "message"}
              /\ UNCHANGED <<m_state, quit, bind_grab, m_save_demonum>>
BY DEF Command, MessageMode, MapCommand, FailingMap, RecordMap, RecordCommand, LoadCommand,
       ChangeLevel, ConnectCommand, ClientCommand, FailingCommand, DemoCommand, InsertingCommand, Wait

LEMMA NextKeepsMenu ==
    ASSUME MenuInv, [Next]_vars
    PROVE  MenuInv'
<1>1. CASE Key
  BY <1>1, KeyKeepsMenu
<1>2. CASE Command
  <2>1. CASE UNCHANGED menu
    BY <2>1, UnchangedKeeps
  <2>2. CASE MenuCommand
    <3>1. CASE \E m \in DOMAIN Parent : Open(m)
      <4>1. PICK m \in DOMAIN Parent : Open(m)
        BY <3>1
      <4>2. m \in Menus /\ m # "quit"
        BY DEF Parent, Menus
      <4> QED  BY <4>1, <4>2, OpenKeeps
    <3>2. CASE ToggleMenu \/ ToggleConsole \/ OpenMain(cls) \/ OpenQuit
      BY <3>2, ToggleMenuKeeps, ToggleConsoleKeeps, OpenMainKeeps, OpenQuitKeeps
    <3> QED  BY <2>2, <3>1, <3>2 DEF MenuCommand
  <2>3. CASE QuitCommand
    BY <2>3, OpenQuitKeeps, UnchangedKeeps DEF QuitCommand
  <2>4. CASE /\ key_dest' \in {"game", "message"}
             /\ UNCHANGED <<m_state, quit, bind_grab, m_save_demonum>>
    BY <2>4, AsideKeeps DEF MenuInv
  <2> QED  BY <1>2, <2>1, <2>2, <2>3, <2>4, CommandMenus
<1>3. CASE \/ Bind \/ PlayNext \/ Turn \/ ReadMessage \/ DemoRunsOut \/ ServerEnds \/ Fails
           \/ UNCHANGED vars
  BY <1>3, UnchangedKeeps DEF Bind, PlayNext, Turn, ReadMessage, DemoRunsOut, ServerEnds, Fails, vars
<1> QED  BY <1>1, <1>2, <1>3 DEF Next

LEMMA MenuInvariant == Spec => []MenuInv
<1>1. Init => MenuInv
  BY DEF Init, MenuInv, NoDeadEndInv, NoDeadEnd
<1> QED  BY <1>1, NextKeepsMenu, PTL DEF Spec

\* Keys that go to the menus find one, so that the player can always leave
\* (M_Keydown ignores m_none).
THEOREM NeverStuck == Spec => []NoDeadEnd
<1>1. MenuInv => NoDeadEnd
  BY DEF MenuInv, NoDeadEndInv
<1> QED  BY <1>1, MenuInvariant, PTL

-----------------------------------------------------------------------------
(* Escape.                                                                   *)

\* Escape in a menu is one level nearer to the game.
THEOREM EscapeLeadsOut == Spec => EscapeLeads
<1>1. ASSUME MenuInv, Escape, key_dest = "menu"
      PROVE  Presses' = Presses - 1
  <2>1. MenuEscape
    BY <1>1 DEF Escape
  <2>2. CASE m_state = "main" /\ LeaveMain
    BY <1>1, <2>2 DEF LeaveMain, CloseMenu, Presses, Level, Grabs
  <2>3. CASE m_state = "quit" /\ LeaveQuit
    <3>1. CASE wasInMenus
      <4>1. /\ m_quit_prevstate \in Menus \ {"quit"}
            /\ m_state' = m_quit_prevstate /\ key_dest' = "menu" /\ bind_grab' = bind_grab
        BY <1>1, <2>3, <3>1 DEF LeaveQuit, MenuInv, NoDeadEndInv
      <4>2. Level[m_quit_prevstate] \in Int /\ Grabs(m_quit_prevstate) \in Int
        BY <4>1 DEF Level, Menus, Parent, Grabs
      <4>3. Presses = 1 + (Level[m_quit_prevstate] + Grabs(m_quit_prevstate))
        BY <1>1, <2>3, <3>1 DEF Presses
      <4>4. Presses' = Level[m_quit_prevstate] + Grabs(m_quit_prevstate)
        BY <4>1 DEF Presses, Grabs
      <4> QED  BY <4>2, <4>3, <4>4
    <3>2. CASE ~wasInMenus
      BY <1>1, <2>3, <3>2 DEF LeaveQuit, CloseMenu, Presses
    <3> QED  BY <3>1, <3>2
  <2>4. CASE /\ m_state = "keys" /\ bind_grab /\ bind_grab' = FALSE
             /\ UNCHANGED <<key_dest, m_state, quit, m_save_demonum, cls, cbuf>>
    BY <1>1, <2>4 DEF Presses, Level, Grabs
  <2>5. CASE /\ m_state \in DOMAIN Parent /\ ~(m_state = "keys" /\ bind_grab)
             /\ IF Parent[m_state] = "main" THEN OpenMain(cls)
                ELSE Open(Parent[m_state]) /\ UNCHANGED cls
    <3>1. m_state' = Parent[m_state] /\ key_dest' = "menu"
      BY <2>5 DEF OpenMain, Open
    <3>2. Level[Parent[m_state]] = Level[m_state] - 1 /\ Parent[m_state] \notin {"keys", "quit"}
      BY <2>5 DEF Parent, Level
    <3>3. m_state # "quit" /\ Level[m_state] \in Int
      BY <2>5 DEF Parent, Level
    <3>4. Presses = Level[m_state]
      BY <1>1, <2>5, <3>3 DEF Presses, Grabs
    <3>5. Presses' = Level[Parent[m_state]]
      BY <3>1, <3>2, <3>3 DEF Presses, Grabs
    <3> QED  BY <3>2, <3>4, <3>5
  <2> QED  BY <2>1, <2>2, <2>3, <2>4, <2>5 DEF MenuEscape
<1>2. MenuInv => [(Escape /\ key_dest = "menu") => Presses' = Presses - 1]_vars
  BY <1>1
<1> QED  BY <1>2, MenuInvariant, PTL DEF EscapeLeads

-----------------------------------------------------------------------------
(* The command buffer and the client.                                        *)

Texts == {"text", "bind", "playdemo"}
NoneToPlay(b) == \A i \in 1 .. Len(b) : b[i] # "playdemo"

\* What CL_NextDemo inserted is in front of everything that was added.
PlaysFirst(b) == \A i, j \in 1 .. Len(b) : j < i /\ b[i] = "playdemo" => b[j] # "text"

ClientInv ==
    /\ m_save_demonum \in -1 .. MaxDemos
    /\ cls \in Clients /\ OnePlace(cls)
    /\ cbuf \in Seq(Texts) /\ PlaysFirst(cbuf)
    /\ cls.sv_active => NoneToPlay(cbuf)

LEMMA AppendKeeps ==
    ASSUME NEW b \in Seq(Texts), PlaysFirst(b)
    PROVE  LET d == Append(b, "text")
           IN  d \in Seq(Texts) /\ PlaysFirst(d) /\ (NoneToPlay(b) => NoneToPlay(d))
BY DEF PlaysFirst, NoneToPlay, Texts

LEMMA InsertKeeps ==
    ASSUME NEW b \in Seq(Texts), PlaysFirst(b), NEW t \in {"bind", "playdemo"}
    PROVE  LET d == <<t>> \o b
           IN  d \in Seq(Texts) /\ PlaysFirst(d) /\ (t = "bind" /\ NoneToPlay(b) => NoneToPlay(d))
<1> DEFINE d == <<t>> \o b
<1>1. d \in Seq(Texts) /\ Len(d) = Len(b) + 1 /\ d[1] = t
  BY DEF Texts
<1>2. \A i \in 2 .. Len(d) : i - 1 \in 1 .. Len(b) /\ d[i] = b[i - 1]
  BY <1>1
<1> HIDE DEF d
<1>3. ASSUME NEW i \in 1 .. Len(d), NEW j \in 1 .. Len(d), j < i, d[i] = "playdemo"
      PROVE  d[j] # "text"
  <2>1. CASE j = 1
    BY <1>1, <2>1
  <2>2. CASE j # 1
    <3>1. Len(b) \in Nat /\ i \in 2 .. Len(d) /\ j \in 2 .. Len(d)
      BY <1>1, <1>3, <2>2
    <3>2. /\ i - 1 \in 1 .. Len(b) /\ b[i - 1] = "playdemo"
          /\ j - 1 \in 1 .. Len(b) /\ d[j] = b[j - 1]
      BY <1>2, <1>3, <3>1
    <3>3. j - 1 < i - 1
      BY <1>1, <1>3, <3>1
    <3>4. b[j - 1] # "text"
      BY <3>2, <3>3 DEF PlaysFirst
    <3> QED  BY <3>2, <3>4
  <2> QED  BY <2>1, <2>2
<1>4. ASSUME t = "bind", NoneToPlay(b), NEW i \in 1 .. Len(d)
      PROVE  d[i] # "playdemo"
  <2>1. i = 1 \/ i \in 2 .. Len(d)
    BY <1>1
  <2> QED  BY <1>1, <1>2, <1>4, <2>1 DEF NoneToPlay
<1>5. d \in Seq(Texts) /\ PlaysFirst(d) /\ (t = "bind" /\ NoneToPlay(b) => NoneToPlay(d))
  BY <1>1, <1>3, <1>4 DEF PlaysFirst, NoneToPlay
<1> QED  BY <1>5 DEF d

LEMMA TailKeeps ==
    ASSUME NEW b \in Seq(Texts), b # <<>>, PlaysFirst(b)
    PROVE  /\ Tail(b) \in Seq(Texts) /\ PlaysFirst(Tail(b))
           /\ Head(b) = "text" => NoneToPlay(b) /\ NoneToPlay(Tail(b))
           /\ NoneToPlay(b) => NoneToPlay(Tail(b))
<1>1. /\ Tail(b) \in Seq(Texts) /\ Len(Tail(b)) = Len(b) - 1 /\ Len(b) \in Nat /\ Len(b) > 0
      /\ Head(b) = b[1]
  OBVIOUS
<1>2. \A i \in 1 .. Len(Tail(b)) : i + 1 \in 1 .. Len(b) /\ Tail(b)[i] = b[i + 1]
  BY <1>1
<1>3. PlaysFirst(Tail(b))
  BY <1>1, <1>2 DEF PlaysFirst
<1>4. Head(b) = "text" => NoneToPlay(b)
  BY <1>1 DEF PlaysFirst, NoneToPlay
<1>5. NoneToPlay(b) => NoneToPlay(Tail(b))
  BY <1>1, <1>2 DEF NoneToPlay
<1> QED  BY <1>1, <1>3, <1>4, <1>5

\* A client that another client turned into is fine.
Fine(c) == c \in Clients /\ OnePlace(c)

\* The steps of the buffer: nothing, a text at its end, a bind in front, its head
\* executed, a playdemo in front, before or after that.
LEMMA SameStep ==
    ASSUME ClientInv, cbuf' = cbuf, Fine(cls'), cls'.sv_active => cls.sv_active,
           m_save_demonum' \in -1 .. MaxDemos
    PROVE  ClientInv'
BY DEF ClientInv, Fine

LEMMA AppendStep ==
    ASSUME ClientInv, cbuf' = Append(cbuf, "text"), cls' = cls, m_save_demonum' = m_save_demonum
    PROVE  ClientInv'
BY AppendKeeps DEF ClientInv

LEMMA GrabStep ==
    ASSUME ClientInv, cbuf' = <<"bind">> \o cbuf, cls' = cls, m_save_demonum' = m_save_demonum
    PROVE  ClientInv'
BY InsertKeeps DEF ClientInv

LEMMA TextStep ==
    ASSUME ClientInv, Execute("text"), cbuf' = Tail(cbuf), Fine(cls'),
           m_save_demonum' \in -1 .. MaxDemos
    PROVE  ClientInv'
BY TailKeeps DEF ClientInv, Execute, Fine

LEMMA InsertStep ==
    ASSUME ClientInv, NEW b, b = cbuf \/ (cbuf # <<>> /\ b = Tail(cbuf)), cbuf' = InsertNext(b),
           Fine(cls'), ~cls'.sv_active, m_save_demonum' \in -1 .. MaxDemos
    PROVE  ClientInv'
<1>1. b \in Seq(Texts) /\ PlaysFirst(b)
  BY TailKeeps DEF ClientInv
<1> QED  BY <1>1, InsertKeeps DEF ClientInv, Fine, InsertNext

\* The menus only change where the loop is.
Aside ==
    /\ Fine(cls') /\ cls'.sv_active = cls.sv_active
    /\ m_save_demonum' \in -1 .. MaxDemos

LEMMA OpenMainAside ==
    ASSUME ClientInv, OpenMain(cls)
    PROVE  Aside
<1> DEFINE d == [cls EXCEPT !.demonum = -1]
<1>1. d \in Clients /\ OnePlace(d) /\ d.sv_active = cls.sv_active /\ cls.demonum \in -1 .. MaxDemos
  BY DemonumEffect, MinusOne DEF ClientInv, OnePlace, Clients
<1>2. cls' = cls \/ cls' = d
  BY DEF OpenMain
<1>3. m_save_demonum' = m_save_demonum \/ m_save_demonum' = cls.demonum
  BY DEF OpenMain
<1> HIDE DEF d
<1> QED  BY <1>1, <1>2, <1>3 DEF ClientInv, Aside, Fine

LEMMA ToggleAside ==
    ASSUME ClientInv, ToggleMenu \/ ToggleConsole
    PROVE  Aside
<1>1. OpenMain(cls) \/ UNCHANGED <<m_save_demonum, cls>>
  BY DEF ToggleMenu, ToggleConsole
<1> QED  BY <1>1, OpenMainAside DEF ClientInv, Aside, Fine

LEMMA LeaveMainKeeps ==
    ASSUME ClientInv, LeaveMain
    PROVE  ClientInv'
<1> DEFINE c == [cls EXCEPT !.demonum = m_save_demonum]
           next == c.demonum # -1 /\ ~c.demoplayback /\ ~c.connected
<1>1. Fine(c) /\ c.sv_active = cls.sv_active /\ c.connected = cls.connected
  BY DemonumEffect DEF ClientInv, Fine, OnePlace
<1>2. Fine(NextDemo(c)) /\ NextDemo(c).sv_active = cls.sv_active
  BY <1>1, NextDemoEffect DEF Fine
<1>3. /\ cls' = IF next THEN NextDemo(c) ELSE c
      /\ IF next /\ PlaysNext(c) THEN cbuf' = InsertNext(cbuf) ELSE cbuf' = cbuf
      /\ m_save_demonum' = m_save_demonum
  BY DEF LeaveMain
<1>4. next => ~cls.sv_active
  BY <1>1 DEF Fine, OnePlace
<1> HIDE DEF c, next
<1>5. CASE next /\ PlaysNext(c)
  BY <1>2, <1>3, <1>4, <1>5, InsertStep DEF ClientInv
<1>6. CASE ~(next /\ PlaysNext(c))
  <2>1. Fine(cls') /\ cls'.sv_active = cls.sv_active /\ cbuf' = cbuf
    BY <1>1, <1>2, <1>3, <1>6
  <2> QED  BY <1>3, <2>1, SameStep DEF ClientInv
<1> QED  BY <1>5, <1>6

LEMMA KeyKeepsClient ==
    ASSUME ClientInv, Key
    PROVE  ClientInv'
<1>1. CASE AddText \/ Say \/ SlotItem \/ NewGameItem
  <2>1. cbuf' = Append(cbuf, "text") /\ cls' = cls /\ m_save_demonum' = m_save_demonum
    BY <1>1 DEF AddText, Say, SlotItem, NewGameItem, menu
  <2> QED  BY <2>1, AppendStep
<1>2. CASE Aside /\ cbuf' = cbuf
  BY <1>2, SameStep DEF Aside
<1>3. CASE OpenItem \/ ConsoleItem \/ GrabKey
  <2>1. /\ cls' = cls /\ m_save_demonum' = m_save_demonum
        /\ \/ cbuf' = cbuf \/ cbuf' = Append(cbuf, "text") \/ cbuf' = <<"bind">> \o cbuf
    BY <1>3 DEF OpenItem, MainItem, SinglePlayerItem, MultiPlayerItem, SetupItem, OptionsItem,
                ConsoleItem, GrabKey, Open, OpenQuit
  <2> QED  BY <1>2, <2>1, AppendStep, GrabStep DEF Aside, ClientInv, Fine
<1>4. CASE QuitItem
  <2> DEFINE d == DisconnectAll(cls)
  <2>1. d \in Clients /\ OnePlace(d) /\ ~d.sv_active
    BY DisconnectAllEffect DEF ClientInv
  <2>2. cls' = [d EXCEPT !.run = FALSE] /\ cbuf' = cbuf /\ m_save_demonum' = m_save_demonum
    BY <1>4 DEF QuitItem, Exit
  <2> HIDE DEF d
  <2>3. Fine(cls') /\ ~cls'.sv_active
    BY <2>1, <2>2 DEF Fine, Clients, OnePlace
  <2> QED  BY <2>2, <2>3, SameStep DEF ClientInv
<1>5. CASE DemoKey
  BY <1>2, <1>5, ToggleAside DEF DemoKey
<1>6. CASE Escape
  <2>1. CASE LeaveMain
    BY <2>1, LeaveMainKeeps
  <2>2. CASE OpenMain(cls) /\ cbuf' = cbuf
    BY <1>2, <2>2, OpenMainAside
  <2>3. CASE (ToggleMenu \/ ToggleConsole) /\ cbuf' = cbuf
    BY <1>2, <2>3, ToggleAside
  <2>4. CASE cbuf' = cbuf /\ cls' = cls /\ m_save_demonum' = m_save_demonum
    BY <1>2, <2>4 DEF Aside, ClientInv, Fine
  <2>5. \/ LeaveMain \/ (OpenMain(cls) /\ cbuf' = cbuf)
        \/ ((ToggleMenu \/ ToggleConsole) /\ cbuf' = cbuf)
        \/ (cbuf' = cbuf /\ cls' = cls /\ m_save_demonum' = m_save_demonum)
    BY <1>6 DEF Escape, MenuEscape, LeaveQuit, Open
  <2> QED  BY <2>1, <2>2, <2>3, <2>4, <2>5
<1> QED  BY <1>1, <1>3, <1>4, <1>5, <1>6 DEF Key

\* What the commands that are no menu's do to the client.
LEMMA CommandClients ==
    ASSUME ClientInv
    PROVE  /\ Fine(NoMap(cls)) /\ Fine(StartMap(cls)) /\ Fine(DisconnectAll(cls)) /\ Fine(Connect(cls))
           /\ Fine(StopRecording(cls, "command")) /\ Fine(StopDemo(cls))
           /\ Fine([cls EXCEPT !.demonum = -1])
           /\ Fine([cls EXCEPT !.sv_active = FALSE])
           /\ Fine(Error([cls EXCEPT !.sv_active = FALSE], "command"))
           /\ Fine(Error(cls, "command")) /\ Fine(Error(NoMap(cls), "command"))
           /\ Fine(Error(Disconnect(cls, "command"), "command"))
           /\ \A found \in BOOLEAN : Fine(PlayDemo(cls, found)) /\ ~PlayDemo(cls, found).sv_active
           /\ \A c \in {cls, NoMap(cls), StartMap(cls)}, opens \in BOOLEAN : Fine(Record(c, opens))
<1>1. Fine(cls) /\ "command" \in Sources
  BY DEF ClientInv, Fine, Sources
<1>2. Fine(NoMap(cls)) /\ Fine(StartMap(cls)) /\ Fine(DisconnectAll(cls)) /\ Fine(Connect(cls))
  BY <1>1, NoMapEffect, StartMapEffect, DisconnectAllEffect, ConnectEffect DEF Fine
<1>3. Fine(StopRecording(cls, "command")) /\ Fine(StopDemo(cls))
  BY <1>1, StopRecordingEffect, StopDemoEffect DEF Fine, OnePlace
<1>4. Fine([cls EXCEPT !.demonum = -1])
  BY <1>1, DemonumEffect, MinusOne DEF Fine, OnePlace
<1>5. Fine(Disconnect(cls, "command"))
  BY <1>1, DisconnectEffect DEF Fine
<1>6. \A c : Fine(c) => Fine(Error(c, "command"))
  BY <1>1, ErrorEffect DEF Fine
<1>7. \A found \in BOOLEAN : Fine(PlayDemo(cls, found)) /\ ~PlayDemo(cls, found).sv_active
  BY <1>1, PlayDemoEffect DEF Fine
<1>8. \A c : Fine(c) => \A opens \in BOOLEAN : Fine(Record(c, opens))
  BY RecordEffect DEF Fine
<1>9. \A c \in {cls, NoMap(cls), StartMap(cls)}, opens \in BOOLEAN : Fine(Record(c, opens))
  BY <1>1, <1>2, <1>8
<1>10. /\ Fine(Error(cls, "command")) /\ Fine(Error(NoMap(cls), "command"))
       /\ Fine(Error(Disconnect(cls, "command"), "command"))
  BY <1>1, <1>2, <1>5, <1>6
<1>11. Fine([cls EXCEPT !.sv_active = FALSE])
  BY <1>1 DEF Fine, Clients, OnePlace
<1>12. Fine(Error([cls EXCEPT !.sv_active = FALSE], "command"))
  BY <1>6, <1>11
<1> QED  BY <1>2, <1>3, <1>4, <1>7, <1>9, <1>10, <1>11, <1>12

LEMMA InsertingKeeps ==
    ASSUME ClientInv, NEW c, NEW plays, InsertingCommand(c, plays), Fine(c), plays => ~c.sv_active
    PROVE  ClientInv'
<1>1. /\ Execute("text") /\ cls' = c /\ m_save_demonum' = m_save_demonum
      /\ cbuf' = IF plays THEN InsertNext(Tail(cbuf)) ELSE Tail(cbuf)
  BY DEF InsertingCommand, menu
<1>2. m_save_demonum' \in -1 .. MaxDemos
  BY <1>1 DEF ClientInv
<1>3. CASE plays
  BY <1>1, <1>2, <1>3, InsertStep DEF Execute
<1>4. CASE ~plays
  BY <1>1, <1>2, <1>4, TextStep
<1> QED  BY <1>3, <1>4

LEMMA CommandKeepsClient ==
    ASSUME ClientInv, Command
    PROVE  ClientInv'
<1>1. CASE MenuCommand
  <2>1. Execute("text") /\ cbuf' = Tail(cbuf)
    BY <1>1 DEF MenuCommand
  <2>2. CASE ToggleMenu \/ ToggleConsole \/ OpenMain(cls)
    BY <2>1, <2>2, OpenMainAside, ToggleAside, TextStep DEF Aside
  <2>3. CASE UNCHANGED <<m_save_demonum, cls>>
    BY <2>1, <2>3, TextStep DEF ClientInv, Fine
  <2> QED  BY <1>1, <2>2, <2>3 DEF MenuCommand, Open, OpenQuit
<1>2. CASE QuitCommand
  <2>1. Execute("text") /\ cbuf' = Tail(cbuf) /\ m_save_demonum' = m_save_demonum
    BY <1>2 DEF QuitCommand, OpenQuit, menu
  <2>2. CASE cls' = cls
    BY <2>1, <2>2, TextStep DEF ClientInv, Fine
  <2>3. CASE Exit
    <3> DEFINE d == DisconnectAll(cls)
    <3>1. d \in Clients /\ OnePlace(d)
      BY DisconnectAllEffect DEF ClientInv
    <3>2. cls' = [d EXCEPT !.run = FALSE]
      BY <2>3 DEF Exit
    <3> HIDE DEF d
    <3>3. Fine(cls')
      BY <3>1, <3>2 DEF Fine, Clients, OnePlace
    <3> QED  BY <2>1, <3>3, TextStep DEF ClientInv
  <2> QED  BY <1>2, <2>2, <2>3 DEF QuitCommand
<1>3. CASE \E n \in 0 .. MaxDemos :
              InsertingCommand(StartDemos(cls, n),
                               StartsLoop(cls) /\ PlaysNext([List(cls, n) EXCEPT !.demonum = 0]))
  <2>1. PICK n \in 0 .. MaxDemos :
           InsertingCommand(StartDemos(cls, n),
                            StartsLoop(cls) /\ PlaysNext([List(cls, n) EXCEPT !.demonum = 0]))
    BY <1>3
  <2>2. Fine(StartDemos(cls, n)) /\ StartDemos(cls, n).sv_active = cls.sv_active
    BY StartDemosEffect DEF ClientInv, Fine
  <2>3. StartsLoop(cls) => ~StartDemos(cls, n).sv_active
    BY <2>2 DEF StartsLoop
  <2> QED  BY <2>1, <2>2, <2>3, InsertingKeeps
<1>4. CASE LET c == BackToDemos(cls) IN InsertingCommand(NextDemo(c), PlaysNext(c))
  <2> DEFINE c == BackToDemos(cls)
  <2>1. Fine(c) /\ ~c.sv_active
    BY BackToDemosEffect DEF ClientInv, Fine
  <2>2. InsertingCommand(NextDemo(c), PlaysNext(c))
    BY <1>4
  <2> HIDE DEF c
  <2>3. Fine(NextDemo(c)) /\ ~NextDemo(c).sv_active
    BY <2>1, NextDemoEffect DEF Fine
  <2> QED  BY <2>2, <2>3, InsertingKeeps
<1>5. CASE /\ Execute("text") /\ cbuf' = Tail(cbuf) /\ m_save_demonum' = m_save_demonum
           /\ Fine(cls')
  BY <1>5, TextStep DEF ClientInv
<1>6. CASE MessageMode \/ Wait
  <2>1. cls' = cls
    BY <1>6 DEF MessageMode, Wait
  <2> QED  BY <1>5, <1>6, <2>1 DEF MessageMode, Wait, ClientInv, Fine, menu
<1>7. CASE \/ (\E c \in {NoMap(cls), StartMap(cls)} : MapCommand(c)) \/ FailingMap \/ RecordMap
  BY <1>5, <1>7, CommandClients DEF MapCommand, FailingMap, RecordMap
<1>8. CASE RecordCommand \/ LoadCommand \/ ConnectCommand \/ ClientCommand(DisconnectAll(cls))
           \/ FailingCommand(cls)
  BY <1>5, <1>8, CommandClients
     DEF RecordCommand, LoadCommand, ConnectCommand, ClientCommand, FailingCommand, menu
<1>9. CASE \/ \E found \in BOOLEAN : ClientCommand(PlayDemo(cls, found))
           \/ ClientCommand(StopRecording(cls, "command")) \/ ClientCommand(StopDemo(cls))
  BY <1>5, <1>9, CommandClients DEF ClientCommand, menu
<1>10. CASE ChangeLevel
  <2>1. Fine(cls)
    BY DEF ClientInv, Fine
  <2> QED  BY <1>5, <1>10, <2>1, CommandClients DEF ChangeLevel, ClientCommand, FailingCommand, menu
<1> QED  BY <1>1, <1>2, <1>3, <1>4, <1>6, <1>7, <1>8, <1>9, <1>10 DEF Command, DemoCommand

LEMMA FrameKeepsClient ==
    ASSUME ClientInv,
           Bind \/ PlayNext \/ Turn \/ ReadMessage \/ DemoRunsOut \/ ServerEnds \/ Fails
    PROVE  ClientInv'
<1>1. m_save_demonum' = m_save_demonum /\ m_save_demonum' \in -1 .. MaxDemos
  BY DEF Bind, PlayNext, Turn, ReadMessage, DemoRunsOut, ServerEnds, Fails, menu, ClientInv
<1>2. Source \subseteq Sources
  BY DEF Source, Sources
<1>3. CASE PlayNext
  <2>1. cbuf # <<>> /\ cbuf' = Tail(cbuf) /\ Fine(cls') /\ ~cls'.sv_active
    BY <1>3, CommandClients DEF PlayNext, Execute
  <2> QED  BY <1>1, <2>1, TailKeeps DEF ClientInv, Fine
<1>4. CASE Turn
  BY <1>1, <1>4, SameStep DEF Turn, ClientInv, Fine
<1>5. CASE ReadMessage
  <2>1. cbuf' = cbuf /\ Fine(cls') /\ cls'.sv_active = cls.sv_active
    BY <1>5, GetMessageEffect DEF ReadMessage, ClientInv, Fine
  <2> QED  BY <1>1, <2>1, SameStep
<1>6. CASE DemoRunsOut
  <2>1. cbuf' = cbuf /\ Fine(cls') /\ cls'.sv_active = cls.sv_active
    BY <1>6, StopPlaybackEffect DEF DemoRunsOut, ClientInv, Fine, OnePlace
  <2> QED  BY <1>1, <2>1, SameStep
<1>7. CASE ServerEnds
  <2> DEFINE c == GetMessage(cls)
  <2>1. Fine(c)
    BY GetMessageEffect DEF ClientInv, Fine
  <2>2. PICK src \in Source :
           /\ cls' = EndGame(c, src)
           /\ IF PlaysNext(ShutdownServer(c, src))
              THEN cbuf' = InsertNext(cbuf) ELSE cbuf' = cbuf
    BY <1>7 DEF ServerEnds
  <2> HIDE DEF c
  <2>3. Fine(cls') /\ ~cls'.sv_active
    BY <1>2, <2>1, <2>2, EndGameEffect DEF Fine
  <2>4. CASE cbuf' = cbuf
    BY <1>1, <2>3, <2>4, SameStep
  <2>5. CASE cbuf' = InsertNext(cbuf)
    BY <1>1, <2>3, <2>5, InsertStep
  <2> QED  BY <2>2, <2>4, <2>5
<1>8. CASE Fails
  <2>1. cbuf' = cbuf /\ Fine(cls') /\ ~cls'.sv_active
    BY <1>2, <1>8, ErrorEffect DEF Fails, ClientInv, Fine
  <2> QED  BY <1>1, <2>1, SameStep
<1>9. CASE Bind
  <2>1. cbuf # <<>> /\ cbuf' = Tail(cbuf) /\ cls' = cls
    BY <1>9 DEF Bind, Execute
  <2> QED  BY <1>1, <2>1, TailKeeps DEF ClientInv
<1> QED  BY <1>3, <1>4, <1>5, <1>6, <1>7, <1>8, <1>9

LEMMA ClientInvariant == Spec => []ClientInv
<1>1. Init => ClientInv
  <2>1. NoClient \in Clients /\ OnePlace(NoClient) /\ NoClient.sv_active = FALSE
    BY DemosAssumption DEF NoClient, Clients, OnePlace
  <2>2. <<"text">> \in Seq(Texts) /\ PlaysFirst(<<"text">>) /\ 0 \in -1 .. MaxDemos
    BY DemosAssumption DEF Texts, PlaysFirst
  <2> QED  BY <2>1, <2>2 DEF Init, ClientInv
<1>2. ClientInv /\ [Next]_vars => ClientInv'
  <2>1. ASSUME ClientInv, UNCHANGED vars
        PROVE  ClientInv'
    BY <2>1 DEF ClientInv, vars, menu
  <2> QED  BY <2>1, KeyKeepsClient, CommandKeepsClient, FrameKeepsClient DEF Next
<1> QED  BY <1>1, <1>2, PTL DEF Spec

\* However games, demos, errors and the menus follow one another, the client is in
\* one place, and no demo of the loop is waiting to end a game.
THEOREM LoopLeavesGame == Spec => []LoopSparesGame
<1>1. ClientInv => LoopSparesGame
  BY DEF ClientInv, LoopSparesGame, NoneToPlay
<1> QED  BY <1>1, ClientInvariant, PTL

\* Type correctness.
THEOREM FrontEndTyped == Spec => []TypeOK
<1>1. Spec => [](phase \in {"keys", "cbuf", "client"})
  <2>1. Init => phase \in {"keys", "cbuf", "client"}
    BY DEF Init
  <2>2. phase \in {"keys", "cbuf", "client"} /\ [Next]_vars => (phase \in {"keys", "cbuf", "client"})'
    <3>1. Key => UNCHANGED phase
      BY DEF Key, Escape, DemoKey, AddText, Say, OpenItem, ConsoleItem, SlotItem, NewGameItem,
             GrabKey, QuitItem, MainItem, SinglePlayerItem, MultiPlayerItem, SetupItem,
             OptionsItem, In, Keys
    <3>2. Command => phase' = phase \/ phase' \in {"keys", "client"}
      BY DEF Command, MenuCommand, QuitCommand, MessageMode, MapCommand, FailingMap, RecordMap,
             RecordCommand, LoadCommand, ChangeLevel, ConnectCommand, ClientCommand,
             FailingCommand, DemoCommand, InsertingCommand, Wait
    <3>3. Bind \/ PlayNext \/ Turn \/ ReadMessage \/ DemoRunsOut \/ ServerEnds \/ Fails
          => phase' = phase \/ phase' \in {"keys", "cbuf", "client"}
      BY DEF Bind, PlayNext, Turn, ReadMessage, DemoRunsOut, ServerEnds, Fails, Enter, Message
    <3> QED  BY <3>1, <3>2, <3>3 DEF Next, vars
  <2> QED  BY <2>1, <2>2, PTL DEF Spec
<1>2. MenuInv /\ ClientInv /\ phase \in {"keys", "cbuf", "client"} => TypeOK
  BY DEF MenuInv, ClientInv, TypeOK, Texts
<1> QED  BY <1>1, <1>2, MenuInvariant, ClientInvariant, PTL

-----------------------------------------------------------------------------
(* Recordings.                                                               *)

\* A client that records is where CL_Disconnect finds it: connected, and not to a
\* demo.
Ready(c) == c \in Clients /\ (c.demorecording => c.connected /\ ~c.demoplayback)

\* ... and then what a command leaves behind records no more.
Quiet(c) == c \in Clients /\ ~c.demorecording

LEMMA QuietIsReady == \A c : Quiet(c) => Ready(c)
BY DEF Quiet, Ready

LEMMA StopPlaybackQuiets ==
    ASSUME NEW c, Ready(c), c.demoplayback
    PROVE  Quiet(StopPlayback(c))
BY DEF Ready, Quiet, StopPlayback, UseFile, Clients

LEMMA LeaveQuiets ==
    ASSUME NEW c, Ready(c)
    PROVE  Quiet(Leave(c, "command"))
<1>1. CASE c.demoplayback
  BY <1>1, StopPlaybackQuiets DEF Leave
<1>2. CASE ~c.demoplayback /\ c.connected
  <2> DEFINE r == StopRecording(c, "command")
  <2>1. Quiet(r)
    BY DEF Ready, Quiet, StopRecording, UseFile, Clients
  <2>2. Leave(c, "command") = [r EXCEPT !.connected = FALSE]
    BY <1>2 DEF Leave
  <2> HIDE DEF r
  <2> QED  BY <2>1, <2>2 DEF Quiet, Clients
<1>3. CASE ~c.demoplayback /\ ~c.connected
  BY <1>3 DEF Leave, Ready, Quiet
<1> QED  BY <1>1, <1>2, <1>3

LEMMA QuietStays ==
    ASSUME NEW c, Quiet(c)
    PROVE  /\ Quiet([c EXCEPT !.sv_active = FALSE]) /\ Quiet([c EXCEPT !.sv_active = TRUE])
           /\ Quiet([c EXCEPT !.run = FALSE])
           /\ Quiet([c EXCEPT !.demofile = "none", !.demonum = -1])
           /\ Quiet([c EXCEPT !.connected = TRUE, !.demonum = -1])
           /\ Quiet([c EXCEPT !.demofile = "read", !.demoplayback = TRUE, !.connected = TRUE])
BY MinusOne DEF Quiet, Clients

LEMMA DemonumStays ==
    ASSUME NEW c, NEW n \in -1 .. MaxDemos
    PROVE  /\ Ready(c) => Ready([c EXCEPT !.demonum = n])
           /\ Quiet(c) => Quiet([c EXCEPT !.demonum = n])
BY DEF Quiet, Ready, Clients

LEMMA DisconnectQuiets ==
    ASSUME NEW c, Ready(c)
    PROVE  Quiet(Disconnect(c, "command"))
<1> DEFINE l == Leave(c, "command")
<1>1. Quiet(l)
  BY LeaveQuiets
<1>2. Disconnect(c, "command") = l \/ Disconnect(c, "command") = [l EXCEPT !.sv_active = FALSE]
  BY DEF Disconnect
<1> HIDE DEF l
<1> QED  BY <1>1, <1>2, QuietStays

LEMMA ShutdownServerQuiets ==
    ASSUME NEW c, Ready(c)
    PROVE  /\ Quiet(c) \/ c.sv_active => Quiet(ShutdownServer(c, "command"))
           /\ Ready(ShutdownServer(c, "command"))
<1> DEFINE l == Leave(c, "command")
<1>1. Quiet(l)
  BY LeaveQuiets
<1>2. CASE c.sv_active
  <2>1. ShutdownServer(c, "command") = [l EXCEPT !.sv_active = FALSE]
    BY <1>2 DEF ShutdownServer
  <2> HIDE DEF l
  <2> QED  BY <1>1, <2>1, QuietStays, QuietIsReady
<1>3. CASE ~c.sv_active
  BY <1>3 DEF ShutdownServer
<1> QED  BY <1>2, <1>3

LEMMA DisconnectAllQuiets ==
    ASSUME NEW c, Ready(c)
    PROVE  Quiet(DisconnectAll(c))
BY DisconnectQuiets, QuietIsReady, ShutdownServerQuiets DEF DisconnectAll

LEMMA NextDemoQuiet ==
    ASSUME NEW c, Quiet(c)
    PROVE  Quiet(NextDemo(c))
<1>1. c.demonum \in -1 .. MaxDemos /\ c.listed \in 0 .. MaxDemos
  BY DEF Clients, Quiet
<1>2. CASE c.demonum = -1
  BY <1>2 DEF NextDemo
<1>3. CASE c.demonum # -1 /\ c.listed = 0
  BY <1>3, MinusOne, DemonumStays DEF NextDemo
<1>4. CASE c.demonum # -1 /\ c.listed > 0
  <2> DEFINE n == IF c.demonum < c.listed THEN c.demonum + 1 ELSE 1
  <2>1. n \in -1 .. MaxDemos
    BY <1>1, DemosAssumption
  <2>2. NextDemo(c) = [c EXCEPT !.demonum = n]
    BY <1>1, <1>4 DEF NextDemo
  <2> HIDE DEF n
  <2> QED  BY <2>1, <2>2, DemonumStays
<1> QED  BY <1>1, <1>2, <1>3, <1>4

LEMMA ConnectQuiets ==
    ASSUME NEW c, Ready(c)
    PROVE  Quiet(Connect(c))
<1> DEFINE d == [c EXCEPT !.demonum = -1]
           e == IF d.demoplayback THEN StopPlayback(d) ELSE d
           f == Disconnect(e, "command")
<1>1. Ready(d)
  BY DemonumStays, MinusOne
<1>2. Connect(c) = EstablishConnection(e)
  BY DEF Connect
<1> HIDE DEF d
<1>3. Ready(e) /\ ~e.demoplayback
  BY <1>1, StopPlaybackQuiets, QuietIsReady DEF StopPlayback, UseFile, Ready, Clients
<1> HIDE DEF e
<1>4. Quiet(f)
  BY <1>3, DisconnectQuiets
<1>5. EstablishConnection(e) = [f EXCEPT !.connected = TRUE, !.demonum = -1]
  BY <1>3 DEF EstablishConnection
<1> HIDE DEF f
<1> QED  BY <1>2, <1>4, <1>5, QuietStays

LEMMA NoMapQuiets ==
    ASSUME NEW c, Ready(c)
    PROVE  Quiet(NoMap(c))
<1> DEFINE d == [c EXCEPT !.demonum = -1]
<1>1. Ready(d)
  BY DemonumStays, MinusOne
<1>2. NoMap(c) = DisconnectAll(d)
  BY DEF NoMap
<1> HIDE DEF d
<1> QED  BY <1>1, <1>2, DisconnectAllQuiets

LEMMA StartMapQuiets ==
    ASSUME NEW c, Ready(c)
    PROVE  Quiet(StartMap(c))
<1> DEFINE n == NoMap(c)
           d == [n EXCEPT !.sv_active = TRUE]
<1>1. Quiet(n)
  BY NoMapQuiets
<1>2. StartMap(c) = Connect(d)
  BY DEF StartMap
<1> HIDE DEF n
<1>3. Ready(d)
  BY <1>1, QuietStays, QuietIsReady
<1> HIDE DEF d
<1> QED  BY <1>2, <1>3, ConnectQuiets

LEMMA ErrorQuiets ==
    ASSUME NEW c, Ready(c)
    PROVE  Quiet(Error(c, "command"))
<1> DEFINE d == Disconnect(ShutdownServer(c, "command"), "command")
<1>1. Quiet(d)
  BY ShutdownServerQuiets, DisconnectQuiets
<1>2. Error(c, "command") = [d EXCEPT !.demonum = -1]
  BY DEF Error
<1> HIDE DEF d
<1> QED  BY <1>1, <1>2, DemonumStays, MinusOne

LEMMA PlayDemoQuiets ==
    ASSUME NEW c, NEW found \in BOOLEAN, Ready(c)
    PROVE  Quiet(PlayDemo(c, found))
<1> DEFINE d == Disconnect(c, "command")
<1>1. Quiet(d)
  BY DisconnectQuiets
<1>2. \/ PlayDemo(c, found)
           = [d EXCEPT !.demofile = "read", !.demoplayback = TRUE, !.connected = TRUE]
      \/ PlayDemo(c, found) = [d EXCEPT !.demofile = "none", !.demonum = -1]
  BY DEF PlayDemo
<1> HIDE DEF d
<1> QED  BY <1>1, <1>2, QuietStays

LEMMA BackToDemosQuiets ==
    ASSUME NEW c, Ready(c)
    PROVE  Quiet(NextDemo(BackToDemos(c)))
<1> DEFINE n == IF c.demonum = -1 THEN 1 ELSE c.demonum
           d == [c EXCEPT !.demonum = n]
<1>1. n \in -1 .. MaxDemos
  BY DemosAssumption DEF Clients, Ready
<1>2. BackToDemos(c) = DisconnectAll(d)
  BY DEF BackToDemos
<1> HIDE DEF n
<1>3. Ready(d)
  BY <1>1, DemonumStays
<1> HIDE DEF d
<1> QED  BY <1>2, <1>3, DisconnectAllQuiets, NextDemoQuiet

\* What changes only where the client is in the loop of demos leaves the game alone.
SameGame(c, d) == d.connected = c.connected /\ d.demoplayback = c.demoplayback

LEMMA DemonumSameGame ==
    \A c \in Clients : \A n : SameGame(c, c) /\ SameGame(c, [c EXCEPT !.demonum = n])
BY DEF SameGame, Clients

LEMMA AsideKeepsGame ==
    ASSUME cls \in Clients, ToggleMenu \/ ToggleConsole \/ OpenMain(cls)
    PROVE  SameGame(cls, cls')
<1>1. cls' = cls \/ cls' = [cls EXCEPT !.demonum = -1]
  BY DEF ToggleMenu, ToggleConsole, OpenMain
<1> QED  BY <1>1, DemonumSameGame

LEMMA NextDemoKeepsGame ==
    ASSUME NEW c \in Clients
    PROVE  SameGame(c, NextDemo(c))
<1>1. c.demonum \in -1 .. MaxDemos /\ c.listed \in 0 .. MaxDemos
  BY DEF Clients
<1>2. CASE c.demonum = -1
  BY <1>2, DemonumSameGame DEF NextDemo
<1>3. CASE c.demonum # -1 /\ c.listed = 0
  BY <1>3, DemonumSameGame DEF NextDemo
<1>4. CASE c.demonum # -1 /\ c.listed > 0
  <2> DEFINE n == IF c.demonum < c.listed THEN c.demonum + 1 ELSE 1
  <2>1. NextDemo(c) = [c EXCEPT !.demonum = n]
    BY <1>1, <1>4 DEF NextDemo
  <2> HIDE DEF n
  <2> QED  BY <2>1, DemonumSameGame
<1> QED  BY <1>1, <1>2, <1>3, <1>4

LEMMA StartDemosKeepsGame ==
    ASSUME NEW c \in Clients, NEW n \in 0 .. MaxDemos, OnePlace(c)
    PROVE  SameGame(c, StartDemos(c, n))
<1> DEFINE l == List(c, n)
           z == [l EXCEPT !.demonum = 0]
<1>1. l \in Clients /\ SameGame(c, l)
  BY ListEffect DEF List, Clients, SameGame
<1>2. StartDemos(c, n) = NextDemo(z) \/ StartDemos(c, n) = [l EXCEPT !.demonum = -1]
  BY DEF StartDemos
<1> HIDE DEF l
<1>3. z \in Clients /\ SameGame(l, z) /\ SameGame(l, [l EXCEPT !.demonum = -1])
  BY <1>1, DemosAssumption DEF Clients, SameGame
<1> HIDE DEF z
<1>4. SameGame(z, NextDemo(z))
  BY <1>3, NextDemoKeepsGame
<1> QED  BY <1>1, <1>2, <1>3, <1>4 DEF SameGame

\* The commands that leave the game going, or end it and with it the recording.
LEMMA CommandStopsRecording ==
    ASSUME ClientInv, Command, ~RecordMap, InGame(cls)
    PROVE  InGame(cls') \/ ~cls'.demorecording
<1>1. /\ Ready(cls) /\ cls \in Clients /\ OnePlace(cls) /\ cls.connected
      /\ \A d : SameGame(cls, d) => InGame(d)
  BY DEF ClientInv, Ready, InGame, SameGame
<1>2. CASE MenuCommand
  BY <1>1, <1>2, AsideKeepsGame DEF MenuCommand, Open, InGame
<1>3. CASE QuitCommand
  BY <1>1, <1>3, DisconnectAllQuiets, QuietStays DEF QuitCommand, Exit, Quiet, InGame
<1>4. CASE MessageMode \/ Wait
  BY <1>4 DEF MessageMode, Wait, InGame
<1>5. CASE \/ (\E c \in {NoMap(cls), StartMap(cls)} : MapCommand(c)) \/ FailingMap
  <2>1. cls' = NoMap(cls) \/ cls' = StartMap(cls) \/ cls' = Error(NoMap(cls), "command")
    BY <1>5 DEF MapCommand, FailingMap
  <2> QED  BY <1>1, <2>1, NoMapQuiets, StartMapQuiets, ErrorQuiets, QuietIsReady DEF Quiet
<1>6. CASE LoadCommand
  <2>1. \/ cls' = [cls EXCEPT !.demonum = -1]
        \/ cls' = NoMap(cls) \/ cls' = StartMap(cls) \/ cls' = Error(NoMap(cls), "command")
    BY <1>6 DEF LoadCommand, ClientCommand, FailingCommand
  <2>2. InGame([cls EXCEPT !.demonum = -1])
    BY <1>1, DemonumSameGame
  <2> QED  BY <1>1, <2>1, <2>2, NoMapQuiets, StartMapQuiets, ErrorQuiets, QuietIsReady DEF Quiet
<1>7. CASE ConnectCommand
  <2>1. cls' = Connect(cls) \/ cls' = Error(Disconnect(cls, "command"), "command")
    BY <1>7 DEF ConnectCommand, ClientCommand, FailingCommand
  <2> QED  BY <1>1, <2>1, ConnectQuiets, DisconnectQuiets, ErrorQuiets, QuietIsReady DEF Quiet
<1>8. CASE ClientCommand(DisconnectAll(cls)) \/ FailingCommand(cls)
  <2>1. cls' = DisconnectAll(cls) \/ cls' = Error(cls, "command")
    BY <1>8 DEF ClientCommand, FailingCommand
  <2> QED  BY <1>1, <2>1, DisconnectAllQuiets, ErrorQuiets DEF Quiet
<1>9. CASE DemoCommand
  <2>1. CASE \E found \in BOOLEAN : cls' = PlayDemo(cls, found)
    BY <1>1, <2>1, PlayDemoQuiets DEF Quiet
  <2>2. CASE cls' = StopRecording(cls, "command") \/ cls' = StopDemo(cls)
    BY <1>1, <2>2, StopRecordingEffect DEF Sources, StopDemo, InGame, SameGame
  <2>3. CASE \E n \in 0 .. MaxDemos : cls' = StartDemos(cls, n)
    BY <1>1, <2>3, StartDemosKeepsGame
  <2>4. CASE cls' = NextDemo(BackToDemos(cls))
    BY <1>1, <2>4, BackToDemosQuiets DEF Quiet
  <2>5. \/ \E found \in BOOLEAN : cls' = PlayDemo(cls, found)
        \/ cls' = StopRecording(cls, "command") \/ cls' = StopDemo(cls)
        \/ \E n \in 0 .. MaxDemos : cls' = StartDemos(cls, n)
        \/ cls' = NextDemo(BackToDemos(cls))
    BY <1>9 DEF DemoCommand, ClientCommand, InsertingCommand
  <2> QED  BY <2>1, <2>2, <2>3, <2>4, <2>5
<1>10. ~RecordCommand
  BY <1>1 DEF RecordCommand
<1>11. CASE ChangeLevel
  <2> DEFINE d == [cls EXCEPT !.sv_active = FALSE]
  <2>1. cls' = cls \/ cls' = d \/ cls' = Error(d, "command")
    BY <1>11 DEF ChangeLevel, ClientCommand, FailingCommand
  <2>2. Ready(d) /\ SameGame(cls, d) /\ SameGame(cls, cls)
    BY <1>1 DEF Ready, SameGame, Clients
  <2> HIDE DEF d
  <2> QED  BY <1>1, <2>1, <2>2, ErrorQuiets DEF Quiet
<1> QED  BY <1>2, <1>3, <1>4, <1>5, <1>6, <1>7, <1>8, <1>9, <1>10, <1>11 DEF Command

\* Whatever command takes the client out of a game that it records, the recording
\* ends with it: CL_Stop_f is reached on every way that CL_Disconnect is called from
\* a command, and no way starts another.  A changelevel that fails ends the server
\* only: the client stays connected, and the recording goes on until a command ends
\* it.
THEOREM RecordingAlwaysEnds == Spec => RecordingEnds
<1>1. ClientInv /\ [Next]_vars
        => [ (Command /\ ~RecordMap /\ cls.demorecording /\ InGame(cls) /\ ~InGame(cls'))
             => ~cls'.demorecording ]_vars
  BY CommandStopsRecording
<1> QED  BY <1>1, ClientInvariant, PTL DEF Spec, RecordingEnds

-----------------------------------------------------------------------------
(* The command buffer, by an instance.  A text of it is a sequence of        *)
(* characters; what is added in one call or inserted by a command ends with  *)
(* a line end, but for a key binding, whose line end follows.                *)

CONSTANTS MaxSize, MaxLine, CommandTexts, Bindings, WaitLine, Failing, Inserted(_), Added(_), Chars
VARIABLES text, executing, dropped, fatal, overrun

Buf == INSTANCE Cbuf WITH Texts <- CommandTexts

Complete(s) == s \in Seq(Chars) /\ (s = <<>> \/ s[Len(s)] = "\n")

WholeLines ==
    /\ Buf!CbufAssumption /\ "\n" \in Chars
    /\ \A t \in CommandTexts : Complete(t) /\ t # <<>>
    /\ Bindings \subseteq Seq(Chars)
    /\ \A line \in Seq(Chars) : Complete(Inserted(line)) /\ Complete(Added(line))

-----------------------------------------------------------------------------
(* Numbers of a set in order: the nth, and how many there are up to one.     *)

UpTo(E, p) == Buf!Cardinality({q \in E : q <= p})
Nth(E, i) == IF i = 0 THEN 0 ELSE CHOOSE p \in E : UpTo(E, p) = i

LEMMA SameCount == \A S : Buf!Cardinality(S) = Cardinality(S)
BY DEF Buf!Cardinality, Cardinality

LEMMA UpToFacts ==
    ASSUME NEW E, E \subseteq Nat, IsFiniteSet(E)
    PROVE  /\ Cardinality(E) \in Nat
           /\ \A p \in E : UpTo(E, p) \in 1 .. Cardinality(E)
           /\ \A p, r \in E : p < r => UpTo(E, p) < UpTo(E, r)
<1> DEFINE B(p) == {q \in E : q <= p}
<1>1. Cardinality(E) \in Nat
  BY FS_CardinalityType
<1>2. \A p \in E : IsFiniteSet(B(p)) /\ Cardinality(B(p)) \in Nat /\ Cardinality(B(p)) <= Cardinality(E)
  <2> TAKE p \in E
  <2>1. B(p) \in SUBSET E
    OBVIOUS
  <2>2. IsFiniteSet(B(p)) /\ Cardinality(B(p)) <= Cardinality(E)
    BY <2>1, FS_Subset
  <2> QED BY <2>2, FS_CardinalityType
<1>3. \A p \in E : p \in B(p)
  OBVIOUS
<1>4. \A p \in E : Cardinality(B(p)) # 0
  BY <1>2, <1>3, FS_EmptySet
<1>5. ASSUME NEW p \in E, NEW r \in E, p < r
      PROVE  Cardinality(B(p)) < Cardinality(B(r))
  <2>0. p \in Nat /\ r \in Nat /\ \A y \in E : y \in Nat
    OBVIOUS
  <2>1. B(p) \in SUBSET B(r) /\ r \in B(r) /\ r \notin B(p)
    <3>1. \A y \in E : y <= p => y <= r
      BY <1>5, <2>0
    <3>2. ~ (r <= p) /\ r <= r
      BY <1>5, <2>0
    <3> QED BY <3>1, <3>2
  <2>2. /\ Cardinality(B(p)) <= Cardinality(B(r))
        /\ Cardinality(B(r)) = Cardinality(B(p)) => B(r) = B(p)
    BY <2>1, <1>2, FS_Subset
  <2> HIDE DEF B
  <2> QED BY <2>1, <2>2, <1>2
<1>6. \A p : UpTo(E, p) = Cardinality(B(p))
  BY SameCount DEF UpTo
<1> HIDE DEF B
<1> QED BY <1>1, <1>2, <1>4, <1>5, <1>6

LEMMA NthFacts ==
    ASSUME NEW E, E \subseteq Nat, IsFiniteSet(E)
    PROVE  /\ \A i \in 1 .. Cardinality(E) : Nth(E, i) \in E /\ UpTo(E, Nth(E, i)) = i
           /\ \A p \in E : Nth(E, UpTo(E, p)) = p
<1> DEFINE n == Cardinality(E)
           f == [p \in E |-> UpTo(E, p)]
<1>1. /\ n \in Nat
      /\ \A p \in E : UpTo(E, p) \in 1 .. n
      /\ \A p, r \in E : p < r => UpTo(E, p) < UpTo(E, r)
  BY UpToFacts
<1>2. \A p, r \in E : UpTo(E, p) = UpTo(E, r) => p = r
  BY <1>1
<1> HIDE DEF n
<1>3. f \in Injection(E, 1 .. n)
  <2>1. f \in [E -> 1 .. n]
    BY <1>1
  <2>2. \A a, b \in E : f[a] = f[b] => a = b
    BY <1>2
  <2> QED BY <2>1, <2>2 DEF Injection, IsInjective
<1>4. IsFiniteSet(1 .. n) /\ Cardinality(1 .. n) = n
  <2>1. /\ IsFiniteSet(1 .. n) /\ Cardinality(1 .. n) = IF 1 > n THEN 0 ELSE n - 1 + 1
    BY <1>1, FS_Interval
  <2> QED BY <2>1, <1>1
<1>5. f \in Surjection(E, 1 .. n)
  BY <1>3, <1>4, FS_Injection DEF n
<1>6. \A i \in 1 .. n : \E p \in E : UpTo(E, p) = i
  <2> TAKE i \in 1 .. n
  <2>1. PICK p \in E : f[p] = i
    BY <1>5 DEF Surjection
  <2> QED BY <2>1
<1>7. \A i \in 1 .. n : Nth(E, i) \in E /\ UpTo(E, Nth(E, i)) = i
  <2> TAKE i \in 1 .. n
  <2>1. i # 0
    BY <1>1
  <2> QED BY <1>6, <2>1 DEF Nth
<1>8. ASSUME NEW p \in E PROVE Nth(E, UpTo(E, p)) = p
  <2>1. /\ Nth(E, UpTo(E, p)) \in E
        /\ UpTo(E, Nth(E, UpTo(E, p))) = UpTo(E, p)
    BY <1>1, <1>7
  <2> QED BY <2>1, <1>2
<1> QED BY <1>7, <1>8 DEF n

Moved(E, k) == {k + x : x \in E}

LEMMA MovedFacts ==
    ASSUME NEW E, E \subseteq Nat, IsFiniteSet(E), NEW k \in Nat
    PROVE  IsFiniteSet(Moved(E, k)) /\ Cardinality(Moved(E, k)) = Cardinality(E)
<1> DEFINE f == [x \in E |-> k + x]
<1>1. f \in Bijection(E, Moved(E, k))
  <2>1. f \in [E -> Moved(E, k)]
    BY DEF Moved
  <2>2. \A a, b \in E : f[a] = f[b] => a = b
    OBVIOUS
  <2>3. \A t \in Moved(E, k) : \E x \in E : f[x] = t
    BY DEF Moved
  <2> QED BY <2>1, <2>2, <2>3 DEF Bijection, Injection, Surjection, IsInjective
<1>2. ExistsBijection(E, Moved(E, k))
  BY <1>1 DEF ExistsBijection
<1> QED BY <1>2, FS_Bijection

LEMMA DisjointSum ==
    ASSUME NEW A, NEW B, IsFiniteSet(A), IsFiniteSet(B), A \cap B = {}
    PROVE  IsFiniteSet(A \cup B) /\ Cardinality(A \cup B) = Cardinality(A) + Cardinality(B)
<1>1. Cardinality(A \cap B) = 0
  BY FS_EmptySet
<1>2. Cardinality(A) \in Nat /\ Cardinality(B) \in Nat
  BY FS_CardinalityType
<1>3. /\ IsFiniteSet(A \cup B)
      /\ Cardinality(A \cup B) = Cardinality(A) + Cardinality(B) - Cardinality(A \cap B)
  BY FS_Union
<1>4. Cardinality(A) + Cardinality(B) - 0 = Cardinality(A) + Cardinality(B)
  BY <1>2
<1> QED BY <1>1, <1>3, <1>4, Zenon

\* Two sets one behind the other.
Stacked(m, A, B, E) ==
    /\ m \in Nat \ {0} /\ A \subseteq 1 .. m /\ m \in A
    /\ B \subseteq Nat \ {0} /\ IsFiniteSet(B) /\ E = A \cup Moved(B, m)

LEMMA NthJoin ==
    ASSUME NEW m, NEW A, NEW B, NEW E, Stacked(m, A, B, E)
    PROVE  /\ Cardinality(A) \in Nat
           /\ Cardinality(B) \in Nat
           /\ Cardinality(E) = Cardinality(A) + Cardinality(B)
           /\ \A i \in 0 .. Cardinality(A) : Nth(E, i) = Nth(A, i)
           /\ \A i \in 0 .. Cardinality(B) : Nth(E, Cardinality(A) + i) = m + Nth(B, i)
<1>0. /\ m \in Nat \ {0} /\ A \subseteq 1 .. m /\ m \in A
      /\ B \subseteq Nat \ {0} /\ IsFiniteSet(B) /\ E = A \cup Moved(B, m)
  BY DEF Stacked
<1> USE <1>0
<1> DEFINE a == Cardinality(A)
           b == Cardinality(B)
<1>1. IsFiniteSet(A) /\ A \subseteq Nat /\ B \subseteq Nat
  <2>1. IsFiniteSet(1 .. m)
    BY FS_Interval
  <2>2. A \in SUBSET (1 .. m)
    OBVIOUS
  <2>3. IsFiniteSet(A)
    BY <2>1, <2>2, FS_Subset
  <2> QED BY <2>3
<1>2. \A x \in A : x \in Nat /\ x <= m
  OBVIOUS
<1>3. \A x \in B : x \in Nat /\ x > 0
  OBVIOUS
<1>4. \A y \in Moved(B, m) : \E x \in B : y = m + x
  BY DEF Moved
<1>5. \A x \in B : m + x \in Moved(B, m)
  BY DEF Moved
<1>6. \A y \in Moved(B, m) : y \in Nat /\ y > m
  BY <1>3, <1>4
<1>7. IsFiniteSet(E) /\ Cardinality(E) = a + b /\ E \subseteq Nat
  <2>1. IsFiniteSet(Moved(B, m)) /\ Cardinality(Moved(B, m)) = b
    BY <1>1, MovedFacts
  <2>2. A \cap Moved(B, m) = {}
    BY <1>2, <1>6
  <2> QED BY <1>1, <1>6, <2>1, <2>2, DisjointSum
<1>8. a \in Nat /\ b \in Nat
  BY <1>1, FS_CardinalityType
<1>9. ASSUME NEW p \in A PROVE UpTo(E, p) = UpTo(A, p)
  <2>1. \A y \in Moved(B, m) : ~ (y <= p)
    BY <1>2, <1>6
  <2>2. {q \in E : q <= p} = {q \in A : q <= p}
    BY <2>1
  <2> QED BY <2>2, SameCount DEF UpTo
<1>10. ASSUME NEW x \in B PROVE UpTo(E, m + x) = a + UpTo(B, x)
  <2> DEFINE C == {y \in B : y <= x}
  <2>1. {q \in E : q <= m + x} = A \cup Moved(C, m)
    <3>1. \A q \in A : q <= m + x
      BY <1>2, <1>3
    <3>2. \A q \in Moved(B, m) : q <= m + x => q \in Moved(C, m)
      BY <1>3 DEF Moved
    <3>3. \A q \in Moved(C, m) : q <= m + x /\ q \in Moved(B, m)
      BY <1>3 DEF Moved
    <3> QED BY <3>1, <3>2, <3>3
  <2>2. C \in SUBSET B
    OBVIOUS
  <2>3. IsFiniteSet(C) /\ C \subseteq Nat
    BY <2>2, <1>1, FS_Subset
  <2>4. IsFiniteSet(Moved(C, m)) /\ Cardinality(Moved(C, m)) = Cardinality(C)
    BY <2>3, MovedFacts
  <2>5. A \cap Moved(C, m) = {}
    BY <1>2, <1>3 DEF Moved
  <2>6. Cardinality(A \cup Moved(C, m)) = a + Cardinality(C)
    BY <2>4, <2>5, <1>1, DisjointSum
  <2> QED BY <2>1, <2>6, SameCount DEF UpTo
<1>11. UpTo(A, m) = a
  <2>1. {q \in A : q <= m} = A
    BY <1>2
  <2> QED BY <2>1, SameCount DEF UpTo
<1>12. ASSUME NEW i \in 0 .. a PROVE Nth(E, i) = Nth(A, i)
  <2>1. CASE i = 0
    BY <2>1 DEF Nth
  <2>2. CASE i # 0
    <3>1. i \in 1 .. a
      BY <1>8, <2>2
    <3>2. Nth(A, i) \in A /\ UpTo(A, Nth(A, i)) = i
      BY <1>1, <3>1, NthFacts
    <3>3. UpTo(E, Nth(A, i)) = i /\ Nth(A, i) \in E
      BY <3>2, <1>9
    <3> QED BY <3>3, <1>7, NthFacts
  <2> QED BY <2>1, <2>2
<1>13. ASSUME NEW i \in 0 .. b PROVE Nth(E, a + i) = m + Nth(B, i)
  <2>1. CASE i = 0
    <3>1. Nth(A, a) = m
      BY <1>1, <1>11, NthFacts
    <3>2. Nth(B, 0) = 0 /\ a + 0 = a /\ m + 0 = m /\ a \in 0 .. a
      BY <1>8 DEF Nth
    <3> HIDE DEF a
    <3> QED BY <2>1, <3>1, <3>2, <1>12
  <2>2. CASE i # 0
    <3>1. i \in 1 .. b
      BY <1>8, <2>2
    <3>2. Nth(B, i) \in B /\ UpTo(B, Nth(B, i)) = i
      BY <1>1, <3>1, NthFacts
    <3>3. UpTo(E, m + Nth(B, i)) = a + i /\ m + Nth(B, i) \in E
      BY <3>2, <1>10, <1>5
    <3>4. Nth(E, UpTo(E, m + Nth(B, i))) = m + Nth(B, i)
      BY <3>3, <1>7, NthFacts
    <3> QED BY <3>3, <3>4
  <2> QED BY <2>1, <2>2
<1> QED BY <1>7, <1>8, <1>12, <1>13

-----------------------------------------------------------------------------
(* CommandTexts one behind the other, and their lines.                              *)

LEMMA EndsFacts ==
    ASSUME NEW s \in Seq(Chars)
    PROVE  /\ Len(s) \in Nat
           /\ Buf!Ends(s) \subseteq 1 .. Len(s) /\ Buf!Ends(s) \subseteq Nat \ {0}
           /\ Buf!Ends(s) \subseteq Nat /\ IsFiniteSet(Buf!Ends(s))
<1>1. Len(s) \in Nat
  OBVIOUS
<1>2. Buf!Ends(s) \subseteq 1 .. Len(s) /\ Buf!Ends(s) \in SUBSET (1 .. Len(s))
  BY DEF Buf!Ends
<1>3. IsFiniteSet(1 .. Len(s))
  BY <1>1, FS_Interval
<1>4. IsFiniteSet(Buf!Ends(s))
  BY <1>2, <1>3, FS_Subset
<1> QED BY <1>1, <1>2, <1>4

LineOf(s, i) == SubSeq(s, Nth(Buf!Ends(s), i - 1) + 1, Nth(Buf!Ends(s), i) - 1)

LEMMA LinesByNth ==
    ASSUME NEW s \in Seq(Chars), Len(s) \in Buf!Ends(s) \cup {0}
    PROVE  Buf!Lines(s) = [i \in 1 .. Cardinality(Buf!Ends(s)) |-> LineOf(s, i)]
<1> DEFINE E == Buf!Ends(s) \cup (IF Len(s) \in Buf!Ends(s) \cup {0} THEN {} ELSE {Len(s) + 1})
<1>1. E = Buf!Ends(s)
  OBVIOUS
<1>2. Buf!Lines(s) = [i \in 1 .. Buf!Cardinality(E) |-> SubSeq(s, Nth(E, i - 1) + 1, Nth(E, i) - 1)]
  BY Zenon DEF Buf!Lines, Nth, UpTo
<1> HIDE DEF E
<1>3. Buf!Cardinality(E) = Cardinality(E)
  BY SameCount
<1> QED BY <1>1, <1>2, <1>3, Zenon DEF LineOf

\* What lies between two of the ends, or in front of the first.
LEMMA NthBetween ==
    ASSUME NEW s \in Seq(Chars), NEW i \in 1 .. Cardinality(Buf!Ends(s))
    PROVE  /\ Nth(Buf!Ends(s), i) \in 1 .. Len(s)
           /\ Nth(Buf!Ends(s), i - 1) \in 0 .. Len(s)
<1>1. /\ Len(s) \in Nat /\ Cardinality(Buf!Ends(s)) \in Nat
      /\ \A k \in 1 .. Cardinality(Buf!Ends(s)) : Nth(Buf!Ends(s), k) \in 1 .. Len(s)
  BY EndsFacts, NthFacts, FS_CardinalityType
<1>2. CASE i = 1
  BY <1>1, <1>2 DEF Nth
<1>3. CASE i # 1
  <2>1. i - 1 \in 1 .. Cardinality(Buf!Ends(s))
    BY <1>1, <1>3
  <2> HIDE DEF Nth
  <2> QED BY <1>1, <2>1
<1> QED BY <1>2, <1>3

LEMMA LinesFacts ==
    ASSUME NEW s \in Seq(Chars), Len(s) \in Buf!Ends(s) \cup {0}
    PROVE  /\ Buf!Lines(s) \in Seq(Seq(Chars))
           /\ Len(Buf!Lines(s)) = Cardinality(Buf!Ends(s)) /\ Cardinality(Buf!Ends(s)) \in Nat
           /\ \A i \in 1 .. Cardinality(Buf!Ends(s)) : Buf!Lines(s)[i] = LineOf(s, i)
<1> DEFINE c == Cardinality(Buf!Ends(s))
<1>1. c \in Nat /\ Len(s) \in Nat
  BY EndsFacts, FS_CardinalityType
<1>2. ASSUME NEW i \in 1 .. c PROVE LineOf(s, i) \in Seq(Chars)
  <2> DEFINE lo == Nth(Buf!Ends(s), i - 1) + 1
             hi == Nth(Buf!Ends(s), i) - 1
  <2>1. lo \in Int /\ hi \in Int /\ lo >= 1 /\ hi <= Len(s)
    BY <1>1, NthBetween
  <2> HIDE DEF lo, hi
  <2>2. \A k \in lo .. hi : s[k] \in Chars
    BY <2>1, <1>1
  <2>3. SubSeq(s, lo, hi) \in Seq(Chars)
    BY <2>1, <2>2, SubSeqProperties
  <2> QED BY <2>3 DEF LineOf, lo, hi
<1>3. Buf!Lines(s) = [i \in 1 .. c |-> LineOf(s, i)]
  BY LinesByNth
<1> HIDE DEF c
<1>4. Buf!Lines(s) \in Seq(Seq(Chars)) /\ Len(Buf!Lines(s)) = c
  BY <1>1, <1>2, <1>3
<1> QED BY <1>1, <1>3, <1>4 DEF c

LEMMA SubSeqJoin ==
    ASSUME NEW p \in Seq(Chars), NEW q \in Seq(Chars)
    PROVE  /\ \A lo \in Nat \ {0}, hi \in Int : hi <= Len(p) => SubSeq(p \o q, lo, hi) = SubSeq(p, lo, hi)
           /\ \A lo \in Nat \ {0}, hi \in Int : hi <= Len(q) =>
                 SubSeq(p \o q, Len(p) + lo, Len(p) + hi) = SubSeq(q, lo, hi)
<1>1. /\ p \o q \in Seq(Chars) /\ Len(p \o q) = Len(p) + Len(q)
      /\ \A i \in 1 .. Len(p) + Len(q) : (p \o q)[i] = IF i <= Len(p) THEN p[i] ELSE q[i - Len(p)]
  BY ConcatProperties
<1>2. /\ Len(p) \in Nat /\ Len(q) \in Nat
      /\ \A i \in 1 .. Len(p) : p[i] \in Chars
      /\ \A i \in 1 .. Len(q) : q[i] \in Chars
  OBVIOUS
<1> DEFINE t == p \o q
<1> HIDE DEF t
<1>3. ASSUME NEW lo \in Nat \ {0}, NEW hi \in Int, hi <= Len(p)
      PROVE  SubSeq(t, lo, hi) = SubSeq(p, lo, hi)
  <2>1. \A k \in lo .. hi : t[k] = p[k] /\ p[k] \in Chars
    BY <1>1, <1>2, <1>3 DEF t
  <2>2. /\ SubSeq(t, lo, hi) \in Seq(Chars)
        /\ Len(SubSeq(t, lo, hi)) = IF lo <= hi THEN hi - lo + 1 ELSE 0
        /\ \A i \in 1 .. hi - lo + 1 : SubSeq(t, lo, hi)[i] = t[lo + i - 1]
    BY <2>1, SubSeqProperties
  <2>3. /\ SubSeq(p, lo, hi) \in Seq(Chars)
        /\ Len(SubSeq(p, lo, hi)) = IF lo <= hi THEN hi - lo + 1 ELSE 0
        /\ \A i \in 1 .. hi - lo + 1 : SubSeq(p, lo, hi)[i] = p[lo + i - 1]
    BY <2>1, SubSeqProperties
  <2>4. ASSUME NEW i \in 1 .. Len(SubSeq(t, lo, hi))
        PROVE  SubSeq(t, lo, hi)[i] = SubSeq(p, lo, hi)[i]
    <3>1. i \in 1 .. hi - lo + 1 /\ lo + i - 1 \in lo .. hi
      BY <2>2
    <3> QED BY <3>1, <2>1, <2>2, <2>3
  <2> QED BY <2>2, <2>3, <2>4, SeqEqual
<1>4. ASSUME NEW lo \in Nat \ {0}, NEW hi \in Int, hi <= Len(q)
      PROVE  SubSeq(t, Len(p) + lo, Len(p) + hi) = SubSeq(q, lo, hi)
  <2> DEFINE l == Len(p) + lo
             h == Len(p) + hi
  <2>0. l \in Int /\ h \in Int /\ h - l = hi - lo /\ (l <= h <=> lo <= hi)
    BY <1>2
  <2>1. \A k \in lo .. hi : t[Len(p) + k] = q[k] /\ q[k] \in Chars
    BY <1>1, <1>2, <1>4 DEF t
  <2>2. \A k \in l .. h : t[k] \in Chars
    <3> TAKE k \in l .. h
    <3>1. k - Len(p) \in lo .. hi /\ Len(p) + (k - Len(p)) = k
      BY <1>2
    <3> QED BY <3>1, <2>1
  <2> HIDE DEF l, h
  <2>3. /\ SubSeq(t, l, h) \in Seq(Chars)
        /\ Len(SubSeq(t, l, h)) = IF l <= h THEN h - l + 1 ELSE 0
        /\ \A i \in 1 .. h - l + 1 : SubSeq(t, l, h)[i] = t[l + i - 1]
    BY <2>0, <2>2, SubSeqProperties
  <2>4. /\ SubSeq(q, lo, hi) \in Seq(Chars)
        /\ Len(SubSeq(q, lo, hi)) = IF lo <= hi THEN hi - lo + 1 ELSE 0
        /\ \A i \in 1 .. hi - lo + 1 : SubSeq(q, lo, hi)[i] = q[lo + i - 1]
    BY <2>1, SubSeqProperties
  <2>5. Len(SubSeq(t, l, h)) = Len(SubSeq(q, lo, hi))
    BY <2>0, <2>3, <2>4
  <2>6. ASSUME NEW i \in 1 .. Len(SubSeq(t, l, h))
        PROVE  SubSeq(t, l, h)[i] = SubSeq(q, lo, hi)[i]
    <3>1. i \in 1 .. h - l + 1 /\ i \in 1 .. hi - lo + 1 /\ lo + i - 1 \in lo .. hi
      BY <2>0, <2>3
    <3>2. l + i - 1 = Len(p) + (lo + i - 1)
      BY <1>2 DEF l
    <3> QED BY <3>1, <3>2, <2>1, <2>3, <2>4
  <2>7. SubSeq(t, l, h) = SubSeq(q, lo, hi)
    BY <2>3, <2>4, <2>5, <2>6, SeqEqual
  <2> QED BY <2>7 DEF l, h
<1> QED BY <1>3, <1>4 DEF t

\* The lines of a text behind another that ends with a line end.
LEMMA LinesJoin ==
    ASSUME NEW p \in Seq(Chars), NEW q \in Seq(Chars), Len(p) \in Buf!Ends(p),
           Len(q) \in Buf!Ends(q) \cup {0},
           Buf!Ends(p \o q) = Buf!Ends(p) \cup Moved(Buf!Ends(q), Len(p))
    PROVE  Buf!Lines(p \o q) = Buf!Lines(p) \o Buf!Lines(q)
<1> DEFINE t == p \o q
           m == Len(p)
           A == Buf!Ends(p)
           B == Buf!Ends(q)
           E == Buf!Ends(t)
           a == Cardinality(A)
           b == Cardinality(B)
<1>1. t \in Seq(Chars) /\ Len(t) = m + Len(q) /\ m \in Nat /\ Len(q) \in Nat
  BY ConcatProperties
<1>2. /\ A \subseteq 1 .. m /\ m \in A /\ B \subseteq Nat \ {0} /\ IsFiniteSet(B)
      /\ m \in Nat \ {0} /\ E = A \cup Moved(B, m)
  BY <1>1, EndsFacts
<1>3. /\ a \in Nat /\ b \in Nat /\ Cardinality(E) = a + b
      /\ \A i \in 0 .. a : Nth(E, i) = Nth(A, i)
      /\ \A i \in 0 .. b : Nth(E, a + i) = m + Nth(B, i)
  <2>1. Stacked(m, A, B, E)
    BY <1>2 DEF Stacked
  <2> HIDE DEF m, A, B, E
  <2>2. Cardinality(A) \in Nat /\ Cardinality(B) \in Nat
    BY <2>1, NthJoin
  <2>3. Cardinality(E) = Cardinality(A) + Cardinality(B)
    BY <2>1, <2>2, NthJoin
  <2>4. \A i \in 0 .. Cardinality(A) : Nth(E, i) = Nth(A, i)
    BY <2>1, <2>2, NthJoin
  <2>5. \A i \in 0 .. Cardinality(B) : Nth(E, Cardinality(A) + i) = m + Nth(B, i)
    BY <2>1, <2>2, NthJoin
  <2> QED BY <2>2, <2>3, <2>4, <2>5 DEF a, b
<1>4. Len(t) \in E
  <2>1. CASE Len(q) = 0
    BY <2>1, <1>1, <1>2
  <2>2. CASE Len(q) \in B
    BY <2>2, <1>1, <1>2 DEF Moved
  <2> QED BY <2>1, <2>2
<1>5. /\ Buf!Lines(t) \in Seq(Seq(Chars)) /\ Len(Buf!Lines(t)) = a + b
      /\ \A i \in 1 .. a + b : Buf!Lines(t)[i] = LineOf(t, i)
  BY <1>1, <1>3, <1>4, LinesFacts
<1>6. /\ Buf!Lines(p) \in Seq(Seq(Chars)) /\ Len(Buf!Lines(p)) = a
      /\ \A i \in 1 .. a : Buf!Lines(p)[i] = LineOf(p, i)
  BY LinesFacts
<1>7. /\ Buf!Lines(q) \in Seq(Seq(Chars)) /\ Len(Buf!Lines(q)) = b
      /\ \A i \in 1 .. b : Buf!Lines(q)[i] = LineOf(q, i)
  BY LinesFacts
<1>8. /\ \A i \in 1 .. a : Nth(A, i) \in 1 .. m /\ Nth(A, i - 1) \in 0 .. m
      /\ \A i \in 1 .. b : Nth(B, i) \in 1 .. Len(q) /\ Nth(B, i - 1) \in 0 .. Len(q)
  BY NthBetween
<1>9. /\ \A lo \in Nat \ {0}, hi \in Int : hi <= m => SubSeq(t, lo, hi) = SubSeq(p, lo, hi)
      /\ \A lo \in Nat \ {0}, hi \in Int : hi <= Len(q) => SubSeq(t, m + lo, m + hi) = SubSeq(q, lo, hi)
  BY SubSeqJoin
<1> HIDE DEF t, m, A, B, E, a, b
<1>10. ASSUME NEW i \in 1 .. a PROVE LineOf(t, i) = LineOf(p, i)
  <2>1. Nth(E, i) = Nth(A, i) /\ Nth(E, i - 1) = Nth(A, i - 1)
    BY <1>3
  <2>2. SubSeq(t, Nth(A, i - 1) + 1, Nth(A, i) - 1) = SubSeq(p, Nth(A, i - 1) + 1, Nth(A, i) - 1)
    <3> DEFINE lo == Nth(A, i - 1) + 1
               hi == Nth(A, i) - 1
    <3>1. lo \in Nat \ {0} /\ hi \in Int /\ hi <= m
      BY <1>1, <1>8
    <3> HIDE DEF lo, hi
    <3>2. SubSeq(t, lo, hi) = SubSeq(p, lo, hi)
      BY <3>1, <1>9
    <3> QED BY <3>2 DEF lo, hi
  <2>3. LineOf(t, i) = SubSeq(t, Nth(E, i - 1) + 1, Nth(E, i) - 1)
    BY DEF LineOf, E
  <2>4. LineOf(p, i) = SubSeq(p, Nth(A, i - 1) + 1, Nth(A, i) - 1)
    BY DEF LineOf, A
  <2> QED BY <2>1, <2>2, <2>3, <2>4
<1>11. ASSUME NEW i \in 1 .. b PROVE LineOf(t, a + i) = LineOf(q, i)
  <2>1. Nth(E, a + i) = m + Nth(B, i)
    BY <1>3
  <2>2. Nth(E, (a + i) - 1) = m + Nth(B, i - 1)
    <3>1. i - 1 \in 0 .. b /\ (a + i) - 1 = a + (i - 1)
      BY <1>3
    <3> QED BY <3>1, <1>3
  <2>3. Nth(B, i) \in Nat /\ Nth(B, i) <= Len(q) /\ Nth(B, i - 1) \in Nat
    BY <1>1, <1>8
  <2> DEFINE lo == Nth(B, i - 1) + 1
             hi == Nth(B, i) - 1
  <2>4. /\ lo \in Nat \ {0} /\ hi \in Int /\ hi <= Len(q)
        /\ (m + Nth(B, i - 1)) + 1 = m + lo /\ (m + Nth(B, i)) - 1 = m + hi
    BY <1>1, <2>3
  <2>5. SubSeq(t, m + lo, m + hi) = SubSeq(q, lo, hi)
    BY <1>9, <2>4
  <2>6. LineOf(t, a + i) = SubSeq(t, Nth(E, (a + i) - 1) + 1, Nth(E, a + i) - 1)
    BY DEF LineOf, E
  <2>7. LineOf(q, i) = SubSeq(q, lo, hi)
    BY DEF LineOf, B
  <2> HIDE DEF lo, hi
  <2> QED BY <2>1, <2>2, <2>4, <2>5, <2>6, <2>7
<1> DEFINE x == Buf!Lines(p)
           y == Buf!Lines(q)
           z == Buf!Lines(t)
<1> HIDE DEF x, y, z
<1>12. /\ x \o y \in Seq(Seq(Chars)) /\ Len(x \o y) = a + b
       /\ \A i \in 1 .. a + b : (x \o y)[i] = IF i <= a THEN x[i] ELSE y[i - a]
  BY <1>6, <1>7, ConcatProperties DEF x, y
<1>13. ASSUME NEW i \in 1 .. a + b PROVE z[i] = (x \o y)[i]
  <2>1. CASE i <= a
    <3>1. i \in 1 .. a
      BY <1>3, <2>1
    <3> QED BY <3>1, <2>1, <1>5, <1>6, <1>10, <1>12 DEF x, z
  <2>2. CASE ~ (i <= a)
    <3>1. i - a \in 1 .. b /\ a + (i - a) = i
      BY <1>3, <2>2
    <3>2. LineOf(t, i) = LineOf(q, i - a)
      BY <3>1, <1>11
    <3> QED BY <3>1, <3>2, <2>2, <1>5, <1>7, <1>12 DEF y, z
  <2> QED BY <2>1, <2>2
<1>14. z = x \o y
  BY <1>5, <1>12, <1>13, SeqEqual DEF z
<1> QED BY <1>14 DEF x, y, z, t

IsNewline(c) == c = "\n"
IsSemicolon(c) == c = ";"
IsQuote(c) == c = "\""
OpenQuotes(s, i) == {j \in 1 .. i : IsQuote(s[j]) /\ \A k \in j .. i : ~ IsNewline(s[k])}
Odd(s, i) == Cardinality(OpenQuotes(s, i)) % 2

LEMMA EndsByOpen ==
    \A s : Buf!Ends(s) = {i \in 1 .. Len(s) : IsNewline(s[i]) \/ (IsSemicolon(s[i]) /\ Odd(s, i) = 0)}
<1>1. \A s, i : Buf!QuotesSinceNewline(s, i) = OpenQuotes(s, i)
  BY Zenon DEF Buf!QuotesSinceNewline, OpenQuotes, IsQuote, IsNewline
<1>2. \A s, i : Buf!Cardinality(Buf!QuotesSinceNewline(s, i)) % 2 = Odd(s, i)
  BY <1>1, SameCount, Zenon DEF Odd
<1> QED BY <1>2, Zenon DEF Buf!Ends, IsNewline, IsSemicolon

LEMMA OpenQuotesFacts ==
    ASSUME NEW s, NEW i \in Nat
    PROVE  /\ IsFiniteSet(OpenQuotes(s, i)) /\ OpenQuotes(s, i) \subseteq Nat /\ OpenQuotes(s, i) \subseteq 1 .. i
           /\ Cardinality(OpenQuotes(s, i)) \in Nat
<1>1. OpenQuotes(s, i) \in SUBSET (1 .. i)
  BY DEF OpenQuotes
<1>2. IsFiniteSet(1 .. i)
  BY FS_Interval
<1>3. IsFiniteSet(OpenQuotes(s, i))
  BY <1>1, <1>2, FS_Subset
<1> QED BY <1>1, <1>3, FS_CardinalityType

LEMMA EndsJoin ==
    ASSUME NEW p \in Seq(Chars), NEW q \in Seq(Chars), Len(p) \in Buf!Ends(p)
    PROVE  Buf!Ends(p \o q) = Buf!Ends(p) \cup Moved(Buf!Ends(q), Len(p))
<1> DEFINE t == p \o q
           m == Len(p)
           n == Len(q)
<1>1. /\ t \in Seq(Chars) /\ Len(t) = m + n /\ m \in Nat /\ n \in Nat /\ m > 0
      /\ \A i \in 1 .. m : t[i] = p[i]
      /\ \A i \in 1 .. n : t[m + i] = q[i]
  <2>1. /\ t \in Seq(Chars) /\ Len(t) = m + n
        /\ \A i \in 1 .. m + n : t[i] = IF i <= m THEN p[i] ELSE q[i - m]
    BY ConcatProperties
  <2>2. m \in Nat /\ n \in Nat /\ m > 0
    BY EndsFacts
  <2>3. \A i \in 1 .. n : m + i \in 1 .. m + n /\ ~ (m + i <= m) /\ (m + i) - m = i
    BY <2>2
  <2> HIDE DEF t, m, n
  <2> QED BY <2>1, <2>2, <2>3
<1>2. \A s : Buf!Ends(s) = {i \in 1 .. Len(s) : IsNewline(s[i]) \/ (IsSemicolon(s[i]) /\ Odd(s, i) = 0)}
  BY EndsByOpen
<1>3. Odd(p, m) = 0
  <2>1. IsNewline(p[m]) \/ Odd(p, m) = 0
    BY <1>2
  <2>2. CASE IsNewline(p[m])
    <3>1. \A j \in 1 .. m : m \in j .. m
      BY <1>1
    <3>2. OpenQuotes(p, m) = {}
      BY <3>1, <2>2, Zenon DEF OpenQuotes
    <3>3. Cardinality(OpenQuotes(p, m)) = 0
      BY <3>2, FS_EmptySet
    <3> QED BY <3>3 DEF Odd
  <2> QED BY <2>1, <2>2
<1> HIDE DEF t, m, n
<1>5. ASSUME NEW i \in 1 .. m PROVE Odd(t, i) = Odd(p, i)
  <2>1. OpenQuotes(t, i) = OpenQuotes(p, i)
    BY <1>1 DEF OpenQuotes
  <2> QED BY <2>1 DEF Odd
<1>6. ASSUME NEW i \in 1 .. n PROVE Odd(t, m + i) = Odd(q, i)
  <2>1. \A j \in 1 .. m + i : j > m => j - m \in 1 .. i /\ j = m + (j - m)
    BY <1>1
  <2>2. ASSUME NEW j \in 1 .. i
        PROVE  m + j \in OpenQuotes(t, m + i) <=> j \in OpenQuotes(q, i)
    <3>1. t[m + j] = q[j] /\ m + j \in 1 .. m + i
      BY <1>1
    <3>2. ASSUME \A k \in j .. i : ~ IsNewline(q[k]), NEW k \in m + j .. m + i PROVE ~ IsNewline(t[k])
      <4>1. k - m \in j .. i /\ k - m \in 1 .. n /\ m + (k - m) = k
        BY <1>1
      <4> QED BY <4>1, <3>2, <1>1
    <3>3. ASSUME \A k \in m + j .. m + i : ~ IsNewline(t[k]), NEW k \in j .. i PROVE ~ IsNewline(q[k])
      <4>1. m + k \in m + j .. m + i /\ k \in 1 .. n
        BY <1>1
      <4> QED BY <4>1, <3>3, <1>1
    <3> QED BY <3>1, <3>2, <3>3 DEF OpenQuotes
  <2>3. i \in 1 .. Len(q) /\ m \in 1 .. Len(p)
    BY <1>1 DEF n, m
  <2>4. /\ IsFiniteSet(OpenQuotes(q, i)) /\ OpenQuotes(q, i) \subseteq Nat /\ OpenQuotes(q, i) \subseteq 1 .. i
        /\ Cardinality(OpenQuotes(q, i)) \in Nat
        /\ IsFiniteSet(OpenQuotes(p, m)) /\ Cardinality(OpenQuotes(p, m)) \in Nat
    BY <2>3, <1>1, OpenQuotesFacts
  <2>5. /\ IsFiniteSet(Moved(OpenQuotes(q, i), m))
        /\ Cardinality(Moved(OpenQuotes(q, i), m)) = Cardinality(OpenQuotes(q, i))
    BY <2>4, <1>1, MovedFacts
  <2>6. \A x \in Moved(OpenQuotes(q, i), m) : x \in 1 .. m + i /\ x > m
    <3>1. \A y \in 1 .. i : m + y \in 1 .. m + i /\ m + y > m
      BY <1>1
    <3> QED BY <3>1, <2>4 DEF Moved
  <2>7. \A j \in 1 .. m + i : j > m => (j \in OpenQuotes(t, m + i) <=> j \in Moved(OpenQuotes(q, i), m))
    <3> SUFFICES ASSUME NEW j \in 1 .. m + i, j > m
                 PROVE  j \in OpenQuotes(t, m + i) <=> j \in Moved(OpenQuotes(q, i), m)
      OBVIOUS
    <3>1. j - m \in 1 .. i /\ j = m + (j - m)
      BY <2>1
    <3>2. j \in Moved(OpenQuotes(q, i), m) <=> j - m \in OpenQuotes(q, i)
      <4>1. \A x \in 1 .. i : m + x = j => x = j - m
        BY <1>1
      <4> QED BY <3>1, <4>1, <2>4 DEF Moved
    <3>3. m + (j - m) \in OpenQuotes(t, m + i) <=> j - m \in OpenQuotes(q, i)
      BY <3>1, <2>2
    <3> QED BY <3>1, <3>2, <3>3
  <2>8. CASE \E k \in 1 .. i : IsNewline(q[k])
    <3>1. PICK k \in 1 .. i : IsNewline(q[k])
      BY <2>8
    <3>2. IsNewline(t[m + k]) /\ m + k > m /\ m + k <= m + i /\ m + k \in Int
      BY <3>1, <1>1
    <3>3. \A j \in 1 .. m + i : j <= m => j \notin OpenQuotes(t, m + i)
      <4> TAKE j \in 1 .. m + i
      <4>1. j <= m => m + k \in j .. m + i
        BY <3>2, <1>1
      <4> QED BY <3>2, <4>1 DEF OpenQuotes
    <3>4. OpenQuotes(t, m + i) \subseteq 1 .. m + i
      BY DEF OpenQuotes
    <3>5. OpenQuotes(t, m + i) = Moved(OpenQuotes(q, i), m)
      <4>1. \A j \in 1 .. m + i : j > m \/ j <= m
        BY <1>1
      <4> QED BY <4>1, <2>6, <2>7, <3>3, <3>4
    <3> QED BY <3>5, <2>5 DEF Odd
  <2>9. CASE ~ \E k \in 1 .. i : IsNewline(q[k])
    <3>1. \A k \in m + 1 .. m + i : ~ IsNewline(t[k])
      <4> TAKE k \in m + 1 .. m + i
      <4>1. k - m \in 1 .. i /\ k - m \in 1 .. n /\ m + (k - m) = k
        BY <1>1
      <4> QED BY <4>1, <2>9, <1>1
    <3>2. ASSUME NEW j \in 1 .. m PROVE j \in OpenQuotes(t, m + i) <=> j \in OpenQuotes(p, m)
      <4>1. t[j] = p[j] /\ j \in 1 .. m + i
        BY <1>1
      <4>2. ASSUME \A k \in j .. m : ~ IsNewline(p[k]), NEW k \in j .. m + i PROVE ~ IsNewline(t[k])
        <5>1. k \in m + 1 .. m + i \/ (k \in j .. m /\ k \in 1 .. m)
          BY <1>1
        <5>2. CASE k \in m + 1 .. m + i
          BY <5>2, <3>1
        <5>3. CASE k \in j .. m /\ k \in 1 .. m
          <6>1. t[k] = p[k]
            BY <5>3, <1>1
          <6> QED BY <5>3, <6>1, <4>2
        <5> QED BY <5>1, <5>2, <5>3
      <4>3. ASSUME \A k \in j .. m + i : ~ IsNewline(t[k]), NEW k \in j .. m PROVE ~ IsNewline(p[k])
        <5>1. k \in j .. m + i /\ k \in 1 .. m
          BY <1>1
        <5> QED BY <5>1, <4>3, <1>1
      <4> QED BY <4>1, <4>2, <4>3 DEF OpenQuotes
    <3>3. OpenQuotes(t, m + i) \subseteq 1 .. m + i /\ OpenQuotes(p, m) \subseteq 1 .. m
      BY DEF OpenQuotes
    <3>4. OpenQuotes(t, m + i) = OpenQuotes(p, m) \cup Moved(OpenQuotes(q, i), m)
      <4>1. \A j \in 1 .. m + i : (j > m /\ j \notin 1 .. m) \/ (j \in 1 .. m /\ ~ (j > m))
        BY <1>1
      <4>2. \A j \in 1 .. m : j \in 1 .. m + i
        BY <1>1
      <4> QED BY <4>1, <4>2, <2>6, <2>7, <3>2, <3>3
    <3>5. OpenQuotes(p, m) \cap Moved(OpenQuotes(q, i), m) = {}
      <4>1. \A j \in 1 .. m : ~ (j > m)
        BY <1>1
      <4> QED BY <4>1, <2>6, <3>3
    <3>6. Cardinality(OpenQuotes(t, m + i)) = Cardinality(OpenQuotes(p, m)) + Cardinality(OpenQuotes(q, i))
      BY <3>4, <3>5, <2>4, <2>5, DisjointSum
    <3> QED BY <3>6, <2>4, <1>3 DEF Odd
  <2> QED BY <2>8, <2>9
<1>7. ASSUME NEW i \in 1 .. m PROVE i \in Buf!Ends(t) <=> i \in Buf!Ends(p)
  <2>1. i \in 1 .. Len(t) /\ i \in 1 .. Len(p)
    BY <1>1 DEF m
  <2>2. t[i] = p[i] /\ Odd(t, i) = Odd(p, i)
    BY <1>1, <1>5
  <2> QED BY <2>1, <2>2, <1>2
<1>8. ASSUME NEW i \in 1 .. n PROVE m + i \in Buf!Ends(t) <=> i \in Buf!Ends(q)
  <2>1. m + i \in 1 .. Len(t) /\ i \in 1 .. Len(q)
    BY <1>1 DEF n
  <2>2. t[m + i] = q[i] /\ Odd(t, m + i) = Odd(q, i)
    BY <1>1, <1>6
  <2> QED BY <2>1, <2>2, <1>2
<1>9. Buf!Ends(t) \subseteq 1 .. m + n /\ Buf!Ends(p) \subseteq 1 .. m /\ Buf!Ends(q) \subseteq 1 .. n
  BY <1>1, EndsFacts DEF m, n
<1>10. ASSUME NEW x \in Buf!Ends(t) PROVE x \in Buf!Ends(p) \cup Moved(Buf!Ends(q), m)
  <2>1. CASE x <= m
    <3>1. x \in 1 .. m
      BY <2>1, <1>1, <1>9
    <3> QED BY <3>1, <1>7
  <2>2. CASE ~ (x <= m)
    <3>1. x - m \in 1 .. n /\ m + (x - m) = x
      BY <2>2, <1>1, <1>9
    <3>2. x - m \in Buf!Ends(q)
      BY <3>1, <1>8
    <3> QED BY <3>1, <3>2 DEF Moved
  <2> QED BY <2>1, <2>2
<1>11. ASSUME NEW x \in Buf!Ends(p) \cup Moved(Buf!Ends(q), m) PROVE x \in Buf!Ends(t)
  <2>1. CASE x \in Buf!Ends(p)
    BY <2>1, <1>7, <1>9
  <2>2. CASE x \in Moved(Buf!Ends(q), m)
    <3>1. PICK y \in Buf!Ends(q) : x = m + y
      BY <2>2 DEF Moved
    <3> QED BY <3>1, <1>8, <1>9
  <2> QED BY <2>1, <2>2
<1> QED BY <1>10, <1>11 DEF t, m

\* A complete text behind another.
LEMMA CompleteEnds ==
    ASSUME NEW s, Complete(s)
    PROVE  s \in Seq(Chars) /\ Len(s) \in Buf!Ends(s) \cup {0} /\ (s # <<>> => Len(s) \in Buf!Ends(s))
<1>1. s \in Seq(Chars) /\ (s = <<>> \/ IsNewline(s[Len(s)]))
  BY Zenon DEF Complete, IsNewline
<1>2. CASE s = <<>>
  BY <1>1, <1>2
<1>3. CASE s # <<>>
  <2>1. Len(s) \in 1 .. Len(s)
    BY <1>1, <1>3
  <2> QED BY <2>1, <1>1, <1>3, EndsByOpen
<1> QED BY <1>2, <1>3

LEMMA LinesEmpty == Buf!Lines(<<>>) = <<>>
<1>1. <<>> \in Seq(Chars) /\ Len(<<>>) = 0
  OBVIOUS
<1>2. Buf!Ends(<<>>) = {}
  <2>1. Buf!Ends(<<>>) \subseteq 1 .. Len(<<>>)
    BY <1>1, EndsFacts
  <2>2. 1 .. Len(<<>>) = {}
    BY <1>1
  <2> QED BY <2>1, <2>2
<1>3. Cardinality(Buf!Ends(<<>>)) = 0
  BY <1>2, FS_EmptySet
<1>4. Buf!Lines(<<>>) \in Seq(Seq(Chars)) /\ Len(Buf!Lines(<<>>)) = 0
  BY <1>1, <1>3, LinesFacts
<1> QED BY <1>4

LEMMA LinesBehind ==
    ASSUME NEW p, NEW q, Complete(p), Complete(q)
    PROVE  Buf!Lines(p \o q) = Buf!Lines(p) \o Buf!Lines(q) /\ Complete(p \o q)
<1>1. /\ p \in Seq(Chars) /\ (p # <<>> => Len(p) \in Buf!Ends(p))
      /\ q \in Seq(Chars) /\ Len(q) \in Buf!Ends(q) \cup {0}
  BY CompleteEnds
<1>2. Buf!Lines(q) \in Seq(Seq(Chars)) /\ Buf!Lines(p) \in Seq(Seq(Chars))
  BY <1>1, LinesFacts, CompleteEnds
<1>3. CASE p = <<>>
  <2>1. p \o q = q
    BY <1>1, <1>3, ConcatEmptySeq
  <2>2. <<>> \o Buf!Lines(q) = Buf!Lines(q)
    BY <1>2, ConcatEmptySeq
  <2> QED BY <2>1, <2>2, <1>3, LinesEmpty
<1>4. CASE p # <<>>
  <2>1. Buf!Lines(p \o q) = Buf!Lines(p) \o Buf!Lines(q)
    BY <1>1, <1>4, EndsJoin, LinesJoin
  <2>2. Complete(p \o q)
    <3>1. /\ p \o q \in Seq(Chars) /\ Len(p \o q) = Len(p) + Len(q)
          /\ \A i \in 1 .. Len(p) + Len(q) : (p \o q)[i] = IF i <= Len(p) THEN p[i] ELSE q[i - Len(p)]
      BY <1>1, ConcatProperties
    <3>2. Len(p) \in Nat /\ Len(q) \in Nat /\ Len(p) > 0
      BY <1>1, <1>4
    <3>3. CASE q = <<>>
      <4>1. p \o q = p
        BY <1>1, <3>3, ConcatEmptySeq
      <4> QED BY <4>1
    <3>4. CASE q # <<>>
      <4>1. Len(q) > 0
        BY <1>1, <3>4
      <4> DEFINE t == p \o q
      <4>2. t[Len(t)] = q[Len(q)]
        <5>1. Len(t) = Len(p) + Len(q)
          BY <3>1
        <5>2. /\ Len(p) + Len(q) \in 1 .. Len(p) + Len(q)
              /\ ~ (Len(p) + Len(q) <= Len(p)) /\ (Len(p) + Len(q)) - Len(p) = Len(q)
          BY <3>2, <4>1
        <5>3. t[Len(p) + Len(q)] = q[(Len(p) + Len(q)) - Len(p)]
          BY <3>1, <5>2
        <5> QED BY <5>1, <5>2, <5>3
      <4>3. t \in Seq(Chars)
        BY <3>1
      <4>4. q[Len(q)] = "\n"
        BY <3>4, Zenon DEF Complete
      <4> QED BY <4>2, <4>3, <4>4, Zenon DEF Complete
    <3> QED BY <3>3, <3>4
  <2> QED BY <2>1, <2>2
<1> QED BY <1>3, <1>4

-----------------------------------------------------------------------------
(* The first line cut off.                                                   *)

LEMMA LeastEnd ==
    ASSUME NEW S, S \subseteq Nat, S # {}
    PROVE  Buf!Min(S) \in S /\ \A k \in S : Buf!Min(S) <= k
<1>1. PICK m \in S : \A k \in S : ~ (<<k, m>> \in OpToRel(<, Nat))
  BY NatLessThanWellFounded, WFMin
<1>2. m \in Nat /\ \A k \in S : k \in Nat
  OBVIOUS
<1>3. \A k \in S : ~ (k < m)
  BY <1>1, <1>2, Zenon DEF OpToRel
<1>4. m \in S /\ \A k \in S : m <= k
  BY <1>2, <1>3
<1> QED BY <1>4, Zenon DEF Buf!Min

\* In front of the first line end found from the start of the text there is none.
LEMMA FirstEnd ==
    ASSUME NEW s \in Seq(Chars), Buf!LineEnds(s) # {}
    PROVE  /\ Buf!Min(Buf!LineEnds(s)) \in 1 .. Len(s)
           /\ Buf!Ends(SubSeq(s, 1, Buf!Min(Buf!LineEnds(s)))) = {Buf!Min(Buf!LineEnds(s))}
<1> DEFINE m == Buf!Min(Buf!LineEnds(s))
           p == SubSeq(s, 1, m)
           Quoted(i) == {j \in 1 .. i : IsQuote(s[j])}
<1>1. /\ Buf!LineEnds(s) \subseteq 1 .. Len(s)
      /\ \A i \in 1 .. Len(s) :
            i \in Buf!LineEnds(s) <=>
              (IsNewline(s[i]) \/ (IsSemicolon(s[i]) /\ Cardinality(Quoted(i)) % 2 = 0))
  <2>1. \A i : Buf!Cardinality(Quoted(i)) = Cardinality(Quoted(i))
    BY SameCount, Zenon
  <2>2. \A i : Buf!Quotes(s, i) = Cardinality(Quoted(i))
    BY <2>1, Zenon DEF Buf!Quotes, IsQuote
  <2> HIDE DEF Quoted
  <2>3. \A i \in 1 .. Len(s) :
           i \in Buf!LineEnds(s) <=>
             (IsNewline(s[i]) \/ (IsSemicolon(s[i]) /\ Buf!Quotes(s, i) % 2 = 0))
    BY Zenon DEF Buf!LineEnds, IsNewline, IsSemicolon
  <2>4. Buf!LineEnds(s) \subseteq 1 .. Len(s)
    BY Zenon DEF Buf!LineEnds
  <2> QED BY <2>2, <2>3, <2>4, Zenon
<1>2. Buf!LineEnds(s) \subseteq 1 .. Len(s) /\ Buf!LineEnds(s) \subseteq Nat /\ Len(s) \in Nat
  BY <1>1
<1>3. m \in Buf!LineEnds(s) /\ \A k \in Buf!LineEnds(s) : m <= k
  BY <1>2, LeastEnd
<1> HIDE DEF m
<1>4. m \in 1 .. Len(s) /\ m \in Nat
  BY <1>2, <1>3
<1>5. p \in Seq(Chars) /\ Len(p) = m /\ \A i \in 1 .. m : p[i] = s[i]
  <2>1. \A i \in 1 .. m : s[i] \in Chars
    BY <1>4
  <2>2. /\ p \in Seq(Chars) /\ Len(p) = (IF 1 <= m THEN m - 1 + 1 ELSE 0)
        /\ \A i \in 1 .. m - 1 + 1 : p[i] = s[1 + i - 1]
    BY <2>1, <1>4, SubSeqProperties
  <2>3. m - 1 + 1 = m /\ 1 <= m /\ \A i \in 1 .. m : 1 + i - 1 = i
    BY <1>4
  <2> HIDE DEF p
  <2> QED BY <2>2, <2>3
<1> HIDE DEF p
<1>6. \A i \in 1 .. m : i # m => i \notin Buf!LineEnds(s) /\ i \in 1 .. Len(s)
  <2> TAKE i \in 1 .. m
  <2>1. i # m => ~ (m <= i)
    BY <1>4
  <2> QED BY <2>1, <1>3, <1>4
<1>7. \A i \in 1 .. m : i # m => ~ IsNewline(s[i])
  BY <1>1, <1>6
<1>8. ASSUME NEW i \in 1 .. m, ~ IsNewline(s[i]) PROVE OpenQuotes(p, i) = Quoted(i)
  <2>1. \A j \in 1 .. i : j \in 1 .. m /\ \A k \in j .. i : k \in 1 .. m /\ (k # i => k # m)
    BY <1>4
  <2>2. \A j \in 1 .. i : \A k \in j .. i : ~ IsNewline(p[k])
    BY <2>1, <1>5, <1>7, <1>8
  <2>3. \A j \in 1 .. i : p[j] = s[j]
    BY <2>1, <1>5
  <2> QED BY <2>2, <2>3 DEF OpenQuotes
<1>9. Buf!Ends(p) = {i \in 1 .. m : IsNewline(p[i]) \/ (IsSemicolon(p[i]) /\ Odd(p, i) = 0)}
  BY <1>5, EndsByOpen
<1>10. ASSUME NEW i \in 1 .. m, i # m PROVE i \notin Buf!Ends(p)
  <2>1. ~ IsNewline(s[i]) /\ p[i] = s[i] /\ i \notin Buf!LineEnds(s) /\ i \in 1 .. Len(s)
    BY <1>5, <1>6, <1>7, <1>10
  <2>2. Odd(p, i) = Cardinality(Quoted(i)) % 2
    BY <2>1, <1>8 DEF Odd
  <2> HIDE DEF Quoted
  <2> QED BY <2>1, <2>2, <1>1, <1>9
<1>11. m \in Buf!Ends(p)
  <2>1. m \in 1 .. m /\ p[m] = s[m]
    BY <1>4, <1>5
  <2>2. CASE IsNewline(s[m])
    BY <2>1, <2>2, <1>9
  <2>3. CASE ~ IsNewline(s[m])
    <3>1. Odd(p, m) = Cardinality(Quoted(m)) % 2
      BY <2>1, <2>3, <1>8 DEF Odd
    <3> HIDE DEF Quoted
    <3>2. IsSemicolon(s[m]) /\ Cardinality(Quoted(m)) % 2 = 0
      BY <2>3, <1>1, <1>3
    <3> QED BY <2>1, <3>1, <3>2, <1>9
  <2> QED BY <2>2, <2>3
<1>12. Buf!Ends(p) \subseteq 1 .. m
  BY <1>9
<1>13. Buf!Ends(p) = {m}
  BY <1>10, <1>11, <1>12
<1> QED BY <1>4, <1>13 DEF m, p

\* The first line taken off a complete text, and the complete text it leaves.
LEMMA CutLine ==
    ASSUME NEW s, Complete(s), s # <<>>
    PROVE  /\ Buf!Line(s) \in Seq(Chars) /\ Complete(Buf!Rest(s))
           /\ Buf!Lines(s) = <<Buf!Line(s)>> \o Buf!Lines(Buf!Rest(s))
<1> DEFINE n == Len(s)
           m == Buf!Min(Buf!LineEnds(s))
           p == SubSeq(s, 1, m)
           r == SubSeq(s, m + 1, n)
<1>1. s \in Seq(Chars) /\ n \in Nat /\ n > 0
  BY DEF Complete
<1>2. s[n] = "\n"
  BY Zenon DEF Complete
<1>3. Buf!LineEnds(s) # {}
  <2>1. n \in 1 .. Len(s)
    BY <1>1
  <2> QED BY <2>1, <1>2, Zenon DEF Buf!LineEnds
<1>4. m \in 1 .. n /\ Buf!Ends(p) = {m}
  BY <1>1, <1>3, FirstEnd
<1>5. Buf!Line(s) = SubSeq(s, 1, m - 1) /\ Buf!Rest(s) = r
  BY <1>3, Zenon DEF Buf!Line, Buf!Rest
<1> HIDE DEF n, m
<1>6. m \in Nat /\ n \in Nat /\ 1 <= m /\ m <= n /\ n - m \in Nat
  BY <1>1, <1>4
<1>7. \A i \in 1 .. n : s[i] \in Chars
  BY <1>1 DEF n
<1>8. p \in Seq(Chars) /\ Len(p) = m /\ \A i \in 1 .. m : p[i] = s[i]
  <2>1. \A i \in 1 .. m : s[i] \in Chars
    BY <1>6, <1>7
  <2>2. /\ p \in Seq(Chars) /\ Len(p) = (IF 1 <= m THEN m - 1 + 1 ELSE 0)
        /\ \A i \in 1 .. m - 1 + 1 : p[i] = s[1 + i - 1]
    BY <2>1, <1>6, SubSeqProperties
  <2>3. m - 1 + 1 = m /\ \A i \in 1 .. m : 1 + i - 1 = i
    BY <1>6
  <2> HIDE DEF p
  <2> QED BY <2>2, <2>3, <1>6
<1>9. r \in Seq(Chars) /\ Len(r) = n - m /\ \A i \in 1 .. n - m : r[i] = s[m + i]
  <2> DEFINE lo == m + 1
  <2>0. lo \in Int /\ n \in Int /\ lo >= 1
    BY <1>1, <1>6
  <2>1. \A i \in lo .. n : s[i] \in Chars
    BY <1>6, <1>7
  <2>2. (IF lo <= n THEN n - lo + 1 ELSE 0) = n - m /\ n - lo + 1 = n - m /\ \A i \in 1 .. n - m : lo + i - 1 = m + i
    BY <1>1, <1>6
  <2> HIDE DEF lo
  <2>3. /\ SubSeq(s, lo, n) \in Seq(Chars) /\ Len(SubSeq(s, lo, n)) = (IF lo <= n THEN n - lo + 1 ELSE 0)
        /\ \A i \in 1 .. n - lo + 1 : SubSeq(s, lo, n)[i] = s[lo + i - 1]
    BY <2>0, <2>1, SubSeqProperties
  <2>4. r = SubSeq(s, lo, n)
    BY DEF lo
  <2> HIDE DEF r
  <2> QED BY <2>2, <2>3, <2>4
<1> HIDE DEF p, r
<1>10. p \o r = s
  <2>1. /\ p \o r \in Seq(Chars) /\ Len(p \o r) = Len(p) + Len(r)
        /\ \A i \in 1 .. Len(p) + Len(r) : (p \o r)[i] = IF i <= Len(p) THEN p[i] ELSE r[i - Len(p)]
    BY <1>8, <1>9, ConcatProperties
  <2>2. Len(p) + Len(r) = n
    BY <1>6, <1>8, <1>9
  <2> DEFINE t == p \o r
  <2>3. ASSUME NEW i \in 1 .. n PROVE t[i] = s[i]
    <3>1. t[i] = IF i <= m THEN p[i] ELSE r[i - m]
      BY <2>1, <2>2, <1>8
    <3>2. CASE i <= m
      BY <3>1, <3>2, <1>6, <1>8
    <3>3. CASE ~ (i <= m)
      <4>1. i - m \in 1 .. n - m /\ m + (i - m) = i
        BY <3>3, <1>6
      <4> QED BY <3>1, <3>3, <4>1, <1>9
    <3> QED BY <3>2, <3>3
  <2>4. t \in Seq(Chars) /\ Len(t) = n
    BY <2>1, <2>2
  <2> HIDE DEF t
  <2>5. t = s
    BY <2>3, <2>4, <1>1, SeqEqual DEF n
  <2> QED BY <2>5 DEF t
<1>11. Complete(r)
  <2>1. CASE n = m
    <3>1. Len(r) = 0
      BY <2>1, <1>6, <1>9
    <3>2. r = <<>>
      BY <3>1, <1>9
    <3> QED BY <3>2, <1>9, Zenon DEF Complete
  <2>2. CASE n # m
    <3>1. Len(r) \in 1 .. n - m /\ m + Len(r) = n
      BY <2>2, <1>6, <1>9
    <3>2. r[Len(r)] = s[n]
      BY <3>1, <1>9
    <3> QED BY <3>2, <1>2, <1>9, Zenon DEF Complete
  <2> QED BY <2>1, <2>2
<1>12. Buf!Lines(s) = Buf!Lines(p) \o Buf!Lines(r)
  <2>1. Len(p) \in Buf!Ends(p) /\ Len(r) \in Buf!Ends(r) \cup {0}
    BY <1>4, <1>8, <1>11, CompleteEnds DEF p
  <2>2. Buf!Ends(p \o r) = Buf!Ends(p) \cup Moved(Buf!Ends(r), Len(p))
    BY <2>1, <1>8, <1>9, EndsJoin
  <2> QED BY <2>1, <2>2, <1>8, <1>9, <1>10, LinesJoin
<1>13. SubSeq(p, 1, m - 1) = SubSeq(s, 1, m - 1) /\ SubSeq(p, 1, m - 1) \in Seq(Chars)
  <2> DEFINE hi == m - 1
  <2>1. hi \in Int /\ hi <= Len(p)
    BY <1>6, <1>8
  <2>2. \A i \in 1 .. hi : p[i] \in Chars
    BY <2>1, <1>8
  <2> HIDE DEF hi
  <2>3. SubSeq(p \o r, 1, hi) = SubSeq(p, 1, hi)
    BY <2>1, <1>8, <1>9, SubSeqJoin
  <2>4. SubSeq(p, 1, hi) \in Seq(Chars)
    BY <2>1, <2>2, SubSeqProperties
  <2> QED BY <2>3, <2>4, <1>10 DEF hi
<1>14. /\ Buf!Lines(p) \in Seq(Seq(Chars)) /\ Len(Buf!Lines(p)) = 1
       /\ Buf!Lines(p)[1] = SubSeq(s, 1, m - 1)
  <2>1. Buf!Ends(p) = {m} /\ Cardinality(Buf!Ends(p)) = 1
    <3>1. Buf!Ends(p) = {m}
      BY <1>4 DEF p
    <3> QED BY <3>1, FS_Singleton
  <2>2. /\ Buf!Lines(p) \in Seq(Seq(Chars)) /\ Len(Buf!Lines(p)) = 1
        /\ Buf!Lines(p)[1] = LineOf(p, 1)
    <3>1. Len(p) \in Buf!Ends(p) \cup {0}
      BY <2>1, <1>8
    <3>2. 1 \in 1 .. 1
      OBVIOUS
    <3> QED BY <3>1, <3>2, <2>1, <1>8, LinesFacts
  <2>3. Nth(Buf!Ends(p), 1) = m
    <3>1. {m} \subseteq Nat /\ IsFiniteSet({m}) /\ Cardinality({m}) = 1
      BY <1>6, FS_Singleton
    <3>2. \A i \in 1 .. Cardinality({m}) : Nth({m}, i) \in {m}
      BY <3>1, NthFacts
    <3>3. 1 \in 1 .. 1
      OBVIOUS
    <3>4. Nth({m}, 1) \in {m}
      BY <3>1, <3>2, <3>3
    <3> QED BY <3>4, <2>1
  <2>4. Nth(Buf!Ends(p), 1 - 1) + 1 = 1
    BY DEF Nth
  <2>5. LineOf(p, 1) = SubSeq(p, 1, m - 1)
    BY <2>3, <2>4 DEF LineOf
  <2> QED BY <2>2, <2>5, <1>13
<1>15. Buf!Lines(p) = <<SubSeq(s, 1, m - 1)>>
  BY <1>13, <1>14
<1> QED BY <1>5, <1>11, <1>12, <1>13, <1>15 DEF r

-----------------------------------------------------------------------------
(* What the operations do to the lines of a complete text.                   *)

\* A character that ends a line, behind any text.
LEMMA EndedByNewline ==
    ASSUME NEW s \in Seq(Chars), NEW t \in Seq(Chars), NEW c \in Chars, IsNewline(c)
    PROVE  /\ (s \o t) \o <<c>> = s \o (t \o <<c>>)
           /\ Complete(t \o <<c>>) /\ t \o <<c>> # <<>>
<1> DEFINE e == <<c>>
<1>1. e \in Seq(Chars) /\ Len(e) = 1 /\ e[1] = c
  OBVIOUS
<1> HIDE DEF e
<1>2. (s \o t) \o e = s \o (t \o e)
  BY <1>1, ConcatAssociative
<1>3. /\ t \o e \in Seq(Chars) /\ Len(t \o e) = Len(t) + Len(e)
      /\ \A i \in 1 .. Len(t) + Len(e) : (t \o e)[i] = IF i <= Len(t) THEN t[i] ELSE e[i - Len(t)]
  BY <1>1, ConcatProperties
<1>4. Len(t) \in Nat
  OBVIOUS
<1> DEFINE u == t \o e
<1>5. u \in Seq(Chars) /\ Len(u) = Len(t) + 1 /\ u[Len(t) + 1] = c
  <2>1. Len(t) + 1 \in 1 .. Len(t) + 1 /\ ~ (Len(t) + 1 <= Len(t)) /\ (Len(t) + 1) - Len(t) = 1
    BY <1>4
  <2> QED BY <2>1, <1>1, <1>3
<1> HIDE DEF u
<1>6. u # <<>> /\ u[Len(u)] = c
  BY <1>4, <1>5
<1>7. Complete(u)
  BY <1>5, <1>6, Zenon DEF Complete, IsNewline
<1> QED BY <1>2, <1>6, <1>7 DEF e, u

\* Text added behind a complete one adds at least a line, and only behind.
LEMMA LinesAdded ==
    ASSUME NEW s, Complete(s), NEW t, Complete(t), t # <<>>
    PROVE  /\ \E n \in 1 .. Len(Buf!Lines(s \o t)) :
                 Buf!Lines(s) = SubSeq(Buf!Lines(s \o t), 1, Len(Buf!Lines(s \o t)) - n)
           /\ Complete(s \o t)
<1> DEFINE x == Buf!Lines(s)
           y == Buf!Lines(t)
           z == Buf!Lines(s \o t)
<1>1. z = x \o y /\ Complete(s \o t)
  BY LinesBehind
<1>2. x \in Seq(Seq(Chars)) /\ y \in Seq(Seq(Chars)) /\ Len(y) > 0
  <2>1. /\ s \in Seq(Chars) /\ Len(s) \in Buf!Ends(s) \cup {0}
        /\ t \in Seq(Chars) /\ Len(t) \in Buf!Ends(t)
    BY CompleteEnds
  <2>2. Cardinality(Buf!Ends(t)) \in Nat /\ Cardinality(Buf!Ends(t)) # 0
    <3>1. IsFiniteSet(Buf!Ends(t))
      BY <2>1, EndsFacts
    <3> QED BY <2>1, <3>1, FS_EmptySet, FS_CardinalityType
  <2>3. Len(Buf!Lines(t)) = Cardinality(Buf!Ends(t))
    BY <2>1, LinesFacts
  <2>4. x \in Seq(Seq(Chars)) /\ y \in Seq(Seq(Chars))
    BY <2>1, LinesFacts
  <2> QED BY <2>2, <2>3, <2>4
<1> HIDE DEF x, y, z
<1>3. /\ x \o y \in Seq(Seq(Chars)) /\ Len(x \o y) = Len(x) + Len(y)
      /\ \A i \in 1 .. Len(x) + Len(y) : (x \o y)[i] = IF i <= Len(x) THEN x[i] ELSE y[i - Len(x)]
  BY <1>2, ConcatProperties
<1> DEFINE k == Len(x)
           n == Len(y)
<1>4. k \in Nat /\ n \in Nat /\ n \in 1 .. Len(z) /\ Len(z) - n = k
  <2>1. Len(x) \in Nat /\ Len(y) \in Nat /\ Len(z) = Len(x) + Len(y)
    BY <1>1, <1>2, <1>3
  <2> QED BY <2>1, <1>2
<1>5. /\ z \in Seq(Seq(Chars)) /\ k <= Len(z) /\ \A i \in 1 .. k : z[i] = x[i] /\ z[i] \in Seq(Chars)
  <2>1. z \in Seq(Seq(Chars)) /\ Len(z) = k + n
    BY <1>1, <1>3
  <2>2. \A i \in 1 .. k : i \in 1 .. k + n /\ i <= k
    BY <1>4
  <2>3. \A i \in 1 .. k : z[i] = x[i] /\ x[i] \in Seq(Chars)
    BY <2>2, <1>1, <1>2, <1>3
  <2> QED BY <2>1, <2>3, <1>4
<1>6. x = SubSeq(z, 1, k)
  <2> DEFINE v == SubSeq(z, 1, k)
  <2>0. k \in Int /\ (IF 1 <= k THEN k - 1 + 1 ELSE 0) = k /\ k - 1 + 1 = k /\ \A i \in 1 .. k : 1 + i - 1 = i
    BY <1>4
  <2>00. \A i \in 1 .. k : z[i] \in Seq(Chars)
    BY <1>5
  <2>000. 1 \in Int /\ 1 >= 1
    OBVIOUS
  <2> HIDE DEF k
  <2>1. /\ v \in Seq(Seq(Chars)) /\ Len(v) = (IF 1 <= k THEN k - 1 + 1 ELSE 0)
        /\ \A i \in 1 .. k - 1 + 1 : v[i] = z[1 + i - 1]
    BY <2>0, <2>00, <2>000, <1>4, SubSeqProperties
  <2> HIDE DEF v
  <2>2. Len(v) = k /\ \A i \in 1 .. k : x[i] = v[i]
    BY <2>0, <2>1, <1>5
  <2>3. x = v
    BY <2>1, <2>2, <1>2, SeqEqual DEF k
  <2> QED BY <2>3 DEF v
<1> HIDE DEF k, n
<1>7. \E j \in 1 .. Len(z) : x = SubSeq(z, 1, Len(z) - j)
  BY <1>4, <1>6
<1> QED BY <1>1, <1>7 DEF x, z

\* The first line is executed: what it inserts goes in front of the rest, what
\* it adds behind it.
LEMMA LineExecuted ==
    ASSUME NEW s, Complete(s), s # <<>>, NEW a, Complete(a), NEW b, Complete(b)
    PROVE  /\ Buf!Line(s) \in Seq(Chars)
           /\ Buf!Lines(s) # <<>> /\ Head(Buf!Lines(s)) = Buf!Line(s)
           /\ Buf!Lines((a \o Buf!Rest(s)) \o b) = Buf!Lines(a) \o Tail(Buf!Lines(s)) \o Buf!Lines(b)
           /\ Complete((a \o Buf!Rest(s)) \o b)
<1> DEFINE line == Buf!Line(s)
           r == Buf!Rest(s)
           y == Buf!Lines(r)
<1>1. line \in Seq(Chars) /\ Complete(r) /\ Buf!Lines(s) = <<line>> \o y
  BY CutLine
<1>2. y \in Seq(Seq(Chars))
  BY <1>1, CompleteEnds, LinesFacts
<1> HIDE DEF line, r, y
<1>3. Complete(a \o r) /\ Buf!Lines(a \o r) = Buf!Lines(a) \o y
  BY <1>1, LinesBehind DEF y
<1>4. Complete((a \o r) \o b) /\ Buf!Lines((a \o r) \o b) = (Buf!Lines(a) \o y) \o Buf!Lines(b)
  BY <1>3, LinesBehind
<1> DEFINE x == <<line>> \o y
<1>5. x \in Seq(Seq(Chars)) /\ x # <<>> /\ Head(x) = line /\ Tail(x) = y
  <2> DEFINE e == <<line>>
  <2>1. e \in Seq(Seq(Chars)) /\ Len(e) = 1 /\ e[1] = line
    BY <1>1
  <2> HIDE DEF e
  <2>2. /\ e \o y \in Seq(Seq(Chars)) /\ Len(e \o y) = Len(e) + Len(y)
        /\ \A i \in 1 .. Len(e) + Len(y) : (e \o y)[i] = IF i <= Len(e) THEN e[i] ELSE y[i - Len(e)]
    BY <2>1, <1>2, ConcatProperties
  <2>3. x = e \o y
    BY DEF e
  <2> HIDE DEF x
  <2>4. Len(y) \in Nat /\ x \in Seq(Seq(Chars)) /\ Len(x) = 1 + Len(y) /\ x # <<>>
    BY <2>1, <2>2, <2>3, <1>2
  <2>5. \A i \in 1 .. 1 + Len(y) : x[i] = IF i <= 1 THEN e[i] ELSE y[i - 1]
    BY <2>1, <2>2, <2>3
  <2>6. x[1] = line /\ Head(x) = x[1]
    BY <2>1, <2>4, <2>5
  <2>7. Tail(x) \in Seq(Seq(Chars)) /\ Len(Tail(x)) = Len(y)
    BY <2>4
  <2>8. \A i \in 1 .. Len(Tail(x)) : Tail(x)[i] = y[i]
    <3> TAKE i \in 1 .. Len(Tail(x))
    <3>1. i + 1 \in 1 .. 1 + Len(y) /\ ~ (i + 1 <= 1) /\ (i + 1) - 1 = i
      BY <2>4, <2>7
    <3>2. Tail(x)[i] = x[i + 1]
      BY <2>4, <2>7
    <3> QED BY <3>1, <3>2, <2>5
  <2>9. Tail(x) = y
    BY <2>7, <2>8, <1>2, SeqEqual
  <2> QED BY <2>4, <2>6, <2>9
<1> HIDE DEF x
<1>6. Buf!Lines(s) = x
  BY <1>1 DEF x
<1> QED BY <1>1, <1>4, <1>5, <1>6 DEF line, r

-----------------------------------------------------------------------------
(* The buffer implements the queue: until something was dropped or the        *)
(* program stopped, its text is complete, and its lines are the queue.        *)

CInv ==
    /\ executing \in BOOLEAN /\ dropped \in BOOLEAN /\ fatal \in BOOLEAN /\ overrun \in BOOLEAN
    /\ dropped \/ fatal \/ overrun \/ Complete(text)

Spoilt == dropped \/ fatal \/ overrun

LEMMA CInvInit == Buf!Init => CInv /\ Buf!Queue!Init
<1> SUFFICES ASSUME Buf!Init PROVE CInv /\ Buf!Queue!Init
  OBVIOUS
<1>1. text = <<>> /\ executing = FALSE /\ dropped = FALSE /\ fatal = FALSE /\ overrun = FALSE
  BY DEF Buf!Init
<1>2. Complete(text)
  <2>1. text \in Seq(Chars)
    BY <1>1
  <2> QED BY <2>1, <1>1, Zenon DEF Complete
<1>3. Buf!Lines(text) = <<>>
  BY <1>1, LinesEmpty
<1> QED BY <1>1, <1>2, <1>3, Zenon DEF CInv, Buf!Queue!Init

\* A step that keeps the text, or spoils it, is left to two cases of Next.
LEMMA SpoiltStep == CInv /\ Spoilt' => Buf!Queue!Next
BY Zenon DEF Spoilt, Buf!Queue!Next

LEMMA AddCommandsStep ==
    ASSUME WholeLines, CInv, NEW t \in CommandTexts, Buf!AddCommands(t), ~ Spoilt'
    PROVE  CInv' /\ Buf!Queue!Next
<1>1. /\ ~ executing /\ executing' = executing /\ fatal' = fatal /\ overrun' = overrun
      /\ text' = Buf!AddText(text, t)
      /\ dropped' = (dropped \/ Buf!Overflows(text, t))
  BY Zenon DEF Buf!AddCommands
<1>2. ~ dropped /\ ~ fatal /\ ~ overrun /\ ~ Buf!Overflows(text, t)
  BY <1>1, Zenon DEF Spoilt
<1>3. text' = text \o t
  BY <1>1, <1>2, Zenon DEF Buf!AddText
<1>4. Complete(text) /\ Complete(t) /\ t # <<>>
  BY <1>2, Zenon DEF CInv, WholeLines
<1>5. /\ \E n \in 1 .. Len(Buf!Lines(text \o t)) :
            Buf!Lines(text) = SubSeq(Buf!Lines(text \o t), 1, Len(Buf!Lines(text \o t)) - n)
      /\ Complete(text \o t)
  BY <1>4, LinesAdded
<1>6. \E n \in 1 .. Len(Buf!Lines(text)') :
         Buf!Lines(text) = SubSeq(Buf!Lines(text)', 1, Len(Buf!Lines(text)') - n)
  BY <1>3, <1>5
<1>7. Buf!Queue!Next
  BY <1>1, <1>2, <1>6, Zenon DEF Buf!Queue!Next, Buf!Queue!Add, Spoilt
<1>8. CInv'
  <2>1. Complete(text)'
    BY <1>3, <1>5
  <2>2. executing' \in BOOLEAN /\ dropped' \in BOOLEAN /\ fatal' \in BOOLEAN /\ overrun' \in BOOLEAN
    BY <1>1, <1>2, Zenon DEF CInv
  <2> QED BY <2>1, <2>2, Zenon DEF CInv
<1> QED BY <1>7, <1>8

LEMMA AddBindingStep ==
    ASSUME WholeLines, CInv, NEW t \in Bindings, Buf!AddBinding(t), ~ Spoilt'
    PROVE  CInv' /\ Buf!Queue!Next
<1> DEFINE s == Buf!AddText(text, t)
           e == "\n"
<1>1. /\ ~ executing /\ executing' = executing /\ fatal' = fatal /\ overrun' = overrun
      /\ text' = Buf!AddText(s, <<e>>)
      /\ dropped' = (dropped \/ Buf!Overflows(text, t) \/ Buf!Overflows(s, <<e>>))
  BY Zenon DEF Buf!AddBinding
<1>2. ~ dropped /\ ~ fatal /\ ~ overrun /\ ~ Buf!Overflows(text, t) /\ ~ Buf!Overflows(s, <<e>>)
  BY <1>1, Zenon DEF Spoilt
<1>3. s = text \o t
  BY <1>2, Zenon DEF Buf!AddText
<1>4. text' = s \o <<e>>
  BY <1>1, <1>2, Zenon DEF Buf!AddText
<1>5. Complete(text) /\ t \in Seq(Chars) /\ e \in Chars /\ IsNewline(e)
  BY <1>2, Zenon DEF CInv, WholeLines, IsNewline
<1> HIDE DEF e, s
<1>6. text \in Seq(Chars)
  BY <1>5, Zenon DEF Complete
<1> DEFINE u == t \o <<e>>
<1>7. text' = text \o u /\ Complete(u) /\ u # <<>>
  BY <1>3, <1>4, <1>5, <1>6, EndedByNewline
<1> HIDE DEF u
<1>8. /\ \E n \in 1 .. Len(Buf!Lines(text \o u)) :
            Buf!Lines(text) = SubSeq(Buf!Lines(text \o u), 1, Len(Buf!Lines(text \o u)) - n)
      /\ Complete(text \o u)
  BY <1>5, <1>7, LinesAdded
<1>9. \E n \in 1 .. Len(Buf!Lines(text)') :
         Buf!Lines(text) = SubSeq(Buf!Lines(text)', 1, Len(Buf!Lines(text)') - n)
  BY <1>7, <1>8
<1>10. Buf!Queue!Next
  BY <1>1, <1>2, <1>9, Zenon DEF Buf!Queue!Next, Buf!Queue!Add, Spoilt
<1>11. CInv'
  <2>1. Complete(text)'
    BY <1>7, <1>8
  <2>2. executing' \in BOOLEAN /\ dropped' \in BOOLEAN /\ fatal' \in BOOLEAN /\ overrun' \in BOOLEAN
    BY <1>1, <1>2, Zenon DEF CInv
  <2> QED BY <2>1, <2>2, Zenon DEF CInv
<1> QED BY <1>10, <1>11

LEMMA BeginStep == ASSUME CInv, Buf!BeginExecute, ~ Spoilt' PROVE CInv' /\ Buf!Queue!Next
<1>1. /\ ~ executing /\ executing' = TRUE
      /\ text' = text /\ dropped' = dropped /\ fatal' = fatal /\ overrun' = overrun
  BY Zenon DEF Buf!BeginExecute
<1>2. Buf!Lines(text)' = Buf!Lines(text) /\ (Complete(text)' <=> Complete(text))
  BY <1>1
<1>3. ~ dropped /\ ~ fatal /\ ~ overrun /\ ~ dropped' /\ ~ fatal' /\ ~ overrun'
  BY <1>1, Zenon DEF Spoilt
<1>4. Buf!Queue!Next
  BY <1>1, <1>2, <1>3, Zenon DEF Buf!Queue!Next, Buf!Queue!Begin
<1>5. CInv'
  BY <1>1, <1>2, <1>3, Zenon DEF CInv
<1> QED BY <1>4, <1>5

LEMMA EndStep == ASSUME CInv, Buf!EndExecute, ~ Spoilt' PROVE CInv' /\ Buf!Queue!Next
<1>1. /\ executing /\ executing' = FALSE /\ text = <<>>
      /\ text' = text /\ dropped' = dropped /\ fatal' = fatal /\ overrun' = overrun
  BY Zenon DEF Buf!EndExecute
<1>2. Buf!Lines(text)' = Buf!Lines(text) /\ (Complete(text)' <=> Complete(text))
  BY <1>1
<1>3. ~ dropped /\ ~ fatal /\ ~ overrun /\ ~ dropped' /\ ~ fatal' /\ ~ overrun'
  BY <1>1, Zenon DEF Spoilt
<1>4. Buf!Lines(text) = <<>>
  BY <1>1, LinesEmpty
<1>5. Buf!Queue!Next
  BY <1>1, <1>2, <1>3, <1>4, Zenon DEF Buf!Queue!Next, Buf!Queue!End
<1>6. CInv'
  BY <1>1, <1>2, <1>3, Zenon DEF CInv
<1> QED BY <1>5, <1>6

LEMMA ExecuteLineStep ==
    ASSUME WholeLines, CInv, Buf!ExecuteLine, ~ Spoilt'
    PROVE  CInv' /\ Buf!Queue!Next
<1> DEFINE line == Buf!Line(text)
           a == Inserted(line)
           b == Added(line)
           s == Buf!InsertText(Buf!Rest(text), a)
<1>1. executing /\ text # <<>> /\ ~ (Len(s) > MaxSize)
  BY Zenon DEF Buf!ExecuteLine, Spoilt
<1>2. /\ text' = Buf!AddText(s, b)
      /\ dropped' = (\/ dropped
                     \/ Buf!Overflows(<<>>, a)
                     \/ b # <<>> /\ Buf!Overflows(s, b))
      /\ executing' = ~ Buf!Waits(line)
      /\ fatal' = fatal /\ overrun' = overrun
  BY <1>1, Zenon DEF Buf!ExecuteLine
<1>3. ~ dropped /\ ~ fatal /\ ~ overrun /\ ~ Buf!Overflows(<<>>, a) /\ (b = <<>> \/ ~ Buf!Overflows(s, b))
  BY <1>2, Zenon DEF Spoilt
<1>4. Complete(text)
  BY <1>3, Zenon DEF CInv
<1>5. line \in Seq(Chars)
  BY <1>1, <1>4, CutLine
<1>6. Complete(a) /\ Complete(b)
  BY <1>5, Zenon DEF WholeLines
<1> DEFINE r == Buf!Rest(text)
<1>7. Complete(r) /\ r \in Seq(Chars) /\ a \in Seq(Chars) /\ b \in Seq(Chars)
  <2>1. Complete(r)
    BY <1>1, <1>4, CutLine
  <2> QED BY <2>1, <1>6, Zenon DEF Complete
<1>8. s = a \o r
  <2>1. s = (<<>> \o a) \o r
    BY <1>3, Zenon DEF Buf!InsertText, Buf!AddText
  <2>2. <<>> \o a = a
    BY <1>7, ConcatEmptySeq
  <2> QED BY <2>1, <2>2
<1>9. text' = (a \o r) \o b
  <2>1. CASE b = <<>>
    <3>1. text' = s \/ text' = s \o b
      BY <1>2, Zenon DEF Buf!AddText
    <3>2. a \o r \in Seq(Chars)
      BY <1>7, ConcatProperties
    <3>3. (a \o r) \o b = a \o r
      BY <2>1, <3>2, ConcatEmptySeq
    <3> QED BY <1>8, <3>1, <3>3
  <2>2. CASE b # <<>>
    BY <2>2, <1>2, <1>3, <1>8, Zenon DEF Buf!AddText
  <2> QED BY <2>1, <2>2
<1>10. /\ Buf!Lines(text) # <<>> /\ Head(Buf!Lines(text)) = line
       /\ Buf!Lines((a \o r) \o b) = Buf!Lines(a) \o Tail(Buf!Lines(text)) \o Buf!Lines(b)
       /\ Complete((a \o r) \o b)
  BY <1>1, <1>4, <1>6, LineExecuted
<1>11. Buf!Lines(text)' = Buf!InsertedLines(line) \o Tail(Buf!Lines(text)) \o Buf!AddedLines(line)
  BY <1>9, <1>10, Zenon DEF Buf!InsertedLines, Buf!AddedLines
<1>12. executing' = (line # WaitLine)
  BY <1>2, Zenon DEF Buf!Waits
<1> HIDE DEF line
<1>13. Buf!Queue!Next
  BY <1>1, <1>2, <1>3, <1>10, <1>11, <1>12, Zenon DEF Buf!Queue!Next, Buf!Queue!Run, Spoilt
<1>14. CInv'
  <2>1. Complete(text)'
    BY <1>9, <1>10
  <2>2. executing' \in BOOLEAN /\ dropped' \in BOOLEAN /\ fatal' \in BOOLEAN /\ overrun' \in BOOLEAN
    <3>1. executing' \in BOOLEAN
      BY <1>12, Zenon
    <3>2. dropped' = FALSE
      BY <1>2, <1>3, Zenon
    <3> QED BY <3>1, <3>2, <1>2, Zenon DEF CInv
  <2> QED BY <2>1, <2>2, Zenon DEF CInv
<1> QED BY <1>13, <1>14

\* The command of the first line fails: the rest stays, with what it has added.
LEMMA LineFailsStep ==
    ASSUME WholeLines, CInv, Buf!LineFails, ~ Spoilt'
    PROVE  CInv' /\ Buf!Queue!Next
<1> DEFINE line == Buf!Line(text)
           r == Buf!Rest(text)
<1>1. PICK b \in {<<>>, Added(line)} :
         /\ executing /\ text # <<>> /\ line \in Failing
         /\ text' = Buf!AddText(r, b)
         /\ dropped' = (dropped \/ (b # <<>> /\ Buf!Overflows(r, b)))
         /\ executing' = FALSE /\ fatal' = fatal /\ overrun' = overrun
  BY Zenon DEF Buf!LineFails
<1>2. ~ dropped /\ ~ fatal /\ ~ overrun /\ (b = <<>> \/ ~ Buf!Overflows(r, b))
  BY <1>1, Zenon DEF Spoilt
<1>3. Complete(text)
  BY <1>2, Zenon DEF CInv
<1>4. Complete(r) /\ r \in Seq(Chars) /\ line \in Seq(Chars)
  <2>1. Complete(r) /\ line \in Seq(Chars)
    BY <1>1, <1>3, CutLine
  <2> QED BY <2>1, Zenon DEF Complete
<1>5. Complete(b) /\ Complete(<<>>)
  <2>1. <<>> \in Seq(Chars)
    OBVIOUS
  <2>2. Complete(<<>>)
    BY <2>1, Zenon DEF Complete
  <2>3. Complete(Added(line))
    BY <1>4, Zenon DEF WholeLines
  <2> QED BY <1>1, <2>2, <2>3
<1>6. text' = r \o b
  <2>1. CASE b = <<>>
    <3>1. r \o b = r
      BY <2>1, <1>4, ConcatEmptySeq
    <3> QED BY <1>1, <2>1, <3>1, Zenon DEF Buf!AddText
  <2>2. CASE b # <<>>
    BY <2>2, <1>1, <1>2, Zenon DEF Buf!AddText
  <2> QED BY <2>1, <2>2
<1>7. /\ Buf!Lines(text) # <<>> /\ Head(Buf!Lines(text)) = line
      /\ Buf!Lines((<<>> \o r) \o b) = Buf!Lines(<<>>) \o Tail(Buf!Lines(text)) \o Buf!Lines(b)
      /\ Complete((<<>> \o r) \o b)
  BY <1>1, <1>3, <1>5, LineExecuted
<1>8. /\ <<>> \o r = r
      /\ <<>> \o Tail(Buf!Lines(text)) = Tail(Buf!Lines(text))
      /\ Tail(Buf!Lines(text)) \o <<>> = Tail(Buf!Lines(text))
  <2>1. Buf!Lines(text) \in Seq(Seq(Chars))
    BY <1>3, CompleteEnds, LinesFacts
  <2>2. Tail(Buf!Lines(text)) \in Seq(Seq(Chars))
    BY <2>1, <1>7
  <2> QED BY <2>2, <1>4, ConcatEmptySeq
<1>9. Buf!Lines(text)' \in {Tail(Buf!Lines(text)), Tail(Buf!Lines(text)) \o Buf!AddedLines(line)}
  <2>1. Buf!Lines(text)' = Tail(Buf!Lines(text)) \o Buf!Lines(b)
    BY <1>6, <1>7, <1>8, LinesEmpty
  <2>2. CASE b = <<>>
    BY <2>1, <2>2, <1>8, LinesEmpty
  <2>3. CASE b = Added(line)
    BY <2>1, <2>3 DEF Buf!AddedLines
  <2> QED BY <1>1, <2>2, <2>3
<1> HIDE DEF line, r
<1>10. Buf!Queue!Next
  BY <1>1, <1>2, <1>7, <1>9, Zenon DEF Buf!Queue!Next, Buf!Queue!Fail, Spoilt
<1>11. CInv'
  <2>1. Complete(text)'
    BY <1>6, <1>7, <1>8
  <2>2. executing' \in BOOLEAN /\ dropped' \in BOOLEAN /\ fatal' \in BOOLEAN /\ overrun' \in BOOLEAN
    <3>1. dropped' = FALSE
      BY <1>1, <1>2, Zenon
    <3> QED BY <3>1, <1>1, Zenon DEF CInv
  <2> QED BY <2>1, <2>2, Zenon DEF CInv
<1> QED BY <1>10, <1>11

\* Every step of the buffer is one of the queue, or none.
LEMMA BufferStep ==
    ASSUME WholeLines, CInv, [Buf!Next]_Buf!vars
    PROVE  CInv' /\ [Buf!Queue!Next]_Buf!Queue!vars
<1>1. CASE UNCHANGED Buf!vars
  <2>1. text' = text /\ executing' = executing /\ dropped' = dropped /\ fatal' = fatal /\ overrun' = overrun
    BY <1>1, Zenon DEF Buf!vars
  <2>2. Buf!Lines(text)' = Buf!Lines(text) /\ (Complete(text)' <=> Complete(text))
    BY <2>1
  <2>3. UNCHANGED Buf!Queue!vars
    BY <2>1, <2>2 DEF Buf!Queue!vars
  <2>4. CInv'
    BY <2>1, <2>2, Zenon DEF CInv
  <2> QED BY <2>3, <2>4
<1>2. CASE Buf!Next /\ ~ Spoilt'
  <2>1. CASE \E t \in CommandTexts : Buf!AddCommands(t)
    BY <2>1, <1>2, AddCommandsStep
  <2>2. CASE \E t \in Bindings : Buf!AddBinding(t)
    BY <2>2, <1>2, AddBindingStep
  <2>3. CASE Buf!Execute
    <3>1. CASE Buf!LineOverruns
      BY <3>1, <1>2, Zenon DEF Buf!LineOverruns, Spoilt
    <3> QED BY <2>3, <3>1, <1>2, BeginStep, ExecuteLineStep, LineFailsStep, EndStep DEF Buf!Execute
  <2> QED BY <2>1, <2>2, <2>3, <1>2 DEF Buf!Next
<1>3. CASE Buf!Next /\ Spoilt'
  <2>1. executing' \in BOOLEAN /\ dropped' \in BOOLEAN /\ fatal' \in BOOLEAN /\ overrun' \in BOOLEAN
    <3>1. CASE \E t \in CommandTexts : Buf!AddCommands(t)
      BY <3>1, Zenon DEF Buf!AddCommands, CInv
    <3>2. CASE \E t \in Bindings : Buf!AddBinding(t)
      BY <3>2, Zenon DEF Buf!AddBinding, CInv
    <3>3. CASE Buf!BeginExecute
      BY <3>3, Zenon DEF Buf!BeginExecute, CInv
    <3>4. CASE Buf!ExecuteLine
      BY <3>4, Zenon DEF Buf!ExecuteLine, CInv
    <3>5. CASE Buf!EndExecute
      BY <3>5, Zenon DEF Buf!EndExecute, CInv
    <3>6. CASE Buf!LineOverruns
      BY <3>6, Zenon DEF Buf!LineOverruns, CInv
    <3>7. CASE Buf!LineFails
      BY <3>7, Zenon DEF Buf!LineFails, CInv
    <3> QED BY <3>1, <3>2, <3>3, <3>4, <3>5, <3>6, <3>7, <1>3, Zenon DEF Buf!Next, Buf!Execute
  <2>2. CInv'
    BY <2>1, <1>3, Zenon DEF CInv, Spoilt
  <2> QED BY <2>2, <1>3, SpoiltStep
<1> QED BY <1>1, <1>2, <1>3

(* ImplementsQueue of Cbuf: whatever aliases insert and wherever a wait, a    *)
(* command that fails or the end of the text stops the loop, the text the     *)
(* buffer holds is the queue of its commands, none split, merged with the     *)
(* next, lost or overtaken, until an overflow was reported or a line outgrew  *)
(* the array of Cbuf_Execute, whose size nothing checks (cmd.c:151).  It needs *)
(* that what is added or inserted ends with a line end; that of a key binding  *)
(* is added behind it.                                                         *)
THEOREM CommandsStayWhole == WholeLines => (Buf!Spec => Buf!ImplementsQueue)
<1> SUFFICES ASSUME WholeLines PROVE Buf!Spec => Buf!ImplementsQueue
  OBVIOUS
<1>1. Buf!Init => CInv /\ Buf!Queue!Init
  BY CInvInit
<1>2. CInv /\ [Buf!Next]_Buf!vars => CInv' /\ [Buf!Queue!Next]_Buf!Queue!vars
  BY BufferStep
<1> QED BY <1>1, <1>2, PTL DEF Buf!Spec, Buf!ImplementsQueue, Buf!Queue!Spec

-----------------------------------------------------------------------------
(* The array of Cbuf_Execute.                                                *)

Short(s) == \A i \in 1 .. Len(Buf!Lines(s)) : Len(Buf!Lines(s)[i]) < MaxLine

\* No line that is added or inserted is too long by itself.
ShortLines ==
    /\ \A t \in CommandTexts : Short(t)
    /\ \A t \in Bindings : Short(t \o <<"\n">>)
    /\ \A line \in Seq(Chars) : Short(Inserted(line)) /\ Short(Added(line))

LEMMA ShortJoin ==
    ASSUME NEW p, NEW q, Complete(p), Complete(q), Short(p), Short(q)
    PROVE  Short(p \o q)
<1> DEFINE x == Buf!Lines(p)
           y == Buf!Lines(q)
<1>1. Buf!Lines(p \o q) = x \o y
  BY LinesBehind
<1>2. x \in Seq(Seq(Chars)) /\ y \in Seq(Seq(Chars))
  BY CompleteEnds, LinesFacts
<1>3. /\ \A i \in 1 .. Len(x) : Len(x[i]) < MaxLine
      /\ \A i \in 1 .. Len(y) : Len(y[i]) < MaxLine
  BY DEF Short
<1> HIDE DEF x, y
<1>4. /\ Len(x \o y) = Len(x) + Len(y)
      /\ \A i \in 1 .. Len(x) + Len(y) : (x \o y)[i] = IF i <= Len(x) THEN x[i] ELSE y[i - Len(x)]
  BY <1>2, ConcatProperties
<1>5. ASSUME NEW i \in 1 .. Len(x) + Len(y) PROVE Len((x \o y)[i]) < MaxLine
  <2>1. Len(x) \in Nat /\ Len(y) \in Nat
    BY <1>2
  <2>2. CASE i <= Len(x)
    <3>1. i \in 1 .. Len(x)
      BY <2>1, <2>2
    <3> QED BY <3>1, <2>2, <1>3, <1>4
  <2>3. CASE ~ (i <= Len(x))
    <3>1. i - Len(x) \in 1 .. Len(y)
      BY <2>1, <2>3
    <3> QED BY <3>1, <2>3, <1>3, <1>4
  <2> QED BY <2>2, <2>3
<1> QED BY <1>1, <1>4, <1>5 DEF Short

LEMMA ShortCut ==
    ASSUME NEW s, Complete(s), s # <<>>, Short(s)
    PROVE  Len(Buf!Line(s)) < MaxLine /\ Short(Buf!Rest(s))
<1> DEFINE line == Buf!Line(s)
           y == Buf!Lines(Buf!Rest(s))
           x == <<line>>
<1>1. line \in Seq(Chars) /\ Complete(Buf!Rest(s)) /\ Buf!Lines(s) = <<line>> \o y
  BY CutLine
<1>2. y \in Seq(Seq(Chars))
  BY <1>1, CompleteEnds, LinesFacts
<1>3. \A i \in 1 .. Len(<<line>> \o y) : Len((<<line>> \o y)[i]) < MaxLine
  BY <1>1 DEF Short
<1> HIDE DEF y, line
<1>4. x \in Seq(Seq(Chars)) /\ Len(x) = 1 /\ x[1] = line
  BY <1>1
<1> HIDE DEF x
<1>5. /\ Len(x \o y) = Len(x) + Len(y)
      /\ \A i \in 1 .. Len(x) + Len(y) : (x \o y)[i] = IF i <= Len(x) THEN x[i] ELSE y[i - Len(x)]
  BY <1>2, <1>4, ConcatProperties
<1>6. \A i \in 1 .. 1 + Len(y) : Len((x \o y)[i]) < MaxLine
  BY <1>3, <1>4, <1>5 DEF x
<1>7. Len(y) \in Nat
  BY <1>2
<1>8. Len(line) < MaxLine
  <2>1. 1 \in 1 .. 1 + Len(y) /\ (x \o y)[1] = line
    BY <1>4, <1>5, <1>7
  <2> QED BY <2>1, <1>6
<1>9. ASSUME NEW i \in 1 .. Len(y) PROVE Len(y[i]) < MaxLine
  <2>1. i + 1 \in 1 .. 1 + Len(y) /\ (x \o y)[i + 1] = y[i]
    BY <1>4, <1>5, <1>7
  <2> QED BY <2>1, <1>6
<1> QED BY <1>8, <1>9 DEF Short, y, line

\* While nothing was spoilt the lines of the text are short, and no line before
\* that was too long.
LInv == /\ Spoilt \/ (Complete(text) /\ Short(text))
        /\ overrun => dropped

LEMMA AddKeepsShort ==
    ASSUME WholeLines, ShortLines, LInv, ~ Spoilt',
           (\E t \in CommandTexts : Buf!AddCommands(t)) \/ (\E t \in Bindings : Buf!AddBinding(t))
    PROVE  Complete(text)' /\ Short(text)'
<1>1. CASE \E t \in CommandTexts : Buf!AddCommands(t)
  <2>1. PICK t \in CommandTexts : Buf!AddCommands(t)
    BY <1>1
  <2>2. ~ Spoilt /\ text' = text \o t
    BY <2>1, Zenon DEF Buf!AddCommands, Buf!AddText, Spoilt
  <2>3. Complete(text) /\ Short(text) /\ Complete(t) /\ Short(t)
    BY <2>2, Zenon DEF LInv, WholeLines, ShortLines
  <2> QED BY <2>2, <2>3, LinesBehind, ShortJoin
<1>2. CASE \E t \in Bindings : Buf!AddBinding(t)
  <2>1. PICK t \in Bindings : Buf!AddBinding(t)
    BY <1>2
  <2> DEFINE c == "\n"
  <2>2. ~ Spoilt /\ text' = (text \o t) \o <<c>>
    BY <2>1, Zenon DEF Buf!AddBinding, Buf!AddText, Spoilt
  <2>3. /\ Complete(text) /\ Short(text) /\ t \in Seq(Chars)
        /\ Short(t \o <<c>>) /\ c \in Chars /\ IsNewline(c)
    BY <2>2, Zenon DEF LInv, WholeLines, ShortLines, IsNewline
  <2> HIDE DEF c
  <2>4. text \in Seq(Chars)
    BY <2>3, Zenon DEF Complete
  <2>5. (text \o t) \o <<c>> = text \o (t \o <<c>>) /\ Complete(t \o <<c>>)
    BY <2>3, <2>4, EndedByNewline
  <2> QED BY <2>2, <2>3, <2>5, LinesBehind, ShortJoin
<1> QED BY <1>1, <1>2

LEMMA ExecuteKeepsShort ==
    ASSUME WholeLines, ShortLines, LInv, ~ Spoilt', Buf!ExecuteLine \/ Buf!LineFails
    PROVE  Complete(text)' /\ Short(text)'
<1> DEFINE line == Buf!Line(text)
           r == Buf!Rest(text)
           Ok(t) == Complete(t) /\ Short(t)
<1>1. text # <<>> /\ ~ Spoilt
  <2>1. ~ dropped' /\ ~ fatal' /\ ~ overrun'
    BY Zenon DEF Spoilt
  <2>2. CASE Buf!ExecuteLine
    <3>1. text # <<>> /\ ~ fatal /\ ~ overrun
      BY <2>2, Zenon DEF Buf!ExecuteLine, Buf!Sane
    <3>2. ~ dropped
      BY <2>1, <2>2, Zenon DEF Buf!ExecuteLine
    <3> QED BY <3>1, <3>2, Zenon DEF Spoilt
  <2>3. CASE Buf!LineFails
    <3>1. text # <<>> /\ ~ fatal /\ ~ overrun
      BY <2>3, Zenon DEF Buf!LineFails, Buf!Sane
    <3>2. ~ dropped
      BY <2>1, <2>3, Zenon DEF Buf!LineFails
    <3> QED BY <3>1, <3>2, Zenon DEF Spoilt
  <2> QED BY <2>2, <2>3
<1>2. Complete(text) /\ Short(text)
  BY <1>1, Zenon DEF LInv
<1>3. line \in Seq(Chars) /\ Ok(r)
  BY <1>1, <1>2, CutLine, ShortCut
<1>4. Ok(Inserted(line)) /\ Ok(Added(line))
  BY <1>3, Zenon DEF WholeLines, ShortLines
<1>5. \A t : Ok(t) => <<>> \o t = t /\ t \o <<>> = t
  BY ConcatEmptySeq, Zenon DEF Complete
<1>6. \A p, q : Ok(p) /\ Ok(q) => Ok(p \o q)
  BY LinesBehind, ShortJoin
<1>7. CASE Buf!ExecuteLine
  <2> DEFINE a == Inserted(line)
             b == Added(line)
             i == Buf!InsertText(r, a)
  <2>1. /\ ~ Buf!Overflows(<<>>, a) /\ (b = <<>> \/ ~ Buf!Overflows(i, b))
        /\ text' = Buf!AddText(i, b)
    BY <1>7, Zenon DEF Buf!ExecuteLine, Spoilt
  <2>2. i = a \o r
    <3>1. i = (<<>> \o a) \o r
      BY <2>1, Zenon DEF Buf!InsertText, Buf!AddText
    <3>2. <<>> \o a = a
      BY <1>4, <1>5
    <3> QED BY <3>1, <3>2
  <2>3. text' = i \/ text' = i \o b
    BY <2>1, Zenon DEF Buf!AddText
  <2> HIDE DEF Ok, i, a, b, r
  <2>4. Ok(i) /\ Ok(i \o b)
    BY <2>2, <1>3, <1>4, <1>6 DEF a, b
  <2> QED BY <2>3, <2>4 DEF Ok
<1>8. CASE Buf!LineFails
  <2>1. PICK b \in {<<>>, Added(line)} : text' = Buf!AddText(r, b)
    BY <1>8, Zenon DEF Buf!LineFails
  <2>2. text' \in {r, r \o b}
    BY <2>1, Zenon DEF Buf!AddText
  <2>3. r \o <<>> = r
    BY <1>3, <1>5
  <2> HIDE DEF Ok, r
  <2>4. Ok(r \o b)
    BY <2>1, <2>3, <1>3, <1>4, <1>6
  <2> QED BY <2>2, <2>4, <1>3 DEF Ok
<1> QED BY <1>7, <1>8

LEMMA LInvStep ==
    ASSUME WholeLines, ShortLines, LInv, [Buf!Next]_Buf!vars
    PROVE  LInv'
<1>1. CASE Buf!LineOverruns
  <2>1. text # <<>> /\ ~ fatal /\ ~ overrun /\ ~ (Len(Buf!Line(text)) < MaxLine)
    BY <1>1, Zenon DEF Buf!LineOverruns, Buf!Sane, Buf!Fits
  <2>2. dropped
    <3>1. ASSUME ~ dropped PROVE FALSE
      <4>1. Complete(text) /\ Short(text)
        BY <3>1, <2>1, Zenon DEF LInv, Spoilt
      <4> QED BY <4>1, <2>1, ShortCut
    <3> QED BY <3>1
  <2>3. overrun' = TRUE /\ dropped' = dropped
    BY <1>1, Zenon DEF Buf!LineOverruns
  <2> QED BY <2>2, <2>3, Zenon DEF LInv, Spoilt
<1>2. CASE ~ Buf!LineOverruns
  <2>1. overrun' = overrun /\ (dropped => dropped')
    <3>1. CASE \E t \in CommandTexts : Buf!AddCommands(t)
      BY <3>1, Zenon DEF Buf!AddCommands
    <3>2. CASE \E t \in Bindings : Buf!AddBinding(t)
      BY <3>2, Zenon DEF Buf!AddBinding
    <3>3. CASE Buf!BeginExecute \/ Buf!EndExecute \/ UNCHANGED Buf!vars
      <4>1. overrun' = overrun /\ dropped' = dropped
        BY <3>3, Zenon DEF Buf!BeginExecute, Buf!EndExecute, Buf!vars
      <4> QED BY <4>1
    <3>4. CASE Buf!ExecuteLine
      BY <3>4, Zenon DEF Buf!ExecuteLine
    <3>5. CASE Buf!LineFails
      BY <3>5, Zenon DEF Buf!LineFails
    <3> QED BY <1>2, <3>1, <3>2, <3>3, <3>4, <3>5, Zenon DEF Buf!Next, Buf!Execute
  <2>2. ASSUME ~ Spoilt' PROVE Complete(text)' /\ Short(text)'
    <3>1. CASE \/ \E t \in CommandTexts : Buf!AddCommands(t)
              \/ \E t \in Bindings : Buf!AddBinding(t)
      BY <2>2, <3>1, AddKeepsShort
    <3>2. CASE Buf!ExecuteLine \/ Buf!LineFails
      BY <2>2, <3>2, ExecuteKeepsShort
    <3>3. CASE Buf!BeginExecute \/ Buf!EndExecute \/ UNCHANGED Buf!vars
      <4>1. text' = text /\ dropped' = dropped /\ fatal' = fatal
        BY <3>3, Zenon DEF Buf!BeginExecute, Buf!EndExecute, Buf!vars
      <4>2. ~ Spoilt
        BY <4>1, <2>1, <2>2, Zenon DEF Spoilt
      <4>3. Complete(text) /\ Short(text)
        BY <4>2, Zenon DEF LInv
      <4> QED BY <4>1, <4>3
    <3> QED BY <1>2, <3>1, <3>2, <3>3, Zenon DEF Buf!Next, Buf!Execute
  <2> QED BY <2>1, <2>2, Zenon DEF LInv
<1> QED BY <1>1, <1>2

(* The array of Cbuf_Execute is overrun only by a line that was too long when  *)
(* it was put in, or behind an overflow that was reported: no sequence of      *)
(* insertions, waits and failing commands makes a long line out of short ones. *)
THEOREM OverrunNeedsLongLine == WholeLines /\ ShortLines => (Buf!Spec => [](overrun => dropped))
<1> SUFFICES ASSUME WholeLines, ShortLines PROVE Buf!Spec => [](overrun => dropped)
  OBVIOUS
<1>1. Buf!Init => LInv
  <2> SUFFICES ASSUME Buf!Init PROVE LInv
    OBVIOUS
  <2>1. text = <<>> /\ overrun = FALSE
    BY Zenon DEF Buf!Init
  <2>2. Complete(text)
    <3>1. text \in Seq(Chars)
      BY <2>1
    <3> QED BY <3>1, <2>1, Zenon DEF Complete
  <2>3. Short(text)
    <3>1. Len(Buf!Lines(text)) = 0
      BY <2>1, LinesEmpty
    <3> QED BY <3>1 DEF Short
  <2> QED BY <2>1, <2>2, <2>3, Zenon DEF LInv
<1>2. LInv /\ [Buf!Next]_Buf!vars => LInv'
  BY LInvStep
<1>3. LInv => (overrun => dropped)
  BY Zenon DEF LInv
<1> QED BY <1>1, <1>2, <1>3, PTL DEF Buf!Spec

================================================================================
