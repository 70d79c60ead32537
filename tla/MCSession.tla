------------------------------ MODULE MCSession ------------------------------
(* Sessions of up to four loaded levels.  In MCSession.cfg levels change the  *)
(* way the game does it, at an exit that a player reaches; the user starts,    *)
(* ends and joins games.  MCSessionChange.cfg adds the user's changelevel,     *)
(* typed in any frame.                                                         *)
EXTENDS Session

MCLines ==
    {<<<<"map", "ok">>>>, <<<<"map", "bad">>>>, <<<<"map", "error">>>>,
     <<<<"map", "ok">>, <<"connect">>>>, <<<<"disconnect">>>>,
     <<<<"connect">>>>, <<<<"wait">>, <<"map", "ok">>>>}
MCExits == Outcomes

MCLinesChange == {<<<<"map", "ok">>>>, <<<<"changelevel", "ok">>>>}
MCExitsChange == {"ok"}
===============================================================================
