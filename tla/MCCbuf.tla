--------------------------------- MODULE MCCbuf ---------------------------------
(* Cbuf with a buffer of fourteen bytes and lines of four at most.  The line    *)
(* "a" is an alias whose text runs a command, waits and calls the alias again;  *)
(* "e" execs a file with a quoted semicolon; "g" is a command that adds another *)
(* one (changelevel from the game code) and may fail.  One binding is too long  *)
(* for Cbuf_Execute.                                                            *)
EXTENDS Cbuf

MCTexts == {<<"a", "\n">>, <<"e", ";", "w", ";", "g", "\n">>}
MCBindings == {<<"\"", "x">>, <<"x", "x", "x", "x", "x">>}
MCFailing == {<<"g">>}
MCWaitLine == <<"w">>

MCInserted(line) ==
    CASE line = <<"a">> -> <<"x", ";", "w", ";", "a", "\n">>
      [] line = <<"e">> -> <<"\"", "x", ";", "\"", ";", "\n">>
      [] OTHER -> <<>>

MCAdded(line) == IF line = <<"g">> THEN <<"x", "\n">> ELSE <<>>
=================================================================================
