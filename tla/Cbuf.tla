--------------------------------- MODULE Cbuf ---------------------------------
(***************************************************************************)
(* The command buffer of cmd.c: one fixed block of text.  Text is added at *)
(* its end by the console, key bindings and the server, and inserted at    *)
(* its front by aliases and exec; once per frame Cbuf_Execute cuts command *)
(* lines off its front until it is empty or a "wait" was executed.         *)
(*                                                                         *)
(* Text is kept by the character, since line ends, quotes and space are    *)
(* the buffer's whole business; a command name is one character.  An alias *)
(* and an exec'd file are the same here: a command that inserts its text.  *)
(***************************************************************************)
EXTENDS Integers, Sequences, FiniteSets, SequencesExt

CONSTANTS
    MaxSize,        \* cmd_text.maxsize
    MaxLine,        \* the size of Cbuf_Execute's array line
    Texts,          \* what other parts of the program add in one call
    Bindings,       \* key bindings: added without a line end, which follows
    WaitLine,       \* the line that is the command "wait"
    Failing,        \* the lines whose command may raise Host_Error
    Inserted(_),    \* the text a line inserts (alias, exec), or <<>>
    Added(_)        \* the text a line adds at the end, or <<>>

ASSUME CbufAssumption == MaxSize \in Nat /\ MaxLine \in Nat

VARIABLES
    text,       \* cmd_text
    executing,  \* inside Cbuf_Execute
    dropped,    \* history: "Cbuf_AddText: overflow" was printed
    fatal,      \* SZ_GetSpace raised Sys_Error
    overrun     \* history: a line was copied over the end of the array line

vars == <<text, executing, dropped, fatal, overrun>>

(* The program is not followed behind a Sys_Error or a corrupted stack. *)
Sane == ~fatal /\ ~overrun

(* Cbuf_AddText: all of t or nothing. *)
Overflows(s, t) == Len(s) + Len(t) >= MaxSize
AddText(s, t) == IF Overflows(s, t) THEN s ELSE s \o t

(* Cbuf_InsertText: t is added to the emptied buffer, then what was in it is  *)
(* written back without a check of its own.                                   *)
InsertText(s, t) == AddText(<<>>, t) \o s

-----------------------------------------------------------------------------
Quotes(s, i) == Cardinality({j \in 1..i : s[j] = "\""})

(* The places where a line ends: any \n, and a ; outside quotes; a slip would *)
(* let it end inside quotes.                                                  *)
AnyLineEnds(s) == {i \in 1..Len(s) : s[i] \in {"\n", ";"}}
LineEnds(s) ==
    {i \in 1..Len(s) : s[i] = "\n" \/ (s[i] = ";" /\ Quotes(s, i) % 2 = 0)}

(* The first line, without its end, and the text behind that end. *)
Line(s) == IF LineEnds(s) = {} THEN s ELSE SubSeq(s, 1, Min(LineEnds(s)) - 1)
Rest(s) == IF LineEnds(s) = {} THEN <<>> ELSE SubSeq(s, Min(LineEnds(s)) + 1, Len(s))

-----------------------------------------------------------------------------
Init ==
    /\ text = <<>>
    /\ executing = FALSE /\ dropped = FALSE /\ fatal = FALSE /\ overrun = FALSE

(* Console, menu, server or config add complete commands in one call. *)
AddCommands(t) ==
    /\ ~executing /\ Sane
    /\ text' = AddText(text, t)
    /\ dropped' = (dropped \/ Overflows(text, t))
    /\ UNCHANGED <<executing, fatal, overrun>>

(* Key_Event: Cbuf_AddText(kb), then Cbuf_AddText("\n"). *)
AddBinding(t) ==
    LET s == AddText(text, t)
    IN  /\ ~executing /\ Sane
        /\ text' = AddText(s, <<"\n">>)
        /\ dropped' = (dropped \/ Overflows(text, t) \/ Overflows(s, <<"\n">>))
        /\ UNCHANGED <<executing, fatal, overrun>>

BeginExecute ==
    /\ ~executing /\ Sane
    /\ executing' = TRUE
    /\ UNCHANGED <<text, dropped, fatal, overrun>>

(* cmd_wait is set; a slip would go on. *)
NeverWaits(line) == FALSE
Waits(line) == line = WaitLine

(* The line and its NUL have room in char line[1024]; nothing checks it. *)
Fits(line) == Len(line) < MaxLine

(* One turn of Cbuf_Execute's loop: memcpy(line, text, i) before all else. *)
LineOverruns ==
    /\ executing /\ text # <<>> /\ Sane
    /\ ~Fits(Line(text))
    /\ overrun' = TRUE
    /\ UNCHANGED <<text, executing, dropped, fatal>>

ExecuteLine ==
    LET line == Line(text)
        s == InsertText(Rest(text), Inserted(line))
    IN  /\ executing /\ text # <<>> /\ Sane
        /\ Fits(line)
        /\ IF Len(s) > MaxSize
             THEN fatal' = TRUE /\ UNCHANGED <<text, executing, dropped>>
             ELSE /\ text' = AddText(s, Added(line))
                  /\ dropped' = \/ dropped
                                \/ Overflows(<<>>, Inserted(line))
                                \/ Added(line) # <<>> /\ Overflows(s, Added(line))
                  /\ executing' = ~Waits(line)
                  /\ UNCHANGED fatal
        /\ UNCHANGED overrun

(* The command fails: Host_Error's longjmp to Host_Frame leaves the loop with  *)
(* the rest of the text in the buffer, behind it what the game code has added. *)
LineFails ==
    LET line == Line(text)
        r == Rest(text)
    IN  /\ executing /\ text # <<>> /\ Sane
        /\ Fits(line) /\ line \in Failing
        /\ \E t \in {<<>>, Added(line)} :
             /\ text' = AddText(r, t)
             /\ dropped' = (dropped \/ (t # <<>> /\ Overflows(r, t)))
        /\ executing' = FALSE
        /\ UNCHANGED <<fatal, overrun>>

EndExecute ==
    /\ executing /\ text = <<>> /\ Sane
    /\ executing' = FALSE
    /\ UNCHANGED <<text, dropped, fatal, overrun>>

Execute == BeginExecute \/ ExecuteLine \/ LineFails \/ LineOverruns \/ EndExecute

Next ==
    \/ \E t \in Texts : AddCommands(t)
    \/ \E t \in Bindings : AddBinding(t)
    \/ Execute

Spec == Init /\ [][Next]_vars

(* Host_Frame runs Cbuf_Execute in every frame, to its end. *)
FairSpec == Spec /\ WF_vars(Execute)

-----------------------------------------------------------------------------
(* Where the lines of a text end, said without cutting one off after another: *)
(* at each \n, and at a ; behind an even number of quotes since the last \n.  *)
QuotesSinceNewline(s, i) ==
    {j \in 1..i : s[j] = "\"" /\ \A k \in j..i : s[k] # "\n"}

Ends(s) ==
    {i \in 1..Len(s) :
       s[i] = "\n" \/ (s[i] = ";" /\ Cardinality(QuotesSinceNewline(s, i)) % 2 = 0)}

(* The lines of a text, the last one perhaps not ended yet. *)
Lines(s) ==
    LET ends == Ends(s) \cup (IF Len(s) \in Ends(s) \cup {0} THEN {} ELSE {Len(s) + 1})
        nth(i) == IF i = 0 THEN 0
                  ELSE CHOOSE p \in ends : Cardinality({q \in ends : q <= p}) = i
    IN  [i \in 1..Cardinality(ends) |-> SubSeq(s, nth(i - 1) + 1, nth(i) - 1)]

InsertedLines(line) == Lines(Inserted(line))
AddedLines(line) == Lines(Added(line))

Queue == INSTANCE CommandQueue WITH
           Wait <- WaitLine, Fails <- Failing,
           Inserts <- InsertedLines, Adds <- AddedLines,
           queue <- Lines(text), running <- executing,
           spoiled <- dropped \/ fatal \/ overrun

(* No command is split, merged with another one, lost or overtaken, whatever   *)
(* aliases insert and wherever a wait or a Host_Error stops the loop: until an  *)
(* overflow of the buffer is reported, or a line of 1024 characters is copied  *)
(* over the end of the array line (cmd.c:151), which nothing reports.          *)
ImplementsQueue == Queue!Spec

(* Cbuf_Execute returns in every frame when each cycle of aliases has a wait,  *)
(* unless the program is lost to a Sys_Error or to a line that is too long.    *)
FrameEnds == executing ~> ~executing \/ ~Sane

=============================================================================
