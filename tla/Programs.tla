-------------------------------- MODULE Programs --------------------------------
(***************************************************************************)
(* The interpreter of game programs, pr_exec.c: PR_ExecuteProgram with     *)
(* PR_EnterFunction and PR_LeaveFunction, the stacks they keep, and what   *)
(* PR_RunError and Host_Error leave of them.                               *)
(*                                                                         *)
(* The locals of a function have fixed places among the globals.  A call   *)
(* saves what is in those places on the local stack and the return puts it *)
(* back, so that functions may call themselves and share places.           *)
(*                                                                         *)
(* A statement is an assignment to a local or to an argument of the next   *)
(* call, a call, a return, a builtin, which may run another program        *)
(* (walkmove touches triggers) or raise Host_Error, or a statement that    *)
(* raises PR_RunError.  Where in a function the program is is left out, so *)
(* any of them may come next.                                              *)
(***************************************************************************)
EXTENDS Integers, Sequences

CONSTANTS
    Functions,        \* the functions of the program
    Start, Locals,    \* parm_start and locals of each
    NumParms,         \* numparms of each; a parameter takes one place
    Values,           \* what a place may hold
    MaxStackDepth,    \* MAX_STACK_DEPTH
    LocalstackSize,   \* LOCALSTACK_SIZE
    Runaway,          \* the 100000 statements of a program
    ClientDisconnect, \* the function that Host_ShutdownServer runs
    NULL

Frame(f) == Start[f] .. Start[f] + Locals[f] - 1
Places == UNION {Frame(f) : f \in Functions}
ParmPlaces(f) == Start[f] .. Start[f] + NumParms[f] - 1
MaxParms == CHOOSE n \in {NumParms[f] : f \in Functions} :
                \A f \in Functions : NumParms[f] <= n

ASSUME ProgramsAssumption ==
    /\ Start \in [Functions -> Nat]
    /\ Locals \in [Functions -> Nat] /\ NumParms \in [Functions -> Nat]
    /\ \A f \in Functions : NumParms[f] <= Locals[f]
    /\ MaxParms \in Nat /\ \A f \in Functions : NumParms[f] <= MaxParms
    /\ MaxStackDepth \in Nat \ {0} /\ LocalstackSize \in Nat /\ Runaway \in Nat \ {0}
    /\ ClientDisconnect \in Functions /\ NULL \notin Functions

VARIABLES
    globals,       \* pr_globals: the places of the functions' locals,
    parms,         \* and those of the next call's arguments (OFS_PARM0 ...)
    pr_xfunction,  \* the function that is running, or the last one that was
    pr_stack,      \* the functions saved by PR_EnterFunction; pr_depth is its length
    localstack,    \* localstack_used is its length
    programs,      \* the PR_ExecuteProgram calls on the C stack, the innermost last:
                   \*   exitdepth, and left of runaway
    pc,            \* who runs, see Phases
    base           \* history: localstack_used before each call of pr_stack

stacks == <<pr_stack, localstack, base>>
vars == <<globals, parms, pr_xfunction, stacks, programs, pc>>

\* host: the engine; program: the innermost program; shutdown: Host_Error is about
\* to run ClientDisconnect; failing: it does; exit: after Sys_Error
Phases == {"host", "program", "shutdown", "failing", "exit"}

TypeOK ==
    /\ globals \in [Places -> Values]
    /\ parms \in [1 .. MaxParms -> Values]
    /\ pr_xfunction \in Functions \cup {NULL}
    /\ pr_stack \in Seq(Functions \cup {NULL}) /\ Len(pr_stack) < MaxStackDepth
    /\ localstack \in Seq(Values) /\ Len(localstack) <= LocalstackSize
    /\ base \in Seq(Nat) /\ Len(base) = Len(pr_stack)
    /\ programs \in Seq([exitdepth : 0 .. MaxStackDepth, left : 1 .. Runaway])
    /\ pc \in Phases

Init ==
    /\ globals \in [Places -> Values] /\ parms \in [1 .. MaxParms -> Values]
    /\ pr_xfunction = NULL
    /\ pr_stack = <<>> /\ localstack = <<>> /\ base = <<>>
    /\ programs = <<>> /\ pc = "host"

Running == pc \in {"program", "failing"}

-----------------------------------------------------------------------------
(* PR_EnterFunction and PR_LeaveFunction.                                    *)

\* A slip would let pr_depth reach MAX_STACK_DEPTH.
FitsBarely(f) ==
    /\ Len(pr_stack) < MaxStackDepth
    /\ Len(localstack) + Locals[f] <= LocalstackSize

Fits(f) ==
    /\ Len(pr_stack) + 1 < MaxStackDepth
    /\ Len(localstack) + Locals[f] <= LocalstackSize

\* "save off any locals that the new function steps on"; a slip would save the
\* parameters only.
SavedParms(f) ==
    [i \in 1 .. Locals[f] |-> IF i <= NumParms[f] THEN globals[Start[f] + i - 1] ELSE globals[Start[f]]]

Saved(f) == [i \in 1 .. Locals[f] |-> globals[Start[f] + i - 1]]

EnterFunction(f) ==
    /\ pr_stack' = Append(pr_stack, pr_xfunction)
    /\ base' = Append(base, Len(localstack))
    /\ localstack' = localstack \o Saved(f)
    /\ globals' = [p \in Places |-> IF p \in ParmPlaces(f) THEN parms[p - Start[f] + 1]
                                   ELSE globals[p]]
    /\ pr_xfunction' = f
    /\ UNCHANGED parms

\* localstack_used after a return.
UsedAfter == Len(localstack) - Locals[pr_xfunction]

\* Neither of the underflows that the code looks for can happen: TypeOK and
\* ReturnsBalanced say so.
LeaveFunction ==
    /\ globals' = [p \in Places |->
                      IF p \in Frame(pr_xfunction)
                      THEN localstack[UsedAfter + p - Start[pr_xfunction] + 1]
                      ELSE globals[p]]
    /\ localstack' = SubSeq(localstack, 1, UsedAfter)
    /\ pr_xfunction' = pr_stack[Len(pr_stack)]
    /\ pr_stack' = SubSeq(pr_stack, 1, Len(pr_stack) - 1)
    /\ base' = SubSeq(base, 1, Len(base) - 1)
    /\ UNCHANGED parms

-----------------------------------------------------------------------------
(* Errors.                                                                   *)

\* Host_Error runs ClientDisconnect, if there is a server with a client in the
\* game, and longjmps out of all programs; if it is in there already: Sys_Error.
HostError ==
    /\ programs' = <<>>
    /\ pc' \in IF pc \in {"shutdown", "failing"} THEN {"exit"} ELSE {"shutdown", "host"}
    /\ UNCHANGED <<globals, parms, pr_xfunction>>

\* PR_RunError.  The entry of pr_stack that PR_StackTrace writes is one above
\* those in use; in a "stack overflow" that is one behind the array, where it may
\* hit the local stack, of which nothing is read any more.
RunError ==
    /\ pr_stack' = <<>> /\ base' = <<>>
    /\ UNCHANGED localstack
    /\ HostError

-----------------------------------------------------------------------------
(* PR_ExecuteProgram.                                                        *)

\* The programs that go on are those of outer.
Execute(f, outer) ==
    IF Fits(f)
    THEN /\ EnterFunction(f)
         /\ programs' = Append(outer, [exitdepth |-> Len(pr_stack), left |-> Runaway])
         /\ pc' = CASE pc = "host" -> "program" [] pc = "shutdown" -> "failing" [] OTHER -> pc
    ELSE RunError

HostCall(f) == pc = "host" /\ Execute(f, <<>>)

Shutdown == pc = "shutdown" /\ Execute(ClientDisconnect, <<>>)

\* A statement; a slip would not count it.
UncountedStep == programs

CountedStep == [programs EXCEPT ![Len(programs)].left = @ - 1]

Statement == Running /\ programs[Len(programs)].left > 1

RunawayLoop == Running /\ programs[Len(programs)].left = 1 /\ RunError

Assign(p, v) ==
    /\ Statement /\ p \in Frame(pr_xfunction)
    /\ globals' = [globals EXCEPT ![p] = v]
    /\ programs' = CountedStep
    /\ UNCHANGED <<parms, pr_xfunction, stacks, pc>>

SetParm(i, v) ==
    /\ Statement
    /\ parms' = [parms EXCEPT ![i] = v]
    /\ programs' = CountedStep
    /\ UNCHANGED <<globals, pr_xfunction, stacks, pc>>

Call(f) ==
    /\ Statement
    /\ IF Fits(f) THEN EnterFunction(f) /\ programs' = CountedStep /\ UNCHANGED pc
       ELSE RunError

\* A builtin that runs a program, one that raises Host_Error, and a statement,
\* builtin or not, that raises PR_RunError.
BuiltinRuns(f) == Statement /\ Execute(f, CountedStep)

BuiltinFails == Statement /\ HostError /\ UNCHANGED stacks

StatementFails == Statement /\ RunError

\* OP_DONE, OP_RETURN; a slip would end the program with any return.
EndsAlways == TRUE

EndsProgram == Len(pr_stack) - 1 = programs[Len(programs)].exitdepth

Return ==
    /\ Statement
    /\ LeaveFunction
    /\ IF EndsProgram
       THEN /\ programs' = SubSeq(programs, 1, Len(programs) - 1)
            /\ pc' = IF Len(programs) = 1 THEN "host" ELSE pc
       ELSE programs' = CountedStep /\ UNCHANGED pc

\* The next level is loaded: PR_LoadProgs fills the globals anew.
LoadProgs ==
    /\ pc = "host"
    /\ globals' \in {[p \in Places |-> v] : v \in Values}
    /\ UNCHANGED <<parms, pr_xfunction, stacks, programs, pc>>

Step ==
    \/ Shutdown \/ RunawayLoop
    \/ \E p \in Places, v \in Values : Assign(p, v)
    \/ \E i \in 1 .. MaxParms, v \in Values : SetParm(i, v)
    \/ \E f \in Functions : Call(f) \/ BuiltinRuns(f)
    \/ BuiltinFails \/ StatementFails \/ Return

Next == LoadProgs \/ (\E f \in Functions : HostCall(f)) \/ Step

\* The interpreter goes on until it returns; nothing else has the processor.
Spec == Init /\ [][Next]_vars /\ WF_vars(Step)

-----------------------------------------------------------------------------
(* Properties.                                                               *)

\* Calls below this depth were thrown away by an error.
Floor == IF programs = <<>> THEN Len(pr_stack) ELSE programs[1].exitdepth

\* The function that entry n of pr_stack was made for.
Callee(n) == IF n = Len(pr_stack) THEN pr_xfunction ELSE pr_stack[n + 1]

\* The calls above the n-th that have saved the place p.
Savers(n, p) == {m \in n + 1 .. Len(pr_stack) : p \in Frame(Callee(m))}

Lowest(S) == CHOOSE m \in S : \A k \in S : m <= k

\* What the n-th call finds in p when it is back: the first that saved it did so for it.
Local(n, p) ==
    IF Savers(n, p) = {} THEN globals[p]
    ELSE LET m == Lowest(Savers(n, p))
         IN  localstack[base[m] + p - Start[Callee(m)] + 1]

Calls == [i \in 1 .. Len(pr_stack) - Floor |->
             LET n == Floor + i
             IN  [f |-> Callee(n), store |-> [p \in Frame(Callee(n)) |-> Local(n, p)]]]

A == INSTANCE Activations WITH calls <- Calls

\* PR_EnterFunction and PR_LeaveFunction give every call locals of its own: those
\* of a caller are what they were when a function it called, or a program that a
\* builtin ran meanwhile, returns, also if both are the same function or share
\* places; and a function starts with the arguments it was given.
ImplementsActivations == A!Spec

\* A program that ends leaves pr_depth and localstack_used as PR_ExecuteProgram
\* found them, however deep its calls and those of the programs inside it went.
ReturnsBalanced ==
    [][ (programs # <<>> /\ Len(programs') < Len(programs) /\ Return)
        => LET e == programs[Len(programs)].exitdepth
           IN  Len(pr_stack') = e /\ Len(localstack') = base[e + 1] ]_vars

\* PR_ExecuteProgram comes to an end, whatever the program does: loops run into
\* the runaway counter and recursion into the stacks.
ProgramsEnd == pc # "host" ~> pc \in {"host", "exit"}
=============================================================================
