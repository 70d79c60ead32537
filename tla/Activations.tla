------------------------------ MODULE Activations ------------------------------
(***************************************************************************)
(* What the functions of a game program rely on: every call has local      *)
(* variables of its own, the first of which start with the arguments, and  *)
(* nothing but the call itself changes them until it returns, or an error  *)
(* throws all calls away.                                                  *)
(***************************************************************************)
EXTENDS Integers, Sequences

CONSTANTS
    Functions,
    Start, Locals, NumParms,   \* the locals of a function, see Programs
    Values

VARIABLES
    calls,     \* the calls in progress, the innermost last
    parms      \* the arguments set for the next call

Own(f) == Start[f] .. Start[f] + Locals[f] - 1

Init == calls = <<>> /\ parms \in [DOMAIN parms -> Values]

SetParm(i, v) ==
    /\ parms' = [parms EXCEPT ![i] = v]
    /\ UNCHANGED calls

\* Locals that are no parameters may hold anything.
Enter(f) ==
    /\ \E store \in [Own(f) -> Values] :
          /\ \A i \in 1 .. NumParms[f] : store[Start[f] + i - 1] = parms[i]
          /\ calls' = Append(calls, [f |-> f, store |-> store])
    /\ UNCHANGED parms

Assign(c, v) ==
    /\ calls # <<>>
    /\ LET n == Len(calls)
       IN  /\ c \in Own(calls[n].f)
           /\ calls' = [calls EXCEPT ![n].store[c] = v]
    /\ UNCHANGED parms

Return ==
    /\ calls # <<>>
    /\ calls' = SubSeq(calls, 1, Len(calls) - 1)
    /\ UNCHANGED parms

Abort == calls' = <<>> /\ UNCHANGED parms

Next ==
    \/ \E i \in DOMAIN parms, v \in Values : SetParm(i, v)
    \/ \E f \in Functions : Enter(f)
    \/ \E f \in Functions : \E c \in Own(f), v \in Values : Assign(c, v)
    \/ Return \/ Abort

Spec == Init /\ [][Next]_<<calls, parms>>
=============================================================================
