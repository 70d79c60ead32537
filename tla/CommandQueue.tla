----------------------------- MODULE CommandQueue -----------------------------
(***************************************************************************)
(* What the command buffer promises (cmd.h): commands run one at a time in *)
(* the order they were added, the commands that a command inserts run      *)
(* before those that were waiting, and "wait" leaves the rest to the next  *)
(* frame, as a command that fails does.  Nothing is promised once text was *)
(* dropped for lack of space or a line outgrew its array.                  *)
(***************************************************************************)
EXTENDS Naturals, Sequences

CONSTANTS
    Wait,         \* the command "wait"
    Fails,        \* the commands that may fail
    Inserts(_),   \* the commands a command inserts, a sequence
    Adds(_)       \* the commands a command adds, a sequence

VARIABLES queue, running, spoiled

vars == <<queue, running, spoiled>>

Init == queue = <<>> /\ ~running /\ ~spoiled

(* Somebody else adds commands. *)
Add ==
    /\ ~running
    /\ \E n \in 1..Len(queue') : queue = SubSeq(queue', 1, Len(queue') - n)
    /\ UNCHANGED running

Begin == ~running /\ running' /\ UNCHANGED queue

Run ==
    /\ running /\ queue # <<>>
    /\ queue' = Inserts(Head(queue)) \o Tail(queue) \o Adds(Head(queue))
    /\ running' = (Head(queue) # Wait)

(* A failing command has inserted nothing; what it adds may be there already. *)
Fail ==
    /\ running /\ queue # <<>> /\ Head(queue) \in Fails
    /\ queue' \in {Tail(queue), Tail(queue) \o Adds(Head(queue))}
    /\ ~running'

End == running /\ queue = <<>> /\ ~running' /\ UNCHANGED queue

Next == spoiled' \/ (~spoiled /\ ~spoiled' /\ (Add \/ Begin \/ Run \/ Fail \/ End))

Spec == Init /\ [][Next]_vars

=============================================================================
