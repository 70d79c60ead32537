-------------------------------- MODULE Channel --------------------------------
(***************************************************************************)
(* What a connected pair of sockets promises: each end reads the messages  *)
(* the other end sent, each once, unchanged and in the order of sending.   *)
(* Messages are lost only when an end is closed, or when the server side   *)
(* accepts a connection that the client side has already written to.       *)
(***************************************************************************)
EXTENDS Sequences

CONSTANTS Ends,      \* the sockets
          NoEnd,     \* no socket
          Messages

VARIABLES
    link,     \* per end: the end it writes to, or NoEnd
    inbox,    \* per end: the messages it has not read yet
    fresh     \* a connection made and not accepted yet

vars == <<link, inbox, fresh>>

Init ==
    /\ link = [e \in Ends |-> NoEnd]
    /\ inbox = [e \in Ends |-> <<>>]
    /\ fresh = FALSE

Emptied(S) == [e \in Ends |-> IF e \in S THEN <<>> ELSE inbox[e]]

(* A connection attempt: it links a pair, or fails before it has one. *)
Open ==
    /\ fresh' = TRUE
    /\ \/ \E c, s \in Ends :
            /\ c # s
            /\ link' = [link EXCEPT ![c] = s, ![s] = c]
            /\ inbox' = Emptied({c, s})
       \/ \E S \in SUBSET Ends :
            /\ \A e \in S : link[e] = NoEnd
            /\ inbox' = Emptied(S)
            /\ UNCHANGED link

Accept ==
    /\ fresh
    /\ fresh' = FALSE
    /\ \E c, s \in Ends :
         /\ link[c] = s /\ link[s] = c
         /\ inbox' = Emptied({c, s})
    /\ UNCHANGED link

Send(e, m) ==
    /\ link[e] # NoEnd
    /\ inbox' = [inbox EXCEPT ![link[e]] = Append(@, m)]
    /\ UNCHANGED <<link, fresh>>

Receive(e) ==
    /\ inbox[e] # <<>>
    /\ inbox' = [inbox EXCEPT ![e] = Tail(@)]
    /\ UNCHANGED <<link, fresh>>

(* The other end keeps what it has not read and can send no more. *)
Shut(e) ==
    /\ link' = [x \in Ends |-> IF x = e \/ link[x] = e THEN NoEnd ELSE link[x]]
    /\ inbox' = Emptied({e})
    /\ UNCHANGED fresh

Next ==
    \/ Open \/ Accept
    \/ \E e \in Ends : Receive(e) \/ Shut(e) \/ \E m \in Messages : Send(e, m)

Spec == Init /\ [][Next]_vars

=============================================================================
