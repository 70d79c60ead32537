------------------------------- MODULE Loopback -------------------------------
(***************************************************************************)
(* The loopback network of net_loop.c under the socket pool of net_main.c. *)
(* The local client connects to the server in its own process: each of the *)
(* two qsockets writes straight into the receive buffer of the other.      *)
(*                                                                         *)
(* A message is its type, a payload and the payload's length; the receive  *)
(* buffer is kept by byte offset, since framing, alignment and the room    *)
(* checks are about bytes.  Each NET_ call is one step of its caller, the  *)
(* client (cls.netcon) or the server (svs.clients[].netconnection).        *)
(***************************************************************************)
EXTENDS Integers, Sequences, FiniteSets, SequencesExt

CONSTANTS
    Sockets,      \* the qsockets that NET_Init allocates
    None,         \* the NULL pointer
    MaxClients,   \* svs.maxclients
    MaxMessage,   \* NET_MAXMESSAGE, the size of a receive buffer
    Payloads,     \* message contents
    SizeOf(_)     \* the length of a payload

ASSUME LoopbackAssumption ==
    /\ None \notin Sockets
    /\ MaxClients \in Nat \ {0}
    /\ IsFiniteSet(Sockets) /\ Cardinality(Sockets) > MaxClients
    /\ MaxMessage \in Nat /\ MaxMessage % 4 = 0
    /\ \A p \in Payloads : SizeOf(p) \in 1..MaxMessage

VARIABLES
    free, active,   \* net_freeSockets and net_activeSockets, in list order
    driverdata,     \* per socket: the socket at the other end, or None
    canSend,        \* per socket: its last reliable message has been read
    buf,            \* per socket: receiveMessage, offset -> message
    len,            \* per socket: receiveMessageLength
    pending,        \* localconnectpending
    client, server, \* loop_client, loop_server
    netcon,         \* cls.netcon
    slots,          \* svs.clients[].netconnection
    conns           \* net_activeconnections

poolVars == <<free, active>>
sockVars == <<driverdata, canSend, buf, len>>
loopVars == <<pending, client, server>>
userVars == <<netcon, slots, conns>>
vars == <<poolVars, sockVars, loopVars, userVars>>

Empty == [o \in {} |-> None]

(* IntAlign, with sizeof(int) = 4. *)
IntAlign(n) == ((n + 3) \div 4) * 4

Message == [reliable : BOOLEAN, payload : Payloads]

(* The sockets of S may send. *)
Uncork(S) == canSend' = [s \in Sockets |-> s \in S \/ canSend[s]]

(* The socket arrays with those of S reset, as NET_NewQSocket, Loop_Connect  *)
(* and Loop_CheckNewConnections do.                                          *)
Reset(S) ==
    /\ buf' = [s \in Sockets |-> IF s \in S THEN Empty ELSE buf[s]]
    /\ len' = [s \in Sockets |-> IF s \in S THEN 0 ELSE len[s]]
    /\ Uncork(S)

-----------------------------------------------------------------------------
Init ==
    /\ free = SetToSeq(Sockets) /\ active = <<>>
    /\ driverdata = [s \in Sockets |-> None]
    /\ canSend = [s \in Sockets |-> FALSE]
    /\ buf = [s \in Sockets |-> Empty]
    /\ len = [s \in Sockets |-> 0]
    /\ pending = FALSE
    /\ client = None /\ server = None
    /\ netcon = None /\ conns = 0
    /\ slots = [i \in 1..MaxClients |-> None]

(* NET_NewQSocket's conditions for handing out n sockets one after another. *)
Available(n) == Len(free) >= n /\ (n > 0 => conns < MaxClients)

TakeFromPool(n) ==
    /\ free' = SubSeq(free, n + 1, Len(free))
    /\ active' = Reverse(SubSeq(free, 1, n)) \o active

(* Loop_Connect gets free sockets for the ends it lacks.  The branch without  *)
(* one for the server end has no action: see BothEndsOrNone.                  *)
Connect ==
    LET n == IF client = None THEN 1 ELSE 0
        k == n + (IF server = None THEN 1 ELSE 0)
        c == IF client = None THEN free[1] ELSE client
        s == IF server = None THEN free[n + 1] ELSE server
    IN  /\ netcon = None
        /\ Available(k)
        /\ TakeFromPool(k)
        /\ Reset({c, s})
        /\ driverdata' = [driverdata EXCEPT ![c] = s, ![s] = c]
        /\ client' = c /\ server' = s
        /\ pending' = TRUE
        /\ netcon' = c
        /\ UNCHANGED <<slots, conns>>

(* No socket for the client end: only the pending flag stays set. *)
ConnectNoClient ==
    /\ netcon = None
    /\ client = None /\ ~Available(1)
    /\ pending' = TRUE
    /\ UNCHANGED <<poolVars, sockVars, client, server, userVars>>

(* NET_CheckNewConnections as SV_CheckForNewClients calls it: the connection *)
(* goes to the first client slot that is free.  The caller's duty: both ends *)
(* exist, and a slot is free.                                                *)
FreeSlots == {i \in 1..MaxClients : slots[i] = None}

CheckNewConnections ==
    /\ pending
    /\ client # None /\ server # None /\ FreeSlots # {}
    /\ pending' = FALSE
    /\ Reset({client, server})
    /\ slots' = [slots EXCEPT ![Min(FreeSlots)] = server]
    /\ conns' = conns + 1
    /\ UNCHANGED <<poolVars, driverdata, client, server, netcon>>

-----------------------------------------------------------------------------
(* The message goes behind what the other end has not read yet. *)
Put(s, m) ==
    LET to == driverdata[s]
    IN  /\ buf' = [buf EXCEPT ![to] = [o \in DOMAIN @ \cup {len[to]} |->
                                         IF o = len[to] THEN m ELSE @[o]]]
        /\ len' = [len EXCEPT ![to] = IntAlign(@ + SizeOf(m.payload) + 4)]

Held(s) == s \in ToSet(active)

(* Room for n more bytes at the other end; a slip would not count them. *)
SomeRoom(s, n) == len[driverdata[s]] < MaxMessage
RoomFor(s, n) == len[driverdata[s]] + n <= MaxMessage

(* Loop_SendMessage; it does not look at canSend.  Beyond the room check is  *)
(* Sys_Error.                                                                *)
SendMessage(s, p) ==
    /\ Held(s)
    /\ driverdata[s] # None
    /\ RoomFor(s, SizeOf(p) + 4)
    /\ Put(s, [reliable |-> TRUE, payload |-> p])
    /\ canSend' = [canSend EXCEPT ![s] = FALSE]
    /\ UNCHANGED <<poolVars, driverdata, loopVars, userVars>>

(* Loop_SendUnreliableMessage: the room check counts a header of three bytes. *)
SendUnreliableMessage(s, p) ==
    /\ Held(s)
    /\ driverdata[s] # None
    /\ RoomFor(s, SizeOf(p) + 3)
    /\ Put(s, [reliable |-> FALSE, payload |-> p])
    /\ UNCHANGED <<poolVars, driverdata, canSend, loopVars, userVars>>

(* The bytes that a message occupies. *)
PaddedSize(m) == IntAlign(SizeOf(m.payload) + 4)

(* A reliable message read lets its sender go on; a slip would forget that. *)
AcknowledgeNot(s, m) == UNCHANGED canSend
Acknowledge(s, m) ==
    canSend' = IF driverdata[s] # None /\ m.reliable
                 THEN [canSend EXCEPT ![driverdata[s]] = TRUE]
                 ELSE canSend

(* Loop_GetMessage: the message in front is taken out, the rest moved down.   *)
GetMessage(s) ==
    LET m == buf[s][0]
        n == PaddedSize(m)
    IN  /\ Held(s)
        /\ len[s] # 0
        /\ len' = [len EXCEPT ![s] = @ - n]
        /\ buf' = [buf EXCEPT ![s] = [o \in {x - n : x \in DOMAIN @ \ {0}} |-> @[o + n]]]
        /\ Acknowledge(s, m)
        /\ UNCHANGED <<poolVars, driverdata, loopVars, userVars>>

(* The parts of NET_Close, each under a slip: the other end is not told, one   *)
(* of the driver's pointers or both are cleared.                               *)
DetachNobody(s) == UNCHANGED driverdata
Detach(s) ==
    driverdata' = IF driverdata[s] # None
                    THEN [driverdata EXCEPT ![driverdata[s]] = None]
                    ELSE driverdata

ForgetBoth(s) == client' = None /\ server' = None
ForgetClientOnly(s) == client' = (IF s = client THEN None ELSE client) /\ UNCHANGED server
Forget(s) ==
    IF s = client
      THEN client' = None /\ UNCHANGED server
      ELSE server' = None /\ UNCHANGED client

(* The list without its first entry s. *)
Unlinked(q, s) == RemoveAt(q, CHOOSE i \in 1..Len(q) : q[i] = s)

FreeQSocket(s) == active' = Unlinked(active, s) /\ free' = <<s>> \o free

(* NET_Close of a socket in use: Loop_Close, then NET_FreeQSocket. *)
Close(s) ==
    /\ Held(s)
    /\ Detach(s) /\ Reset({s}) /\ Forget(s)
    /\ FreeQSocket(s)
    /\ UNCHANGED pending

(* CL_Disconnect. *)
ClientClose ==
    /\ netcon # None
    /\ Close(netcon)
    /\ netcon' = None
    /\ UNCHANGED <<slots, conns>>

(* SV_DropClient of slot i; NET_Close ignores a socket already closed. *)
DropClient(i) ==
    /\ slots[i] # None
    /\ IF Held(slots[i])
         THEN Close(slots[i])
         ELSE UNCHANGED <<poolVars, sockVars, loopVars>>
    /\ slots' = [slots EXCEPT ![i] = None]
    /\ conns' = conns - 1
    /\ UNCHANGED netcon

-----------------------------------------------------------------------------
(* The sockets that the client and the server hold. *)
InUse == ({netcon} \cup Range(slots)) \ {None}

Read == \E s \in InUse : GetMessage(s)

Next ==
    \/ Connect \/ ConnectNoClient
    \/ CheckNewConnections
    \/ \E s \in InUse, p \in Payloads : SendMessage(s, p) \/ SendUnreliableMessage(s, p)
    \/ Read
    \/ ClientClose
    \/ \E i \in 1..MaxClients : DropClient(i)

Spec == Init /\ [][Next]_vars

(* In every frame the server looks for a new connection and each end reads    *)
(* its socket (SV_CheckForNewClients, SV_RunClients, CL_ReadFromServer).      *)
FairSpec ==
    /\ Spec
    /\ WF_vars(CheckNewConnections)
    /\ \A s \in Sockets : WF_vars(s \in InUse /\ GetMessage(s))

-----------------------------------------------------------------------------
TypeOK ==
    /\ ToSet(free) \cup ToSet(active) \subseteq Sockets
    /\ driverdata \in [Sockets -> Sockets \cup {None}]
    /\ canSend \in [Sockets -> BOOLEAN]
    /\ len \in [Sockets -> Nat]
    /\ \A s \in Sockets : DOMAIN buf[s] \subseteq Nat /\ Range(buf[s]) \subseteq Message
    /\ pending \in BOOLEAN
    /\ {client, server, netcon} \cup Range(slots) \subseteq Sockets \cup {None}
    /\ conns \in 0..MaxClients

(* The byte behind what the message at offset o of socket s occupies. *)
MessageEnd(s, o) == o + 4 + SizeOf(buf[s][o].payload)

(* What Loop_SendMessage puts into a buffer lies inside it.  An unreliable     *)
(* message may end behind it, since its room check forgets the byte of         *)
(* alignment, but by that byte only, and nothing follows it then: the byte     *)
(* lands in the qsocket's next field, addr, which this driver never uses.      *)
MessagesInside ==
    \A s \in Sockets : \A o \in DOMAIN buf[s] :
        \/ MessageEnd(s, o) <= MaxMessage
        \/ /\ ~buf[s][o].reliable /\ MessageEnd(s, o) = MaxMessage + 1
           /\ \A x \in DOMAIN buf[s] : x <= o

(* Every qsocket is on exactly one of the two lists, once, and what cls.netcon *)
(* and the driver designate is in use: no end works on a socket that the pool  *)
(* could hand out again.  The ends of a connection designate each other, so    *)
(* that closing either one detaches the other and no message is put into a     *)
(* free socket's buffer.                                                       *)
PoolSound ==
    /\ Len(free) + Len(active) = Cardinality(Sockets)
    /\ ToSet(free) \cup ToSet(active) = Sockets
    /\ {netcon, client, server} \ {None} \subseteq ToSet(active)
    /\ conns = Cardinality({i \in 1..MaxClients : slots[i] # None})
    /\ \A s \in ToSet(active) :
         driverdata[s] # None =>
           Held(driverdata[s]) /\ driverdata[driverdata[s]] = s

(* Loop_Connect is never left with a client end and no socket for the server   *)
(* end: the pool, larger than maxclients, covers both or neither.              *)
BothEndsOrNone ==
    netcon = None /\ server = None =>
      LET n == IF client = None THEN 1 ELSE 0
      IN  Available(n) => Available(n + 1)

(* An end that waits for its reliable message to be read can send again, or    *)
(* the connection is gone, as long as both ends keep reading.                  *)
SenderResumes ==
    \A s \in Sockets : Held(s) /\ driverdata[s] # None /\ ~canSend[s]
                         ~> ~Held(s) \/ driverdata[s] = None \/ canSend[s]

-----------------------------------------------------------------------------
(* The messages in a buffer, in the order of their offsets. *)
Rank(D, o) == Cardinality({x \in D : x < o})
Offset(D, i) == CHOOSE o \in D : Rank(D, o) = i - 1
Queue(b) == [i \in 1..Cardinality(DOMAIN b) |-> b[Offset(DOMAIN b, i)]]

Link == [s \in Sockets |-> IF Held(s) THEN driverdata[s] ELSE None]

Wire == INSTANCE Channel WITH
          Ends <- Sockets, NoEnd <- None, Messages <- Message,
          link <- Link, inbox <- [s \in Sockets |-> Queue(buf[s])], fresh <- pending

(* Through framing, alignment and the shifting of the buffer, each end reads   *)
(* what the other one sent, in order, once and unchanged.                      *)
ImplementsChannel == Wire!Spec

=============================================================================
