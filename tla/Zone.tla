-------------------------------- MODULE Zone --------------------------------
(***************************************************************************)
(* The zone allocator of zone.c: a fixed arena cut into memory blocks that *)
(* form a circular doubly linked list through their headers.  The block    *)
(* list is closed by an end cap inside memzone_t itself.  Addresses are    *)
(* byte offsets from mainzone.                                             *)
(*                                                                         *)
(* One call of Z_TagMalloc is a Malloc step, one step for each iteration   *)
(* of its do/while scan, and the step that leaves the scan.  Z_Free is one *)
(* step.  The engine is single threaded, so a call is never interleaved    *)
(* with another one; the scan is broken up so that what it has and has not *)
(* looked at can be stated.                                                *)
(***************************************************************************)
EXTENDS Integers

CONSTANTS
    ZoneSize,     \* size argument of Z_ClearZone
    ZoneHdr,      \* sizeof(memzone_t)
    BlockHdr,     \* sizeof(memblock_t)
    Head,         \* offset of mainzone->blocklist, the end cap
    MinFragment,  \* MINFRAGMENT
    Requests      \* payload sizes that callers pass to Z_Malloc

ASSUME ZoneAssumption ==
    /\ ZoneSize \in Nat /\ ZoneHdr \in Nat /\ BlockHdr \in Nat /\ Head \in Nat
    /\ MinFragment \in Nat
    /\ Head < ZoneHdr                    \* the end cap lies inside memzone_t
    /\ 0 < BlockHdr
    /\ BlockHdr <= MinFragment           \* a fragment can hold its own header
    /\ ZoneHdr + BlockHdr <= ZoneSize
    /\ Requests \subseteq Nat

VARIABLES
    blk,    \* the headers reachable from the list: address -> header
    rover,  \* mainzone->rover
    pc,     \* "idle", "scan" (inside Z_TagMalloc) or "error" (Sys_Error)
    need,   \* Z_TagMalloc's size after header, trash marker and alignment
    base,   \* Z_TagMalloc's base
    cur     \* Z_TagMalloc's local rover

vars == <<blk, rover, pc, need, base, cur>>

First == ZoneHdr                         \* the address of the first block

Blocks(m) == DOMAIN m \ {Head}

IsFree(m, a) == m[a].tag = 0

FreeBlocks(m) == {a \in Blocks(m) : IsFree(m, a)}
LiveBlocks(m) == {a \in Blocks(m) : ~IsFree(m, a)}

(* Header, 4 bytes of trash marker, rounded up to 8 bytes. *)
Padded(n) == ((n + BlockHdr + 4 + 7) \div 8) * 8

Fits(m, a, n) == IsFree(m, a) /\ m[a].size >= n

-----------------------------------------------------------------------------
(* Z_ClearZone: one free block behind the end cap. *)
Init ==
    /\ blk = [a \in {Head, First} |->
                IF a = Head
                  THEN [size |-> 0, tag |-> 1, next |-> First, prev |-> First]
                  ELSE [size |-> ZoneSize - ZoneHdr, tag |-> 0, next |-> Head, prev |-> Head]]
    /\ rover = First
    /\ pc = "idle"
    /\ need = 0 /\ base = First /\ cur = First

(* Header h with new size and links, its tag kept. *)
Relinked(h, size, next, prev) ==
    [size |-> size, tag |-> h.tag, next |-> next, prev |-> prev]

(* Header h with a new tag. *)
Tagged(h, tag) == [size |-> h.size, tag |-> tag, next |-> h.next, prev |-> h.prev]

Retag(m, a, tag) == [m EXCEPT ![a] = Tagged(@, tag)]

(* Slips in the list surgery, which the runs must notice: the block behind   *)
(* the swallowed one keeps its prev; the operands of the fragment's size are *)
(* swapped; the next block is merged whether it is free or not.              *)
AbsorbKeepsPrev(m, a) ==
    LET b == m[a].next
    IN  [x \in DOMAIN m \ {b} |->
           IF x = a
             THEN Relinked(m[a], m[a].size + m[b].size, m[b].next, m[a].prev)
             ELSE m[x]]

SplitSwapped(m, a, n) ==
    [x \in DOMAIN m \cup {a + n} |->
       IF x = a + n
         THEN [size |-> n - m[a].size, tag |-> 0, next |-> m[a].next, prev |-> a]
         ELSE IF x = a THEN Relinked(m[a], n, a + n, m[a].prev) ELSE m[x]]

(* The next block's space and link are added to block a. *)
Absorb(m, a) ==
    LET b == m[a].next
    IN  [x \in DOMAIN m \ {b} |->
           IF x = a
             THEN Relinked(m[a], m[a].size + m[b].size, m[b].next, m[a].prev)
             ELSE IF x = m[b].next
               THEN Relinked(m[x], m[x].size, m[x].next, a)
               ELSE m[x]]

(* Block a keeps n bytes, the rest becomes a free fragment behind it. *)
Split(m, a, n) ==
    LET f == a + n
    IN  [x \in DOMAIN m \cup {f} |->
           IF x = f
             THEN [size |-> m[a].size - n, tag |-> 0, next |-> m[a].next, prev |-> a]
             ELSE IF x = a
               THEN Relinked(m[a], n, f, m[a].prev)
             ELSE IF x = m[a].next
               THEN Relinked(m[x], m[x].size, m[x].next, f)
               ELSE m[x]]

(* What Z_TagMalloc does to the block it found. *)
Carve(m, a, n) ==
    LET s == IF m[a].size - n > MinFragment THEN Split(m, a, n) ELSE m
    IN  Retag(s, a, 1)

(* Z_Free up to and including the merge with the previous block. *)
FreeThenMergePrev(m, b) ==
    LET m0 == Retag(m, b, 0)
    IN  IF IsFree(m, m[b].prev) THEN Absorb(m0, m[b].prev) ELSE m0

(* The block that "block" designates after that merge. *)
FreedInto(m, b) == IF IsFree(m, m[b].prev) THEN m[b].prev ELSE b

MergeNextAlways(m, a) == IF m[a].next = Head THEN m ELSE Absorb(m, a)
MergeNext(m, a) == IF IsFree(m, m[a].next) THEN Absorb(m, a) ELSE m

-----------------------------------------------------------------------------
(* Z_Malloc(n) enters Z_TagMalloc(n, 1). *)
Malloc(n) ==
    /\ pc = "idle"
    /\ pc' = "scan"
    /\ need' = Padded(n)
    /\ base' = rover
    /\ cur' = rover
    /\ UNCHANGED <<blk, rover>>

(* Slips in the scan: it stops one node early, or does not advance.            *)
startEarly == blk[blk[rover].prev].prev
ScanStands == pc = "scan" /\ cur # blk[rover].prev /\ UNCHANGED vars

(* start = base->prev, where base is still the rover the scan began at. *)
start == blk[rover].prev

(* "if (rover->tag) base = rover = rover->next; else rover = rover->next;" *)
NextBase == IF IsFree(blk, cur) THEN base ELSE blk[cur].next

ScanOn ==
    /\ pc = "scan"
    /\ cur # start
    /\ ~Fits(blk, NextBase, need)
    /\ base' = NextBase
    /\ cur' = blk[cur].next
    /\ UNCHANGED <<blk, rover, pc, need>>

ScanFound ==
    /\ pc = "scan"
    /\ cur # start
    /\ Fits(blk, NextBase, need)
    /\ blk' = Carve(blk, NextBase, need)
    /\ rover' = blk'[NextBase].next
    /\ pc' = "idle"
    /\ base' = rover' /\ cur' = rover'      \* the locals are dead from here on
    /\ UNCHANGED need

(* Z_TagMalloc returns NULL; Z_Malloc calls Sys_Error. *)
ScanFailed ==
    /\ pc = "scan"
    /\ cur = start
    /\ pc' = "error"
    /\ UNCHANGED <<blk, rover, need, base, cur>>

(* A Z_Free that forgets mainzone->rover. *)
FreeForgetsRover(b) ==
    /\ pc = "idle"
    /\ blk' = LET m == FreeThenMergePrev(blk, b) IN MergeNext(m, FreedInto(blk, b))
    /\ UNCHANGED <<rover, pc, need, base, cur>>

(* Z_Free of a pointer some caller holds. *)
Free(b) ==
    /\ pc = "idle"
    /\ LET m == FreeThenMergePrev(blk, b)
           a == FreedInto(blk, b)
           n == m[a].next
       IN  /\ blk' = MergeNext(m, a)
           /\ rover' = IF \/ rover = b /\ a # b
                          \/ rover = n /\ IsFree(m, n)
                         THEN a ELSE rover
    /\ base' = rover' /\ cur' = rover'
    /\ UNCHANGED <<pc, need>>

Scan == ScanOn \/ ScanFound \/ ScanFailed

Next ==
    \/ \E n \in Requests : Malloc(n)
    \/ Scan
    \/ \E b \in LiveBlocks(blk) : Free(b)

Spec == Init /\ [][Next]_vars

(* A call of Z_TagMalloc runs to its end: nothing else has the processor. *)
FairSpec == Spec /\ WF_vars(Scan)

-----------------------------------------------------------------------------
Header == [size : Nat, tag : {0, 1}, next : Nat, prev : Nat]

Typed(m) == DOMAIN m \subseteq Nat /\ \A a \in DOMAIN m : m[a] \in Header

TypeOK ==
    /\ Typed(blk)
    /\ rover \in Nat /\ base \in Nat /\ cur \in Nat /\ need \in Nat
    /\ pc \in {"idle", "scan", "error"}

(* "There is never any space between memblocks": each block ends where its  *)
(* successor starts, the last one at the end of the zone.                   *)
Tiled(m) ==
    /\ \A a \in Blocks(m) :
         /\ a >= First /\ m[a].size >= BlockHdr /\ a + m[a].size <= ZoneSize
         /\ m[a].next = IF a + m[a].size = ZoneSize THEN Head ELSE a + m[a].size
    /\ \A a, b \in Blocks(m) : a < b => a + m[a].size <= b

(* next and prev are inverse to each other and stay inside the list. *)
Linked(m) ==
    /\ Head \in DOMAIN m
    /\ m[Head].next = First /\ ~IsFree(m, Head)
    /\ \A a \in DOMAIN m :
         /\ m[a].next \in DOMAIN m /\ m[m[a].next].prev = a
         /\ m[a].prev \in DOMAIN m /\ m[m[a].prev].next = a

(* "there will never be two contiguous free memblocks" *)
NoAdjacentFree(m) == \A a \in DOMAIN m : ~(IsFree(m, a) /\ IsFree(m, m[a].next))

(* The heap conditions of zone.c's banner, which Z_CheckHeap looks for, hold *)
(* after every Z_Malloc and Z_Free and all through the scan.                 *)
HeapSound == Tiled(blk) /\ Linked(blk) /\ NoAdjacentFree(blk)

(* mainzone->rover never designates a header that a merge has swallowed, so  *)
(* the next scan starts inside the list.                                     *)
RoverListed == rover \in DOMAIN blk

(* Z_Malloc's Sys_Error is never raised while a free block could hold the    *)
(* request, wherever the rover stood when the scan began.                    *)
ErrorOnlyWhenFull ==
    pc = "error" => \A a \in FreeBlocks(blk) : blk[a].size < need

(* Every call of Z_Malloc returns or stops the program with Sys_Error: the   *)
(* scan never goes round the list for ever.                                  *)
ScanEnds == pc = "scan" ~> pc # "scan"

-----------------------------------------------------------------------------
(* The part of the circular list from rover to base, in address order with *)
(* the end cap lowest.                                                      *)
Visited(x) ==
    IF base >= rover THEN rover <= x /\ x <= base ELSE x >= rover \/ x <= base

(* What the scan has established: base has not run past start, no block from *)
(* rover to base fits, and cur is base or, when base is free and too small,  *)
(* the block behind it (in use, since free blocks are never adjacent).       *)
ScanInv ==
    pc = "scan" =>
      /\ need >= BlockHdr
      /\ base \in DOMAIN blk /\ cur \in DOMAIN blk
      /\ \/ cur = base
         \/ cur = blk[base].next /\ IsFree(blk, base) /\ base # start
      /\ \/ cur = rover /\ base = rover
         \/ \A x \in DOMAIN blk : Visited(x) => ~Fits(blk, x, need)

(* The inductive invariant. *)
IInv == TypeOK /\ HeapSound /\ RoverListed /\ ScanInv /\ ErrorOnlyWhenFull

-----------------------------------------------------------------------------
(* The blocks in use, with their sizes, are the grants of an arena. *)
Grants == [a \in LiveBlocks(blk) |-> blk[a].size]

Arena == INSTANCE Arena WITH
            Low <- ZoneHdr, High <- ZoneSize, Overhead <- BlockHdr, owned <- Grants

(* Seen from its callers the zone is an arena: a block handed out overlaps   *)
(* no other block in use, and no call moves, resizes or reclaims a block     *)
(* other than the one freed.                                                 *)
ImplementsArena == Arena!Spec

=============================================================================
