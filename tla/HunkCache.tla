------------------------------ MODULE HunkCache ------------------------------
(***************************************************************************)
(* The hunk and the cache of zone.c.  The hunk is one block of memory that *)
(* grows as a stack from both ends; purgeable cache blocks live in what is *)
(* left between the two marks and are moved or thrown out when a mark      *)
(* advances over them.  Addresses are byte offsets from hunk_base.         *)
(*                                                                         *)
(* A cache block is named by its cache_user_t: a user owns at most one.    *)
(* Each call is one step, except that the loops of Cache_FreeLow,          *)
(* Cache_FreeHigh and Cache_Alloc take a step per iteration.               *)
(***************************************************************************)
EXTENDS Integers, Sequences, FiniteSets, SequencesExt

CONSTANTS
    HunkSize,     \* hunk_size
    HunkHdr,      \* sizeof(hunk_t)
    CacheHdr,     \* sizeof(cache_system_t)
    Users,        \* the cache_user_t objects (models, sounds)
    HunkRequests, \* payload sizes asked of the hunk
    CacheRequests,\* payload sizes asked of the cache
    MaxMarks      \* bound: the marks held at one end at a time

ASSUME HunkAssumption ==
    /\ HunkSize \in Nat /\ HunkHdr \in Nat /\ CacheHdr \in Nat
    /\ HunkHdr > 0 /\ CacheHdr > 0
    /\ MaxMarks \in Nat
    /\ HunkRequests \subseteq Nat /\ CacheRequests \subseteq Nat \ {0}

VARIABLES
    low, high,           \* hunk_low_used, hunk_high_used
    tempActive, tempMark,\* hunk_tempactive, hunk_tempmark
    lowMarks, highMarks, \* marks that callers hold, to free down to
    list,                \* the users of cache_head.next ..., in list order
    at, size,            \* per user: its block's address and size
    lru,                 \* the users of cache_head.lru_next ..., newest first
    pc,                  \* what is running, see Phases
    req                  \* Cache_Alloc's user and block size

hunkVars == <<low, high, tempActive, tempMark, lowMarks, highMarks>>
cacheVars == <<list, at, size, lru>>
vars == <<hunkVars, cacheVars, pc, req>>

NoRequest == [user |-> CHOOSE u \in Users : TRUE, size |-> 0]

Phases == {"idle", "freelow", "freehigh", "alloc", "error"}

Round16(n) == ((n + 15) \div 16) * 16
HunkBytes(n) == HunkHdr + Round16(n)
CacheBytes(n) == Round16(n + CacheHdr)

Top == HunkSize - high
Cached == ToSet(list)
End(u) == at[u] + size[u]

-----------------------------------------------------------------------------
(* A list that u is on, after u has been unlinked. *)
Unlinked(s, u) == RemoveAt(s, CHOOSE i \in 1..Len(s) : s[i] = u)

(* Slips that the run must notice: the bottom gap never used; a freed block   *)
(* left on the LRU list.                                                      *)
SlotsNoBottom(n, nobottom) ==
    {i \in 1..Len(list) :
       (IF i = Len(list) THEN Top ELSE at[list[i + 1]]) - End(list[i]) >= n}

CacheDropKeepsLRU(u) ==
    /\ list' = Unlinked(list, u)
    /\ at' = [at EXCEPT ![u] = 0]
    /\ size' = [size EXCEPT ![u] = 0]
    /\ UNCHANGED lru

(* Cache_TryAlloc: gap i lies behind the i-th block, gap 0 in front of the  *)
(* first one; the lowest gap that is large enough is taken, and "nobottom"  *)
(* leaves gap 0 out.                                                         *)
GapStart(i) == IF i = 0 THEN low ELSE End(list[i])
GapEnd(i) == IF i = Len(list) THEN Top ELSE at[list[i + 1]]

Slots(n, nobottom) ==
    {i \in 0..Len(list) : (i > 0 \/ ~nobottom) /\ GapEnd(i) - GapStart(i) >= n}

Slot(n, nobottom) == Min(Slots(n, nobottom))

(* Cache_Free: out of both lists. *)
CacheDrop(u) ==
    /\ list' = Unlinked(list, u)
    /\ lru' = Unlinked(lru, u)
    /\ at' = [at EXCEPT ![u] = 0]
    /\ size' = [size EXCEPT ![u] = 0]

(* A block that finds no new place is thrown out; a slip would leave it. *)
BlockStays(u) == UNCHANGED cacheVars
BlockLost(u) == CacheDrop(u)

(* Cache_Move of the block at position p of the list: a copy is linked in at *)
(* the slot found and made most recent, then the old block is freed.         *)
CacheMove(p) ==
    LET u == list[p]
        i == Slot(size[u], TRUE)
    IN  IF Slots(size[u], TRUE) # {}
          THEN /\ list' = RemoveAt(InsertAt(list, i + 1, u), IF p <= i THEN p ELSE p + 1)
               /\ at' = [at EXCEPT ![u] = GapStart(i)]
               /\ lru' = <<u>> \o Unlinked(lru, u)
               /\ UNCHANGED size
          ELSE BlockLost(u)

-----------------------------------------------------------------------------
Init ==
    /\ low = 0 /\ high = 0
    /\ tempActive = FALSE /\ tempMark = 0
    /\ lowMarks = {} /\ highMarks = {}
    /\ list = <<>> /\ lru = <<>>
    /\ at = [u \in Users |-> 0] /\ size = [u \in Users |-> 0]
    /\ pc = "idle"
    /\ req = NoRequest

(* The room check of both ends. *)
HunkFull(used, n) == HunkSize - low - used < HunkBytes(n)

(* Hunk_AllocName: Sys_Error when the two ends would meet. *)
HunkAlloc(n) ==
    /\ pc = "idle"
    /\ IF HunkFull(high, n)
         THEN pc' = "error" /\ UNCHANGED low
         ELSE low' = low + HunkBytes(n) /\ pc' = "freelow"
    /\ UNCHANGED <<high, tempActive, tempMark, lowMarks, highMarks, cacheVars, req>>

(* The hunk can grow: no block starts below its low end. *)
LowClearAlways == TRUE
LowClear == list = <<>> \/ at[Head(list)] >= low

(* Cache_FreeLow: one turn of the loop. *)
FreeLow ==
    /\ pc = "freelow"
    /\ IF LowClear
         THEN pc' = "idle" /\ UNCHANGED cacheVars
         ELSE CacheMove(1) /\ UNCHANGED pc
    /\ UNCHANGED <<hunkVars, req>>

(* Cache_FreeHigh: one turn of the loop.  Its "didn't move out of the way"    *)
(* branch needs a block that is still the last one, at the same address,      *)
(* after Cache_Move; Cache_Move always unlinks it.                            *)
FreeHigh ==
    /\ pc = "freehigh"
    /\ IF list = <<>> \/ End(Last(list)) <= Top
         THEN pc' = "idle" /\ UNCHANGED cacheVars
         ELSE CacheMove(Len(list)) /\ UNCHANGED pc
    /\ UNCHANGED <<hunkVars, req>>

(* Hunk_LowMark, the mark kept by the caller. *)
HunkLowMark ==
    /\ pc = "idle"
    /\ lowMarks' = lowMarks \cup {low}
    /\ Cardinality(lowMarks') <= MaxMarks
    /\ UNCHANGED <<low, high, tempActive, tempMark, highMarks, cacheVars, pc, req>>

(* Hunk_FreeToLowMark with a mark the caller holds; marks above it die. *)
HunkFreeToLowMark(m) ==
    /\ pc = "idle"
    /\ IF m > low
         THEN pc' = "error" /\ UNCHANGED <<low, lowMarks>>
         ELSE /\ low' = m
              /\ lowMarks' = {k \in lowMarks : k < m}
              /\ UNCHANGED pc
    /\ UNCHANGED <<high, tempActive, tempMark, highMarks, cacheVars, req>>

(* hunk_high_used once an active temporary block has been released. *)
HighWithoutTemp == IF tempActive THEN tempMark ELSE high

(* Hunk_HighMark, the mark kept by the caller. *)
HunkHighMark ==
    /\ pc = "idle"
    /\ high' = HighWithoutTemp
    /\ tempActive' = FALSE
    /\ highMarks' = highMarks \cup {high'}
    /\ Cardinality(highMarks') <= MaxMarks
    /\ UNCHANGED <<low, tempMark, lowMarks, cacheVars, pc, req>>

(* Hunk_FreeToHighMark with a mark the caller holds. *)
HunkFreeToHighMark(m) ==
    /\ pc = "idle"
    /\ tempActive' = FALSE
    /\ IF m > HighWithoutTemp
         THEN pc' = "error" /\ high' = HighWithoutTemp /\ UNCHANGED highMarks
         ELSE /\ high' = m
              /\ highMarks' = {k \in highMarks : k < m}
              /\ UNCHANGED pc
    /\ UNCHANGED <<low, tempMark, lowMarks, cacheVars, req>>

(* Hunk_HighAllocName on top of "used" bytes; NULL when it does not fit. *)
GrowHigh(used, n) ==
    IF HunkFull(used, n)
      THEN high' = used /\ UNCHANGED pc
      ELSE high' = used + HunkBytes(n) /\ pc' = "freehigh"

HunkHighAlloc(n) ==
    /\ pc = "idle"
    /\ tempActive' = FALSE
    /\ GrowHigh(HighWithoutTemp, n)
    /\ UNCHANGED <<low, tempMark, lowMarks, highMarks, cacheVars, req>>

(* Where a temporary block starts; a slip would keep the last one's place. *)
TempStartStale == tempMark
TempStart == HighWithoutTemp

(* Hunk_TempAlloc: active even when the allocation returned NULL. *)
HunkTempAlloc(n) ==
    /\ pc = "idle"
    /\ tempMark' = TempStart
    /\ GrowHigh(HighWithoutTemp, Round16(n))
    /\ tempActive' = TRUE
    /\ UNCHANGED <<low, lowMarks, highMarks, cacheVars, req>>

-----------------------------------------------------------------------------
(* Cache_Alloc of a user whose data is NULL. *)
CacheAlloc(u, n) ==
    /\ pc = "idle"
    /\ u \notin Cached
    /\ req' = [user |-> u, size |-> CacheBytes(n)]
    /\ pc' = "alloc"
    /\ UNCHANGED <<hunkVars, cacheVars>>

AllocFound ==
    /\ pc = "alloc"
    /\ Slots(req.size, FALSE) # {}
    /\ LET i == Slot(req.size, FALSE)
       IN  /\ list' = InsertAt(list, i + 1, req.user)
           /\ at' = [at EXCEPT ![req.user] = GapStart(i)]
    /\ size' = [size EXCEPT ![req.user] = req.size]
    /\ lru' = <<req.user>> \o lru
    /\ pc' = "idle"
    /\ req' = NoRequest
    /\ UNCHANGED hunkVars

(* "free the least recently used cahedat" *)
AllocEvict ==
    /\ pc = "alloc"
    /\ Slots(req.size, FALSE) = {}
    /\ lru # <<>>
    /\ CacheDrop(Last(lru))
    /\ UNCHANGED <<hunkVars, pc, req>>

(* Nothing left to throw out: Sys_Error. *)
AllocFailed ==
    /\ pc = "alloc"
    /\ Slots(req.size, FALSE) = {}
    /\ lru = <<>>
    /\ pc' = "error"
    /\ UNCHANGED <<hunkVars, cacheVars, req>>

(* Cache_Check of a user whose data is not NULL. *)
CacheCheck(u) ==
    /\ pc = "idle"
    /\ u \in Cached
    /\ lru' = <<u>> \o Unlinked(lru, u)
    /\ UNCHANGED <<hunkVars, list, at, size, pc, req>>

CacheFree(u) ==
    /\ pc = "idle"
    /\ u \in Cached
    /\ CacheDrop(u)
    /\ UNCHANGED <<hunkVars, pc, req>>

CacheFlush ==
    /\ pc = "idle"
    /\ list' = <<>> /\ lru' = <<>>
    /\ at' = [u \in Users |-> 0] /\ size' = [u \in Users |-> 0]
    /\ UNCHANGED <<hunkVars, pc, req>>

-----------------------------------------------------------------------------
Loops == FreeLow \/ FreeHigh \/ AllocFound \/ AllocEvict \/ AllocFailed

Next ==
    \/ \E n \in HunkRequests : HunkAlloc(n) \/ HunkHighAlloc(n) \/ HunkTempAlloc(n)
    \/ HunkLowMark \/ HunkHighMark
    \/ \E m \in lowMarks : HunkFreeToLowMark(m)
    \/ \E m \in highMarks : HunkFreeToHighMark(m)
    \/ \E u \in Users, n \in CacheRequests : CacheAlloc(u, n)
    \/ \E u \in Users : CacheCheck(u) \/ CacheFree(u)
    \/ CacheFlush
    \/ Loops

Spec == Init /\ [][Next]_vars

(* A call runs to its end: nothing else has the processor. *)
FairSpec == Spec /\ WF_vars(Loops)

-----------------------------------------------------------------------------
TypeOK ==
    /\ low \in 0..HunkSize /\ high \in 0..HunkSize
    /\ tempActive \in BOOLEAN /\ tempMark \in 0..HunkSize
    /\ lowMarks \subseteq 0..HunkSize /\ highMarks \subseteq 0..HunkSize
    /\ list \in Seq(Users) /\ lru \in Seq(Users)
    /\ at \in [Users -> 0..HunkSize] /\ size \in [Users -> 0..HunkSize]
    /\ pc \in Phases

(* The two ends of the hunk never meet, and between calls every cache block   *)
(* lies between them, so that a hunk allocation never lands on live cache     *)
(* data; and the block list stays in address order without overlap, also      *)
(* while Cache_Move relocates blocks with both marks already advanced.        *)
CacheSound ==
    /\ TypeOK
    /\ low + high <= HunkSize
    /\ pc \in {"idle", "alloc"} => \A u \in Cached : low <= at[u] /\ End(u) <= Top
    /\ \A i, j \in 1..Len(list) : i < j => End(list[i]) <= at[list[j]]

(* A block is on the address list exactly when it is on the LRU list, once:   *)
(* eviction reaches every block and never a block already freed.              *)
ListsAgree ==
    /\ ToSet(lru) = Cached
    /\ Len(list) = Len(lru)
    /\ \A i, j \in 1..Len(list) : i # j => list[i] # list[j]

(* Callers that free their marks in stack order never meet "bad mark": no     *)
(* temporary block is ever counted in a mark or survives below one.           *)
MarksHold ==
    /\ \A m \in lowMarks : m <= low
    /\ \A m \in highMarks : m <= HighWithoutTemp
    /\ tempActive => tempMark <= high

(* Cache_Alloc gives up only if its block is larger than everything between   *)
(* the two hunks, whatever was cached where: throwing out block after block   *)
(* always makes room in the end.                                              *)
GivesUpOnlyWhenHopeless ==
    [][AllocFailed => HunkSize - low - high < req.size]_vars

(* Every call of the hunk and the cache returns (or stops the program): the   *)
(* relocation loops do not chase a block for ever.                            *)
CallsEnd == pc \in {"freelow", "freehigh", "alloc"} ~> pc \in {"idle", "error"}

=============================================================================
