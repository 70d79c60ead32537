--------------------------------- MODULE World ---------------------------------
(***************************************************************************)
(* The edicts of a level and the area lists they are linked into: ED_Alloc *)
(* and ED_Free of pr_edict.c, the links of common.c, and SV_LinkEdict with *)
(* its walk over the triggers, SV_TouchLinks, of world.c.                  *)
(*                                                                         *)
(* The walk runs the touch function of each trigger it meets, and a touch  *)
(* function is a program of the game: it may spawn, remove and move edicts *)
(* while the walk holds pointers into the lists.  The program is modelled  *)
(* by the builtins it may call, in any order, until it returns.  A walk    *)
(* that one of them starts (walkmove) is not followed: it relinks an edict *)
(* and runs touch functions, which is what the program may do anyway.      *)
(*                                                                         *)
(* Space has one axis, and a box is an interval of it.  A trigger always   *)
(* has a touch function.                                                   *)
(***************************************************************************)
EXTENDS Integers, Sequences, FiniteSets

CONSTANTS
    MaxEdicts,     \* MAX_EDICTS
    MaxClients,    \* svs.maxclients
    AreaDepth,     \* AREA_DEPTH
    WorldSize,     \* the world model reaches from 0 to WorldSize
    Boxes,         \* the boxes (absmin, absmax) an edict is moved to
    Probes,        \* the boxes SV_Move sweeps
    NULL

Edicts == 0 .. MaxEdicts - 1

\* The area nodes of each depth, and all of them.
Width[d \in 0 .. AreaDepth] == IF d = 0 THEN 1 ELSE 2 * Width[d - 1]
Nodes == 1 .. 2 * Width[AreaDepth] - 1

-----------------------------------------------------------------------------
(* The area nodes: a binary tree numbered like a heap, node 1 the root.      *)

Leaf(n) == n >= Width[AreaDepth]
Child(n, side) == 2 * n + side

\* The part of the axis a node covers; children[0] has the upper half.
Extent[n \in Nodes] ==
    IF n = 1 THEN [lo |-> 0, hi |-> WorldSize]
    ELSE LET parent == Extent[n \div 2]
             middle == (parent.lo + parent.hi) \div 2
         IN  IF n % 2 = 0 THEN [lo |-> middle, hi |-> parent.hi]
             ELSE [lo |-> parent.lo, hi |-> middle]

Dist == [n \in Nodes |-> (Extent[n].lo + Extent[n].hi) \div 2]

Overlap(b, c) == ~ (b.lo > c.hi \/ b.hi < c.lo)

\* SV_LinkEdict: is a box all on one side of a node's plane?  A slip would
\* take a box that ends at the plane for one below it.
BelowOrAt(b, n) == b.hi <= Dist[n]
Above(b, n) == b.lo > Dist[n]
Below(b, n) == b.hi < Dist[n]

\* "find the first node that the ent's box crosses", from each node on
Descent(b) ==
    LET first[n \in Nodes] ==
            IF Leaf(n) THEN n
            ELSE IF Above(b, n) THEN first[Child(n, 0)]
            ELSE IF Below(b, n) THEN first[Child(n, 1)]
            ELSE n
    IN  first

FirstCrossed(b) == Descent(b)[1]

\* SV_TouchLinks and SV_ClipToLinks: does the walk go down this side?
GoesDown(b, n, side) ==
    IF side = 0 THEN b.hi > Dist[n] ELSE b.lo < Dist[n]

\* The nodes whose lists a walk for the box b looks at, from each node on.
Walks(b) ==
    LET from[n \in Nodes] ==
            {n} \cup IF Leaf(n) THEN {}
                     ELSE UNION {from[Child(n, s)] : s \in {s \in {0, 1} : GoesDown(b, n, s)}}
    IN  from

AllBoxes == Boxes \cup Probes
NodeFor == [b \in Boxes |-> FirstCrossed(b)]
Reached == [b \in AllBoxes |-> Walks(b)[1]]

-----------------------------------------------------------------------------
(* The links: one in each edict (edict_t.area), two anchors in each node.    *)

Link(e) == <<"area", e>>
Anchor(kind, n) == <<kind, n>>
ListKinds == {"trigger_edicts", "solid_edicts"}
Anchors == ListKinds \X Nodes
EdictLinks == {"area"} \X Edicts
Links == EdictLinks \cup Anchors

\* SV_UnlinkEdict and RemoveLink
Unlinked(a, x) ==
    IF a.prev[x] = NULL THEN a
    ELSE [next |-> [a.next EXCEPT ![a.prev[x]] = a.next[x], ![x] = NULL],
          prev |-> [a.prev EXCEPT ![a.next[x]] = a.prev[x], ![x] = NULL]]

\* InsertLinkBefore
InsertedBefore(a, x, before) ==
    [next |-> [a.next EXCEPT ![x] = before, ![a.prev[before]] = x],
     prev |-> [a.prev EXCEPT ![x] = a.prev[before], ![before] = x]]

ASSUME WorldAssumption ==
    /\ MaxEdicts \in Nat /\ MaxClients \in Nat /\ MaxClients + 1 <= MaxEdicts
    /\ AreaDepth \in Nat /\ WorldSize \in Nat
    /\ AllBoxes \subseteq [lo : Nat, hi : Nat]
    /\ NULL \notin Links

VARIABLES
    num_edicts,  \* sv.num_edicts
    free,        \* edict_t.free
    solid,       \* v.solid: "not", "trigger", or "solid" for the other values
    absbox,      \* v.absmin and v.absmax
    area,        \* the next and prev of every link
    list,        \* history: the anchor an edict was inserted before, or NULL
    pc,          \* where the server is, see Phases
    walker,      \* SV_TouchLinks: ent
    node,        \* SV_TouchLinks: node
    l, nextl,    \* SV_TouchLinks: l and next
    todo,        \* the sides of nodes its callers have yet to look at
    due,         \* history: triggers the walk owes a call
    cut          \* history: a touch function has unlinked the edict at nextl

edictVars == <<free, solid, absbox>>
linkVars == <<area, list>>
walkVars == <<walker, node, l, nextl, todo>>
history == <<due, cut>>
vars == <<num_edicts, edictVars, linkVars, pc, walkVars, history>>

\* idle: no walk; list, descend: in SV_TouchLinks; call: in a touch function;
\* error: after Sys_Error; lost: the walk has followed a NULL or foreign link
Phases == {"idle", "list", "call", "descend", "error", "lost"}
Zero == [lo |-> 0, hi |-> 0]

IsEdictLink(x) == x \in EdictLinks
EdictOf(x) == x[2]            \* EDICT_FROM_AREA
TriggerList(n) == Anchor("trigger_edicts", n)

TypeOK ==
    /\ num_edicts \in MaxClients + 1 .. MaxEdicts
    /\ free \in [Edicts -> BOOLEAN]
    /\ solid \in [Edicts -> {"not", "trigger", "solid"}]
    /\ absbox \in [Edicts -> Boxes \cup {Zero}]
    /\ area \in [next : [Links -> Links \cup {NULL}], prev : [Links -> Links \cup {NULL}]]
    /\ list \in [Edicts -> Anchors \cup {NULL}]
    /\ pc \in Phases
    /\ walker \in Edicts /\ node \in Nodes
    /\ l \in Links \cup {NULL} /\ nextl \in Links \cup {NULL}
    /\ todo \in Seq(Nodes \X {0, 1})
    /\ due \in SUBSET Edicts /\ cut \in BOOLEAN

\* SV_ClearWorld: every list is empty.
ClearedLinks == [x \in Links |-> IF x \in Anchors THEN x ELSE NULL]

\* A level with no entities spawned yet.
Init ==
    /\ num_edicts = MaxClients + 1
    /\ free = [e \in Edicts |-> FALSE]
    /\ solid = [e \in Edicts |-> "not"] /\ absbox = [e \in Edicts |-> Zero]
    /\ area = [next |-> ClearedLinks, prev |-> ClearedLinks]
    /\ list = [e \in Edicts |-> NULL]
    /\ pc = "idle" /\ walker = 0 /\ node = 1
    /\ l = NULL /\ nextl = NULL /\ todo = <<>> /\ due = {} /\ cut = FALSE

\* Sys_Error exits: nothing of the state matters any more.
SysError ==
    /\ pc' = "error" /\ num_edicts' = MaxClients + 1
    /\ free' = [e \in Edicts |-> FALSE]
    /\ solid' = [e \in Edicts |-> "not"] /\ absbox' = [e \in Edicts |-> Zero]
    /\ area' = [next |-> ClearedLinks, prev |-> ClearedLinks]
    /\ list' = [e \in Edicts |-> NULL]
    /\ walker' = 0 /\ node' = 1 /\ l' = NULL /\ nextl' = NULL /\ todo' = <<>>
    /\ due' = {} /\ cut' = FALSE

-----------------------------------------------------------------------------
(* SV_LinkEdict without touch_triggers, for an edict whose box is now b.     *)

Linkable(e) == e # 0 /\ ~ free[e]

ListFor(e, b) ==
    IF Linkable(e) /\ solid[e] # "not"
    THEN Anchor(IF solid[e] = "trigger" THEN "trigger_edicts" ELSE "solid_edicts", NodeFor[b])
    ELSE NULL

\* A slip would leave the edict linked where it was.
RelinkedStill(e, b) ==
    IF ListFor(e, b) = NULL THEN area ELSE InsertedBefore(area, Link(e), ListFor(e, b))

Relinked(e, b) ==
    LET out == Unlinked(area, Link(e))
    IN  IF ListFor(e, b) = NULL THEN out ELSE InsertedBefore(out, Link(e), ListFor(e, b))

Rebox(e, b) == IF Linkable(e) THEN [absbox EXCEPT ![e] = b] ELSE absbox

LinkEdict(e, b) ==
    /\ area' = Relinked(e, b)
    /\ list' = [list EXCEPT ![e] = ListFor(e, b)]
    /\ absbox' = Rebox(e, b)

-----------------------------------------------------------------------------
(* What a program may do: the think functions between walks, and the touch   *)
(* function a walk has called, whose "self" is the edict that l is in and    *)
(* whose "other" is the walker.                                              *)

InProgram == pc \in {"idle", "call"}
Programmed == 1 .. num_edicts - 1
Removable == MaxClients + 1 .. num_edicts - 1

\* The calls still owed when the boxes have become bx and e has been moved,
\* removed or made something else.
StillDue(e, bx) == {t \in due \ {e} : Overlap(bx[walker], bx[t])}

\* e is being unlinked, and the walk has yet to come back to its link.
Cuts(e) == cut \/ (pc = "call" /\ nextl = Link(e))

FreeSlots == {e \in Removable : free[e]}

\* ED_ClearEdict
ClearEdict(e) ==
    /\ free' = [free EXCEPT ![e] = FALSE]
    /\ solid' = [solid EXCEPT ![e] = "not"]
    /\ absbox' = [absbox EXCEPT ![e] = Zero]
    /\ due' = StillDue(e, absbox')
    /\ UNCHANGED <<cut, linkVars, pc, walkVars>>

\* ED_Alloc takes a free slot only if it was freed in the first two seconds of
\* the level or has been free for half a second; sv.time and freetime tell which
\* slots those are, and here any may be.  It takes the first of them,
Reuse(rested) ==
    /\ InProgram /\ rested # {}
    /\ ClearEdict(CHOOSE e \in rested : \A f \in rested : e <= f)
    /\ UNCHANGED num_edicts

\* if there are none the next slot,
Extend ==
    /\ InProgram /\ num_edicts < MaxEdicts
    /\ num_edicts' = num_edicts + 1
    /\ ClearEdict(num_edicts)

\* or Sys_Error.
NoFreeEdicts ==
    /\ InProgram /\ num_edicts = MaxEdicts
    /\ SysError

\* ED_Free; a slip would leave the edict in its list.
FreeStaysLinked(e) ==
    /\ free' = [free EXCEPT ![e] = TRUE]
    /\ solid' = [solid EXCEPT ![e] = "not"]
    /\ UNCHANGED linkVars

Free(e) ==
    /\ area' = Unlinked(area, Link(e))
    /\ list' = [list EXCEPT ![e] = NULL]
    /\ free' = [free EXCEPT ![e] = TRUE]
    /\ solid' = [solid EXCEPT ![e] = "not"]

\* PF_Remove; for an edict that is free already only its freetime would change.
Remove(e) ==
    /\ InProgram /\ ~ free[e]
    /\ Free(e)
    /\ due' = due \ {e} /\ cut' = Cuts(e)
    /\ UNCHANGED <<num_edicts, absbox, pc, walkVars>>

\* An assignment to v.solid, which links nothing.  No program makes a player's
\* edict a trigger.
SetSolid(e, s) ==
    /\ InProgram /\ ~ free[e] /\ solid[e] # s
    /\ s = "trigger" => e \in Removable
    /\ solid' = [solid EXCEPT ![e] = s]
    /\ due' = due \ {e}
    /\ UNCHANGED <<cut, num_edicts, free, absbox, linkVars, pc, walkVars>>

\* PF_setorigin, PF_setsize
SetOrigin(e, b) ==
    /\ InProgram
    /\ LinkEdict(e, b)
    /\ due' = StillDue(e, Rebox(e, b)) /\ cut' = Cuts(e)
    /\ UNCHANGED <<num_edicts, free, solid, pc, walkVars>>

\* SV_Move over the box b meets a trigger in a clipping list: Sys_Error.
\* A move that does not changes nothing here.
ClipError(b) ==
    /\ InProgram
    /\ \E e \in Edicts :
          /\ list[e] \in {Anchor("solid_edicts", n) : n \in Reached[b]}
          /\ solid[e] = "trigger"
    /\ SysError

-----------------------------------------------------------------------------
(* SV_LinkEdict with touch_triggers, and the walk of SV_TouchLinks.          *)

\* Is t a trigger that e touches?
Touches(e, t) == t # e /\ solid[t] = "trigger" /\ Overlap(absbox[e], absbox[t])

\* SV_Physics moves e to the box b, or touches again where it is.
MoveAndTouch(e, b) ==
    /\ pc = "idle" /\ ~ free[e]
    /\ LinkEdict(e, b)
    /\ IF ListFor(e, b) = NULL THEN UNCHANGED <<pc, walkVars, history>>
       ELSE /\ pc' = "list" /\ walker' = e /\ node' = 1
            /\ l' = Relinked(e, b).next[TriggerList(1)]
            /\ due' = {t \in Edicts \ {e} : /\ solid[t] = "trigger"
                                           /\ list[t] # NULL /\ list[t][1] = "trigger_edicts"
                                           /\ Overlap(b, absbox[t])}
            /\ UNCHANGED <<nextl, todo, cut>>
    /\ UNCHANGED <<num_edicts, free, solid>>

\* The next link is in an edict to pass over,
Pass ==
    /\ pc = "list" /\ IsEdictLink(l) /\ ~ Touches(walker, EdictOf(l))
    /\ l' = area.next[l]
    /\ UNCHANGED <<num_edicts, edictVars, linkVars, pc, walker, node, nextl, todo, history>>

\* or in one to touch, whose touch function is called;
Call ==
    /\ pc = "list" /\ IsEdictLink(l) /\ Touches(walker, EdictOf(l))
    /\ pc' = "call" /\ nextl' = area.next[l]
    /\ due' = due \ {EdictOf(l)}
    /\ UNCHANGED <<cut, num_edicts, edictVars, linkVars, walker, node, l, todo>>

\* when it returns the walk goes on where it meant to.  A slip would read the
\* next link only now.
ReturnToNext ==
    /\ pc = "call"
    /\ pc' = "list" /\ l' = area.next[l] /\ nextl' = NULL
    /\ UNCHANGED <<num_edicts, edictVars, linkVars, walker, node, todo, history>>

Return ==
    /\ pc = "call"
    /\ pc' = "list" /\ l' = nextl /\ nextl' = NULL
    /\ UNCHANGED <<num_edicts, edictVars, linkVars, walker, node, todo, history>>

\* A NULL link, or the anchor of another list taken for an edict.
Astray ==
    /\ pc = "list" /\ ~ IsEdictLink(l) /\ l # TriggerList(node)
    /\ pc' = "lost"
    /\ UNCHANGED <<num_edicts, edictVars, linkVars, walkVars, history>>

LeaveList ==
    /\ pc = "list" /\ l = TriggerList(node)
    /\ pc' = "descend"
    /\ todo' = (IF Leaf(node) THEN <<>> ELSE << <<node, 0>>, <<node, 1>> >>) \o todo
    /\ UNCHANGED <<num_edicts, edictVars, linkVars, walker, node, l, nextl, history>>

\* "recurse down both sides"
Descend ==
    /\ pc = "descend" /\ todo # <<>>
    /\ LET n == Head(todo)[1]
           side == Head(todo)[2]
       IN  IF GoesDown(absbox[walker], n, side)
           THEN /\ pc' = "list" /\ node' = Child(n, side)
                /\ l' = area.next[TriggerList(Child(n, side))]
           ELSE UNCHANGED <<pc, node, l>>
    /\ todo' = Tail(todo)
    /\ UNCHANGED <<num_edicts, edictVars, linkVars, walker, nextl, history>>

EndWalk ==
    /\ pc = "descend" /\ todo = <<>>
    /\ pc' = "idle" /\ walker' = 0 /\ node' = 1 /\ l' = NULL
    /\ due' = {} /\ cut' = FALSE
    /\ UNCHANGED <<num_edicts, edictVars, linkVars, nextl, todo>>

Next ==
    \/ \E rested \in SUBSET FreeSlots : Reuse(rested)
    \/ Extend \/ NoFreeEdicts
    \/ \E e \in Removable : Remove(e)
    \/ \E e \in Programmed, s \in {"not", "trigger", "solid"} : SetSolid(e, s)
    \/ \E e \in Programmed, b \in Boxes : SetOrigin(e, b) \/ MoveAndTouch(e, b)
    \/ \E b \in Probes : ClipError(b)
    \/ Pass \/ Call \/ Return \/ Astray \/ LeaveList \/ Descend \/ EndWalk

Spec == Init /\ [][Next]_vars

-----------------------------------------------------------------------------
(* Properties.                                                               *)

ListOf(x, on) == IF x \in Anchors THEN x ELSE on[EdictOf(x)]

Sound(a, on) ==
    \A x \in Links :
        IF ListOf(x, on) = NULL THEN a.next[x] = NULL /\ a.prev[x] = NULL
        ELSE /\ a.next[x] \in Links /\ a.prev[a.next[x]] = x
             /\ a.prev[x] \in Links /\ a.next[a.prev[x]] = x
             /\ ListOf(a.next[x], on) = ListOf(x, on)
             /\ ListOf(a.prev[x], on) = ListOf(x, on)

\* RemoveLink and InsertLinkBefore keep every list a ring: a link that is in
\* a list has a next and a prev in the same list that point back at it, and
\* one that is in none has neither.
LinksSound == Sound(area, list)

\* SV_TouchLinks has returned to SV_LinkEdict, or will never do so.
Over == pc = "lost" \/ (pc = "descend" /\ todo = <<>>)

\* What clips and touches is alive: an edict that SV_LinkEdict has linked and
\* ED_Free has not unlinked is neither free, nor the world, nor a slot that
\* ED_Alloc has still to hand out.
LinkedLive ==
    \A e \in Edicts : list[e] # NULL => e \in Programmed /\ ~ free[e]

\* SV_LinkEdict stores an edict where the walks of SV_TouchLinks and
\* SV_ClipToLinks look for it: a walk for any box, over the nodes it reaches,
\* finds every linked edict whose box meets that box, at the planes too.
FoundWhereLinked ==
    \A e \in Edicts : list[e] # NULL =>
        \A b \in AllBoxes : Overlap(b, absbox[e]) => list[e][2] \in Reached[b]

\* SV_LinkEdict "calls prog functions for the intersected triggers": a walk that is
\* over has called every trigger that its edict intersected from its start on, and
\* never strays from the list it is on, unless a touch function unlinks the very trigger that SV_TouchLinks
\* has saved as the next one.  Removing the trigger that is touched, the edict
\* that touches it, or any other trigger does no harm, nor does spawning.
TouchesEach ==
    ~ cut => /\ Over => due = {}
             /\ pc = "list" => IsEdictLink(l) \/ l = TriggerList(node)
=============================================================================
