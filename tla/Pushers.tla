-------------------------------- MODULE Pushers --------------------------------
(***************************************************************************)
(* Doors, lifts and trains: SV_PushMove of sv_phys.c.  A pusher moves to   *)
(* its new place first; then, in the order of their numbers, the edicts    *)
(* that stand on it or that it now meets are pushed after it.  One that    *)
(* cannot be moved out of it fails the move: the pusher goes back, its     *)
(* blocked function is called, and what was pushed is put back.            *)
(*                                                                         *)
(* Each push may touch triggers and other edicts, whose functions may      *)
(* remove, kill, place and spawn edicts between the steps.                 *)
(*                                                                         *)
(* Space is a grid with a wall around it; everything fills one cell of it, *)
(* and a move is by one cell, so that an edict is pushed all the way or    *)
(* not at all.                                                             *)
(***************************************************************************)
EXTENDS Integers, Sequences

CONSTANTS
    Pushers,        \* MOVETYPE_PUSH, SOLID_BSP
    Bodies,         \* the slots of the others, numbers
    Players,        \* those of them that are clients: MOVETYPE_WALK while they live
    Width, Height,
    MaxEffects,     \* bound: what the game's functions do in a push
    NULL

ASSUME PushersAssumption ==
    /\ Bodies \subseteq Nat \ {0} /\ Bodies # {} /\ Players \subseteq Bodies
    /\ Width \in Nat \ {0} /\ Height \in Nat \ {0} /\ MaxEffects \in Nat
    /\ Pushers \cap Bodies = {} /\ NULL \notin Pushers \cup Bodies

VARIABLES
    origin,         \* where each pusher and body is
    live,           \* the bodies that are not free
    solid,          \* those with SOLID_BBOX or SLIDEBOX; others are SOLID_TRIGGER or SOLID_NOT
    ground,         \* FL_ONGROUND and groundentity: the pusher a body stands on
    flat,           \* bodies without a size: missiles, grenades, flattened corpses
    still,          \* bodies with MOVETYPE_NONE or NOCLIP
    pc,             \* of SV_PushMove: idle, scan, touched, back
    push,           \* its pusher, where that was, the direction
    check, moved,   \* the body it looks at; moved_edict and moved_from
    effects,        \* counts what the game's functions have done
    start, handled, \* history: where all were, and what the functions laid hands on
    reused          \* history: the slot of a body that had been pushed was used again in the push

bodies == <<live, solid, ground, flat, still>>
vars == <<origin, bodies, pc, push, check, moved, effects, start, handled, reused>>

Cells == (0 .. Width - 1) \X (0 .. Height - 1)
Directions == {<<1, 0>>, <<-1, 0>>, <<0, 1>>, <<0, -1>>}
Plus(c, d) == <<c[1] + d[1], c[2] + d[2]>>
Below(c) == Plus(c, <<0, -1>>)

\* What SV_Move clips a body against at a cell, the pusher that is SOLID_NOT left
\* out: MOVE_NORMAL, or bmodels only.
HitsModel(c, hidden) ==
    c \notin Cells \/ \E p \in Pushers \ {hidden} : origin[p] = c
\* "points never interact": what has a size is not clipped against what has none.
HitsBody(b, c) == \E a \in (live \cap solid) \ {b} : origin[a] = c /\ (a \in flat => b \in flat)

\* SV_TestEntityPosition.
Stuck(b) == HitsModel(origin[b], NULL) \/ HitsBody(b, origin[b])

\* A body may be put there.
Vacant(c) == ~HitsModel(c, NULL) /\ \A a \in live : origin[a] # c

\* What a body at c stands on.
Floors(c) == LET under == {p \in Pushers : origin[p] = Below(c)}
             IN  IF under = {} THEN {NULL} ELSE under

Init ==
    /\ live \in SUBSET Bodies /\ Players \subseteq live
    /\ solid \in SUBSET live /\ Players \subseteq solid
    /\ origin \in [Pushers \cup Bodies -> Cells]
    /\ \A b \in Bodies \ live : origin[b] = <<0, 0>>
    /\ \A p, q \in Pushers : origin[p] = origin[q] => p = q
    /\ flat \in SUBSET (solid \ Players) /\ still \in SUBSET (solid \ Players)
    /\ \A b \in live : ~HitsModel(origin[b], NULL) /\ (b \in solid => ~HitsBody(b, origin[b]))
    /\ ground = [b \in Bodies |-> NULL]
    /\ pc = "idle" /\ push = NULL /\ check = NULL /\ moved = <<>> /\ effects = 0
    /\ start = NULL /\ handled = {} /\ reused = FALSE

-----------------------------------------------------------------------------
(* SV_PushMove.                                                              *)

Following == {b \in Bodies : check # NULL /\ b > check}
NextCheck == IF Following = {} THEN NULL ELSE CHOOSE b \in Following : \A a \in Following : b <= a

\* The model is not followed after a reuse, see NothingStuck.
Idle == pc = "idle" /\ ~reused

\* The pusher moves to its final position.
Begin(p, d) ==
    /\ Idle /\ Plus(origin[p], d) \in Cells
    /\ origin' = [origin EXCEPT ![p] = Plus(@, d)]
    /\ push' = [pusher |-> p, from |-> origin[p], dir |-> d]
    /\ pc' = "scan" /\ check' = CHOOSE b \in Bodies : \A a \in Bodies : b <= a
    /\ moved' = <<>> /\ effects' = 0 /\ start' = origin /\ handled' = {}
    /\ UNCHANGED <<bodies, reused>>

Step == UNCHANGED <<push, effects, start, handled, reused>>

End ==
    /\ pc' = "idle" /\ check' = NULL /\ moved' = <<>>
    /\ push' = NULL /\ effects' = 0 /\ start' = NULL /\ handled' = {}
    /\ UNCHANGED <<bodies, reused>>

\* Does the move concern a body?
Rides(b) == ground[b] = push.pusher
Meets(b) == origin[b] = origin[push.pusher] /\ Stuck(b)
Concerns(b) == b \in live \ still /\ (Rides(b) \/ Meets(b))

Skip ==
    /\ pc = "scan" /\ check # NULL /\ ~Concerns(check)
    /\ check' = NextCheck
    /\ UNCHANGED <<origin, bodies, pc, moved>> /\ Step

\* SV_PushEntity stops at what is in the way.
Pushed(b) ==
    LET c == Plus(origin[b], push.dir)
    IN  IF HitsModel(c, push.pusher) \/ (b \in solid /\ HitsBody(b, c)) THEN origin[b] ELSE c

\* Where a push may leave it.  A solid point is a missile: it has an owner, that does
\* not stop it, and with MOVE_MISSILE is stopped by a monster it only comes near.
Ends(b) ==
    IF b \notin solid \cap flat THEN {Pushed(b)}
    ELSE {origin[b]} \cup {c \in {Plus(origin[b], push.dir)} : ~HitsModel(c, push.pusher)}

\* A slip would note where the body is after the push.
EntryAfter(b) == [body |-> b, from |-> Pushed(b)]
Entry(b) == [body |-> b, from |-> origin[b]]

Push ==
    /\ pc = "scan" /\ check # NULL /\ Concerns(check)
    /\ ground' = [ground EXCEPT ![check] = IF check \in Players \cap solid THEN @ ELSE NULL]
    /\ moved' = Append(moved, Entry(check))
    /\ \E c \in Ends(check) : origin' = [origin EXCEPT ![check] = c]
    /\ pc' = "touched"
    /\ UNCHANGED <<live, solid, flat, still, check>> /\ Step

\* "if it is still inside the pusher, block"; a slip would trust those that ride.
InsideUnlessRiding(b) == b \in live /\ Stuck(b) /\ ~Rides(b)
Inside(b) == b \in live /\ Stuck(b)

Passes ==
    /\ pc = "touched" /\ ~Inside(check)
    /\ pc' = "scan" /\ check' = NextCheck
    /\ UNCHANGED <<origin, bodies, moved>> /\ Step

\* A point is left there, solid or not.
LeavesPoint ==
    /\ pc = "touched" /\ Inside(check) /\ check \in flat
    /\ pc' = "scan" /\ check' = NextCheck
    /\ UNCHANGED <<origin, bodies, moved>> /\ Step

\* Corpses and triggers are made points and left there.
Flattens ==
    /\ pc = "touched" /\ Inside(check) /\ check \notin flat \cup solid
    /\ flat' = flat \cup {check}
    /\ pc' = "scan" /\ check' = NextCheck
    /\ UNCHANGED <<origin, live, solid, ground, still, moved>> /\ Step

Blocked ==
    /\ pc = "touched" /\ Inside(check) /\ check \in solid \ flat
    /\ origin' = [origin EXCEPT ![check] = moved[Len(moved)].from, ![push.pusher] = push.from]
    /\ pc' = "back"
    /\ UNCHANGED <<bodies, check, moved>> /\ Step

\* "move back any entities we already moved"
Undo ==
    /\ pc = "back"
    /\ origin' = [x \in DOMAIN origin |->
                     IF \E i \in 1 .. Len(moved) : moved[i].body = x /\ x \in live
                     THEN moved[CHOOSE i \in 1 .. Len(moved) : moved[i].body = x].from
                     ELSE origin[x]]
    /\ End

Complete ==
    /\ pc = "scan" /\ check = NULL
    /\ End /\ UNCHANGED origin

-----------------------------------------------------------------------------
(* Functions of the game: touch, also of triggers, after a body was pushed   *)
(* or put back, and the pusher's blocked.  They remove no pusher, and put    *)
(* nothing where a pushed body, or the pusher, came from and may go back to. *)

Vacated == {push.from} \cup {moved[i].from : i \in 1 .. Len(moved)}

Effect(touched) ==
    /\ pc \in {"touched", "back"} /\ effects < MaxEffects
    /\ effects' = effects + 1 /\ handled' = handled \cup touched
    /\ UNCHANGED <<pc, push, check, moved, start>>

Removes(b) ==
    /\ Effect({b}) /\ b \in live \ Players
    /\ live' = live \ {b} /\ solid' = solid \ {b} /\ flat' = flat \ {b}
    /\ still' = still \ {b} /\ ground' = [ground EXCEPT ![b] = NULL]
    /\ origin' = [origin EXCEPT ![b] = <<0, 0>>] /\ UNCHANGED reused

\* A player that dies has MOVETYPE_TOSS, a missile that explodes MOVETYPE_NONE.
Kills(b) ==
    /\ Effect({}) /\ b \in live \cap solid
    /\ solid' = solid \ {b} /\ still' \in {still, still \cup ({b} \cap flat)}
    /\ UNCHANGED <<origin, live, ground, flat, reused>>

\* setorigin; that the body no longer stands on the pusher is for it to say.
Places(b, c) ==
    /\ Effect({b}) /\ b \in live /\ Vacant(c) /\ c \notin Vacated
    /\ origin' = [origin EXCEPT ![b] = c]
    /\ ground' \in {ground, [ground EXCEPT ![b] = NULL]}
    /\ UNCHANGED <<live, solid, flat, still, reused>>

\* spawn; the slot may be one that was freed in this push.
Spawns(b, c) ==
    /\ Effect({b}) /\ b \in Bodies \ live /\ Vacant(c) /\ c \notin Vacated
    /\ live' = live \cup {b} /\ solid' \in {solid, solid \cup {b}}
    /\ flat' \in {flat, flat \cup ({b} \cap solid')} /\ still' \in {still, still \cup ({b} \cap solid')}
    /\ origin' = [origin EXCEPT ![b] = c]
    /\ reused' = (reused \/ \E i \in 1 .. Len(moved) : moved[i].body = b)
    /\ UNCHANGED ground

\* The physics of the others between two pushes: they walk, fall and land, and dead
\* players are put into the level again.
AtRest == UNCHANGED <<live, still, pc, push, check, moved, effects, start, handled, reused>>

Moves(b, d) ==
    /\ Idle /\ b \in live \ still /\ Vacant(Plus(origin[b], d))
    /\ origin' = [origin EXCEPT ![b] = Plus(@, d)]
    /\ \E p \in Floors(Plus(origin[b], d)) : ground' = [ground EXCEPT ![b] = p]
    /\ UNCHANGED <<solid, flat>> /\ AtRest

Lands(b) ==
    /\ Idle /\ b \in live \ still /\ ground[b] \notin Floors(origin[b])
    /\ \E p \in Floors(origin[b]) : ground' = [ground EXCEPT ![b] = p]
    /\ UNCHANGED <<origin, solid, flat>> /\ AtRest

Respawns(b, c) ==
    /\ Idle /\ b \in Players \ solid /\ Vacant(c)
    /\ solid' = solid \cup {b} /\ flat' = flat \ {b}
    /\ origin' = [origin EXCEPT ![b] = c] /\ ground' = [ground EXCEPT ![b] = NULL]
    /\ AtRest

PushMove ==
    \/ \E p \in Pushers, d \in Directions : Begin(p, d)
    \/ Skip \/ Push \/ Passes \/ LeavesPoint \/ Flattens \/ Blocked \/ Undo \/ Complete

Next ==
    \/ PushMove
    \/ \E b \in Bodies :
          \/ Removes(b) \/ Kills(b) \/ Lands(b)
          \/ \E c \in Cells : Places(b, c) \/ Spawns(b, c) \/ Respawns(b, c)
          \/ \E d \in Directions : Moves(b, d)

Spec == Init /\ [][Next]_vars

-----------------------------------------------------------------------------
(* Properties.                                                               *)

\* A push is done or not done: when the pusher is where it was, so is every body
\* that no function of the game laid hands on, in whatever order they were pushed
\* and however many before the one that blocked it; and when it has moved, a body
\* is where it was or has gone along.
AllOrNothing ==
    [][ (pc # "idle" /\ pc' = "idle") =>
           \A b \in live \ handled :
              IF origin'[push.pusher] = push.from THEN origin'[b] = start[b]
              ELSE origin'[b] \in {start[b], Plus(start[b], push.dir)} ]_vars

\* A push leaves nothing that is solid, has a size and moves inside a pusher, a wall
\* or something else that is solid and has one, also not when it failed and was
\* undone, or when a body died or was removed meanwhile; unless a function of the
\* game removed a body that had been pushed and spawned another in its slot, which a
\* failed move then puts back in its stead.  A point may be left inside the pusher,
\* and what has MOVETYPE_NONE or NOCLIP is passed over.
NothingStuck == (pc = "idle" /\ ~reused) => \A b \in (live \cap solid) \ (flat \cup still) : ~Stuck(b)
================================================================================
