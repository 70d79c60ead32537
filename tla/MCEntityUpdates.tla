---------------------------- MODULE MCEntityUpdates ----------------------------
(* EntityUpdates with the player, an edict that changes, and one that stays what *)
(* it is and whose number takes two bytes; the client's list has room for one of *)
(* them.  The third fits behind the second, is left out behind a long update of  *)
(* it, or overruns the datagram when it has no baseline.  A look takes one byte  *)
(* per field, a model one, a coordinate stands for three coordinates and three   *)
(* angles.                                                                       *)
EXTENDS EntityUpdates, TLC

B(m, o, l) == [model |-> m, origin |-> o, look |-> l]
MCBodies == (1 :> {B(1, 0, 0)}) @@
            (2 :> {B(2, 3, 0), B(2, 30, 1)}) @@
            (3 :> {B(1, 9, 1)})
MCBytes == [model |-> 1, origin |-> 9, look |-> 4]

\* Two states that differ in what nothing reads any more are one: the time a slot
\* in use was freed at, the positions of an entity that is out of view, and what
\* the message before the last told of it.
MCView ==
    <<time, paused, thinking, edict, free, pvs, overflow, net, baseline, life, quick,
      mtime, reading, last,
      [e \in DOMAIN prev.ents \cap DOMAIN last.ents |->
          <<prev.ents[e].body.origin, prev.ents[e].life>>],
      [e \in Edicts |-> IF free[e] THEN freetime[e] ELSE 0],
      [e \in Edicts |-> IF ent[e].msgtime = mtime[1] THEN ent[e] ELSE ent[e].model],
      IF reading THEN 0 ELSE <<placed, visedicts>> >>

\* The level starts with the first of the two edicts in use.
MCInit == Init /\ ~free[2]
MCSpec == MCInit /\ [][Next]_vars
=============================================================================
