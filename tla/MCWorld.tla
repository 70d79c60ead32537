-------------------------------- MODULE MCWorld --------------------------------
(* World with three area nodes whose only plane is at 2.  Edicts are put on one  *)
(* side of the plane and up to it; moves sweep every box from 0 to 4.            *)
EXTENDS World

MCBoxes == {[lo |-> 0, hi |-> 1], [lo |-> 1, hi |-> 2]}
MCProbes == {b \in [lo : 0 .. 4, hi : 0 .. 4] : b.lo <= b.hi}

\* The box of an edict that is in no list and walks none is read by nothing
\* until SV_LinkEdict sets it anew, so two states that differ only there are one.
MCView ==
    LET seen == [e \in Edicts |-> IF list[e] = NULL /\ e # walker THEN Zero ELSE absbox[e]]
    IN  <<num_edicts, free, solid, seen, linkVars, pc, walkVars, history>>
=============================================================================
