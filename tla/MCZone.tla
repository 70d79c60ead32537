-------------------------------- MODULE MCZone --------------------------------
(* Zone on a small instance: the struct sizes of the 64-bit build, room for  *)
(* eight of the smallest blocks, and payloads that fill a block exactly,     *)
(* leave less than MINFRAGMENT, and force a split.                           *)
EXTENDS Zone

MCRequests == {4, 76, 180}
===============================================================================
