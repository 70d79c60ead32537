-------------------------------- MODULE Arena --------------------------------
(***************************************************************************)
(* What an in-place allocator promises: it grants disjoint pieces of the   *)
(* interval Low .. High - 1, and a grant stays where it is, as long as it  *)
(* is, until its holder returns it.                                        *)
(***************************************************************************)
EXTENDS Integers

CONSTANTS Low, High, Overhead    \* Overhead: the smallest piece granted

VARIABLE owned                   \* the grants: address -> size

Init == owned = [a \in {} |-> 0]

Apart(a, m, b, n) == a + m <= b \/ b + n <= a

(* Address a with n bytes joins the grants. *)
Grant(a, n) ==
    /\ a \notin DOMAIN owned
    /\ Low <= a /\ Overhead <= n /\ a + n <= High
    /\ \A b \in DOMAIN owned : Apart(a, n, b, owned[b])
    /\ owned' = [b \in DOMAIN owned \cup {a} |-> IF b = a THEN n ELSE owned[b]]

Return(a) ==
    /\ a \in DOMAIN owned
    /\ owned' = [b \in DOMAIN owned \ {a} |-> owned[b]]

Next ==
    \/ \E a \in DOMAIN owned' : Grant(a, owned'[a])
    \/ \E a \in DOMAIN owned : Return(a)

Spec == Init /\ [][Next]_owned

=============================================================================
