------------------------------ MODULE TextureStore ------------------------------
(***************************************************************************)
(* What a renderer expects of the memory for its textures: one that was    *)
(* loaded has cells to itself, all in one page and none on the screen, and *)
(* stays there; and who loads the same once more is given what is there.   *)
(***************************************************************************)
EXTENDS Sequences, Naturals

CONSTANTS
    Unnamed,    \* the name of textures that are not looked for again
    PageCells,  \* the pages, sets of cells
    Screen,     \* the cells that are displayed
    Ragged      \* the sizes whose textures are loaded with a loss

VARIABLES
    store,      \* the textures, [name, size, cells], in the order they came
    refused     \* the requests for which the program gave up

Stored(name) == {i \in DOMAIN store : store[i].name = name}

Init == store = <<>> /\ refused = {}

Load(name, size, cells) ==
    /\ refused = {}
    /\ name = Unnamed \/ Stored(name) = {}
    /\ \E page \in PageCells : cells \subseteq page
    /\ cells \cap Screen = {}
    /\ \A i \in DOMAIN store : cells \cap store[i].cells = {}
    /\ store' = Append(store, [name |-> name, size |-> size, cells |-> cells])
    /\ UNCHANGED refused

Refuse(name, size) ==
    /\ \E i \in Stored(name) : store[i].size # size \/ size \in Ragged
    /\ refused' = {<<name, size>>}
    /\ UNCHANGED store

\* Whatever name, size and cells a new texture has.
Next ==
    \/ /\ Len(store') = Len(store) + 1
       /\ LET t == store'[Len(store')] IN Load(t.name, t.size, t.cells)
    \/ \E r \in refused' : Refuse(r[1], r[2])

Spec == Init /\ [][Next]_<<store, refused>>
=================================================================================
