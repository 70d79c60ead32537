---------------------------- MODULE MCVideoMemory ----------------------------
(* Two pages of 16 by 8 texels, of which the screen takes six across.            *)
EXTENDS VideoMemory

Size(w, h, m) == [width |-> w, height |-> h, mipmap |-> m]

\* As high as the page; halved, with odd texels; scaled down since it is wide; as high
\* as half of the page; with a row added, narrow and wide; of no halfword; too high.
MCSizes == {Size(8, 8, FALSE), Size(9, 5, TRUE), Size(20, 8, FALSE), Size(6, 4, FALSE),
            Size(6, 1, FALSE), Size(10, 1, FALSE), Size(1, 2, FALSE), Size(4, 12, FALSE)}
===============================================================================
