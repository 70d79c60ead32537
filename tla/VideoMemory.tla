------------------------------ MODULE VideoMemory ------------------------------
(***************************************************************************)
(* The texture memory of the PlayStation: psx_vram_pack and its helpers in *)
(* gl_vidpsx_vram.c, and psx_LoadTexture of psx_draw.c, which scales large *)
(* textures down and looks a name up before it packs.                      *)
(*                                                                         *)
(* Video memory right of the screen is two rows of texture pages.  Each    *)
(* page lists the rectangles that are still available; a texture goes into *)
(* the top left corner of one, which is then cut into what remains to the  *)
(* right and what remains below.  Nothing is ever given back: textures     *)
(* stay for all levels of a session.                                       *)
(*                                                                         *)
(* A page counts in halfwords across, a texture in texels, of which two go *)
(* to a halfword.                                                          *)
(***************************************************************************)
EXTENDS Integers, Sequences, FiniteSets

CONSTANTS
    Columns,                \* of pages; there are 6
    PageWidth, PageHeight,  \* VRAM_PAGE_WIDTH, VRAM_PAGE_HEIGHT
    PageLeft, VidWidth,     \* where the pages begin, 256, and VID_WIDTH
    MaxRects,               \* the room of the two arrays of a page, 170
    MaxTextures,            \* PSX_MAX_VRAM_RECTS
    RectBytes,              \* sizeof(RECT)
    MipSize,                \* the 32 texels from which textures of the world are halved
    Names, Unnamed,
    Sizes                   \* what callers ask for: width, height, mipmap

Requests == [name : Names \cup {Unnamed}, size : Sizes]

ASSUME VideoMemoryAssumption ==
    /\ Columns \in Nat \ {0} /\ PageWidth \in Nat \ {0, 1} /\ PageHeight \in Nat \ {0}
    /\ PageLeft \in Nat /\ VidWidth \in Nat
    /\ MaxRects \in Nat \ {0, 1} /\ MaxTextures \in Nat
    /\ RectBytes \in Nat \ {0} /\ MipSize \in Nat
    /\ Sizes \subseteq [width : Nat \ {0}, height : Nat \ {0}, mipmap : BOOLEAN]
    /\ Unnamed \notin Names

\* What the screen takes of the first page of a row: 320 % 127 is 66, two more than
\* needed.
ReservedX == VidWidth % (PageWidth - 1)

ASSUME ScreenAssumption == VidWidth - PageLeft <= ReservedX

VARIABLES
    available,  \* page->available_rects
    textures,   \* vram_textures, the indices from 1
    exit        \* what the program has stopped with

vars == <<available, textures, exit>>

Pages == 0 .. 2 * Columns - 1
PageX(p) == PageLeft + (p % Columns) * PageWidth
PageY(p) == (p \div Columns) * PageHeight

Rect(x, y, w, h) == [x |-> x, y |-> y, w |-> w, h |-> h]

\* The first page of each row; a slip would forget the second row.
IsReservedFirst(p) == p = 0
IsReserved(p) == p \in {0, Columns}

WholePage(p) ==
    IF IsReserved(p) THEN Rect(ReservedX, 0, PageWidth - ReservedX, PageHeight)
    ELSE Rect(0, 0, PageWidth, PageHeight)

Init ==
    /\ available = [p \in Pages |-> <<WholePage(p)>>]
    /\ textures = <<>>
    /\ exit = [why |-> "no"]

Running == exit.why = "no"

-----------------------------------------------------------------------------
(* psx_LoadTexture: sizes, and the search for the name.                      *)

\* How far a texture is scaled down.
Divisor(size) ==
    IF size.width > 2 * PageWidth \/ size.height > PageHeight
    THEN LET divw == size.width \div PageWidth
             divh == size.height \div PageHeight
         IN  IF divw > divh THEN divw ELSE divh
    ELSE IF size.mipmap /\ size.width > MipSize /\ size.height > MipSize THEN 2 ELSE 1

\* In halfwords; an odd texel is cut off.
Width(size) == (size.width \div Divisor(size)) \div 2

Height(size) == size.height \div Divisor(size)

\* "to make DMA happy": the rows that are added.
HeightHack(size) == Height(size) % 4

\* psx_vram_find, by the hash of the name.
Found(name) == {i \in DOMAIN textures : name # Unnamed /\ textures[i].ident = name}

\* It takes a texture that lost a texel to the scaling for the same; a slip would
\* not.
CloseEnoughExact(t, size) ==
    size.width <= t.w * t.scale /\ size.height <= t.h * t.scale

CloseEnough(t, size) ==
    size.width - t.w * t.scale <= 1 /\ size.height - t.h * t.scale <= 1

Cached(r) ==
    /\ Running
    /\ \E i \in Found(r.name) : CloseEnough(textures[i], r.size)
    /\ UNCHANGED vars

Mismatch(r) ==
    /\ Running
    /\ \E i \in Found(r.name) : ~CloseEnough(textures[i], r.size)
    /\ exit' = [why |-> "mismatch", asked |-> r]
    /\ UNCHANGED <<available, textures>>

-----------------------------------------------------------------------------
(* psx_vram_pack and allocate_and_split.                                     *)

\* The available rectangles that are large enough, as a page and an index.
Fits(w, h) ==
    {c \in Pages \X (1 .. MaxRects) :
        /\ c[2] \in DOMAIN available[c[1]]
        /\ available[c[1]][c[2]].w >= w /\ available[c[1]][c[2]].h >= h}

Before(c, d) == c[1] < d[1] \/ (c[1] = d[1] /\ c[2] < d[2])
RemainingH(c, h) == available[c[1]][c[2]].h - h

\* The first of those with the least height remaining; one that is as high as the texture is
\* taken only if it is the first that fits.
Candidates(w, h) ==
    {c \in Fits(w, h) : RemainingH(c, h) # 0 \/ \A d \in Fits(w, h) : ~Before(d, c)}

IsChosen(c, w, h) ==
    /\ c \in Candidates(w, h)
    /\ \A d \in Candidates(w, h) \ {c} :
          \/ RemainingH(c, h) < RemainingH(d, h)
          \/ RemainingH(c, h) = RemainingH(d, h) /\ Before(c, d)

\* What remains of a rectangle; a slip would leave the rows at the right to both.
RightOfAll(r, w, h) == Rect(r.x + w, r.y, r.w - w, r.h)
RightOf(r, w, h) == Rect(r.x + w, r.y, r.w - w, h)
BelowOf(r, w, h) == Rect(r.x, r.y + h, r.w, r.h - h)

\* The rectangles of a page once a texture is in the corner of the i-th.
Split(rects, i, w, h) ==
    LET r == rects[i]
    IN  CASE r.w = w /\ r.h = h ->
                [j \in 1 .. Len(rects) - 1 |-> IF j < i THEN rects[j] ELSE rects[j + 1]]
          [] r.w # w /\ r.h = h -> [rects EXCEPT ![i] = RightOf(r, w, h)]
          [] r.w = w /\ r.h # h -> [rects EXCEPT ![i] = BelowOf(r, w, h)]
          [] r.w # w /\ r.h # h ->
                Append([rects EXCEPT ![i] = RightOf(r, w, h)], BelowOf(r, w, h))

OnPage(p) == {i \in DOMAIN textures : textures[i].page = p}

\* Sys_Error: the arrays of a page count as full one entry before they are.
IsFull(c, w, h) ==
    \/ Len(textures) >= MaxTextures
    \/ Cardinality(OnPage(c[1])) + 1 >= MaxRects
    \/ /\ Len(Split(available[c[1]], c[2], w, h)) > Len(available[c[1]])
       /\ Len(available[c[1]]) + 1 >= MaxRects

\* The memmove that closes the gap takes an index for a number of bytes; it then
\* writes behind available_rects, first of all over the number of rectangles.
Overruns(c, w, h) ==
    LET count == Len(available[c[1]])
        index == c[2] - 1
    IN  /\ Len(Split(available[c[1]], c[2], w, h)) < count
        /\ RectBytes * index + (RectBytes * count - index) > RectBytes * MaxRects

\* The record of a texture, and as history how many rows it was given and what was
\* asked for.
Texture(r, c) ==
    LET at == available[c[1]][c[2]]
    IN  [ident |-> r.name, page |-> c[1], x |-> at.x, y |-> at.y,
         w |-> 2 * Width(r.size), h |-> Height(r.size), scale |-> Divisor(r.size),
         rows |-> Height(r.size) + HeightHack(r.size), size |-> r.size]

Pack(r) ==
    LET w == Width(r.size)
        h == Height(r.size) + HeightHack(r.size)
    IN  /\ Running /\ Found(r.name) = {}
        /\ \E c \in Fits(w, h) :
              /\ IsChosen(c, w, h)
              /\ CASE IsFull(c, w, h) ->
                        exit' = [why |-> "full"] /\ UNCHANGED <<available, textures>>
                   [] ~IsFull(c, w, h) /\ Overruns(c, w, h) ->
                        exit' = [why |-> "overrun"] /\ UNCHANGED <<available, textures>>
                   [] OTHER ->
                        /\ available' = [available EXCEPT ![c[1]] = Split(@, c[2], w, h)]
                        /\ textures' = Append(textures, Texture(r, c))
                        /\ UNCHANGED exit

\* "Failed to pack": the caller goes on with texture 0.
DoesNotFit(r) ==
    /\ Running /\ Found(r.name) = {}
    /\ Fits(Width(r.size), Height(r.size) + HeightHack(r.size)) = {}
    /\ UNCHANGED vars

Next == \E r \in Requests : Cached(r) \/ Mismatch(r) \/ Pack(r) \/ DoesNotFit(r)

Spec == Init /\ [][Next]_vars

-----------------------------------------------------------------------------
(* Properties.                                                               *)

TypeOK ==
    /\ available \in [Pages -> Seq([x : Int, y : Int, w : Nat, h : Nat])]
    /\ textures \in Seq([ident : Names \cup {Unnamed}, page : Pages, x : Int, y : Int,
                         w : Nat, h : Nat, scale : Nat \ {0}, rows : Nat, size : Sizes])
    /\ exit.why \in {"no", "mismatch", "full", "overrun"}
    /\ exit.why = "mismatch" => exit.asked \in Requests

Area(t) == Rect(t.x, t.y, t.w \div 2, t.rows)
Empty(r) == r.w = 0 \/ r.h = 0
Apart(r, s) ==
    \/ Empty(r) \/ Empty(s)
    \/ r.x + r.w <= s.x \/ s.x + s.w <= r.x
    \/ r.y + r.h <= s.y \/ s.y + s.h <= r.y
Holds(r, x, y) == r.x <= x /\ x < r.x + r.w /\ r.y <= y /\ y < r.y + r.h
Within(r, s) ==
    /\ s.x <= r.x /\ r.x + r.w <= s.x + s.w
    /\ s.y <= r.y /\ r.y + r.h <= s.y + s.h

RectsInside(p) ==
    /\ \A i \in DOMAIN available[p] : Within(available[p][i], WholePage(p))
    /\ \A t \in OnPage(p) : Within(Area(textures[t]), WholePage(p))

RectsApart(p) ==
    /\ \A i, j \in DOMAIN available[p] : i # j => Apart(available[p][i], available[p][j])
    /\ \A i \in DOMAIN available[p], t \in OnPage(p) : Apart(available[p][i], Area(textures[t]))
    /\ \A s, t \in OnPage(p) : s # t => Apart(Area(textures[s]), Area(textures[t]))

NothingLost(p) ==
    \A x \in 0 .. PageWidth - 1, y \in 0 .. PageHeight - 1 :
        Holds(WholePage(p), x, y) =>
            \/ \E i \in DOMAIN available[p] : Holds(available[p][i], x, y)
            \/ \E t \in OnPage(p) : Holds(Area(textures[t]), x, y)

\* allocate_and_split cuts each page into textures and available rectangles: none
\* overlaps another or leaves the page, and no cell is lost between them, whatever
\* is loaded and in whatever order.
PagesTiled == \A p \in Pages : RectsInside(p) /\ RectsApart(p) /\ NothingLost(p)

Cells(t) ==
    {<<PageX(t.page) + x, PageY(t.page) + y>> :
        x \in t.x .. t.x + t.w \div 2 - 1, y \in t.y .. t.y + t.rows - 1}

CellsOfPage(p) ==
    {<<PageX(p) + x, PageY(p) + y>> : x \in 0 .. PageWidth - 1, y \in 0 .. PageHeight - 1}

\* Scaled down by n a texture keeps what n divides.
Cut(size) ==
    \/ size.width % (2 * Divisor(size)) > 1
    \/ size.height % Divisor(size) > 1

Store == INSTANCE TextureStore WITH
    PageCells <- {CellsOfPage(p) : p \in Pages},
    Screen <- (0 .. VidWidth - 1) \X (0 .. 2 * PageHeight - 1),
    Ragged <- {size \in Sizes : Cut(size)},
    store <- [i \in DOMAIN textures |->
                 [name |-> textures[i].ident, size |-> textures[i].size,
                  cells |-> Cells(textures[i])]],
    refused <- IF exit.why = "mismatch" THEN {<<exit.asked.name, exit.asked.size>>} ELSE {}

\* A texture is never written over another, over the screen or beyond its page, the
\* rows added for the transfer included; loaded again, also scaled down, it is found
\* and not taken for another of the same name.
ImplementsTextureStore == Store!Spec

\* The wrong length of the memmove does no harm in a page that has at most half of
\* the rectangles it has room for.
OverrunsOnlyCrowded ==
    exit.why = "overrun" => \E p \in Pages : 2 * Len(available[p]) > MaxRects
=================================================================================
