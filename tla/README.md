# PSXQuake, specified

TLA+ modules for the engine core of PSXQuake, the port of Quake 1 to the
PlayStation 1 and the PC: its memory allocators, its in-process network, its
command buffer, the way a frame drives a game on the local machine, the lists of
entities its world is searched by, the interpreter of its game programs, what the
server tells the client of its entities, lifts and doors, the screens,
commands and demos the player goes through, and the texture memory of the PlayStation. TLC checks each module on a small
instance; TLAPS proves the zone allocator, the hunk and the cache correct for every size, the
loopback network for every pool and buffer, its use by the session and the order of its sign-on, the world's
lists and walks for every number of entities and area nodes, lifts and doors for every
grid, what the client shows for every number of entities and whatever is lost, the front end for every
number of demos and every length of the command buffer, the texture memory for every
number and size of pages and textures, and the interpreter for any functions, shared
places and depths of its stacks. Paths are relative to the
root of the repository's tree, so the C files are in `src/` there.

## The system

The engine is one thread that calls `Host_Frame` for ever. A frame reads input,
executes the command buffer, lets the client send, runs the server (accept,
read, physics, send) and lets the client read. A game on one machine is a server
and a client that talk over the loopback network. Nothing runs concurrently; what
is hard is what is left over from one frame to the next, from one call to the next
and from one level to the next, and what `longjmp` leaves behind.

| Part | Files | State it keeps | Operations | What makes it correct |
|---|---|---|---|---|
| Zone | `zone.c` | circular block list, rover | `Z_Malloc`, `Z_Free` | blocks tile the arena, no two free ones adjacent, failure only when full |
| Hunk and cache | `zone.c` | low and high mark, temporary block, block list, LRU list | `Hunk_*`, `Cache_*` | cache blocks stay between the marks, moved without overlap, evicted oldest first |
| Network | `net_main.c`, `net_loop.c` | socket pool, receive buffers, `canSend`, pending connection, poll list | `NET_*`, `Loop_*` | messages arrive in order and once, no socket lost or shared, a sender is answered |
| Command buffer | `cmd.c`, `keys.c` | text, wait flag | `Cbuf_AddText`, `Cbuf_InsertText`, `Cbuf_Execute` | commands stay whole and in order, the frame goes on |
| Host and session | `host.c`, `host_cmd.c`, `sv_main.c`, `sv_user.c`, `cl_main.c`, `cl_parse.c` | `sv.active`, client slot, `cls.signon`, `cls.message`, slot message | console commands, frame phases, sign-on, `Host_Error` | client and server agree on the level and the stage, errors leave nothing behind |
| Demos | `cl_demo.c`, `cl_main.c` | `demoplayback`, `demorecording`, `demofile`, `demonum` | record, stop, playdemo, timedemo, the loop | a demo never ends a game, a recording ends with its connection |
| Keys, console, menus | `keys.c`, `console.c`, `menu.c` | `key_dest`, `m_state`, the quit question's return | key events, menu items | every screen has a way out |
| Entity updates | `sv_main.c`, `cl_parse.c`, `cl_main.c` | baselines, datagrams, `cl_entities` | `SV_WriteEntitiesToClient`, `CL_ParseUpdate`, `CL_RelinkEntities` | the client shows what the last message told of |
| Size buffers, messages | `common.c` | `sizebuf_t` | `SZ_*`, `MSG_*` | no overflow unless allowed; modelled as far as entity updates need it |
| QuakeC | `pr_exec.c`, `pr_edict.c`, `pr_cmds.c` | call stack, edicts | interpreter, `ED_Alloc`, `ED_Free` | every call has locals of its own, a program leaves the stacks as it found them; slots are reused only when free |
| World and physics | `world.c`, `sv_phys.c`, `sv_move.c` | area lists, entities | `SV_LinkEdict`, `SV_TouchLinks`, `SV_PushMove` | an edict is found wherever its box is met, no freed one is, every trigger met is called; a push is done or undone as a whole; other movement is not modelled |
| Texture memory (PSX) | `gl_vidpsx_vram.c`, `psx_draw.c`, `gl_vidpsx.h` | rectangles of each page that are available, `vram_textures` | `psx_LoadTexture`, `psx_vram_find`, `psx_vram_pack` | textures overlap neither one another nor the screen, and stay; nothing of a page is lost |
| Variables, status bar, view, particles | `cvar.c`, `sbar.c`, ... | lists and screens | | not modelled: presentation |
| Renderers, platform, mathlib, sound | `render/`, `platform/`, `mathlib/` | | | not modelled: numeric, hardware, or vendored |

How they interact: every console command, key binding and `svc_stufftext` goes
through the command buffer; the commands call into the host, which calls the
server, the client and the network; the client's and the server's messages meet
in the loopback buffers; loading a level empties the hunk and with it may move or
evict cache blocks; key bindings, aliases and variables live in the zone. An error
anywhere runs `Host_Error` and jumps out of the frame.

`PROJECT.json` lists every part with what is left out, and the hazards with the
line where each bites and the properties that watch it.

## The modules

**`Zone`** (`zone.c` 29-204). `blk` maps the address of each header that the list
reaches to its size, tag and links; `rover` is `mainzone->rover`. `Z_TagMalloc` is
split at its loop (`Malloc`, `ScanOn`, `ScanFound`, `ScanFailed`) so that what
the scan has seen can be stated; `Z_Free` is `Free`. `Carve`, `Absorb` and
`MergeNext` are the list surgery. **`Arena`** says what callers rely on: grants
that are disjoint and stay put. `Zone` implements `Arena` with the blocks in use
as grants.

**`HunkCache`** (`zone.c` 262-856). `low` and `high` are the two ends, `list`
the cache blocks in address order, `lru` the LRU list. The loops of
`Cache_FreeLow`, `Cache_FreeHigh` and `Cache_Alloc` take a step per turn, since
between turns the marks have moved and the blocks have not. `Slots` is the search
of `Cache_TryAlloc`.

**`Loopback`** (`net_loop.c`, the pool of `net_main.c`). Two qsockets write into
each other's receive buffer; the buffer is a map from byte offset to message,
because alignment and room checks are about bytes. The client holds `netcon`,
the server `slots`. The pool holds more sockets than there are client slots, as
`net_numsockets` does (`net_main.c` 664-667). **`Channel`** is the promise: a pair of queues, lossless
until somebody closes. `Loopback` implements `Channel`.

**`Cbuf`** (`cmd.c` 60-175). The text character by character, a line at a time
cut off its front and copied into the array `line` of `Cbuf_Execute`, without a look at
its size: `LineOverruns` is the copy over its end, where the model stops. `LineFails` is a
command that raises `Host_Error`, whose `longjmp` leaves the loop with the rest of
the text. **`CommandQueue`** is the promise: a queue of whole commands.
`Cbuf` implements `CommandQueue` with the lines of its text as the queue,
found by a second definition of where lines end.

**`Session`** composes the frame, the console commands, `Host_Error` and the
sign-on with an instance of `Loopback` (`Net`), whose actions are its network
calls. `pc` is the phase of the frame. A command or an error is a list `todo` of
host operations, one network call each, that is worked off before the frame goes
on. The level in `cl` and the level the server loaded are numbers, so that a
message of the old level can be told from one of the new.

| Session | Code |
|---|---|
| `Type`, `ExecuteCommand`, `CommandsDone` | input and `Cbuf_Execute` |
| `Hangup`, `CloseClient` | the two halves of `CL_Disconnect` |
| `Shutdown`, `DropClients` | `Host_ShutdownServer` |
| `Notify`, `SpawnServer` | `SV_SendReconnect`, `SV_SpawnServer` |
| `Dial`, `DialFails`, `Reconnect` | `CL_EstablishConnection`, `Host_Reconnect_f` |
| `SendCmd`, `Accept`, `ReadMessage`, `ServerCommand` | `CL_SendCmd`, `SV_CheckForNewClients`, `SV_RunClients`, `Host_PreSpawn_f` / `Spawn_f` / `Begin_f` |
| `Physics`, `Exit`, `ProgramError` | `SV_Physics` with what the game code may do |
| `Datagram`, `Deliver` | `SV_SendClientMessages` |
| `ParseServerMessage` | `CL_ParseServerMessage` and `CL_SignonReply` |

**`World`** (`world.c` 166-438 and 749-809, `ED_Alloc` and `ED_Free` of
`pr_edict.c`, the links of `common.c`). `area` holds the two pointers of every
link: one in each edict, two anchors in each area node. `SV_LinkEdict` is the
operator `LinkEdict`; with `touch_triggers` it is the action `MoveAndTouch`,
which begins the walk of `SV_TouchLinks`: `Pass`, `Call`, `Return` for the list it
is on (`l`, `nextl`), `LeaveList` and `Descend` for its recursion, whose pending
calls are the list `todo`. Between `Call` and `Return` the touch function runs,
which is any sequence of the actions a program has: `Reuse` and `Extend`
(`ED_Alloc`), `Remove`, `SetOrigin`, `SetSolid`. The same actions between walks
are the think functions. `Astray` is the step where the C code would take a NULL
link or a foreign anchor for an edict; the model stops there. `list`, `due` and
`cut` are history: the list an edict was put in, the calls a walk owes, and whether
a touch function has unlinked the edict at the saved next link.

| World | Code |
|---|---|
| `Descent`, `FirstCrossed` | the loop of `SV_LinkEdict` down the tree, as a function of the node |
| `Walks`, `Reached` | the recursion of the two walks, likewise |
| `Unlinked`, `InsertedBefore` | `SV_UnlinkEdict`, `InsertLinkBefore` |
| `Reuse`, `Extend`, `NoFreeEdicts` | the three ways out of `ED_Alloc` |
| `Remove`, `SetOrigin` | `PF_Remove`, `PF_setorigin` and `PF_setsize` |
| `ClipError` | "Trigger in clipping list" in `SV_ClipToLinks` |

**`Programs`** (`pr_exec.c` 113-580). The locals of a function have fixed places
among the globals; a call saves what is there on `localstack`, the return puts it
back. `programs` is the C stack of `PR_ExecuteProgram` calls, since a builtin may
run another program. A statement is anything that matters to the stacks, and any
may come next. `HostError` is what `longjmp` makes of it, `Shutdown` the
`ClientDisconnect` that `Host_Error` runs on the way. **`Activations`** is the
promise: a stack of calls, each with a store of its own. `Programs` implements
`Activations`; the mapping finds the value a suspended call will see on the local
stack, in the part of the next call that covers the place.

| Programs | Code |
|---|---|
| `EnterFunction`, `Fits`, `Saved` | `PR_EnterFunction` |
| `LeaveFunction`, `Return`, `EndsProgram` | `PR_LeaveFunction`, `OP_RETURN` |
| `Assign`, `SetParm`, `Call` | the stores and `OP_CALL0` to `OP_CALL8` |
| `BuiltinRuns`, `BuiltinFails`, `StatementFails`, `RunawayLoop` | a builtin that runs a program or raises `Host_Error`, `PR_RunError` |

**`EntityUpdates`** (`sv_main.c` 391-510 and 857-884, `cl_parse.c` 300-466,
`cl_main.c` 328-529, `ED_Alloc`, `ED_Free`). The server's half writes a datagram per
frame from `edict` and `baseline`, the network loses it or keeps it for a while, the
client's half parses (`Parse`), and places the entities and lists those to draw
(`Relink`): `placed` is what `CL_RelinkEntities` computes, `visedicts` is `cl_visedicts`, without
`cl.viewentity` and full at `MAX_VISEDICTS`. `life` numbers the uses of a slot, `last` and `prev`
are the server as it was when the last two messages that were read were sent: history,
which the properties compare the picture with.

**`Demos`** and **`FrontEnd`** (`cl_demo.c`, `menu.c`, `keys.c`, `console.c`, the
commands of `host_cmd.c` and `cl_main.c`). `Demos` is an algebra: each function of the
code that changes the client's state is an operator from a client to a client, since
these functions call one another in the middle of their work. `FrontEnd` is the state
machine: a frame handles `Keys` (`Key`), executes the buffer (`Execute`), runs, and
reads messages (`Message`). `key_dest`, `m_state`, `m_quit_prevstate`, `wasInMenus`
and `bind_grab` are the variables of that name.

| FrontEnd | Code |
|---|---|
| `Escape`, `DemoKey`, `AddText`, `Say` | `Key_Event`, `Key_Console`, `Key_Message` |
| `LeaveMain`, `LeaveQuit`, `MenuEscape` | Escape in the `M_..._Key` functions |
| `OpenItem` to `QuitItem` | Enter in them |
| `GrabKey`, `Bind` | a key bound in the menu, and the `bind` that it inserts |
| `InsertingCommand`, `FailingCommand`, ... | what `Cmd_ExecuteString` runs |
| `ChangeLevel` | `changelevel` and `restart`: done, no map, or an error in the new level |
| `ReadMessage`, `DemoRunsOut`, `ServerEnds`, `Fails` | `CL_ReadFromServer` and its ends |

**`Pushers`** (`sv_phys.c` 381-514). Space is a grid; every body fills one cell and a
push is by one cell, so a pushed body goes all the way or not at all. `Begin`,
`Skip`, `Push`, `Passes`, `LeavesPoint`, `Flattens`, `Blocked`, `Undo` and `Complete` are the pieces of
`SV_PushMove` between which game functions run: `Removes`, `Kills`, `Places`, `Spawns`
are what these do. `Moves`, `Lands` and `Respawns` are the physics between two pushes. A body that is
`flat` has no size: a missile, a grenade, a corpse that was flattened; one that is `still` has
`MOVETYPE_NONE` or `NOCLIP` and is passed over. `Ends` is where `SV_PushEntity` may leave a
body: a missile has an owner that does not stop it, and with `MOVE_MISSILE` is stopped by what
it comes near. No pusher is a body, none of them is the NULL edict, and there is a body
(the player).

**`VideoMemory`** (`gl_vidpsx_vram.c` and the loading of textures in `psx_draw.c`). The
rectangles of a page are `available`, as sequences in the order of the arrays, since
the first of several that fit alike is taken. A request is a name and a size; what
follows it is one action, as the engine does nothing in between: the scaling, the search for
the name, the choice of a rectangle, its cut. **`TextureStore`** is the promise: a
texture has cells to itself, in one page and off the screen, keeps them, and is found
again. `VideoMemory` implements `TextureStore`, with the rows that are added for the
transfer among the cells.

| VideoMemory | Code |
|---|---|
| `WholePage`, `Init` | `psx_vram_init` |
| `Divisor`, `Width`, `Height`, `HeightHack` | `psx_LoadTexture` before and in `psx_vram_pack` |
| `Found`, `CloseEnough`, `Cached`, `Mismatch` | `psx_vram_find` and its error |
| `Fits`, `Candidates`, `IsChosen` | the search of `psx_vram_pack` |
| `Split`, `RightOf`, `BelowOf`, `IsFull`, `Overruns` | `allocate_and_split` and its errors |

**`ZoneProofs`**, **`HunkCacheProofs`**, **`LoopbackProofs`**, **`WorldProofs`**,
**`ProgramsProofs`**, **`EntityUpdatesProofs`**, **`FrontEndProofs`** and **`VideoMemoryProofs`** hold
the theorems; those about `Session` are in `LoopbackProofs`, since they rest on what is proved
of the network, and those about `Pushers` in `WorldProofs`, and those about `Cbuf` in `FrontEndProofs`, each by way of
an `INSTANCE`. Each `MC...` module
gives one instance its sets of sizes, texts, lines or boxes. Some definitions of the modules are commented as
slips: variants of the one next to them that a plausible mistake would produce.
No specification uses them; replacing the right definition by its slip makes the
run of the property named in `PROJECT.json` fail, which shows that the
property is about that code.

## The runs

| Run | Instance | Shows |
|---|---|---|
| `zone` | 392 bytes, headers of the 64-bit build, payloads 4, 76, 180 | soundness of the heap, the scan, refinement of `Arena` |
| `hunk_cache` | 304 bytes, three cache users, two sizes, one mark per end | placement, relocation and eviction, marks and temporary blocks |
| `loopback` | three sockets, one client, 24-byte buffers, payloads of 1 and 8 bytes | messages lie inside their buffer, an unreliable one but for a byte; the pool, refinement of `Channel`, acknowledgement |
| `cbuf` | 14 characters, an array `line` of 5, an alias that calls itself over a wait, a quoted semicolon, bindings with an open quote, a line that is too long, a command that may fail | refinement of `CommandQueue`, end of the frame |
| `session` | up to four levels, every way a load can turn out, six other lines | sign-on, level changes at exits, errors, failed connects |
| `session_changelevel` | two levels, changelevel typed at any time | **violated**: begun before prespawn and spawn |
| `world` | the world, a player and two slots, three area nodes, boxes on one side of the plane and up to it | lists stay rings of live edicts, walks look where edicts are, touch functions cannot upset a walk except through its next link |
| `programs` | a function that calls itself, one that shares its place, and `ClientDisconnect`; four frames, four places of local stack, four statements | refinement of `Activations`, balanced stacks, programs end |
| `updates` | the player and two slots, one of them numbered from 256 on; a datagram that the last one fits into, is left out of, or overruns; a list of one entity to draw; three frames, one datagram under way | the picture is that of the last message, as far as the list has room; no edict is placed as another one moved |
| `frontend` | two demos in the loop, three commands in the buffer, level changes that work and that fail | screens have ways out, the demo loop keeps off games, recordings end |
| `pushers` | one lift, a player and two slots, a grid of two by two, two effects of game functions per push | a push is all or nothing and leaves nothing that is solid, has a size and moves inside something solid |
| `video_memory` | two pages of 16 by 8 texels, four rectangles and textures, one name and textures without one, eight sizes | cuts tile the page, refinement of `TextureStore` |

Why the bounds are enough. The zone has room for up to five blocks, so a
block with free, used, and no neighbours on either side is split, merged both
ways, and the rover stands at each place; the three payloads leave no rest, a rest
below `MINFRAGMENT`, and one above. In the hunk three users give a gap in front,
between and behind, and a relocation that passes another block; sizes differ, so
that one block fits where another does not. The loopback buffer holds two or
three messages, one of which needs padding. The command buffer overflows in
every one of its three ways, and the array `line` has room for every text of the run but one. In a session the second level is the first that can
be upset by the one before, the third by an error in between. In the world two
slots beside the player give a walk with a trigger being touched and one that is
next. One axis is
enough because each area node compares one, and three nodes have one plane, with
boxes below it, up to it, and moves sweeping all around it. Two states that
differ only in the box of an edict that is in no list are merged (`MCView`), since
`SV_LinkEdict` sets that box before anything reads it. That a slot rests half a
second after the first two seconds of a level is left to choice: any free slot may
be one that has rested. A walk begun by a touch function is not followed; what it
does to the lists of the outer walk is what the touch function may do anyway.

Four frames and four places let a function call itself twice and fail for want of
either stack; two functions with the same place and one caller are what it takes for a
value to get lost. In the updates the slots besides the player are used, freed and used
again after the rest that `ED_Alloc` gives them (the exception for the first two seconds is left to the theorem), in time for
the last message, and the bytes are chosen
so that a longer update of the one pushes the other out of the packet, and one
of the other overruns it when it has no baseline. Both in view are one more than the list of those to draw has room for.
Three commands are one in front of the playdemo that is
inserted, the playdemo, and one behind. A lift with three bodies has one that is
pushed, one that was pushed before and one that blocks or is used by a game function; each may be
sized or a point, moving or still, solid or not, and the four cells leave one free besides theirs
or stack two, a body on the lift and one on that. Two effects are a removal and a spawn in the slot that it left. The eight sizes of
textures take each way through the cut (both sides left, one, none), through the scaling
(too wide, too high, of the world and halved with a texel lost) and through the padding,
and one is of no halfword. Two pages are the first ones of their rows, which begin
behind the screen; four entries are enough for an array to be full and for the memmove to
overrun it.

The violation, described under `findings` in `PROJECT.json`:

- A `changelevel` typed in the few frames of a sign-on lets the server read
  requests of the old level in the new one; the client then waits for ever
  (`sv_main.c` 206). The game's own exits do not do this as long as only a player
  who has begun reaches them; that is the constant `ExitsEarly`, `FALSE` in the
  runs.

### Comments that differ from the code

Found while modelling, and described by no run of its own:

- `zone.c` 848 "free the least recently used": `Cache_Move` (548-567) relocates through
  `Cache_TryAlloc`, which makes the block the most recently used (684, 706).
- `cmd.c` 104 "Adds a \n to the text": `Cbuf_InsertText` (107-127) adds none, so the last
  line of an exec'd file without an end runs together with the command behind it.
- `cmd.c` 131 and 151: the array `line` of `Cbuf_Execute` has 1024 bytes and the buffer 8192; a longer
  line is copied over its end. Nothing says that a line must be shorter, and exec'd files
  and `svc_stufftext` need not be.
- `net_loop.c` 187: `Loop_SendUnreliableMessage` looks for room for three bytes and the text, and
  writes a header of four. The last message of a full buffer ends one byte behind it, in
  `addr`, which this driver does not use.
- `cmd.h`: the command buffer "will grow as needed"; it never grows. `zone.h`: `Z_Malloc`
  returns zero filled memory; so under `PARANOID` only.
- `host.c` 109: `Host_Error` "shuts down both the client and server"; during a load
  `sv.active` is false and the client slot stays taken. The `session` run includes
  this, and shows that the next connection attempt fails and puts it right.
- `world.h` 49-53: `SV_LinkEdict` "calls prog functions for the intersected triggers",
  unless one of them unlinks the trigger that `SV_TouchLinks` saved as the next: then
  the walk follows a NULL or a foreign link (`TouchesEach` has this exception).
- `protocol.h` 30: `U_NOLERP` "don't interpolate movement"; `forcelink` is cleared by the
  first `CL_RelinkEntities` after a message, so a stepping monster is interpolated in
  the second frame drawn between two messages.
- `pr_exec.c` 205: `PR_RunError` dumps the stack "so host_error can shutdown functions", but
  only one of the two stacks. What the dead calls had saved stays on `localstack`
  (`localstack_used`), for the `ClientDisconnect` that `Host_Error` runs, which may
  then fail for want of room inside the error, and for every later level.
- `gl_vidpsx_vram.c`: the texture found by its name is taken if it is "close enough" in size.
  A texture that was scaled by `n` is close enough if no more than one texel was lost:
  a width that leaves 2 or more over `2 * n` ends the program when it is loaded again. The
  refinement mapping names these sizes `Ragged`.
- `psx_draw.c` `psx_LoadTexture` and `psx_vram_pack` add `height % 4` rows, which makes a
  multiple of four only of a height that is even.
- `cl_main.c` 157 "not in the demo loop now": a menu that saved `demonum` before
  gives it back when it is closed (`m_save_demonum`).
- `cl_demo.c` 323: `CL_FinishTimeDemo` takes `1 * MS_PER_S` from the count of frames where
  the first frame is meant. `cl_main.c` 349-357: `CL_LerpPoint` "determines the fraction
  between the last two messages", but bounds it by 1 * MS_PER_S and not by 1, so that
  up to the next message an entity may be drawn beyond the last one. The model has
  only the ends of the fraction.

### Deadlock

The zone, the hunk and the command buffer stop when the program does
(`Sys_Error`), and so do the world, or its walk is lost, the interpreter, the
updates (a full datagram), the front end (`quit`, or a NULL file) and the texture
memory (full, or a name with another size); a push stops at a
bound of the model. Their runs do not look for deadlock. The loopback and session
runs do: in a session a network call that the loopback module does not allow
(a full buffer, a missing end) would show as one.

### Fairness

`Zone` and `HunkCache`: a call, once begun, goes on, since nothing else has the
processor. `Cbuf`: `Host_Frame` runs `Cbuf_Execute` in every frame and it returns
only at its end. `Loopback`: the server looks for new connections and each end
reads its socket in every frame. `Programs`: `PR_ExecuteProgram` goes on until it
returns. `Session`: the main loop goes on calling
`Host_Frame`; nothing is assumed of the user or the game code.

## The proofs

`ZoneProofs` proves, for every zone size, header size, `MINFRAGMENT` and set of
requests that satisfy `ZoneAssumption` (a header fits into a fragment, the end cap
lies in front of the first block):

| Theorem | Says |
|---|---|
| `ZoneInvariant` | the inductive invariant `IInv` |
| `ZoneTyped`, `HeapAlwaysSound`, `RoverAlwaysListed` | type, tiling and links, rover |
| `SysErrorOnlyWhenFull` | `Z_Malloc` fails only if no free block is large enough |
| `ZoneImplementsArena` | `Spec` implements `Arena!Spec` |
| `ScanComesCloser` | each turn of `Z_TagMalloc`'s loop leaves one block fewer ahead of the scan |

The argument. `HeapSound` alone is inductive for `Z_Free` and for carving: the
lemmas `AbsorbHeap`, `SplitHeap` and `RetagHeap` say what each piece of list
surgery keeps, and `MergeFree` that after both merges no two free blocks are
adjacent. That `Z_Malloc` gives up only when full needs more, since the scan
starts wherever the rover stands and goes in steps of two past a free block that
is too small: `ScanInv` says that no block from the rover to `base`, going round
the list, fits. It can pass over the block behind a free one because free blocks
are never adjacent, so `ErrorOnlyWhenFull` rests on `HeapSound`. `NextIsSuccessor`
ties the order of the list to the order of addresses. For the refinement,
`FoundIsGrant` and `FreeIsReturn` show that a found block is a grant and a freed
one a return; all other steps stutter. `ScanComesCloser` counts `Ahead`, the blocks from the
one that the scan looks at to the rover's, going round the list: `AheadShrinks` takes the
current one off, which needs the rover to be listed and the links to be mutual.

`LoopbackProofs` proves, for every pool, every size of buffer and every set of messages that
satisfy `LoopbackAssumption`, of behaviours that are `Orderly`:

| Theorem | Says |
|---|---|
| `MessagesStayInside` | a reliable message ends inside its buffer, an unreliable one at most one byte behind it, as the last |
| `PoolStaysSound` | every qsocket is on one list, and what designates one is in use |
| `BothEndsOrNoneHolds` | `Loop_Connect` never gets one end and not the other |
| `LoopbackImplementsChannel` | `Spec` implements `Channel!Spec` |
| `NobodyWaitsInVain` | an end that may not send has a reliable message in the other end's buffer, and that end is open |
| `ReadingRelieves` | each message read brings that one nearer to the front, nothing gets in before it |

and, for every session with one client slot (`OneGame`: the pool, and messages of four bytes made of
what client and server say):

| Theorem | Says |
|---|---|
| `SessionIsLoopback` | the network calls of a `Session` are a behaviour of `Loopback`, and orderly |
| `AcceptAlwaysHasEnds` | a server accepts only with a free slot and both ends of a connection |
| `SignonGoesInStep` | in an `OrdinaryGame`, the client is given no stage of the sign-on but the next one |
| `BegunAlwaysInOrder` | in an `OrdinaryGame`, who takes part in a level was told that level and all its stages |
| `HandshakeNeverStalls` | in an `OrdinaryGame`, whenever no operation is pending and a client is connected to a running server, the server can accept it, or one side has something to read or something it may send |
| `HandshakeOnlyClimbs` | in an `OrdinaryGame`, within a level no stage is taken back, sent twice or asked for twice |
| `ClientNeverOverflows` | the client sends into an empty buffer only, and its farewell comes behind at most one message |
| `ServerNeverOverflows` | in an `OrdinaryGame`, the server sends into an empty buffer only |

The argument. `Orderly` says that the client connects only when no slot is left from an
earlier connection; `OneSlotIsOrderly` shows that with one slot every behaviour is orderly, and
`CL_EstablishConnection` begins with `CL_Disconnect`. It is needed: with two slots and a client that
connects over a stale slot TLC finds `PoolSound` violated in a few steps, as
`Loop_Connect` takes the socket that the driver remembers, which the stale slot still
designates. The code then depends on the server having looked at the stale slot first. The
inductive invariant is `Shape /\ Lists /\ Ends /\ Buffers`: the two lists hold every socket
once (`Lists`), the active one holds the two ends and nothing else (`Ends`), and each buffer is a row
of messages, one behind the other from 0 to its length (`Buffers`). A buffer is a map
from offsets, so the queue it stands for is found by the rank of an offset; `QueuePut` and
`QueueGet` say that a message written behind the others comes last, and that what
`Loop_GetMessage` moves to the front is the same queue without its first entry.
`Owed` says that of an end whose `canSend` is false the message is still in the other's buffer: only
`Loop_SendMessage` clears the flag, with the message it writes, and `Loop_GetMessage` sets it with the
message it takes; there is never a second reliable one behind it that could be taken for it, and a
connection that is made, accepted or closed begins or ends with both flags and both buffers.

For the session, each network call that an operation makes is one of `Loopback` (the `Same...`
lemmas), with messages that `Loopback` knows: what waits in a buffer, in `cls.message` or in the slot's
message is something the one side says to the other (`Heard`, `Spoken`). The client closes its
end before the server gives up the slot, and an error during a load leaves a slot taken with no server
active; in between other operations are pending. `Agenda` lists what may be left in `todo`, by whether the
client is connected and the server active: so a dial finds the client disconnected, and a connection that waits to
be accepted has lost neither end and has a free slot (`Awaited`).

All of these but the first two and `ClientNeverOverflows` are about sessions in which levels change the way the game changes them
(`OrdinaryGame`): an exit is reached by a player who has begun, and the lines typed, any number
of them and in any frame, start, end and join games; a `wait` stands only in front of such a command. The
constants of `MCSession.cfg` satisfy this. Neither part can be left out. A `changelevel` typed during a sign-on
is the violation above. With a line of several waits TLC finds `SignonInStep` violated: the `reconnect`
that the server sends with a new level is queued behind them, the handshake of that level begins meanwhile, and
when the client obeys at last it counts its stages from 0 again. The inductive invariant is
`SInv /\ Order`. What one side says is in `cls.message`, in the buffer of the other end, or being
read there, and only ever in one of these (`Clean`), so `Hear` and `Say` are all that is under way. `Stages` lists what
may be under way, with `cls.signon`, the slot's message and `spawned`: the client is being recalled; stage 1, 2 or 3
is due, sent, or asked for; or the player has begun. A new level that finds messages under way must not
let them count for it: `SV_SendReconnect` runs only after a player has begun, when nothing is left to hear, and
`canSend` keeps the `serverinfo` back until the client has read the `reconnect`. `Queued` and `InTurn` say
where in the command text that `reconnect` stands, so that it is executed before the server's next
message is sent. A client without a server hears nothing but a recall (`Deserted`), and one that a server has yet to accept has said
and heard nothing (`Waits`).

`HandshakeNeverStalls` is read off the same invariant with two facts more: a message for a client that has
not begun has been asked for (`Pledged`: `sendsignon`), and a connected client waits to be accepted or has the
slot (`Admitted`). In each of the `Stages` somebody then has something to do. `HandshakeOnlyClimbs`
numbers the stages by `Rung`: four to a level of `cls.signon`, as the message of a stage is due, sent or answered.
Together they are what is left of `SignsOn` without fairness: until a level ends its handshake is somewhere, can
go on, and does not go back.

The actions of `Session` take a message only when it fits (`RoomFor` of `Loopback`), where `Loop_SendMessage` has a
`Sys_Error`, or drops a datagram without a word. `ClientNeverOverflows` and, in an
`OrdinaryGame`, `ServerNeverOverflows` say that this leaves out nothing, as soon as a
buffer holds each message by itself and the client's last two together. `OneWord` is the invariant for the client: what it
said stays unread only as long as it may say nothing else. The server also sends where it does not look at
`canSend` (`SV_SendReconnect`, `SV_SendClientDatagram`); that the client, whose turn comes last in a frame, has read
everything by then is in `Stages`.

`WorldProofs` proves, for every number of edicts, clients, area nodes and every
set of boxes that satisfy `WorldAssumption`:

| Theorem | Says |
|---|---|
| `WorldLinksSound` | every area list is a ring of mutual links |
| `WorldLinkedLive` | what is in a list is allocated and not free |
| `WorldFoundWhereLinked` | a walk for a box looks into the list of every edict whose box it meets |
| `WorldTouchesEach` | a walk calls every trigger it owes a call, unless a touch function unlinked its next link |

and for every grid, any pushers and any bodies that satisfy `PushersAssumption`:

| Theorem | Says |
|---|---|
| `PushersNothingStuck` | nothing that is solid, has a size and moves is left inside something solid after a push |
| `PushersAllOrNothing` | a push moves everything or puts everything back |

The argument. `LinksSound` relates the pointers to the history variable `list`;
stated like this it is kept by each piece of list surgery on its own:
`UnlinkSound` for `SV_UnlinkEdict`, `InsertSound` for `InsertLinkBefore` of a link
that is in no list, and `LinkEdictKeeps` for the two in a row, which is all of
`SV_LinkEdict`. That the link is in no list when it is inserted is what the
unlinking first is for. `LinkedLive` needs `num_edicts` to stay above every linked
edict and `SV_LinkEdict` to look at `free`; both are in the inductive
invariant `IInv`, with the types of the variables that these operations read. The
walk's own state appears nowhere in it: whatever the touch functions do, the lists
themselves stay sound, also when the walk is lost.

`FoundWhereLinked` is about the tree: the loop of `SV_LinkEdict` and the recursion of the walks go
down the same nodes as long as a box meets another one. The depth of a node bounds what is below it, so both
recursions are well founded (`RankInduction`, from the least element of a set of counterexamples), and a
box that meets another goes to every child where the other one may be. For `TouchesEach` the walk's own
state is needed. What it still owes a call is ahead of it: in the list it is on, behind `l`, or
in the list of a node that is below one in `todo`. Behind `l` is said by an order: an edict is
inserted before the anchor, so those of one list stand in the order of the times they were
linked, and a touch function that links one puts it last. `nextl` is saved before the call;
when a touch function unlinks that very edict the walk is lost or goes on in
another list, which is what `cut` records and the theorem excepts.

The pushers' invariant `PushInv` follows one `SV_PushMove`. While it goes through the bodies in the order of their numbers,
what it has pushed stands one cell on, in a cell that was clear of anything solid when it
was tried; where a body came from stays clear until the push is done or undone, unless a
game function put something there (`Returnable`, `handled`). So an undo finds its cells vacated; it
goes in the order of the pushes. A body spawned in the slot of one that was pushed is put
back in the other's place by an undo, and may end up inside something: that is why `reused` is
excepted. All this is about what the push can move (`Movable`) or run into (`Solids`). A point that is
still inside the pusher is left there and the push goes on (`sv_phys.c` 483), and what is not to be
moved is passed over (448); neither blocks a push, and what has a size is not clipped against a
point (`world.c`: "points never interact"), so they leave the others' cells clear.

`EntityUpdatesProofs` proves, for every set of edicts and bodies, sizes of fields and of the
datagram that satisfy `UpdatesAssumption`, whatever the network loses or keeps:

| Theorem | Says |
|---|---|
| `ShowsTheLastMessage` | what the client places is what the server had when it sent the last message that was read; it draws that, the player's own entity left out, up to `MAX_VISEDICTS` |
| `NeverMorphs` | no edict is placed on its way from the place of another that had its number before |

The argument. A message carries only what differs from the baseline, which both sides have: `Decodes` says
that with the baseline it gives back the server's edict of its time. Datagrams stay in
order, `Follows`: of two, an edict that both tell of is the same one, or
its slot had rested between them for longer than `ED_Alloc` asks, or was used in the first two seconds. `NoMorph` needs it of
the last two messages that were read, not the last two sent, so it is stated of
every pair that may become that: of messages under way, and of the last with each of them.

`FrontEndProofs` proves of the front end, for every `MaxDemos` and `MaxText`:

| Theorem | Says |
|---|---|
| `NeverStuck` | keys that go to the menus find one |
| `EscapeLeadsOut` | every Escape in the menus is one step nearer to the game |
| `LoopLeavesGame` | the loop of demos keeps off running games |
| `FrontEndTyped` | types of the client, the screens and the buffer |
| `RecordingAlwaysEnds` | a command that takes the client out of the game it records ends the recording (`record` with a map excepted, which begins one) |

The argument. Two invariants, each inductive by itself. `MenuInv` is about the screens:
a quit question that came from a menu has one to go back to, and that one is no quit
question, since `M_Menu_Quit_f` does nothing when it is open; so the steps that lead up
end. `ClientInv` is about the client and the buffer: the client is in one place, and the
playdemos of the loop are a prefix of the buffer, since `CL_NextDemo` inserts; whatever
starts a server is a command, and a command that is executed was in front, so there is
no playdemo behind it. With `Cbuf_AddText` instead the prefix would be lost, which is the
slip `AddNext`. Each operator of `Demos` has a lemma that it keeps the client's type and
place, and the proof of a step cites those of the functions the action calls. `RecordingAlwaysEnds` follows
the commands: a client that records is connected and plays no demo (`Ready`), so a `CL_Disconnect` that a
command calls comes to `CL_Stop_f`, and what is left (`Quiet`) stays without a recording until the command is
done, since what the same command starts then is a game or a demo. To be in a game is to be connected: a `changelevel`
whose map is missing ends the server (`sv_main.c` 1050) and leaves the client connected and recording, until it is
taken out of what is left.

and of the command buffer, for every size of it, every set of texts and bindings, and whatever
text a line inserts or adds:

| Theorem | Says |
|---|---|
| `CommandsStayWhole` | `Cbuf!Spec` implements `CommandQueue!Spec`, until an overflow is reported or a line outgrows the array of `Cbuf_Execute` |
| `OverrunNeedsLongLine` | no line outgrows that array before an overflow was reported, if none that is added or inserted is that long by itself (`ShortLines`) |

The first does not hide the unchecked copy: past it the queue promises nothing. The second says where it can come
from: the buffer makes no long line out of short ones, so the texts decide, and an exec'd file or a
`svc_stufftext` may have one. A command that raises `Host_Error` is a step of the queue (`Fail`): it
is gone, the others stay.

Both have the hypothesis `WholeLines`: what is added in one call, inserted by a line or added by
it is empty or ends with `\n`; bindings are exempt, since `Key_Event` adds theirs, and so
are typed lines (`keys.c` 234). The calls in the C code keep to it; an exec'd file without a last line
end does not, and there the promise is indeed broken (see the comment at `cmd.c` 104 above).
What a game program passes to `localcmd` or `stuffcmd` is for that program to end. The run `cbuf`
satisfies the hypothesis.

The argument. The invariant `CInv` is that until an overflow the text is empty or ends with `\n`. The
refinement mapping `Lines` finds the ends of all lines at once, by the quotes since the last
`\n`, while `Cbuf_Execute` cuts one line off and counts the quotes from the start of
what is left. `EndsJoin` says that the ends in a text behind a finished line are those of the text alone,
moved, since no open quote reaches over a line end; `NthJoin` that the nth end then is that of the one or the other part,
so the lines of two texts are the lines of the one and then of the other (`LinesJoin`). `FirstEnd` says
that counting quotes from the start finds the same first end, and `CutLine` that cutting the line off is
taking the head of the queue. `LinesAdded`, `LineExecuted` and `LineFailsStep` then are the actions. For `OverrunNeedsLongLine` the
same lemmas say that the lines of the text stay short (`LInv`).

`VideoMemoryProofs` proves, for every number and size of pages, every room in their
arrays and every set of textures that satisfy `VideoMemoryAssumption` and
`ScreenAssumption` (what `psx_vram_init` reserves covers the screen):

| Theorem | Says |
|---|---|
| `VideoMemoryInvariant` | the inductive invariant `IInv` |
| `AlwaysTiled` | textures and rectangles tile each page |
| `OverrunNeedsCrowd` | the memmove overruns only a page that is more than half full of rectangles |
| `VideoMemoryImplementsStore` | `Spec` implements `TextureStore!Spec` |

The argument. A page is cut into pieces: the rectangles that are available and the areas
of the textures. `CornerCut` says what the cut of one rectangle does, as a statement about
four rectangles only: the corner and the two rests lie in it, are apart and cover it.
`SplitFacts` reads the four cases of `Split` as one such cut of one entry of the array, and
`SplitKeeps` that a page that is cut into pieces stays so. Empty rests, which the
code keeps, are apart from everything and hold no cell. That textures keep clear of the
screen is where the reserved part of the first page of each row comes in
(`OffScreen`), and that two pages share no cell is arithmetic (`Strides`, `PagesDiffer`). For
the refinement, `PlacedIsLoad` shows that a packed texture is a load into cells that no
other has, and `MismatchIsRefusal`, from the division lemma `HalvedBack`, that a refused
name was asked for with another size or one that loses texels (`UncutIsFound`).

`ProgramsProofs` proves, for every set of functions wherever their locals lie, every
depth of the two stacks and every runaway count that satisfy `ProgramsAssumption` (a
function has at least as many locals as parameters):

| Theorem | Says |
|---|---|
| `ProgramsInvariant` | the inductive invariant `IInv` |
| `ProgramsTyped` | stacks stay within their arrays, places hold values |
| `ProgramsBalanced` | a call that returns leaves the local stack as it found it |
| `ProgramsImplementActivations` | `Spec` implements `Activations!Spec` |
| `ProgramsNestShallow` | programs nest less than `MAX_STACK_DEPTH` deep |
| `ProgramsRunDown` | every step is work done: a measure of what is left goes down |

The argument. `Framed` says that the parts which the calls saved lie one behind the other
on the local stack, so `PR_LeaveFunction`, which goes down by the locals of the function
that returns, takes off what this call saved and no more. For that the function in
`pr_xfunction` has to be the one that was entered last, also after a program ran in the
middle of a builtin: `Nested` says that each program has calls of its own above those of
the program around it. For the refinement, what a suspended call will find in a place is
in the globals, or in the lowest saved part above it that covers the place
(`LowestExists` by well-founded induction on the naturals); `EnterLocal`, `LeaveLocal` and
`AssignLocal` say what each kind of step does to that, and an error is the abstract
abort. Underflow is not assumed away: the proof shows that `Leave` never meets it.
The measure of `ProgramsRunDown` is a row of numbers, compared from the left: the phase (a program runs, or one of those of
`Host_Error` is left), then the runaway counters of the nested programs,
outermost first. A builtin that runs a program has been paid for by the statement of its caller. As no row is longer
than `MAX_STACK_DEPTH` and no counter starts above `Runaway`, the measure cannot go down for ever.

`HunkCacheProofs` proves, for every size of the hunk, its headers and the requests, and
any number of users that satisfy `HunkAssumption`:

| Theorem | Says |
|---|---|
| `HunkCacheInvariant` | the inductive invariant `IInv` |
| `CacheAlwaysSound` | the ends never meet, blocks lie apart and between them |
| `ListsAlwaysAgree` | both lists hold the same blocks, each once |
| `MarksAlwaysHold` | no "bad mark" for callers that free in stack order |
| `OnlyWhenHopeless` | `Cache_Alloc` gives up only when nothing could help |
| `LoopsRunDown` | each turn of a loop that goes on drops a block or moves one away from the end that grows |

The argument. `CacheSound` says nothing of the steps in the middle of a loop, so the
invariant says what each loop has not cleared yet: in `Cache_FreeLow` blocks may lie below
the low end but not above the high one (`ClearHigh`), in `Cache_FreeHigh` the other way
round, and each stops only when the first, or the last, block of the list is out of the
way, which by the order of addresses means all (`LowClearIsClear`, `HighClearIsClear`).
`GapFacts` says what the gap that `Cache_TryAlloc` found leaves before and behind it, and
`FromFacts` where each entry of the list goes when `Cache_Move` links the copy in before
it unlinks the block; the copy may well lie behind the block itself. `OnlyWhenHopeless`
rests on `ListsAgree`: an empty LRU list means that no block is left. `LoopsRunDown` needs blocks
that are not empty (`Sized`): `Cache_FreeHigh` moves a block to a place below the one it had, `Cache_FreeLow`
to one above, and a block of size 0 might be moved to where it was.

Checked by TLC only, and why:

- Liveness, which this prover cannot do (fairness needs ENABLED): `ScanEnds`, `CallsEnd`, `SenderResumes`, `FrameEnds`,
  `SignsOn`, `ProgramsEnd`. What each rests on without fairness is proved, except for `FrameEnds`:
  `ScanComesCloser`, `LoopsRunDown`, `NobodyWaitsInVain` with `ReadingRelieves`, `HandshakeNeverStalls` with
  `HandshakeOnlyClimbs`, `ProgramsRunDown`. `FrameEnds` depends on what the `aliases` of the run insert: with one that
  inserts its own name a frame does not end.
- What `SignonInStep` and `BegunInOrder` of `Session` say of sessions that are no `OrdinaryGame`; there they do not
  hold in general, see above.

## Not modelled, and the plan

Left out of what is modelled: the contents of memory, names and sentinels;
32-bit overflow of sizes (requests come from the engine and are far below);
several players and remote drivers (only the loopback driver is built); dedicated
servers; the contents of savegames; time. The length of a session's messages is
constant, so a client message that overflows is out of its reach.

Limits of single models, and what lies behind them in the code:

- `Loopback`: where the byte behind the buffer lands is C's layout of `qsocket_t`, not the model's. No
  datagram of a game gets there: it is at most `MAX_DATAGRAM`, and goes into an empty buffer
  (`ServerNeverOverflows`).
- `Cbuf`: behind a line that overran its array, and behind a `Sys_Error`, nothing is followed. `LineFails`
  drops the line and nothing else; what `Host_Error` does to the game is in `Session` and `FrontEnd`.
- `Programs`: `PR_StackTrace` after a stack overflow writes one entry behind `pr_stack`
  (`pr_exec.c` 141); `pr_xfunction` dangles after an error, until the next call. The
  underflow errors are shown impossible and not modelled.
- `EntityUpdates`: statistics, sounds and particles share the datagram and are a constant
  `Header`. The PVS is a set the programs choose. `cl.viewentity` is the player's own edict; a game that sends
  `svc_setview` of another in an intermission leaves out that one instead. A full datagram is an
  exit of the model, as nothing in the code says which of its two ends it comes to. That an entity past
  `MAX_VISEDICTS` is not drawn is the code's bound; the temporary and static entities
  that the list takes behind these are left out.
- `FrontEnd`: name and command texts are one token each, and so is a `bind`, which changes nothing that the
  model has. The video menu is left
  out, as the port sets no function that draws it; the network menus cannot be
  reached in the build. What the model stops at, or merges: recording while disconnected,
  then a demo, then `stop`, leaves a NULL file to be read; `record` over a recording
  leaves its file open; an error in a command that the client sent to the server leaves
  the recording running (`CL_Stop_f` looks at `cmd_source`); a `timedemo` of a missing
  file stays timed; `m_state` stays `m_quit` behind a console that was opened over the
  question, and `quit` then does nothing. `CL_NextDemo` reads `cls.demos[MAX_DEMOS]` before
  it looks at the bound.
- `Pushers`: nothing moves by part of a cell. Owners are there for points only (a missile
  and who fired it), as a choice of where a push leaves one, and so is `MOVE_MISSILE`. A body that starts
  as a trigger or a corpse has a size and moves; players are not in `MOVETYPE_NOCLIP`. A push that a game
  function ends by `Host_Error` is not followed. Others than players lose `FL_ONGROUND` also
  when the push is undone. Which riders on top of one another are carried depends on the
  order of their numbers, which the model has. A push that is undone after a game
  function removed a pushed edict and spawned another in its slot puts the new one where
  the old one was, perhaps inside something; the history `reused` marks these pushes
  and the model does not go on behind them. Functions that remove a pusher are left out.

- `VideoMemory`: two names with one hash are the same to `psx_vram_find`. The colour
  tables left of the pages, the upload and `psx_vram_compact`, which nothing calls, are
  left out. After a failure to pack the caller draws with texture 0. A texture that is less
  than 256 wide and from 257 to 511 high is not scaled, and fits nowhere. Textures are never
  freed: those of a level remain for the session.

Not modelled at all: the other parts of the renderers and platform layers (numeric code and hardware), the
sound mixer (not built), the search path and savegame files (I/O), variables, status bar,
view, particles (presentation), the null driver, and the server list and poll procedures,
which only remote drivers need. `PROJECT.json` lists each.

Order of work so far: `Zone`, `HunkCache`, `Loopback`, `Cbuf`, `Session`, `World`; then
`Programs`, `EntityUpdates`, `Demos` with `FrontEnd`, `Pushers`, `VideoMemory`. What would come next:
savegames (the order of edicts in `ED_LoadFromFile` and what stays linked), signon buffers
at their limit.
