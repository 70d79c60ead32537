----------------------------- MODULE EntityUpdates -----------------------------
(***************************************************************************)
(* What a client sees of the server's edicts.  The server describes every  *)
(* edict that the client may see once per frame, in an unreliable datagram *)
(* that may get lost, as a difference to the baseline the client was given *)
(* when it signed on (sv_main.c); the client keeps the last two positions  *)
(* of each entity, draws between them when it plays a demo, and takes an   *)
(* entity away that the last datagram did not have (cl_parse.c,            *)
(* cl_main.c).  Slots of freed edicts are used again (pr_edict.c).         *)
(*                                                                         *)
(* An edict has a model, one coordinate, and a look that stands for frame, *)
(* skin, colormap, effects and angles, which are compared exactly and cut  *)
(* to a byte the same way in baseline and update.  Coordinates are counted *)
(* in fortieths: an eighth, the precision on the wire, is 5, and the tenth *)
(* a coordinate may be off before it is sent is 4.                         *)
(***************************************************************************)
EXTENDS Integers, Sequences, FiniteSets, Functions

CONSTANTS
    Edicts,        \* the numbers of the slots
    Player,        \* the client's own; svs.maxclients is 1; cl.viewentity
    PlayerModel,   \* the index of progs/player.mdl
    Bodies,        \* what the programs make of each edict
    StepModels,    \* models whose edicts have MOVETYPE_STEP
    LongEdicts,    \* the slots from 256 on
    Bytes,         \* what a field takes in a message
    Header,        \* what the time and the player's statistics take
    MaxDatagram,   \* MAX_DATAGRAM
    MaxVisEdicts,  \* MAX_VISEDICTS
    Relaxed, Rest, \* ED_Alloc's two seconds and half second, in frames
    MaxTime, MaxLives, MaxQueue  \* bounds

Fields == {"model", "origin", "look"}
NoBody == [model |-> 0, origin |-> 0, look |-> 0]
Body == [model : Nat, origin : Nat, look : Nat]

ASSUME UpdatesAssumption ==
    /\ Edicts \subseteq Nat \ {0} /\ Player \in Edicts /\ LongEdicts \subseteq Edicts
    /\ PlayerModel \in Nat \ {0} /\ StepModels \subseteq Nat
    /\ \A e \in Edicts : Bodies[e] \subseteq Body
    /\ Bytes \in [Fields -> Nat] /\ MaxVisEdicts \in Nat /\ Relaxed \in Nat /\ Rest \in Nat

VARIABLES
    time, paused,      \* sv.time in frames, sv.paused
    thinking,          \* SV_Physics is running
    edict, free, freetime, pvs,  \* fields, and which touch the player's PVS
    baseline,          \* edict_t.baseline
    overflow,          \* SZ_GetSpace has met a full datagram
    net,               \* the datagrams under way
    clbaseline,        \* entity_t.baseline
    ent,               \* cl_entities
    mtime,             \* cl.mtime
    placed,            \* origin and look of the entities in view, drawn or looked out of
    visedicts,         \* cl_visedicts, the ones to draw
    reading,           \* a message was parsed since CL_RelinkEntities
    life, quick,       \* history: how often a slot was used, and whether it was not left to rest
    last, prev         \* history: the server when the last two messages that were read were sent

server == <<time, paused, thinking, edict, free, freetime, pvs, overflow, life, quick>>
client == <<ent, mtime, placed, visedicts, reading, last, prev>>
bases == <<baseline, clbaseline>>
vars == <<server, net, client, bases>>

-----------------------------------------------------------------------------
(* The conversions, the baselines and the start of the level.                *)

\* MSG_WriteCoord and MSG_ReadCoord: (int)(f * 8), cut towards zero.
Wire(body) == [body EXCEPT !.origin = (@ \div 5) * 5]

\* SV_CreateBaseline
Baseline(e) ==
    IF e = Player THEN [edict[e] EXCEPT !.model = PlayerModel]
    ELSE IF free[e] \/ edict[e].model = 0 THEN NoBody
    ELSE edict[e]

\* CL_ParseBaseline
ParsedBaseline == [e \in Edicts |-> Wire(Baseline(e))]

NoEntity == [model |-> 0, look |-> 0, org |-> <<0, 0>>, msgtime |-> 0, forcelink |-> FALSE]
Nothing == [time |-> time, ents |-> <<>>]

\* The client has spawned: Host_Spawn_f sent it sv.time, no datagram came yet.
Init ==
    /\ time = 1 /\ paused = FALSE /\ thinking = FALSE /\ overflow = FALSE
    /\ free \in {f \in [Edicts -> BOOLEAN] : ~f[Player]}
    /\ edict \in {b \in [Edicts -> UNION {Bodies[e] : e \in Edicts} \cup {NoBody}] :
                     \A e \in Edicts : IF free[e] THEN b[e] = NoBody ELSE b[e] \in Bodies[e]}
    /\ freetime = [e \in Edicts |-> 0]
    /\ pvs \in SUBSET {e \in Edicts : e # Player /\ ~free[e]}
    /\ baseline = [e \in Edicts |-> Baseline(e)] /\ clbaseline = ParsedBaseline
    /\ net = <<>>
    /\ ent = [e \in Edicts |-> NoEntity] /\ mtime = <<time, 0>>
    /\ placed = <<>> /\ visedicts = {} /\ reading = FALSE
    /\ life = [e \in Edicts |-> 0] /\ quick = [e \in Edicts |-> FALSE]
    /\ last = Nothing /\ prev = Nothing

-----------------------------------------------------------------------------
(* SV_Physics: programs change, free and allocate edicts.  It ends with the    *)
(* advance of sv.time, see ServerFrame.                                      *)

Physics == ~paused /\ ~overflow /\ thinking' = TRUE

\* A move of the player changes what it may see.
Think(e) ==
    /\ Physics /\ ~free[e]
    /\ \E b \in Bodies[e] : edict' = [edict EXCEPT ![e] = b]
    /\ \E v \in SUBSET {d \in Edicts : d # Player /\ ~free[d]} :
          /\ e = Player \/ v \ {e} = pvs \ {e}
          /\ pvs' = v
    /\ UNCHANGED <<time, paused, free, freetime, overflow, life, quick, net, client, bases>>

Free(e) ==
    /\ Physics /\ ~free[e] /\ e # Player
    /\ free' = [free EXCEPT ![e] = TRUE]
    /\ edict' = [edict EXCEPT ![e] = NoBody]
    /\ freetime' = [freetime EXCEPT ![e] = time]
    /\ pvs' = pvs \ {e}
    /\ UNCHANGED <<time, paused, overflow, life, quick, net, client, bases>>

\* ED_Alloc: slots rest for a while, except in the first seconds of the level; a
\* slip would take any.  A slot that was never used comes last and is the same
\* as one freed at 0.
AnyFree(e) == free[e]

Reusable(e) == free[e] /\ (freetime[e] < Relaxed \/ time - freetime[e] > Rest)

Alloc(e) ==
    /\ Physics /\ Reusable(e) /\ life[e] < MaxLives
    /\ \A d \in Edicts : Reusable(d) => d >= e
    /\ free' = [free EXCEPT ![e] = FALSE]
    /\ \E b \in Bodies[e] : edict' = [edict EXCEPT ![e] = b]
    /\ life' = [life EXCEPT ![e] = @ + 1]
    /\ quick' = [quick EXCEPT ![e] = freetime[e] < Relaxed]
    /\ pvs' \in {pvs \ {e}, pvs \cup {e}}
    /\ UNCHANGED <<time, paused, freetime, overflow, net, client, bases>>

\* Host_Pause_f, in SV_RunClients and so before SV_Physics.
Pause ==
    /\ ~overflow /\ ~thinking
    /\ paused' = ~paused
    /\ UNCHANGED <<time, thinking, edict, free, freetime, pvs, overflow, life, quick, net, client, bases>>

-----------------------------------------------------------------------------
(* SV_SendClientDatagram with SV_WriteEntitiesToClient.                      *)

\* The client's edict is always sent, others if they have a model and touch the PVS.
Visible == {Player} \cup {e \in pvs : edict[e].model # 0}

\* A coordinate is sent when it differs from the baseline by more than a tenth.
Bits(e) ==
    {f \in Fields : IF f = "origin" THEN \/ edict[e].origin - baseline[e].origin > 4
                                         \/ baseline[e].origin - edict[e].origin > 4
                                    ELSE edict[e][f] # baseline[e][f]}

\* The bits of model and look, and of a long number, are in the second byte.
UpdateBytes(e) ==
    LET more == Bits(e) \cap {"model", "look"} # {} \/ e \in LongEdicts
    IN  1 + (IF more THEN 1 ELSE 0) + (IF e \in LongEdicts THEN 2 ELSE 1)
          + SumFunctionOnSet(Bytes, Bits(e))

BytesBefore(e) ==
    Header + SumFunctionOnSet([d \in Visible |-> UpdateBytes(d)], {d \in Visible : d < e})

\* "packet overflow": what does not fit is left out, and all behind it.
Sent == {e \in Visible : MaxDatagram - BytesBefore(e) >= 16}

\* An update may take more than the 16 bytes.
TooLong == \E e \in Sent : BytesBefore(e) + UpdateBytes(e) > MaxDatagram

Update(e) ==
    [step |-> edict[e].model \in StepModels, fields |-> [f \in Bits(e) |-> Wire(edict[e])[f]]]

Datagram(now) ==
    [time |-> now,
     updates |-> [e \in Sent |-> Update(e)],
     ents |-> [e \in Sent |-> [body |-> edict[e], life |-> life[e], quick |-> quick[e]]]]

\* The end of a server frame: SV_Physics has advanced the time.  A full datagram
\* is Sys_Error or a message cut off in its middle, as msg.allowoverflow, which
\* nobody sets, happens to be.
ServerFrame ==
    /\ ~overflow /\ time < MaxTime
    /\ time' = IF paused THEN time ELSE time + 1
    /\ thinking' = FALSE
    /\ IF TooLong THEN overflow' = TRUE /\ UNCHANGED net
       ELSE /\ UNCHANGED overflow
            /\ \/ Len(net) < MaxQueue /\ net' = Append(net, Datagram(time'))
               \/ UNCHANGED net
    /\ UNCHANGED <<paused, edict, free, freetime, pvs, life, quick, client, bases>>

-----------------------------------------------------------------------------
(* The client: CL_ParseServerMessage and CL_ParseUpdate, CL_RelinkEntities.  *)

\* Was not in the message before.
Appeared(e) == ent[e].msgtime # mtime[1]

ParsedUpdate(e, u, now) ==
    LET Value(f) == IF f \in DOMAIN u.fields THEN u.fields[f] ELSE clbaseline[e][f]
        force == Appeared(e) \/ (Value("model") = 0 /\ ent[e].model # 0)
        origin == Value("origin")
    IN  [model |-> Value("model"), look |-> Value("look"),
         org |-> <<origin, IF force THEN origin ELSE ent[e].org[1]>>,
         msgtime |-> now,
         forcelink |-> ent[e].forcelink \/ force \/ u.step]

\* The client reads and draws after the server's frame.
Parse ==
    /\ ~overflow /\ ~thinking /\ net # <<>>
    /\ LET m == Head(net)
       IN  /\ mtime' = <<m.time, mtime[1]>>
           /\ ent' = [e \in Edicts |-> IF e \in DOMAIN m.updates
                                       THEN ParsedUpdate(e, m.updates[e], m.time)
                                       ELSE ent[e]]
           /\ last' = [time |-> m.time, ents |-> m.ents]
    /\ prev' = last
    /\ net' = Tail(net) /\ reading' = TRUE
    /\ UNCHANGED <<server, placed, visedicts, bases>>

\* CL_LerpPoint's ends: 0 is the message before, 1 the last one.  In a local game
\* it is always 1.  Past the last message, where a picture goes on along the same
\* line for want of a bound in milliseconds, it is left out.
LerpPoint == IF mtime[1] = mtime[2] THEN {1} ELSE {0, 1}

\* A slip would leave an entity in view that the last message did not have.
InViewStill == {e \in Edicts : ent[e].model # 0}

InView == {e \in Edicts : ent[e].model # 0 /\ ent[e].msgtime = mtime[1]}

\* The list takes entities in the order of their numbers until it is full; the one
\* that the player looks out of has a place but is not drawn.
Drawn(S) ==
    LET seen == S \ {Player}
    IN  {e \in seen : Cardinality({d \in seen : d < e}) < MaxVisEdicts}

Relink ==
    /\ ~overflow /\ ~thinking
    /\ \E frac \in LerpPoint :
          placed' = [e \in InView |->
                      [look |-> ent[e].look,
                       origin |-> IF ent[e].forcelink \/ frac = 1 THEN ent[e].org[1]
                                  ELSE ent[e].org[2]]]
    /\ visedicts' = Drawn(InView)
    /\ ent' = [e \in Edicts |->
                 IF e \in InView THEN [ent[e] EXCEPT !.forcelink = FALSE]
                 ELSE [ent[e] EXCEPT !.model = 0]]
    /\ reading' = FALSE
    /\ UNCHANGED <<server, net, mtime, last, prev, bases>>

Next ==
    \/ \E e \in Edicts : Think(e) \/ Free(e) \/ Alloc(e)
    \/ Pause \/ ServerFrame \/ Parse \/ Relink

Spec == Init /\ [][Next]_vars

-----------------------------------------------------------------------------
(* Properties.                                                               *)

Abs(n) == IF n < 0 THEN -n ELSE n

\* A tenth that is not sent and an eighth that is cut off.
Near(a, b) == Abs(a - b) < 9

PlacedAt(e, snapshot) ==
    e \in DOMAIN snapshot.ents /\ Near(placed[e].origin, snapshot.ents[e].body.origin)

\* Whatever datagrams were lost, and however many were read at once: the entities
\* that the client places are those the last message it read told of and no
\* others, with the look they had, each near where it was then or, between the
\* two, where it was in the message before.  It draws all of them but the one
\* that the player looks out of, up to MAX_VISEDICTS.  Nothing older comes back.
ShowsLastMessage ==
    ~reading =>
        /\ DOMAIN placed = {e \in DOMAIN last.ents : last.ents[e].body.model # 0}
        /\ visedicts = Drawn(DOMAIN placed)
        /\ \A e \in DOMAIN placed :
              /\ placed[e].look = last.ents[e].body.look
              /\ PlacedAt(e, last) \/ PlacedAt(e, prev)

\* ED_Alloc lets a slot rest so that the client does not take the new edict for
\* the old one moved: an entity is placed between two positions only if both are
\* of one edict, except in the first seconds of a level, or when all datagrams
\* of the rest were lost.
NoMorph ==
    ~reading => \A e \in DOMAIN placed :
        \/ PlacedAt(e, last)
        \/ last.ents[e].life = prev.ents[e].life
        \/ last.ents[e].quick
        \/ last.time - prev.time > Rest
=============================================================================
