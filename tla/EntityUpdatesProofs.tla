------------------------- MODULE EntityUpdatesProofs -------------------------
(***************************************************************************)
(* Proofs about entity updates, for any number of edicts and messages and  *)
(* whatever datagrams are lost: the client shows what the last message it  *)
(* read told of, and draws no edict in the place of another one that had   *)
(* its number before.                                                      *)
(***************************************************************************)
EXTENDS EntityUpdates, TLAPS, SequenceTheorems

Server ==
    /\ time \in Nat
    /\ free \in [Edicts -> BOOLEAN] /\ ~free[Player] /\ thinking \in BOOLEAN /\ paused \in BOOLEAN
    /\ edict \in [Edicts -> Body]
    /\ baseline \in [Edicts -> Body] /\ clbaseline = [e \in Edicts |-> Wire(baseline[e])]
    /\ pvs \subseteq {e \in Edicts : e # Player /\ ~free[e]}
    /\ life \in [Edicts -> Nat] /\ quick \in [Edicts -> BOOLEAN] /\ freetime \in [Edicts -> Nat]
    /\ thinking => ~paused
    /\ \A e \in Edicts : ~free[e] /\ life[e] > 0 => quick[e] \/ time - freetime[e] > Rest

Snapshot(m) ==
    /\ m.time \in Nat /\ DOMAIN m.ents \subseteq Edicts
    /\ \A e \in DOMAIN m.ents : m.ents[e].body \in Body /\ m.ents[e].life \in Nat /\ m.ents[e].quick \in BOOLEAN

Past(m) ==
    /\ m.time <= time
    /\ m.time = time /\ ~thinking => DOMAIN m.ents \subseteq Sent
    /\ \A e \in DOMAIN m.ents :
          /\ m.ents[e].life <= life[e]
          /\ m.ents[e].life < life[e] \/ free[e] => m.time <= freetime[e]

Value(e, u, f) == IF f \in DOMAIN u.fields THEN u.fields[f] ELSE clbaseline[e][f]

Decodes(m) ==
    /\ DOMAIN m.updates = DOMAIN m.ents
    /\ \A e \in DOMAIN m.ents :
          /\ Value(e, m.updates[e], "model") = m.ents[e].body.model
          /\ Value(e, m.updates[e], "look") = m.ents[e].body.look
          /\ Near(Value(e, m.updates[e], "origin"), m.ents[e].body.origin)

Follows(m, n) ==
    /\ m.time <= n.time
    /\ m.time = n.time => DOMAIN m.ents \subseteq DOMAIN n.ents
    /\ \A e \in DOMAIN m.ents \cap DOMAIN n.ents :
          n.ents[e].life = m.ents[e].life \/ n.ents[e].quick \/ n.time - m.time > Rest

Messages ==
    /\ \E S : net \in Seq(S)
    /\ Snapshot(last) /\ Snapshot(prev) /\ Past(last) /\ Follows(prev, last)
    /\ \A i \in 1 .. Len(net) :
          Snapshot(net[i]) /\ Past(net[i]) /\ Decodes(net[i]) /\ Follows(last, net[i])
    /\ \A i, j \in 1 .. Len(net) : i < j => Follows(net[i], net[j])

Entities ==
    /\ mtime[1] = last.time
    /\ \A e \in Edicts :
          /\ DOMAIN ent[e] = {"model", "look", "org", "msgtime", "forcelink"}
          /\ ent[e].msgtime \in Nat /\ ent[e].msgtime <= last.time
    /\ \A e \in Edicts : ent[e].msgtime = last.time <=> e \in DOMAIN last.ents
    /\ \A e \in DOMAIN last.ents :
          /\ ent[e].model = last.ents[e].body.model
          /\ ent[e].look = last.ents[e].body.look
          /\ Near(ent[e].org[1], last.ents[e].body.origin)
          /\ \/ Near(ent[e].org[2], last.ents[e].body.origin)
             \/ e \in DOMAIN prev.ents /\ Near(ent[e].org[2], prev.ents[e].body.origin)

Inv == Server /\ Messages /\ Entities /\ ShowsLastMessage /\ NoMorph

-----------------------------------------------------------------------------
(* Datagrams.                                                                *)

\* Sent depends on the edicts, on what is in sight and on the baselines.
LEMMA SentSame == ASSUME UNCHANGED <<edict, pvs, baseline>> PROVE Sent' = Sent
<1>1. Visible' = Visible
  BY DEF Visible
<1>2. \A e : Bits(e)' = Bits(e)
  BY DEF Bits
<1>3. \A e : UpdateBytes(e)' = UpdateBytes(e)
  BY <1>2 DEF UpdateBytes
<1>4. \A e : BytesBefore(e)' = BytesBefore(e)
  BY <1>1, <1>3 DEF BytesBefore
<1> QED BY <1>1, <1>4 DEF Sent

LEMMA SentFacts ==
    ASSUME Server
    PROVE  Sent \subseteq Edicts /\ \A e \in Sent : ~free[e]
BY UpdatesAssumption DEF Sent, Visible, Server

\* An eighth is cut off.
LEMMA Cut ==
    ASSUME NEW n \in Nat
    PROVE  (n \div 5) * 5 \in Nat /\ (n \div 5) * 5 <= n /\ n <= (n \div 5) * 5 + 4
OBVIOUS

LEMMA WireFacts ==
    ASSUME NEW b \in Body
    PROVE  /\ Wire(b)["model"] = b.model /\ Wire(b)["look"] = b.look
           /\ Wire(b)["origin"] \in Nat /\ Wire(b)["origin"] <= b.origin
           /\ b.origin <= Wire(b)["origin"] + 4
<1>1. b.origin \in Nat
  BY DEF Body
<1>2. /\ Wire(b)["model"] = b.model /\ Wire(b)["look"] = b.look
      /\ Wire(b)["origin"] = (b.origin \div 5) * 5
  BY DEF Wire, Body
<1> QED BY <1>1, <1>2, Cut

\* An update and the baseline tell the client what the edict is.
LEMMA Decoded ==
    ASSUME Server, NEW e \in Edicts
    PROVE  /\ Value(e, Update(e), "model") = edict[e].model
           /\ Value(e, Update(e), "look") = edict[e].look
           /\ Near(Value(e, Update(e), "origin"), edict[e].origin)
<1>1. edict[e] \in Body /\ baseline[e] \in Body /\ clbaseline[e] = Wire(baseline[e])
  BY DEF Server
<1>2. \A f \in Fields : Value(e, Update(e), f) = IF f \in Bits(e) THEN Wire(edict[e])[f] ELSE Wire(baseline[e])[f]
  BY <1>1 DEF Value, Update
<1>3. "model" \in Fields /\ "look" \in Fields /\ "origin" \in Fields
  BY DEF Fields
<1>4. "model" \notin Bits(e) => edict[e].model = baseline[e].model
  BY DEF Bits, Fields
<1>5. "look" \notin Bits(e) => edict[e].look = baseline[e].look
  BY DEF Bits, Fields
<1>6. "origin" \notin Bits(e) => /\ ~ (edict[e].origin - baseline[e].origin > 4)
                                /\ ~ (baseline[e].origin - edict[e].origin > 4)
  BY DEF Bits, Fields
<1>7. Value(e, Update(e), "model") = edict[e].model
  BY <1>1, <1>2, <1>3, <1>4, WireFacts
<1>8. Value(e, Update(e), "look") = edict[e].look
  BY <1>1, <1>2, <1>3, <1>5, WireFacts
<1>9. Near(Value(e, Update(e), "origin"), edict[e].origin)
  <2>1. edict[e].origin \in Nat /\ baseline[e].origin \in Nat
    BY <1>1 DEF Body
  <2>2. CASE "origin" \in Bits(e)
    <3>1. Value(e, Update(e), "origin") = Wire(edict[e])["origin"]
      BY <1>2, <1>3, <2>2
    <3> QED BY <1>1, <2>1, <3>1, WireFacts DEF Near, Abs
  <2>3. CASE "origin" \notin Bits(e)
    <3>1. Value(e, Update(e), "origin") = Wire(baseline[e])["origin"]
      BY <1>2, <1>3, <2>3
    <3> QED BY <1>1, <1>6, <2>1, <2>3, <3>1, WireFacts DEF Near, Abs
  <2> QED BY <2>2, <2>3
<1> QED BY <1>7, <1>8, <1>9

LEMMA DatagramFacts ==
    ASSUME Server, NEW now \in Nat, NEW d, d = Datagram(now)
    PROVE  /\ d.time = now /\ DOMAIN d.ents = Sent
           /\ \A e \in Sent : /\ d.ents[e].life = life[e] /\ d.ents[e].quick = quick[e]
                              /\ d.ents[e].body = edict[e]
           /\ Snapshot(d) /\ Decodes(d)
<1>1. /\ d.time = now /\ DOMAIN d.ents = Sent /\ DOMAIN d.updates = Sent
      /\ \A e \in Sent : /\ d.ents[e] = [body |-> edict[e], life |-> life[e], quick |-> quick[e]]
                         /\ d.updates[e] = Update(e)
  BY DEF Datagram
<1>2. Sent \subseteq Edicts
  BY SentFacts
<1>3. ASSUME NEW e \in Sent
      PROVE  /\ e \in Edicts /\ d.updates[e] = Update(e)
             /\ d.ents[e].life = life[e] /\ d.ents[e].quick = quick[e] /\ d.ents[e].body = edict[e]
  <2>1. d.ents[e] = [body |-> edict[e], life |-> life[e], quick |-> quick[e]]
    BY <1>1
  <2> QED BY <1>1, <1>2, <2>1
<1>4. ASSUME NEW e \in Sent
      PROVE  d.ents[e].body \in Body /\ d.ents[e].life \in Nat /\ d.ents[e].quick \in BOOLEAN
  BY <1>3 DEF Server
<1>5. Snapshot(d)
  BY <1>1, <1>2, <1>4 DEF Snapshot
<1>6. ASSUME NEW e \in Sent
      PROVE  /\ Value(e, d.updates[e], "model") = d.ents[e].body.model
             /\ Value(e, d.updates[e], "look") = d.ents[e].body.look
             /\ Near(Value(e, d.updates[e], "origin"), d.ents[e].body.origin)
  <2>1. d.updates[e] = Update(e) /\ d.ents[e].body = edict[e] /\ e \in Edicts
    BY <1>3
  <2> QED BY <2>1, Decoded
<1>7. Decodes(d)
  BY <1>1, <1>6 DEF Decodes
<1> QED BY <1>1, <1>3, <1>5, <1>7

-----------------------------------------------------------------------------
(* The server.                                                               *)

\* A step of the server that sends nothing.
LEMMA QuietStep ==
    ASSUME Inv, UNCHANGED <<net, client, bases>>, Server',
           \A m : Snapshot(m) /\ Past(m) => Past(m)'
    PROVE  Inv'
<1> USE DEF client, bases
<1>1. \A m : Snapshot(m)' = Snapshot(m) /\ Decodes(m)' = Decodes(m)
  BY DEF Snapshot, Decodes, Value
<1>2. Messages'
  <2>1. Snapshot(last)' /\ Snapshot(prev)' /\ Past(last)' /\ Follows(prev, last)'
    BY DEF Inv, Messages, Follows, Snapshot
  <2>2. ASSUME NEW i \in 1 .. Len(net)
        PROVE  Snapshot(net[i])' /\ Past(net[i])' /\ Decodes(net[i])' /\ Follows(last, net[i])'
    BY <1>1 DEF Inv, Messages, Follows
  <2>3. (\A i, j \in 1 .. Len(net) : i < j => Follows(net[i], net[j]))'
    BY DEF Inv, Messages, Follows
  <2> QED BY <2>1, <2>2, <2>3 DEF Inv, Messages
<1>3. Entities'
  BY DEF Inv, Entities
<1>4. ShowsLastMessage'
  BY DEF Inv, ShowsLastMessage, PlacedAt
<1>5. NoMorph'
  BY DEF Inv, NoMorph, PlacedAt
<1> QED BY <1>2, <1>3, <1>4, <1>5 DEF Inv

LEMMA ThinkInv == ASSUME Inv, NEW e \in Edicts, Think(e) PROVE Inv'
<1>1. /\ thinking' = TRUE /\ ~paused /\ ~free[e]
      /\ \E b \in Bodies[e] : edict' = [edict EXCEPT ![e] = b]
      /\ pvs' \subseteq {d \in Edicts : d # Player /\ ~free[d]}
      /\ UNCHANGED <<time, paused, free, freetime, overflow, life, quick, net, client, bases>>
  BY DEF Think, Physics
<1>2. edict' \in [Edicts -> Body]
  BY <1>1, UpdatesAssumption DEF Inv, Server
<1>3. Server'
  BY <1>1, <1>2 DEF Inv, Server, bases
<1>4. \A m : Snapshot(m) /\ Past(m) => Past(m)'
  BY <1>1 DEF Past
<1> QED BY <1>1, <1>3, <1>4, QuietStep

\* A slot is freed after every message that told of its edict.
LEMMA FreeInv == ASSUME Inv, NEW e \in Edicts, Free(e) PROVE Inv'
<1>1. /\ thinking' = TRUE /\ ~paused /\ ~free[e] /\ e # Player
      /\ free' = [free EXCEPT ![e] = TRUE]
      /\ edict' = [edict EXCEPT ![e] = NoBody]
      /\ freetime' = [freetime EXCEPT ![e] = time]
      /\ pvs' = pvs \ {e}
      /\ UNCHANGED <<time, paused, overflow, life, quick, net, client, bases>>
  BY DEF Free, Physics
<1>2. edict' \in [Edicts -> Body]
  BY <1>1 DEF Inv, Server, NoBody, Body
<1>3. /\ free' \in [Edicts -> BOOLEAN] /\ ~free'[Player] /\ freetime' \in [Edicts -> Nat]
      /\ \A d \in Edicts : d # e => free'[d] = free[d] /\ freetime'[d] = freetime[d]
      /\ free'[e] = TRUE /\ freetime'[e] = time
  BY <1>1, UpdatesAssumption DEF Inv, Server
<1>4. pvs' \subseteq {d \in Edicts : d # Player /\ ~free'[d]}
  BY <1>1, <1>3 DEF Inv, Server
<1>5. Server'
  BY <1>1, <1>2, <1>3, <1>4 DEF Inv, Server, bases
<1>6. ASSUME NEW m, Snapshot(m), Past(m) PROVE Past(m)'
  <2>1. \A d \in DOMAIN m.ents : d \in Edicts /\ m.ents[d].life \in Nat
    BY <1>6 DEF Snapshot
  <2> QED BY <1>1, <1>3, <1>6, <2>1 DEF Past
<1> QED BY <1>1, <1>5, <1>6, QuietStep

\* A slot is used again when it has rested, or in the first seconds.
LEMMA AllocInv == ASSUME Inv, NEW e \in Edicts, Alloc(e) PROVE Inv'
<1>1. /\ thinking' = TRUE /\ ~paused /\ free[e]
      /\ freetime[e] < Relaxed \/ time - freetime[e] > Rest
      /\ free' = [free EXCEPT ![e] = FALSE]
      /\ \E b \in Bodies[e] : edict' = [edict EXCEPT ![e] = b]
      /\ life' = [life EXCEPT ![e] = @ + 1]
      /\ quick' = [quick EXCEPT ![e] = freetime[e] < Relaxed]
      /\ pvs' \in {pvs \ {e}, pvs \cup {e}}
      /\ UNCHANGED <<time, paused, freetime, overflow, net, client, bases>>
  BY DEF Alloc, Physics, Reusable
<1>2. edict' \in [Edicts -> Body]
  BY <1>1, UpdatesAssumption DEF Inv, Server
<1>3. e # Player
  BY <1>1 DEF Inv, Server
<1>4. /\ free' \in [Edicts -> BOOLEAN] /\ life' \in [Edicts -> Nat]
      /\ \A d \in Edicts : d # e => free'[d] = free[d] /\ life'[d] = life[d] /\ quick'[d] = quick[d]
      /\ free'[e] = FALSE /\ life'[e] = life[e] + 1 /\ quick'[e] = (freetime[e] < Relaxed)
  BY <1>1 DEF Inv, Server
<1>5. quick' \in [Edicts -> BOOLEAN]
  BY <1>1 DEF Inv, Server
<1>6. ~free'[Player] /\ pvs' \subseteq {d \in Edicts : d # Player /\ ~free'[d]}
  BY <1>1, <1>3, <1>4, UpdatesAssumption DEF Inv, Server
<1>7. \A d \in Edicts : ~free'[d] /\ life'[d] > 0 => quick'[d] \/ time - freetime[d] > Rest
  BY <1>1, <1>4 DEF Inv, Server
<1>8. Server'
  BY <1>1, <1>2, <1>4, <1>5, <1>6, <1>7 DEF Inv, Server, bases
<1>9. ASSUME NEW m, Snapshot(m), Past(m) PROVE Past(m)'
  <2>1. \A d \in DOMAIN m.ents : d \in Edicts /\ m.ents[d].life \in Nat
    BY <1>9 DEF Snapshot
  <2>2. life \in [Edicts -> Nat]
    BY DEF Inv, Server
  <2> QED BY <1>1, <1>4, <1>9, <2>1, <2>2 DEF Past
<1> QED BY <1>1, <1>8, <1>9, QuietStep

LEMMA PauseInv == ASSUME Inv, Pause PROVE Inv'
<1>1. /\ ~thinking /\ paused' = ~paused
      /\ UNCHANGED <<time, thinking, edict, free, freetime, pvs, overflow, life, quick, net, client, bases>>
  BY DEF Pause
<1>2. Server'
  BY <1>1 DEF Inv, Server, bases
<1>3. Sent' = Sent
  BY <1>1, SentSame DEF bases
<1>4. \A m : Snapshot(m) /\ Past(m) => Past(m)'
  BY <1>1, <1>3 DEF Past
<1> QED BY <1>1, <1>2, <1>4, QuietStep

\* A datagram tells of the server as it is; an edict that it tells of and that
\* is not the one an older message told of has had its rest.
LEMMA NewFollows ==
    ASSUME Server, NEW m, Snapshot(m), Past(m), NEW now \in Nat,
           \/ now = time + 1
           \/ now = time /\ ~thinking,
           NEW d, d = Datagram(now)
    PROVE  Follows(m, d)
<1>1. /\ d.time = now /\ DOMAIN d.ents = Sent
      /\ \A e \in Sent : d.ents[e].life = life[e] /\ d.ents[e].quick = quick[e]
  BY DatagramFacts
<1>2. Sent \subseteq Edicts /\ \A e \in Sent : ~free[e]
  BY SentFacts
<1>3. /\ time \in Nat /\ m.time \in Nat /\ m.time <= time /\ Rest \in Nat
      /\ life \in [Edicts -> Nat] /\ freetime \in [Edicts -> Nat]
  BY UpdatesAssumption DEF Server, Snapshot, Past
<1>4. m.time <= d.time
  BY <1>1, <1>3
<1>5. m.time = d.time => DOMAIN m.ents \subseteq DOMAIN d.ents
  BY <1>1, <1>3 DEF Past
<1>6. ASSUME NEW e \in DOMAIN m.ents \cap DOMAIN d.ents
      PROVE  d.ents[e].life = m.ents[e].life \/ d.ents[e].quick \/ d.time - m.time > Rest
  <2>1. e \in Sent /\ e \in Edicts /\ ~free[e] /\ e \in DOMAIN m.ents
    BY <1>1, <1>2
  <2>2. m.ents[e].life \in Nat /\ life[e] \in Nat /\ freetime[e] \in Nat /\ m.ents[e].life <= life[e]
    BY <1>3, <2>1 DEF Snapshot, Past
  <2>3. CASE m.ents[e].life = life[e]
    BY <1>1, <2>1, <2>3
  <2>4. CASE m.ents[e].life < life[e]
    <3>1. m.time <= freetime[e]
      BY <2>1, <2>4 DEF Past
    <3>2. life[e] > 0
      BY <2>2, <2>4
    <3>3. quick[e] \/ time - freetime[e] > Rest
      BY <2>1, <3>2 DEF Server
    <3>4. time - freetime[e] > Rest => d.time - m.time > Rest
      BY <1>1, <1>3, <2>2, <3>1
    <3> QED BY <1>1, <2>1, <3>3, <3>4
  <2> QED BY <2>2, <2>3, <2>4
<1> QED BY <1>4, <1>5, <1>6 DEF Follows

LEMMA ServerFrameInv == ASSUME Inv, ServerFrame PROVE Inv'
<1>1. /\ time' = IF paused THEN time ELSE time + 1
      /\ thinking' = FALSE
      /\ UNCHANGED <<paused, edict, free, freetime, pvs, life, quick, client, bases>>
  BY DEF ServerFrame
<1>2. time \in Nat /\ time' \in Nat /\ time <= time' /\ Rest \in Nat
      /\ (time' = time + 1 \/ (time' = time /\ ~thinking))
  <2>1. time \in Nat /\ Rest \in Nat /\ (thinking => ~paused) /\ paused \in BOOLEAN
    BY UpdatesAssumption DEF Inv, Server
  <2>2. CASE paused
    BY <1>1, <2>1, <2>2
  <2>3. CASE ~paused
    <3>1. time' = time + 1
      BY <1>1, <2>3, Zenon
    <3> QED BY <2>1, <3>1
  <2> QED BY <2>2, <2>3
<1>3. Server'
  <2>1. \A e \in Edicts : ~free[e] /\ life[e] > 0 => quick[e] \/ time' - freetime[e] > Rest
    <3> SUFFICES ASSUME NEW e \in Edicts, ~free[e], life[e] > 0, ~quick[e]
                 PROVE  time' - freetime[e] > Rest
      OBVIOUS
    <3>1. freetime[e] \in Nat /\ time - freetime[e] > Rest
      BY DEF Inv, Server
    <3> QED BY <1>2, <3>1
  <2> QED BY <1>1, <1>2, <2>1 DEF Inv, Server, bases
<1>4. Sent' = Sent
  BY <1>1, SentSame DEF bases
<1>5. ASSUME NEW m, Snapshot(m), Past(m) PROVE Past(m)'
  <2>1. m.time \in Nat
    BY <1>5 DEF Snapshot
  <2>2. m.time <= time' /\ (m.time = time' => m.time = time /\ ~thinking)
    BY <1>2, <1>5, <2>1 DEF Past
  <2> QED BY <1>1, <1>4, <1>5, <2>2 DEF Past
<1>6. CASE UNCHANGED net
  BY <1>1, <1>3, <1>5, <1>6, QuietStep
<1>7. CASE net' = Append(net, Datagram(time'))
  <2>1. PICK d : d = Datagram(time')
    OBVIOUS
  <2>2. /\ d.time = time' /\ DOMAIN d.ents = Sent
        /\ \A e \in Sent : d.ents[e].life = life[e]
        /\ Snapshot(d) /\ Decodes(d)
    BY <1>2, <2>1, DatagramFacts DEF Inv
  <2>3. Past(d)'
    <3>1. Sent \subseteq Edicts /\ \A e \in Sent : ~free[e]
      BY SentFacts DEF Inv
    <3>2. \A e \in Sent : life[e] \in Nat
      BY <3>1 DEF Inv, Server
    <3> QED BY <1>1, <1>2, <1>4, <2>2, <3>1, <3>2 DEF Past
  <2>4. \A m : Snapshot(m) /\ Past(m) => Follows(m, d)
    BY <1>2, <2>1, NewFollows DEF Inv
  <2>5. PICK S : net \in Seq(S)
    BY DEF Inv, Messages
  <2>6. /\ net' \in Seq(S \cup {d}) /\ Len(net') = Len(net) + 1 /\ Len(net) \in Nat
        /\ \A i \in 1 .. Len(net) : net'[i] = net[i]
        /\ net'[Len(net) + 1] = d
    <3>1. net \in Seq(S \cup {d}) /\ d \in S \cup {d}
      BY <2>5
    <3>2. net' = Append(net, d)
      BY <1>7, <2>1
    <3> QED BY <3>1, <3>2, AppendProperties
  <2>7. /\ Snapshot(last) /\ Snapshot(prev) /\ Past(last) /\ Follows(prev, last)
        /\ \A i \in 1 .. Len(net) : Snapshot(net[i]) /\ Past(net[i]) /\ Decodes(net[i]) /\ Follows(last, net[i])
        /\ \A i, j \in 1 .. Len(net) : i < j => Follows(net[i], net[j])
    BY DEF Inv, Messages
  <2>8. last' = last /\ prev' = prev /\ \A m : Decodes(m)' = Decodes(m)
    BY <1>1 DEF client, bases, Decodes, Value
  <2>9. ASSUME NEW i \in 1 .. Len(net'), NEW m, m = net'[i]
        PROVE  Snapshot(m) /\ Past(m)' /\ Decodes(m)' /\ Follows(last, m)
    <3>1. CASE i \in 1 .. Len(net)
      <4>1. m = net[i]
        BY <3>1, <2>6, <2>9
      <4>2. Snapshot(m) /\ Past(m) /\ Decodes(m) /\ Follows(last, m)
        BY <3>1, <4>1, <2>7
      <4> QED BY <4>2, <1>5, <2>8
    <3>2. CASE i = Len(net) + 1
      <4>1. m = d
        BY <3>2, <2>6, <2>9
      <4> QED BY <4>1, <2>2, <2>3, <2>4, <2>7, <2>8
    <3> QED BY <2>6, <3>1, <3>2
  <2>10. ASSUME NEW i \in 1 .. Len(net'), NEW j \in 1 .. Len(net'), i < j
         PROVE  Follows(net'[i], net'[j])
    <3>1. i \in 1 .. Len(net) /\ net'[i] = net[i]
      BY <2>6, <2>10
    <3>2. CASE j \in 1 .. Len(net)
      BY <2>6, <2>7, <2>10, <3>1, <3>2
    <3>3. CASE j = Len(net) + 1
      BY <2>4, <2>6, <2>7, <3>1, <3>3
    <3> QED BY <2>6, <3>2, <3>3
  <2>11. Messages'
    <3>1. Snapshot(last)' /\ Snapshot(prev)' /\ Past(last)' /\ Follows(prev, last)'
      BY <1>5, <2>7, <2>8
    <3>2. (\A i \in 1 .. Len(net) :
             Snapshot(net[i]) /\ Past(net[i]) /\ Decodes(net[i]) /\ Follows(last, net[i]))'
      BY <2>8, <2>9
    <3> QED BY <2>6, <2>10, <3>1, <3>2 DEF Messages
  <2>12. Entities'
    BY <1>1 DEF Inv, Entities, client
  <2>13. ShowsLastMessage' /\ NoMorph'
    BY <1>1 DEF Inv, ShowsLastMessage, NoMorph, PlacedAt, client
  <2> QED BY <1>3, <2>11, <2>12, <2>13 DEF Inv
<1> QED BY <1>6, <1>7 DEF ServerFrame

-----------------------------------------------------------------------------
(* The client.                                                               *)

LEMMA ParsedFacts ==
    ASSUME NEW e, NEW u, NEW now, NEW p, p = ParsedUpdate(e, u, now)
    PROVE  /\ DOMAIN p = {"model", "look", "org", "msgtime", "forcelink"}
           /\ p.model = Value(e, u, "model") /\ p.look = Value(e, u, "look") /\ p.msgtime = now
           /\ p.org[1] = Value(e, u, "origin")
           /\ \/ p.org[2] = Value(e, u, "origin")
              \/ ent[e].msgtime = mtime[1] /\ p.org[2] = ent[e].org[1]
BY DEF ParsedUpdate, Value, Appeared

LEMMA ParseInv == ASSUME Inv, Parse PROVE Inv'
<1>1. PICK m : m = Head(net)
  OBVIOUS
<1>2. /\ net # <<>> /\ mtime' = <<m.time, mtime[1]>>
      /\ ent' = [e \in Edicts |-> IF e \in DOMAIN m.updates
                                  THEN ParsedUpdate(e, m.updates[e], m.time) ELSE ent[e]]
      /\ last' = [time |-> m.time, ents |-> m.ents]
      /\ prev' = last /\ net' = Tail(net) /\ reading' = TRUE
      /\ UNCHANGED <<server, placed, visedicts, bases>>
  BY <1>1 DEF Parse
<1>3. PICK S : net \in Seq(S)
  BY DEF Inv, Messages
<1>4. /\ Len(net) \in Nat /\ Len(net) > 0 /\ m = net[1]
      /\ net' \in Seq(S) /\ Len(net') = Len(net) - 1
      /\ \A i \in 1 .. Len(net') : net'[i] = net[i + 1]
  BY <1>1, <1>2, <1>3, HeadTailProperties
<1>5. /\ Snapshot(last) /\ Past(last)
      /\ \A i \in 1 .. Len(net) : Snapshot(net[i]) /\ Past(net[i]) /\ Decodes(net[i]) /\ Follows(last, net[i])
      /\ \A i, j \in 1 .. Len(net) : i < j => Follows(net[i], net[j])
  BY DEF Inv, Messages
<1>6. Snapshot(m) /\ Past(m) /\ Decodes(m) /\ Follows(last, m)
  BY <1>4, <1>5
<1>7. Server'
  BY <1>2 DEF Inv, Server, server, bases
<1>8. \A x : Past(x)' = Past(x) /\ Decodes(x)' = Decodes(x)
  <2>1. Sent' = Sent
    BY <1>2, SentSame DEF server, bases
  <2> QED BY <1>2, <2>1 DEF server, bases, Past, Decodes, Value
<1>9. last'.time = m.time /\ last'.ents = m.ents
  BY <1>2
<1>10. /\ Snapshot(last') /\ Past(last') /\ Follows(last, last')
       /\ \A x : Follows(m, x) => Follows(last', x)
  BY <1>6, <1>9 DEF Snapshot, Past, Follows
<1>11. Messages'
  <2>1. ASSUME NEW i \in 1 .. Len(net')
        PROVE  Snapshot(net'[i]) /\ Past(net'[i]) /\ Decodes(net'[i]) /\ Follows(last', net'[i])
    <3>1. i + 1 \in 1 .. Len(net) /\ 1 \in 1 .. Len(net) /\ 1 < i + 1 /\ net'[i] = net[i + 1]
      BY <1>4
    <3> QED BY <1>4, <1>5, <1>10, <3>1
  <2>2. ASSUME NEW i \in 1 .. Len(net'), NEW j \in 1 .. Len(net'), i < j
        PROVE  Follows(net'[i], net'[j])
    <3>1. i + 1 \in 1 .. Len(net) /\ j + 1 \in 1 .. Len(net) /\ i + 1 < j + 1
      BY <1>4, <2>2
    <3> QED BY <1>4, <1>5, <3>1
  <2>3. Snapshot(last)' /\ Snapshot(prev)' /\ Past(last)' /\ Follows(prev, last)'
    BY <1>2, <1>5, <1>8, <1>10
  <2> QED BY <1>4, <1>8, <2>1, <2>2, <2>3 DEF Messages
<1>12. Entities'
  <2>1. mtime[1] = last.time /\ mtime'[1] = m.time
    BY <1>2 DEF Inv, Entities
  <2>2. /\ DOMAIN m.updates = DOMAIN m.ents /\ DOMAIN m.ents \subseteq Edicts
        /\ m.time \in Nat /\ last.time \in Nat /\ last.time <= m.time
        /\ m.time = last.time => DOMAIN last.ents \subseteq DOMAIN m.ents
    BY <1>5, <1>6 DEF Snapshot, Decodes, Follows
  <2>3. ASSUME NEW e \in Edicts, e \notin DOMAIN m.ents
        PROVE  ent'[e] = ent[e] /\ ent[e].msgtime <= m.time /\ ent[e].msgtime # m.time
    <3>1. ent'[e] = ent[e]
      BY <1>2, <2>2, <2>3
    <3>2. /\ ent[e].msgtime \in Nat /\ ent[e].msgtime <= last.time
          /\ ent[e].msgtime = last.time => e \in DOMAIN last.ents
      BY DEF Inv, Entities
    <3> QED BY <2>2, <2>3, <3>1, <3>2
  <2>4. ASSUME NEW e \in DOMAIN m.ents
        PROVE  /\ DOMAIN ent'[e] = {"model", "look", "org", "msgtime", "forcelink"}
               /\ ent'[e].msgtime = m.time
               /\ ent'[e].model = m.ents[e].body.model /\ ent'[e].look = m.ents[e].body.look
               /\ Near(ent'[e].org[1], m.ents[e].body.origin)
               /\ \/ Near(ent'[e].org[2], m.ents[e].body.origin)
                  \/ e \in DOMAIN last.ents /\ Near(ent'[e].org[2], last.ents[e].body.origin)
    <3> DEFINE u == m.updates[e]
    <3>1. e \in Edicts /\ ent'[e] = ParsedUpdate(e, u, m.time)
      BY <1>2, <2>2
    <3>2. /\ Value(e, u, "model") = m.ents[e].body.model /\ Value(e, u, "look") = m.ents[e].body.look
          /\ Near(Value(e, u, "origin"), m.ents[e].body.origin)
      BY <1>6 DEF Decodes
    <3> HIDE DEF u
    <3>3. PICK p : p = ParsedUpdate(e, u, m.time)
      OBVIOUS
    <3>4. /\ DOMAIN p = {"model", "look", "org", "msgtime", "forcelink"}
          /\ p.model = Value(e, u, "model") /\ p.look = Value(e, u, "look") /\ p.msgtime = m.time
          /\ p.org[1] = Value(e, u, "origin")
          /\ \/ p.org[2] = Value(e, u, "origin")
             \/ ent[e].msgtime = mtime[1] /\ p.org[2] = ent[e].org[1]
      BY <3>3, ParsedFacts
    <3>5. ent[e].msgtime = mtime[1] =>
            e \in DOMAIN last.ents /\ Near(ent[e].org[1], last.ents[e].body.origin)
      BY <2>1, <3>1 DEF Inv, Entities
    <3>6. ent'[e] = p
      BY <3>1, <3>3
    <3> QED BY <3>2, <3>4, <3>5, <3>6
  <2>5. \A e \in Edicts :
          /\ DOMAIN ent'[e] = {"model", "look", "org", "msgtime", "forcelink"}
          /\ ent'[e].msgtime \in Nat /\ ent'[e].msgtime <= m.time
          /\ ent'[e].msgtime = m.time <=> e \in DOMAIN m.ents
    <3> TAKE e \in Edicts
    <3>1. CASE e \in DOMAIN m.ents
      BY <3>1, <2>2, <2>4
    <3>2. CASE e \notin DOMAIN m.ents
      BY <3>2, <2>3 DEF Inv, Entities
    <3> QED BY <3>1, <3>2
  <2> QED BY <1>2, <1>9, <2>1, <2>4, <2>5 DEF Entities
<1>13. ShowsLastMessage' /\ NoMorph'
  BY <1>2 DEF ShowsLastMessage, NoMorph
<1> QED BY <1>7, <1>11, <1>12, <1>13 DEF Inv

LEMMA RelinkInv == ASSUME Inv, Relink PROVE Inv'
<1>1. PICK frac \in LerpPoint :
        /\ placed' = [e \in InView |->
                       [look |-> ent[e].look,
                        origin |-> IF ent[e].forcelink \/ frac = 1 THEN ent[e].org[1] ELSE ent[e].org[2]]]
        /\ visedicts' = Drawn(InView)
        /\ ent' = [e \in Edicts |-> IF e \in InView THEN [ent[e] EXCEPT !.forcelink = FALSE]
                                    ELSE [ent[e] EXCEPT !.model = 0]]
        /\ UNCHANGED <<server, net, mtime, last, prev, bases>>
  BY DEF Relink
<1>2. Server'
  BY <1>1 DEF Inv, Server, server, bases
<1>3. Messages'
  <2>1. Sent' = Sent
    BY <1>1, SentSame DEF server, bases
  <2>2. \A m : Past(m)' = Past(m) /\ Decodes(m)' = Decodes(m)
    BY <1>1, <2>1 DEF server, bases, Past, Decodes, Value
  <2> QED BY <1>1, <2>2 DEF Inv, Messages
<1>4. \A e \in Edicts :
        /\ DOMAIN ent'[e] = DOMAIN ent[e] /\ ent'[e].msgtime = ent[e].msgtime
        /\ ent'[e].look = ent[e].look /\ ent'[e].org = ent[e].org
        /\ ent'[e].model = IF e \in InView THEN ent[e].model ELSE 0
  <2> TAKE e \in Edicts
  <2>1. DOMAIN ent[e] = {"model", "look", "org", "msgtime", "forcelink"}
    BY DEF Inv, Entities
  <2>2. ent'[e] = IF e \in InView THEN [ent[e] EXCEPT !.forcelink = FALSE] ELSE [ent[e] EXCEPT !.model = 0]
    BY <1>1
  <2> QED BY <2>1, <2>2
<1>5. InView = {e \in DOMAIN last.ents : last.ents[e].body.model # 0}
  <2>1. DOMAIN last.ents \subseteq Edicts
    BY DEF Inv, Messages, Snapshot
  <2> QED BY <2>1 DEF InView, Inv, Entities
<1>6. Entities'
  <2>1. DOMAIN last.ents \subseteq Edicts
    BY DEF Inv, Messages, Snapshot
  <2>2. \A e \in DOMAIN last.ents : ent'[e].model = last.ents[e].body.model
    BY <1>4, <1>5, <2>1 DEF Inv, Entities
  <2>3. last' = last /\ prev' = prev /\ mtime' = mtime
    BY <1>1
  <2>4. \A e \in DOMAIN last.ents :
          /\ ent'[e].look = last.ents[e].body.look
          /\ Near(ent'[e].org[1], last.ents[e].body.origin)
          /\ \/ Near(ent'[e].org[2], last.ents[e].body.origin)
             \/ e \in DOMAIN prev.ents /\ Near(ent'[e].org[2], prev.ents[e].body.origin)
    BY <1>4, <2>1 DEF Inv, Entities
  <2>5. \A e \in Edicts :
          /\ DOMAIN ent'[e] = {"model", "look", "org", "msgtime", "forcelink"}
          /\ ent'[e].msgtime \in Nat /\ ent'[e].msgtime <= last.time
          /\ ent'[e].msgtime = last.time <=> e \in DOMAIN last.ents
    BY <1>4 DEF Inv, Entities
  <2>6. mtime'[1] = last.time
    BY <2>3 DEF Inv, Entities
  <2> QED BY <2>2, <2>3, <2>4, <2>5, <2>6 DEF Entities
<1>7. ASSUME NEW e \in InView
      PROVE  /\ placed'[e].look = last.ents[e].body.look
             /\ \/ Near(placed'[e].origin, last.ents[e].body.origin)
                \/ /\ e \in DOMAIN prev.ents /\ Near(placed'[e].origin, prev.ents[e].body.origin)
                   /\ \/ last.ents[e].life = prev.ents[e].life
                      \/ last.ents[e].quick \/ last.time - prev.time > Rest
  <2>1. e \in DOMAIN last.ents
    BY <1>5
  <2>2. placed'[e].look = ent[e].look /\ placed'[e].origin \in {ent[e].org[1], ent[e].org[2]}
    BY <1>1
  <2>3. /\ ent[e].look = last.ents[e].body.look
        /\ Near(ent[e].org[1], last.ents[e].body.origin)
        /\ \/ Near(ent[e].org[2], last.ents[e].body.origin)
           \/ e \in DOMAIN prev.ents /\ Near(ent[e].org[2], prev.ents[e].body.origin)
    BY <2>1 DEF Inv, Entities
  <2>4. e \in DOMAIN prev.ents =>
          last.ents[e].life = prev.ents[e].life \/ last.ents[e].quick \/ last.time - prev.time > Rest
    BY <2>1 DEF Inv, Messages, Follows
  <2> QED BY <2>2, <2>3, <2>4
<1>8. DOMAIN placed' = InView /\ visedicts' = Drawn(DOMAIN placed')
  BY <1>1
<1>9. last' = last /\ prev' = prev
  BY <1>1
<1>10. ShowsLastMessage'
  BY <1>5, <1>7, <1>8, <1>9 DEF ShowsLastMessage, PlacedAt, Drawn
<1>11. NoMorph'
  BY <1>5, <1>7, <1>8, <1>9 DEF NoMorph, PlacedAt
<1> QED BY <1>2, <1>3, <1>6, <1>10, <1>11 DEF Inv

LEMMA InitInv == Init => Inv
<1> SUFFICES ASSUME Init PROVE Inv
  OBVIOUS
<1>1. /\ time = 1 /\ paused = FALSE /\ thinking = FALSE
      /\ free \in [Edicts -> BOOLEAN] /\ ~free[Player]
      /\ pvs \subseteq {e \in Edicts : e # Player /\ ~free[e]}
      /\ freetime = [e \in Edicts |-> 0] /\ life = [e \in Edicts |-> 0] /\ quick = [e \in Edicts |-> FALSE]
      /\ baseline = [e \in Edicts |-> Baseline(e)] /\ clbaseline = ParsedBaseline
      /\ net = <<>> /\ ent = [e \in Edicts |-> NoEntity] /\ mtime = <<time, 0>>
      /\ placed = <<>> /\ visedicts = {} /\ last = Nothing /\ prev = Nothing
  BY DEF Init
<1>2. edict \in [Edicts -> Body]
  <2>1. \A e \in Edicts : Bodies[e] \subseteq Body
    BY UpdatesAssumption
  <2>2. NoBody \in Body
    BY DEF NoBody, Body
  <2> QED BY <2>1, <2>2 DEF Init
<1>3. baseline \in [Edicts -> Body]
  <2>1. \A e \in Edicts : Baseline(e) \in Body
    <3> TAKE e \in Edicts
    <3>1. edict[e] \in Body /\ PlayerModel \in Nat
      BY <1>2, UpdatesAssumption
    <3>2. [edict[e] EXCEPT !.model = PlayerModel] \in Body
      BY <3>1 DEF Body
    <3>3. NoBody \in Body
      BY DEF NoBody, Body
    <3> QED BY <3>1, <3>2, <3>3 DEF Baseline
  <2> QED BY <1>1, <2>1
<1>4. clbaseline = [e \in Edicts |-> Wire(baseline[e])]
  BY <1>1 DEF ParsedBaseline
<1>5. Server
  <2>1. /\ life \in [Edicts -> Nat] /\ quick \in [Edicts -> BOOLEAN] /\ freetime \in [Edicts -> Nat]
    BY <1>1
  <2>2. \A e \in Edicts : ~ (life[e] > 0)
    BY <1>1
  <2>3. ~thinking /\ thinking \in BOOLEAN /\ paused \in BOOLEAN /\ time \in Nat
    BY <1>1
  <2>4. free \in [Edicts -> BOOLEAN] /\ ~free[Player] /\ pvs \subseteq {e \in Edicts : e # Player /\ ~free[e]}
    BY <1>1
  <2> QED BY <1>2, <1>3, <1>4, <2>1, <2>2, <2>3, <2>4 DEF Server
<1>6. last.time = 1 /\ prev.time = 1 /\ DOMAIN last.ents = {} /\ DOMAIN prev.ents = {}
  BY <1>1 DEF Nothing
<1>7. Messages
  <2>1. net \in Seq({}) /\ Len(net) = 0
    BY <1>1
  <2>2. Snapshot(last) /\ Snapshot(prev) /\ Past(last) /\ Follows(prev, last)
    BY <1>1, <1>6 DEF Snapshot, Past, Follows
  <2> QED BY <2>1, <2>2 DEF Messages
<1>8. Entities
  BY <1>1, <1>6 DEF Entities, NoEntity
<1>9. ShowsLastMessage /\ NoMorph
  <2>1. DOMAIN placed = {} /\ Drawn({}) = {} /\ visedicts = {}
    BY <1>1 DEF Drawn
  <2> QED BY <1>6, <2>1 DEF ShowsLastMessage, NoMorph
<1> QED BY <1>5, <1>7, <1>8, <1>9 DEF Inv

LEMMA NextInv == Inv /\ [Next]_vars => Inv'
<1> SUFFICES ASSUME Inv, [Next]_vars PROVE Inv'
  OBVIOUS
<1>1. CASE \E e \in Edicts : Think(e) \/ Free(e) \/ Alloc(e)
  BY <1>1, ThinkInv, FreeInv, AllocInv
<1>2. CASE Pause
  BY <1>2, PauseInv
<1>3. CASE ServerFrame
  BY <1>3, ServerFrameInv
<1>4. CASE Parse
  BY <1>4, ParseInv
<1>5. CASE Relink
  BY <1>5, RelinkInv
<1>6. CASE UNCHANGED vars
  <2>1. Sent' = Sent
    BY <1>6, SentSame DEF vars, server, bases
  <2>2. \A m : Snapshot(m) /\ Past(m) => Past(m)'
    BY <1>6, <2>1 DEF vars, server, Past
  <2>3. Server'
    BY <1>6 DEF vars, server, bases, Inv, Server
  <2> QED BY <1>6, <2>2, <2>3, QuietStep DEF vars
<1> QED BY <1>1, <1>2, <1>3, <1>4, <1>5, <1>6 DEF Next

LEMMA Invariance == Spec => []Inv
BY InitInv, NextInv, PTL DEF Spec

\* Whatever datagrams are lost: CL_RelinkEntities places exactly the entities of
\* the last message that CL_ParseUpdate read, with the look they had, each near
\* where it was in that message or in the one before, and puts into cl_visedicts
\* all of them but cl.viewentity, the lowest MAX_VISEDICTS numbers.
THEOREM ShowsTheLastMessage == Spec => []ShowsLastMessage
<1>1. Inv => ShowsLastMessage
  BY DEF Inv
<1> QED BY <1>1, Invariance, PTL

\* The rest that ED_Alloc gives a slot keeps CL_RelinkEntities from drawing a
\* new edict between its own place and that of the edict freed before it.
THEOREM NeverMorphs == Spec => []NoMorph
<1>1. Inv => NoMorph
  BY DEF Inv
<1> QED BY <1>1, Invariance, PTL
=============================================================================
