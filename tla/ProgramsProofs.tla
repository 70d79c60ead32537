----------------------------- MODULE ProgramsProofs -----------------------------
(***************************************************************************)
(* Proofs about the interpreter, for any functions and whatever places     *)
(* their locals share, and any depth of the stacks: the local stack is cut *)
(* into the frames of the calls, programs are nested in the call stack,    *)
(* and every call has locals of its own.                                   *)
(***************************************************************************)
EXTENDS Programs, TLAPS, WellFoundedInduction

Top == Len(pr_stack)

\* Where the part of the local stack ends that the n-th call has saved.
FrameEnd(n) == base[n] + Locals[Callee(n)]

\* The saved parts lie one behind the other.
Framed ==
    /\ \A n \in 1 .. Top : Callee(n) \in Functions
    /\ \A n \in 1 .. Top : FrameEnd(n) = IF n = Top THEN Len(localstack) ELSE base[n + 1]
    /\ \A m, n \in 1 .. Top : m < n => FrameEnd(m) <= base[n]

\* Each program has calls of its own above those of the one around it.
Nested ==
    /\ programs # <<>> <=> Running
    /\ \A i \in 1 .. Len(programs) : programs[i].exitdepth < Top
    /\ \A i, j \in 1 .. Len(programs) : i < j => programs[i].exitdepth < programs[j].exitdepth

IInv == TypeOK /\ Framed /\ Nested

StacksTyped ==
    /\ globals \in [Places -> Values]
    /\ parms \in [1 .. MaxParms -> Values]
    /\ pr_xfunction \in Functions \cup {NULL}
    /\ pr_stack \in Seq(Functions \cup {NULL}) /\ Len(pr_stack) < MaxStackDepth
    /\ localstack \in Seq(Values) /\ Len(localstack) <= LocalstackSize
    /\ base \in Seq(Nat) /\ Len(base) = Len(pr_stack)

-----------------------------------------------------------------------------
(* Sequences.                                                                *)

LEMMA Item == ASSUME NEW S, NEW s \in Seq(S), NEW i \in 1 .. Len(s) PROVE s[i] \in S
OBVIOUS

LEMMA Front ==
    ASSUME NEW S, NEW s \in Seq(S), NEW k \in 0 .. Len(s)
    PROVE  /\ SubSeq(s, 1, k) \in Seq(S) /\ Len(SubSeq(s, 1, k)) = k
           /\ \A i \in 1 .. k : SubSeq(s, 1, k)[i] = s[i]
<1>1. k \in Int /\ k <= Len(s) /\ Len(s) \in Nat
  OBVIOUS
<1> QED BY <1>1

LEMMA SeqIs ==
    ASSUME NEW S, NEW s \in Seq(S)
    PROVE  s = [i \in 1 .. Len(s) |-> s[i]]
OBVIOUS

LEMMA AppendIs ==
    ASSUME NEW S, NEW s \in Seq(S), NEW e
    PROVE  Append(s, e) = [i \in 1 .. Len(s) + 1 |-> IF i = Len(s) + 1 THEN e ELSE s[i]]
<1>1. s \in Seq(S \cup {e}) /\ Len(s) \in Nat
  OBVIOUS
<1>2. /\ Append(s, e) \in Seq(S \cup {e}) /\ Len(Append(s, e)) = Len(s) + 1
      /\ \A i \in 1 .. Len(s) : Append(s, e)[i] = s[i]
      /\ Append(s, e)[Len(s) + 1] = e
  BY <1>1
<1>3. Append(s, e) = [i \in 1 .. Len(s) + 1 |-> Append(s, e)[i]]
  BY <1>2, SeqIs
<1>4. \A i \in 1 .. Len(s) + 1 : Append(s, e)[i] = IF i = Len(s) + 1 THEN e ELSE s[i]
  BY <1>1, <1>2
<1> QED BY <1>3, <1>4

-----------------------------------------------------------------------------
(* Functions and their places.                                               *)

LEMMA FunctionFacts ==
    ASSUME NEW f \in Functions
    PROVE  /\ Start[f] \in Nat /\ Locals[f] \in Nat /\ NumParms[f] \in Nat
           /\ NumParms[f] <= Locals[f] /\ NumParms[f] <= MaxParms /\ MaxParms \in Nat
           /\ Frame(f) \subseteq Places /\ Frame(f) \subseteq Int
           /\ ParmPlaces(f) \subseteq Frame(f)
           /\ \A p \in ParmPlaces(f) : p - Start[f] + 1 \in 1 .. MaxParms
           /\ \A i \in 1 .. Locals[f] : Start[f] + i - 1 \in Frame(f)
           /\ \A p \in Frame(f) : p - Start[f] + 1 \in 1 .. Locals[f]
<1>1. /\ Start[f] \in Nat /\ Locals[f] \in Nat /\ NumParms[f] \in Nat
      /\ NumParms[f] <= Locals[f] /\ NumParms[f] <= MaxParms /\ MaxParms \in Nat
  BY ProgramsAssumption
<1>2. Frame(f) \subseteq Places
  BY DEF Places
<1> HIDE DEF MaxParms
<1> QED BY <1>1, <1>2 DEF Frame, ParmPlaces

(* The invariant, with the depth as a constant. *)
LEMMA FrameFacts ==
    ASSUME IInv, NEW t, t = Top
    PROVE  /\ t \in Nat /\ t = Len(base) /\ t = Len(pr_stack) /\ Len(localstack) \in Nat
           /\ \A n \in 1 .. t : /\ Callee(n) \in Functions /\ base[n] \in Nat
                               /\ Locals[Callee(n)] \in Nat
                               /\ FrameEnd(n) = base[n] + Locals[Callee(n)]
                               /\ FrameEnd(n) = IF n = t THEN Len(localstack) ELSE base[n + 1]
           /\ \A m, n \in 1 .. t : m < n => FrameEnd(m) <= base[n]
           /\ \A n \in 1 .. t : FrameEnd(n) <= Len(localstack)
<1>1. /\ t \in Nat /\ t = Len(base) /\ t = Len(pr_stack) /\ Len(localstack) \in Nat
      /\ base \in Seq(Nat) /\ base \in [1 .. Len(base) -> Nat]
  BY DEF IInv, TypeOK, Top
<1>2. Framed /\ t = Top
  BY DEF IInv
<1>3. ASSUME NEW n \in 1 .. t
      PROVE  /\ Callee(n) \in Functions /\ base[n] \in Nat /\ Locals[Callee(n)] \in Nat
             /\ FrameEnd(n) = base[n] + Locals[Callee(n)]
             /\ FrameEnd(n) = IF n = t THEN Len(localstack) ELSE base[n + 1]
  <2>1. Callee(n) \in Functions
    BY <1>2 DEF Framed
  <2>2. Locals[Callee(n)] \in Nat
    BY <2>1, FunctionFacts
  <2>3. base[n] \in Nat
    <3>1. n \in 1 .. Len(base)
      BY <1>1
    <3> QED BY <1>1, <3>1
  <2>4. FrameEnd(n) = base[n] + Locals[Callee(n)]
    BY DEF FrameEnd
  <2>5. FrameEnd(n) = IF n = t THEN Len(localstack) ELSE base[n + 1]
    BY <1>2 DEF Framed
  <2> QED BY <2>1, <2>2, <2>3, <2>4, <2>5
<1>4. \A m, n \in 1 .. t : m < n => FrameEnd(m) <= base[n]
  BY <1>2 DEF Framed
<1>5. ASSUME NEW n \in 1 .. t PROVE FrameEnd(n) <= Len(localstack)
  <2>1. t \in 1 .. t /\ n <= t
    BY <1>1
  <2>2. FrameEnd(t) = Len(localstack) /\ base[t] <= FrameEnd(t) /\ base[t] \in Nat
    BY <1>3, <2>1
  <2>3. CASE n < t
    <3>1. FrameEnd(n) <= base[t] /\ FrameEnd(n) \in Nat
      BY <1>3, <1>4, <2>1, <2>3
    <3> QED BY <1>1, <2>2, <3>1
  <2>4. CASE n = t
    BY <1>1, <2>2, <2>4
  <2> QED BY <1>1, <2>1, <2>3, <2>4
<1> QED BY <1>1, <1>3, <1>4, <1>5

(* PR_EnterFunction appends the part it saves to the local stack. *)
LEMMA EnterKeeps ==
    ASSUME IInv, NEW f \in Functions, Fits(f), EnterFunction(f), NEW t, t = Top
    PROVE  /\ StacksTyped' /\ Framed'
           /\ t \in Nat /\ Top' = t + 1 /\ base'[t + 1] = Len(localstack)
           /\ pr_xfunction' = f /\ Callee(t + 1)' = f
           /\ \A n \in 1 .. t : Callee(n)' = Callee(n) /\ base'[n] = base[n]
<1>1. /\ t \in Nat /\ t = Len(base) /\ Len(localstack) \in Nat
      /\ t + 1 < MaxStackDepth /\ Len(localstack) + Locals[f] <= LocalstackSize
      /\ Locals[f] \in Nat
  BY FunctionFacts DEF IInv, TypeOK, Fits, Top
<1>2. /\ Saved(f) \in Seq(Values) /\ Len(Saved(f)) = Locals[f]
  <2>1. \A i \in 1 .. Locals[f] : globals[Start[f] + i - 1] \in Values
    BY FunctionFacts DEF IInv, TypeOK
  <2> QED BY <1>1, <2>1 DEF Saved
<1>3. /\ pr_stack' \in Seq(Functions \cup {NULL}) /\ Len(pr_stack') = t + 1
      /\ base' \in Seq(Nat) /\ Len(base') = t + 1
      /\ localstack' \in Seq(Values) /\ Len(localstack') = Len(localstack) + Locals[f]
  BY <1>1, <1>2 DEF IInv, TypeOK, EnterFunction, Top
<1>4. globals' \in [Places -> Values]
  BY FunctionFacts DEF IInv, TypeOK, EnterFunction
<1>5. StacksTyped'
  BY <1>1, <1>3, <1>4 DEF IInv, TypeOK, EnterFunction, StacksTyped
<1>6. /\ \A n \in 1 .. t : pr_stack'[n] = pr_stack[n] /\ base'[n] = base[n]
      /\ pr_stack'[t + 1] = pr_xfunction /\ base'[t + 1] = Len(localstack)
      /\ Top' = t + 1 /\ pr_xfunction' = f
  BY <1>1, <1>3 DEF IInv, TypeOK, EnterFunction, Top
<1>7. /\ \A n \in 1 .. t : Callee(n)' = Callee(n)
      /\ Callee(t + 1)' = f
  <2>1. ASSUME NEW n \in 1 .. t PROVE Callee(n)' = Callee(n)
    <3>1. CASE n = t
      BY <1>1, <1>3, <1>6, <3>1 DEF Callee, Top
    <3>2. CASE n # t
      <4>1. n + 1 \in 1 .. t /\ n # t + 1
        BY <1>1, <3>2
      <4> QED BY <1>1, <1>3, <1>6, <3>2, <4>1 DEF Callee, Top
    <3> QED BY <3>1, <3>2
  <2> QED BY <1>1, <1>3, <1>6, <2>1 DEF Callee
<1>8. /\ \A n \in 1 .. t : FrameEnd(n)' = FrameEnd(n) /\ FrameEnd(n) \in Nat
      /\ FrameEnd(t + 1)' = Len(localstack')
  <2>1. ASSUME NEW n \in 1 .. t PROVE FrameEnd(n)' = FrameEnd(n) /\ FrameEnd(n) \in Nat
    <3>1. base'[n] = base[n] /\ Callee(n)' = Callee(n)
      BY <1>6, <1>7
    <3>2. FrameEnd(n) = base[n] + Locals[Callee(n)] /\ base[n] \in Nat /\ Locals[Callee(n)] \in Nat
      BY FrameFacts
    <3> QED BY <3>1, <3>2 DEF FrameEnd
  <2>2. FrameEnd(t + 1)' = Len(localstack')
    BY <1>3, <1>6, <1>7 DEF FrameEnd
  <2> QED BY <2>1, <2>2
<1>9. Framed'
  <2>1. \A n \in 1 .. t + 1 : Callee(n)' \in Functions
    BY <1>1, <1>7, FrameFacts
  <2>2. ASSUME NEW n \in 1 .. t + 1
        PROVE  FrameEnd(n)' = IF n = t + 1 THEN Len(localstack') ELSE base'[n + 1]
    <3>1. CASE n = t + 1
      BY <1>8, <3>1
    <3>2. CASE n = t
      BY <1>1, <1>6, <1>8, <3>2, FrameFacts
    <3>3. CASE n \in 1 .. t - 1
      <4>1. n \in 1 .. t /\ n + 1 \in 1 .. t /\ n # t /\ n # t + 1
        BY <1>1, <3>3
      <4> QED BY <1>6, <1>8, <4>1, FrameFacts
    <3> QED BY <1>1, <3>1, <3>2, <3>3
  <2>3. ASSUME NEW m \in 1 .. t + 1, NEW n \in 1 .. t + 1, m < n
        PROVE  FrameEnd(m)' <= base'[n]
    <3>1. m \in 1 .. t /\ (n = t + 1 \/ n \in 1 .. t)
      BY <1>1, <2>3
    <3> QED BY <1>6, <1>8, <2>3, <3>1, FrameFacts
  <2> QED BY <1>6, <2>1, <2>2, <2>3 DEF Framed
<1> QED BY <1>1, <1>5, <1>6, <1>7, <1>9

(* What a call appends. *)
LEMMA EnterStack ==
    ASSUME IInv, NEW f \in Functions, EnterFunction(f)
    PROVE  /\ \A k \in 1 .. Len(localstack) : localstack'[k] = localstack[k]
           /\ \A i \in 1 .. Locals[f] :
                 localstack'[Len(localstack) + i] = globals[Start[f] + i - 1]
<1>1. localstack \in Seq(Values) /\ Len(localstack) \in Nat /\ Locals[f] \in Nat
  BY FunctionFacts DEF IInv, TypeOK
<1>2. /\ Saved(f) \in Seq(Values) /\ Len(Saved(f)) = Locals[f]
      /\ \A i \in 1 .. Locals[f] : Saved(f)[i] = globals[Start[f] + i - 1]
  <2>1. \A i \in 1 .. Locals[f] : globals[Start[f] + i - 1] \in Values
    BY FunctionFacts DEF IInv, TypeOK
  <2> QED BY <1>1, <2>1 DEF Saved
<1>3. localstack' = localstack \o Saved(f)
  BY DEF EnterFunction
<1> QED BY <1>1, <1>2, <1>3

(* A program that runs has a call of its own, of the function that runs. *)
LEMMA RunningCalls ==
    ASSUME IInv, Running, NEW t, t = Top
    PROVE  /\ t \in Nat \ {0} /\ pr_xfunction \in Functions /\ Callee(t) = pr_xfunction
           /\ FrameEnd(t) = Len(localstack) /\ UsedAfter = base[t] /\ base[t] \in Nat
           /\ programs # <<>> /\ Len(programs) \in Nat \ {0}
           /\ programs[Len(programs)].exitdepth < t
           /\ \A i \in 1 .. Len(programs) : programs[i].exitdepth \in Nat
<1>1. programs \in Seq([exitdepth : 0 .. MaxStackDepth, left : 1 .. Runaway])
  BY DEF IInv, TypeOK
<1>2. programs # <<>> /\ Len(programs) \in Nat \ {0}
  BY <1>1 DEF IInv, Nested
<1>3. ASSUME NEW i \in 1 .. Len(programs) PROVE programs[i].exitdepth \in Nat
  <2>1. programs[i] \in [exitdepth : 0 .. MaxStackDepth, left : 1 .. Runaway]
    BY <1>1, Item
  <2> QED BY <2>1
<1>4. programs[Len(programs)].exitdepth < t
  BY <1>2 DEF IInv, Nested
<1>5. t \in Nat \ {0}
  BY <1>2, <1>3, <1>4, FrameFacts
<1>6. Callee(t) = pr_xfunction
  BY FrameFacts DEF Callee
<1>7. /\ pr_xfunction \in Functions /\ FrameEnd(t) = Len(localstack)
      /\ FrameEnd(t) = base[t] + Locals[pr_xfunction] /\ base[t] \in Nat
      /\ Locals[pr_xfunction] \in Nat
  <2>1. t \in 1 .. t
    BY <1>5
  <2> QED BY <1>6, <2>1, FrameFacts
<1>8. UsedAfter = base[t]
  BY <1>7 DEF UsedAfter
<1> QED BY <1>2, <1>3, <1>4, <1>5, <1>6, <1>7, <1>8

(* PR_LeaveFunction takes off the part that the call saved. *)
LEMMA LeaveKeeps ==
    ASSUME IInv, Running, LeaveFunction, NEW t, t = Top
    PROVE  /\ StacksTyped' /\ Framed' /\ t \in Nat \ {0} /\ Top' = t - 1
           /\ Len(localstack') = base[t]
           /\ \A n \in 1 .. t - 1 : /\ Callee(n)' = Callee(n) /\ base'[n] = base[n]
                                   /\ FrameEnd(n)' = FrameEnd(n)
           /\ \A k \in 1 .. base[t] : localstack'[k] = localstack[k]
<1>1. /\ t \in Nat \ {0} /\ pr_xfunction \in Functions /\ Callee(t) = pr_xfunction
      /\ FrameEnd(t) = Len(localstack) /\ UsedAfter = base[t] /\ base[t] \in Nat
  BY RunningCalls
<1>2. /\ t = Len(base) /\ t = Len(pr_stack) /\ Len(localstack) \in Nat
      /\ Locals[pr_xfunction] \in Nat /\ Len(localstack) = base[t] + Locals[pr_xfunction]
  <2>1. t \in 1 .. t
    BY <1>1
  <2> QED BY <1>1, <2>1, FrameFacts
<1>0. /\ pr_stack \in Seq(Functions \cup {NULL}) /\ base \in Seq(Nat)
      /\ localstack \in Seq(Values)
  BY DEF IInv, TypeOK
<1>3. /\ pr_stack' \in Seq(Functions \cup {NULL}) /\ Len(pr_stack') = t - 1
      /\ \A n \in 1 .. t - 1 : pr_stack'[n] = pr_stack[n]
      /\ pr_xfunction' = pr_stack[t] /\ pr_xfunction' \in Functions \cup {NULL}
  <2>1. pr_stack' = SubSeq(pr_stack, 1, t - 1) /\ pr_xfunction' = pr_stack[t]
    BY <1>2 DEF LeaveFunction
  <2>2. t - 1 \in 0 .. Len(pr_stack) /\ t \in 1 .. Len(pr_stack)
    BY <1>1, <1>2
  <2> QED BY <1>0, <2>1, <2>2, Front, Item
<1>4. /\ base' \in Seq(Nat) /\ Len(base') = t - 1
      /\ \A n \in 1 .. t - 1 : base'[n] = base[n]
  <2>1. base' = SubSeq(base, 1, t - 1)
    BY <1>2 DEF LeaveFunction
  <2>2. t - 1 \in 0 .. Len(base)
    BY <1>1, <1>2
  <2> QED BY <1>0, <2>1, <2>2, Front
<1>5. /\ localstack' \in Seq(Values) /\ Len(localstack') = base[t]
      /\ \A k \in 1 .. base[t] : localstack'[k] = localstack[k]
  <2>1. localstack' = SubSeq(localstack, 1, base[t])
    BY <1>1 DEF LeaveFunction
  <2>2. base[t] \in 0 .. Len(localstack)
    BY <1>1, <1>2
  <2> QED BY <1>0, <2>1, <2>2, Front
<1>6. globals' \in [Places -> Values]
  <2>1. ASSUME NEW p \in Frame(pr_xfunction)
        PROVE  localstack[UsedAfter + p - Start[pr_xfunction] + 1] \in Values
    <3>1. p - Start[pr_xfunction] + 1 \in 1 .. Locals[pr_xfunction]
      BY <1>1, FunctionFacts
    <3>2. p \in Int /\ Start[pr_xfunction] \in Nat
      BY <1>1, FunctionFacts
    <3>3. UsedAfter + p - Start[pr_xfunction] + 1 \in 1 .. Len(localstack)
      <4> DEFINE b == base[t]
                 l == Locals[pr_xfunction]
                 s == Start[pr_xfunction]
      <4>1. /\ b \in Nat /\ l \in Nat /\ s \in Nat /\ p \in Int /\ p - s + 1 \in 1 .. l
            /\ UsedAfter = b /\ Len(localstack) = b + l
        BY <1>1, <1>2, <3>1, <3>2
      <4> HIDE DEF b, l, s
      <4>2. UsedAfter + p - s + 1 \in 1 .. Len(localstack)
        BY <4>1
      <4> QED BY <4>2 DEF s
    <3> QED BY <1>0, <3>3, Item
  <2>2. globals \in [Places -> Values]
    BY DEF IInv, TypeOK
  <2> QED BY <2>1, <2>2 DEF LeaveFunction
<1>7. StacksTyped'
  <2>1. Len(pr_stack') < MaxStackDepth /\ Len(localstack') <= LocalstackSize
    <3>1. Len(pr_stack) < MaxStackDepth /\ Len(localstack) <= LocalstackSize
      BY DEF IInv, TypeOK
    <3>2. t - 1 <= t /\ base[t] <= Len(localstack)
      BY <1>1, <1>2
    <3>3. MaxStackDepth \in Nat /\ LocalstackSize \in Nat
      BY ProgramsAssumption
    <3> QED BY <1>1, <1>2, <1>3, <1>5, <3>1, <3>2, <3>3
  <2> QED BY <1>3, <1>4, <1>5, <1>6, <2>1 DEF IInv, TypeOK, LeaveFunction, StacksTyped
<1>8. ASSUME NEW n \in 1 .. t - 1
      PROVE  /\ Callee(n)' = Callee(n) /\ base'[n] = base[n] /\ FrameEnd(n)' = FrameEnd(n)
             /\ Callee(n) \in Functions
             /\ FrameEnd(n) = base[n + 1]
             /\ n = t - 1 => FrameEnd(n) = Len(localstack')
             /\ n # t - 1 => base'[n + 1] = base[n + 1]
  <2>1. n \in 1 .. t /\ n # t /\ (n # t - 1 => n + 1 \in 1 .. t - 1)
    BY <1>1
  <2>2. Callee(n)' = Callee(n)
    BY <1>2, <1>3, <2>1 DEF Callee
  <2>3. base'[n] = base[n]
    BY <1>4
  <2>4. FrameEnd(n)' = FrameEnd(n)
    BY <2>2, <2>3 DEF FrameEnd
  <2>5. FrameEnd(n) = base[n + 1] /\ Callee(n) \in Functions
    BY <2>1, FrameFacts
  <2>6. n = t - 1 => n + 1 = t
    BY <1>1
  <2> QED BY <1>4, <1>5, <2>1, <2>2, <2>3, <2>4, <2>5, <2>6
<1>9. Top' = t - 1
  BY <1>3 DEF Top
<1>10. Framed'
  <2>1. ASSUME NEW m \in 1 .. t - 1, NEW n \in 1 .. t - 1, m < n PROVE FrameEnd(m)' <= base'[n]
    <3>1. m \in 1 .. t /\ n \in 1 .. t
      BY <1>1
    <3>2. FrameEnd(m) <= base[n]
      BY <2>1, <3>1, FrameFacts
    <3> QED BY <1>8, <3>2
  <2>2. ASSUME NEW n \in 1 .. t - 1
        PROVE  FrameEnd(n)' = IF n = t - 1 THEN Len(localstack') ELSE base'[n + 1]
    BY <1>8
  <2>3. \A n \in 1 .. t - 1 : Callee(n)' \in Functions
    BY <1>8
  <2> QED BY <1>9, <2>1, <2>2, <2>3 DEF Framed
<1> QED BY <1>1, <1>5, <1>7, <1>8, <1>9, <1>10

-----------------------------------------------------------------------------
(* The steps.                                                                *)

Records == [exitdepth : 0 .. MaxStackDepth, left : 1 .. Runaway]

\* A C stack of programs whose calls are among the first d.
NestedIn(progs, d) ==
    /\ progs \in Seq(Records)
    /\ \A i \in 1 .. Len(progs) : progs[i].exitdepth < d
    /\ \A i, j \in 1 .. Len(progs) : i < j => progs[i].exitdepth < progs[j].exitdepth

LEMMA Together ==
    IInv <=> /\ StacksTyped /\ Framed
             /\ NestedIn(programs, Top) /\ pc \in Phases /\ (programs # <<>> <=> Running)
BY DEF IInv, TypeOK, StacksTyped, Nested, NestedIn, Records

(* A statement that is counted changes nothing else of its program. *)
LEMMA Counted ==
    ASSUME IInv, Statement, NEW d \in Nat, Top <= d
    PROVE  /\ NestedIn(CountedStep, d) /\ CountedStep # <<>>
           /\ Len(CountedStep) = Len(programs)
           /\ \A i \in 1 .. Len(programs) : CountedStep[i].exitdepth = programs[i].exitdepth
<1> DEFINE n == Len(programs)
           e == [programs[n] EXCEPT !.left = @ - 1]
<1>1. /\ programs \in Seq(Records) /\ n \in Nat \ {0} /\ programs[n].left > 1
      /\ \A i \in 1 .. n : programs[i] \in Records
  <2>1. programs \in Seq(Records)
    BY Together DEF NestedIn
  <2>2. n \in Nat \ {0} /\ programs[n].left > 1
    BY RunningCalls DEF Statement
  <2> QED BY <2>1, <2>2, Item
<1>2. e \in Records /\ e.exitdepth = programs[n].exitdepth
  <2>1. ASSUME NEW q \in Records, q.left > 1
        PROVE  /\ [q EXCEPT !.left = @ - 1] \in Records
               /\ [q EXCEPT !.left = @ - 1].exitdepth = q.exitdepth
    <3>1. q.left - 1 \in 1 .. Runaway
      BY <2>1, ProgramsAssumption DEF Records
    <3> QED BY <3>1 DEF Records
  <2>2. programs[n] \in Records
    BY <1>1
  <2> QED BY <1>1, <2>1, <2>2
<1>3. CountedStep = [programs EXCEPT ![n] = e]
  BY DEF CountedStep
<1> HIDE DEF e
<1>4. /\ CountedStep \in Seq(Records) /\ Len(CountedStep) = n
      /\ \A i \in 1 .. n : CountedStep[i] = IF i = n THEN e ELSE programs[i]
  BY <1>1, <1>2, <1>3
<1>5. \A i \in 1 .. n : CountedStep[i].exitdepth = programs[i].exitdepth
  BY <1>2, <1>4
<1>6. CountedStep # <<>>
  BY <1>1, <1>4
<1>7. ASSUME NEW i \in 1 .. n PROVE programs[i].exitdepth < d
  <2>1. programs[i].exitdepth < Top /\ programs[i].exitdepth \in Nat /\ Top \in Nat
    BY RunningCalls DEF IInv, Nested, Statement
  <2> QED BY <2>1
<1>8. \A i, j \in 1 .. n : i < j => programs[i].exitdepth < programs[j].exitdepth
  BY DEF IInv, Nested
<1> QED BY <1>4, <1>5, <1>6, <1>7, <1>8 DEF NestedIn

LEMMA NoPrograms == ASSUME NEW d PROVE NestedIn(<<>>, d)
BY DEF NestedIn

LEMMA HostErrorKeeps ==
    ASSUME IInv, HostError, StacksTyped', Framed'
    PROVE  IInv'
<1>1. programs' = <<>> /\ pc' \in {"exit", "shutdown", "host"}
  BY DEF HostError
<1>2. NestedIn(programs, Top)' /\ (pc \in Phases)' /\ ~ Running'
  BY <1>1, NoPrograms DEF Phases, Running, NestedIn
<1> QED BY <1>1, <1>2 DEF IInv, TypeOK, StacksTyped, Nested, NestedIn, Records

LEMMA RunErrorKeeps ==
    ASSUME IInv, RunError
    PROVE  IInv'
<1>1. /\ pr_stack' = <<>> /\ base' = <<>> /\ HostError
      /\ UNCHANGED <<localstack, globals, parms, pr_xfunction>>
  BY DEF RunError, HostError
<1>2. StacksTyped'
  BY <1>1, ProgramsAssumption DEF IInv, TypeOK, StacksTyped
<1>3. Framed'
  <2>1. Top' = 0
    BY <1>1 DEF Top
  <2> QED BY <2>1 DEF Framed
<1> QED BY <1>1, <1>2, <1>3, HostErrorKeeps

(* Whatever leaves the stacks alone leaves them sound. *)
LEMMA StacksKept ==
    ASSUME IInv, UNCHANGED <<pr_stack, localstack, base, pr_xfunction>>,
           globals' \in [Places -> Values], parms' \in [1 .. MaxParms -> Values]
    PROVE  StacksTyped' /\ Framed' /\ Top' = Top
<1>1. Top' = Top /\ \A n : Callee(n)' = Callee(n) /\ FrameEnd(n)' = FrameEnd(n)
  BY DEF Top, Callee, FrameEnd
<1>2. StacksTyped'
  BY DEF IInv, TypeOK, StacksTyped
<1> QED BY <1>1, <1>2 DEF IInv, Framed

LEMMA ExecuteKeeps ==
    ASSUME IInv, NEW f \in Functions, NEW outer, NestedIn(outer, Top), Execute(f, outer),
           pc # "exit"
    PROVE  IInv'
<1>1. CASE ~ Fits(f)
  BY <1>1, RunErrorKeeps DEF Execute
<1>2. CASE Fits(f)
  <2> DEFINE t == Top
             r == [exitdepth |-> t, left |-> Runaway]
             m == Len(outer)
  <2>1. EnterFunction(f) /\ programs' = Append(outer, r)
    BY <1>2 DEF Execute, Top
  <2>2. StacksTyped' /\ Framed' /\ t \in Nat /\ Top' = t + 1
    BY <1>2, <2>1, EnterKeeps
  <2>3. r \in Records /\ r.exitdepth = t
    BY <2>2, ProgramsAssumption DEF IInv, TypeOK, Records, Top
  <2>4. /\ programs' \in Seq(Records) /\ programs' # <<>> /\ m \in Nat
        /\ Len(programs') = m + 1 /\ programs'[m + 1] = r
        /\ \A i \in 1 .. m : programs'[i] = outer[i] /\ outer[i].exitdepth \in Nat
    <3>1. outer \in Seq(Records)
      BY DEF NestedIn
    <3>2. \A i \in 1 .. m : outer[i] \in Records
      BY <3>1, Item
    <3> HIDE DEF r
    <3> QED BY <2>1, <2>3, <3>1, <3>2 DEF Records
  <2>5. NestedIn(programs', t + 1)
    <3>1. \A i \in 1 .. m : outer[i].exitdepth < t
      BY DEF NestedIn
    <3>2. \A i, j \in 1 .. m : i < j => outer[i].exitdepth < outer[j].exitdepth
      BY DEF NestedIn
    <3>3. ASSUME NEW i \in 1 .. m + 1 PROVE programs'[i].exitdepth < t + 1
      BY <2>2, <2>3, <2>4, <3>1
    <3>4. ASSUME NEW i \in 1 .. m + 1, NEW j \in 1 .. m + 1, i < j
          PROVE  programs'[i].exitdepth < programs'[j].exitdepth
      <4>1. i \in 1 .. m /\ (j \in 1 .. m \/ j = m + 1)
        BY <2>4, <3>4
      <4> QED BY <2>3, <2>4, <3>1, <3>2, <3>4, <4>1
    <3> QED BY <2>4, <3>3, <3>4 DEF NestedIn
  <2>6. pc' \in {"program", "failing"}
    BY <1>2 DEF Execute, IInv, TypeOK, Phases
  <2>7. NestedIn(programs, Top)'
    BY <2>2, <2>5 DEF NestedIn
  <2> QED BY <2>2, <2>4, <2>6, <2>7 DEF IInv, TypeOK, StacksTyped, Nested, NestedIn, Records, Running, Phases
<1> QED BY <1>1, <1>2

LEMMA ReturnKeeps ==
    ASSUME IInv, Return
    PROVE  IInv'
<1> DEFINE t == Top
           n == Len(programs)
<1>1. Statement /\ Running /\ LeaveFunction
  BY DEF Return, Statement
<1>2. /\ StacksTyped' /\ Framed' /\ t \in Nat \ {0} /\ Top' = t - 1 /\ Len(pr_stack) = t
  BY <1>1, LeaveKeeps DEF Top
<1>3. /\ n \in Nat \ {0} /\ programs # <<>> /\ programs[n].exitdepth < t
      /\ \A i \in 1 .. n : programs[i].exitdepth \in Nat
      /\ programs \in Seq(Records)
      /\ \A i, j \in 1 .. n : i < j => programs[i].exitdepth < programs[j].exitdepth
  BY <1>1, RunningCalls, Together DEF NestedIn
<1>4. CASE EndsProgram
  <2>1. /\ programs' = SubSeq(programs, 1, n - 1) /\ programs[n].exitdepth = t - 1
        /\ pc' = IF n = 1 THEN "host" ELSE pc
    BY <1>2, <1>4 DEF Return, EndsProgram
  <2>2. n - 1 \in 0 .. Len(programs)
    BY <1>3
  <2>3. /\ programs' \in Seq(Records) /\ Len(programs') = n - 1
        /\ \A i \in 1 .. n - 1 : programs'[i] = programs[i] /\ i \in 1 .. n /\ i < n
    <3>1. /\ SubSeq(programs, 1, n - 1) \in Seq(Records) /\ Len(SubSeq(programs, 1, n - 1)) = n - 1
          /\ \A i \in 1 .. n - 1 : SubSeq(programs, 1, n - 1)[i] = programs[i]
      BY <1>3, <2>2, Front
    <3>2. \A i \in 1 .. n - 1 : i \in 1 .. n /\ i < n
      BY <1>3
    <3> QED BY <2>1, <3>1, <3>2
  <2>4. NestedIn(programs', t - 1)
    <3>1. n \in 1 .. n
      BY <1>3
    <3> QED BY <1>3, <2>1, <2>3, <3>1 DEF NestedIn
  <2>5. programs' # <<>> <=> n # 1
    BY <1>3, <2>3
  <2>6. (pc \in Phases)' /\ (programs' # <<>> <=> Running')
    BY <1>1, <2>1, <2>5 DEF Phases, Running, IInv, TypeOK
  <2> QED BY <1>2, <2>4, <2>6 DEF IInv, TypeOK, StacksTyped, Nested, NestedIn, Records
<1>5. CASE ~ EndsProgram
  <2>1. programs' = CountedStep /\ pc' = pc /\ programs[n].exitdepth # t - 1
    BY <1>2, <1>5 DEF Return, EndsProgram
  <2>2. /\ NestedIn(CountedStep, t) /\ CountedStep # <<>> /\ Len(CountedStep) = n
        /\ \A i \in 1 .. n : CountedStep[i].exitdepth = programs[i].exitdepth
    BY <1>1, <1>2, Counted
  <2>3. ASSUME NEW i \in 1 .. n PROVE programs[i].exitdepth < t - 1
    <3>1. n \in 1 .. n /\ (i = n \/ i < n)
      BY <1>3
    <3>2. programs[n].exitdepth < t - 1
      BY <1>2, <1>3, <2>1, <3>1
    <3> QED BY <1>2, <1>3, <3>1, <3>2
  <2>4. NestedIn(programs', t - 1)
    BY <2>1, <2>2, <2>3 DEF NestedIn
  <2>5. (pc \in Phases)' /\ (programs' # <<>> <=> Running')
    BY <1>1, <2>1, <2>2 DEF Phases, Running, IInv, TypeOK
  <2> QED BY <1>2, <2>4, <2>5 DEF IInv, TypeOK, StacksTyped, Nested, NestedIn, Records
<1> QED BY <1>4, <1>5

LEMMA NextInv == IInv /\ [Next]_vars => IInv'
<1> SUFFICES ASSUME IInv, [Next]_vars PROVE IInv'
  OBVIOUS
<1>1. globals \in [Places -> Values] /\ parms \in [1 .. MaxParms -> Values] /\ Top \in Nat
  BY DEF IInv, TypeOK, Top
\* A step that leaves the stacks alone and counts as a statement or none.
<1>2. ASSUME UNCHANGED <<pr_stack, localstack, base, pr_xfunction, pc>>,
             globals' \in [Places -> Values], parms' \in [1 .. MaxParms -> Values],
             UNCHANGED programs \/ (Statement /\ programs' = CountedStep)
      PROVE  IInv'
  <2>1. StacksTyped' /\ Framed' /\ Top' = Top
    BY <1>2, StacksKept
  <2>2. NestedIn(programs', Top) /\ (programs' # <<>> <=> programs # <<>>)
    <3>1. CASE UNCHANGED programs
      BY <3>1, Together
    <3>2. CASE Statement /\ programs' = CountedStep
      BY <1>1, <3>2, Counted, RunningCalls DEF Statement
    <3> QED BY <1>2, <3>1, <3>2
  <2>3. Running' = Running
    BY <1>2 DEF Running
  <2> QED BY <1>2, <2>1, <2>2, <2>3
          DEF IInv, TypeOK, StacksTyped, Nested, NestedIn, Records
<1>3. CASE UNCHANGED vars
  BY <1>1, <1>2, <1>3 DEF vars, stacks
<1>4. CASE LoadProgs
  <2>1. globals' \in [Places -> Values]
    BY <1>4 DEF LoadProgs
  <2> QED BY <1>1, <1>2, <1>4, <2>1 DEF LoadProgs, stacks
<1>5. ASSUME NEW f \in Functions, HostCall(f) PROVE IInv'
  BY <1>5, ExecuteKeeps, NoPrograms DEF HostCall
<1>6. CASE Shutdown
  BY <1>6, ExecuteKeeps, NoPrograms, ProgramsAssumption DEF Shutdown
<1>7. CASE RunawayLoop
  BY <1>7, RunErrorKeeps DEF RunawayLoop
<1>8. ASSUME NEW p \in Places, NEW v \in Values, Assign(p, v) PROVE IInv'
  <2>1. globals' \in [Places -> Values]
    BY <1>1, <1>8 DEF Assign
  <2> QED BY <1>1, <1>2, <1>8, <2>1 DEF Assign, stacks
<1>9. ASSUME NEW i \in 1 .. MaxParms, NEW v \in Values, SetParm(i, v) PROVE IInv'
  <2>1. parms' \in [1 .. MaxParms -> Values]
    BY <1>1, <1>9 DEF SetParm
  <2> QED BY <1>1, <1>2, <1>9, <2>1 DEF SetParm, stacks
<1>10. ASSUME NEW f \in Functions, Call(f) PROVE IInv'
  <2>1. CASE ~ Fits(f)
    BY <1>10, <2>1, RunErrorKeeps DEF Call
  <2>2. CASE Fits(f)
    <3>1. EnterFunction(f) /\ Statement /\ programs' = CountedStep /\ UNCHANGED pc
      BY <1>10, <2>2 DEF Call
    <3>2. StacksTyped' /\ Framed' /\ Top' = Top + 1
      BY <2>2, <3>1, EnterKeeps
    <3>3. NestedIn(programs', Top + 1) /\ programs' # <<>> /\ programs # <<>>
      <4>1. Top + 1 \in Nat /\ Top <= Top + 1
        BY <1>1
      <4> QED BY <3>1, <4>1, Counted, RunningCalls DEF Statement
    <3>4. Running' = Running
      BY <3>1 DEF Running
    <3> QED BY <3>1, <3>2, <3>3, <3>4
            DEF IInv, TypeOK, StacksTyped, Nested, NestedIn, Records
  <2> QED BY <2>1, <2>2
<1>11. ASSUME NEW f \in Functions, BuiltinRuns(f) PROVE IInv'
  <2>1. Statement /\ Execute(f, CountedStep) /\ pc # "exit"
    BY <1>11 DEF BuiltinRuns, Statement, Running
  <2>2. NestedIn(CountedStep, Top)
    BY <1>1, <2>1, Counted
  <2> QED BY <2>1, <2>2, ExecuteKeeps
<1>12. CASE BuiltinFails
  <2>1. HostError /\ UNCHANGED <<pr_stack, localstack, base, pr_xfunction, globals, parms>>
    BY <1>12 DEF BuiltinFails, HostError, stacks
  <2>2. StacksTyped' /\ Framed'
    BY <1>1, <2>1, StacksKept
  <2> QED BY <2>1, <2>2, HostErrorKeeps
<1>13. CASE StatementFails
  BY <1>13, RunErrorKeeps DEF StatementFails
<1>14. CASE Return
  BY <1>14, ReturnKeeps
<1> QED BY <1>3, <1>4, <1>5, <1>6, <1>7, <1>8, <1>9, <1>10, <1>11, <1>12, <1>13, <1>14
        DEF Next, Step

LEMMA InitInv == Init => IInv
<1> SUFFICES ASSUME Init PROVE IInv
  OBVIOUS
<1>1. pr_stack = <<>> /\ base = <<>> /\ localstack = <<>> /\ programs = <<>> /\ pc = "host"
  BY DEF Init
<1>2. StacksTyped
  BY <1>1, ProgramsAssumption DEF Init, StacksTyped
<1>3. Framed
  BY <1>1 DEF Framed, Top
<1> QED BY <1>1, <1>2, <1>3, NoPrograms, Together DEF Phases, Running

(* The call stack, the parts saved on the local stack and the programs in     *)
(* progress fit together, whatever programs do and wherever they fail.        *)
THEOREM ProgramsInvariant == Spec => []IInv
BY InitInv, NextInv, PTL DEF Spec

(* pr_depth and localstack_used keep within their arrays, and neither of the  *)
(* underflows that PR_LeaveFunction looks for happens.                        *)
THEOREM ProgramsTyped == Spec => []TypeOK
<1>1. IInv => TypeOK
  BY DEF IInv
<1> QED BY <1>1, ProgramsInvariant, PTL

(* A program that ends leaves both stacks as PR_ExecuteProgram found them.    *)
THEOREM ProgramsBalanced == Spec => ReturnsBalanced
<1>1. IInv /\ [Next]_vars =>
        [ (programs # <<>> /\ Len(programs') < Len(programs) /\ Return)
          => LET e == programs[Len(programs)].exitdepth
             IN  Len(pr_stack') = e /\ Len(localstack') = base[e + 1] ]_vars
  <2> SUFFICES ASSUME IInv, programs # <<>>, Len(programs') < Len(programs), Return,
                      NEW e, e = programs[Len(programs)].exitdepth
               PROVE  Len(pr_stack') = e /\ Len(localstack') = base[e + 1]
    OBVIOUS
  <2>1. Statement /\ Running /\ LeaveFunction
    BY DEF Return, Statement
  <2>2. /\ Top \in Nat \ {0} /\ Len(pr_stack') = Top - 1 /\ Len(localstack') = base[Top]
        /\ Len(pr_stack) = Top
    BY <2>1, LeaveKeeps DEF Top
  <2>3. EndsProgram
    <3> SUFFICES ASSUME ~ EndsProgram PROVE FALSE
      OBVIOUS
    <3>1. Len(programs') = Len(programs) /\ Len(programs) \in Nat
      BY <2>1, <2>2, Counted, RunningCalls DEF Return
    <3> QED BY <3>1
  <2>4. Top - 1 = e
    BY <2>2, <2>3 DEF EndsProgram
  <2> QED BY <2>2, <2>4
<1> QED BY <1>1, ProgramsInvariant, PTL DEF Spec, ReturnsBalanced

-----------------------------------------------------------------------------
(* The refinement.  What a call finds in its places.                         *)

(* The calls that saved a place have a lowest one among them. *)
LEMMA LowestExists ==
    ASSUME NEW S, S \subseteq Nat, S # {}
    PROVE  \E m \in S : \A k \in S : m <= k
<1>1. PICK m \in S : \A k \in S : ~ (<<k, m>> \in OpToRel(<, Nat))
  BY NatLessThanWellFounded, WFMin
<1>2. \A k \in S : ~ (k < m)
  BY <1>1 DEF OpToRel
<1> QED BY <1>2

LEMMA LowestIs ==
    ASSUME NEW S, S \subseteq Nat, NEW m \in S, \A k \in S : m <= k
    PROVE  Lowest(S) = m
<1>1. /\ Lowest(S) \in S /\ \A k \in S : Lowest(S) <= k
  BY DEF Lowest
<1>2. Lowest(S) <= m /\ m <= Lowest(S) /\ m \in Nat /\ Lowest(S) \in Nat
  BY <1>1
<1> HIDE DEF Lowest
<1> QED BY <1>2

(* Where a saved value is: in the part of the call that saved it, and so      *)
(* below the top of the local stack.                                         *)
LEMMA SavedAt ==
    ASSUME IInv, NEW t, t = Top, NEW m \in 1 .. t, NEW p \in Frame(Callee(m))
    PROVE  base[m] + p - Start[Callee(m)] + 1 \in base[m] + 1 .. FrameEnd(m)
<1> DEFINE f == Callee(m)
           b == base[m]
           s == Start[f]
           l == Locals[f]
<1>1. f \in Functions /\ b \in Nat /\ l \in Nat /\ FrameEnd(m) = b + l
  BY FrameFacts
<1>2. s \in Nat /\ p \in Int /\ p - s + 1 \in 1 .. l
  BY <1>1, FunctionFacts
<1> HIDE DEF b, s, l
<1>3. b + p - s + 1 \in b + 1 .. b + l
  BY <1>1, <1>2
<1> QED BY <1>1, <1>3 DEF b, s

(* A call leaves what the calls below it will find as it is. *)
LEMMA EnterLocal ==
    ASSUME IInv, NEW f \in Functions, Fits(f), EnterFunction(f), NEW t, t = Top,
           NEW n \in 1 .. t, NEW p \in Frame(Callee(n))
    PROVE  Callee(n)' = Callee(n) /\ Local(n, p)' = Local(n, p)
<1>1. /\ t \in Nat /\ Top' = t + 1 /\ base'[t + 1] = Len(localstack) /\ t = Len(pr_stack)
      /\ pr_xfunction' = f /\ Len(pr_stack') = t + 1
      /\ \A k \in 1 .. t : Callee(k)' = Callee(k) /\ base'[k] = base[k]
      /\ Callee(t + 1)' = f
  BY EnterKeeps DEF Top
<1>2. Savers(n, p)' = Savers(n, p) \cup (IF p \in Frame(f) THEN {t + 1} ELSE {})
  BY <1>1 DEF Savers
<1>3. Savers(n, p) \subseteq Nat /\ \A m \in Savers(n, p) : m \in 1 .. t /\ p \in Frame(Callee(m))
  BY <1>1 DEF Savers
<1>4. CASE Savers(n, p) # {}
  <2>1. PICK m \in Savers(n, p) : \A k \in Savers(n, p) : m <= k
    BY <1>3, <1>4, LowestExists
  <2>2. m \in 1 .. t /\ p \in Frame(Callee(m))
    BY <1>3
  <2>3. Savers(n, p)' \subseteq Nat /\ m \in Savers(n, p)' /\ \A k \in Savers(n, p)' : m <= k
    BY <1>1, <1>2, <1>3, <2>1, <2>2
  <2>4. Lowest(Savers(n, p)) = m /\ Lowest(Savers(n, p)') = m
    BY <1>3, <2>1, <2>3, LowestIs
  <2>5. base[m] + p - Start[Callee(m)] + 1 \in 1 .. Len(localstack)
    <3> DEFINE a == base[m] + p - Start[Callee(m)] + 1
    <3>1. a \in base[m] + 1 .. FrameEnd(m)
      BY <2>2, SavedAt
    <3>2. base[m] \in Nat /\ FrameEnd(m) <= Len(localstack) /\ FrameEnd(m) \in Nat
      BY <2>2, FrameFacts
    <3> HIDE DEF a
    <3>3. a \in 1 .. Len(localstack)
      BY <3>1, <3>2, FrameFacts
    <3> QED BY <3>3 DEF a
  <2>6. \A k \in 1 .. Len(localstack) : localstack'[k] = localstack[k]
    BY EnterStack
  <2>7. Local(n, p)' = localstack'[base'[m] + p - Start[Callee(m)'] + 1]
    BY <2>3, <2>4 DEF Local
  <2>8. Local(n, p) = localstack[base[m] + p - Start[Callee(m)] + 1]
    BY <1>4, <2>4 DEF Local
  <2> QED BY <1>1, <2>2, <2>5, <2>6, <2>7, <2>8
<1>5. CASE Savers(n, p) = {} /\ p \in Frame(f)
  <2>1. Savers(n, p)' = {t + 1}
    BY <1>2, <1>5
  <2>2. Lowest({t + 1}) = t + 1
    <3>1. {t + 1} \subseteq Nat /\ \A k \in {t + 1} : t + 1 <= k
      BY <1>1
    <3> QED BY <3>1, LowestIs
  <2>3. Local(n, p)' = localstack'[base'[t + 1] + p - Start[f] + 1]
    BY <1>1, <2>1, <2>2 DEF Local
  <2>4. /\ p - Start[f] + 1 \in 1 .. Locals[f] /\ p \in Int /\ Start[f] \in Nat /\ Locals[f] \in Nat
    BY <1>5, FunctionFacts
  <2>5. localstack'[Len(localstack) + (p - Start[f] + 1)] = globals[Start[f] + (p - Start[f] + 1) - 1]
    BY <2>4, EnterStack
  <2>6. Len(localstack) \in Nat
    BY FrameFacts
  <2>7. /\ Len(localstack) + (p - Start[f] + 1) = Len(localstack) + p - Start[f] + 1
        /\ Start[f] + (p - Start[f] + 1) - 1 = p
    BY <2>4, <2>6
  <2>8. Local(n, p) = globals[p]
    BY <1>5 DEF Local
  <2> QED BY <1>1, <2>3, <2>5, <2>7, <2>8
<1>6. CASE Savers(n, p) = {} /\ p \notin Frame(f)
  <2>1. Savers(n, p)' = {}
    BY <1>2, <1>6
  <2>2. p \notin ParmPlaces(f) /\ p \in Places
    BY <1>6, FunctionFacts, FrameFacts
  <2>3. globals'[p] = globals[p]
    BY <2>2 DEF EnterFunction
  <2> QED BY <1>1, <1>6, <2>1, <2>3 DEF Local
<1> QED BY <1>4, <1>5, <1>6

(* What a function finds when it begins: its arguments. *)
LEMMA EnterOwn ==
    ASSUME IInv, NEW f \in Functions, Fits(f), EnterFunction(f), NEW t, t = Top,
           NEW p \in Frame(f)
    PROVE  Local(t + 1, p)' = IF p \in ParmPlaces(f) THEN parms[p - Start[f] + 1] ELSE globals[p]
<1>1. t \in Nat /\ Len(pr_stack') = t + 1
  BY EnterKeeps DEF Top
<1>2. Savers(t + 1, p)' = {}
  BY <1>1 DEF Savers
<1>3. p \in Places
  BY FunctionFacts
<1> QED BY <1>2, <1>3 DEF Local, EnterFunction

(* A return leaves what the calls below it find as it is: what it had saved   *)
(* is back in its place.                                                     *)
LEMMA LeaveLocal ==
    ASSUME IInv, Running, LeaveFunction, NEW t, t = Top,
           NEW n \in 1 .. t - 1, NEW p \in Frame(Callee(n))
    PROVE  Callee(n)' = Callee(n) /\ Local(n, p)' = Local(n, p)
<1>1. /\ t \in Nat \ {0} /\ Top' = t - 1 /\ t = Len(pr_stack) /\ Len(pr_stack') = t - 1
      /\ \A k \in 1 .. t - 1 : Callee(k)' = Callee(k) /\ base'[k] = base[k]
      /\ \A k \in 1 .. base[t] : localstack'[k] = localstack[k]
  BY LeaveKeeps DEF Top
<1>2. /\ pr_xfunction \in Functions /\ Callee(t) = pr_xfunction /\ UsedAfter = base[t]
      /\ base[t] \in Nat
  BY RunningCalls
<1>3. Savers(n, p)' = Savers(n, p) \ {t}
  BY <1>1 DEF Savers
<1>4. /\ Savers(n, p) \subseteq Nat
      /\ \A m \in Savers(n, p) : m \in 1 .. t /\ n < m /\ p \in Frame(Callee(m))
      /\ t \in Savers(n, p) <=> p \in Frame(pr_xfunction)
  BY <1>1, <1>2 DEF Savers
<1>5. p \in Places
  BY <1>1, FunctionFacts, FrameFacts
<1>6. CASE Savers(n, p) = {}
  BY <1>1, <1>3, <1>4, <1>5, <1>6 DEF Local, LeaveFunction
<1>7. CASE Savers(n, p) # {}
  <2>1. PICK m \in Savers(n, p) : \A k \in Savers(n, p) : m <= k
    BY <1>4, <1>7, LowestExists
  <2>2. m \in 1 .. t /\ p \in Frame(Callee(m)) /\ Lowest(Savers(n, p)) = m
    BY <1>4, <2>1, LowestIs
  <2>3. Local(n, p) = localstack[base[m] + p - Start[Callee(m)] + 1]
    BY <1>7, <2>2 DEF Local
  <2>4. CASE m = t
    <3>1. Savers(n, p)' = {}
      <4>1. \A k \in Savers(n, p) : k = t
        BY <1>1, <1>4, <2>1, <2>4
      <4> QED BY <1>3, <4>1
    <3>2. Local(n, p)' = globals'[p]
      BY <3>1 DEF Local
    <3>3. globals'[p] = localstack[UsedAfter + p - Start[pr_xfunction] + 1]
      BY <1>2, <1>5, <2>2, <2>4 DEF LeaveFunction
    <3> QED BY <1>1, <1>2, <2>3, <2>4, <3>2, <3>3
  <2>5. CASE m # t
    <3>1. m \in 1 .. t - 1 /\ m < t
      BY <1>1, <2>2, <2>5
    <3>2. Savers(n, p)' \subseteq Nat /\ m \in Savers(n, p)' /\ \A k \in Savers(n, p)' : m <= k
      BY <1>3, <1>4, <2>1, <2>5
    <3>3. Lowest(Savers(n, p)') = m
      BY <3>2, LowestIs
    <3>4. Local(n, p)' = localstack'[base'[m] + p - Start[Callee(m)'] + 1]
      BY <3>2, <3>3 DEF Local
    <3>5. base[m] + p - Start[Callee(m)] + 1 \in 1 .. base[t]
      <4> DEFINE a == base[m] + p - Start[Callee(m)] + 1
      <4>1. a \in base[m] + 1 .. FrameEnd(m)
        BY <2>2, SavedAt
      <4>2. base[m] \in Nat /\ FrameEnd(m) <= base[t] /\ FrameEnd(m) \in Nat
        <5>1. t \in 1 .. t
          BY <1>1
        <5> QED BY <2>2, <3>1, <5>1, FrameFacts
      <4> HIDE DEF a
      <4>3. a \in 1 .. base[t]
        BY <1>2, <4>1, <4>2
      <4> QED BY <4>3 DEF a
    <3> QED BY <1>1, <2>3, <3>1, <3>4, <3>5
  <2> QED BY <2>4, <2>5
<1> QED BY <1>1, <1>6, <1>7

(* An assignment reaches the function that runs and no other call. *)
LEMMA AssignLocal ==
    ASSUME IInv, NEW q, NEW v, Assign(q, v), NEW t, t = Top,
           NEW n \in 1 .. t, NEW p \in Frame(Callee(n))
    PROVE  /\ Callee(n)' = Callee(n)
           /\ Local(n, p)' = IF n = t /\ p = q THEN v ELSE Local(n, p)
<1>1. /\ Running /\ q \in Frame(pr_xfunction) /\ globals' = [globals EXCEPT ![q] = v]
      /\ UNCHANGED <<pr_stack, localstack, base, pr_xfunction>>
  BY DEF Assign, Statement, stacks
<1>2. /\ t \in Nat \ {0} /\ t = Len(pr_stack) /\ Callee(t) = pr_xfunction
      /\ pr_xfunction \in Functions
  BY <1>1, RunningCalls DEF Top
<1>3. globals \in [Places -> Values] /\ p \in Places
  BY FunctionFacts, FrameFacts DEF IInv, TypeOK
<1>4. /\ \A k : Callee(k)' = Callee(k)
      /\ Savers(n, p)' = Savers(n, p)
  BY <1>1 DEF Callee, Savers
<1>5. CASE Savers(n, p) # {}
  <2>1. ~ (n = t)
    <3> SUFFICES ASSUME n = t PROVE FALSE
      OBVIOUS
    <3>1. Savers(n, p) = {}
      BY <1>2 DEF Savers
    <3> QED BY <1>5, <3>1
  <2>2. Local(n, p)' = Local(n, p)
    BY <1>1, <1>4, <1>5 DEF Local
  <2> QED BY <1>4, <2>1, <2>2
<1>6. CASE Savers(n, p) = {}
  <2>1. Local(n, p) = globals[p] /\ Local(n, p)' = globals'[p]
    BY <1>4, <1>6 DEF Local
  <2>2. p = q => n = t
    <3> SUFFICES ASSUME p = q, n # t PROVE FALSE
      OBVIOUS
    <3>1. t \in Savers(n, p)
      BY <1>1, <1>2 DEF Savers
    <3> QED BY <1>6, <3>1
  <2> QED BY <1>1, <1>3, <1>4, <2>1, <2>2
<1> QED BY <1>5, <1>6

-----------------------------------------------------------------------------
(* The refinement.  The calls above the floor, as a sequence.                *)

Activation(n) == [f |-> Callee(n), store |-> [p \in Frame(Callee(n)) |-> Local(n, p)]]

LEMMA FloorFacts ==
    ASSUME IInv, NEW t, t = Top
    PROVE  /\ Floor \in 0 .. t /\ (Running => Floor \in 0 .. t - 1)
           /\ programs = <<>> => Floor = t
           /\ programs # <<>> => Floor = programs[1].exitdepth
<1>1. t \in Nat /\ t = Len(pr_stack)
  BY FrameFacts
<1>2. programs = <<>> => Floor = t
  BY <1>1 DEF Floor
<1>3. programs # <<>> => Floor = programs[1].exitdepth
  BY DEF Floor
<1>4. ASSUME programs # <<>> PROVE Floor \in 0 .. t - 1
  <2>1. Running /\ programs \in Seq(Records)
    BY <1>4, Together DEF NestedIn
  <2>2. 1 \in 1 .. Len(programs)
    BY <2>1, RunningCalls
  <2>3. programs[1].exitdepth < t /\ programs[1].exitdepth \in Nat
    BY <2>1, <2>2, RunningCalls DEF IInv, Nested
  <2> QED BY <1>1, <1>3, <1>4, <2>3
<1>5. Running => programs # <<>>
  BY DEF IInv, Nested
<1> QED BY <1>1, <1>2, <1>3, <1>4, <1>5

Activated == {Activation(n) : n \in 1 .. Top}

LEMMA CallsFacts ==
    ASSUME IInv, NEW t, t = Top, NEW k, k = Floor
    PROVE  /\ Calls \in Seq(Activated) /\ Len(Calls) = t - k /\ t - k \in Nat
           /\ \A i \in 1 .. t - k : Calls[i] = Activation(k + i) /\ k + i \in 1 .. t
<1>1. t \in Nat /\ t = Len(pr_stack) /\ k \in 0 .. t
  BY FrameFacts, FloorFacts
<1>2. Calls = [i \in 1 .. t - k |-> Activation(k + i)]
  BY <1>1 DEF Calls, Activation
<1>3. t - k \in Nat /\ \A i \in 1 .. t - k : k + i \in 1 .. t
  BY <1>1
<1>4. \A i \in 1 .. t - k : Activation(k + i) \in Activated
  BY <1>3 DEF Activated
<1>5. Calls \in Seq(Activated) /\ Len(Calls) = t - k
  BY <1>2, <1>3, <1>4
<1>6. \A i \in 1 .. t - k : Calls[i] = Activation(k + i)
  BY <1>2
<1> QED BY <1>3, <1>5, <1>6

(* The same after a step. *)
LEMMA CallsAfter ==
    ASSUME NEW t, t = Top', NEW k, k = Floor'
    PROVE  Calls' = [i \in 1 .. t - k |-> Activation(k + i)']
BY DEF Calls, Activation, Top

(* PR_EnterFunction begins a call with locals of its own. *)
LEMMA EnterIsEnter ==
    ASSUME IInv, NEW f \in Functions, Fits(f), EnterFunction(f), Floor' = Floor
    PROVE  A!Enter(f)
<1>0. PICK t, k : t = Top /\ k = Floor
  OBVIOUS
<1> DEFINE Start1(p) == IF p \in ParmPlaces(f) THEN parms[p - Start[f] + 1] ELSE globals[p]
           store == [p \in Frame(f) |-> Start1(p)]
           c == [f |-> f, store |-> store]
<1>1. /\ t \in Nat /\ Top' = t + 1 /\ k \in 0 .. t
      /\ \A n \in 1 .. t : Callee(n)' = Callee(n)
      /\ Callee(t + 1)' = f
  BY <1>0, EnterKeeps, FloorFacts
<1>2. ASSUME NEW n \in 1 .. t PROVE Activation(n)' = Activation(n)
  <2>1. Callee(n)' = Callee(n) /\ \A p \in Frame(Callee(n)) : Local(n, p)' = Local(n, p)
    BY <1>0, <1>1, EnterLocal
  <2> QED BY <2>1 DEF Activation
<1>3. Activation(t + 1)' = c
  <2>1. \A p \in Frame(f) : Local(t + 1, p)' = Start1(p)
    BY <1>0, EnterOwn
  <2> QED BY <1>1, <2>1 DEF Activation
<1>4. Calls' = Append(Calls, c)
  <2> HIDE DEF c
  <2>1. Calls' = [i \in 1 .. (t + 1) - k |-> Activation(k + i)']
    <3>1. t + 1 = Top' /\ k = Floor'
      BY <1>0, <1>1
    <3> QED BY <3>1, CallsAfter
  <2>2. /\ Calls \in Seq(Activated) /\ Len(Calls) = t - k /\ t - k \in Nat
        /\ \A i \in 1 .. t - k : Calls[i] = Activation(k + i) /\ k + i \in 1 .. t
    BY <1>0, CallsFacts
  <2>3. (t + 1) - k = (t - k) + 1 /\ k + ((t - k) + 1) = t + 1
    BY <1>1
  <2>4. ASSUME NEW i \in 1 .. (t - k) + 1
        PROVE  Activation(k + i)' = IF i = Len(Calls) + 1 THEN c ELSE Calls[i]
    <3>1. CASE i \in 1 .. t - k
      <4>1. i # Len(Calls) + 1 /\ k + i \in 1 .. t /\ Calls[i] = Activation(k + i)
        BY <2>2, <3>1
      <4> QED BY <1>2, <4>1
    <3>2. CASE i = (t - k) + 1
      <4>1. i = Len(Calls) + 1 /\ k + i = t + 1
        BY <2>2, <2>3, <3>2
      <4> QED BY <1>3, <4>1
    <3> QED BY <2>2, <3>1, <3>2
  <2>5. Calls' = [i \in 1 .. Len(Calls) + 1 |-> IF i = Len(Calls) + 1 THEN c ELSE Calls[i]]
    BY <2>1, <2>2, <2>3, <2>4
  <2>6. Append(Calls, c) = [i \in 1 .. Len(Calls) + 1 |-> IF i = Len(Calls) + 1 THEN c ELSE Calls[i]]
    BY <2>2, AppendIs
  <2> QED BY <2>5, <2>6
<1>5. store \in [Frame(f) -> Values]
  <2>1. \A p \in Frame(f) : Start1(p) \in Values
    BY FunctionFacts DEF IInv, TypeOK
  <2> HIDE DEF Start1
  <2> QED BY <2>1
<1>6. ASSUME NEW i \in 1 .. NumParms[f] PROVE store[Start[f] + i - 1] = parms[i]
  <2>1. PICK p : p = Start[f] + i - 1
    OBVIOUS
  <2>2. p \in ParmPlaces(f) /\ p - Start[f] + 1 = i
    BY <2>1, FunctionFacts DEF ParmPlaces
  <2>3. p \in Frame(f)
    BY <2>2, FunctionFacts
  <2>4. store[p] = parms[i]
    BY <2>2, <2>3
  <2> HIDE DEF store
  <2> QED BY <2>1, <2>4
<1>7. parms' = parms
  BY DEF EnterFunction
<1> HIDE DEF store
<1>8. \E new \in [Frame(f) -> Values] :
         /\ \A i \in 1 .. NumParms[f] : new[Start[f] + i - 1] = parms[i]
         /\ Calls' = Append(Calls, [f |-> f, store |-> new])
  BY <1>4, <1>5, <1>6
<1> QED BY <1>7, <1>8, Zenon DEF A!Enter, A!Own, Frame

(* PR_LeaveFunction ends the innermost call and changes no other. *)
LEMMA LeaveIsReturn ==
    ASSUME IInv, Running, LeaveFunction, Floor' = Floor
    PROVE  A!Return
<1>1. PICK t, k : t = Top /\ k = Floor
  OBVIOUS
<1>2. t \in Nat \ {0} /\ Top' = t - 1 /\ k \in 0 .. t - 1
  BY <1>1, LeaveKeeps, FloorFacts
<1>3. ASSUME NEW n \in 1 .. t - 1 PROVE Activation(n)' = Activation(n)
  <2>1. Callee(n)' = Callee(n) /\ \A p \in Frame(Callee(n)) : Local(n, p)' = Local(n, p)
    BY <1>1, LeaveKeeps, LeaveLocal
  <2> QED BY <2>1 DEF Activation
<1>4. Calls' = [i \in 1 .. (t - 1) - k |-> Activation(k + i)']
  BY <1>1, <1>2, CallsAfter
<1>5. /\ Calls \in Seq(Activated) /\ Len(Calls) = t - k
      /\ \A i \in 1 .. t - k : Calls[i] = Activation(k + i)
  BY <1>1, CallsFacts
<1>6. /\ (t - 1) - k = Len(Calls) - 1 /\ Len(Calls) - 1 \in 0 .. Len(Calls) /\ Len(Calls) > 0
      /\ \A i \in 1 .. (t - 1) - k : i \in 1 .. t - k /\ k + i \in 1 .. t - 1
  BY <1>2, <1>5
<1>7. Calls' = [i \in 1 .. Len(Calls) - 1 |-> Calls[i]]
  BY <1>3, <1>4, <1>5, <1>6
<1>8. /\ SubSeq(Calls, 1, Len(Calls) - 1) = [i \in 1 .. Len(Calls) - 1 |-> Calls[i]]
  <2>1. /\ SubSeq(Calls, 1, Len(Calls) - 1) \in Seq(Activated)
        /\ Len(SubSeq(Calls, 1, Len(Calls) - 1)) = Len(Calls) - 1
        /\ \A i \in 1 .. Len(Calls) - 1 : SubSeq(Calls, 1, Len(Calls) - 1)[i] = Calls[i]
    BY <1>5, <1>6, Front
  <2> QED BY <2>1
<1>9. Calls # <<>>
  BY <1>6
<1>10. parms' = parms
  BY DEF LeaveFunction
<1>11. Calls' = SubSeq(Calls, 1, Len(Calls) - 1)
  BY <1>7, <1>8
<1> QED BY <1>9, <1>10, <1>11, Zenon DEF A!Return

(* An assignment is one to the innermost call. *)
LEMMA AssignIsAssign ==
    ASSUME IInv, NEW q, NEW v, Assign(q, v), Floor' = Floor
    PROVE  A!Assign(q, v)
<1>1. PICK t, k : t = Top /\ k = Floor
  OBVIOUS
<1>2. Running /\ q \in Frame(pr_xfunction) /\ Top' = t /\ UNCHANGED parms
  BY <1>1 DEF Assign, Statement, stacks, Top
<1>3. t \in Nat \ {0} /\ k \in 0 .. t - 1 /\ Callee(t) = pr_xfunction
  BY <1>1, <1>2, RunningCalls, FloorFacts
<1>4. /\ Calls \in Seq(Activated) /\ Len(Calls) = t - k
      /\ \A i \in 1 .. t - k : Calls[i] = Activation(k + i) /\ k + i \in 1 .. t
  BY <1>1, CallsFacts
<1>5. Calls' = [i \in 1 .. t - k |-> Activation(k + i)']
  BY <1>1, <1>2, CallsAfter
<1>6. ASSUME NEW n \in 1 .. t
      PROVE  Activation(n)' = IF n = t THEN [Activation(n) EXCEPT !.store[q] = v] ELSE Activation(n)
  <2>1. /\ Callee(n)' = Callee(n)
        /\ \A p \in Frame(Callee(n)) :
              Local(n, p)' = IF n = t /\ p = q THEN v ELSE Local(n, p)
    <3>1. UNCHANGED <<pr_stack, pr_xfunction>>
      BY DEF Assign, stacks
    <3> QED BY <1>1, <3>1, AssignLocal DEF Callee
  <2>2. Activation(n)' = [f |-> Callee(n), store |->
            [p \in Frame(Callee(n)) |-> IF n = t /\ p = q THEN v ELSE Local(n, p)]]
    BY <2>1 DEF Activation
  <2> QED BY <2>2 DEF Activation
<1>7. \A i \in 1 .. t - k : (k + i = t) <=> (i = Len(Calls))
  BY <1>3, <1>4
<1>8. Calls' = [i \in 1 .. t - k |->
                   IF i = Len(Calls) THEN [Calls[i] EXCEPT !.store[q] = v] ELSE Calls[i]]
  BY <1>4, <1>5, <1>6, <1>7
<1>9. Calls' = [Calls EXCEPT ![Len(Calls)].store[q] = v]
  <2>1. Calls = [i \in 1 .. t - k |-> Calls[i]]
    BY <1>4, SeqIs
  <2> QED BY <1>8, <2>1
<1>10. Len(Calls) \in 1 .. t - k /\ Calls # <<>> /\ k + Len(Calls) = t
  BY <1>3, <1>4
<1>11. Calls[Len(Calls)].f = pr_xfunction
  <2>1. Calls[Len(Calls)] = Activation(t)
    BY <1>4, <1>10
  <2> QED BY <1>3, <2>1 DEF Activation
<1> QED BY <1>2, <1>9, <1>10, <1>11, Zenon DEF A!Assign, A!Own, Frame

(* Errors throw all calls away. *)
LEMMA NoCalls ==
    ASSUME programs' = <<>>, (IInv)'
    PROVE  Calls' = <<>>
<1>1. Floor' = Top' /\ Top' \in Nat
  BY DEF Floor, Top, IInv, TypeOK
<1>2. PICK t : t = Top' /\ t \in Nat
  BY <1>1
<1>3. Calls' = [i \in 1 .. t - t |-> Activation(t + i)']
  BY <1>1, <1>2, CallsAfter
<1>4. t - t = 0
  <2>1. \A n \in Nat : n - n = 0
    OBVIOUS
  <2> QED BY <1>2, <2>1
<1>5. Calls' = [i \in 1 .. 0 |-> Activation(t + i)']
  BY <1>3, <1>4
<1>6. Calls' \in Seq({}) /\ Len(Calls') = 0
  BY <1>5
<1> QED BY <1>6

(* Every call of a program has locals of its own: the interpreter implements  *)
(* Activations, whatever places functions share and however errors end them.  *)
THEOREM ProgramsImplementActivations == Spec => ImplementsActivations
<1>1. Init => A!Init
  <2> SUFFICES ASSUME Init PROVE A!Init
    OBVIOUS
  <2>1. IInv /\ programs = <<>>
    BY InitInv DEF Init
  <2>2. PICK t : t = Top /\ t = Floor /\ t \in Nat
    BY <2>1, FloorFacts, FrameFacts
  <2>3. Len(Calls) = t - t /\ Calls \in Seq(Activated)
    BY <2>1, <2>2, CallsFacts
  <2>4. Calls = <<>>
    BY <2>2, <2>3
  <2>5. parms \in [DOMAIN parms -> Values]
    BY <2>1 DEF IInv, TypeOK
  <2> QED BY <2>4, <2>5, Zenon DEF A!Init
<1>2. IInv /\ IInv' /\ [Next]_vars => A!Next \/ UNCHANGED <<Calls, parms>>
  <2> SUFFICES ASSUME IInv, IInv', [Next]_vars PROVE A!Next \/ UNCHANGED <<Calls, parms>>
    OBVIOUS
  <2>1. ASSUME programs' = <<>>, UNCHANGED parms PROVE A!Next
    BY <2>1, NoCalls, Zenon DEF A!Next, A!Abort
  <2>2. ASSUME RunError \/ HostError PROVE A!Next
    BY <2>1, <2>2 DEF RunError, HostError
  <2>3. ASSUME NEW f \in Functions, Fits(f), EnterFunction(f), Floor' = Floor PROVE A!Next
    <3>1. A!Enter(f)
      BY <2>3, EnterIsEnter
    <3> QED BY <3>1, Zenon DEF A!Next
  \* A program that is begun leaves the floor where it is.
  <2>4. ASSUME NEW f \in Functions, NEW outer, outer \in Seq(Records), Execute(f, outer),
               IF outer = <<>> THEN programs = <<>>
               ELSE programs # <<>> /\ outer[1].exitdepth = programs[1].exitdepth
        PROVE  A!Next
    <3>1. CASE ~ Fits(f)
      BY <2>2, <2>4, <3>1 DEF Execute
    <3>2. CASE Fits(f)
      <4> DEFINE r == [exitdepth |-> Len(pr_stack), left |-> Runaway]
      <4>1. EnterFunction(f) /\ programs' = Append(outer, r)
        BY <2>4, <3>2 DEF Execute
      <4>2. r.exitdepth = Len(pr_stack)
        OBVIOUS
      <4> HIDE DEF r
      <4>3. programs' # <<>> /\ programs'[1] = IF outer = <<>> THEN r ELSE outer[1]
        BY <2>4, <4>1
      <4>4. Floor' = Floor
        BY <2>4, <4>2, <4>3 DEF Floor
      <4> QED BY <2>3, <3>2, <4>1, <4>4
    <3> QED BY <3>1, <3>2
  <2>5. ASSUME Statement
        PROVE  /\ CountedStep \in Seq(Records) /\ CountedStep # <<>> /\ programs # <<>>
               /\ CountedStep[1].exitdepth = programs[1].exitdepth
    <3>1. Top \in Nat /\ programs # <<>> /\ Len(programs) \in Nat \ {0}
      BY <2>5, RunningCalls DEF Statement
    <3>2. 1 \in 1 .. Len(programs) /\ Top <= Top
      BY <3>1
    <3>3. /\ NestedIn(CountedStep, Top) /\ CountedStep # <<>>
          /\ \A i \in 1 .. Len(programs) : CountedStep[i].exitdepth = programs[i].exitdepth
      BY <2>5, <3>1, <3>2, Counted
    <3> QED BY <3>1, <3>2, <3>3 DEF NestedIn
  <2>6. ASSUME UNCHANGED <<pr_stack, localstack, base, pr_xfunction, globals>>, Floor' = Floor
        PROVE  UNCHANGED Calls
    BY <2>6 DEF Calls, Callee, Local, Savers
  <2>7. ASSUME Statement, programs' = CountedStep, UNCHANGED pr_stack PROVE Floor' = Floor
    BY <2>5, <2>7 DEF Floor
  <2>8. CASE UNCHANGED vars
    BY <2>6, <2>8 DEF vars, stacks, Floor
  <2>9. CASE LoadProgs
    <3>1. programs = <<>> /\ programs' = <<>> /\ UNCHANGED parms
      BY <2>9 DEF LoadProgs, IInv, Nested, Running
    <3> QED BY <2>1, <3>1
  <2>10. ASSUME NEW f \in Functions, HostCall(f) PROVE A!Next
    <3>1. programs = <<>> /\ Execute(f, <<>>) /\ <<>> \in Seq(Records)
      BY <2>10 DEF HostCall, IInv, Nested, Running
    <3> QED BY <2>4, <3>1
  <2>11. CASE Shutdown
    <3>1. /\ programs = <<>> /\ Execute(ClientDisconnect, <<>>) /\ <<>> \in Seq(Records)
          /\ ClientDisconnect \in Functions
      BY <2>11, ProgramsAssumption DEF Shutdown, IInv, Nested, Running
    <3> QED BY <2>4, <3>1
  <2>12. CASE RunawayLoop
    BY <2>2, <2>12 DEF RunawayLoop
  <2>13. ASSUME NEW p \in Places, NEW v \in Values, Assign(p, v) PROVE A!Next
    <3>1. Floor' = Floor
      BY <2>7, <2>13 DEF Assign, stacks
    <3>2. A!Assign(p, v)
      BY <2>13, <3>1, AssignIsAssign
    <3>3. pr_xfunction \in Functions /\ p \in Frame(pr_xfunction)
      BY <2>13, RunningCalls DEF Assign, Statement
    <3>4. p \in A!Own(pr_xfunction)
      BY <3>3 DEF A!Own, Frame
    <3> QED BY <3>2, <3>3, <3>4, Zenon DEF A!Next
  <2>14. ASSUME NEW i \in 1 .. MaxParms, NEW v \in Values, SetParm(i, v) PROVE A!Next
    <3>1. Statement /\ programs' = CountedStep /\ parms' = [parms EXCEPT ![i] = v]
          /\ UNCHANGED <<pr_stack, localstack, base, pr_xfunction, globals>>
      BY <2>14 DEF SetParm, stacks
    <3>2. UNCHANGED Calls
      BY <2>6, <2>7, <3>1
    <3>3. DOMAIN parms = 1 .. MaxParms
      BY DEF IInv, TypeOK
    <3> QED BY <3>1, <3>2, <3>3, Zenon DEF A!Next, A!SetParm
  <2>15. ASSUME NEW f \in Functions, Call(f) PROVE A!Next
    <3>1. CASE ~ Fits(f)
      BY <2>2, <2>15, <3>1 DEF Call
    <3>2. CASE Fits(f)
      <4>1. EnterFunction(f) /\ programs' = CountedStep /\ Statement
        BY <2>15, <3>2 DEF Call
      <4>2. Floor' = Floor
        BY <2>5, <4>1 DEF Floor
      <4> QED BY <2>3, <3>2, <4>1, <4>2
    <3> QED BY <3>1, <3>2
  <2>16. ASSUME NEW f \in Functions, BuiltinRuns(f) PROVE A!Next
    BY <2>4, <2>5, <2>16 DEF BuiltinRuns
  <2>17. CASE BuiltinFails
    BY <2>2, <2>17 DEF BuiltinFails
  <2>18. CASE StatementFails
    BY <2>2, <2>18 DEF StatementFails
  <2>19. CASE Return
    <3>1. Statement /\ Running /\ LeaveFunction
      BY <2>19 DEF Return, Statement
    <3>2. Floor' = Floor
      <4>1. /\ Top \in Nat \ {0} /\ Len(pr_stack) = Top /\ Len(pr_stack') = Top - 1
        BY <3>1, LeaveKeeps DEF Top
      <4>2. /\ Len(programs) \in Nat \ {0} /\ programs # <<>> /\ programs \in Seq(Records)
        BY <3>1, RunningCalls, Together DEF NestedIn
      <4>3. CASE EndsProgram /\ Len(programs) = 1
        <5>1. programs' = SubSeq(programs, 1, 0) /\ programs[1].exitdepth = Top - 1
          BY <2>19, <4>1, <4>3 DEF Return, EndsProgram
        <5>2. programs' = <<>>
          BY <4>2, <5>1
        <5> QED BY <4>1, <4>2, <5>1, <5>2 DEF Floor
      <4>4. CASE EndsProgram /\ Len(programs) # 1
        <5>1. programs' = SubSeq(programs, 1, Len(programs) - 1)
          BY <2>19, <4>4 DEF Return
        <5>2. Len(programs) - 1 \in 0 .. Len(programs) /\ Len(programs) - 1 > 0
          BY <4>2, <4>4
        <5>3. Len(programs') > 0 /\ programs'[1] = programs[1]
          BY <4>2, <5>1, <5>2, Front
        <5>4. programs' # <<>>
          BY <5>3
        <5> QED BY <4>2, <5>3, <5>4 DEF Floor
      <4>5. CASE ~ EndsProgram
        <5>1. programs' = CountedStep
          BY <2>19, <4>5 DEF Return
        <5> QED BY <2>5, <3>1, <5>1 DEF Floor
      <4> QED BY <4>3, <4>4, <4>5
    <3>3. A!Return
      BY <3>1, <3>2, LeaveIsReturn
    <3> QED BY <3>3, Zenon DEF A!Next
  <2> QED BY <2>8, <2>9, <2>10, <2>11, <2>12, <2>13, <2>14, <2>15, <2>16, <2>17, <2>18, <2>19
          DEF Next, Step
<1>3. Spec => [][A!Next]_<<Calls, parms>>
  BY <1>2, ProgramsInvariant, PTL DEF Spec
<1> QED BY <1>1, <1>3, PTL DEF Spec, ImplementsActivations, A!Spec

-----------------------------------------------------------------------------
(* Programs come to an end.                                                  *)

Phase(p) == CASE p = "program" -> 3 [] p = "shutdown" -> 2 [] p = "failing" -> 1 [] OTHER -> 0

(* What is left to do in phase p with the programs of progs: first of all the *)
(* phases Host_Error has yet to go through, then the statements each program  *)
(* has left of its runaway counter, the outermost first.                      *)
Work(p, progs) ==
    [i \in 0 .. MaxStackDepth |->
        IF i = 0 THEN Phase(p) ELSE IF i <= Len(progs) THEN progs[i].left ELSE 0]

LexLess(r, s) ==
    \E i \in 0 .. MaxStackDepth : r[i] < s[i] /\ \A j \in 0 .. i - 1 : r[j] = s[j]

(* Every program around the i-th has a call of its own on pr_stack. *)
LEMMA NestedDepth ==
    ASSUME IInv
    PROVE  Len(programs) \in Nat /\ Len(programs) < MaxStackDepth
<1> DEFINE n == Len(programs)
           S == {i \in 1 .. n : programs[i].exitdepth < i - 1}
<1>1. /\ n \in Nat /\ Top \in Nat /\ Top < MaxStackDepth /\ MaxStackDepth \in Nat
      /\ \A i \in 1 .. n : programs[i] \in Records
      /\ \A i \in 1 .. n : programs[i].exitdepth < Top
      /\ \A i, j \in 1 .. n : i < j => programs[i].exitdepth < programs[j].exitdepth
  <2>1. programs \in Seq(Records) /\ n \in Nat
    BY Together DEF NestedIn
  <2> QED BY <2>1, Item, ProgramsAssumption DEF IInv, TypeOK, Top, Nested
<1>2. \A i \in 1 .. n : programs[i].exitdepth \in Nat
  BY <1>1 DEF Records
<1>3. S = {}
  <2> SUFFICES ASSUME S # {} PROVE FALSE
    OBVIOUS
  <2>1. PICK m \in S : \A k \in S : m <= k
    <3>1. S \subseteq Nat
      BY <1>1
    <3> HIDE DEF S
    <3> QED BY <3>1, LowestExists
  <2>2. m \in 1 .. n /\ programs[m].exitdepth < m - 1
    OBVIOUS
  <2>3. m \in Nat /\ m - 1 \in 1 .. n /\ m - 1 < m
    BY <1>1, <1>2, <2>2
  <2>4. m - 1 \notin S
    BY <2>1, <2>3
  <2>5. programs[m - 1].exitdepth < programs[m].exitdepth /\ ~ (programs[m - 1].exitdepth < m - 1 - 1)
    BY <1>1, <2>2, <2>3, <2>4
  <2> QED BY <1>2, <2>2, <2>3, <2>5
<1>4. CASE n = 0
  BY <1>1, <1>4, ProgramsAssumption
<1>5. CASE n # 0
  <2>1. n \in 1 .. n /\ ~ (programs[n].exitdepth < n - 1)
    BY <1>1, <1>3, <1>5
  <2> QED BY <1>1, <1>2, <2>1
<1> QED BY <1>1, <1>4, <1>5

WorkLeft == Work(pc, programs)

(* A phase that comes later is less work. *)
LEMMA LaterPhase ==
    ASSUME NEW p, NEW q, Phase(q) < Phase(p), NEW s, NEW t
    PROVE  LexLess(Work(q, t), Work(p, s))
<1>1. 0 \in 0 .. MaxStackDepth /\ \A j \in 0 .. 0 - 1 : FALSE
  BY ProgramsAssumption
<1>2. Work(q, t)[0] = Phase(q) /\ Work(p, s)[0] = Phase(p)
  BY <1>1 DEF Work
<1> QED BY <1>1, <1>2 DEF LexLess

(* A statement is less work, also if it ends its program or runs another. *)
LEMMA Spent ==
    ASSUME NEW p, NEW n \in 1 .. MaxStackDepth, NEW s, NEW t, Len(s) = n, Len(t) \in Nat,
           \A i \in 1 .. n - 1 : i <= Len(t) /\ t[i].left = s[i].left,
           s[n].left \in Nat \ {0},
           n <= Len(t) => t[n].left < s[n].left
    PROVE  LexLess(Work(p, t), Work(p, s))
<1>1. n \in 0 .. MaxStackDepth /\ n # 0 /\ n <= n
  BY ProgramsAssumption
<1>2. Work(p, s)[n] = s[n].left /\ Work(p, t)[n] = IF n <= Len(t) THEN t[n].left ELSE 0
  BY <1>1 DEF Work
<1>3. Work(p, t)[n] < Work(p, s)[n]
  BY <1>2
<1>4. ASSUME NEW j \in 0 .. n - 1 PROVE Work(p, t)[j] = Work(p, s)[j]
  <2>1. j \in 0 .. MaxStackDepth /\ j <= n /\ (j = 0 \/ j \in 1 .. n - 1)
    BY ProgramsAssumption
  <2> QED BY <2>1 DEF Work
<1> QED BY <1>1, <1>3, <1>4 DEF LexLess

LEMMA StatementSpends ==
    ASSUME IInv, Statement
    PROVE  /\ pc \in {"program", "failing"} /\ Phase(pc) > 0
           /\ Len(programs) \in 1 .. MaxStackDepth
           /\ \A i \in 1 .. Len(programs) : programs[i].left \in Nat \ {0}
           /\ CountedStep \in Seq(Records) /\ Len(CountedStep) = Len(programs)
           /\ CountedStep[Len(programs)].left = programs[Len(programs)].left - 1
           /\ \A i \in 1 .. Len(programs) - 1 : CountedStep[i].left = programs[i].left
<1>1. /\ pc \in {"program", "failing"} /\ Len(programs) \in 1 .. MaxStackDepth
      /\ programs \in Seq(Records)
  <2>1. programs # <<>> /\ pc \in {"program", "failing"} /\ programs \in Seq(Records)
    BY Together DEF Statement, Running, NestedIn
  <2>2. Len(programs) \in Nat /\ Len(programs) < MaxStackDepth
    BY NestedDepth
  <2> QED BY <2>1, <2>2, ProgramsAssumption
<1>2. Phase(pc) > 0
  BY <1>1 DEF Phase
<1>3. \A i \in 1 .. Len(programs) : programs[i] \in Records /\ programs[i].left \in Nat \ {0}
  <2>1. \A i \in 1 .. Len(programs) : programs[i] \in Records
    BY <1>1, Item
  <2>2. \A q \in Records : q.left \in Nat \ {0}
    BY ProgramsAssumption DEF Records
  <2> QED BY <2>1, <2>2
<1>4. Top \in Nat
  BY DEF IInv, TypeOK, Top
<1>5. CountedStep \in Seq(Records) /\ Len(CountedStep) = Len(programs)
  BY <1>4, Counted DEF NestedIn
<1>6. ASSUME NEW i \in 1 .. Len(programs)
      PROVE  CountedStep[i].left = IF i = Len(programs) THEN programs[i].left - 1 ELSE programs[i].left
  <2>1. CountedStep[i] = IF i = Len(programs) THEN [programs[i] EXCEPT !.left = @ - 1] ELSE programs[i]
    BY <1>1 DEF CountedStep
  <2>2. ASSUME NEW q \in Records PROVE [q EXCEPT !.left = @ - 1].left = q.left - 1
    BY DEF Records
  <2> QED BY <1>3, <2>1, <2>2
<1> QED BY <1>1, <1>2, <1>3, <1>5, <1>6

LEMMA ErrorSpends ==
    ASSUME HostError, pc \in {"program", "shutdown", "failing"}
    PROVE  Phase(pc') < Phase(pc)
BY DEF HostError, Phase

(* The programs go from progs on, with pc as it is. *)
LEMMA SpendsOn ==
    ASSUME IInv, Statement, NEW q, Len(q) \in Nat,
           \/ q = CountedStep
           \/ \E r : q = Append(CountedStep, r)
           \/ q = SubSeq(programs, 1, Len(programs) - 1)
    PROVE  LexLess(Work(pc, q), Work(pc, programs))
<1> DEFINE n == Len(programs)
<1>1. /\ n \in 1 .. MaxStackDepth
      /\ \A i \in 1 .. n : programs[i].left \in Nat \ {0}
      /\ CountedStep \in Seq(Records) /\ Len(CountedStep) = n
      /\ CountedStep[n].left = programs[n].left - 1
      /\ \A i \in 1 .. n - 1 : CountedStep[i].left = programs[i].left
  BY StatementSpends
<1>2. n \in 1 .. n /\ n - 1 \in 0 .. n /\ n \in Nat /\ programs \in Seq(Records)
  BY <1>1, Together, ProgramsAssumption DEF NestedIn
<1> HIDE DEF n
<1>3. n = Len(programs)
  BY DEF n
<1>4. ASSUME \A i \in 1 .. n - 1 : i <= Len(q) /\ q[i].left = programs[i].left,
             n <= Len(q) => q[n].left < programs[n].left
      PROVE  LexLess(Work(pc, q), Work(pc, programs))
  <2>1. programs[n].left \in Nat \ {0}
    BY <1>1, <1>2
  <2> QED BY <1>1, <1>3, <1>4, <2>1, Spent
<1>5. CASE q = CountedStep
  <2>1. q[n].left < programs[n].left
    BY <1>1, <1>2, <1>5
  <2>2. \A i \in 1 .. n - 1 : i <= Len(q) /\ q[i].left = programs[i].left
    BY <1>1, <1>2, <1>5
  <2> QED BY <1>4, <2>1, <2>2
<1>6. ASSUME NEW r, q = Append(CountedStep, r) PROVE LexLess(Work(pc, q), Work(pc, programs))
  <2>1. q = [i \in 1 .. n + 1 |-> IF i = n + 1 THEN r ELSE CountedStep[i]]
    BY <1>1, <1>6, AppendIs
  <2>2. n \in 1 .. n + 1 /\ n # n + 1 /\ \A i \in 1 .. n - 1 : i \in 1 .. n + 1 /\ i # n + 1
    BY <1>2
  <2>3. q[n] = CountedStep[n] /\ \A i \in 1 .. n - 1 : q[i] = CountedStep[i]
    BY <2>1, <2>2
  <2>4. Len(q) = n + 1
    <3>1. CountedStep \in Seq(Records \cup {r})
      BY <1>1
    <3> QED BY <1>1, <1>6, <3>1
  <2>5. q[n].left < programs[n].left
    BY <1>1, <1>2, <2>3
  <2>6. \A i \in 1 .. n - 1 : i <= Len(q) /\ q[i].left = programs[i].left
    BY <1>1, <1>2, <2>3, <2>4
  <2> QED BY <1>4, <2>5, <2>6
<1>7. CASE q = SubSeq(programs, 1, Len(programs) - 1)
  <2>1. Len(q) = n - 1 /\ \A i \in 1 .. n - 1 : q[i] = programs[i]
    BY <1>2, <1>7, <1>3, Front
  <2>2. \A i \in 1 .. n - 1 : i <= Len(q) /\ q[i].left = programs[i].left
    BY <1>2, <2>1
  <2>3. ~ (n <= Len(q))
    BY <1>2, <2>1
  <2> QED BY <1>4, <2>2, <2>3
<1> QED BY <1>5, <1>6, <1>7

(* PR_ExecuteProgram nests less than MAX_STACK_DEPTH deep, since each of the  *)
(* programs on the C stack has called a function.                             *)
THEOREM ProgramsNestShallow == Spec => [](Len(programs) < MaxStackDepth)
<1>1. IInv => Len(programs) < MaxStackDepth
  BY NestedDepth
<1> QED BY <1>1, ProgramsInvariant, PTL

(* Every step of the interpreter, and of Host_Error when it runs another      *)
(* program, is work done: the runaway counter of the innermost program goes   *)
(* down, and what a program run by a builtin adds comes after the statement   *)
(* its caller has spent on it; an error ends all programs, and Host_Error     *)
(* runs ClientDisconnect only once.  As no counter goes up again and programs *)
(* nest less than MAX_STACK_DEPTH deep, they come to an end.                  *)
THEOREM ProgramsRunDown == Spec => [][Step => LexLess(WorkLeft', WorkLeft)]_vars
<1>1. ASSUME IInv, Step PROVE LexLess(Work(pc', programs'), Work(pc, programs))
  <2>1. ASSUME HostError, pc \in {"program", "shutdown", "failing"}
        PROVE  LexLess(Work(pc', programs'), Work(pc, programs))
    BY <2>1, ErrorSpends, LaterPhase
  <2>2. ASSUME Statement, pc' = pc, programs' = CountedStep
        PROVE  LexLess(Work(pc', programs'), Work(pc, programs))
    <3>1. Len(CountedStep) \in Nat
      BY <1>1, <2>2, StatementSpends
    <3> QED BY <1>1, <2>2, <3>1, SpendsOn
  <2>3. Statement => pc \in {"program", "failing"}
    BY DEF Statement, Running
  <2>4. CASE Shutdown
    <3>1. CASE Fits(ClientDisconnect)
      <4>1. pc = "shutdown" /\ pc' = "failing"
        BY <2>4, <3>1 DEF Shutdown, Execute
      <4>2. Phase(pc') < Phase(pc)
        BY <4>1 DEF Phase
      <4> QED BY <4>2, LaterPhase
    <3>2. CASE ~ Fits(ClientDisconnect)
      BY <2>1, <2>4, <3>2 DEF Shutdown, Execute, RunError
    <3> QED BY <3>1, <3>2
  <2>5. CASE RunawayLoop
    BY <2>1, <2>5 DEF RunawayLoop, RunError, Running
  <2>6. ASSUME NEW p \in Places, NEW v \in Values, Assign(p, v)
        PROVE  LexLess(Work(pc', programs'), Work(pc, programs))
    BY <2>2, <2>6 DEF Assign
  <2>7. ASSUME NEW i \in 1 .. MaxParms, NEW v \in Values, SetParm(i, v)
        PROVE  LexLess(Work(pc', programs'), Work(pc, programs))
    BY <2>2, <2>7 DEF SetParm
  <2>8. ASSUME NEW f \in Functions, Call(f)
        PROVE  LexLess(Work(pc', programs'), Work(pc, programs))
    BY <2>1, <2>2, <2>3, <2>8 DEF Call, RunError
  <2>9. ASSUME NEW f \in Functions, BuiltinRuns(f)
        PROVE  LexLess(Work(pc', programs'), Work(pc, programs))
    <3>1. CASE Fits(f)
      <4>1. /\ Statement /\ programs' = Append(CountedStep, [exitdepth |-> Len(pr_stack), left |-> Runaway])
            /\ pc' = pc
        BY <2>3, <2>9, <3>1 DEF BuiltinRuns, Execute
      <4>2. Len(programs') \in Nat
        <5> DEFINE r == [exitdepth |-> Len(pr_stack), left |-> Runaway]
        <5>1. CountedStep \in Seq(Records \cup {r}) /\ r \in Records \cup {r}
          BY <1>1, <4>1, StatementSpends
        <5>2. Append(CountedStep, r) \in Seq(Records \cup {r})
          BY <5>1
        <5> QED BY <4>1, <5>2
      <4> QED BY <1>1, <4>1, <4>2, SpendsOn
    <3>2. CASE ~ Fits(f)
      BY <2>1, <2>3, <2>9, <3>2 DEF BuiltinRuns, Execute, RunError
    <3> QED BY <3>1, <3>2
  <2>10. CASE BuiltinFails \/ StatementFails
    BY <2>1, <2>3, <2>10 DEF BuiltinFails, StatementFails, RunError
  <2>11. CASE Return
    <3>1. CASE EndsProgram
      <4>1. /\ Statement /\ programs' = SubSeq(programs, 1, Len(programs) - 1)
            /\ pc' = IF Len(programs) = 1 THEN "host" ELSE pc
        BY <2>11, <3>1 DEF Return
      <4>2. CASE pc' = pc
        <5>1. Len(programs) \in 1 .. MaxStackDepth /\ programs \in Seq(Records)
          BY <1>1, <4>1, StatementSpends, Together DEF NestedIn
        <5>2. Len(programs) - 1 \in 0 .. Len(programs)
          BY <5>1
        <5>3. Len(programs') \in Nat
          BY <4>1, <5>1, <5>2, Front
        <5> QED BY <1>1, <4>1, <4>2, <5>3, SpendsOn
      <4>3. CASE pc' # pc
        <5>1. pc' = "host" /\ pc \in {"program", "failing"}
          BY <2>3, <4>1, <4>3
        <5>2. Phase(pc') < Phase(pc)
          BY <5>1 DEF Phase
        <5> QED BY <5>2, LaterPhase
      <4> QED BY <4>2, <4>3
    <3>2. CASE ~ EndsProgram
      BY <2>2, <2>11, <3>2 DEF Return
    <3> QED BY <3>1, <3>2
  <2> QED BY <1>1, <2>4, <2>5, <2>6, <2>7, <2>8, <2>9, <2>10, <2>11 DEF Step
<1>2. IInv /\ [Next]_vars => [Step => LexLess(WorkLeft', WorkLeft)]_vars
  BY <1>1 DEF WorkLeft
<1> QED BY <1>2, ProgramsInvariant, PTL DEF Spec
=================================================================================
