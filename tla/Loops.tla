-------------------------------- MODULE Loops -------------------------------
(***************************************************************************)
(* Loops over a slice: a fold is the last of the values that the turns of  *)
(* a loop make of one another.  A proof instantiates this module with what *)
(* a turn of its loop does.                                                *)
(***************************************************************************)
EXTENDS GoDataProofs

CONSTANT Step(_, _)

\* The fold over the elements of a set of indices, greatest index last.
RunsUpTo(g, base, seq, D) ==
    g = [s \in SUBSET D |-> IF s = {} THEN base ELSE Step(g[s \ {Max(s)}], seq[Max(s)])]

LEMMA LoopExists ==
    ASSUME NEW base, NEW seq, NEW l \in Nat
    PROVE  \E g : RunsUpTo(g, base, seq, 1..l)
<1> DEFINE D == 1..l
           T == {m \in SUBSET D : ~\E g : RunsUpTo(g, base, seq, m)}
<1> SUFFICES ASSUME T # {} PROVE FALSE
  OBVIOUS
<1>1. PICK m \in T : \A s \in SUBSET m : s # m => s \notin T
  <2>1. T \in SUBSET (SUBSET D) /\ IsFiniteSet(D)
    BY FS_Interval
  <2> HIDE DEF T, D
  <2> QED
    BY <2>1, MinimalSubset
<1>2. m \in SUBSET (1..l) /\ ~\E g : RunsUpTo(g, base, seq, m)
  OBVIOUS
<1>3. \A s \in SUBSET m : s # m => \E g : RunsUpTo(g, base, seq, s)
  BY <1>1, <1>2
<1> HIDE DEF T
<1>4. m # {}
  <2> SUFFICES ASSUME m = {} PROVE FALSE
    OBVIOUS
  <2> DEFINE none == [s \in SUBSET m |-> base]
  <2>1. RunsUpTo(none, base, seq, m)
    BY DEF RunsUpTo
  <2> QED
    BY <1>2, <2>1
<1> DEFINE x == Max(m)
           rest == m \ {x}
<1>5. x \in m /\ \A y \in m : y <= x
  BY <1>2, <1>4, MaxIsGreatest
<1>7. \A s \in SUBSET m : x \in s => Max(s) = x
  <2> HIDE DEF x
  <2> TAKE s \in SUBSET m
  <2> SUFFICES ASSUME x \in s PROVE Max(s) = x
    OBVIOUS
  <2>1. s \in SUBSET (1..l) /\ s # {} /\ l \in Int
    BY <1>2
  <2>2. Max(s) \in s /\ \A y \in s : y <= Max(s)
    BY ONLY <2>1, MaxIsGreatest
  <2>3. Max(s) <= x /\ x <= Max(s) /\ x \in 1..l /\ Max(s) \in 1..l
    BY <1>2, <1>5, <2>2
  <2> QED
    BY <2>3
<1> HIDE DEF x
<1>8. PICK g : RunsUpTo(g, base, seq, rest)
  BY <1>3, <1>5
<1> DEFINE h == [s \in SUBSET m |-> IF x \in s THEN Step(g[s \ {x}], seq[x]) ELSE g[s]]
           Value(s) == IF s = {} THEN base ELSE Step(h[s \ {Max(s)}], seq[Max(s)])
<1>9. ASSUME NEW s \in SUBSET m PROVE h[s] = Value(s)
  <2>1. CASE x \in s
    <3>1. s \ {x} \in SUBSET m /\ x \notin s \ {x} /\ s # {} /\ Max(s) = x
      BY <1>7, <2>1
    <3>2. h[s \ {x}] = g[s \ {x}]
      BY <3>1
    <3>3. h[s] = Step(g[s \ {x}], seq[x])
      BY <2>1
    <3> HIDE DEF h
    <3> QED
      BY <3>1, <3>2, <3>3
  <2>2. CASE x \notin s
    <3>1. s \in SUBSET rest /\ h[s] = g[s]
      BY <2>2
    <3>2. s # {} => /\ s \ {Max(s)} \in SUBSET m /\ x \notin s \ {Max(s)}
                    /\ h[s \ {Max(s)}] = g[s \ {Max(s)}]
      BY <2>2
    <3>3. g[s] = IF s = {} THEN base ELSE Step(g[s \ {Max(s)}], seq[Max(s)])
      BY <1>8, <3>1 DEF RunsUpTo
    <3> HIDE DEF h
    <3> QED
      BY <3>1, <3>2, <3>3
  <2> QED
    BY <2>1, <2>2
<1>10. h = [s \in SUBSET m |-> h[s]]
  OBVIOUS
<1> HIDE DEF h
<1>11. RunsUpTo(h, base, seq, m)
  BY <1>9, <1>10 DEF RunsUpTo
<1> QED
  BY <1>2, <1>11

\* The values between the first and the last: q[i] is that after i turns.
Runs(q, base, seq, l) ==
    /\ q[0] = base
    /\ \A i \in 1..l : q[i] = Step(q[i - 1], seq[i])
    /\ q[l] = FoldLeft(Step, base, seq)

LEMMA LoopRuns ==
    ASSUME NEW base, NEW seq, NEW l \in Nat, DOMAIN seq = 1..l
    PROVE  \E q : Runs(q, base, seq, l)
<1> DEFINE g == CHOOSE g : RunsUpTo(g, base, seq, 1..l)
           q == [i \in 0..l |-> g[1..i]]
<1>1. RunsUpTo(g, base, seq, 1..l)
  BY LoopExists
<1>2. FoldLeft(Step, base, seq) = g[1..l]
  BY DEF FoldLeft, MapThenFoldSet, RunsUpTo
<1> HIDE DEF g
<1>3. q[0] = base
  <2>1. 1..0 = {} /\ {} \in SUBSET (1..l) /\ 0 \in 0..l
    OBVIOUS
  <2> QED
    BY <1>1, <2>1 DEF RunsUpTo
<1>4. ASSUME NEW i \in 1..l PROVE q[i] = Step(q[i - 1], seq[i])
  <2> HIDE DEF q
  <2>1. 1..i \in SUBSET (1..l) /\ 1..i # {} /\ i \in 0..l /\ i - 1 \in 0..l /\ l \in Int
    <3>1. i \in 1..i /\ i \in 0..l /\ i - 1 \in 0..l /\ l \in Int
      OBVIOUS
    <3>2. \A j \in 1..i : j \in 1..l
      OBVIOUS
    <3> QED
      BY <3>1, <3>2
  <2>2. Max(1..i) \in 1..i /\ \A y \in 1..i : y <= Max(1..i)
    BY ONLY <2>1, MaxIsGreatest
  <2>3. Max(1..i) = i
    BY <2>2
  <2>4. (1..i) \ {i} = 1..i - 1
    OBVIOUS
  <2>5. g[1..i] = Step(g[(1..i) \ {Max(1..i)}], seq[Max(1..i)])
    BY <1>1, <2>1 DEF RunsUpTo
  <2>6. q[i] = g[1..i] /\ q[i - 1] = g[1..i - 1]
    BY <2>1 DEF q
  <2> QED
    BY <2>3, <2>4, <2>5, <2>6
<1>5. q[l] = g[1..l]
  OBVIOUS
<1> HIDE DEF q
<1> QED
  BY <1>2, <1>3, <1>4, <1>5 DEF Runs
=============================================================================
