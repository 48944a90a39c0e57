---------------------------- MODULE PlanningProofs -----------------------------
(***************************************************************************)
(* Planning's invariants, for recordings of every length, all values and   *)
(* patterns, and any number of saves and bindings.                         *)
(*                                                                         *)
(* Picked and Parameters are recursive functions: that each is what its    *)
(* definition says, and what it computes, is shown by the least position   *)
(* at which it would not be (UpTo).  Then each stage keeps the steps of    *)
(* the one before: the recording is Numbered, the parameters of an         *)
(* analysis are from its steps (Fits), what a template or a plan has for a *)
(* step is its value or a parameter with that default (Refers, Types), and *)
(* shortening a plan leaves the steps that type in their order.            *)
(* PlanInv says that the stored parameters and the template are those of   *)
(* the stored steps for as long as nobody has saved others.                *)
(***************************************************************************)
EXTENDS Planning, SequenceTheorems, WellFoundedInduction, TLAPS

--------------------------------------------------------------------------------
(* What the recursive definitions compute: by the least counterexample.    *)

LEMMA LeastNumber ==
    ASSUME NEW T, T \subseteq Nat, T # {}
    PROVE  \E n \in T : \A m \in T : ~(m < n)
<1>1. \E n \in T : \A m \in T : <<m, n>> \notin OpToRel(<, Nat)
  BY NatLessThanWellFounded, WFMin, Zenon
<1>2. \A m, n \in Nat : <<m, n>> \in OpToRel(<, Nat) <=> m < n
  BY Zenon DEF OpToRel
<1>3. QED
  BY <1>1, <1>2

\* A set of numbers that has 0, and with n its successor up to N, has them all.
LEMMA UpTo ==
    ASSUME NEW N \in Nat, NEW P \in SUBSET Nat, 0 \in P,
           \A n \in 1..N : n - 1 \in P => n \in P
    PROVE  0..N \subseteq P
<1> SUFFICES ASSUME (0..N) \ P # {} PROVE FALSE
  OBVIOUS
<1> DEFINE T == (0..N) \ P
<1>0. T \subseteq Nat /\ T # {}
  OBVIOUS
<1> HIDE DEF T
<1>1. PICK n \in T : \A m \in T : ~(m < n)
  BY <1>0, LeastNumber, Zenon
<1> USE DEF T
<1>2. n \in 1..N /\ n - 1 \in 0..N /\ n - 1 < n
  BY <1>1
<1>3. QED
  BY <1>1, <1>2

LEMMA PickedUnfolds ==
    ASSUME NEW S, NEW ss \in Seq(S), NEW I,
           NEW g, g = [n \in 0..Len(ss) |->
                          IF n = 0 THEN <<>>
                          ELSE IF n \in I THEN Append(g[n - 1], ss[n]) ELSE g[n - 1]]
    PROVE  \E f : /\ f = [n \in 0..Len(ss) |->
                            IF n = 0 THEN <<>>
                            ELSE IF n \in I THEN Append(f[n - 1], ss[n]) ELSE f[n - 1]]
                  /\ Picked(ss, I) = f[Len(ss)]
BY Zenon DEF Picked

LEMMA PickedIsRecursive ==
    ASSUME NEW S, NEW ss \in Seq(S), NEW I
    PROVE  \E f : /\ f = [n \in 0..Len(ss) |->
                            IF n = 0 THEN <<>>
                            ELSE IF n \in I THEN Append(f[n - 1], ss[n]) ELSE f[n - 1]]
                  /\ Picked(ss, I) = f[Len(ss)]
<1> DEFINE Is(f, m) == f = [n \in 0..m |->
                                IF n = 0 THEN <<>>
                                ELSE IF n \in I THEN Append(f[n - 1], ss[n]) ELSE f[n - 1]]
           P == {m \in Nat : \E f : Is(f, m)}
<1>1. 0 \in P
  <2>1. Is([n \in 0..0 |-> <<>>], 0)
    OBVIOUS
  <2>2. QED
    BY <2>1
<1>2. ASSUME NEW m \in 1..Len(ss), m - 1 \in P PROVE m \in P
  <2>1. PICK f : Is(f, m - 1)
    BY <1>2
  <2> DEFINE g == [n \in 0..m |-> IF n = m
                                  THEN IF m \in I THEN Append(f[m - 1], ss[m]) ELSE f[m - 1]
                                  ELSE f[n]]
  <2>2. \A n \in 0..(m - 1) : g[n] = f[n]
    BY <1>2
  <2>3. \A n \in 0..(m - 1) :
            f[n] = IF n = 0 THEN <<>>
                   ELSE IF n \in I THEN Append(f[n - 1], ss[n]) ELSE f[n - 1]
    BY <2>1, Zenon
  <2>4. ASSUME NEW n \in 0..m
        PROVE  g[n] = IF n = 0 THEN <<>>
                      ELSE IF n \in I THEN Append(g[n - 1], ss[n]) ELSE g[n - 1]
    <3>1. CASE n = m
      <4>1. g[n] = IF m \in I THEN Append(f[m - 1], ss[m]) ELSE f[m - 1]
        BY <3>1
      <4>2. n # 0 /\ m - 1 \in 0..(m - 1)
        BY <1>2, <3>1
      <4>3. QED
        BY <2>2, <3>1, <4>1, <4>2
    <3>2. CASE n # m
      <4>1. n \in 0..(m - 1) /\ (n # 0 => n - 1 \in 0..(m - 1))
        BY <1>2, <3>2
      <4> HIDE DEF g
      <4>2. QED
        BY <2>2, <2>3, <4>1
    <3>3. QED
      BY <3>1, <3>2
  <2>5. g = [n \in 0..m |-> g[n]]
    OBVIOUS
  <2> HIDE DEF g
  <2>6. Is(g, m)
    BY <2>4, <2>5
  <2> HIDE DEF Is
  <2>7. QED
    BY <1>2, <2>6
<1>3. Len(ss) \in Nat
  OBVIOUS
<1>4. Len(ss) \in P
  <2> HIDE DEF P
  <2>1. P \in SUBSET Nat
    BY DEF P
  <2>2. \A n \in 1..Len(ss) : n - 1 \in P => n \in P
    BY <1>2
  <2>3. 0..Len(ss) \subseteq P
    BY <1>1, <1>3, <2>1, <2>2, UpTo, Zenon
  <2>4. QED
    BY <1>3, <2>3
<1>5. PICK f : Is(f, Len(ss))
  BY <1>4
<1>6. QED
  BY <1>5, PickedUnfolds

\* p is what the positions I leave of the first n elements of ss.
Selection(p, ss, I, n) ==
    \E h \in [1..Len(p) -> 1..n] :
        /\ \A k \in 1..Len(p) : h[k] \in I /\ p[k] = ss[h[k]]
        /\ \A k, l \in 1..Len(p) : k < l => h[k] < h[l]
        /\ \A i \in 1..n : i \in I => \E k \in 1..Len(p) : h[k] = i

LEMMA SelectionGrows ==
    ASSUME NEW S, NEW ss \in Seq(S), NEW I, NEW n \in 1..Len(ss), NEW p \in Seq(S),
           Selection(p, ss, I, n - 1)
    PROVE  /\ n \in I => Append(p, ss[n]) \in Seq(S) /\ Selection(Append(p, ss[n]), ss, I, n)
           /\ n \notin I => Selection(p, ss, I, n)
<1>1. PICK h \in [1..Len(p) -> 1..(n - 1)] :
          /\ \A k \in 1..Len(p) : h[k] \in I /\ p[k] = ss[h[k]]
          /\ \A k, l \in 1..Len(p) : k < l => h[k] < h[l]
          /\ \A i \in 1..(n - 1) : i \in I => \E k \in 1..Len(p) : h[k] = i
  BY DEF Selection
<1> DEFINE m == Len(p)
<1>2. m \in Nat /\ n \in Nat \ {0} /\ ss[n] \in S
  OBVIOUS
<1>3. ASSUME n \in I
      PROVE  Append(p, ss[n]) \in Seq(S) /\ Selection(Append(p, ss[n]), ss, I, n)
  <2> DEFINE q == Append(p, ss[n])
             g == [k \in 1..(m + 1) |-> IF k = m + 1 THEN n ELSE h[k]]
  <2>1. /\ q \in Seq(S) /\ Len(q) = m + 1
        /\ q[m + 1] = ss[n] /\ \A k \in 1..m : q[k] = p[k]
    BY <1>2, AppendProperties
  <2>2. \A k \in 1..m : k \in 1..(m + 1) /\ k # m + 1 /\ h[k] \in 1..(n - 1)
    BY <1>1, <1>2
  <2>3. g[m + 1] = n /\ \A k \in 1..m : g[k] = h[k]
    BY <1>2, <2>2
  <2>4. g \in [1..Len(q) -> 1..n]
    BY <1>2, <2>1, <2>2
  <2> HIDE DEF m, q, g
  <2>5. \A k \in 1..(m + 1) : k = m + 1 \/ k \in 1..m
    BY <1>2
  <2>6. \A k \in 1..Len(q) : g[k] \in I /\ q[k] = ss[g[k]]
    BY <1>1, <1>3, <2>1, <2>3, <2>5 DEF m
  <2>7. \A k, l \in 1..Len(q) : k < l => g[k] < g[l]
    <3> SUFFICES ASSUME NEW k \in 1..Len(q), NEW l \in 1..Len(q), k < l PROVE g[k] < g[l]
      OBVIOUS
    <3>1. k \in 1..m
      BY <1>2, <2>1
    <3>2. CASE l = m + 1
      BY <1>2, <2>2, <2>3, <3>1, <3>2
    <3>3. CASE l \in 1..m
      BY <1>1, <2>3, <3>1, <3>3 DEF m
    <3>4. QED
      BY <2>1, <2>5, <3>2, <3>3
  <2>8. \A i \in 1..n : i \in I => \E k \in 1..Len(q) : g[k] = i
    <3> SUFFICES ASSUME NEW i \in 1..n, i \in I PROVE \E k \in 1..Len(q) : g[k] = i
      OBVIOUS
    <3>1. CASE i = n
      BY <1>2, <2>1, <2>3, <3>1
    <3>2. CASE i # n
      <4>1. i \in 1..(n - 1)
        BY <1>2, <3>2
      <4>2. PICK k \in 1..m : h[k] = i
        BY <1>1, <4>1 DEF m
      <4>3. QED
        BY <2>1, <2>2, <2>3, <4>2
    <3>3. QED
      BY <3>1, <3>2
  <2>9. Selection(q, ss, I, n)
    BY <2>4, <2>6, <2>7, <2>8 DEF Selection
  <2>10. QED
    BY <2>1, <2>9 DEF q
<1>4. ASSUME n \notin I PROVE Selection(p, ss, I, n)
  <2>1. h \in [1..Len(p) -> 1..n]
    BY <1>2
  <2>2. \A i \in 1..n : i \in I => i \in 1..(n - 1)
    BY <1>2, <1>4
  <2>3. QED
    BY <1>1, <2>1, <2>2 DEF Selection
<1>5. QED
  BY <1>3, <1>4

LEMMA PickedSelects ==
    ASSUME NEW S, NEW ss \in Seq(S), NEW I
    PROVE  Picked(ss, I) \in Seq(S) /\ Selection(Picked(ss, I), ss, I, Len(ss))
<1>1. PICK f : /\ f = [n \in 0..Len(ss) |->
                          IF n = 0 THEN <<>>
                          ELSE IF n \in I THEN Append(f[n - 1], ss[n]) ELSE f[n - 1]]
               /\ Picked(ss, I) = f[Len(ss)]
  BY PickedIsRecursive
<1>2. /\ f[0] = <<>> /\ Len(ss) \in Nat
      /\ \A n \in 1..Len(ss) : f[n] = IF n \in I THEN Append(f[n - 1], ss[n]) ELSE f[n - 1]
  <2>1. \A n \in 0..Len(ss) :
            f[n] = IF n = 0 THEN <<>>
                   ELSE IF n \in I THEN Append(f[n - 1], ss[n]) ELSE f[n - 1]
    BY <1>1, Zenon
  <2>2. Len(ss) \in Nat /\ 0 \in 0..Len(ss)
    OBVIOUS
  <2>3. \A n \in 1..Len(ss) : n # 0 /\ n \in 0..Len(ss)
    OBVIOUS
  <2>4. QED
    BY <2>1, <2>2, <2>3, Zenon
<1> DEFINE P == {n \in 0..Len(ss) : f[n] \in Seq(S) /\ Selection(f[n], ss, I, n)}
<1>3. 0 \in P
  <2>1. <<>> \in Seq(S) /\ Len(<<>>) = 0 /\ 1..0 = {}
    OBVIOUS
  <2>2. Selection(<<>>, ss, I, 0)
    <3>1. [k \in 1..0 |-> k] \in [1..Len(<<>>) -> 1..0]
      BY <2>1
    <3>2. QED
      BY <2>1, <3>1 DEF Selection
  <2>3. f[0] \in Seq(S) /\ Selection(f[0], ss, I, 0)
    BY <1>2, <2>1, <2>2, Zenon
  <2>4. 0 \in 0..Len(ss)
    OBVIOUS
  <2>5. QED
    BY <2>3, <2>4, Zenon
<1>4. ASSUME NEW n \in 1..Len(ss), n - 1 \in P PROVE n \in P
  <2>1. f[n - 1] \in Seq(S) /\ Selection(f[n - 1], ss, I, n - 1)
    BY <1>4
  <2>2. f[n] \in Seq(S) /\ Selection(f[n], ss, I, n)
    <3>1. f[n] = IF n \in I THEN Append(f[n - 1], ss[n]) ELSE f[n - 1]
      BY <1>2, Zenon
    <3>2. PICK p : p = f[n - 1]
      OBVIOUS
    <3>3. /\ n \in I => Append(p, ss[n]) \in Seq(S) /\ Selection(Append(p, ss[n]), ss, I, n)
          /\ n \notin I => Selection(p, ss, I, n)
      BY <2>1, <3>2, SelectionGrows
    <3>4. QED
      BY <2>1, <3>1, <3>2, <3>3, Zenon
  <2>3. QED
    BY <2>2
<1> HIDE DEF P
<1>5. P \in SUBSET Nat
  BY DEF P
<1>6. 0..Len(ss) \subseteq P
  BY <1>2, <1>3, <1>4, <1>5, UpTo
<1>7. QED
  <2>1. Len(ss) \in P
    BY <1>2, <1>6
  <2>2. QED
    BY <1>1, <2>1 DEF P

--------------------------------------------------------------------------------
(* Steps, and the parameters that an analysis finds in them.               *)

Typing == {"type", "navigate"}

Texts == {Text(v) : v \in Values \cup {""}}
Step == [at : Nat, kind : Kinds, value : Texts, expects : Texts]

\* The steps of a workflow: numbered.
Numbered(ss) ==
    /\ ss \in Seq(Step)
    /\ \A i \in DOMAIN ss : ss[i].at = i

\* The parameters ps are from the first n steps: one of a step at most, and with its
\* value for the default.
Fits(ps, ss, n) ==
    /\ \E S : ps \in Seq(S)
    /\ \A i \in 1..Len(ps) :
           /\ ps[i].at \in 1..n /\ ss[ps[i].at].kind \in Typing
           /\ IsText(ss[ps[i].at].value) /\ ps[i].default = Trim[ss[ps[i].at].value[2]]
    /\ \A i, j \in 1..Len(ps) :
           ps[i].key = ps[j].key \/ ps[i].at = ps[j].at => i = j

LEMMA ParametersUnfolds ==
    ASSUME NEW S, NEW ss \in Seq(S),
           NEW g, g = [n \in 0..Len(ss) |->
                          IF n = 0 THEN <<>> ELSE WithParameter(g[n - 1], ss[n])]
    PROVE  \E f : /\ f = [n \in 0..Len(ss) |->
                            IF n = 0 THEN <<>> ELSE WithParameter(f[n - 1], ss[n])]
                  /\ Parameters(ss) = f[Len(ss)]
BY Zenon DEF Parameters

LEMMA ParametersIsRecursive ==
    ASSUME NEW S, NEW ss \in Seq(S)
    PROVE  \E f : /\ f = [n \in 0..Len(ss) |->
                            IF n = 0 THEN <<>> ELSE WithParameter(f[n - 1], ss[n])]
                  /\ Parameters(ss) = f[Len(ss)]
<1> DEFINE Is(f, m) == f = [n \in 0..m |->
                                IF n = 0 THEN <<>> ELSE WithParameter(f[n - 1], ss[n])]
           P == {m \in Nat : \E f : Is(f, m)}
<1>1. 0 \in P
  <2>1. Is([n \in 0..0 |-> <<>>], 0)
    OBVIOUS
  <2>2. QED
    BY <2>1
<1>2. ASSUME NEW m \in 1..Len(ss), m - 1 \in P PROVE m \in P
  <2>1. PICK f : Is(f, m - 1)
    BY <1>2
  <2> DEFINE g == [n \in 0..m |-> IF n = m THEN WithParameter(f[m - 1], ss[m]) ELSE f[n]]
  <2>2. \A n \in 0..(m - 1) : g[n] = f[n]
    BY <1>2
  <2>3. \A n \in 0..(m - 1) :
            f[n] = IF n = 0 THEN <<>> ELSE WithParameter(f[n - 1], ss[n])
    BY <2>1, Zenon
  <2>4. ASSUME NEW n \in 0..m
        PROVE  g[n] = IF n = 0 THEN <<>> ELSE WithParameter(g[n - 1], ss[n])
    <3>1. CASE n = m
      <4>1. g[n] = WithParameter(f[m - 1], ss[m])
        BY <3>1
      <4>2. n # 0 /\ m - 1 \in 0..(m - 1)
        BY <1>2, <3>1
      <4>3. QED
        BY <2>2, <3>1, <4>1, <4>2
    <3>2. CASE n # m
      <4>1. n \in 0..(m - 1) /\ (n # 0 => n - 1 \in 0..(m - 1))
        BY <1>2, <3>2
      <4> HIDE DEF g
      <4>2. QED
        BY <2>2, <2>3, <4>1
    <3>3. QED
      BY <3>1, <3>2
  <2>5. g = [n \in 0..m |-> g[n]]
    OBVIOUS
  <2> HIDE DEF g
  <2>6. Is(g, m)
    BY <2>4, <2>5
  <2> HIDE DEF Is
  <2>7. QED
    BY <1>2, <2>6
<1>3. Len(ss) \in Nat
  OBVIOUS
<1>4. Len(ss) \in P
  <2> HIDE DEF P
  <2>1. P \in SUBSET Nat
    BY DEF P
  <2>2. \A n \in 1..Len(ss) : n - 1 \in P => n \in P
    BY <1>2
  <2>3. 0..Len(ss) \subseteq P
    BY <1>1, <1>3, <2>1, <2>2, UpTo, Zenon
  <2>4. QED
    BY <1>3, <2>3
<1>5. PICK f : Is(f, Len(ss))
  BY <1>4
<1>6. QED
  BY <1>5, ParametersUnfolds

LEMMA WithParameterFits ==
    ASSUME NEW ss, Numbered(ss), NEW n \in 1..Len(ss), NEW ps, Fits(ps, ss, n - 1)
    PROVE  Fits(WithParameter(ps, ss[n]), ss, n)
<1> DEFINE s == ss[n]
           v == Trim[s.value[2]]
           key == Candidate(ps, s, v)
           p == [key |-> key, default |-> v, at |-> s.at]
           m == Len(ps)
<1>1. n \in Nat \ {0} /\ s.at = n
  BY DEF Numbered
<1>2. PICK S : ps \in Seq(S)
  BY DEF Fits
<1>3. m \in Nat
  BY <1>2
<1>4. /\ \A i \in 1..m :
            /\ ps[i].at \in 1..(n - 1) /\ ss[ps[i].at].kind \in Typing
            /\ IsText(ss[ps[i].at].value) /\ ps[i].default = Trim[ss[ps[i].at].value[2]]
      /\ \A i, j \in 1..m : ps[i].key = ps[j].key \/ ps[i].at = ps[j].at => i = j
  BY Zenon DEF Fits
<1>5. \A i \in 1..m : ps[i].at \in 1..n /\ ps[i].at # n
  BY <1>1, <1>4
<1>6. Fits(ps, ss, n)
  BY <1>2, <1>4, <1>5 DEF Fits
<1>7. CASE \/ s.kind \notin Typing \/ ~IsText(s.value) \/ key = "" \/ key \in KeysOf(ps)
  BY <1>6, <1>7 DEF WithParameter, Typing
<1>8. CASE s.kind \in Typing /\ IsText(s.value) /\ key # "" /\ key \notin KeysOf(ps)
  <2> DEFINE q == Append(ps, p)
  <2>1. WithParameter(ps, s) = q
    BY <1>8, Zenon DEF WithParameter, Typing
  <2>2. p.at = n /\ p.default = Trim[s.value[2]] /\ p.key = key
    BY <1>1
  <2> HIDE DEF p
  <2>3. /\ q \in Seq(S \cup {p}) /\ Len(q) = m + 1 /\ q[m + 1] = p
        /\ \A i \in 1..m : q[i] = ps[i]
    BY <1>2, AppendProperties, SeqMonotonic
  <2>4. \A i \in 1..m : ps[i].key # key
    <3>1. DOMAIN ps = 1..m
      BY <1>2
    <3>2. key \notin {ps[i].key : i \in DOMAIN ps}
      BY <1>8, Zenon DEF KeysOf
    <3> HIDE DEF key, m
    <3>3. QED
      BY <3>1, <3>2
  <2> HIDE DEF s, key, q, m
  <2>5. ss[n] = s
    BY DEF s
  <2>6. \A i \in 1..Len(q) : i = m + 1 \/ i \in 1..m
    BY <1>3, <2>3
  <2>7. \A i \in 1..Len(q) :
            /\ q[i].at \in 1..n /\ ss[q[i].at].kind \in Typing
            /\ IsText(ss[q[i].at].value) /\ q[i].default = Trim[ss[q[i].at].value[2]]
    <3> SUFFICES ASSUME NEW i \in 1..Len(q)
                 PROVE  /\ q[i].at \in 1..n /\ ss[q[i].at].kind \in Typing
                        /\ IsText(ss[q[i].at].value)
                        /\ q[i].default = Trim[ss[q[i].at].value[2]]
      OBVIOUS
    <3>1. CASE i = m + 1
      <4>1. q[i] = p /\ n \in 1..n
        BY <1>1, <2>3, <3>1
      <4>2. QED
        BY <1>8, <2>2, <2>5, <4>1
    <3>2. CASE i \in 1..m
      BY <1>4, <1>5, <2>3, <3>2
    <3>3. QED
      BY <2>6, <3>1, <3>2
  <2>8. \A i, j \in 1..Len(q) : q[i].key = q[j].key \/ q[i].at = q[j].at => i = j
    <3> SUFFICES ASSUME NEW i \in 1..Len(q), NEW j \in 1..Len(q),
                        q[i].key = q[j].key \/ q[i].at = q[j].at
                 PROVE  i = j
      OBVIOUS
    <3>1. CASE i = m + 1 /\ j \in 1..m
      BY <1>5, <2>2, <2>3, <2>4, <3>1
    <3>2. CASE i \in 1..m /\ j = m + 1
      BY <1>5, <2>2, <2>3, <2>4, <3>2
    <3>3. CASE i \in 1..m /\ j \in 1..m
      <4>1. q[i] = ps[i] /\ q[j] = ps[j]
        BY <2>3, <3>3
      <4>2. QED
        BY <1>4, <3>3, <4>1 DEF m
    <3>4. QED
      BY <2>6, <3>1, <3>2, <3>3
  <2>9. Fits(q, ss, n)
    BY <2>3, <2>7, <2>8 DEF Fits
  <2>10. QED
    BY <2>1, <2>5, <2>9
<1>9. QED
  BY <1>7, <1>8

LEMMA ParametersFit ==
    ASSUME NEW ss, Numbered(ss)
    PROVE  Fits(Parameters(ss), ss, Len(ss))
<1>1. ss \in Seq(Step)
  BY DEF Numbered
<1>2. PICK f : /\ f = [n \in 0..Len(ss) |->
                          IF n = 0 THEN <<>> ELSE WithParameter(f[n - 1], ss[n])]
               /\ Parameters(ss) = f[Len(ss)]
  BY <1>1, ParametersIsRecursive
<1>3. /\ f[0] = <<>> /\ Len(ss) \in Nat
      /\ \A n \in 1..Len(ss) : f[n] = WithParameter(f[n - 1], ss[n])
  <2>1. \A n \in 0..Len(ss) :
            f[n] = IF n = 0 THEN <<>> ELSE WithParameter(f[n - 1], ss[n])
    BY <1>2, Zenon
  <2>2. Len(ss) \in Nat /\ 0 \in 0..Len(ss)
    BY <1>1
  <2>3. \A n \in 1..Len(ss) : n # 0 /\ n \in 0..Len(ss)
    BY <1>1
  <2>4. QED
    BY <2>1, <2>2, <2>3, Zenon
<1> DEFINE P == {n \in 0..Len(ss) : Fits(f[n], ss, n)}
<1>4. 0 \in P
  <2>1. <<>> \in Seq({}) /\ Len(<<>>) = 0 /\ 1..0 = {}
    OBVIOUS
  <2>2. Fits(<<>>, ss, 0)
    BY <2>1 DEF Fits
  <2>3. Fits(f[0], ss, 0)
    BY <1>3, <2>2, Zenon
  <2>4. 0 \in 0..Len(ss)
    BY <1>3
  <2>5. QED
    BY <2>3, <2>4, Zenon
<1>5. ASSUME NEW n \in 1..Len(ss), n - 1 \in P PROVE n \in P
  <2>1. Fits(f[n - 1], ss, n - 1)
    BY <1>5
  <2>2. Fits(f[n], ss, n)
    BY <1>3, <2>1, WithParameterFits
  <2>3. QED
    BY <2>2
<1> HIDE DEF P
<1>6. P \in SUBSET Nat
  BY DEF P
<1>7. 0..Len(ss) \subseteq P
  BY <1>3, <1>4, <1>5, <1>6, UpTo
<1>8. QED
  <2>1. Len(ss) \in P
    BY <1>3, <1>7
  <2>2. QED
    BY <1>2, <2>1 DEF P

LEMMA LargestNumber ==
    ASSUME NEW n \in Nat, NEW T, T \subseteq 1..n, T # {}
    PROVE  \E m \in T : \A k \in T : k <= m
<1> DEFINE U == {n - k : k \in T}
<1>1. U \subseteq Nat /\ U # {}
  <2>1. \A k \in T : n - k \in Nat
    OBVIOUS
  <2>2. QED
    BY <2>1
<1>2. PICK u \in U : \A w \in U : ~(w < u)
  <2> HIDE DEF U
  <2>1. QED
    BY <1>1, LeastNumber, Zenon
<1>3. PICK m \in T : u = n - m
  BY <1>2
<1>4. \A k \in T : ~(n - k < n - m)
  BY <1>2, <1>3
<1>5. \A k \in T : k <= m
  BY <1>3, <1>4
<1>6. QED
  BY <1>3, <1>5

LEMMA TextsAreTexts ==
    \A x \in Texts : x[1] = "text" /\ x # <<"ref", x[2]>> /\ (IsText(x) => x[2] \in Values)
<1> SUFFICES ASSUME NEW x \in Texts
             PROVE  x[1] = "text" /\ x # <<"ref", x[2]>> /\ (IsText(x) => x[2] \in Values)
  OBVIOUS
<1>1. PICK v \in Values \cup {""} : x = <<"text", v>>
  BY DEF Texts, Text
<1>2. x[1] = "text" /\ x[2] = v
  BY <1>1
<1>3. x # <<"ref", x[2]>>
  BY <1>1
<1>4. IsText(x) => v # ""
  BY <1>1 DEF IsText, Nothing, Text
<1>5. QED
  BY <1>2, <1>3, <1>4

LEMMA LastTypedIsText ==
    ASSUME NEW events \in Seq(Events), NEW i \in 1..Len(events)
    PROVE  LastTyped(events, i) \in Texts
<1> DEFINE T == {j \in 1..i : events[j].kind = "type"}
<1>1. i \in Nat /\ T \subseteq 1..i
  OBVIOUS
<1>2. CASE T = {}
  BY <1>2 DEF LastTyped, Texts, Nothing, Text
<1>3. CASE T # {}
  <2> DEFINE m == CHOOSE j \in T : \A k \in T : k <= j
  <2>1. m \in T
    <3> HIDE DEF T
    <3>1. \E j \in T : \A k \in T : k <= j
      BY <1>1, <1>3, LargestNumber
    <3>2. QED
      BY <3>1
  <2>2. LastTyped(events, i) = Text(events[m].value)
    BY <1>3, Zenon DEF LastTyped
  <2> HIDE DEF m
  <2>3. m \in 1..Len(events)
    BY <2>1
  <2>4. events[m] \in Events
    BY <2>3
  <2>5. events[m].value \in Values \cup {""}
    BY <2>4 DEF Events
  <2>6. QED
    BY <2>2, <2>5 DEF Texts
<1>4. QED
  BY <1>2, <1>3

LEMMA RecordedIsNumbered ==
    ASSUME NEW events \in Recordings
    PROVE  Numbered(Recorded(Deduped(events)))
<1> DEFINE ev == Deduped(events)
           ss == Recorded(ev)
<1>1. events \in Seq(Events)
  <2>1. PICK n \in 1..MaxSteps : events \in [1..n -> Events]
    BY DEF Recordings
  <2>2. n \in Nat
    <3>1. MaxSteps \in Nat
      BY PlanningAssumption
    <3>2. QED
      BY <3>1
  <2>3. QED
    BY <2>1, <2>2
<1>2. ev \in Seq(Events)
  <2> DEFINE I == {i \in DOMAIN events :
                      ~(i > 1 /\ events[i].kind = "type" /\ events[i] = events[i - 1])}
  <2>1. ev = Picked(events, I)
    BY Zenon DEF Deduped
  <2> HIDE DEF I, ev
  <2>2. QED
    BY <1>1, <2>1, PickedSelects
<1> HIDE DEF ev
<1>3. /\ Len(ev) \in Nat /\ DOMAIN ev = 1..Len(ev)
      /\ \A i \in 1..Len(ev) : ev[i] \in Events
  BY <1>2
<1>4. ss = [i \in 1..Len(ev) |-> [at |-> i, kind |-> ev[i].kind, value |-> Text(ev[i].value),
                                  expects |-> Expectation(ev, i)]]
  BY <1>3 DEF Recorded
<1>5. ASSUME NEW i \in 1..Len(ev)
      PROVE  ss[i] \in Step /\ ss[i].at = i
  <2>1. ev[i].kind \in Kinds /\ ev[i].value \in Values \cup {""}
    BY <1>3 DEF Events
  <2>2. Nothing \in Texts
    BY DEF Nothing, Texts
  <2>3. Expectation(ev, i) \in Texts
    BY <1>2, <2>2, LastTypedIsText DEF Expectation
  <2>4. Text(ev[i].value) \in Texts
    BY <2>1 DEF Texts
  <2>5. /\ ss[i].at = i /\ ss[i].kind = ev[i].kind /\ ss[i].value = Text(ev[i].value)
        /\ ss[i] = [at |-> i, kind |-> ev[i].kind, value |-> Text(ev[i].value),
                    expects |-> Expectation(ev, i)]
    BY <1>4
  <2>6. i \in Nat
    BY <1>3
  <2>7. ss[i] \in Step
    <3> HIDE DEF ss
    <3>1. [at |-> i, kind |-> ev[i].kind, value |-> Text(ev[i].value),
           expects |-> Expectation(ev, i)] \in Step
      BY <2>1, <2>3, <2>4, <2>6 DEF Step
    <3>2. QED
      BY <2>5, <3>1
  <2>8. QED
    BY <2>5, <2>7
<1>6. DOMAIN ss = 1..Len(ev)
  BY <1>4
<1>7. ss = [i \in 1..Len(ev) |-> ss[i]]
  BY <1>4
<1> HIDE DEF ss
<1>8. ss \in Seq(Step)
  BY <1>3, <1>5, <1>7
<1>9. QED
  BY <1>5, <1>6, <1>8 DEF Numbered, ss, ev

LEMMA SavedIsNumbered ==
    ASSUME Numbered(steps), Save
    PROVE  Numbered(steps')
<1>1. /\ steps \in Seq(Step) /\ Len(steps) \in Nat /\ DOMAIN steps = 1..Len(steps)
      /\ \A i \in 1..Len(steps) : steps[i] \in Step /\ steps[i].at = i
  BY DEF Numbered
<1>2. PICK i \in 1..Len(steps) :
          \/ Len(steps) > 1 /\ steps' = Renumbered(RemoveAt(steps, i))
          \/ \E v \in Values :
                 steps[i].kind = "type" /\ steps' = [steps EXCEPT ![i].value = Text(v)]
  BY <1>1 DEF Save
<1>3. CASE steps' = Renumbered(RemoveAt(steps, i))
  <2> DEFINE q == RemoveAt(steps, i)
             n == Len(steps)
  <2>1. n \in Nat /\ i \in 1..n /\ i - 1 \in Int /\ i + 1 \in Int
    BY <1>1
  <2>2. /\ q = SubSeq(steps, 1, i - 1) \o SubSeq(steps, i + 1, n)
        /\ SubSeq(steps, 1, i - 1) \in Seq(Step) /\ Len(SubSeq(steps, 1, i - 1)) = i - 1
        /\ SubSeq(steps, i + 1, n) \in Seq(Step) /\ Len(SubSeq(steps, i + 1, n)) = n - i
    <3>1. q = SubSeq(steps, 1, i - 1) \o SubSeq(steps, i + 1, n)
      BY DEF RemoveAt
    <3>2. SubSeq(steps, 1, i - 1) \in Seq(Step) /\ Len(SubSeq(steps, 1, i - 1)) = i - 1
      BY <1>1, <2>1, SubSeqProperties
    <3>3. SubSeq(steps, i + 1, n) \in Seq(Step) /\ Len(SubSeq(steps, i + 1, n)) = n - i
      <4>1. /\ i + 1 \in 1..(n + 1) /\ n \in ((i + 1) - 1)..n
            /\ steps \in Seq(Step) /\ n = Len(steps) /\ n - i = n - (i + 1) + 1
        BY <1>1, <2>1
      <4> HIDE DEF n
      <4>2. /\ SubSeq(steps, i + 1, n) \in Seq(Step)
            /\ Len(SubSeq(steps, i + 1, n))
               = IF i + 1 <= n THEN n - (i + 1) + 1 ELSE 0
        BY <4>1, SubSeqProperties
      <4>3. QED
        BY <2>1, <4>2
    <3>4. QED
      BY <3>1, <3>2, <3>3
  <2>3. q \in Seq(Step)
    BY <2>2, ConcatProperties
  <2> HIDE DEF q
  <2>4. /\ Len(q) \in Nat /\ DOMAIN q = 1..Len(q)
        /\ \A k \in 1..Len(q) : q[k] \in Step
    BY <2>3
  <2> DEFINE r == [k \in 1..Len(q) |-> [q[k] EXCEPT !.at = k]]
  <2>6. steps' = r
    BY <1>3, <2>4 DEF Renumbered, q
  <2>7. ASSUME NEW k \in 1..Len(q)
        PROVE  r[k] \in Step /\ r[k].at = k
    <3>1. q[k] \in Step /\ k \in Nat
      BY <2>4
    <3>2. r[k] = [q[k] EXCEPT !.at = k]
      OBVIOUS
    <3> HIDE DEF r
    <3>3. QED
      BY <3>1, <3>2 DEF Step
  <2>8. r \in Seq(Step) /\ DOMAIN r = 1..Len(q)
    <3>1. DOMAIN r = 1..Len(q) /\ r = [k \in 1..Len(q) |-> r[k]]
      OBVIOUS
    <3> HIDE DEF r
    <3>2. QED
      BY <2>4, <2>7, <3>1
  <2> HIDE DEF r
  <2>9. QED
    BY <2>6, <2>7, <2>8 DEF Numbered
<1>4. ASSUME NEW v \in Values, steps[i].kind = "type",
             steps' = [steps EXCEPT ![i].value = Text(v)]
      PROVE  Numbered(steps')
  <2>1. Text(v) \in Texts
    BY DEF Texts
  <2> DEFINE s == [steps[i] EXCEPT !.value = Text(v)]
  <2>2. s \in Step /\ s.at = i /\ s.kind \in Typing
    BY <1>1, <1>4, <2>1 DEF Step, Typing
  <2>3. steps' = [steps EXCEPT ![i] = s]
    BY <1>4
  <2> HIDE DEF s
  <2>4. QED
    BY <1>1, <2>2, <2>3 DEF Numbered
<1>5. QED
  BY <1>2, <1>3, <1>4

--------------------------------------------------------------------------------
(* The template and the plan, of steps that were analysed and not saved.   *)

Fitting == Numbered(steps) /\ Fits(params, steps, Len(steps))

\* The value v is that of step s, or refers to a parameter with its value for the default.
Refers(s, v) ==
    \/ v = s.value
    \/ \E j \in DOMAIN params : /\ IsText(s.value) /\ Trim[s.value[2]] = params[j].default
                                /\ v = Ref(params[j].key)

\* What Faithful says of one value, in a run that was given or filled in resolved.
Types(s, v, resolved) ==
    \/ v = s.value
    \/ \E j \in DOMAIN params : /\ IsText(s.value) /\ Trim[s.value[2]] = params[j].default
                                /\ v = Text(ValueFor(params[j].key, resolved))

LEMMA FittingFacts ==
    ASSUME Fitting
    PROVE  /\ Len(steps) \in Nat /\ DOMAIN steps = 1..Len(steps)
           /\ \A i \in 1..Len(steps) :
                  steps[i] \in Step /\ steps[i].at = i
           /\ Len(params) \in Nat /\ DOMAIN params = 1..Len(params)
           /\ \A j \in 1..Len(params) :
                  LET s == steps[params[j].at]
                  IN  /\ params[j].at \in 1..Len(steps) /\ s.kind \in Typing
                      /\ IsText(s.value) /\ params[j].default = Trim[s.value[2]]
           /\ \A i, j \in 1..Len(params) :
                  params[i].key = params[j].key \/ params[i].at = params[j].at => i = j
<1>1. /\ Len(steps) \in Nat /\ DOMAIN steps = 1..Len(steps)
      /\ \A i \in 1..Len(steps) :
             steps[i] \in Step /\ steps[i].at = i
  BY DEF Fitting, Numbered
<1>2. PICK S : params \in Seq(S)
  BY DEF Fitting, Fits
<1>3. Len(params) \in Nat /\ DOMAIN params = 1..Len(params)
  BY <1>2
<1>4. QED
  BY <1>1, <1>3, Zenon DEF Fitting, Fits

LEMMA ByDefaultRefers ==
    ASSUME Fitting, NEW x
    PROVE  \/ ByDefault(x) = x
           \/ \E j \in DOMAIN params : /\ IsText(x) /\ params[j].default = x[2]
                                       /\ ByDefault(x) = Ref(params[j].key)
<1> DEFINE T == {i \in DOMAIN params : IsText(x) /\ params[i].default = x[2]}
           m == CHOOSE i \in T : \A j \in T : j <= i
<1>1. CASE T = {}
  BY <1>1, Zenon DEF ByDefault
<1>2. CASE T # {}
  <2>1. T \subseteq 1..Len(params) /\ Len(params) \in Nat
    BY FittingFacts
  <2>2. ByDefault(x) = Ref(params[m].key)
    BY <1>2, Zenon DEF ByDefault
  <2>3. m \in T
    <3> HIDE DEF T
    <3>1. \E i \in T : \A j \in T : j <= i
      BY <1>2, <2>1, LargestNumber
    <3>2. QED
      BY <3>1
  <2> HIDE DEF m
  <2>4. QED
    BY <2>2, <2>3
<1>3. QED
  BY <1>1, <1>2

LEMMA DefaultIsTrimmed ==
    ASSUME Fitting, NEW j \in DOMAIN params
    PROVE  params[j].default \in Values /\ Trim[params[j].default] = params[j].default
<1> DEFINE i == params[j].at
           w == steps[i].value[2]
<1>1. i \in 1..Len(steps) /\ IsText(steps[i].value) /\ params[j].default = Trim[w]
  BY FittingFacts
<1>2. steps[i] \in Step
  BY <1>1, FittingFacts
<1>3. steps[i].value \in Texts
  BY <1>2 DEF Step
<1>4. w \in Values
  BY <1>1, <1>3, TextsAreTexts
<1>5. QED
  BY <1>1, <1>4, PlanningAssumption

\* A step with a parameter of its own refers to it.
LEMMA OwnRefers ==
    ASSUME Fitting, NEW j \in DOMAIN params
    PROVE  LET s == steps[params[j].at]
           IN  TemplateStep(s) = [s EXCEPT !.value = Ref(params[j].key),
                                           !.expects = IF s.expects = s.value
                                                       THEN Ref(params[j].key)
                                                       ELSE ByDefault(s.expects)]
<1> DEFINE s == steps[params[j].at]
           own == {i \in DOMAIN params : params[i].at = s.at}
<1>1. s.at = params[j].at /\ j \in Nat /\ s \in Step
  BY FittingFacts
<1>2. own = {j}
  BY <1>1, FittingFacts
<1>3. (CHOOSE i \in own : \A k \in own : i <= k) = j
  BY <1>1, <1>2
<1>4. TemplateStep(s) = [s EXCEPT !.value = Ref(params[j].key),
                                  !.expects = IF @ = s.value THEN Ref(params[j].key)
                                              ELSE ByDefault(@)]
  <2> DEFINE c == CHOOSE i \in own : \A k \in own : i <= k
  <2>1. own # {}
    BY <1>2
  <2>2. TemplateStep(s) = [s EXCEPT !.value = Ref(params[c].key),
                                    !.expects = IF @ = s.value THEN Ref(params[c].key)
                                                ELSE ByDefault(@)]
    BY <2>1 DEF TemplateStep
  <2>3. c = j
    BY <1>3
  <2> HIDE DEF c, s
  <2>4. QED
    BY <2>2, <2>3, Zenon
<1>5. QED
  BY <1>1, <1>4, Zenon DEF Step

\* Another refers to parameters by their default.
LEMMA OthersRefer ==
    ASSUME Fitting, NEW i \in DOMAIN steps, \A j \in DOMAIN params : params[j].at # i
    PROVE  LET s == steps[i]
           IN  TemplateStep(s) = [s EXCEPT !.value = ByDefault(s.value),
                                           !.expects = IF ByDefault(s.value) # s.value
                                                          /\ s.expects # s.value
                                                       THEN s.expects ELSE ByDefault(s.expects)]
<1> DEFINE s == steps[i]
           own == {j \in DOMAIN params : params[j].at = s.at}
<1>1. s.at = i /\ s \in Step
  BY FittingFacts
<1>2. own = {}
  BY <1>1
<1>3. TemplateStep(s) = [s EXCEPT !.value = ByDefault(@),
                                  !.expects = IF ByDefault(s.value) # s.value /\ @ # s.value
                                              THEN @ ELSE ByDefault(@)]
  BY <1>2, Zenon DEF TemplateStep
<1>4. QED
  BY <1>1, <1>3, Zenon DEF Step

\* t is a step, as a template or a plan may have it.
IsRow(t) == t = [at |-> t.at, kind |-> t.kind, value |-> t.value, expects |-> t.expects]

\* It with another value and expectation.
With(t, v, x) == [t EXCEPT !.value = v, !.expects = x]

LEMMA WithIsRow ==
    ASSUME NEW t, IsRow(t), NEW v, NEW x
    PROVE  LET u == With(t, v, x)
           IN  IsRow(u) /\ u.at = t.at /\ u.kind = t.kind /\ u.value = v /\ u.expects = x
<1> DEFINE u == With(t, v, x)
<1>0. u = [t EXCEPT !.value = v, !.expects = x]
  BY DEF With
<1> HIDE DEF u
<1>1. PICK a, k, w, y : t = [at |-> a, kind |-> k, value |-> w, expects |-> y]
  BY Zenon DEF IsRow
<1>2. t.at = a /\ t.kind = k
  BY <1>1
<1>3. DOMAIN t = {"at", "kind", "value", "expects"}
  BY <1>1
<1>4. u.at = a /\ u.kind = k /\ u.value = v /\ u.expects = x
  BY <1>0, <1>2, <1>3
<1>5. u = [at |-> a, kind |-> k, value |-> v, expects |-> x]
  <2>1. u = [f \in DOMAIN t |-> IF f = "expects" THEN x ELSE IF f = "value" THEN v ELSE t[f]]
    BY <1>0, <1>3
  <2>2. QED
    BY <1>1, <1>3, <2>1
<1>6. IsRow(u)
  BY <1>4, <1>5 DEF IsRow
<1>7. QED
  BY <1>2, <1>4, <1>6 DEF u

LEMMA StepIsRow == \A s \in Step : IsRow(s)
BY DEF Step, IsRow

LEMMA GeneratedRefers ==
    ASSUME Fitting
    PROVE  /\ DOMAIN Generated = DOMAIN steps
           /\ \E S : Generated \in Seq(S)
           /\ \A i \in DOMAIN steps :
                  LET t == Generated[i]
                  IN  /\ IsRow(t) /\ t.at = i /\ t.kind = steps[i].kind
                      /\ Refers(steps[i], t.value)
                      /\ \A j \in DOMAIN params : params[j].at = i => t.value = Ref(params[j].key)
<1>1. DOMAIN Generated = 1..Len(steps) /\ Len(steps) \in Nat /\ DOMAIN steps = 1..Len(steps)
  BY FittingFacts DEF Generated
<1>2. Generated \in Seq({TemplateStep(steps[i]) : i \in 1..Len(steps)})
  BY <1>1 DEF Generated
<1>3. ASSUME NEW i \in DOMAIN steps
      PROVE  LET t == Generated[i]
             IN  /\ IsRow(t) /\ t.at = i /\ t.kind = steps[i].kind
                 /\ Refers(steps[i], t.value)
                 /\ \A j \in DOMAIN params : params[j].at = i => t.value = Ref(params[j].key)
  <2> DEFINE s == steps[i]
             t == TemplateStep(s)
  <2>1. s.at = i /\ IsRow(s)
    BY FittingFacts, StepIsRow
  <2>2. CASE \E j \in DOMAIN params : params[j].at = i
    <3>1. PICK j \in DOMAIN params : params[j].at = i
      BY <2>2
    <3>2. t = [s EXCEPT !.value = Ref(params[j].key),
                        !.expects = IF s.expects = s.value THEN Ref(params[j].key)
                                    ELSE ByDefault(s.expects)]
      BY <3>1, OwnRefers
    <3>3. IsRow(t) /\ t.at = i /\ t.kind = s.kind /\ t.value = Ref(params[j].key)
      <4> DEFINE x == IF s.expects = s.value THEN Ref(params[j].key) ELSE ByDefault(s.expects)
      <4>1. t = With(s, Ref(params[j].key), x)
        BY <3>2 DEF With
      <4> HIDE DEF s, t, x
      <4>2. IsRow(s) /\ s.at = i
        BY <2>1
      <4>3. QED
        BY <4>1, <4>2, WithIsRow
    <3>4. Refers(s, t.value)
      BY <3>1, <3>3, FittingFacts DEF Refers
    <3>5. \A k \in DOMAIN params : params[k].at = i => k = j
      BY <3>1, FittingFacts
    <3>6. t = Generated[i]
      BY DEF Generated
    <3> HIDE DEF s, t
    <3>7. QED
      BY <3>3, <3>4, <3>5, <3>6 DEF s
  <2>3. CASE \A j \in DOMAIN params : params[j].at # i
    <3>1. t = [s EXCEPT !.value = ByDefault(s.value),
                        !.expects = IF ByDefault(s.value) # s.value /\ s.expects # s.value
                                    THEN s.expects ELSE ByDefault(s.expects)]
      BY <2>3, OthersRefer
    <3>2. IsRow(t) /\ t.at = i /\ t.kind = s.kind /\ t.value = ByDefault(s.value)
      <4> DEFINE x == IF ByDefault(s.value) # s.value /\ s.expects # s.value
                      THEN s.expects ELSE ByDefault(s.expects)
      <4>1. t = With(s, ByDefault(s.value), x)
        BY <3>1 DEF With
      <4> HIDE DEF s, t, x
      <4>2. IsRow(s) /\ s.at = i
        BY <2>1
      <4>3. QED
        BY <4>1, <4>2, WithIsRow
    <3>3. Refers(s, t.value)
      <4>1. CASE ByDefault(s.value) = s.value
        BY <3>2, <4>1 DEF Refers
      <4>2. ASSUME NEW j \in DOMAIN params, IsText(s.value), params[j].default = s.value[2],
                   ByDefault(s.value) = Ref(params[j].key)
            PROVE  Refers(s, t.value)
        BY <3>2, <4>2, DefaultIsTrimmed DEF Refers
      <4>3. QED
        BY <4>1, <4>2, ByDefaultRefers
    <3>4. t = Generated[i]
      BY DEF Generated
    <3> HIDE DEF s, t
    <3>5. QED
      BY <2>3, <3>2, <3>3, <3>4 DEF s
  <2>4. QED
    BY <2>2, <2>3
<1>4. QED
  BY <1>1, <1>2, <1>3

LEMMA ResolvedTypes ==
    ASSUME Fitting, NEW i \in DOMAIN steps, NEW v, Refers(steps[i], v), NEW resolved
    PROVE  Types(steps[i], Resolved(v, resolved), resolved)
<1> DEFINE s == steps[i]
<1>1. s.value \in Texts
  BY FittingFacts DEF Step
<1>2. CASE v = s.value
  <2>1. v[1] = "text"
    BY <1>1, <1>2, TextsAreTexts
  <2>2. CASE ByDefault(v) = v
    <3>1. Resolved(v, resolved) = v
      BY <2>1, <2>2 DEF Resolved
    <3>2. QED
      BY <1>2, <3>1 DEF Types
  <2>3. ASSUME NEW j \in DOMAIN params, IsText(v), params[j].default = v[2],
               ByDefault(v) = Ref(params[j].key)
        PROVE  Types(s, Resolved(v, resolved), resolved)
    <3>1. params[j].key \in KeysOf(params)
      BY DEF KeysOf
    <3>2. Resolved(v, resolved) = Text(ValueFor(params[j].key, resolved))
      BY <2>3, <3>1 DEF Resolved, Ref
    <3>3. Trim[s.value[2]] = params[j].default
      BY <1>2, <2>3, DefaultIsTrimmed
    <3>4. QED
      BY <1>2, <2>3, <3>2, <3>3 DEF Types
  <2>4. QED
    BY <2>2, <2>3, ByDefaultRefers
<1>3. ASSUME NEW j \in DOMAIN params, IsText(s.value), Trim[s.value[2]] = params[j].default,
             v = Ref(params[j].key)
      PROVE  Types(s, Resolved(v, resolved), resolved)
  <2>1. params[j].key \in KeysOf(params)
    BY DEF KeysOf
  <2>2. v[1] = "ref" /\ v[2] = params[j].key
    BY <1>3 DEF Ref
  <2>3. ~IsText(v)
    BY <2>2 DEF IsText
  <2>4. ByDefault(v) = v
    BY <2>3, ByDefaultRefers
  <2>5. Resolved(v, resolved) = Text(ValueFor(params[j].key, resolved))
    BY <2>1, <2>2, <2>4 DEF Resolved
  <2>6. QED
    BY <1>3, <2>5 DEF Types
<1>4. QED
  BY <1>2, <1>3 DEF Refers

LEMMA ResolvedRef ==
    ASSUME Fitting, NEW j \in DOMAIN params, NEW given
    PROVE  Resolved(Ref(params[j].key), given) = Text(ValueFor(params[j].key, given))
<1> DEFINE v == Ref(params[j].key)
<1>1. params[j].key \in KeysOf(params)
  BY DEF KeysOf
<1>2. v[1] = "ref" /\ v[2] = params[j].key
  BY DEF Ref
<1>3. ~IsText(v)
  BY <1>2 DEF IsText
<1>4. ByDefault(v) = v
  BY <1>3, ByDefaultRefers
<1>5. QED
  BY <1>1, <1>2, <1>4 DEF Resolved

LEMMA SubstitutedRefers ==
    ASSUME Fitting, NEW given
    PROVE  LET ss == Substituted(Generated, given)
           IN  /\ DOMAIN ss = DOMAIN steps
               /\ \E S : ss \in Seq(S)
               /\ \A i \in DOMAIN steps :
                      /\ ss[i].at = i /\ ss[i].kind = steps[i].kind
                      /\ ss[i].value = Resolved(Generated[i].value, given)
                      /\ ss[i].expects = Resolved(Generated[i].expects, given)
                      /\ Types(steps[i], ss[i].value, given)
                      /\ \A j \in DOMAIN params :
                             params[j].at = i => ss[i].value = Text(ValueFor(params[j].key, given))
<1> DEFINE g == Generated
           ss == Substituted(g, given)
           u(i) == [g[i] EXCEPT !.value = Resolved(@, given), !.expects = Resolved(@, given)]
<1>1. DOMAIN g = 1..Len(steps) /\ Len(steps) \in Nat /\ DOMAIN steps = 1..Len(steps)
  BY FittingFacts, GeneratedRefers
<1>2. ss = [i \in 1..Len(steps) |-> u(i)]
  BY <1>1 DEF Substituted
<1>3. ss \in Seq({u(i) : i \in 1..Len(steps)}) /\ DOMAIN ss = 1..Len(steps)
  <2> HIDE DEF u, ss
  <2>1. QED
    BY <1>1, <1>2
<1>4. ASSUME NEW i \in DOMAIN steps
      PROVE  /\ ss[i].at = i /\ ss[i].kind = steps[i].kind
             /\ ss[i].value = Resolved(g[i].value, given)
             /\ ss[i].expects = Resolved(g[i].expects, given)
             /\ Types(steps[i], ss[i].value, given)
             /\ \A j \in DOMAIN params :
                    params[j].at = i => ss[i].value = Text(ValueFor(params[j].key, given))
  <2> DEFINE t == g[i]
  <2>1. /\ IsRow(t) /\ t.at = i /\ t.kind = steps[i].kind /\ Refers(steps[i], t.value)
        /\ \A j \in DOMAIN params : params[j].at = i => t.value = Ref(params[j].key)
    BY GeneratedRefers
  <2>2. DOMAIN t = {"at", "kind", "value", "expects"}
    BY <2>1, Zenon DEF IsRow
  <2>3. u(i) = With(t, Resolved(t.value, given), Resolved(t.expects, given))
    BY <2>2 DEF With
  <2>4. ss[i] = u(i)
    BY <1>1, <1>2, Zenon
  <2> HIDE DEF t, u, ss
  <2>5. /\ ss[i].at = i /\ ss[i].kind = steps[i].kind
        /\ ss[i].value = Resolved(t.value, given) /\ ss[i].expects = Resolved(t.expects, given)
    BY <2>1, <2>3, <2>4, WithIsRow
  <2>6. Types(steps[i], Resolved(t.value, given), given)
    BY <2>1, ResolvedTypes
  <2>7. ASSUME NEW j \in DOMAIN params, params[j].at = i
        PROVE  Resolved(t.value, given) = Text(ValueFor(params[j].key, given))
    BY <2>1, <2>7, ResolvedRef
  <2>8. QED
    BY <2>5, <2>6, <2>7 DEF t
<1> HIDE DEF ss, g
<1>5. QED
  BY <1>1, <1>3, <1>4 DEF ss, g

\* p is ss but for scrolling, in its order.
Shortens(p, ss) ==
    \E h \in [1..Len(p) -> 1..Len(ss)] :
        /\ \A k \in 1..Len(p) : p[k] = ss[h[k]]
        /\ \A k, l \in 1..Len(p) : k < l => h[k] < h[l]
        /\ \A i \in 1..Len(ss) : ss[i].kind # "scroll" => \E k \in 1..Len(p) : h[k] = i

LEMMA SameShortens ==
    ASSUME NEW S, NEW ss \in Seq(S)
    PROVE  Shortens(ss, ss)
<1> DEFINE h == [k \in 1..Len(ss) |-> k]
<1>1. h \in [1..Len(ss) -> 1..Len(ss)] /\ \A k \in 1..Len(ss) : h[k] = k
  OBVIOUS
<1> HIDE DEF h
<1>2. QED
  BY <1>1 DEF Shortens

LEMMA CompactedShortens ==
    ASSUME NEW S, NEW ss \in Seq(S), NEW goal
    PROVE  Compacted(ss, goal) \in Seq(S) /\ Shortens(Compacted(ss, goal), ss)
<1> DEFINE I == {i \in DOMAIN ss : goal # "search" \/ ss[i].kind # "scroll"}
           rest == Picked(ss, I)
<1>1. rest \in Seq(S) /\ Selection(rest, ss, I, Len(ss))
  <2> HIDE DEF I
  <2>1. QED
    BY PickedSelects
<1>2. \A i \in 1..Len(ss) : ss[i].kind # "scroll" => i \in I
  OBVIOUS
<1>3. Shortens(rest, ss)
  <2> HIDE DEF I, rest
  <2>1. PICK h \in [1..Len(rest) -> 1..Len(ss)] :
            /\ \A k \in 1..Len(rest) : h[k] \in I /\ rest[k] = ss[h[k]]
            /\ \A k, l \in 1..Len(rest) : k < l => h[k] < h[l]
            /\ \A i \in 1..Len(ss) : i \in I => \E k \in 1..Len(rest) : h[k] = i
    BY <1>1, Zenon DEF Selection
  <2>2. \A i \in 1..Len(ss) : ss[i].kind # "scroll" => \E k \in 1..Len(rest) : h[k] = i
    BY <1>2, <2>1
  <2>3. QED
    BY <2>1, <2>2, Zenon DEF Shortens
<1>4. Compacted(ss, goal) = IF rest = <<>> THEN ss ELSE rest
  BY Zenon DEF Compacted
<1> HIDE DEF rest
<1>5. QED
  BY <1>1, <1>3, <1>4, SameShortens

LEMMA ShortensConsistent ==
    ASSUME NEW S, NEW ss \in Seq(S), NEW p \in Seq(S), Shortens(p, ss), Consistent(ss)
    PROVE  Consistent(p)
<1>1. PICK h \in [1..Len(p) -> 1..Len(ss)] :
          /\ \A k \in 1..Len(p) : p[k] = ss[h[k]]
          /\ \A k, l \in 1..Len(p) : k < l => h[k] < h[l]
          /\ \A i \in 1..Len(ss) : ss[i].kind # "scroll" => \E k \in 1..Len(p) : h[k] = i
  BY DEF Shortens
<1>2. /\ Len(p) \in Nat /\ Len(ss) \in Nat /\ DOMAIN p = 1..Len(p) /\ DOMAIN ss = 1..Len(ss)
      /\ \A k \in 1..Len(p) : h[k] \in 1..Len(ss)
  OBVIOUS
<1>3. ASSUME NEW k \in 1..Len(p), p[k].kind = "type" PROVE p[k].expects = p[k].value
  <2>1. h[k] \in DOMAIN ss /\ p[k] = ss[h[k]]
    BY <1>1, <1>2
  <2>2. QED
    BY <1>3, <2>1 DEF Consistent
<1>4. ASSUME NEW k \in 1..Len(p), p[k].kind = "send", NEW l \in 1..k, p[l].kind = "type",
             \A m \in (l + 1)..k : p[m].kind # "type"
      PROVE  p[k].expects = p[l].value
  <2> DEFINE i == h[k]
             j == h[l]
  <2>1. l \in 1..Len(p) /\ l # k /\ l < k
    BY <1>2, <1>4
  <2>2. /\ i \in 1..Len(ss) /\ j \in 1..Len(ss) /\ j < i /\ p[k] = ss[i] /\ p[l] = ss[j]
    BY <1>1, <1>2, <2>1
  <2>3. ASSUME NEW m \in (j + 1)..i, ss[m].kind = "type" PROVE FALSE
    <3>1. m \in 1..Len(ss) /\ j < m /\ m <= i
      BY <1>2, <2>2
    <3>2. PICK n \in 1..Len(p) : h[n] = m
      BY <1>1, <2>3, <3>1
    <3>3. ~(n < l) /\ n # l
      BY <1>1, <1>2, <2>1, <3>1, <3>2
    <3>4. ~(k < n)
      BY <1>1, <1>2, <3>1, <3>2
    <3>5. n \in (l + 1)..k
      BY <1>2, <2>1, <3>3, <3>4
    <3>6. p[n].kind = "type"
      BY <1>1, <2>3, <3>2
    <3>7. QED
      BY <1>4, <3>5, <3>6
  <2>4. j \in 1..i /\ i \in DOMAIN ss /\ ss[i].kind = "send" /\ ss[j].kind = "type"
    BY <1>2, <1>4, <2>2
  <2> HIDE DEF i, j
  <2>5. ss[i].expects = ss[j].value
    BY <2>3, <2>4 DEF Consistent
  <2>6. QED
    BY <2>2, <2>5
<1>5. QED
  BY <1>2, <1>3, <1>4 DEF Consistent

LEMMA MappedConsistent ==
    ASSUME NEW ss, NEW tt, DOMAIN tt = DOMAIN ss, Consistent(ss), NEW N \in Nat, DOMAIN ss = 1..N,
           \A i \in DOMAIN ss : tt[i].kind = ss[i].kind,
           \A i, j \in DOMAIN ss :
               (i = j \/ ss[i].kind = "send") /\ ss[i].expects = ss[j].value
               => tt[i].expects = tt[j].value
    PROVE  Consistent(tt)
<1>1. \A i \in 1..N : \A j \in 1..i : j \in 1..N
  OBVIOUS
<1>2. \A i \in 1..N : \A j \in 1..i : \A k \in (j + 1)..i : k \in 1..N
  OBVIOUS
<1>3. \A i \in 1..N : tt[i].kind = "type" => tt[i].expects = tt[i].value
  BY DEF Consistent
<1>4. ASSUME NEW i \in 1..N, tt[i].kind = "send", NEW j \in 1..i, tt[j].kind = "type",
             \A k \in (j + 1)..i : tt[k].kind # "type"
      PROVE  tt[i].expects = tt[j].value
  <2>1. ss[i].kind = "send" /\ ss[j].kind = "type" /\ j \in 1..N
    BY <1>1, <1>4
  <2>2. \A k \in (j + 1)..i : ss[k].kind # "type"
    BY <1>2, <1>4
  <2>3. ss[i].expects = ss[j].value
    BY <2>1, <2>2 DEF Consistent
  <2>4. QED
    BY <2>1, <2>3
<1>5. QED
  BY <1>3, <1>4 DEF Consistent

Distinct == \A i, j \in DOMAIN params : params[i].default = params[j].default => i = j
Trimmed ==
    \A i \in DOMAIN steps :
        IsText(steps[i].value) => Trim[steps[i].value[2]] = steps[i].value[2]

LEMMA ByDefaultIs ==
    ASSUME Fitting, Distinct, NEW x, IsText(x), NEW m \in DOMAIN params, params[m].default = x[2]
    PROVE  ByDefault(x) = Ref(params[m].key)
<1> DEFINE T == {i \in DOMAIN params : IsText(x) /\ params[i].default = x[2]}
           c == CHOOSE i \in T : \A j \in T : j <= i
<1>1. T = {m}
  BY DEF Distinct
<1>2. m \in Nat
  BY FittingFacts
<1>3. c = m
  BY <1>1, <1>2
<1>4. ByDefault(x) = Ref(params[c].key)
  BY <1>1, Zenon DEF ByDefault
<1> HIDE DEF c
<1>5. QED
  BY <1>3, <1>4

\* What the template has for a step: references by default, but an expectation beside
\* a value that is a default may be left.
LEMMA GeneratedIs ==
    ASSUME Fitting, Distinct, Trimmed, NEW i \in DOMAIN steps
    PROVE  LET s == steps[i]
           IN  /\ Generated[i].kind = s.kind /\ Generated[i].value = ByDefault(s.value)
               /\ Generated[i].expects \in {s.expects, ByDefault(s.expects)}
               /\ ByDefault(s.value) = s.value \/ s.expects = s.value
                  => Generated[i].expects = ByDefault(s.expects)
<1> DEFINE s == steps[i]
<1>1. Generated[i] = TemplateStep(s) /\ IsRow(s)
  BY FittingFacts, StepIsRow DEF Generated
<1>2. ASSUME NEW j \in DOMAIN params, params[j].at = i
      PROVE  Generated[i].value = ByDefault(s.value) /\ Generated[i].expects = ByDefault(s.expects)
  <2> DEFINE x == IF s.expects = s.value THEN Ref(params[j].key) ELSE ByDefault(s.expects)
  <2>1. TemplateStep(s) = With(s, Ref(params[j].key), x)
    BY <1>2, OwnRefers DEF With
  <2>2. IsText(s.value) /\ params[j].default = Trim[s.value[2]]
    BY <1>2, FittingFacts
  <2>3. params[j].default = s.value[2]
    BY <2>2 DEF Trimmed
  <2>4. ByDefault(s.value) = Ref(params[j].key)
    BY <2>2, <2>3, ByDefaultIs
  <2>5. x = ByDefault(s.expects)
    BY <2>4
  <2> HIDE DEF x, s
  <2>6. Generated[i].value = Ref(params[j].key) /\ Generated[i].expects = x
    BY <1>1, <2>1, WithIsRow
  <2>7. QED
    BY <2>4, <2>5, <2>6
<1>3. ASSUME \A j \in DOMAIN params : params[j].at # i
      PROVE  /\ Generated[i].value = ByDefault(s.value)
             /\ Generated[i].expects \in {s.expects, ByDefault(s.expects)}
             /\ ByDefault(s.value) = s.value \/ s.expects = s.value
                => Generated[i].expects = ByDefault(s.expects)
  <2> DEFINE x == IF ByDefault(s.value) # s.value /\ s.expects # s.value
                  THEN s.expects ELSE ByDefault(s.expects)
  <2>1. TemplateStep(s) = With(s, ByDefault(s.value), x)
    BY <1>3, OthersRefer DEF With
  <2>2. /\ x \in {s.expects, ByDefault(s.expects)}
        /\ ByDefault(s.value) = s.value \/ s.expects = s.value => x = ByDefault(s.expects)
    OBVIOUS
  <2> HIDE DEF s, x
  <2>3. Generated[i].value = ByDefault(s.value) /\ Generated[i].expects = x
    BY <1>1, <2>1, WithIsRow
  <2>4. QED
    BY <2>2, <2>3
<1>4. Generated[i].kind = s.kind
  BY GeneratedRefers
<1> HIDE DEF s
<1>5. QED
  BY <1>2, <1>3, <1>4 DEF s

LEMMA TemplateConsistent ==
    ASSUME Fitting, Distinct, Trimmed, Consistent(steps), ~SendsByDefault
    PROVE  Consistent(Generated)
<1>1. DOMAIN Generated = DOMAIN steps /\ DOMAIN steps = 1..Len(steps) /\ Len(steps) \in Nat
  BY FittingFacts, GeneratedRefers
<1>2. \A i \in DOMAIN steps : steps[i].expects = steps[i].value
                              => Generated[i].expects = Generated[i].value
  BY GeneratedIs
<1>3. ASSUME NEW i \in DOMAIN steps, NEW j \in DOMAIN steps, steps[i].kind = "send",
             steps[i].expects = steps[j].value
      PROVE  Generated[i].expects = Generated[j].value
  <2>1. ByDefault(steps[i].value) = steps[i].value
    <3>1. steps[i].value \in Texts
      BY FittingFacts DEF Step
    <3>2. PICK x : x = steps[i].value
      OBVIOUS
    <3>3. PICK v \in Values \cup {""} : x = Text(v)
      BY <3>1, <3>2, Zenon DEF Texts
    <3>4. x[2] = v
      BY <3>3 DEF Text
    <3>5. ~\E m \in DOMAIN params : params[m].default = steps[i].value[2]
      BY <1>3, <3>2, <3>3, <3>4 DEF SendsByDefault
    <3>6. QED
      BY <3>5, ByDefaultRefers
  <2>2. Generated[i].expects = ByDefault(steps[i].expects)
    BY <2>1, GeneratedIs
  <2>3. QED
    BY <1>3, <2>2, GeneratedIs
<1>4. \A i \in DOMAIN steps : Generated[i].kind = steps[i].kind
  BY GeneratedIs
<1>5. QED
  BY <1>1, <1>2, <1>3, <1>4, MappedConsistent

LEMMA ResolvedByDefault ==
    ASSUME Fitting, NEW x, NEW given
    PROVE  Resolved(ByDefault(x), given) = Resolved(x, given)
<1>1. CASE ByDefault(x) = x
  BY <1>1
<1>2. ASSUME NEW j \in DOMAIN params, ByDefault(x) = Ref(params[j].key)
      PROVE  Resolved(ByDefault(x), given) = Resolved(x, given)
  <2>1. params[j].key \in KeysOf(params)
    BY DEF KeysOf
  <2>2. ByDefault(x)[1] = "ref" /\ ByDefault(x)[2] = params[j].key
    BY <1>2 DEF Ref
  <2>3. Resolved(x, given) = Text(ValueFor(params[j].key, given))
    BY <2>1, <2>2 DEF Resolved
  <2>4. QED
    BY <1>2, <2>3, ResolvedRef
<1>3. QED
  BY <1>1, <1>2, ByDefaultRefers

\* Where the values are put in, what was left in the template is found by its default.
LEMMA SubstitutedConsistent ==
    ASSUME Fitting, Distinct, Trimmed, Consistent(steps), NEW given
    PROVE  Consistent(Substituted(Generated, given))
<1> DEFINE ss == Substituted(Generated, given)
<1>1. DOMAIN steps = 1..Len(steps) /\ Len(steps) \in Nat
  BY FittingFacts
<1>2. DOMAIN ss = DOMAIN steps
  BY SubstitutedRefers
<1>3. \A i \in DOMAIN steps :
          /\ ss[i].kind = steps[i].kind
          /\ ss[i].value = Resolved(Generated[i].value, given)
          /\ ss[i].expects = Resolved(Generated[i].expects, given)
  BY SubstitutedRefers
<1> HIDE DEF ss
<1>4. ASSUME NEW i \in DOMAIN steps
      PROVE  /\ ss[i].value = Resolved(steps[i].value, given)
             /\ ss[i].expects = Resolved(steps[i].expects, given)
  <2>1. /\ Generated[i].value = ByDefault(steps[i].value)
        /\ Generated[i].expects \in {steps[i].expects, ByDefault(steps[i].expects)}
    BY GeneratedIs
  <2>2. QED
    BY <1>3, <2>1, ResolvedByDefault
<1>5. \A i, j \in DOMAIN steps :
          steps[i].expects = steps[j].value => ss[i].expects = ss[j].value
  BY <1>4
<1>6. Consistent(ss)
  BY <1>1, <1>2, <1>3, <1>5, MappedConsistent
<1>7. QED
  BY <1>6 DEF ss

--------------------------------------------------------------------------------
(* The invariant.                                                          *)

\* Until steps are saved, the parameters are from the stored steps, and the template
\* is gone or was made of both.
PlanInv ==
    /\ TypeOK
    /\ Numbered(steps)
    /\ analyzed => Fits(params, steps, Len(steps)) /\ template \in {<<>>, Generated}
    /\ Faithful /\ GivenIsTyped /\ ExpectsWhatItTypes

\* What a new run r must be for the steps that were analysed.
Repeats(r) ==
    /\ \A i \in DOMAIN r.steps :
           LET s == r.steps[i]
           IN  /\ s.at \in DOMAIN steps /\ s.kind = steps[s.at].kind
               /\ \/ Types(steps[s.at], s.value, r.resolved)
                  \/ r.mode = "goal_driven" /\ r.resolved = <<>>
    /\ r.mode \in {"substituted", "goal_driven"} =>
           \A k \in DOMAIN r.given : \E i \in DOMAIN r.steps :
               /\ r.steps[i].value = Text(r.given[k])
               /\ \E j \in DOMAIN params : params[j].key = k /\ params[j].at = r.steps[i].at
    /\ Consistent(steps) /\ Distinct /\ Trimmed
       /\ ~(r.made /\ r.mode \in {"recorded", "validation_failed"})
       /\ ~(r.mode = "goal_driven" /\ r.resolved = <<>> /\ SendsByDefault)
       => Consistent(r.steps)

LEMMA RepeatingRun ==
    ASSUME analyzed => Repeats(run'), UNCHANGED <<steps, params, analyzed>>
    PROVE  (Faithful /\ GivenIsTyped /\ ExpectsWhatItTypes)'
<1>1. ASSUME NEW k, NEW g PROVE ValueFor(k, g)' = ValueFor(k, g)
  BY DEF ValueFor
<1>2. ASSUME analyzed PROVE Faithful'
  <2> SUFFICES ASSUME NEW i \in DOMAIN run'.steps
               PROVE  /\ run'.steps[i].kind = steps[run'.steps[i].at].kind
                      /\ \/ MayType(steps[run.steps[i].at], run.steps[i].value)'
                         \/ run'.mode = "goal_driven" /\ run'.resolved = <<>>
    BY DEF Faithful
  <2>1. PICK s, o, g : s = run'.steps[i] /\ o = steps[s.at] /\ g = run'.resolved
    OBVIOUS
  <2>2. /\ s.kind = o.kind
        /\ \/ Types(o, s.value, g)
           \/ run'.mode = "goal_driven" /\ g = <<>>
    BY <1>2, <2>1 DEF Repeats
  <2>3. ASSUME Types(o, s.value, g)
        PROVE  MayType(steps[run.steps[i].at], run.steps[i].value)'
    <3>1. \A j \in DOMAIN params : ValueFor(params[j].key, g)' = ValueFor(params[j].key, g)
      <4> SUFFICES ASSUME NEW j \in DOMAIN params
                   PROVE  ValueFor(params[j].key, g)' = ValueFor(params[j].key, g)
        OBVIOUS
      <4>1. PICK k : k = params[j].key
        OBVIOUS
      <4>2. ValueFor(k, g)' = ValueFor(k, g)
        BY <1>1
      <4>3. QED
        BY <4>1, <4>2
    <3>2. QED
      BY <2>1, <2>3, <3>1 DEF MayType, Types
  <2>4. QED
    BY <2>1, <2>2, <2>3
<1>3. ASSUME analyzed PROVE GivenIsTyped'
  BY <1>3 DEF GivenIsTyped, Repeats
<1>4. ASSUME analyzed PROVE ExpectsWhatItTypes'
  BY <1>4 DEF ExpectsWhatItTypes, SendsByDefault, Repeats, Distinct, Trimmed
<1>5. ~analyzed => (Faithful /\ GivenIsTyped /\ ExpectsWhatItTypes)'
  BY DEF Faithful, GivenIsTyped, ExpectsWhatItTypes
<1>6. QED
  BY <1>2, <1>3, <1>4, <1>5

\* A run of nothing, and the state after a save.
LEMMA NothingRuns ==
    ASSUME run' = NoRun
    PROVE  (Faithful /\ GivenIsTyped /\ ExpectsWhatItTypes)'
<1>0. run'.steps = <<>> /\ run'.mode = "none"
  BY DEF NoRun
<1>1. DOMAIN run'.steps = {} /\ run'.mode = "none"
  <2>1. DOMAIN <<>> = {}
    OBVIOUS
  <2>2. QED
    BY <1>0, <2>1, Zenon
<1>2. Consistent(run'.steps)
  BY <1>1 DEF Consistent
<1>3. QED
  BY <1>1, <1>2 DEF Faithful, GivenIsTyped, ExpectsWhatItTypes

LEMMA PlacedText ==
    ASSUME NEW x \in Texts, NEW given
    PROVE  Placed(x, given) = x
BY TextsAreTexts DEF Placed

\* A snapshot types what was recorded.
LEMMA SnapshotRepeats ==
    ASSUME Numbered(steps), NEW made, NEW given
    PROVE  LET ss == Snapshot(made, given)
           IN  /\ DOMAIN ss = DOMAIN steps
               /\ \A i \in DOMAIN steps :
                      /\ ss[i].at = i /\ ss[i].kind = steps[i].kind /\ ss[i].value = steps[i].value
                      /\ ~made => ss[i].expects = steps[i].expects
               /\ ~made /\ Consistent(steps) => Consistent(ss)
<1> DEFINE ss == Snapshot(made, given)
           e(i) == Placed(IF made THEN Generated[i].expects ELSE steps[i].expects, given)
<1>1. DOMAIN ss = DOMAIN steps /\ DOMAIN steps = 1..Len(steps) /\ Len(steps) \in Nat
  BY DEF Snapshot, Numbered
<1>2. ASSUME NEW i \in DOMAIN steps
      PROVE  /\ ss[i].at = i /\ ss[i].kind = steps[i].kind /\ ss[i].value = steps[i].value
             /\ ~made => ss[i].expects = steps[i].expects
  <2> DEFINE s == steps[i]
  <2>1. s \in Step /\ s.at = i /\ IsRow(s)
    BY StepIsRow DEF Numbered
  <2>2. s.value \in Texts /\ s.expects \in Texts /\ DOMAIN s = {"at", "kind", "value", "expects"}
    BY <2>1 DEF Step
  <2>3. ss[i] = With(s, Placed(s.value, given), e(i))
    BY <2>2 DEF With, Snapshot
  <2>4. ~made => e(i) = s.expects
    BY <2>2, PlacedText
  <2>5. Placed(s.value, given) = s.value
    BY <2>2, PlacedText
  <2> HIDE DEF e, ss, s
  <2>6. QED
    BY <2>1, <2>3, <2>4, <2>5, WithIsRow DEF s
<1> HIDE DEF ss
<1>3. ~made /\ Consistent(steps) => Consistent(ss)
  BY <1>1, <1>2, MappedConsistent
<1>4. QED
  BY <1>1, <1>2, <1>3 DEF ss

\* A run of the template types what it was given for the parameters.
LEMMA TemplateRunRepeats ==
    ASSUME Fitting, NEW r, NEW S, NEW ss \in Seq(S), r.steps \in Seq(S), Shortens(r.steps, ss),
           r.mode \in {"substituted", "goal_driven"},
           \/ ss = Substituted(Generated, r.resolved)
           \/ ss = Generated /\ r.mode = "goal_driven" /\ r.resolved = <<>>,
           \A k \in DOMAIN r.given : /\ k \in KeysOf(params) /\ k \in DOMAIN r.resolved
                                     /\ r.resolved[k] = r.given[k]
    PROVE  Repeats(r)
<1> DEFINE p == r.steps
           g == r.resolved
<1>1. /\ DOMAIN ss = DOMAIN steps
      /\ \A i \in DOMAIN steps :
             /\ ss[i].at = i /\ ss[i].kind = steps[i].kind
             /\ \/ Types(steps[i], ss[i].value, g)
                \/ r.mode = "goal_driven" /\ g = <<>>
  <2>1. CASE ss = Substituted(Generated, g)
    BY <2>1, SubstitutedRefers
  <2>2. CASE ss = Generated /\ r.mode = "goal_driven" /\ g = <<>>
    BY <2>2, GeneratedRefers
  <2>3. QED
    BY <2>1, <2>2
<1>2. PICK h \in [1..Len(p) -> 1..Len(ss)] :
          /\ \A k \in 1..Len(p) : p[k] = ss[h[k]]
          /\ \A k, l \in 1..Len(p) : k < l => h[k] < h[l]
          /\ \A i \in 1..Len(ss) : ss[i].kind # "scroll" => \E k \in 1..Len(p) : h[k] = i
  BY Zenon DEF Shortens
<1>3. /\ DOMAIN p = 1..Len(p) /\ DOMAIN ss = 1..Len(ss)
      /\ \A k \in 1..Len(p) : h[k] \in 1..Len(ss)
  <2>1. p \in Seq(S)
    OBVIOUS
  <2> HIDE DEF p
  <2>2. DOMAIN p = 1..Len(p)
    BY <2>1
  <2>3. DOMAIN ss = 1..Len(ss)
    OBVIOUS
  <2>4. \A k \in 1..Len(p) : h[k] \in 1..Len(ss)
    OBVIOUS
  <2>5. QED
    BY <2>2, <2>3, <2>4
<1>4. \A i \in DOMAIN p :
          LET s == p[i]
          IN  /\ s.at \in DOMAIN steps /\ s.kind = steps[s.at].kind
              /\ \/ Types(steps[s.at], s.value, g)
                 \/ r.mode = "goal_driven" /\ g = <<>>
  <2> SUFFICES ASSUME NEW i \in DOMAIN p
               PROVE  /\ p[i].at \in DOMAIN steps /\ p[i].kind = steps[p[i].at].kind
                      /\ \/ Types(steps[p[i].at], p[i].value, g)
                         \/ r.mode = "goal_driven" /\ g = <<>>
    OBVIOUS
  <2>1. p[i] = ss[h[i]] /\ h[i] \in DOMAIN steps
    BY <1>1, <1>2, <1>3
  <2>2. p[i].at = h[i]
    BY <1>1, <2>1
  <2> HIDE DEF p, g
  <2>3. QED
    BY <1>1, <2>1, <2>2
<1>5. ASSUME NEW k \in DOMAIN r.given
      PROVE  \E i \in DOMAIN p :
                 /\ p[i].value = Text(r.given[k])
                 /\ \E j \in DOMAIN params : params[j].key = k /\ params[j].at = p[i].at
  <2>1. PICK j \in DOMAIN params : params[j].key = k
    BY Zenon DEF KeysOf
  <2> DEFINE i == params[j].at
  <2>2. i \in DOMAIN steps /\ steps[i].kind \in Typing
    BY FittingFacts
  <2>3. g # <<>>
    <3>1. DOMAIN <<>> = {}
      OBVIOUS
    <3>2. QED
      BY <3>1
  <2>4. ss = Substituted(Generated, g)
    BY <2>3
  <2>5. ss[i].value = Text(ValueFor(k, g))
    BY <2>1, <2>2, <2>4, SubstitutedRefers
  <2>6. ValueFor(k, g) = r.given[k]
    BY DEF ValueFor
  <2>7. ss[i].kind # "scroll" /\ i \in 1..Len(ss) /\ ss[i].at = i
    BY <1>1, <1>3, <2>2 DEF Typing
  <2> HIDE DEF i, p, g
  <2>8. PICK n \in 1..Len(p) : h[n] = i
    BY <1>2, <2>7
  <2>9. p[n] = ss[i] /\ n \in DOMAIN p
    BY <1>2, <1>3, <2>8
  <2>10. QED
    BY <2>1, <2>5, <2>6, <2>7, <2>9 DEF i
<1>6. ASSUME Consistent(steps), Distinct, Trimmed,
             ~(r.mode = "goal_driven" /\ g = <<>> /\ SendsByDefault)
      PROVE  Consistent(p)
  <2>1. ASSUME ss = Substituted(Generated, g) PROVE Consistent(ss)
    BY <1>6, <2>1, SubstitutedConsistent
  <2>2. ASSUME ss = Generated, r.mode = "goal_driven", g = <<>> PROVE Consistent(ss)
    BY <1>6, <2>2, TemplateConsistent
  <2>3. Consistent(ss)
    BY <2>1, <2>2
  <2>4. QED
    BY <2>3, ShortensConsistent
<1> HIDE DEF p, g
<1>7. QED
  BY <1>4, <1>5, <1>6 DEF Repeats, p, g

\* One without a plan of steps repeats the stored steps.
LEMMA SnapshotRunRepeats ==
    ASSUME Fitting, NEW r, NEW made, NEW given,
           r.steps = Snapshot(made, given), made => r.made,
           r.mode \in {"recorded", "validation_failed"}
    PROVE  Repeats(r)
<1> DEFINE p == r.steps
<1>1. /\ DOMAIN p = DOMAIN steps
      /\ \A i \in DOMAIN steps :
             p[i].at = i /\ p[i].kind = steps[i].kind /\ p[i].value = steps[i].value
  BY SnapshotRepeats DEF Fitting
<1>2. \A i \in DOMAIN steps : Types(steps[i], p[i].value, r.resolved)
  BY <1>1 DEF Types
<1>3. ~made /\ Consistent(steps) => Consistent(p)
  BY SnapshotRepeats DEF Fitting
<1>4. r.mode \notin {"substituted", "goal_driven"}
  OBVIOUS
<1> HIDE DEF p
<1>5. QED
  BY <1>1, <1>2, <1>3, <1>4 DEF Repeats, p

LEMMA CompletedKeeps ==
    ASSUME NEW given, NEW offers
    PROVE  \A k \in DOMAIN given :
               k \in DOMAIN Completed(given, offers) /\ Completed(given, offers)[k] = given[k]
BY DEF Completed

LEMMA RunWithRepeats ==
    ASSUME Fitting, template \in {<<>>, Generated},
           NEW given, DOMAIN given \subseteq KeysOf(params),
           NEW goal, NEW offers, RunWith(given, goal, offers)
    PROVE  template' = Generated /\ (run' = run \/ Repeats(run'))
<1> DEFINE made == template = <<>>
           g == Completed(given, offers)
           mode == Mode(g, goal)
           asked == IF goal = "" THEN prompt ELSE goal
           data == IF made THEN Generated ELSE template
           ps == IF mode \in {"substituted", "goal_driven"}
                 THEN PlanSteps(mode, data, g, goal) ELSE Snapshot(made, given)
           r == [mode |-> mode, given |-> given, resolved |-> g, goal |-> goal, made |-> made,
                 steps |-> ps]
<1>1. data = Generated
  OBVIOUS
<1>2. template' = data /\ run' = IF mode = "confirmation_required" THEN run ELSE r
  BY Zenon DEF RunWith
<1>3. mode \in {"confirmation_required", "substituted", "validation_failed", "goal_driven",
               "recorded"}
  BY DEF Mode
<1>4. /\ r.mode = mode /\ r.given = given /\ r.resolved = g /\ r.made = made /\ r.steps = ps
  OBVIOUS
<1>5. \A k \in DOMAIN given : k \in KeysOf(params) /\ k \in DOMAIN g /\ g[k] = given[k]
  BY CompletedKeeps
<1>6. PICK S : Generated \in Seq(S)
  BY GeneratedRefers
<1>7. PICK T : Substituted(Generated, g) \in Seq(T)
  BY SubstitutedRefers
<1>8. ASSUME mode = "substituted" PROVE Repeats(r)
  <2>1. ps = Substituted(Generated, g)
    BY <1>1, <1>8 DEF PlanSteps
  <2> HIDE DEF ps, mode, g, r, made, data
  <2>2. ps \in Seq(T) /\ Shortens(ps, ps)
    BY <1>7, <2>1, SameShortens
  <2>3. QED
    BY <1>4, <1>5, <1>8, <2>1, <2>2, TemplateRunRepeats
<1>9. ASSUME mode = "goal_driven" PROVE Repeats(r)
  <2> DEFINE ss == IF g = <<>> THEN Generated ELSE Substituted(Generated, g)
  <2>1. ps = Compacted(ss, asked)
    BY <1>1, <1>9 DEF PlanSteps
  <2>2. \E U : ss \in Seq(U)
    BY <1>6, <1>7
  <2>3. \/ ss = Substituted(Generated, g)
        \/ ss = Generated /\ g = <<>>
    OBVIOUS
  <2> HIDE DEF ps, mode, g, r, made, data, ss, asked
  <2>4. PICK U : ss \in Seq(U)
    BY <2>2
  <2>5. ps \in Seq(U) /\ Shortens(ps, ss)
    BY <2>1, <2>4, CompactedShortens
  <2>6. QED
    BY <1>4, <1>5, <1>9, <2>3, <2>4, <2>5, TemplateRunRepeats
<1>10. ASSUME mode \in {"recorded", "validation_failed"} PROVE Repeats(r)
  <2>1. ps = Snapshot(made, given)
    BY <1>10
  <2> HIDE DEF ps, mode, g, r, made, data
  <2>2. QED
    BY <1>4, <1>10, <2>1, SnapshotRunRepeats
<1> HIDE DEF mode, r, data
<1>11. QED
  BY <1>1, <1>2, <1>3, <1>8, <1>9, <1>10

LEMMA AnalysisKeeps ==
    ASSUME PlanInv, NEW ss, Numbered(ss), Analysis(ss), steps' = ss, saves' = saves
    PROVE  PlanInv'
<1>1. /\ params' = Parameters(ss) /\ strategy' = Strategy(ss, Parameters(ss))
      /\ template' = <<>> /\ analyzed' = TRUE /\ run' = NoRun
  BY DEF Analysis
<1>2. Fits(params', steps', Len(steps'))
  BY <1>1, ParametersFit
<1>3. Numbered(steps')
  OBVIOUS
<1>4. \A i, j \in DOMAIN params' :
          params'[i].key = params'[j].key \/ params'[i].at = params'[j].at => i = j
  <2>1. PICK S, ps : ps = params' /\ ps \in Seq(S)
    BY <1>2 DEF Fits
  <2>2. \A i, j \in 1..Len(ps) : ps[i].key = ps[j].key \/ ps[i].at = ps[j].at => i = j
    BY <1>2, <2>1 DEF Fits
  <2>3. DOMAIN ps = 1..Len(ps)
    BY <2>1
  <2>4. QED
    BY <2>1, <2>2, <2>3
<1>5. TypeOK'
  <2>1. strategy' \in {"none", "literal", "parameterized", "semantic"}
    BY <1>1 DEF Strategy
  <2>2. DOMAIN run'.given = {} /\ run'.mode = "none"
    <3>1. run'.given = <<>> /\ run'.mode = "none"
      BY <1>1 DEF NoRun
    <3>2. DOMAIN <<>> = {}
      OBVIOUS
    <3>3. QED
      BY <3>1, <3>2, Zenon
  <2>3. saves' \in 0..MaxSaves
    BY DEF PlanInv, TypeOK
  <2>4. QED
    BY <1>4, <2>1, <2>2, <2>3 DEF TypeOK
<1>6. (Faithful /\ GivenIsTyped /\ ExpectsWhatItTypes)'
  BY <1>1, NothingRuns
<1>7. QED
  BY <1>1, <1>2, <1>3, <1>5, <1>6 DEF PlanInv

LEMMA SaveKeeps ==
    ASSUME PlanInv, Save
    PROVE  PlanInv'
<1>1. Numbered(steps')
  BY SavedIsNumbered DEF PlanInv
<1>2. /\ run' = NoRun /\ analyzed' = FALSE /\ saves' = saves + 1 /\ saves < MaxSaves
      /\ UNCHANGED <<params, strategy>>
  BY DEF Save
<1>3. TypeOK'
  <2>1. DOMAIN run'.given = {} /\ run'.mode = "none"
    <3>1. run'.given = <<>> /\ run'.mode = "none"
      BY <1>2 DEF NoRun
    <3>2. DOMAIN <<>> = {}
      OBVIOUS
    <3>3. QED
      BY <3>1, <3>2, Zenon
  <2>2. saves' \in 0..MaxSaves
    <3>1. saves \in 0..MaxSaves /\ MaxSaves \in Nat
      BY PlanningAssumption DEF PlanInv, TypeOK
    <3>2. QED
      BY <1>2, <3>1
  <2>3. QED
    BY <1>2, <2>1, <2>2 DEF PlanInv, TypeOK
<1>4. (Faithful /\ GivenIsTyped /\ ExpectsWhatItTypes)'
  BY <1>2, NothingRuns
<1>5. QED
  BY <1>1, <1>2, <1>3, <1>4 DEF PlanInv

\* The template of the steps ss and parameters ps.
ByDefaultOf(ps, x) ==
    LET having == {i \in DOMAIN ps : IsText(x) /\ ps[i].default = x[2]}
    IN  IF having = {} THEN x
        ELSE Ref(ps[CHOOSE i \in having : \A j \in having : j <= i].key)

TemplateOf(ss, ps) ==
    [n \in DOMAIN ss |->
        LET s == ss[n]
            own == {i \in DOMAIN ps : ps[i].at = s.at}
            mine == Ref(ps[CHOOSE i \in own : \A j \in own : i <= j].key)
        IN  IF own # {}
            THEN [s EXCEPT !.value = mine,
                           !.expects = IF @ = s.value THEN mine ELSE ByDefaultOf(ps, @)]
            ELSE [s EXCEPT !.value = ByDefaultOf(ps, @),
                           !.expects = IF ByDefaultOf(ps, s.value) # s.value /\ @ # s.value
                                       THEN @ ELSE ByDefaultOf(ps, @)]]

LEMMA SameTemplate ==
    ASSUME UNCHANGED <<steps, params>>
    PROVE  Generated' = Generated
<1>1. Generated = TemplateOf(steps, params)
  BY DEF Generated, TemplateStep, TemplateOf, ByDefault, ByDefaultOf
<1>2. Generated' = TemplateOf(steps', params')
  BY DEF Generated, TemplateStep, TemplateOf, ByDefault, ByDefaultOf
<1>3. QED
  BY <1>1, <1>2

\* What a run leaves alone, and what it must be.
LEMMA RunKeeps ==
    ASSUME PlanInv, UNCHANGED <<steps, params, strategy, analyzed, saves>>,
           analyzed => template' \in {template, Generated},
           analyzed => Repeats(run'),
           \A k \in DOMAIN run'.given : run'.resolved[k] = run'.given[k],
           run'.mode \in {"recorded", "substituted", "validation_failed", "goal_driven"}
    PROVE  PlanInv'
<1>1. (Faithful /\ GivenIsTyped /\ ExpectsWhatItTypes)'
  BY RepeatingRun
<1>2. Generated' = Generated
  BY SameTemplate
<1>3. TypeOK'
  BY DEF PlanInv, TypeOK
<1>4. (analyzed => Fits(params, steps, Len(steps)) /\ template \in {<<>>, Generated})'
  BY <1>2 DEF PlanInv
<1>5. Numbered(steps)'
  BY DEF PlanInv
<1>6. QED
  BY <1>1, <1>3, <1>4, <1>5 DEF PlanInv

\* A step that changes nothing that the invariant is about, the template aside.
LEMMA OthersKeep ==
    ASSUME PlanInv, UNCHANGED <<steps, params, strategy, run, analyzed, saves>>,
           analyzed => template' \in {template, Generated}
    PROVE  PlanInv'
<1>1. Generated' = Generated
  BY SameTemplate
<1>2. TypeOK'
  BY DEF PlanInv, TypeOK
<1>3. (analyzed => Fits(params, steps, Len(steps)) /\ template \in {<<>>, Generated})'
  BY <1>1 DEF PlanInv
<1>4. Numbered(steps)'
  BY DEF PlanInv
<1>5. Faithful'
  BY DEF PlanInv, Faithful, MayType, ValueFor
<1>6. GivenIsTyped'
  BY DEF PlanInv, GivenIsTyped
<1>7. ExpectsWhatItTypes'
  BY DEF PlanInv, ExpectsWhatItTypes, SendsByDefault
<1>8. QED
  BY <1>2, <1>3, <1>4, <1>5, <1>6, <1>7 DEF PlanInv

LEMMA RunWithKeeps ==
    ASSUME PlanInv, NEW keys \in SUBSET KeysOf(params), NEW given \in [keys -> Given],
           NEW goal, NEW offers, RunWith(given, goal, offers)
    PROVE  PlanInv'
<1>1. UNCHANGED <<steps, params, strategy, analyzed, saves>>
  BY DEF RunWith
<1>2. ASSUME analyzed
      PROVE  template' = Generated /\ (run' = run \/ Repeats(run'))
  <2>1. Fitting /\ template \in {<<>>, Generated}
    BY <1>2 DEF PlanInv, Fitting
  <2>2. DOMAIN given \subseteq KeysOf(params)
    OBVIOUS
  <2>3. QED
    BY <2>1, <2>2, RunWithRepeats
<1>3. CASE run' = run
  BY <1>1, <1>2, <1>3, OthersKeep
<1>4. CASE run' # run
  <2> DEFINE made == template = <<>>
             g == Completed(given, offers)
             mode == Mode(g, goal)
             data == IF made THEN Generated ELSE template
             ps == IF mode \in {"substituted", "goal_driven"}
                   THEN PlanSteps(mode, data, g, goal) ELSE Snapshot(made, given)
             r == [mode |-> mode, given |-> given, resolved |-> g, goal |-> goal, made |-> made,
                   steps |-> ps]
  <2>1. run' = IF mode = "confirmation_required" THEN run ELSE r
    BY Zenon DEF RunWith
  <2>2. mode \in {"confirmation_required", "substituted", "validation_failed", "goal_driven",
                  "recorded"}
    BY DEF Mode
  <2>3. r.mode = mode /\ r.given = given /\ r.resolved = g
    OBVIOUS
  <2>4. \A k \in DOMAIN given : g[k] = given[k]
    BY CompletedKeeps
  <2> HIDE DEF g, mode, r
  <2>5. mode # "confirmation_required" /\ run' = r
    BY <1>4, <2>1
  <2>6. analyzed => Repeats(run')
    BY <1>2, <1>4
  <2>7. \A k \in DOMAIN run'.given : run'.resolved[k] = run'.given[k]
    BY <2>3, <2>4, <2>5
  <2>8. run'.mode \in {"recorded", "substituted", "validation_failed", "goal_driven"}
    BY <2>2, <2>3, <2>5
  <2>9. QED
    BY <1>1, <1>2, <2>6, <2>7, <2>8, RunKeeps
<1>5. QED
  BY <1>3, <1>4

LEMMA StoredRunKeeps ==
    ASSUME PlanInv, Run
    PROVE  PlanInv'
<1> DEFINE ps == Snapshot(FALSE, <<>>)
<1>1. /\ run' = [NoRun EXCEPT !.mode = "recorded", !.steps = ps]
      /\ UNCHANGED <<steps, params, strategy, template, analyzed, saves>>
  BY DEF Run
<1> HIDE DEF ps
<1>2. run'.mode = "recorded" /\ run'.steps = ps /\ run'.given = <<>>
  BY <1>1 DEF NoRun
<1>3. DOMAIN <<>> = {}
  OBVIOUS
<1>4. \A k \in DOMAIN run'.given : run'.resolved[k] = run'.given[k]
  BY <1>2, <1>3
<1>5. ASSUME analyzed PROVE Repeats(run')
  <2>1. Fitting
    BY <1>5 DEF PlanInv, Fitting
  <2>2. PICK r : r = run'
    OBVIOUS
  <2>3. r.steps = Snapshot(FALSE, <<>>) /\ r.mode = "recorded"
    BY <1>2, <2>2 DEF ps
  <2>4. Repeats(r)
    BY <2>1, <2>3, SnapshotRunRepeats
  <2>5. QED
    BY <2>2, <2>4
<1>6. QED
  BY <1>1, <1>2, <1>4, <1>5, RunKeeps

LEMMA PlanInvStep ==
    ASSUME PlanInv, [Next]_vars
    PROVE  PlanInv'
<1>1. ASSUME Record PROVE PlanInv'
  <2>1. PICK events \in Recordings : /\ steps' = Recorded(Deduped(events))
                                     /\ Analysis(Recorded(Deduped(events)))
    BY <1>1 DEF Record
  <2>2. saves' = saves
    BY <1>1 DEF Record
  <2>3. QED
    BY <2>1, <2>2, RecordedIsNumbered, AnalysisKeeps
<1>2. ASSUME Analyze PROVE PlanInv'
  <2>1. PICK ss : ss = steps
    OBVIOUS
  <2>2. Analysis(ss) /\ steps' = ss /\ saves' = saves
    BY <1>2, <2>1 DEF Analyze
  <2>3. Numbered(ss)
    BY <2>1 DEF PlanInv
  <2>4. QED
    BY <2>2, <2>3, AnalysisKeeps
<1>3. ASSUME Save PROVE PlanInv'
  BY <1>3, SaveKeeps
<1>4. ASSUME Run PROVE PlanInv'
  BY <1>4, StoredRunKeeps
<1>5. ASSUME NEW key, Bind(key) PROVE PlanInv'
  <2>1. UNCHANGED <<steps, params, strategy, template, run, analyzed, saves>>
    BY <1>5 DEF Bind
  <2>2. QED
    BY <2>1, OthersKeep
<1>6. ASSUME NEW keys \in SUBSET KeysOf(params), NEW given \in [keys -> Given],
             NEW goal, NEW offers, RunWith(given, goal, offers)
      PROVE  PlanInv'
  BY <1>6, RunWithKeeps
<1>7. ASSUME UNCHANGED vars PROVE PlanInv'
  BY <1>7, OthersKeep DEF vars
<1>8. QED
  BY <1>1, <1>2, <1>3, <1>4, <1>5, <1>6, <1>7 DEF Next

LEMMA PlanInvInit ==
    ASSUME Init
    PROVE  PlanInv
<1>1. /\ steps = <<>> /\ params = <<>> /\ strategy = "none" /\ run = NoRun
      /\ analyzed = FALSE /\ saves = 0
  BY DEF Init
<1>2. Numbered(steps)
  BY <1>1 DEF Numbered
<1>3. TypeOK
  <2>1. run.given = <<>> /\ run.mode = "none"
    BY <1>1 DEF NoRun
  <2>2. DOMAIN <<>> = {}
    OBVIOUS
  <2>3. saves \in 0..MaxSaves
    <3>1. MaxSaves \in Nat
      BY PlanningAssumption
    <3>2. QED
      BY <1>1, <3>1
  <2>4. QED
    BY <1>1, <2>1, <2>2, <2>3 DEF TypeOK
<1>4. Faithful /\ GivenIsTyped /\ ExpectsWhatItTypes
  BY <1>1 DEF Faithful, GivenIsTyped, ExpectsWhatItTypes
<1>5. QED
  BY <1>1, <1>2, <1>3, <1>4 DEF PlanInv

\* The invariant holds in every state of every behaviour.
THEOREM PlanningInvariant == Spec => []PlanInv
<1>1. Init => PlanInv
  BY PlanInvInit
<1>2. PlanInv /\ [Next]_vars => PlanInv'
  BY PlanInvStep
<1>3. QED
  BY <1>1, <1>2, PTL DEF Spec

\* A run that follows an analysis with no save in between repeats the recording: every
\* step of it types what was recorded there, or what the run was given or a connector
\* filled in for the parameter with just that default (execution_plan.py and
\* template_generator.py), for all values, trimmings and patterns, and recordings of
\* every length.
THEOREM RunsAreFaithful == Spec => []Faithful
<1>1. PlanInv => Faithful
  BY DEF PlanInv
<1>2. QED
  BY <1>1, PlanningInvariant, PTL

\* What a run was given for a parameter is typed at the step the parameter is from, in
\* every mode that takes its steps from the template.
THEOREM GivenValuesAreTyped == Spec => []GivenIsTyped
<1>1. PlanInv => GivenIsTyped
  BY DEF PlanInv
<1>2. QED
  BY <1>1, PlanningInvariant, PTL

\* A run expects to find what it types, if the recording did: the template replaces
\* a value and what is expected of it together.
THEOREM ExpectationsFollowValues == Spec => []ExpectsWhatItTypes
<1>1. PlanInv => ExpectsWhatItTypes
  BY DEF PlanInv
<1>2. QED
  BY <1>1, PlanningInvariant, PTL

\* Every variable has its type, no two parameters share a key or a step, and a run never
\* loses what it was given among what it resolves.
THEOREM PlanningTypes == Spec => []TypeOK
<1>1. PlanInv => TypeOK
  BY DEF PlanInv
<1>2. QED
  BY <1>1, PlanningInvariant, PTL
================================================================================
