------------------------- MODULE Firmware_proofs -------------------------
(***************************************************************************)
(* Proofs about two parts that share nothing: the path of flux through     *)
(* sequencer and sampler (FluxPath), for every track, every phase of the   *)
(* two clocks and every span of the counter, and through a GreaseWeazle,   *)
(* for every stream and every ratio of the clocks; and the drives (Drive), *)
(* for every size of a disk, every limit on seeks and every number of      *)
(* steps home() tries that reaches track 0.                                *)
(***************************************************************************)
EXTENDS FluxPath, Drive, FiniteSetTheorems, SequenceTheorems, NaturalsInduction,
        WellFoundedInduction, TLAPS

-----------------------------------------------------------------------------
(* Recursion.                                                                *)

LEMMA LeastOf ==
    ASSUME NEW S \in SUBSET Nat, S # {}
    PROVE  \E m \in S : \A n \in S : m <= n
<1>1. PICK m \in S : \A n \in S : ~ (<<n, m>> \in OpToRel(<, Nat))
  BY NatLessThanWellFounded, WFMin
<1>2. ASSUME NEW n \in S PROVE m <= n
  <2>1. ~ (n < m)
    BY <1>1 DEF OpToRel
  <2> QED  BY <2>1
<1> QED  BY <1>2

\* Induction, over a set of numbers.
LEMMA AllOf ==
    ASSUME NEW N \in Nat, NEW T, 0 \in T,
           \A i \in 1 .. N : i - 1 \in T => i \in T
    PROVE  \A i \in 0 .. N : i \in T
<1> DEFINE B == {i \in 0 .. N : i \notin T}
<1>1. ASSUME B # {} PROVE FALSE
  <2>1. B \in SUBSET Nat
    OBVIOUS
  <2>2. PICK m \in B : \A n \in B : m <= n
    <3> HIDE DEF B
    <3> QED  BY <1>1, <2>1, LeastOf
  <2>3. m \in 1 .. N /\ m - 1 \in 0 .. N
    OBVIOUS
  <2>4. m - 1 \in T
    BY <2>2, <2>3
  <2> QED  BY <2>3, <2>4
<1> QED  BY <1>1

\* A value for each number, made of the one before.
Follows(f, s0, g, N) == f[0] = s0 /\ \A i \in 1 .. N : f[i] = g[i][f[i - 1]]

LEMMA Iterated ==
    ASSUME NEW S, NEW N \in Nat, NEW s0 \in S, NEW g \in [1 .. N -> [S -> S]]
    PROVE  \E f \in [0 .. N -> S] : Follows(f, s0, g, N)
<1> DEFINE Made(n, f) == f[0] = s0 /\ \A i \in 1 .. n : f[i] = g[i][f[i - 1]]
           T == {n \in 0 .. N : \E f \in [0 .. n -> S] : Made(n, f)}
<1>1. 0 \in T
  <2> DEFINE f == [i \in 0 .. 0 |-> s0]
  <2>1. f \in [0 .. 0 -> S] /\ Made(0, f)
    OBVIOUS
  <2> HIDE DEF f, Made
  <2> QED  BY <2>1
<1>2. ASSUME NEW n \in 1 .. N, n - 1 \in T PROVE n \in T
  <2>1. PICK h \in [0 .. n - 1 -> S] : Made(n - 1, h)
    BY <1>2
  <2> DEFINE f == [i \in 0 .. n |-> IF i = n THEN g[n][h[n - 1]] ELSE h[i]]
  <2>2. h[n - 1] \in S /\ g[n] \in [S -> S]
    OBVIOUS
  <2>3. g[n][h[n - 1]] \in S
    BY <2>2
  <2>4. f \in [0 .. n -> S]
    BY <2>3
  <2>5. f[0] = s0
    BY <2>1
  <2>6. ASSUME NEW i \in 1 .. n PROVE f[i] = g[i][f[i - 1]]
    <3>1. f[i - 1] = h[i - 1]
      OBVIOUS
    <3>2. CASE i = n  BY <3>1, <3>2
    <3>3. CASE i # n
      <4>1. i \in 1 .. n - 1
        BY <3>3
      <4>2. h[i] = g[i][h[i - 1]] /\ f[i] = h[i]
        BY <2>1, <3>3, <4>1
      <4> QED  BY <3>1, <4>2
    <3> QED  BY <3>2, <3>3
  <2>7. Made(n, f)
    BY <2>5, <2>6
  <2> HIDE DEF f, Made
  <2> QED  BY <2>4, <2>7
<1>3. N \in T
  <2> HIDE DEF T
  <2>1. \A n \in 0 .. N : n \in T
    BY <1>1, <1>2, AllOf
  <2> QED  BY <2>1
<1> QED  BY <1>3 DEF Follows

-----------------------------------------------------------------------------
(* Opcodes.                                                                  *)

Opcodes == [ticks : Nat, pulse : BOOLEAN, index : BOOLEAN]

LEMMA ElapsedIs ==
    ASSUME NEW m \in Seq(Opcodes)
    PROVE  /\ Elapsed(m) \in [0 .. Len(m) -> Nat]
           /\ Elapsed(m)[0] = 0
           /\ \A i \in 1 .. Len(m) : Elapsed(m)[i] = Elapsed(m)[i - 1] + m[i].ticks
<1> DEFINE N == Len(m)
           F(f) == f = [i \in 0 .. N |-> IF i = 0 THEN 0 ELSE f[i - 1] + m[i].ticks]
           g == [i \in 1 .. N |-> [x \in Nat |-> x + m[i].ticks]]
<1>0. N \in Nat /\ 0 \in Nat /\ \A i \in 1 .. N : m[i].ticks \in Nat
  <2>1. \A i \in 1 .. N : m[i] \in Opcodes
    OBVIOUS
  <2> QED  BY <2>1 DEF Opcodes
<1>1. g \in [1 .. N -> [Nat -> Nat]]
  BY <1>0
<1>2. PICK f \in [0 .. N -> Nat] : f[0] = 0 /\ \A i \in 1 .. N : f[i] = g[i][f[i - 1]]
  <2>1. \E f \in [0 .. N -> Nat] : Follows(f, 0, g, N)
    <3> HIDE DEF g, N
    <3> QED  BY <1>0, <1>1, Iterated
  <2> QED  BY <2>1 DEF Follows
<1>3. ASSUME NEW i \in 1 .. N PROVE f[i] = f[i - 1] + m[i].ticks
  <2>1. f[i - 1] \in Nat
    <3>1. i - 1 \in 0 .. N
      BY <1>0
    <3> HIDE DEF g, N
    <3> QED  BY <1>2, <3>1
  <2>2. f[i] = g[i][f[i - 1]]
    <3> HIDE DEF g, N
    <3> QED  BY <1>2
  <2> QED  BY <2>1, <2>2
<1>4. F(f)
  BY <1>2, <1>3
<1>5. F(Elapsed(m))
  <2> HIDE DEF g
  <2> QED  BY <1>4 DEF Elapsed
<1> DEFINE e == Elapsed(m)
           T == {i \in 0 .. N : e[i] = f[i]}
<1>6. e[0] = 0 /\ \A i \in 1 .. N : e[i] = e[i - 1] + m[i].ticks
  <2> HIDE DEF e
  <2>1. F(e)  BY <1>5 DEF e
  <2>2. \A i \in 0 .. N : e[i] = IF i = 0 THEN 0 ELSE e[i - 1] + m[i].ticks
    BY <2>1
  <2> QED  BY <1>0, <2>2
<1>7. \A i \in 0 .. N : i \in T
  <2>1. 0 \in T  BY <1>2, <1>6
  <2>2. ASSUME NEW i \in 1 .. N, i - 1 \in T PROVE i \in T
    <3> HIDE DEF e
    <3> QED  BY <1>3, <1>6, <2>2
  <2> HIDE DEF T
  <2> QED  BY <1>0, <2>1, <2>2, AllOf
<1>8. e \in [0 .. N -> Nat]
  <2>1. DOMAIN e = 0 .. N /\ e = [i \in 0 .. N |-> e[i]]
    <3> HIDE DEF e
    <3>1. F(e)  BY <1>5 DEF e
    <3> QED  BY <3>1
  <2>2. \A i \in 0 .. N : e[i] \in Nat
    BY <1>7
  <2> HIDE DEF e
  <2> QED  BY <2>1, <2>2
<1> QED  BY <1>6, <1>8

\* The ticks up to an opcode are those of the ones before.
LEMMA ElapsedSame ==
    ASSUME NEW m \in Seq(Opcodes), NEW other \in Seq(Opcodes),
           NEW n \in 0 .. Len(m), n <= Len(other),
           \A i \in 1 .. n : m[i].ticks = other[i].ticks
    PROVE  \A i \in 0 .. n : Elapsed(m)[i] = Elapsed(other)[i]
<1> DEFINE e == Elapsed(m)
           f == Elapsed(other)
           T == {i \in 0 .. n : e[i] = f[i]}
<1>1. e[0] = 0 /\ \A i \in 1 .. n : e[i] = e[i - 1] + m[i].ticks
  BY ElapsedIs
<1>2. f[0] = 0 /\ \A i \in 1 .. n : f[i] = f[i - 1] + other[i].ticks
  BY ElapsedIs
<1> HIDE DEF e, f
<1>3. 0 \in T  BY <1>1, <1>2
<1>4. ASSUME NEW i \in 1 .. n, i - 1 \in T PROVE i \in T
  BY <1>1, <1>2, <1>4
<1>5. \A i \in 0 .. n : i \in T
  <2>1. n \in Nat  OBVIOUS
  <2> HIDE DEF T
  <2> QED  BY <2>1, <1>3, <1>4, AllOf
<1> QED  BY <1>5 DEF e, f

\* The positions found up to each number.
Finds(f, P, n) ==
    /\ f[0] = <<>>
    /\ \A i \in 1 .. n : f[i] = IF i \in P THEN Append(f[i - 1], i) ELSE f[i - 1]

LEMMA FindsSame ==
    ASSUME NEW P, NEW n \in Nat, NEW f, NEW h, Finds(f, P, n), Finds(h, P, n)
    PROVE  f[n] = h[n]
<1> DEFINE T == {i \in 0 .. n : f[i] = h[i]}
<1>1. 0 \in T  BY DEF Finds
<1>2. ASSUME NEW i \in 1 .. n, i - 1 \in T PROVE i \in T
  BY <1>2 DEF Finds
<1>3. \A i \in 0 .. n : i \in T
  <2> HIDE DEF T
  <2> QED  BY <1>1, <1>2, AllOf
<1> QED  BY <1>3

LEMMA InOrderIs ==
    ASSUME NEW P, NEW n \in Nat
    PROVE  \E f \in [0 .. n -> Seq(Nat)] : Finds(f, P, n) /\ InOrder(P, n) = f[n]
<1> DEFINE F(f) == f = [i \in 0 .. n |-> IF i = 0 THEN <<>>
                            ELSE IF i \in P THEN Append(f[i - 1], i) ELSE f[i - 1]]
           S == Seq(Nat)
           g == [i \in 1 .. n |-> [x \in S |-> IF i \in P THEN Append(x, i) ELSE x]]
           F0 == CHOOSE f : F(f)
<1>1. g \in [1 .. n -> [S -> S]]
  <2>1. ASSUME NEW i \in 1 .. n PROVE [x \in S |-> IF i \in P THEN Append(x, i) ELSE x] \in [S -> S]
    <3>1. \A x \in S : Append(x, i) \in S
      BY AppendProperties
    <3> QED  BY <3>1
  <2> QED  BY <2>1
<1>2. PICK f \in [0 .. n -> S] : Follows(f, <<>>, g, n)
  <2>1. <<>> \in S  OBVIOUS
  <2> HIDE DEF g, S
  <2> QED  BY <1>1, <2>1, Iterated
<1>3. Finds(f, P, n)
  <2>1. ASSUME NEW i \in 1 .. n PROVE f[i] = IF i \in P THEN Append(f[i - 1], i) ELSE f[i - 1]
    <3>1. f[i - 1] \in S  OBVIOUS
    <3>2. g[i][f[i - 1]] = IF i \in P THEN Append(f[i - 1], i) ELSE f[i - 1]
      <4> HIDE DEF S
      <4> QED  BY <3>1
    <3> QED  BY <1>2, <3>2 DEF Follows
  <2> QED  BY <1>2, <2>1 DEF Finds, Follows
<1>4. F(f)
  <2>1. \A i \in 0 .. n : f[i] = IF i = 0 THEN <<>>
                            ELSE IF i \in P THEN Append(f[i - 1], i) ELSE f[i - 1]
    <3>1. f[0] = <<>> /\ \A i \in 1 .. n : f[i] = IF i \in P THEN Append(f[i - 1], i) ELSE f[i - 1]
      BY <1>3 DEF Finds
    <3>2. \A i \in 0 .. n : i = 0 \/ i \in 1 .. n
      OBVIOUS
    <3> QED  BY <3>1, <3>2
  <2> HIDE DEF g, S
  <2> QED  BY <1>2, <2>1
<1>5. F(F0)
  <2> HIDE DEF g
  <2> QED  BY <1>4
<1>6. Finds(F0, P, n)
  <2> HIDE DEF F0
  <2>1. \A i \in 0 .. n : F0[i] = IF i = 0 THEN <<>>
                            ELSE IF i \in P THEN Append(F0[i - 1], i) ELSE F0[i - 1]
    BY <1>5
  <2> QED  BY <2>1 DEF Finds
<1>7. F0[n] = f[n]
  <2> HIDE DEF F0
  <2> QED  BY <1>3, <1>6, FindsSame
<1>8. InOrder(P, n) = F0[n]
  BY DEF InOrder
<1> QED  BY <1>3, <1>7, <1>8

\* The positions up to a number are those up to the one before, and it.
LEMMA InOrderSteps ==
    ASSUME NEW P
    PROVE  /\ InOrder(P, 0) = <<>>
           /\ \A n \in Nat : InOrder(P, n) \in Seq(Nat)
           /\ \A n \in Nat \ {0} :
                  InOrder(P, n) = IF n \in P THEN Append(InOrder(P, n - 1), n)
                                  ELSE InOrder(P, n - 1)
<1>1. InOrder(P, 0) = <<>>
  <2>1. PICK f \in [0 .. 0 -> Seq(Nat)] : Finds(f, P, 0) /\ InOrder(P, 0) = f[0]
    BY InOrderIs
  <2> QED  BY <2>1 DEF Finds
<1>2. ASSUME NEW n \in Nat PROVE InOrder(P, n) \in Seq(Nat)
  BY InOrderIs
<1>3. ASSUME NEW n \in Nat \ {0}
      PROVE  InOrder(P, n) = IF n \in P THEN Append(InOrder(P, n - 1), n)
                             ELSE InOrder(P, n - 1)
  <2>0. PICK m \in Nat : n = m + 1
    <3>1. n - 1 \in Nat /\ n = (n - 1) + 1
      OBVIOUS
    <3> QED  BY <3>1
  <2>1. PICK f \in [0 .. n -> Seq(Nat)] : Finds(f, P, n) /\ InOrder(P, n) = f[n]
    BY <2>0, InOrderIs
  <2>2. PICK h \in [0 .. m -> Seq(Nat)] : Finds(h, P, m) /\ InOrder(P, m) = h[m]
    BY <2>0, InOrderIs
  <2>3. Finds(f, P, m)
    BY <2>0, <2>1 DEF Finds
  <2>4. f[m] = h[m]
    BY ONLY m \in Nat, <2>2, <2>3, FindsSame
  <2>5. n - 1 = m /\ n \in 1 .. n
    BY <2>0
  <2>6. f[n] = IF n \in P THEN Append(f[m], n) ELSE f[m]
    BY <2>1, <2>5 DEF Finds
  <2> QED  BY <2>1, <2>2, <2>4, <2>5, <2>6
<1> QED  BY <1>1, <1>2, <1>3

LEMMA InOrderSame ==
    ASSUME NEW P, NEW Q, NEW n \in Nat, \A i \in 1 .. n : i \in P <=> i \in Q
    PROVE  InOrder(P, n) = InOrder(Q, n)
<1> DEFINE T == {i \in 0 .. n : InOrder(P, i) = InOrder(Q, i)}
<1>1. 0 \in T  BY InOrderSteps
<1>2. ASSUME NEW i \in 1 .. n, i - 1 \in T PROVE i \in T
  <2>1. i \in Nat \ {0}  OBVIOUS
  <2>2. InOrder(P, i) = IF i \in P THEN Append(InOrder(P, i - 1), i) ELSE InOrder(P, i - 1)
    BY <2>1, InOrderSteps
  <2>3. InOrder(Q, i) = IF i \in Q THEN Append(InOrder(Q, i - 1), i) ELSE InOrder(Q, i - 1)
    BY <2>1, InOrderSteps
  <2> QED  BY <1>2, <2>2, <2>3
<1>3. \A i \in 0 .. n : i \in T
  <2> HIDE DEF T
  <2> QED  BY <1>1, <1>2, AllOf
<1> QED  BY <1>3

\* They are in the set, and each is after the last.
Rises(s, n) ==
    /\ s \in Seq(1 .. n)
    /\ \A j, k \in DOMAIN s : j < k => s[j] < s[k]

LEMMA InOrderRises ==
    ASSUME NEW P, NEW n \in Nat
    PROVE  /\ Rises(InOrder(P, n), n)
           /\ \A k \in DOMAIN InOrder(P, n) : InOrder(P, n)[k] \in P
           /\ \A i \in P \cap 1 .. n : \E k \in DOMAIN InOrder(P, n) : InOrder(P, n)[k] = i
<1> DEFINE Good(i, s) == /\ Rises(s, i)
                         /\ \A k \in DOMAIN s : s[k] \in P
                         /\ \A j \in P \cap 1 .. i : \E k \in DOMAIN s : s[k] = j
           T == {i \in 0 .. n : Good(i, InOrder(P, i))}
<1>1. 0 \in T
  <2>1. Good(0, <<>>)  BY DEF Rises
  <2> HIDE DEF Good
  <2> QED  BY <2>1, InOrderSteps
<1>2. ASSUME NEW i \in 1 .. n, i - 1 \in T PROVE i \in T
  <2>0. i \in Nat \ {0}
    OBVIOUS
  <2>1. PICK s : s = InOrder(P, i - 1)
    OBVIOUS
  <2>2. Good(i - 1, s)
    BY <1>2, <2>1
  <2>3. s \in Seq(1 .. i - 1) /\ s \in Seq(1 .. i)
    <3>1. s \in Seq(1 .. i - 1)  BY <2>2 DEF Rises
    <3>2. Len(s) \in Nat /\ \A k \in 1 .. Len(s) : s[k] \in 1 .. i
      BY <3>1
    <3>3. s \in [1 .. Len(s) -> 1 .. i]
      BY <3>1, <3>2
    <3> QED  BY <3>1, <3>3
  <2>4. CASE i \in P
    <3> DEFINE t == Append(s, i)
    <3>1. t \in Seq(1 .. i) /\ Len(t) = Len(s) + 1 /\ t[Len(s) + 1] = i
          /\ \A k \in 1 .. Len(s) : t[k] = s[k]
      BY <2>3, AppendProperties
    <3>2. DOMAIN t = 1 .. Len(s) + 1 /\ DOMAIN s = 1 .. Len(s) /\ Len(s) \in Nat
      BY <2>3, <3>1
    <3> HIDE DEF t
    <3>3. \A k \in 1 .. Len(s) : s[k] \in 1 .. i - 1
      BY <2>3
    <3>4. Rises(t, i)
      <4>1. ASSUME NEW j \in DOMAIN t, NEW k \in DOMAIN t, j < k PROVE t[j] < t[k]
        <5>1. j \in 1 .. Len(s) /\ t[j] = s[j]
          BY <3>1, <3>2, <4>1
        <5>2. CASE k \in 1 .. Len(s)
          BY <2>2, <3>1, <3>2, <4>1, <5>1, <5>2 DEF Rises
        <5>3. CASE k = Len(s) + 1
          BY <3>1, <3>3, <5>1, <5>3
        <5> QED  BY <3>2, <5>2, <5>3
      <4> QED  BY <3>1, <4>1 DEF Rises
    <3>5. \A k \in DOMAIN t : t[k] \in P
      BY <2>2, <2>4, <3>1, <3>2
    <3>6. ASSUME NEW j \in P \cap 1 .. i PROVE \E k \in DOMAIN t : t[k] = j
      <4>1. CASE j = i  BY <3>1, <3>2, <4>1
      <4>2. CASE j # i
        <5>1. PICK k \in DOMAIN s : s[k] = j
          BY <2>2, <4>2
        <5> QED  BY <3>1, <3>2, <5>1
      <4> QED  BY <4>1, <4>2
    <3>7. InOrder(P, i) = t
      BY <2>0, <2>1, <2>4, InOrderSteps DEF t
    <3>8. Good(i, t)
      BY <3>4, <3>5, <3>6
    <3> HIDE DEF Good
    <3> QED  BY <3>7, <3>8
  <2>5. CASE i \notin P
    <3>1. InOrder(P, i) = s
      BY <2>0, <2>1, <2>5, InOrderSteps
    <3>2. Good(i, s)
      BY <2>2, <2>3, <2>5 DEF Rises
    <3> HIDE DEF Good
    <3> QED  BY <3>1, <3>2
  <2> QED  BY <2>4, <2>5
<1>3. \A i \in 0 .. n : i \in T
  <2> HIDE DEF T
  <2> QED  BY <1>1, <1>2, AllOf
<1>4. n \in T
  <2> HIDE DEF T
  <2> QED  BY <1>3
<1> QED  BY <1>4

LEMMA TicksIn ==
    ASSUME NEW m \in Seq(Opcodes), NEW P, NEW n \in 0 .. Len(m)
    PROVE  TicksAt(m, InOrder(P, n)) \in Seq(Nat)
<1>1. PICK s : s = InOrder(P, n)
  OBVIOUS
<1>2. n \in Nat /\ s \in Seq(1 .. n)
  BY <1>1, InOrderRises DEF Rises
<1>3. Len(s) \in Nat /\ DOMAIN s = 1 .. Len(s) /\ \A k \in 1 .. Len(s) : s[k] \in 0 .. Len(m)
  BY <1>2
<1>4. PICK e \in [0 .. Len(m) -> Nat] : e = Elapsed(m)
  BY ElapsedIs
<1>5. [k \in DOMAIN s |-> e[s[k]]] \in [1 .. Len(s) -> Nat]
  BY <1>3
<1>6. [k \in DOMAIN s |-> e[s[k]]] \in Seq(Nat)
  BY <1>3, <1>5
<1> QED  BY <1>1, <1>4, <1>6 DEF TicksAt

\* The ticks of the positions in a map are still those with one opcode more.
LEMMA TicksKept ==
    ASSUME NEW m \in Seq(Opcodes), NEW b \in Opcodes, NEW P, NEW Q,
           \A i \in 1 .. Len(m) : i \in P <=> i \in Q
    PROVE  TicksAt(Append(m, b), InOrder(Q, Len(m))) = TicksAt(m, InOrder(P, Len(m)))
<1>0. PICK n \in Nat : n = Len(m)
  OBVIOUS
<1>1. PICK s : s = InOrder(P, n) /\ s = InOrder(Q, n)
  BY <1>0, InOrderSame
<1>2. s \in Seq(1 .. n)
  BY <1>0, <1>1, InOrderRises DEF Rises
<1>3. PICK o \in Seq(Opcodes) : o = Append(m, b) /\ Len(o) = n + 1 /\ \A i \in 1 .. n : o[i] = m[i]
  <2>1. PICK o : o = Append(m, b)
    OBVIOUS
  <2>2. o \in Seq(Opcodes) /\ Len(o) = n + 1 /\ \A i \in 1 .. n : o[i] = m[i]
    BY <1>0, <2>1, AppendProperties
  <2> QED  BY <2>1, <2>2
<1>4. \A i \in 0 .. n : Elapsed(m)[i] = Elapsed(o)[i]
  <2>1. n \in 0 .. Len(m) /\ n <= Len(o) /\ \A i \in 1 .. n : m[i].ticks = o[i].ticks
    BY <1>0, <1>3
  <2> QED  BY <2>1, ElapsedSame
<1>5. \A k \in DOMAIN s : s[k] \in 0 .. n
  BY <1>2
<1>6. [k \in DOMAIN s |-> Elapsed(o)[s[k]]] = [k \in DOMAIN s |-> Elapsed(m)[s[k]]]
  BY <1>4, <1>5
<1> QED  BY <1>0, <1>1, <1>3, <1>6 DEF TicksAt

LEMMA TicksMore ==
    ASSUME NEW m \in Seq(Opcodes), NEW b \in Opcodes, NEW P, NEW Q,
           \A i \in 1 .. Len(m) : i \in P <=> i \in Q
    PROVE  TicksAt(Append(m, b), InOrder(Q, Len(m) + 1))
             = IF Len(m) + 1 \in Q
               THEN Append(TicksAt(m, InOrder(P, Len(m))), Elapsed(m)[Len(m)] + b.ticks)
               ELSE TicksAt(m, InOrder(P, Len(m)))
<1>0. PICK n \in Nat : n = Len(m)
  OBVIOUS
<1>1. PICK s : s = InOrder(Q, n)
  OBVIOUS
<1>2. s \in Seq(1 .. n)
  BY <1>0, <1>1, InOrderRises DEF Rises
<1>3. PICK o \in Seq(Opcodes) : /\ o = Append(m, b) /\ Len(o) = n + 1 /\ o[n + 1] = b
                                /\ \A i \in 1 .. n : o[i] = m[i]
  <2>1. PICK o : o = Append(m, b)
    OBVIOUS
  <2>2. /\ o \in Seq(Opcodes) /\ Len(o) = n + 1 /\ o[n + 1] = b
        /\ \A i \in 1 .. n : o[i] = m[i]
    BY <1>0, <2>1, AppendProperties
  <2> QED  BY <2>1, <2>2
<1>4. InOrder(Q, n + 1) = IF n + 1 \in Q THEN Append(s, n + 1) ELSE s
  <2>1. PICK i \in Nat \ {0} : i = n + 1
    OBVIOUS
  <2>2. InOrder(Q, i) = IF i \in Q THEN Append(InOrder(Q, i - 1), i) ELSE InOrder(Q, i - 1)
    BY InOrderSteps
  <2>3. i - 1 = n
    BY <2>1
  <2> QED  BY <1>1, <2>1, <2>2, <2>3
<1>5. TicksAt(o, s) = TicksAt(m, InOrder(P, n))
  BY <1>0, <1>1, <1>3, TicksKept
<1>6. TicksAt(o, s) \in Seq(Nat)
  BY <1>0, <1>5, TicksIn
<1>7. Elapsed(o)[n + 1] = Elapsed(m)[n] + b.ticks
  <2>1. Elapsed(o)[n + 1] = Elapsed(o)[(n + 1) - 1] + o[n + 1].ticks
    <3>1. n + 1 \in 1 .. Len(o)
      BY <1>3
    <3> QED  BY <3>1, ElapsedIs
  <2>2. \A i \in 0 .. n : Elapsed(m)[i] = Elapsed(o)[i]
    <3>1. n \in 0 .. Len(m) /\ n <= Len(o) /\ \A i \in 1 .. n : m[i].ticks = o[i].ticks
      BY <1>0, <1>3
    <3> QED  BY <3>1, ElapsedSame
  <2>3. (n + 1) - 1 = n /\ n \in 0 .. n
    OBVIOUS
  <2> QED  BY <1>3, <2>1, <2>2, <2>3
<1>8. TicksAt(o, Append(s, n + 1)) = Append(TicksAt(o, s), Elapsed(o)[n + 1])
  <2>1. PICK e : e = Elapsed(o)
    OBVIOUS
  <2>2. PICK t : t = Append(s, n + 1)
    OBVIOUS
  <2>3. /\ Len(s) \in Nat /\ DOMAIN s = 1 .. Len(s) /\ DOMAIN t = 1 .. Len(s) + 1
        /\ t[Len(s) + 1] = n + 1 /\ \A k \in 1 .. Len(s) : t[k] = s[k]
    BY <1>2, <2>2
  <2> DEFINE u == [k \in DOMAIN s |-> e[s[k]]]
             v == [k \in DOMAIN t |-> e[t[k]]]
  <2>4. u \in Seq(Nat)
    BY <1>6, <2>1 DEF TicksAt
  <2>5. Len(u) = Len(s)
    BY <2>3, <2>4
  <2>6. v = Append(u, e[n + 1])
    <3>1. Append(u, e[n + 1]) = [k \in 1 .. Len(u) + 1 |-> IF k = Len(u) + 1 THEN e[n + 1] ELSE u[k]]
      <4> HIDE DEF u
      <4> QED  BY <2>4
    <3>2. ASSUME NEW k \in 1 .. Len(s) + 1
          PROVE  v[k] = IF k = Len(s) + 1 THEN e[n + 1] ELSE u[k]
      BY <2>3
    <3>3. v = [k \in 1 .. Len(s) + 1 |-> v[k]]
      BY <2>3
    <3> HIDE DEF u, v
    <3> QED  BY <2>5, <3>1, <3>2, <3>3
  <2> QED  BY <2>1, <2>2, <2>6 DEF TicksAt
<1> QED  BY <1>0, <1>3, <1>4, <1>5, <1>7, <1>8

-----------------------------------------------------------------------------
(* The map of a track.                                                       *)

LEMMA DivMod ==
    ASSUME NEW a \in Nat, NEW b \in Nat \ {0}
    PROVE  a \div b \in Nat /\ a % b \in 0 .. b - 1 /\ a = b * (a \div b) + (a % b)
  OBVIOUS

\* The Sequencer takes a tick for an opcode that has none.
AtLeastOne(b) == Byte(IF b.ticks = 0 THEN 1 ELSE b.ticks, b.pulse, b.index)
Slow(m)       == [i \in DOMAIN m |-> AtLeastOne(m[i])]

LEMMA SlowIs ==
    ASSUME NEW m \in Seq(Opcodes)
    PROVE  Slow(m) \in Seq(Opcodes) /\ Len(Slow(m)) = Len(m) /\ Pulses(Slow(m)) = Pulses(m)
<1>1. ASSUME NEW i \in DOMAIN m PROVE AtLeastOne(m[i]) \in Opcodes
  <2>1. m[i] \in Opcodes
    OBVIOUS
  <2> QED  BY <2>1 DEF AtLeastOne, Byte, Opcodes
<1>2. Slow(m) \in [1 .. Len(m) -> Opcodes]
  BY <1>1 DEF Slow
<1>3. Slow(m) \in Seq(Opcodes) /\ Len(Slow(m)) = Len(m)
  BY <1>2
<1>4. \A i \in DOMAIN m : Slow(m)[i].pulse = m[i].pulse
  BY DEF Slow, AtLeastOne, Byte
<1>5. DOMAIN Slow(m) = DOMAIN m
  BY DEF Slow
<1> QED  BY <1>3, <1>4, <1>5 DEF Pulses

LEMMA SlowMore ==
    ASSUME NEW m \in Seq(Opcodes), NEW b \in Opcodes
    PROVE  Slow(Append(m, b)) = Append(Slow(m), AtLeastOne(b))
<1>1. PICK o : o = Append(m, b)
  OBVIOUS
<1>2. /\ o \in Seq(Opcodes) /\ Len(o) = Len(m) + 1 /\ o[Len(m) + 1] = b
      /\ \A i \in 1 .. Len(m) : o[i] = m[i]
  BY <1>1, AppendProperties
<1>3. PICK s \in Seq(Opcodes) : s = Slow(m) /\ Len(s) = Len(m)
  BY SlowIs
<1>4. PICK x \in Opcodes : x = AtLeastOne(b)
  BY DEF AtLeastOne, Byte, Opcodes
<1>5. PICK u : u = Append(s, x)
  OBVIOUS
<1>6. /\ u \in Seq(Opcodes) /\ Len(u) = Len(m) + 1 /\ u[Len(m) + 1] = x
      /\ \A i \in 1 .. Len(m) : u[i] = s[i]
  BY <1>3, <1>5, AppendProperties
<1>7. PICK v \in Seq(Opcodes) : v = Slow(o) /\ Len(v) = Len(m) + 1
  BY <1>2, SlowIs
<1>8. ASSUME NEW i \in 1 .. Len(m) + 1 PROVE v[i] = u[i]
  <2>1. v[i] = AtLeastOne(o[i])
    BY <1>2, <1>7 DEF Slow
  <2>2. CASE i \in 1 .. Len(m)
    <3>1. s[i] = AtLeastOne(m[i])
      BY <1>3, <2>2 DEF Slow
    <3> QED  BY <1>2, <1>6, <2>1, <2>2, <3>1
  <2>3. CASE i = Len(m) + 1
    BY <1>2, <1>4, <1>6, <2>1, <2>3
  <2>4. Len(m) \in Nat
    OBVIOUS
  <2> QED  BY <2>2, <2>3, <2>4
<1>9. u = v
  BY <1>6, <1>7, <1>8, SeqEqual
<1> QED  BY <1>1, <1>3, <1>4, <1>5, <1>7, <1>9

\* Where the pulses are, and the ticks, with an opcode more.
LEMMA OneMore ==
    ASSUME NEW m \in Seq(Opcodes), NEW b \in Opcodes
    PROVE  /\ Elapsed(Append(m, b))[Len(m) + 1] = Elapsed(m)[Len(m)] + b.ticks
           /\ PulseTicks(Append(m, b))
                = IF b.pulse THEN Append(PulseTicks(m), Elapsed(m)[Len(m)] + b.ticks)
                  ELSE PulseTicks(m)
           /\ IndexTicks(Append(m, b))
                = IF b.index THEN Append(IndexTicks(m), Elapsed(m)[Len(m)] + b.ticks)
                  ELSE IndexTicks(m)
           /\ PulsesRead(Append(m, b)) = PulseTicks(m)
<1>0. PICK n \in Nat : n = Len(m)
  OBVIOUS
<1>3. PICK o \in Seq(Opcodes) : /\ o = Append(m, b) /\ Len(o) = n + 1 /\ o[n + 1] = b
                                /\ \A i \in 1 .. n : o[i] = m[i]
  <2>1. PICK o : o = Append(m, b)
    OBVIOUS
  <2>2. /\ o \in Seq(Opcodes) /\ Len(o) = n + 1 /\ o[n + 1] = b
        /\ \A i \in 1 .. n : o[i] = m[i]
    BY <1>0, <2>1, AppendProperties
  <2> QED  BY <2>1, <2>2
<1>4. Elapsed(o)[n + 1] = Elapsed(m)[n] + b.ticks
  <2>1. Elapsed(o)[n + 1] = Elapsed(o)[(n + 1) - 1] + o[n + 1].ticks
    <3>1. n + 1 \in 1 .. Len(o)
      BY <1>3
    <3> QED  BY <3>1, ElapsedIs
  <2>2. \A i \in 0 .. n : Elapsed(m)[i] = Elapsed(o)[i]
    <3>1. n \in 0 .. Len(m) /\ n <= Len(o) /\ \A i \in 1 .. n : m[i].ticks = o[i].ticks
      BY <1>0, <1>3
    <3> QED  BY <3>1, ElapsedSame
  <2>3. (n + 1) - 1 = n /\ n \in 0 .. n
    OBVIOUS
  <2> QED  BY <1>3, <2>1, <2>2, <2>3
<1>5. DOMAIN o = 1 .. n + 1 /\ DOMAIN m = 1 .. n
  BY <1>0, <1>3
<1>6. PICK P : P = Pulses(m)
  OBVIOUS
<1>7. PICK Q : Q = Pulses(o)
  OBVIOUS
<1>8. (\A i \in 1 .. n : i \in P <=> i \in Q) /\ (n + 1 \in Q <=> b.pulse)
  BY <1>3, <1>5, <1>6, <1>7 DEF Pulses
<1>9. PulseTicks(o) = IF b.pulse THEN Append(PulseTicks(m), Elapsed(m)[n] + b.ticks)
                      ELSE PulseTicks(m)
  <2>1. TicksAt(o, InOrder(Q, n + 1))
             = IF n + 1 \in Q
               THEN Append(TicksAt(m, InOrder(P, n)), Elapsed(m)[n] + b.ticks)
               ELSE TicksAt(m, InOrder(P, n))
    BY <1>0, <1>3, <1>8, TicksMore
  <2> QED  BY <1>0, <1>3, <1>6, <1>7, <1>8, <2>1 DEF PulseTicks
<1>10. PulsesRead(o) = PulseTicks(m)
  <2>1. TicksAt(o, InOrder(Q, n)) = TicksAt(m, InOrder(P, n))
    BY <1>0, <1>3, <1>8, TicksKept
  <2>2. Len(o) - 1 = n
    BY <1>3
  <2> QED  BY <1>0, <1>6, <1>7, <2>1, <2>2 DEF PulsesRead, PulseTicks
<1>11. PICK I : I = {i \in DOMAIN m : m[i].index}
  OBVIOUS
<1>12. PICK J : J = {i \in DOMAIN o : o[i].index}
  OBVIOUS
<1>13. (\A i \in 1 .. n : i \in I <=> i \in J) /\ (n + 1 \in J <=> b.index)
  BY <1>3, <1>5, <1>11, <1>12
<1>14. IndexTicks(o) = IF b.index THEN Append(IndexTicks(m), Elapsed(m)[n] + b.ticks)
                       ELSE IndexTicks(m)
  <2>1. TicksAt(o, InOrder(J, n + 1))
             = IF n + 1 \in J
               THEN Append(TicksAt(m, InOrder(I, n)), Elapsed(m)[n] + b.ticks)
               ELSE TicksAt(m, InOrder(I, n))
    BY <1>0, <1>3, <1>13, TicksMore
  <2> QED  BY <1>0, <1>3, <1>11, <1>12, <1>13, <2>1 DEF IndexTicks
<1> QED  BY <1>0, <1>3, <1>4, <1>9, <1>10, <1>14

\* Opcodes of whole spans.
Whole(d) == [i \in 1 .. d |-> Plain(Span)]

LEMMA SpanIs == Span \in Nat \ {0}
  BY FluxStreamAssumption

LEMMA WholeIs ==
    ASSUME NEW d \in Int
    PROVE  /\ Whole(d) \in Seq(Opcodes)
           /\ Len(Whole(d)) = IF d < 0 THEN 0 ELSE d
           /\ Plain(Span) \in Opcodes /\ AtLeastOne(Plain(Span)) = Plain(Span)
<1>1. Plain(Span) \in Opcodes /\ AtLeastOne(Plain(Span)) = Plain(Span)
  BY SpanIs DEF Plain, Byte, Opcodes, AtLeastOne
<1>2. PICK e \in Nat : e = IF d < 0 THEN 0 ELSE d
  OBVIOUS
<1>3. 1 .. d = 1 .. e
  BY <1>2
<1>4. Whole(d) \in [1 .. e -> Opcodes]
  BY <1>1, <1>3 DEF Whole
<1>5. Whole(d) \in Seq(Opcodes) /\ Len(Whole(d)) = e
  BY <1>4
<1> QED  BY <1>1, <1>2, <1>5

LEMMA WholeMore ==
    ASSUME NEW m \in Seq(Opcodes), NEW d \in Nat
    PROVE  m \o Whole(d + 1) = Append(m \o Whole(d), Plain(Span))
<1>1. PICK w \in Seq(Opcodes) : w = Whole(d) /\ Len(w) = d /\ \A i \in 1 .. d : w[i] = Plain(Span)
  <2>1. Whole(d) \in Seq(Opcodes) /\ Len(Whole(d)) = d
    BY WholeIs
  <2>2. \A i \in 1 .. d : Whole(d)[i] = Plain(Span)
    BY DEF Whole
  <2> QED  BY <2>1, <2>2
<1>2. PICK v \in Seq(Opcodes) : v = Whole(d + 1) /\ Len(v) = d + 1 /\ \A i \in 1 .. d + 1 : v[i] = Plain(Span)
  <2>0. PICK e \in Nat : e = d + 1
    OBVIOUS
  <2>1. Whole(e) \in Seq(Opcodes) /\ Len(Whole(e)) = e
    BY WholeIs
  <2>2. \A i \in 1 .. e : Whole(e)[i] = Plain(Span)
    BY DEF Whole
  <2> QED  BY <2>0, <2>1, <2>2
<1>3. PICK p \in Opcodes : p = Plain(Span)
  BY WholeIs
<1>4. v = Append(w, p)
  <2>1. PICK u : u = Append(w, p)
    OBVIOUS
  <2>2. u \in Seq(Opcodes) /\ Len(u) = d + 1 /\ u[d + 1] = p /\ \A i \in 1 .. d : u[i] = w[i]
    BY <1>1, <2>1, AppendProperties
  <2>3. \A i \in 1 .. d + 1 : u[i] = v[i]
    BY <1>1, <1>2, <1>3, <2>2
  <2>4. u = v
    BY <1>2, <2>2, <2>3, SeqEqual
  <2> QED  BY <2>1, <2>4
<1>5. m \o Append(w, p) = Append(m \o w, p)
  <2>1. Append(w, p) = w \o <<p>>
    BY AppendIsConcat
  <2>2. m \o w \in Seq(Opcodes) /\ <<p>> \in Seq(Opcodes)
    BY ConcatProperties
  <2>3. Append(m \o w, p) = (m \o w) \o <<p>>
    BY <2>2, AppendIsConcat
  <2>4. (m \o w) \o <<p>> = m \o (w \o <<p>>)
    BY <2>2, ConcatAssociative
  <2> QED  BY <2>1, <2>3, <2>4
<1> QED  BY <1>1, <1>2, <1>3, <1>4, <1>5

LEMMA LastElapsed ==
    ASSUME NEW m \in Seq(Opcodes)
    PROVE  Elapsed(m)[Len(m)] \in Nat
<1>1. Elapsed(m) \in [0 .. Len(m) -> Nat] /\ Len(m) \in 0 .. Len(m)
  BY ElapsedIs
<1> QED  BY <1>1

\* Whole spans are time without a pulse.
Silent(m, d) ==
    /\ m \o Whole(d) \in Seq(Opcodes) /\ Len(m \o Whole(d)) = Len(m) + d
    /\ Elapsed(m \o Whole(d))[Len(m) + d] = Elapsed(m)[Len(m)] + d * Span
    /\ PulseTicks(m \o Whole(d)) = PulseTicks(m)
    /\ IndexTicks(m \o Whole(d)) = IndexTicks(m)
    /\ Slow(m \o Whole(d)) = Slow(m) \o Whole(d)

LEMMA WholeQuiet ==
    ASSUME NEW m \in Seq(Opcodes), NEW d \in Nat
    PROVE  Silent(m, d)
<1> DEFINE T == {i \in 0 .. d : Silent(m, i)}
<1>1. 0 \in T
  <2>1. m \o Whole(0) = m
    <3>1. Whole(0) = <<>>
      BY WholeIs
    <3> QED  BY <3>1, ConcatEmptySeq
  <2>2. Slow(m) \o Whole(0) = Slow(m)
    <3>1. Whole(0) = <<>>
      BY WholeIs
    <3> QED  BY <3>1, SlowIs, ConcatEmptySeq
  <2>3. 0 * Span = 0 /\ Len(m) + 0 = Len(m) /\ Elapsed(m)[Len(m)] + 0 = Elapsed(m)[Len(m)]
    BY SpanIs, ElapsedIs
  <2>4. Silent(m, 0)
    BY <2>1, <2>2, <2>3 DEF Silent
  <2> QED  BY <2>4
<1>2. ASSUME NEW i \in 1 .. d, i - 1 \in T PROVE i \in T
  <2>1. PICK j \in Nat : i = j + 1 /\ j = i - 1
    OBVIOUS
  <2>2. Silent(m, j)
    BY <1>2, <2>1
  <2>3. PICK x \in Seq(Opcodes) : x = m \o Whole(j) /\ Len(x) = Len(m) + j
    BY <2>2 DEF Silent
  <2>4. PICK p \in Opcodes : p = Plain(Span)
    BY WholeIs
  <2>5. PICK y : y = Append(x, p)
    OBVIOUS
  <2>6. m \o Whole(i) = y
    BY <2>1, <2>3, <2>4, <2>5, WholeMore
  <2>7. y \in Seq(Opcodes) /\ Len(y) = Len(m) + i
    <3>1. y \in Seq(Opcodes) /\ Len(y) = Len(x) + 1
      BY <2>5, AppendProperties
    <3>2. Len(m) \in Nat
      OBVIOUS
    <3> QED  BY <2>1, <2>3, <3>1, <3>2
  <2>8. p.ticks = Span /\ p.pulse = FALSE /\ p.index = FALSE
    BY <2>4 DEF Plain, Byte
  <2>9. Elapsed(y)[Len(m) + i] = Elapsed(m)[Len(m)] + i * Span
    <3>1. Elapsed(y)[Len(x) + 1] = Elapsed(x)[Len(x)] + p.ticks
      BY <2>5, OneMore
    <3>2. Elapsed(x)[Len(x)] = Elapsed(m)[Len(m)] + j * Span
      BY <2>2, <2>3 DEF Silent
    <3>3. Len(m) + i = Len(x) + 1
      BY <2>1, <2>3
    <3>4. Elapsed(m)[Len(m)] \in Nat
      BY LastElapsed
    <3>5. \A e \in Nat : (e + j * Span) + Span = e + i * Span
      BY <2>1, SpanIs
    <3> QED  BY <2>8, <3>1, <3>2, <3>3, <3>4, <3>5
  <2>10. PulseTicks(y) = PulseTicks(m) /\ IndexTicks(y) = IndexTicks(m)
    <3>1. PulseTicks(y) = IF p.pulse THEN Append(PulseTicks(x), Elapsed(x)[Len(x)] + p.ticks)
                          ELSE PulseTicks(x)
      BY <2>5, OneMore
    <3>2. IndexTicks(y) = IF p.index THEN Append(IndexTicks(x), Elapsed(x)[Len(x)] + p.ticks)
                          ELSE IndexTicks(x)
      BY <2>5, OneMore
    <3> QED  BY <2>2, <2>3, <2>8, <3>1, <3>2 DEF Silent
  <2>11. Slow(y) = Slow(m) \o Whole(i)
    <3>1. Slow(y) = Append(Slow(x), AtLeastOne(p))
      BY <2>5, SlowMore
    <3>2. Slow(m) \o Whole(j + 1) = Append(Slow(m) \o Whole(j), p)
      BY <2>4, SlowIs, WholeMore
    <3>3. AtLeastOne(p) = p
      BY <2>4, WholeIs
    <3> QED  BY <2>1, <2>2, <2>3, <3>1, <3>2, <3>3 DEF Silent
  <2>12. Silent(m, i)
    BY <2>6, <2>7, <2>9, <2>10, <2>11 DEF Silent
  <2> QED  BY <2>12
<1>3. \A i \in 0 .. d : i \in T
  <2> HIDE DEF T
  <2> QED  BY <1>1, <1>2, AllOf
<1> QED  BY <1>3

\* An interval with its pulse.
LEMMA IntervalIs ==
    ASSUME NEW m \in Seq(Opcodes), NEW t \in Int
    PROVE  /\ AppendPulse(AppendInterval(m, t))
                = Append(m \o Whole(t \div Span), Byte(t % Span, TRUE, FALSE))
           /\ m \o Whole(t \div Span) \in Seq(Opcodes)
           /\ Byte(t % Span, TRUE, FALSE) \in Opcodes
<1>1. t \div Span \in Int /\ t % Span \in Nat
  BY SpanIs
<1>2. PICK x : x = m \o Whole(t \div Span)
  OBVIOUS
<1>3. x \in Seq(Opcodes)
  BY <1>1, <1>2, WholeIs, ConcatProperties
<1>4. PICK p \in Opcodes : p = Plain(t % Span)
  BY <1>1 DEF Plain, Byte, Opcodes
<1>5. PICK b \in Opcodes : b = Byte(t % Span, TRUE, FALSE)
  BY <1>1 DEF Byte, Opcodes
<1>6. PICK y : y = Append(x, p)
  OBVIOUS
<1>7. AppendInterval(m, t) = y
  <2>1. AppendInterval(m, t) = x \o <<p>>
    BY <1>2, <1>4 DEF AppendInterval, Whole
  <2> QED  BY <1>3, <1>6, <2>1, AppendIsConcat
<1>8. PICK z : z = Append(x, b)
  OBVIOUS
<1>9. /\ y \in Seq(Opcodes) /\ Len(y) = Len(x) + 1 /\ y[Len(x) + 1] = p
      /\ \A i \in 1 .. Len(x) : y[i] = x[i]
  BY <1>3, <1>6, AppendProperties
<1>10. /\ z \in Seq(Opcodes) /\ Len(z) = Len(x) + 1 /\ z[Len(x) + 1] = b
       /\ \A i \in 1 .. Len(x) : z[i] = x[i]
  BY <1>3, <1>8, AppendProperties
<1>11. [y EXCEPT ![Len(y)].pulse = TRUE] = z
  <2>1. [p EXCEPT !.pulse = TRUE] = b
    <3>1. p.ticks = b.ticks /\ p.index = b.index /\ b.pulse = TRUE
      BY <1>4, <1>5 DEF Plain, Byte
    <3> QED  BY ONLY p \in Opcodes, b \in Opcodes, <3>1 DEF Opcodes
  <2>2. PICK u : u = [y EXCEPT ![Len(y)].pulse = TRUE]
    OBVIOUS
  <2>3. Len(x) \in Nat /\ DOMAIN y = 1 .. Len(x) + 1
    BY <1>3, <1>9
  <2>4. u = [i \in 1 .. Len(x) + 1 |-> IF i = Len(x) + 1 THEN b ELSE x[i]]
    <3>1. u = [i \in DOMAIN y |-> IF i = Len(y) THEN [y[i] EXCEPT !.pulse = TRUE] ELSE y[i]]
      BY <2>2
    <3>2. \A i \in 1 .. Len(x) + 1 :
             (IF i = Len(y) THEN [y[i] EXCEPT !.pulse = TRUE] ELSE y[i])
               = IF i = Len(x) + 1 THEN b ELSE x[i]
      <4>1. ASSUME NEW i \in 1 .. Len(x) + 1
            PROVE  (IF i = Len(y) THEN [y[i] EXCEPT !.pulse = TRUE] ELSE y[i])
                     = IF i = Len(x) + 1 THEN b ELSE x[i]
        <5>1. CASE i = Len(x) + 1
          BY <1>9, <2>1, <5>1
        <5>2. CASE i # Len(x) + 1
          <6>1. i \in 1 .. Len(x)
            BY <2>3, <5>2
          <6> QED  BY <1>9, <5>2, <6>1
        <5> QED  BY <5>1, <5>2
      <4> QED  BY <4>1
    <3> QED  BY <2>3, <3>1, <3>2
  <2>5. z = [i \in 1 .. Len(x) + 1 |-> z[i]]
    BY <1>10
  <2>6. \A i \in 1 .. Len(x) + 1 : z[i] = IF i = Len(x) + 1 THEN b ELSE x[i]
    BY <1>10, <2>3
  <2> QED  BY <2>2, <2>4, <2>5, <2>6
<1> QED  BY <1>2, <1>3, <1>5, <1>7, <1>8, <1>11 DEF AppendPulse

\* Ticks of the k-th of some cells, how many opcodes without ticks there are up
\* to it, and when it is played.
At(o, c, k)    == IF k = 0 THEN 0 ELSE (o[k] * c[1]) \div c[2]
Delay(o, c, k) == Cardinality({j \in 1 .. k : (At(o, c, j) - At(o, c, j - 1)) % Span = 0})
Due(o, c)      == [k \in DOMAIN o |-> At(o, c, k) + Delay(o, c, k)]

CellLengths == {c \in Nat \X (Nat \ {0}) : c[1] >= 2 * c[2]}

LEMMA Apart ==
    ASSUME NEW c \in CellLengths, NEW i \in Nat, NEW j \in Nat, i < j
    PROVE  (j * c[1]) \div c[2] >= (i * c[1]) \div c[2] + 2
<1>1. PICK a \in Nat, d \in Nat \ {0} : c[1] = a /\ c[2] = d /\ a >= 2 * d
  BY DEF CellLengths
<1>2. i * a \in Nat /\ j * a \in Nat
  BY <1>1
<1>3. PICK q \in Nat, r \in 0 .. d - 1 : q = (i * a) \div d /\ i * a = d * q + r
  BY <1>2, DivMod
<1>4. PICK p \in Nat, s \in 0 .. d - 1 : p = (j * a) \div d /\ j * a = d * p + s
  BY <1>2, DivMod
<1>5. j * a >= i * a + a
  <2>1. PICK e \in Nat : j = i + 1 + e
    <3>1. j - (i + 1) \in Nat /\ j = i + 1 + (j - (i + 1))
      OBVIOUS
    <3> QED  BY <3>1
  <2>2. j * a = i * a + a + e * a
    BY <1>1, <2>1
  <2>3. e * a \in Nat
    BY <1>1
  <2> QED  BY <1>2, <2>2, <2>3
<1>6. d * p + d > d * q + 2 * d
  BY <1>1, <1>3, <1>4, <1>5
<1>7. ASSUME p < q + 2 PROVE FALSE
  <2>1. PICK e \in Nat : q + 1 = p + e
    <3>1. (q + 1) - p \in Nat /\ q + 1 = p + ((q + 1) - p)
      BY <1>7
    <3> QED  BY <3>1
  <2>2. d * (q + 1) = d * p + d * e
    BY <2>1
  <2>3. d * (q + 1) = d * q + d
    OBVIOUS
  <2>4. d * e \in Nat
    OBVIOUS
  <2> QED  BY <1>6, <2>2, <2>3, <2>4
<1> QED  BY <1>1, <1>3, <1>4, <1>7

LEMMA AtIn ==
    ASSUME NEW c \in CellLengths, NEW o \in Seq(Nat), NEW k \in 0 .. Len(o)
    PROVE  At(o, c, k) \in Nat
<1>1. CASE k = 0  BY <1>1 DEF At
<1>2. CASE k # 0
  <2>1. o[k] \in Nat /\ c[1] \in Nat /\ c[2] \in Nat \ {0}
    BY <1>2 DEF CellLengths
  <2>2. o[k] * c[1] \in Nat
    BY <2>1
  <2> QED  BY <1>2, <2>1, <2>2, DivMod DEF At
<1> QED  BY <1>1, <1>2

LEMMA DelaySteps ==
    ASSUME NEW c, NEW o, NEW k \in Nat
    PROVE  /\ Delay(o, c, 0) = 0
           /\ Delay(o, c, k) \in Nat
           /\ Delay(o, c, k + 1) = Delay(o, c, k)
                + IF (At(o, c, k + 1) - At(o, c, k)) % Span = 0 THEN 1 ELSE 0
<1> DEFINE Zero(j) == (At(o, c, j) - At(o, c, j - 1)) % Span = 0
           Z(n) == {j \in 1 .. n : Zero(j)}
<1>1. ASSUME NEW n \in Nat PROVE IsFiniteSet(Z(n)) /\ Cardinality(Z(n)) \in Nat
  <2>1. IsFiniteSet(1 .. n)
    BY FS_Interval
  <2>2. Z(n) \subseteq 1 .. n
    OBVIOUS
  <2>3. IsFiniteSet(Z(n))
    BY <2>1, <2>2, FS_Subset
  <2> QED  BY <2>3, FS_CardinalityType
<1>2. Delay(o, c, 0) = 0
  <2>1. Z(0) = {}
    OBVIOUS
  <2> QED  BY <2>1, FS_EmptySet DEF Delay
<1>3. (k + 1) - 1 = k /\ k + 1 \notin Z(k)
  OBVIOUS
<1>4. ASSUME Zero(k + 1) PROVE Delay(o, c, k + 1) = Delay(o, c, k) + 1
  <2>1. Z(k + 1) = Z(k) \cup {k + 1}
    <3>1. \A j \in Nat : j \in 1 .. k + 1 <=> (j \in 1 .. k \/ j = k + 1)
      OBVIOUS
    <3> HIDE DEF Zero
    <3> QED  BY <1>4, <3>1
  <2>2. Cardinality(Z(k) \cup {k + 1}) = Cardinality(Z(k)) + 1
    <3> HIDE DEF Z
    <3> QED  BY <1>1, <1>3, FS_AddElement
  <2> QED  BY <1>1, <1>2, <1>3, <1>4, <2>1, <2>2 DEF Delay
<1>5. ASSUME ~Zero(k + 1) PROVE Delay(o, c, k + 1) = Delay(o, c, k)
  <2>1. Z(k + 1) = Z(k)
    <3>1. \A j \in Nat : j \in 1 .. k + 1 <=> (j \in 1 .. k \/ j = k + 1)
      OBVIOUS
    <3> HIDE DEF Zero
    <3> QED  BY <1>5, <3>1
  <2> QED  BY <1>1, <1>2, <1>3, <1>5, <2>1 DEF Delay
<1>6. Delay(o, c, k) \in Nat
  BY <1>1 DEF Delay
<1>7. Delay(o, c, k + 1) = Delay(o, c, k) + IF Zero(k + 1) THEN 1 ELSE 0
  <2> HIDE DEF Zero
  <2>1. CASE Zero(k + 1)   BY <1>4, <2>1
  <2>2. CASE ~Zero(k + 1)  BY <1>5, <1>6, <2>2
  <2> QED  BY <2>1, <2>2
<1> QED  BY <1>2, <1>3, <1>6, <1>7

\* One cell more leaves the others where they were.
LEMMA AtKept ==
    ASSUME NEW c \in CellLengths, NEW o \in Seq(Nat), NEW i \in Nat
    PROVE  \A k \in 0 .. Len(o) :
               At(Append(o, i), c, k) = At(o, c, k) /\ Delay(Append(o, i), c, k) = Delay(o, c, k)
<1>1. PICK p : p = Append(o, i)
  OBVIOUS
<1>2. \A k \in 1 .. Len(o) : p[k] = o[k]
  BY <1>1, AppendProperties
<1>3. ASSUME NEW k \in 0 .. Len(o) PROVE At(p, c, k) = At(o, c, k)
  BY <1>2 DEF At
<1>4. ASSUME NEW k \in 0 .. Len(o) PROVE Delay(p, c, k) = Delay(o, c, k)
  <2>1. \A j \in 1 .. k : j \in 0 .. Len(o) /\ j - 1 \in 0 .. Len(o)
    OBVIOUS
  <2>2. \A j \in 1 .. k : At(p, c, j) = At(o, c, j) /\ At(p, c, j - 1) = At(o, c, j - 1)
    BY <1>3, <2>1
  <2> QED  BY <2>2 DEF Delay
<1> QED  BY <1>1, <1>3, <1>4

LEMMA DueMore ==
    ASSUME NEW c \in CellLengths, NEW o \in Seq(Nat), NEW i \in Nat
    PROVE  Due(Append(o, i), c)
             = Append(Due(o, c), At(Append(o, i), c, Len(o) + 1) + Delay(Append(o, i), c, Len(o) + 1))
<1>1. PICK p : p = Append(o, i)
  OBVIOUS
<1>2. DOMAIN p = 1 .. Len(o) + 1 /\ DOMAIN o = 1 .. Len(o) /\ Len(o) \in Nat
  BY <1>1, AppendProperties
<1>3. PICK K \in Nat : K = Len(o)
  OBVIOUS
<1>4. PICK x : x = At(p, c, K + 1) + Delay(p, c, K + 1)
  OBVIOUS
<1>5. PICK u \in Seq(Nat) : u = Due(o, c) /\ Len(u) = K
  <2>1. \A k \in 1 .. K : At(o, c, k) + Delay(o, c, k) \in Nat
    <3>1. ASSUME NEW k \in 1 .. K PROVE At(o, c, k) + Delay(o, c, k) \in Nat
      <4>1. k \in Nat /\ k \in 0 .. Len(o)
        BY <1>3
      <4>2. At(o, c, k) \in Nat
        BY <4>1, AtIn
      <4>3. Delay(o, c, k) \in Nat
        BY <4>1, DelaySteps
      <4> QED  BY <4>2, <4>3
    <3> QED  BY <3>1
  <2>2. Due(o, c) \in [1 .. K -> Nat]
    BY <1>2, <1>3, <2>1 DEF Due
  <2> QED  BY <2>2
<1>6. \A k \in 1 .. K : At(p, c, k) + Delay(p, c, k) = u[k]
  BY <1>1, <1>2, <1>3, <1>5, AtKept DEF Due
<1>7. Due(p, c) = [k \in 1 .. K + 1 |-> IF k = K + 1 THEN x ELSE u[k]]
  <2>1. Due(p, c) = [k \in 1 .. K + 1 |-> At(p, c, k) + Delay(p, c, k)]
    BY <1>2, <1>3 DEF Due
  <2>2. \A k \in 1 .. K + 1 : At(p, c, k) + Delay(p, c, k) = IF k = K + 1 THEN x ELSE u[k]
    BY <1>4, <1>6
  <2> QED  BY <2>1, <2>2
<1>8. Append(u, x) = [k \in 1 .. K + 1 |-> IF k = K + 1 THEN x ELSE u[k]]
  <2>1. x \in Nat
    <3>1. K + 1 \in Nat /\ K + 1 \in 0 .. Len(p) /\ p \in Seq(Nat)
      BY <1>1, <1>3, AppendProperties
    <3>2. At(p, c, K + 1) \in Nat
      BY <3>1, AtIn
    <3>3. Delay(p, c, K + 1) \in Nat
      BY <3>1, DelaySteps
    <3> QED  BY <1>4, <3>2, <3>3
  <2>2. PICK v : v = Append(u, x)
    OBVIOUS
  <2>3. /\ v \in Seq(Nat)
        /\ Len(v) = K + 1
        /\ \A k \in 1 .. K : v[k] = u[k]
        /\ v[K + 1] = x
    BY <1>5, <2>1, <2>2, AppendProperties
  <2>4. v = [k \in 1 .. K + 1 |-> v[k]]
    BY <2>3
  <2>5. \A k \in 1 .. K + 1 : v[k] = IF k = K + 1 THEN x ELSE u[k]
    BY <2>3
  <2> QED  BY <2>2, <2>4, <2>5
<1> QED  BY <1>1, <1>3, <1>4, <1>5, <1>7, <1>8

-----------------------------------------------------------------------------
(* appendBits().                                                             *)

Grown(m, b, c, i) ==
    IF b[i]
    THEN AppendPulse(AppendInterval(m, (i * c[1]) \div c[2] - Elapsed(m)[Len(m)]))
    ELSE m

Grows(f, b, c, n) == f[0] = <<>> /\ \A i \in 1 .. n : f[i] = Grown(f[i - 1], b, c, i)

LEMMA GrownIs ==
    ASSUME NEW m \in Seq(Opcodes), NEW b, NEW c \in CellLengths, NEW i \in Nat
    PROVE  Grown(m, b, c, i) \in Seq(Opcodes)
<1>1. CASE b[i]
  <2>1. Elapsed(m)[Len(m)] \in Nat
    BY LastElapsed
  <2>2. (i * c[1]) \div c[2] \in Nat
    <3>1. c[1] \in Nat /\ c[2] \in Nat \ {0}
      BY DEF CellLengths
    <3>2. i * c[1] \in Nat
      BY <3>1
    <3> QED  BY <3>1, <3>2, DivMod
  <2>3. PICK t \in Int : t = (i * c[1]) \div c[2] - Elapsed(m)[Len(m)]
    BY <2>1, <2>2
  <2>4. Append(m \o Whole(t \div Span), Byte(t % Span, TRUE, FALSE)) \in Seq(Opcodes)
    BY IntervalIs, AppendProperties
  <2>5. AppendPulse(AppendInterval(m, t)) \in Seq(Opcodes)
    BY <2>4, IntervalIs
  <2> QED  BY <1>1, <2>3, <2>5 DEF Grown
<1>2. CASE ~b[i]  BY <1>2 DEF Grown
<1> QED  BY <1>1, <1>2

LEMMA GrowsSame ==
    ASSUME NEW b, NEW c, NEW n \in Nat, NEW f, NEW h, Grows(f, b, c, n), Grows(h, b, c, n)
    PROVE  f[n] = h[n]
<1> DEFINE T == {i \in 0 .. n : f[i] = h[i]}
<1>1. 0 \in T  BY DEF Grows
<1>2. ASSUME NEW i \in 1 .. n, i - 1 \in T PROVE i \in T
  BY <1>2 DEF Grows
<1>3. \A i \in 0 .. n : i \in T
  <2> HIDE DEF T
  <2> QED  BY <1>1, <1>2, AllOf
<1> QED  BY <1>3

LEMMA AppendBitsIs ==
    ASSUME NEW b, NEW c \in CellLengths, Len(b) \in Nat
    PROVE  \E f \in [0 .. Len(b) -> Seq(Opcodes)] :
               Grows(f, b, c, Len(b)) /\ AppendBits(b, c) = f[Len(b)]
<1> DEFINE n == Len(b)
           F(f) == f = [i \in 0 .. n |-> IF i = 0 THEN <<>> ELSE Grown(f[i - 1], b, c, i)]
           S == Seq(Opcodes)
           g == [i \in 1 .. n |-> [x \in S |-> Grown(x, b, c, i)]]
           F0 == CHOOSE f : F(f)
<1>0. n \in Nat
  OBVIOUS
<1>1. g \in [1 .. n -> [S -> S]]
  <2>1. ASSUME NEW i \in 1 .. n PROVE [x \in S |-> Grown(x, b, c, i)] \in [S -> S]
    <3>1. i \in Nat
      OBVIOUS
    <3>2. \A x \in S : Grown(x, b, c, i) \in S
      BY <3>1, GrownIs
    <3> HIDE DEF S
    <3> QED  BY <3>2
  <2> QED  BY <2>1
<1>2. PICK f \in [0 .. n -> S] : Follows(f, <<>>, g, n)
  <2>1. <<>> \in S  OBVIOUS
  <2> HIDE DEF g, S, n
  <2> QED  BY <1>0, <1>1, <2>1, Iterated
<1>3. Grows(f, b, c, n)
  <2>1. ASSUME NEW i \in 1 .. n PROVE f[i] = Grown(f[i - 1], b, c, i)
    <3>1. f[i - 1] \in S  OBVIOUS
    <3>2. g[i][f[i - 1]] = Grown(f[i - 1], b, c, i)
      <4> HIDE DEF S
      <4> QED  BY <3>1
    <3> QED  BY <1>2, <3>2 DEF Follows
  <2> QED  BY <1>2, <2>1 DEF Grows, Follows
<1>4. F(f)
  <2>1. \A i \in 0 .. n : f[i] = IF i = 0 THEN <<>> ELSE Grown(f[i - 1], b, c, i)
    <3>1. f[0] = <<>> /\ \A i \in 1 .. n : f[i] = Grown(f[i - 1], b, c, i)
      BY <1>3 DEF Grows
    <3>2. \A i \in 0 .. n : i = 0 \/ i \in 1 .. n
      BY <1>0
    <3> QED  BY <3>1, <3>2
  <2> HIDE DEF g, S, n
  <2> QED  BY <1>2, <2>1
<1>5. F(F0)
  <2> HIDE DEF g
  <2> QED  BY <1>4
<1>6. Grows(F0, b, c, n)
  <2> HIDE DEF F0
  <2>1. \A i \in 0 .. n : F0[i] = IF i = 0 THEN <<>> ELSE Grown(F0[i - 1], b, c, i)
    BY <1>5
  <2> HIDE DEF n
  <2> QED  BY <1>0, <2>1 DEF Grows
<1>7. F0[n] = f[n]
  <2> HIDE DEF F0, n
  <2> QED  BY <1>0, <1>3, <1>6, GrowsSame
<1>8. AppendBits(b, c) = F0[n]
  BY DEF AppendBits, Grown
<1> QED  BY <1>3, <1>7, <1>8

\* Pulses that are at different ticks, none at the start.
Separate(p) == \A k \in 1 .. Len(p) : p[k] > IF k = 1 THEN 0 ELSE p[k - 1]

LEMMA SeparateMore ==
    ASSUME NEW p \in Seq(Nat), Separate(p), NEW t \in Nat, t > 0,
           \A k \in 1 .. Len(p) : p[k] < t
    PROVE  Separate(Append(p, t))
<1>1. PICK n \in Nat : n = Len(p)
  OBVIOUS
<1>2. PICK a : a = Append(p, t)
  OBVIOUS
<1>3. Len(a) = n + 1 /\ a[n + 1] = t /\ \A k \in 1 .. n : a[k] = p[k]
  BY <1>1, <1>2, AppendProperties
<1>4. ASSUME NEW k \in 1 .. n + 1 PROVE a[k] > IF k = 1 THEN 0 ELSE a[k - 1]
  <2>1. CASE k = n + 1
    <3>1. k # 1 => k - 1 \in 1 .. n /\ p[k - 1] \in Nat /\ p[k - 1] < t
      BY <1>1, <2>1
    <3> QED  BY <1>3, <2>1, <3>1
  <2>2. CASE k # n + 1
    <3>1. k \in 1 .. n /\ (k # 1 => k - 1 \in 1 .. n)
      BY <2>2
    <3> QED  BY <1>1, <1>3, <3>1 DEF Separate
  <2> QED  BY <2>1, <2>2
<1> QED  BY <1>2, <1>3, <1>4 DEF Separate

\* What the map of some cells is, and how it is played.
Made(m, o, c) ==
    /\ m \in Seq(Opcodes)
    /\ \A k \in 1 .. Len(m) : m[k].ticks <= Span
    /\ Separate(PulseTicks(m))
    /\ \A k \in 1 .. Len(PulseTicks(m)) : PulseTicks(m)[k] <= Elapsed(m)[Len(m)]
    /\ PulseTicks(Slow(m)) = Due(o, c)
    /\ Elapsed(m)[Len(m)] = At(o, c, Len(o))
    /\ Elapsed(Slow(m))[Len(m)] = At(o, c, Len(o)) + Delay(o, c, Len(o))

LEMMA MadeFirst ==
    ASSUME NEW c \in CellLengths
    PROVE  Made(<<>>, <<>>, c)
<1>1. <<>> \in Seq(Opcodes) /\ Len(<<>>) = 0
  OBVIOUS
<1>2. Slow(<<>>) = <<>>
  BY DEF Slow
<1>3. Elapsed(<<>>)[0] = 0
  BY <1>1, ElapsedIs
<1>4. PulseTicks(<<>>) = <<>>
  <2>1. InOrder(Pulses(<<>>), 0) = <<>>
    BY InOrderSteps
  <2> QED  BY <1>1, <2>1 DEF PulseTicks, TicksAt
<1>5. Due(<<>>, c) = <<>>
  BY DEF Due
<1>6. At(<<>>, c, 0) = 0 /\ Delay(<<>>, c, 0) = 0
  BY DelaySteps DEF At
<1> QED  BY <1>1, <1>2, <1>3, <1>4, <1>5, <1>6 DEF Made, Separate

LEMMA CellsOf ==
    ASSUME NEW c \in CellLengths, NEW o \in Seq(Nat), NEW i \in Nat
    PROVE  /\ At(Append(o, i), c, Len(o) + 1) = (i * c[1]) \div c[2]
           /\ (i * c[1]) \div c[2] \in Nat
<1>1. PICK p : p = Append(o, i)
  OBVIOUS
<1>2. PICK K \in Nat : K = Len(o)
  OBVIOUS
<1>3. p[K + 1] = i
  BY <1>1, <1>2, AppendProperties
<1>4. At(p, c, K + 1) = (i * c[1]) \div c[2]
  <2>1. K + 1 # 0
    BY <1>2
  <2> QED  BY <1>3, <2>1 DEF At
<1>5. (i * c[1]) \div c[2] \in Nat
  <2>1. c[1] \in Nat /\ c[2] \in Nat \ {0}
    BY DEF CellLengths
  <2>2. i * c[1] \in Nat
    BY <2>1
  <2> QED  BY <2>1, <2>2, DivMod
<1> QED  BY <1>1, <1>2, <1>4, <1>5

\* A pulse is two ticks after the one before, or more.
LEMMA AtApart ==
    ASSUME NEW c \in CellLengths, NEW o \in Seq(Nat), NEW i \in Nat \ {0},
           \A k \in DOMAIN o : o[k] < i
    PROVE  (i * c[1]) \div c[2] >= At(o, c, Len(o)) + 2
<1>1. CASE Len(o) = 0
  <2>1. (0 * c[1]) \div c[2] = 0
    <3>1. PICK a \in Nat, d \in Nat \ {0} : c[1] = a /\ c[2] = d
      BY DEF CellLengths
    <3>2. 0 * a = 0 /\ 0 \div d = 0
      BY <3>1
    <3> QED  BY <3>1, <3>2
  <2>2. (i * c[1]) \div c[2] >= (0 * c[1]) \div c[2] + 2
    <3>1. 0 \in Nat /\ i \in Nat /\ 0 < i
      OBVIOUS
    <3> QED  BY <3>1, Apart
  <2> QED  BY <1>1, <2>1, <2>2 DEF At
<1>2. CASE Len(o) # 0
  <2>1. Len(o) \in DOMAIN o
    BY <1>2
  <2>2. o[Len(o)] \in Nat /\ o[Len(o)] < i /\ i \in Nat
    BY <2>1
  <2>3. (i * c[1]) \div c[2] >= (o[Len(o)] * c[1]) \div c[2] + 2
    BY <2>2, Apart
  <2> QED  BY <1>2, <2>3 DEF At
<1> QED  BY <1>1, <1>2

LEMMA MadeMore ==
    ASSUME NEW m, NEW c \in CellLengths, NEW o \in Seq(Nat), NEW b, NEW i \in Nat \ {0},
           Made(m, o, c), b[i], \A k \in DOMAIN o : o[k] < i
    PROVE  Made(Grown(m, b, c, i), Append(o, i), c)
<1>1. PICK K \in Nat : K = Len(o)
  OBVIOUS
<1>2. PICK p \in Seq(Nat) : p = Append(o, i) /\ Len(p) = K + 1
  <2>1. PICK p : p = Append(o, i)
    OBVIOUS
  <2> QED  BY <1>1, <2>1, AppendProperties
<1>3. PICK to \in Nat : to = (i * c[1]) \div c[2]
  BY CellsOf
<1>4. PICK from \in Nat : from = At(o, c, K)
  <2>1. K \in 0 .. Len(o)
    BY <1>1
  <2> QED  BY <2>1, AtIn
<1>5. to >= from + 2
  BY <1>1, <1>3, <1>4, AtApart
<1>6. PICK t \in Nat : t = to - from
  BY <1>5
<1>7. PICK q \in Nat, r \in Nat : r < Span /\ q = t \div Span /\ r = t % Span /\ t = q * Span + r
  <2>1. /\ t \div Span \in Nat /\ t % Span \in 0 .. Span - 1
        /\ t = Span * (t \div Span) + (t % Span)
    BY SpanIs, DivMod
  <2>2. PICK q \in Nat : q = t \div Span
    BY <2>1
  <2>3. Span * q = q * Span
    BY SpanIs
  <2>4. PICK r \in Nat : r = t % Span /\ r < Span
    BY <2>1, SpanIs
  <2>5. t = q * Span + r
    BY <2>1, <2>2, <2>3, <2>4
  <2> QED  BY <2>2, <2>4, <2>5
<1>8. m \in Seq(Opcodes) /\ Elapsed(m)[Len(m)] = from
  BY <1>1, <1>4 DEF Made
<1>9. PICK z \in Opcodes : z = Byte(r, TRUE, FALSE)
  BY DEF Byte, Opcodes
<1>10. PICK x \in Seq(Opcodes) : x = m \o Whole(q)
  BY <1>8, WholeQuiet DEF Silent
<1>11. PICK y \in Seq(Opcodes) : y = Append(x, z) /\ Grown(m, b, c, i) = y
  <2>1. Grown(m, b, c, i) = AppendPulse(AppendInterval(m, t))
    BY <1>3, <1>6, <1>8 DEF Grown
  <2>2. AppendPulse(AppendInterval(m, t)) = Append(m \o Whole(q), Byte(r, TRUE, FALSE))
    <3>1. t \in Int
      OBVIOUS
    <3>2. AppendPulse(AppendInterval(m, t))
            = Append(m \o Whole(t \div Span), Byte(t % Span, TRUE, FALSE))
      BY <1>8, <3>1, IntervalIs
    <3> QED  BY <1>7, <3>2
  <2>3. Append(x, z) \in Seq(Opcodes)
    BY AppendProperties
  <2> QED  BY <1>9, <1>10, <2>1, <2>2, <2>3
<1>12. PICK n \in Nat : n = Len(m)
  BY <1>8
<1>13. Len(x) = n + q /\ Elapsed(x)[n + q] = from + q * Span /\ Slow(x) = Slow(m) \o Whole(q)
  BY <1>8, <1>10, <1>12, WholeQuiet DEF Silent
<1>14. Len(y) = n + q + 1
  <2>1. Len(y) = Len(x) + 1
    BY <1>11, AppendProperties
  <2> QED  BY <1>12, <1>13, <2>1
<1>15. Elapsed(y)[Len(y)] = to
  <2>1. Elapsed(y)[Len(x) + 1] = Elapsed(x)[Len(x)] + z.ticks
    BY <1>11, OneMore
  <2>2. z.ticks = r
    BY <1>9 DEF Byte
  <2>3. (from + q * Span) + r = to
    <3>1. PICK w \in Nat : w = q * Span
      BY SpanIs
    <3>2. r \in Nat /\ t = w + r
      BY <1>7, <3>1
    <3>3. (from + w) + r = to
      BY <1>5, <1>6, <3>2
    <3> QED  BY <3>1, <3>3
  <2> QED  BY <1>13, <1>14, <2>1, <2>2, <2>3
<1>16. to = At(p, c, K + 1)
  BY <1>1, <1>2, <1>3, CellsOf
<1>17. At(p, c, K) = from /\ Delay(p, c, K) = Delay(o, c, K)
  <2>1. K \in 0 .. Len(o)
    BY <1>1
  <2> QED  BY <1>2, <1>4, <2>1, AtKept
<1>18. PICK late \in Nat : late = Delay(o, c, K)
  BY DelaySteps
<1>19. Delay(p, c, K + 1) = late + IF r = 0 THEN 1 ELSE 0
  <2>1. Delay(p, c, K + 1) = Delay(p, c, K)
                + IF (At(p, c, K + 1) - At(p, c, K)) % Span = 0 THEN 1 ELSE 0
    BY DelaySteps
  <2> QED  BY <1>6, <1>7, <1>16, <1>17, <1>18, <2>1
<1>20. PICK s \in Seq(Opcodes) : s = Slow(m) /\ Len(s) = n
  BY <1>8, <1>12, SlowIs
<1>21. PICK v \in Seq(Opcodes) : v = s \o Whole(q) /\ Len(v) = n + q
  BY <1>20, WholeQuiet DEF Silent
<1>22. Elapsed(v)[n + q] = from + late + q * Span /\ PulseTicks(v) = Due(o, c)
  <2>1. Elapsed(v)[n + q] = Elapsed(s)[n] + q * Span /\ PulseTicks(v) = PulseTicks(s)
    BY <1>20, <1>21, WholeQuiet DEF Silent
  <2>2. Elapsed(s)[n] = from + late /\ PulseTicks(s) = Due(o, c)
    BY <1>1, <1>4, <1>12, <1>18, <1>20 DEF Made
  <2> QED  BY <2>1, <2>2
<1>23. PICK a \in Opcodes : a = AtLeastOne(z)
  BY DEF AtLeastOne, Byte, Opcodes
<1>24. a.ticks = (IF r = 0 THEN 1 ELSE r) /\ a.pulse = TRUE
  BY <1>9, <1>23 DEF AtLeastOne, Byte
<1>25. PICK w \in Seq(Opcodes) : w = Append(v, a) /\ Slow(y) = w
  <2>1. Slow(y) = Append(Slow(x), a)
    BY <1>11, <1>23, SlowMore
  <2>2. Slow(x) = v
    BY <1>13, <1>20, <1>21
  <2>3. Append(v, a) \in Seq(Opcodes)
    BY AppendProperties
  <2> QED  BY <2>1, <2>2, <2>3
<1>26. PICK due : due = At(p, c, K + 1) + Delay(p, c, K + 1)
  OBVIOUS
<1>27. from + late + q * Span + a.ticks = due
  <2>1. PICK e \in Nat : e = q * Span
    BY SpanIs
  <2>2. PICK d \in Nat : d = a.ticks
    BY DEF Opcodes
  <2>3. from + late + e + d = to + (late + IF r = 0 THEN 1 ELSE 0)
    <3>1. r \in Nat /\ t = e + r
      BY <1>7, <2>1
    <3>2. d = r + IF r = 0 THEN 1 ELSE 0
      BY <1>24, <2>2, <3>1
    <3> QED  BY <1>5, <1>6, <3>1, <3>2
  <2> QED  BY <1>16, <1>19, <1>26, <2>1, <2>2, <2>3
<1>28. Elapsed(w)[n + q + 1] = due
  <2>1. Elapsed(w)[Len(v) + 1] = Elapsed(v)[Len(v)] + a.ticks
    BY <1>25, OneMore
  <2> QED  BY <1>21, <1>22, <1>27, <2>1
<1>29. PulseTicks(w) = Due(p, c)
  <2>1. PulseTicks(w) = Append(PulseTicks(v), Elapsed(v)[Len(v)] + a.ticks)
    BY <1>24, <1>25, OneMore
  <2>2. PulseTicks(w) = Append(Due(o, c), due)
    BY <1>21, <1>22, <1>27, <2>1
  <2>3. Due(p, c) = Append(Due(o, c), due)
    BY <1>1, <1>2, <1>26, DueMore
  <2> QED  BY <2>2, <2>3
<1>30. \A k \in 1 .. Len(y) : y[k].ticks <= Span
  <2>1. /\ y[Len(x) + 1] = z
        /\ \A k \in 1 .. Len(x) : y[k] = x[k]
    BY <1>11, AppendProperties
  <2>2. ASSUME NEW k \in 1 .. Len(x) PROVE x[k].ticks <= Span
    <3>1. PICK u \in Seq(Opcodes) : u = Whole(q) /\ Len(u) = q
      BY WholeIs
    <3>2. x[k] = IF k <= n THEN m[k] ELSE u[k - n]
      BY <1>8, <1>10, <1>12, <3>1, ConcatProperties
    <3>3. CASE k <= n
      <4>1. k \in 1 .. Len(m)
        BY <1>12, <3>3
      <4> QED  BY <3>2, <3>3, <4>1 DEF Made
    <3>4. CASE ~(k <= n)
      <4>1. k - n \in 1 .. q
        BY <1>13, <3>4
      <4>2. u[k - n] = Plain(Span)
        BY <3>1, <4>1 DEF Whole
      <4> QED  BY <3>2, <3>4, <4>2, SpanIs DEF Plain, Byte
    <3> QED  BY <3>3, <3>4
  <2>3. z.ticks <= Span
    BY <1>7, <1>9, SpanIs DEF Byte
  <2>4. Len(x) \in Nat /\ Len(y) = Len(x) + 1
    BY <1>13, <1>14
  <2>5. \A k \in 1 .. Len(y) : k \in 1 .. Len(x) \/ k = Len(x) + 1
    BY <2>4
  <2> QED  BY <2>1, <2>2, <2>3, <2>5
<1>32. /\ Separate(PulseTicks(y))
       /\ \A k \in 1 .. Len(PulseTicks(y)) : PulseTicks(y)[k] <= to
  <2>1. PICK u \in Seq(Nat) : u = PulseTicks(m)
    <3>1. Len(m) \in 0 .. Len(m)
      BY <1>8
    <3> QED  BY <1>8, <3>1, TicksIn DEF PulseTicks
  <2>2. \A k \in 1 .. Len(u) : u[k] \in Nat /\ u[k] <= from
    BY <1>8, <2>1 DEF Made
  <2>3. PulseTicks(y) = Append(u, to)
    <3>1. PulseTicks(x) = u
      BY <1>8, <1>10, <2>1, WholeQuiet DEF Silent
    <3>2. z.pulse = TRUE
      BY <1>9 DEF Byte
    <3>3. PulseTicks(y) = Append(PulseTicks(x), Elapsed(x)[Len(x)] + z.ticks)
      BY <1>11, <3>2, OneMore
    <3>4. Elapsed(y)[Len(x) + 1] = Elapsed(x)[Len(x)] + z.ticks
      BY <1>11, OneMore
    <3>5. Len(y) = Len(x) + 1
      BY <1>11, AppendProperties
    <3> QED  BY <1>15, <3>1, <3>3, <3>4, <3>5
  <2>4. to > 0 /\ \A k \in 1 .. Len(u) : u[k] < to
    BY <1>5, <2>2
  <2>5. Separate(Append(u, to))
    <3>1. Separate(u)
      BY <2>1 DEF Made
    <3> QED  BY <2>4, <3>1, SeparateMore
  <2>6. PICK more : more = Append(u, to)
    OBVIOUS
  <2>7. /\ Len(more) = Len(u) + 1 /\ more[Len(u) + 1] = to
        /\ \A k \in 1 .. Len(u) : more[k] = u[k]
    BY <2>6, AppendProperties
  <2>8. ASSUME NEW k \in 1 .. Len(u) + 1 PROVE more[k] <= to
    <3>1. CASE k \in 1 .. Len(u)
      <4>1. more[k] = u[k]
        BY <2>7, <3>1
      <4>2. u[k] \in Nat /\ u[k] < to
        BY <2>2, <2>4, <3>1
      <4> QED  BY <4>1, <4>2
    <3>2. CASE k = Len(u) + 1
      <4>1. more[k] = to
        BY <2>7, <3>2
      <4> QED  BY <4>1
    <3>3. Len(u) \in Nat
      OBVIOUS
    <3> QED  BY <3>1, <3>2, <3>3
  <2> QED  BY <2>3, <2>5, <2>6, <2>7, <2>8
<1>31. Made(y, p, c)
  <2>1. due = At(p, c, Len(p)) + Delay(p, c, Len(p)) /\ to = At(p, c, Len(p))
    BY <1>2, <1>16, <1>26
  <2> QED  BY <1>14, <1>15, <1>25, <1>28, <1>29, <1>30, <1>32, <2>1 DEF Made
<1> QED  BY <1>2, <1>11, <1>31

\* The map of any track.  Its pulses come when the cells before them are over,
\* rounded down once, but for the ticks that empty opcodes take.
LEMMA MadeAll ==
    ASSUME NEW b \in Seq(BOOLEAN), NEW c \in CellLengths
    PROVE  Made(AppendBits(b, c), Ones(b), c)
<1>1. PICK n \in Nat : n = Len(b)
  OBVIOUS
<1>2. PICK P : P = {i \in DOMAIN b : b[i]}
  OBVIOUS
<1>3. PICK f \in [0 .. n -> Seq(Opcodes)] : Grows(f, b, c, n) /\ AppendBits(b, c) = f[n]
  BY <1>1, AppendBitsIs
<1> DEFINE T == {i \in 0 .. n : Made(f[i], InOrder(P, i), c)}
<1>4. 0 \in T
  <2>1. f[0] = <<>> /\ InOrder(P, 0) = <<>>
    BY <1>3, InOrderSteps DEF Grows
  <2>2. Made(f[0], InOrder(P, 0), c)
    BY <2>1, MadeFirst
  <2> QED  BY <2>2
<1>5. ASSUME NEW i \in 1 .. n, i - 1 \in T PROVE i \in T
  <2>1. PICK j \in Nat : j = i - 1
    OBVIOUS
  <2>2. PICK o \in Seq(Nat) : o = InOrder(P, j)
    BY InOrderSteps
  <2>3. Made(f[j], o, c)
    BY <1>5, <2>1, <2>2
  <2>4. f[i] = Grown(f[j], b, c, i)
    BY <1>3, <2>1 DEF Grows
  <2>5. InOrder(P, i) = IF i \in P THEN Append(o, i) ELSE o
    <3>1. i \in Nat \ {0}
      OBVIOUS
    <3> QED  BY <2>1, <2>2, <3>1, InOrderSteps
  <2>6. \A k \in DOMAIN o : o[k] < i
    <3>1. o \in Seq(1 .. j)
      BY <2>2, InOrderRises DEF Rises
    <3>2. \A k \in DOMAIN o : o[k] \in 1 .. j
      BY <3>1
    <3> QED  BY <2>1, <3>2
  <2>7. CASE b[i]
    <3>1. i \in P
      BY <1>1, <1>2, <2>7
    <3>2. i \in Nat \ {0}
      OBVIOUS
    <3>3. Made(Grown(f[j], b, c, i), Append(o, i), c)
      BY <2>3, <2>6, <2>7, <3>2, MadeMore
    <3>4. Made(f[i], InOrder(P, i), c)
      BY <2>4, <2>5, <3>1, <3>3
    <3> QED  BY <3>4
  <2>8. CASE ~b[i]
    <3>1. i \notin P
      BY <1>2, <2>8
    <3>2. Made(f[i], InOrder(P, i), c)
      BY <2>3, <2>4, <2>5, <2>8, <3>1 DEF Grown
    <3> QED  BY <3>2
  <2> QED  BY <2>7, <2>8
<1>6. \A i \in 0 .. n : i \in T
  <2> HIDE DEF T
  <2> QED  BY <1>4, <1>5, AllOf
<1>7. n \in T
  <2> HIDE DEF T
  <2> QED  BY <1>6
<1> QED  BY <1>1, <1>2, <1>3, <1>7 DEF Ones

LEMMA OnesIs ==
    ASSUME NEW b \in Seq(BOOLEAN)
    PROVE  /\ Ones(b) \in Seq(Nat \ {0})
           /\ Ones(b) \in Seq(Nat)
           /\ \A j, k \in DOMAIN Ones(b) : j < k => Ones(b)[j] < Ones(b)[k]
           /\ \A k \in DOMAIN Ones(b) : b[Ones(b)[k]]
<1>1. PICK n \in Nat : n = Len(b)
  OBVIOUS
<1>2. PICK P : P = {i \in DOMAIN b : b[i]}
  OBVIOUS
<1>3. PICK o : o = InOrder(P, n)
  OBVIOUS
<1>4. Ones(b) = o
  BY <1>1, <1>2, <1>3 DEF Ones
<1>5. Rises(o, n) /\ \A k \in DOMAIN o : o[k] \in P
  BY <1>3, InOrderRises
<1>6. o \in Seq(1 .. n) /\ \A j, k \in DOMAIN o : j < k => o[j] < o[k]
  BY <1>5 DEF Rises
<1>7. \A k \in DOMAIN o : o[k] \in Nat \ {0} /\ b[o[k]]
  BY <1>2, <1>5, <1>6
<1>8. o \in [1 .. Len(o) -> Nat \ {0}] /\ o \in [1 .. Len(o) -> Nat] /\ Len(o) \in Nat
  BY <1>6, <1>7
<1> QED  BY <1>4, <1>6, <1>7, <1>8

\* When the pulses of a track are played: two ticks apart or more, and the
\* first not before the fourth if the track begins with a zero.
LEMMA DueApart ==
    ASSUME NEW c \in CellLengths, NEW b \in Seq(BOOLEAN)
    PROVE  /\ Due(Ones(b), c) \in Seq(Nat)
           /\ Len(Due(Ones(b), c)) = Len(Ones(b))
           /\ \A k \in 1 .. Len(Ones(b)) - 1 :
                  Due(Ones(b), c)[k + 1] >= Due(Ones(b), c)[k] + 2
           /\ ~b[1] /\ Ones(b) # <<>> => Due(Ones(b), c)[1] >= 4
<1>1. PICK o \in Seq(Nat) : o = Ones(b)
  BY OnesIs
<1>2. PICK K \in Nat : K = Len(o) /\ DOMAIN o = 1 .. K
  OBVIOUS
<1>3. \A k \in 1 .. K : o[k] \in Nat \ {0}
  BY <1>1, <1>2, OnesIs
<1>4. \A k \in Nat : k <= K => At(o, c, k) \in Nat /\ Delay(o, c, k) \in Nat
  <2>1. ASSUME NEW k \in Nat, k <= K PROVE At(o, c, k) \in Nat
    <3>1. k \in 0 .. Len(o)
      BY <1>2, <2>1
    <3> QED  BY <3>1, AtIn
  <2> QED  BY <2>1, DelaySteps
<1>5. \A k \in 1 .. K : Due(o, c)[k] = At(o, c, k) + Delay(o, c, k)
  BY <1>2 DEF Due
<1>6. Due(o, c) \in Seq(Nat) /\ Len(Due(o, c)) = K
  <2>1. \A k \in 1 .. K : At(o, c, k) + Delay(o, c, k) \in Nat
    BY <1>4
  <2>2. Due(o, c) \in [1 .. K -> Nat]
    BY <1>2, <2>1 DEF Due
  <2> QED  BY <2>2
<1>7. ASSUME NEW k \in 1 .. K - 1 PROVE Due(o, c)[k + 1] >= Due(o, c)[k] + 2
  <2>1. k \in Nat /\ k \in 1 .. K /\ k + 1 \in 1 .. K /\ k + 1 \in Nat /\ k <= K /\ k + 1 <= K
    OBVIOUS
  <2>2. o[k] \in Nat /\ o[k + 1] \in Nat /\ o[k] < o[k + 1]
    BY <1>1, <1>2, <1>3, <2>1, OnesIs
  <2>3. At(o, c, k + 1) >= At(o, c, k) + 2
    BY <2>1, <2>2, Apart DEF At
  <2>4. Delay(o, c, k + 1) >= Delay(o, c, k)
    <3>1. Delay(o, c, k + 1) = Delay(o, c, k)
                + IF (At(o, c, k + 1) - At(o, c, k)) % Span = 0 THEN 1 ELSE 0
      BY <2>1, DelaySteps
    <3>2. Delay(o, c, k) \in Nat
      BY <1>4, <2>1
    <3> QED  BY <3>1, <3>2
  <2>5. At(o, c, k) \in Nat /\ Delay(o, c, k) \in Nat /\ At(o, c, k + 1) \in Nat /\ Delay(o, c, k + 1) \in Nat
    BY <1>4, <2>1
  <2>6. Due(o, c)[k] = At(o, c, k) + Delay(o, c, k) /\ Due(o, c)[k + 1] = At(o, c, k + 1) + Delay(o, c, k + 1)
    BY <1>5, <2>1
  <2> QED  BY <2>3, <2>4, <2>5, <2>6
<1>8. ASSUME ~b[1], o # <<>> PROVE Due(o, c)[1] >= 4
  <2>1. K > 0 /\ 1 \in 1 .. K /\ 1 \in Nat /\ 1 <= K
    BY <1>2, <1>8
  <2>2. PICK i \in Nat \ {0} : i = o[1]
    BY <1>3, <2>1
  <2>3. i >= 2
    <3>1. i # 1
      BY <1>1, <1>2, <1>8, <2>1, <2>2, OnesIs
    <3> QED  BY <3>1
  <2>4. At(o, c, 1) = (i * c[1]) \div c[2]
    BY <2>2 DEF At
  <2>5. (1 * c[1]) \div c[2] >= (0 * c[1]) \div c[2] + 2
    <3>1. 0 \in Nat /\ 1 \in Nat /\ 0 < 1
      OBVIOUS
    <3> QED  BY <3>1, Apart
  <2>6. (i * c[1]) \div c[2] >= (1 * c[1]) \div c[2] + 2
    <3>1. 1 \in Nat /\ 1 < i /\ i \in Nat
      BY <2>3
    <3> QED  BY <3>1, Apart
  <2>7. (0 * c[1]) \div c[2] = 0
    <3>1. PICK a \in Nat, d \in Nat \ {0} : c[1] = a /\ c[2] = d
      BY DEF CellLengths
    <3>2. 0 * a = 0 /\ 0 \div d = 0
      BY <3>1
    <3> QED  BY <3>1, <3>2
  <2>8. \A j \in Nat : (j * c[1]) \div c[2] \in Nat
    <3>1. <<>> \in Seq(Nat)
      OBVIOUS
    <3> QED  BY <3>1, CellsOf
  <2>9. PICK x \in Nat : x = (1 * c[1]) \div c[2]
    <3>1. 1 \in Nat
      OBVIOUS
    <3> QED  BY <2>8, <3>1
  <2>10. PICK y \in Nat : y = (i * c[1]) \div c[2]
    BY <2>8
  <2>11. y >= 4
    BY <2>5, <2>6, <2>7, <2>9, <2>10
  <2>12. Delay(o, c, 1) \in Nat /\ Due(o, c)[1] = y + Delay(o, c, 1)
    BY <1>4, <1>5, <2>1, <2>4, <2>10
  <2> QED  BY <2>11, <2>12
<1> QED  BY <1>1, <1>2, <1>6, <1>7, <1>8

LEMMA WantedIs ==
    Wanted = Due(Ones(bits), cell)
BY DEF Wanted, Due, At, Delay

-----------------------------------------------------------------------------
(* The tracks.                                                               *)

\* The parts of a sequence, one after the other.
Joins(f, ss, N) == f[0] = <<>> /\ \A i \in 1 .. N : f[i] = f[i - 1] \o ss[i]

LEMMA FlattenJoins ==
    ASSUME NEW S, NEW N \in Nat, NEW ss \in [1 .. N -> Seq(S)]
    PROVE  \E f \in [0 .. N -> Seq(S)] : Joins(f, ss, N) /\ FlattenSeq(ss) = f[N]
<1> DEFINE E(f) == f = [i \in 1 .. N |-> IF i = 1 THEN ss[i] ELSE f[i - 1] \o ss[i]]
           F == CHOOSE f : E(f)
           g == [i \in 1 .. N |-> [x \in Seq(S) |-> x \o ss[i]]]
<1>0. ss \in Seq(Seq(S)) /\ Len(ss) = N /\ <<>> \in Seq(S)
  OBVIOUS
<1>1. CASE N = 0
  <2>1. FlattenSeq(ss) = <<>>
    BY <1>0, <1>1 DEF FlattenSeq
  <2>2. PICK f \in [0 .. 0 -> Seq(S)] : f[0] = <<>>
    <3>1. PICK f : f = [i \in 0 .. 0 |-> <<>>]
      OBVIOUS
    <3>2. f \in [0 .. 0 -> Seq(S)] /\ f[0] = <<>>
      BY <1>0, <3>1
    <3> QED  BY <3>2
  <2> QED  BY <1>1, <2>1, <2>2 DEF Joins
<1>2. CASE N # 0
  <2>1. FlattenSeq(ss) = F[N]
    BY <1>0, <1>2 DEF FlattenSeq
  <2>2. g \in [1 .. N -> [Seq(S) -> Seq(S)]]
    <3>1. ASSUME NEW i \in 1 .. N PROVE [x \in Seq(S) |-> x \o ss[i]] \in [Seq(S) -> Seq(S)]
      <4>1. ss[i] \in Seq(S)
        OBVIOUS
      <4>2. \A x \in Seq(S) : x \o ss[i] \in Seq(S)
        BY <4>1, ConcatProperties
      <4> QED  BY <4>2
    <3> QED  BY <3>1
  <2>3. PICK f \in [0 .. N -> Seq(S)] : Follows(f, <<>>, g, N)
    <3> HIDE DEF g
    <3> QED  BY <1>0, <2>2, Iterated
  <2>4. f[0] = <<>> /\ \A i \in 1 .. N : f[i] = f[i - 1] \o ss[i]
    <3>1. ASSUME NEW i \in 1 .. N PROVE f[i] = f[i - 1] \o ss[i]
      <4>1. f[i - 1] \in Seq(S)
        OBVIOUS
      <4>2. g[i][f[i - 1]] = f[i - 1] \o ss[i]
        BY <4>1
      <4> QED  BY <2>3, <4>2 DEF Follows
    <3> QED  BY <2>3, <3>1 DEF Follows
  <2>5. \A i \in 1 .. N : f[i] = IF i = 1 THEN ss[i] ELSE f[i - 1] \o ss[i]
    <3>1. ASSUME NEW i \in 1 .. N, i = 1 PROVE f[i] = ss[i]
      <4>1. ss[i] \in Seq(S)
        OBVIOUS
      <4>2. <<>> \o ss[i] = ss[i]
        BY <4>1, ConcatEmptySeq
      <4>3. f[i - 1] = <<>>
        BY <2>4, <3>1
      <4> QED  BY <2>4, <4>2, <4>3
    <3> QED  BY <2>4, <3>1
  <2>6. PICK h : h = [i \in 1 .. N |-> f[i]]
    OBVIOUS
  <2>7. E(h)
    <3>1. \A i \in 1 .. N : h[i] = IF i = 1 THEN ss[i] ELSE h[i - 1] \o ss[i]
      <4>1. ASSUME NEW i \in 1 .. N PROVE h[i] = IF i = 1 THEN ss[i] ELSE h[i - 1] \o ss[i]
        <5>1. i # 1 => h[i - 1] = f[i - 1]
          BY <2>6
        <5> QED  BY <2>5, <2>6, <5>1
      <4> QED  BY <4>1
    <3>2. h = [i \in 1 .. N |-> h[i]]
      BY <2>6
    <3> QED  BY <3>1, <3>2
  <2>8. E(F)
    <3> HIDE DEF E
    <3> QED  BY <2>7, Zenon
  <2>9. \A i \in 1 .. N : F[i] = IF i = 1 THEN ss[i] ELSE F[i - 1] \o ss[i]
    <3> HIDE DEF F
    <3> QED  BY <2>8
  <2> DEFINE T == {i \in 0 .. N : i = 0 \/ F[i] = f[i]}
  <2>10. 0 \in T
    OBVIOUS
  <2>11. ASSUME NEW i \in 1 .. N, i - 1 \in T PROVE i \in T
    <3> HIDE DEF F
    <3>1. F[i] = f[i]
      BY <2>5, <2>9, <2>11
    <3> QED  BY <3>1
  <2>12. \A i \in 0 .. N : i \in T
    <3> HIDE DEF T
    <3> QED  BY <2>10, <2>11, AllOf
  <2>13. F[N] = f[N]
    <3>1. N \in T
      <4> HIDE DEF T
      <4> QED  BY <2>12
    <3> HIDE DEF F
    <3> QED  BY <1>2, <3>1
  <2> HIDE DEF F
  <2> QED  BY <2>1, <2>4, <2>13 DEF Joins
<1> QED  BY <1>1, <1>2

LEMMA FlattenType ==
    ASSUME NEW S, NEW N \in Nat, NEW ss \in [1 .. N -> Seq(S)]
    PROVE  FlattenSeq(ss) \in Seq(S)
<1>1. PICK f \in [0 .. N -> Seq(S)] : FlattenSeq(ss) = f[N]
  BY FlattenJoins
<1> QED  BY <1>1

LEMMA EncodedType ==
    ASSUME NEW data \in Seq(BOOLEAN), NEW last \in BOOLEAN
    PROVE  EncodeFm(data) \in Seq(BOOLEAN) /\ EncodeMfm(data, last) \in Seq(BOOLEAN)
<1>1. PICK n \in Nat : n = Len(data) /\ DOMAIN data = 1 .. n
  OBVIOUS
<1>2. EncodeFm(data) \in Seq(BOOLEAN)
  <2>1. ASSUME NEW i \in 1 .. n PROVE <<TRUE, data[i]>> \in Seq(BOOLEAN)
    <3>1. data[i] \in BOOLEAN
      BY <1>1
    <3> QED  BY <3>1
  <2>2. PICK ss : ss = [i \in DOMAIN data |-> <<TRUE, data[i]>>]
    OBVIOUS
  <2>3. ss \in [1 .. n -> Seq(BOOLEAN)]
    BY <1>1, <2>1, <2>2
  <2>4. FlattenSeq(ss) \in Seq(BOOLEAN)
    BY <2>3, FlattenType
  <2> QED  BY <2>2, <2>4 DEF EncodeFm
<1>3. EncodeMfm(data, last) \in Seq(BOOLEAN)
  <2> DEFINE before(i) == IF i = 1 THEN last ELSE data[i - 1]
  <2>1. ASSUME NEW i \in 1 .. n PROVE <<~before(i) /\ ~data[i], data[i]>> \in Seq(BOOLEAN)
    <3>1. data[i] \in BOOLEAN
      BY <1>1
    <3>2. (~before(i) /\ ~data[i]) \in BOOLEAN
      OBVIOUS
    <3> HIDE DEF before
    <3> QED  BY <3>1, <3>2
  <2>2. PICK ss : ss = [i \in DOMAIN data |-> <<~before(i) /\ ~data[i], data[i]>>]
    OBVIOUS
  <2>3. ss \in [1 .. n -> Seq(BOOLEAN)]
    <3> HIDE DEF before
    <3> QED  BY <1>1, <2>1, <2>2
  <2>4. FlattenSeq(ss) \in Seq(BOOLEAN)
    BY <2>3, FlattenType
  <2> QED  BY <2>2, <2>4 DEF EncodeMfm
<1> QED  BY <1>2, <1>3

LEMMA RecordTrackType ==
    ASSUME NEW data \in Seq(BOOLEAN), NEW fm \in BOOLEAN, Sync \in Seq(BOOLEAN) \ {<<>>}
    PROVE  RecordTrack(data, fm) \in Seq(BOOLEAN) /\ ~RecordTrack(data, fm)[1]
<1>1. Gap \in Seq(BOOLEAN)
  <2>1. PICK zeroes \in Seq(BOOLEAN) : zeroes = [i \in 1 .. 3 |-> FALSE]
    <3>1. PICK z : z = [i \in 1 .. 3 |-> FALSE]
      OBVIOUS
    <3>2. PICK n \in Nat : z \in [1 .. n -> BOOLEAN]
      BY <3>1
    <3>3. z \in Seq(BOOLEAN)
      BY ONLY n \in Nat, <3>2
    <3> QED  BY <3>1, <3>3
  <2>2. EncodeMfm(zeroes, FALSE) \in Seq(BOOLEAN)
    BY EncodedType
  <2> QED  BY <2>1, <2>2 DEF Gap
<1>2. RecordBits(data, fm) \in Seq(BOOLEAN)
  <2>1. Last(Sync) \in BOOLEAN
    <3>1. Len(Sync) \in 1 .. Len(Sync)
      OBVIOUS
    <3> QED  BY <3>1 DEF Last
  <2>2. PICK x \in Seq(BOOLEAN) : x = IF fm THEN EncodeFm(data) ELSE EncodeMfm(data, Last(Sync))
    BY <2>1, EncodedType
  <2>3. Sync \o x \in Seq(BOOLEAN)
    BY ConcatProperties
  <2> QED  BY <2>2, <2>3 DEF RecordBits
<1>3. EncodeFm(<<TRUE, TRUE>>) \in Seq(BOOLEAN)
  <2>1. <<TRUE, TRUE>> \in Seq(BOOLEAN) /\ TRUE \in BOOLEAN
    OBVIOUS
  <2> QED  BY <2>1, EncodedType
<1>4. PICK a \in Seq(BOOLEAN) : a = <<FALSE>> /\ Len(a) = 1 /\ a[1] = FALSE
  <2>1. PICK a : a = <<FALSE>>
    OBVIOUS
  <2>2. Len(a) = 1 /\ a[1] = FALSE /\ FALSE \in BOOLEAN
    BY <2>1
  <2>3. a \in Seq(BOOLEAN)
    BY <2>1, <2>2
  <2> QED  BY <2>1, <2>2, <2>3
<1>5. PICK x \in Seq(BOOLEAN) : x = a \o Gap
  BY <1>1, ConcatProperties
<1>6. Len(x) >= 1 /\ x[1] = a[1]
  <2>1. Len(Gap) \in Nat /\ 1 \in 1 .. Len(a) + Len(Gap) /\ 1 <= Len(a)
    BY <1>1, <1>4
  <2>2. x[1] = a[1] /\ Len(x) = Len(a) + Len(Gap)
    BY <1>1, <1>5, <2>1, ConcatProperties
  <2> QED  BY <1>4, <2>1, <2>2
<1>9. PICK y \in Seq(BOOLEAN) : y = x \o RecordBits(data, fm)
  BY <1>2, ConcatProperties
<1>10. Len(y) >= 1 /\ y[1] = x[1]
  <2>1. Len(RecordBits(data, fm)) \in Nat /\ 1 \in 1 .. Len(x) + Len(RecordBits(data, fm)) /\ 1 <= Len(x)
    BY <1>2, <1>6
  <2>2. y[1] = x[1] /\ Len(y) = Len(x) + Len(RecordBits(data, fm))
    BY <1>2, <1>9, <2>1, ConcatProperties
  <2> QED  BY <1>6, <2>1, <2>2
<1>7. PICK e \in Seq(BOOLEAN) : e = EncodeFm(<<TRUE, TRUE>>)
  BY <1>3
<1>8. y \o e \in Seq(BOOLEAN) /\ (y \o e)[1] = y[1]
  <2>1. Len(e) \in Nat /\ 1 \in 1 .. Len(y) + Len(e) /\ 1 <= Len(y)
    BY <1>10
  <2> QED  BY <2>1, ConcatProperties
<1>11. RecordTrack(data, fm) = y \o e
  BY <1>4, <1>5, <1>7, <1>9 DEF RecordTrack
<1> QED  BY <1>4, <1>6, <1>8, <1>10, <1>11

-----------------------------------------------------------------------------
(* The Sequencer.                                                            *)

LEMMA MaxOfTwo ==
    ASSUME NEW t \in Nat
    PROVE  Max({t - 1, 0}) = IF t = 0 THEN 0 ELSE t - 1
<1>1. PICK n \in Nat : n = IF t = 0 THEN 0 ELSE t - 1
  OBVIOUS
<1>2. n \in {t - 1, 0} /\ \A y \in {t - 1, 0} : n >= y
  BY <1>1
<1>3. \A x \in {t - 1, 0} : (\A y \in {t - 1, 0} : x >= y) => x = n
  BY <1>1
<1> QED  BY <1>1, <1>2, <1>3 DEF Max

\* The pulses of the first opcodes are the first ones of all.
Begins(short, long) ==
    /\ Len(short) <= Len(long)
    /\ \A k \in 1 .. Len(short) : short[k] = long[k]

LEMMA PartOf ==
    ASSUME NEW m \in Seq(Opcodes), NEW p \in 0 .. Len(m)
    PROVE  /\ SubSeq(m, 1, p) \in Seq(Opcodes)
           /\ Len(SubSeq(m, 1, p)) = p
           /\ p < Len(m) => /\ m[p + 1] \in Opcodes
                            /\ SubSeq(m, 1, p + 1) = Append(SubSeq(m, 1, p), m[p + 1])
<1>1. SubSeq(m, 1, p) \in Seq(Opcodes) /\ Len(SubSeq(m, 1, p)) = p
  <2>1. 1 \in Int /\ p \in Int /\ \A i \in 1 .. p : m[i] \in Opcodes
    OBVIOUS
  <2> QED  BY <2>1, SubSeqProperties
<1>2. ASSUME p < Len(m)
      PROVE  m[p + 1] \in Opcodes /\ SubSeq(m, 1, p + 1) = Append(SubSeq(m, 1, p), m[p + 1])
  <2>1. 1 \in 1 .. Len(m) /\ p + 1 \in 1 .. Len(m) /\ (p + 1) - 1 = p
    BY <1>2
  <2>2. PICK n : n = p + 1
    OBVIOUS
  <2>3. SubSeq(m, 1, n) = SubSeq(m, 1, n - 1) \o <<m[n]>>
    BY <2>1, <2>2, SubSeqRecursiveSecond
  <2>4. m[n] \in Opcodes
    BY <2>1, <2>2
  <2> QED  BY <1>1, <2>1, <2>2, <2>3, <2>4, AppendIsConcat
<1> QED  BY <1>1, <1>2

LEMMA PlayedPart ==
    ASSUME NEW m \in Seq(Opcodes), NEW p \in 0 .. Len(m)
    PROVE  Begins(PulseTicks(SubSeq(m, 1, p)), PulseTicks(m))
<1>1. PICK n \in Nat : n = Len(m)
  OBVIOUS
<1>2. \A i \in 0 .. n : PulseTicks(SubSeq(m, 1, i)) \in Seq(Nat)
  <2>1. ASSUME NEW i \in 0 .. n PROVE PulseTicks(SubSeq(m, 1, i)) \in Seq(Nat)
    <3>1. PICK d \in Seq(Opcodes) : d = SubSeq(m, 1, i) /\ Len(d) = i
      BY <1>1, PartOf
    <3>2. Len(d) \in 0 .. Len(d)
      OBVIOUS
    <3>3. PulseTicks(d) \in Seq(Nat)
      BY <3>2, TicksIn DEF PulseTicks
    <3> QED  BY <3>1, <3>3
  <2> QED  BY <2>1
<1>3. ASSUME NEW i \in 0 .. n, i < n
      PROVE  Begins(PulseTicks(SubSeq(m, 1, i)), PulseTicks(SubSeq(m, 1, i + 1)))
  <2>1. PICK d \in Seq(Opcodes), b \in Opcodes :
            d = SubSeq(m, 1, i) /\ b = m[i + 1] /\ SubSeq(m, 1, i + 1) = Append(d, b)
    BY <1>1, <1>3, PartOf
  <2>2. PICK t \in Seq(Nat) : t = PulseTicks(d)
    BY <1>2, <2>1
  <2>3. PICK x \in Nat : x = Elapsed(d)[Len(d)] + b.ticks
    BY LastElapsed DEF Opcodes
  <2>4. PulseTicks(Append(d, b)) = IF b.pulse THEN Append(t, x) ELSE t
    BY <2>2, <2>3, OneMore
  <2>5. PICK u : u = Append(t, x)
    OBVIOUS
  <2>6. Begins(t, u) /\ Begins(t, t)
    <3>1. Len(u) = Len(t) + 1 /\ \A k \in 1 .. Len(t) : u[k] = t[k]
      BY <2>5, AppendProperties
    <3> QED  BY <3>1 DEF Begins
  <2> QED  BY <2>1, <2>2, <2>4, <2>5, <2>6
<1> DEFINE T == {e \in 0 .. n - p :
                    Begins(PulseTicks(SubSeq(m, 1, p)), PulseTicks(SubSeq(m, 1, p + e)))}
<1>4. 0 \in T
  <2>1. PICK t \in Seq(Nat) : t = PulseTicks(SubSeq(m, 1, p))
    BY <1>1, <1>2
  <2>2. Begins(t, t)
    BY DEF Begins
  <2>3. p + 0 = p /\ 0 \in 0 .. n - p
    BY <1>1
  <2> QED  BY <2>1, <2>2, <2>3
<1>5. ASSUME NEW e \in 1 .. n - p, e - 1 \in T PROVE e \in T
  <2>1. PICK i \in 0 .. n : i = p + (e - 1) /\ i < n /\ i + 1 = p + e
    BY <1>1
  <2>2. PICK t \in Seq(Nat) : t = PulseTicks(SubSeq(m, 1, p))
    BY <1>1, <1>2
  <2>3. PICK u \in Seq(Nat) : u = PulseTicks(SubSeq(m, 1, i))
    BY <1>2
  <2>4. PICK v \in Seq(Nat) : v = PulseTicks(SubSeq(m, 1, p + e))
    <3>1. p + e \in 0 .. n
      BY <2>1
    <3> QED  BY <1>2, <3>1
  <2>5. Begins(t, u)
    BY <1>5, <2>1, <2>2, <2>3
  <2>6. Begins(u, v)
    BY <1>3, <2>1, <2>3, <2>4
  <2>7. Begins(t, v)
    BY <2>5, <2>6 DEF Begins
  <2> QED  BY <2>2, <2>4, <2>7
<1>6. \A e \in 0 .. n - p : e \in T
  <2>1. n - p \in Nat
    BY <1>1
  <2> HIDE DEF T
  <2> QED  BY <1>4, <1>5, <2>1, AllOf
<1>7. n - p \in T
  <2>1. n - p \in 0 .. n - p
    BY <1>1
  <2> HIDE DEF T
  <2> QED  BY <1>6, <2>1
<1>8. p + (n - p) = n /\ SubSeq(m, 1, n) = m
  BY <1>1, SubSeqFull
<1> QED  BY <1>7, <1>8

-----------------------------------------------------------------------------
(* The Sampler.                                                              *)

\* The edges of a signal at some times are the ticks of opcodes, but for one
\* that is kept in the edge register and one that it has not seen.
Seen(times, ticks, edge, pending, t) ==
    /\ times \in Seq(Nat) /\ ticks \in Seq(Nat) /\ t \in Nat
    /\ Len(times) = Len(ticks) + (IF edge THEN 1 ELSE 0) + (IF pending THEN 1 ELSE 0)
    /\ \A k \in 1 .. Len(ticks) : ticks[k] = times[k] + 1
    /\ edge => times[Len(ticks) + 1] + 1 = t
    /\ pending => times[Len(times)] = t

LEMMA SeenTick ==
    ASSUME NEW times, NEW ticks, NEW edge \in BOOLEAN, NEW pending \in BOOLEAN, NEW t,
           Seen(times, ticks, edge, pending, t)
    PROVE  Seen(times, IF edge THEN Append(ticks, t) ELSE ticks, pending, FALSE, t + 1)
<1>1. PICK n \in Nat : n = Len(ticks)
  BY DEF Seen
<1>2. times \in Seq(Nat) /\ ticks \in Seq(Nat) /\ t \in Nat
  BY DEF Seen
<1>3. CASE edge
  <2>1. PICK u \in Seq(Nat) : /\ u = Append(ticks, t) /\ Len(u) = n + 1 /\ u[n + 1] = t
                              /\ \A k \in 1 .. n : u[k] = ticks[k]
    <3>1. PICK u : u = Append(ticks, t)
      OBVIOUS
    <3>2. /\ u \in Seq(Nat) /\ Len(u) = n + 1 /\ u[n + 1] = t
          /\ \A k \in 1 .. n : u[k] = ticks[k]
      BY <1>1, <1>2, <3>1, AppendProperties
    <3> QED  BY <3>1, <3>2
  <2>2. Len(times) = n + 1 + IF pending THEN 1 ELSE 0
    BY <1>1, <1>3 DEF Seen
  <2>3. \A k \in 1 .. n + 1 : u[k] = times[k] + 1
    BY <1>1, <1>2, <1>3, <2>1 DEF Seen
  <2>4. pending => times[n + 2] + 1 = t + 1
    <3>1. pending => Len(times) = n + 2 /\ times[Len(times)] = t
      BY <2>2 DEF Seen
    <3> QED  BY <3>1
  <2>5. Seen(times, u, pending, FALSE, t + 1)
    <3>1. pending => times[Len(u) + 1] + 1 = t + 1
      <4>1. Len(u) + 1 = n + 2
        BY <2>1
      <4> QED  BY <2>4, <4>1
    <3>2. Len(times) = Len(u) + (IF pending THEN 1 ELSE 0) + (IF FALSE THEN 1 ELSE 0)
      BY <2>1, <2>2
    <3>3. \A k \in 1 .. Len(u) : u[k] = times[k] + 1
      BY <2>1, <2>3
    <3>4. times \in Seq(Nat) /\ u \in Seq(Nat) /\ t + 1 \in Nat
      BY <1>2
    <3> QED  BY <3>1, <3>2, <3>3, <3>4 DEF Seen
  <2> QED  BY <1>3, <2>1, <2>5
<1>4. CASE ~edge
  <2>1. Len(times) = n + IF pending THEN 1 ELSE 0
    BY <1>1, <1>4 DEF Seen
  <2>2. pending => times[n + 1] + 1 = t + 1
    <3>1. pending => Len(times) = n + 1 /\ times[Len(times)] = t
      BY <2>1 DEF Seen
    <3> QED  BY <3>1
  <2>3. Seen(times, ticks, pending, FALSE, t + 1)
    <3>1. pending => times[Len(ticks) + 1] + 1 = t + 1
      BY <1>1, <2>2
    <3>2. Len(times) = Len(ticks) + (IF pending THEN 1 ELSE 0) + (IF FALSE THEN 1 ELSE 0)
      BY <1>1, <2>1
    <3>3. \A k \in 1 .. Len(ticks) : ticks[k] = times[k] + 1
      BY DEF Seen
    <3>4. t + 1 \in Nat
      BY <1>2
    <3> QED  BY <1>2, <3>1, <3>2, <3>3, <3>4 DEF Seen
  <2> QED  BY <1>4, <2>3
<1> QED  BY <1>3, <1>4

LEMMA SeenEdge ==
    ASSUME NEW times, NEW ticks, NEW edge \in BOOLEAN, NEW t,
           Seen(times, ticks, edge, FALSE, t)
    PROVE  Seen(Append(times, t), ticks, edge, TRUE, t)
<1>1. PICK n \in Nat : n = Len(times)
  BY DEF Seen
<1>2. times \in Seq(Nat) /\ ticks \in Seq(Nat) /\ t \in Nat
  BY DEF Seen
<1>3. PICK u \in Seq(Nat) : /\ u = Append(times, t) /\ Len(u) = n + 1 /\ u[n + 1] = t
                            /\ \A k \in 1 .. n : u[k] = times[k]
  <2>1. PICK u : u = Append(times, t)
    OBVIOUS
  <2>2. /\ u \in Seq(Nat) /\ Len(u) = n + 1 /\ u[n + 1] = t
        /\ \A k \in 1 .. n : u[k] = times[k]
    BY <1>1, <1>2, <2>1, AppendProperties
  <2> QED  BY <2>1, <2>2
<1>4. PICK r \in Nat : r = Len(ticks) /\ n = r + IF edge THEN 1 ELSE 0
  BY <1>1, <1>2 DEF Seen
<1>5. \A k \in 1 .. r : ticks[k] = u[k] + 1
  <2>1. \A k \in 1 .. r : k \in 1 .. n
    BY <1>4
  <2> QED  BY <1>3, <1>4, <2>1 DEF Seen
<1>6. edge => u[r + 1] + 1 = t
  <2>1. edge => r + 1 \in 1 .. n
    BY <1>4
  <2> QED  BY <1>3, <1>4, <2>1 DEF Seen
<1>7. Seen(u, ticks, edge, TRUE, t)
  BY <1>2, <1>3, <1>4, <1>5, <1>6 DEF Seen
<1> QED  BY <1>3, <1>7

LEMMA PrefixIs ==
    ASSUME NEW S, NEW s \in Seq(S), NEW t \in Seq(S), Begins(s, t)
    PROVE  IsPrefix(s, t)
<1>1. PICK n \in Nat : n = Len(s) /\ n <= Len(t) /\ \A k \in 1 .. n : s[k] = t[k]
  BY DEF Begins
<1>2. PICK u \in Seq(S) : /\ u = SubSeq(t, 1, n) /\ Len(u) = n
                            /\ \A k \in 1 .. n : u[k] = t[k]
  <2>1. 1 \in Int /\ n \in Int /\ \A i \in 1 .. n : t[i] \in S
    BY <1>1
  <2>2. PICK u : u = SubSeq(t, 1, n)
    OBVIOUS
  <2>3. u \in Seq(S) /\ Len(u) = (IF 1 <= n THEN n - 1 + 1 ELSE 0)
        /\ \A i \in 1 .. n - 1 + 1 : u[i] = t[1 + i - 1]
    BY <2>1, <2>2, SubSeqProperties
  <2>4. Len(u) = n
    BY <2>3
  <2>5. \A k \in 1 .. n : u[k] = t[k]
    <3>1. ASSUME NEW k \in 1 .. n PROVE u[k] = t[k]
      <4>1. k \in 1 .. n - 1 + 1 /\ 1 + k - 1 = k
        OBVIOUS
      <4> QED  BY <2>3, <4>1
    <3> QED  BY <3>1
  <2> QED  BY <2>2, <2>3, <2>4, <2>5
<1>3. s = u
  BY <1>1, <1>2, SeqEqual
<1>4. SubSeq(s, 1, n) = s
  BY <1>1, SubSeqFull
<1> QED  BY <1>1, <1>2, <1>3, <1>4 DEF IsPrefix

LEMMA BoundOf ==
    ASSUME NEW s \in Seq(Nat)
    PROVE  \E b \in Nat : \A k \in 1 .. Len(s) : s[k] <= b
<1>1. PICK n \in Nat : n = Len(s)
  OBVIOUS
<1> DEFINE T == {i \in 0 .. n : \E b \in Nat : \A k \in 1 .. i : s[k] <= b}
<1>2. 0 \in T
  <2>1. \A k \in 1 .. 0 : s[k] <= 0
    OBVIOUS
  <2> QED  BY <2>1
<1>3. ASSUME NEW i \in 1 .. n, i - 1 \in T PROVE i \in T
  <2>1. PICK b \in Nat : \A k \in 1 .. i - 1 : s[k] <= b
    BY <1>3
  <2>2. s[i] \in Nat
    BY <1>1
  <2>3. PICK d \in Nat : d = b + s[i]
    BY <2>2
  <2>4. ASSUME NEW k \in 1 .. i PROVE s[k] <= d
    <3>1. CASE k = i
      BY <2>2, <2>3, <3>1
    <3>2. CASE k # i
      <4>1. k \in 1 .. i - 1 /\ s[k] \in Nat
        BY <1>1, <3>2
      <4> QED  BY <2>1, <2>2, <2>3, <4>1
    <3> QED  BY <3>1, <3>2
  <2>5. \E u \in Nat : \A k \in 1 .. i : s[k] <= u
    BY <2>4
  <2>6. i \in 0 .. n
    OBVIOUS
  <2> QED  BY ONLY <2>5, <2>6 DEF T
<1>4. \A i \in 0 .. n : i \in T
  <2> HIDE DEF T
  <2> QED  BY <1>2, <1>3, AllOf
<1>5. n \in T
  <2> HIDE DEF T
  <2> QED  BY <1>4
<1> QED  BY <1>1, <1>5

\* Nothing is later than the last edge of either signal.
LEMMA LastOf ==
    ASSUME NEW s \in Seq(Nat), NEW r \in Seq(Nat)
    PROVE  LET m == Max({0} \cup Range(s) \cup Range(r))
           IN  /\ m \in Nat
               /\ \A k \in 1 .. Len(s) : s[k] <= m
               /\ \A k \in 1 .. Len(r) : r[k] <= m
<1>1. PICK all : all = {0} \cup Range(s) \cup Range(r)
  OBVIOUS
<1>2. all \subseteq Nat
  <2>1. \A k \in DOMAIN s : s[k] \in Nat
    OBVIOUS
  <2>2. \A k \in DOMAIN r : r[k] \in Nat
    OBVIOUS
  <2> QED  BY <1>1, <2>1, <2>2 DEF Range
<1>3. PICK b \in Nat : \A k \in 1 .. Len(s) : s[k] <= b
  BY BoundOf
<1>4. PICK d \in Nat : \A k \in 1 .. Len(r) : r[k] <= d
  BY BoundOf
<1> DEFINE U == {u \in Nat : \A x \in all : x <= u}
<1>5. U # {} /\ U \in SUBSET Nat
  <2>1. PICK u \in Nat : u = b + d
    OBVIOUS
  <2>2. ASSUME NEW x \in all PROVE x <= u
    <3>1. CASE x = 0  BY <2>1, <3>1
    <3>2. ASSUME NEW k \in DOMAIN s, x = s[k] PROVE x <= u
      <4>1. k \in 1 .. Len(s)
        OBVIOUS
      <4>2. x <= b /\ x \in Nat
        BY <1>2, <1>3, <3>2, <4>1
      <4> QED  BY <2>1, <4>2
    <3>3. ASSUME NEW k \in DOMAIN r, x = r[k] PROVE x <= u
      <4>1. k \in 1 .. Len(r)
        OBVIOUS
      <4>2. x <= d /\ x \in Nat
        BY <1>2, <1>4, <3>3, <4>1
      <4> QED  BY <2>1, <4>2
    <3> QED  BY <1>1, <3>1, <3>2, <3>3 DEF Range
  <2> QED  BY <2>2
<1>6. PICK u \in U : \A n \in U : u <= n
  <2> HIDE DEF U
  <2> QED  BY <1>5, LeastOf
<1>7. u \in all
  <2>1. SUFFICES ASSUME u \notin all PROVE FALSE
    OBVIOUS
  <2>2. 0 \in all /\ u \in Nat
    BY <1>1
  <2>3. PICK w \in Nat : u = w + 1
    <3>1. u - 1 \in Nat /\ u = (u - 1) + 1
      BY <2>1, <2>2
    <3> QED  BY <3>1
  <2>4. ASSUME NEW x \in all PROVE x <= w
    <3>1. x <= u /\ x # u /\ x \in Nat
      BY <1>2, <2>1
    <3> QED  BY <2>3, <3>1
  <2>5. w \in U
    BY <2>4
  <2>6. u <= w
    <3> HIDE DEF U
    <3> QED  BY <1>6, <2>5
  <2> QED  BY <2>3, <2>6
<1>8. u \in all /\ u \in Nat /\ \A x \in all : u >= x
  BY <1>2, <1>7
<1>9. Max(all) = u
  <2>1. \A x \in all : (\A y \in all : x >= y) => x = u
    BY <1>2, <1>8
  <2> QED  BY <1>8, <2>1 DEF Max
<1>10. \A k \in 1 .. Len(s) : s[k] \in all
  BY <1>1 DEF Range
<1>11. \A k \in 1 .. Len(r) : r[k] \in all
  BY <1>1 DEF Range
<1>12. \A k \in 1 .. Len(s) : s[k] <= u
  <2> HIDE DEF U
  <2> QED  BY <1>2, <1>8, <1>10
<1>13. \A k \in 1 .. Len(r) : r[k] <= u
  <2> HIDE DEF U
  <2> QED  BY <1>2, <1>8, <1>11
<1> QED  BY <1>1, <1>8, <1>9, <1>12, <1>13

-----------------------------------------------------------------------------
(* The invariant.                                                            *)

TrackOK == bits \in Seq(BOOLEAN) /\ cell \in CellLengths /\ (bits = <<>> \/ ~bits[1])

Types ==
    /\ state \in {"LOAD", "WRITING"} /\ countdown \in 0 .. Span - 1
    /\ pulsepending \in BOOLEAN /\ sampleclocked \in BOOLEAN /\ stray \in BOOLEAN
    /\ rdataToggle \in BOOLEAN /\ oldRdataToggle \in BOOLEAN /\ rdataEdge \in BOOLEAN
    /\ indexToggle \in BOOLEAN /\ oldIndexToggle \in BOOLEAN /\ indexEdge \in BOOLEAN
    /\ counter \in 0 .. Span /\ now \in Nat
    /\ map \in Seq(Opcodes) /\ captured \in Seq(Opcodes)
    /\ \A i \in 1 .. Len(map) : map[i].ticks <= Span
    /\ \A i \in 1 .. Len(captured) : captured[i].ticks \in 1 .. Span

\* The track as it is played, and what has been played of it after p opcodes.
Playing   == Slow(AppendBits(bits, cell))
Done(p)   == SubSeq(Playing, 1, p)

\* Clocks of the Sequencer since the reset; s is whether that has left one.
Counted(s) == now + s - IF sampleclocked THEN 1 ELSE 0

Strays == IF stray THEN 1 ELSE 0

\* The Sequencer after p opcodes.
AtOpcode(s, p) ==
    /\ p \in Nat /\ p + Len(map) = Len(Playing)
    /\ \A i \in 1 .. Len(map) : AtLeastOne(map[i]) = Playing[p + i]
    /\ state = "LOAD" /\ map # <<>> => Counted(s) = Elapsed(Done(p))[p]
    /\ state = "WRITING" =>
           /\ p > 0 /\ Counted(s) + countdown + 1 = Elapsed(Done(p))[p]
           /\ pulsepending = Playing[p].pulse

\* When its pulses are due; the first n are in time if they come then, or a tick
\* later.
DueOf == Due(Ones(bits), cell)

InTime(times, s, n) ==
    /\ \A k \in 1 .. n : times[k + Strays] + 1 + s \in {DueOf[k], DueOf[k] + 1}
    /\ stray => times[1] = 0

\* The n pulses it has given are those of the opcodes, but for one that it has
\* still to give.
Given(s, p, n) ==
    /\ n \in Nat /\ Len(rdata) = n + Strays
    /\ n + (IF state = "WRITING" /\ countdown > 0 /\ pulsepending THEN 1 ELSE 0)
         = Len(PulseTicks(Done(p)))
    /\ InTime(rdata, s, n)

Sequenced == \E s \in {0, 1}, p \in Nat, n \in Nat : AtOpcode(s, p) /\ Given(s, p, n)

SampledSoFar ==
    /\ Elapsed(captured)[Len(captured)] + counter = now
    /\ counter = 0 <=> now = 0
    /\ now = 0 => ~rdataEdge /\ ~indexEdge
    /\ Seen(rdata, PulseTicks(captured), rdataEdge, rdataToggle # oldRdataToggle, now)
    /\ Seen(index, IndexTicks(captured), indexEdge, indexToggle # oldIndexToggle, now)

PathInv == TrackOK /\ Types /\ Sequenced /\ SampledSoFar

-----------------------------------------------------------------------------

LEMMA TracksOK == Init => TrackOK
<1> SUFFICES ASSUME Init PROVE TrackOK
  OBVIOUS
<1>1. \A c \in Cells \cup RecordCells : c \in CellLengths
  BY FluxPathAssumption DEF CellLengths
<1>2. CASE bits \in Tracks /\ cell \in Cells
  BY <1>1, <1>2, FluxPathAssumption DEF TrackOK
<1>3. CASE bits \in RecordTracks /\ cell \in RecordCells
  <2>1. PICK data \in Records, fm \in BOOLEAN : bits = RecordTrack(data, fm)
    BY <1>3 DEF RecordTracks
  <2>2. data \in Seq(BOOLEAN) /\ Sync \in Seq(BOOLEAN) \ {<<>>}
    BY FluxPathAssumption
  <2>3. bits \in Seq(BOOLEAN) /\ ~bits[1]
    BY <2>1, <2>2, RecordTrackType
  <2> QED  BY <1>1, <1>3, <2>3 DEF TrackOK
<1>4. CASE bits = <<>> /\ cell = <<2, 1>>
  BY <1>4 DEF TrackOK, CellLengths
<1> QED  BY <1>2, <1>3, <1>4 DEF Init

LEMMA PlayingIs ==
    ASSUME TrackOK
    PROVE  /\ AppendBits(bits, cell) \in Seq(Opcodes)
           /\ \A k \in 1 .. Len(AppendBits(bits, cell)) : AppendBits(bits, cell)[k].ticks <= Span
           /\ Playing \in Seq(Opcodes) /\ Len(Playing) = Len(AppendBits(bits, cell))
           /\ \A k \in 1 .. Len(Playing) : Playing[k] = AtLeastOne(AppendBits(bits, cell)[k])
           /\ PulseTicks(Playing) = Due(Ones(bits), cell)
<1>1. Made(AppendBits(bits, cell), Ones(bits), cell)
  BY MadeAll DEF TrackOK
<1>2. PICK m \in Seq(Opcodes) : m = AppendBits(bits, cell)
  BY <1>1 DEF Made
<1>3. Playing = Slow(m)
  BY <1>2 DEF Playing
<1>4. Slow(m) \in Seq(Opcodes) /\ Len(Slow(m)) = Len(m)
  BY SlowIs
<1>5. \A k \in 1 .. Len(m) : Slow(m)[k] = AtLeastOne(m[k])
  BY DEF Slow
<1> QED  BY <1>1, <1>2, <1>3, <1>4, <1>5 DEF Made

LEMMA DoneNone ==
    /\ Done(0) = <<>> /\ Elapsed(<<>>)[0] = 0
    /\ PulseTicks(<<>>) = <<>> /\ IndexTicks(<<>>) = <<>>
<1>1. Done(0) = <<>>
  <2>1. 1 \in Int /\ 0 \in Int /\ 0 < 1
    OBVIOUS
  <2> QED  BY <2>1, SubSeqEmpty DEF Done
<1>2. <<>> \in Seq(Opcodes) /\ Len(<<>>) = 0
  OBVIOUS
<1>3. Elapsed(<<>>)[0] = 0
  BY <1>2, ElapsedIs
<1>4. \A P : InOrder(P, 0) = <<>>
  BY InOrderSteps
<1>5. PulseTicks(<<>>) = <<>> /\ IndexTicks(<<>>) = <<>>
  BY <1>2, <1>4 DEF PulseTicks, IndexTicks, TicksAt
<1> QED  BY <1>1, <1>3, <1>5

LEMMA InitPath == Init => PathInv
<1> SUFFICES ASSUME Init PROVE PathInv
  OBVIOUS
<1>1. TrackOK
  BY TracksOK
<1>2. map = AppendBits(bits, cell) /\ map \in Seq(Opcodes) /\ \A k \in 1 .. Len(map) : map[k].ticks <= Span
  BY <1>1, PlayingIs DEF Init
<1>3. Types
  <2>1. sampleclocked \in BOOLEAN /\ stray \in BOOLEAN /\ rdataToggle \in BOOLEAN
    <3>0. (bits \in Tracks) \in BOOLEAN
      OBVIOUS
    <3>1. sampleclocked \in BOOLEAN
      <4>1. sampleclocked \in {FALSE, (bits \in Tracks)}
        BY DEF Init
      <4> QED  BY <3>0, <4>1, Zenon
    <3>2. stray \in BOOLEAN
      <4>1. stray \in {FALSE, (bits \in Tracks)}
        BY DEF Init
      <4> QED  BY <3>0, <4>1, Zenon
    <3> QED  BY <3>1, <3>2 DEF Init
  <2>2. captured \in Seq(Opcodes) /\ Len(captured) = 0
    BY DEF Init
  <2>3. /\ state \in {"LOAD", "WRITING"} /\ countdown = 0 /\ counter = 0 /\ now = 0
        /\ pulsepending \in BOOLEAN /\ oldRdataToggle \in BOOLEAN /\ rdataEdge \in BOOLEAN
        /\ indexToggle \in BOOLEAN /\ oldIndexToggle \in BOOLEAN /\ indexEdge \in BOOLEAN
    BY DEF Init
  <2> QED  BY <1>2, <2>1, <2>2, <2>3, SpanIs DEF Types
<1>4. Sequenced
  <2>1. PICK s \in {0, 1} : s = IF sampleclocked THEN 1 ELSE 0
    BY DEF Init
  <2>2. Counted(s) = 0
    BY <2>1 DEF Init, Counted
  <2>3. AtOpcode(s, 0)
    <3>1. Len(map) = Len(Playing) /\ Len(map) \in Nat
      BY <1>1, <1>2, PlayingIs
    <3>2. \A i \in 1 .. Len(map) : AtLeastOne(map[i]) = Playing[0 + i]
      BY <1>1, <1>2, PlayingIs
    <3>3. state = "LOAD"
      BY DEF Init
    <3> QED  BY <2>2, <3>1, <3>2, <3>3, DoneNone DEF AtOpcode
  <2>4. Given(s, 0, 0)
    <3>1. Len(rdata) = Strays /\ (stray => rdata[1] = 0)
      BY DEF Init, Strays
    <3>2. state # "WRITING" /\ Strays \in Nat
      BY DEF Init, Strays
    <3>3. Len(PulseTicks(Done(0))) = 0
      BY DoneNone
    <3> QED  BY <3>1, <3>2, <3>3 DEF Given, InTime
  <2> QED  BY <2>3, <2>4 DEF Sequenced
<1>5. SampledSoFar
  <2>1. captured = <<>> /\ Len(captured) = 0 /\ counter = 0 /\ now = 0 /\ ~rdataEdge /\ ~indexEdge
    BY DEF Init
  <2>2. Seen(rdata, <<>>, rdataEdge, rdataToggle # oldRdataToggle, 0)
    <3>1. /\ rdata \in Seq(Nat) /\ <<>> \in Seq(Nat) /\ Len(<<>>) = 0
          /\ Len(rdata) = IF rdataToggle # oldRdataToggle THEN 1 ELSE 0
          /\ rdataToggle # oldRdataToggle => rdata[1] = 0
      <4>1. CASE stray
        <5>1. rdata = <<0>> /\ rdataToggle # oldRdataToggle
          BY <4>1 DEF Init
        <5> QED  BY <5>1
      <4>2. CASE ~stray
        <5>1. rdata = <<>> /\ ~(rdataToggle # oldRdataToggle)
          BY <1>3, <4>2 DEF Init, Types
        <5> QED  BY <5>1
      <4> QED  BY <4>1, <4>2
    <3>2. Len(rdata) = Len(<<>>) + (IF rdataEdge THEN 1 ELSE 0)
                                 + (IF rdataToggle # oldRdataToggle THEN 1 ELSE 0)
      BY <2>1, <3>1
    <3>3. rdataToggle # oldRdataToggle => rdata[Len(rdata)] = 0
      BY <3>1
    <3> QED  BY <2>1, <3>1, <3>2, <3>3 DEF Seen
  <2>3. Seen(index, <<>>, indexEdge, indexToggle # oldIndexToggle, 0)
    <3>1. index = <<>> /\ ~(indexToggle # oldIndexToggle)
      BY DEF Init
    <3>2. <<>> \in Seq(Nat) /\ Len(<<>>) = 0
      OBVIOUS
    <3>3. Len(index) = Len(<<>>) + (IF indexEdge THEN 1 ELSE 0)
                                 + (IF indexToggle # oldIndexToggle THEN 1 ELSE 0)
      BY <2>1, <3>1, <3>2
    <3> QED  BY <2>1, <3>1, <3>2, <3>3 DEF Seen
  <2>4. Elapsed(captured)[Len(captured)] + counter = now
    BY <2>1, DoneNone
  <2>5. PulseTicks(captured) = <<>> /\ IndexTicks(captured) = <<>>
    BY <2>1, DoneNone
  <2> QED  BY <2>1, <2>2, <2>3, <2>4, <2>5 DEF SampledSoFar
<1> QED  BY <1>1, <1>3, <1>4, <1>5 DEF PathInv

-----------------------------------------------------------------------------
(* A pulse.                                                                  *)

LEMMA DueOfIs ==
    ASSUME TrackOK
    PROVE  /\ DueOf \in Seq(Nat)
           /\ \A k \in 1 .. Len(DueOf) - 1 : DueOf[k + 1] >= DueOf[k] + 2
           /\ Len(DueOf) > 0 => DueOf[1] >= 4
<1>1. PICK n \in Nat : n = Len(Ones(bits)) /\ Len(DueOf) = n
  BY OnesIs, DueApart DEF TrackOK, DueOf
<1>2. DueOf \in Seq(Nat) /\ \A k \in 1 .. n - 1 : DueOf[k + 1] >= DueOf[k] + 2
  BY <1>1, DueApart DEF TrackOK, DueOf
<1>3. ASSUME n > 0 PROVE DueOf[1] >= 4
  <2>1. Ones(bits) # <<>>
    BY <1>1, <1>3
  <2>2. bits # <<>>
    <3>1. ASSUME bits = <<>> PROVE FALSE
      <4>1. Len(bits) = 0
        BY <3>1
      <4>2. Ones(bits) = <<>>
        BY <4>1, InOrderSteps DEF Ones
      <4> QED  BY <2>1, <4>2
    <3> QED  BY <3>1
  <2> QED  BY <2>1, <2>2, DueApart DEF TrackOK, DueOf
<1> QED  BY <1>1, <1>2, <1>3

\* The one before has been seen when it comes.
LEMMA NoneUnseen ==
    ASSUME TrackOK, Types, SampledSoFar, NEW s \in {0, 1}, NEW n \in Nat,
           Len(rdata) = n + Strays, n < Len(DueOf), InTime(rdata, s, n),
           now + 1 + s \in {DueOf[n + 1], DueOf[n + 1] + 1}
    PROVE  rdataToggle = oldRdataToggle
<1> SUFFICES ASSUME rdataToggle # oldRdataToggle PROVE FALSE
  OBVIOUS
<1>1. rdata[Len(rdata)] = now /\ rdata \in Seq(Nat) /\ Len(rdata) > 0
  <2>1. /\ rdata \in Seq(Nat) /\ PulseTicks(captured) \in Seq(Nat)
        /\ rdata[Len(rdata)] = now
    BY DEF SampledSoFar, Seen
  <2>2. Len(rdata) = Len(PulseTicks(captured)) + (IF rdataEdge THEN 1 ELSE 0) + 1
    BY DEF SampledSoFar, Seen
  <2>3. Len(PulseTicks(captured)) \in Nat
    BY <2>1
  <2> QED  BY <2>1, <2>2, <2>3
<1>2. DueOf \in Seq(Nat) /\ n + 1 \in 1 .. Len(DueOf) /\ now \in Nat
  BY DueOfIs DEF Types
<1>3. PICK d \in Nat : d = DueOf[n + 1]
  BY <1>2
<1>4. CASE n > 0
  <2>1. n \in 1 .. Len(DueOf) - 1 /\ n \in 1 .. n /\ n \in 1 .. Len(DueOf)
    BY <1>2, <1>4
  <2>2. PICK e \in Nat : e = DueOf[n]
    BY <1>2, <2>1
  <2>3. d >= e + 2
    BY <1>3, <2>1, <2>2, DueOfIs
  <2>4. rdata[n + Strays] + 1 + s \in {e, e + 1}
    BY <2>1, <2>2 DEF InTime
  <2>5. now + 1 + s \in {e, e + 1}
    BY <1>1, <2>4
  <2> QED  BY <1>2, <1>3, <2>3, <2>5
<1>5. CASE n = 0
  <2>1. stray /\ Len(rdata) = 1
    BY <1>1, <1>5 DEF Strays
  <2>2. now = 0
    BY <1>1, <2>1 DEF InTime
  <2>3. d >= 4
    BY <1>2, <1>3, <1>5, DueOfIs
  <2> QED  BY <1>3, <2>2, <2>3
<1> QED  BY <1>4, <1>5

LEMMA Rising ==
    ASSUME TrackOK, Types, SampledSoFar, NEW s \in {0, 1}, NEW n \in Nat,
           Len(rdata) = n + Strays, n < Len(DueOf), InTime(rdata, s, n),
           now + 1 + s \in {DueOf[n + 1], DueOf[n + 1] + 1},
           rdataToggle' = ~rdataToggle, rdata' = Append(rdata, now),
           UNCHANGED <<track, oldRdataToggle, rdataEdge, captured, now>>
    PROVE  /\ Seen(rdata, PulseTicks(captured), rdataEdge, rdataToggle # oldRdataToggle, now)'
           /\ Len(rdata') = n + 1 + Strays'
           /\ InTime(rdata, s, n + 1)'
<1>1. rdataToggle = oldRdataToggle
  BY NoneUnseen
<1>2. rdataToggle' # oldRdataToggle'
  BY <1>1 DEF Types
<1>3. Seen(rdata, PulseTicks(captured), rdataEdge, FALSE, now)
  BY <1>1 DEF SampledSoFar, Seen
<1>4. Seen(Append(rdata, now), PulseTicks(captured), rdataEdge, TRUE, now)
  BY <1>3, SeenEdge DEF Types
<1>5. Seen(rdata', PulseTicks(captured'), rdataEdge', rdataToggle' # oldRdataToggle', now')
  <2>1. PICK u \in Seq(Nat) : u = rdata' /\ u = Append(rdata, now)
    BY <1>4 DEF Seen
  <2>2. Seen(u, PulseTicks(captured), rdataEdge, TRUE, now)
    BY <1>4, <2>1
  <2>3. /\ Len(u) = Len(PulseTicks(captured)) + (IF rdataEdge THEN 1 ELSE 0) + 1
        /\ u[Len(u)] = now
    BY <2>2 DEF Seen
  <2>4. Len(u) = Len(PulseTicks(captured')) + (IF rdataEdge' THEN 1 ELSE 0)
                   + (IF rdataToggle' # oldRdataToggle' THEN 1 ELSE 0)
    BY <1>2, <2>3
  <2>5. /\ PulseTicks(captured') \in Seq(Nat) /\ now' \in Nat
        /\ \A k \in 1 .. Len(PulseTicks(captured')) : PulseTicks(captured')[k] = u[k] + 1
        /\ rdataEdge' => u[Len(PulseTicks(captured')) + 1] + 1 = now'
    BY <2>2 DEF Seen
  <2> QED  BY <2>1, <2>3, <2>4, <2>5 DEF Seen
<1>6. Strays' = Strays /\ DueOf' = DueOf /\ stray' = stray
  BY DEF track, Strays, DueOf
<1>7. rdata \in Seq(Nat) /\ now \in Nat /\ Strays \in {0, 1}
  BY <1>3 DEF Seen, Strays
<1>8. PICK r \in Nat : r = n + Strays
  BY <1>7
<1>9. PICK u : u = rdata'
  OBVIOUS
<1>10. Len(u) = r + 1 /\ u[r + 1] = now /\ \A k \in 1 .. r : u[k] = rdata[k]
  BY <1>7, <1>8, <1>9, AppendProperties
<1>11. Len(rdata') = n + 1 + Strays'
  BY <1>6, <1>7, <1>8, <1>9, <1>10
<1>12. ASSUME NEW k \in 1 .. n + 1 PROVE u[k + Strays] + 1 + s \in {DueOf[k], DueOf[k] + 1}
  <2>1. CASE k = n + 1
    <3>1. k + Strays = r + 1
      BY <1>7, <1>8, <2>1
    <3> QED  BY <1>10, <2>1, <3>1
  <2>2. CASE k # n + 1
    <3>1. k \in 1 .. n /\ k + Strays \in 1 .. r
      BY <1>7, <1>8, <2>2
    <3> QED  BY <1>10, <3>1 DEF InTime
  <2> QED  BY <2>1, <2>2
<1>13. stray => u[1] = 0
  <2>1. stray => 1 \in 1 .. r
    BY <1>8 DEF Strays
  <2> QED  BY <1>10, <2>1 DEF InTime
<1>14. InTime(rdata, s, n + 1)'
  BY <1>6, <1>9, <1>12, <1>13 DEF InTime
<1> QED  BY <1>5, <1>11, <1>14

LEMMA DoneMore ==
    ASSUME TrackOK, NEW p \in Nat, p < Len(Playing)
    PROVE  /\ Playing[p + 1] \in Opcodes
           /\ Elapsed(Done(p))[p] \in Nat
           /\ Elapsed(Done(p + 1))[p + 1] = Elapsed(Done(p))[p] + Playing[p + 1].ticks
           /\ PulseTicks(Done(p)) \in Seq(Nat)
           /\ PulseTicks(Done(p + 1))
                = IF Playing[p + 1].pulse
                  THEN Append(PulseTicks(Done(p)), Elapsed(Done(p + 1))[p + 1])
                  ELSE PulseTicks(Done(p))
           /\ Begins(PulseTicks(Done(p + 1)), DueOf)
<1>1. PICK m \in Seq(Opcodes) : m = Playing
  BY PlayingIs
<1>2. p \in 0 .. Len(m) /\ p + 1 \in 0 .. Len(m) /\ p < Len(m)
  BY <1>1
<1>3. PICK d \in Seq(Opcodes), b \in Opcodes :
          /\ d = Done(p) /\ Len(d) = p /\ b = Playing[p + 1] /\ Done(p + 1) = Append(d, b)
  BY <1>1, <1>2, PartOf DEF Done
<1>4. PICK e \in Nat : e = Elapsed(d)[p]
  BY <1>3, LastElapsed
<1>5. Elapsed(Append(d, b))[p + 1] = e + b.ticks
  BY <1>3, <1>4, OneMore
<1>6. PulseTicks(Append(d, b)) = IF b.pulse THEN Append(PulseTicks(d), e + b.ticks)
                                 ELSE PulseTicks(d)
  <2>1. PulseTicks(Append(d, b)) = IF b.pulse THEN Append(PulseTicks(d), Elapsed(d)[Len(d)] + b.ticks)
                                   ELSE PulseTicks(d)
    BY OneMore
  <2>2. Elapsed(d)[Len(d)] = e
    BY <1>3, <1>4
  <2> QED  BY <2>1, <2>2
<1>7. PulseTicks(d) \in Seq(Nat)
  <2>1. Len(d) \in 0 .. Len(d)
    OBVIOUS
  <2> QED  BY <2>1, TicksIn DEF PulseTicks
<1>8. Begins(PulseTicks(Done(p + 1)), DueOf)
  <2>1. Begins(PulseTicks(SubSeq(m, 1, p + 1)), PulseTicks(m))
    BY <1>2, PlayedPart
  <2>2. PulseTicks(m) = DueOf
    BY <1>1, PlayingIs DEF DueOf
  <2> QED  BY <1>1, <2>1, <2>2 DEF Done
<1> QED  BY <1>3, <1>4, <1>5, <1>6, <1>7, <1>8

\* What the Sampler has seen does not change with the Sequencer.
LEMMA SampledKept ==
    ASSUME SampledSoFar, UNCHANGED <<sampler, indexToggle, now, index>>,
           Seen(rdata, PulseTicks(captured), rdataEdge, rdataToggle # oldRdataToggle, now)'
    PROVE  SampledSoFar'
<1>1. /\ oldIndexToggle' = oldIndexToggle /\ indexEdge' = indexEdge /\ counter' = counter
      /\ captured' = captured /\ rdataEdge' = rdataEdge /\ indexToggle' = indexToggle
      /\ now' = now /\ index' = index
  BY DEF sampler
<1>2. Seen(index, IndexTicks(captured), indexEdge, indexToggle # oldIndexToggle, now)'
  BY <1>1 DEF SampledSoFar
<1>3. /\ Elapsed(captured')[Len(captured')] + counter' = now'
      /\ counter' = 0 <=> now' = 0
      /\ now' = 0 => ~rdataEdge' /\ ~indexEdge'
  BY <1>1 DEF SampledSoFar
<1> QED  BY <1>2, <1>3 DEF SampledSoFar

LEMMA TrackKept ==
    ASSUME UNCHANGED track
    PROVE  /\ TrackOK => TrackOK'
           /\ Playing' = Playing /\ DueOf' = DueOf /\ Strays' = Strays /\ stray' = stray
           /\ \A p : Done(p)' = Done(p)
<1>1. bits' = bits /\ cell' = cell /\ stray' = stray
  BY DEF track
<1>2. Playing' = Playing
  BY <1>1 DEF Playing
<1> QED  BY <1>1, <1>2 DEF TrackOK, DueOf, Strays, Done

LEMMA LoadStep ==
    ASSUME PathInv, Load
    PROVE  PathInv'
<1>1. TrackOK /\ Types /\ SampledSoFar
  BY DEF PathInv
<1>2. PICK s \in {0, 1}, p \in Nat, n \in Nat : AtOpcode(s, p) /\ Given(s, p, n)
  BY DEF PathInv, Sequenced
<1>3. state = "LOAD" /\ map # <<>> /\ map \in Seq(Opcodes)
  BY <1>1 DEF Load, Types
<1>4. PICK b \in Opcodes : b = Head(map) /\ b = map[1] /\ b.ticks <= Span
  BY <1>1, <1>3 DEF Types
<1>5. /\ map' \in Seq(Opcodes) /\ Len(map') = Len(map) - 1 /\ Len(map) \in Nat \ {0}
      /\ \A i \in 1 .. Len(map') : map'[i] = map[i + 1]
  BY <1>3, HeadTailProperties DEF Load
<1>6. p < Len(Playing) /\ p + 1 \in Nat /\ (p + 1) + Len(map') = Len(Playing)
  <2>1. p + Len(map) = Len(Playing)
    BY <1>2 DEF AtOpcode
  <2>2. PICK l \in Nat \ {0} : l = Len(map) /\ Len(map') = l - 1
    BY <1>5
  <2>3. PICK all : all = Len(Playing)
    OBVIOUS
  <2>4. p + l = all
    BY <2>1, <2>2, <2>3
  <2>5. p < all /\ p + 1 \in Nat /\ (p + 1) + (l - 1) = all
    BY <2>4
  <2> QED  BY <2>2, <2>3, <2>5
<1>7. PICK c \in Opcodes : c = Playing[p + 1] /\ c = AtLeastOne(b)
  <2>1. Playing[p + 1] \in Opcodes
    BY <1>1, <1>6, DoneMore
  <2>2. 1 \in 1 .. Len(map)
    BY <1>5
  <2> QED  BY <1>2, <1>4, <2>1, <2>2 DEF AtOpcode
<1>8. PICK t \in Nat \ {0} : t = c.ticks /\ t <= Span /\ countdown' = t - 1
  <2>1. b.ticks \in Nat
    BY DEF Opcodes
  <2>2. c.ticks = IF b.ticks = 0 THEN 1 ELSE b.ticks
    BY <1>7 DEF AtLeastOne, Byte
  <2>3. countdown' = IF b.ticks = 0 THEN 0 ELSE b.ticks - 1
    BY <1>4, <2>1, MaxOfTwo DEF Load
  <2> QED  BY <1>4, <2>1, <2>2, <2>3, SpanIs
<1>9. c.pulse \in BOOLEAN /\ c.pulse = b.pulse /\ pulsepending' = c.pulse
  BY <1>4, <1>7 DEF AtLeastOne, Byte, Load, Opcodes
<1>10. PICK e \in Nat : e = Elapsed(Done(p))[p] /\ Counted(s) = e
  BY <1>1, <1>2, <1>3, <1>6, DoneMore DEF AtOpcode
<1>11. Elapsed(Done(p + 1))[p + 1] = e + t
  BY <1>1, <1>6, <1>7, <1>8, <1>10, DoneMore
<1>12. n = Len(PulseTicks(Done(p))) /\ Len(rdata) = n + Strays /\ InTime(rdata, s, n)
  BY <1>2, <1>3 DEF Given
<1>13. UNCHANGED <<track, sampleclocked, sampler, indexToggle, now, index>> /\ state' = "WRITING"
  BY DEF Load
<1>14. Counted(s)' = e
  BY <1>10, <1>13 DEF Counted
<1>15. Playing' = Playing /\ DueOf' = DueOf /\ Strays' = Strays /\ stray' = stray
       /\ TrackOK' /\ \A q : Done(q)' = Done(q)
  BY <1>1, <1>13, TrackKept
<1>16. AtOpcode(s, p + 1)'
  <2>1. \A i \in 1 .. Len(map') : AtLeastOne(map'[i]) = Playing[(p + 1) + i]
    <3>1. ASSUME NEW i \in 1 .. Len(map') PROVE AtLeastOne(map'[i]) = Playing[(p + 1) + i]
      <4>1. i + 1 \in 1 .. Len(map) /\ p + (i + 1) = (p + 1) + i
        BY <1>5
      <4>2. AtLeastOne(map[i + 1]) = Playing[p + (i + 1)]
        BY <1>2, <4>1 DEF AtOpcode
      <4> QED  BY <1>5, <4>1, <4>2
    <3> QED  BY <3>1
  <2>2. Counted(s)' + countdown' + 1 = Elapsed(Done(p + 1)')[p + 1]
    BY <1>8, <1>11, <1>14, <1>15
  <2>3. pulsepending' = Playing'[p + 1].pulse
    BY <1>7, <1>9, <1>15
  <2>4. state' = "WRITING" /\ p + 1 > 0
    BY <1>13
  <2> QED  BY <1>6, <1>15, <2>1, <2>2, <2>3, <2>4 DEF AtOpcode
<1>17. PICK u \in Seq(Nat) : u = PulseTicks(Done(p)) /\ Len(u) = n
  BY <1>1, <1>6, <1>12, DoneMore
<1>18. PulseTicks(Done(p + 1)) = IF c.pulse THEN Append(u, e + t) ELSE u
  BY <1>1, <1>6, <1>7, <1>11, <1>17, DoneMore
<1>19. c.pulse => n < Len(DueOf) /\ DueOf[n + 1] = e + t
  <2>1. SUFFICES ASSUME c.pulse PROVE n < Len(DueOf) /\ DueOf[n + 1] = e + t
    OBVIOUS
  <2>2. PICK v : v = Append(u, e + t)
    OBVIOUS
  <2>3. Len(v) = n + 1 /\ v[n + 1] = e + t
    BY <1>17, <2>2, AppendProperties
  <2>4. Begins(v, DueOf)
    BY <1>1, <1>6, <1>18, <2>1, <2>2, DoneMore
  <2>5. Len(DueOf) \in Nat
    BY <1>1, DueOfIs
  <2> QED  BY <2>3, <2>4, <2>5 DEF Begins
<1>20. Len(PulseTicks(Done(p + 1))) = n + IF c.pulse THEN 1 ELSE 0
  <2>1. PICK v : v = Append(u, e + t)
    OBVIOUS
  <2>2. Len(v) = n + 1
    BY <1>17, <2>1, AppendProperties
  <2>3. CASE c.pulse
    <3>1. PulseTicks(Done(p + 1)) = v
      BY <1>18, <2>1, <2>3
    <3> QED  BY <2>2, <2>3, <3>1
  <2>4. CASE ~c.pulse
    <3>1. PulseTicks(Done(p + 1)) = u
      BY <1>18, <2>4
    <3> QED  BY <1>17, <2>4, <3>1
  <2> QED  BY <2>3, <2>4
<1>23. /\ state' \in {"LOAD", "WRITING"} /\ countdown' \in 0 .. Span - 1
       /\ pulsepending' \in BOOLEAN /\ map' \in Seq(Opcodes)
       /\ \A i \in 1 .. Len(map') : map'[i].ticks <= Span
  <2>1. countdown' \in 0 .. Span - 1
    BY <1>8, SpanIs
  <2>2. \A i \in 1 .. Len(map') : map'[i].ticks <= Span
    <3>1. \A i \in 1 .. Len(map') : i + 1 \in 1 .. Len(map)
      BY <1>5
    <3> QED  BY <1>1, <1>5, <3>1 DEF Types
  <2> QED  BY <1>5, <1>9, <1>13, <2>1, <2>2
<1>24. /\ sampleclocked' = sampleclocked /\ stray' = stray /\ oldRdataToggle' = oldRdataToggle
       /\ rdataEdge' = rdataEdge /\ indexToggle' = indexToggle /\ oldIndexToggle' = oldIndexToggle
       /\ indexEdge' = indexEdge /\ counter' = counter /\ now' = now /\ captured' = captured
  BY <1>13 DEF sampler, track
<1>21. CASE c.pulse /\ countdown' = 0
  <2>1. rdataToggle' = ~rdataToggle /\ rdata' = Append(rdata, now)
    BY <1>9, <1>21 DEF Load, Wdata
  <2>2. now + 1 + s \in {DueOf[n + 1], DueOf[n + 1] + 1}
    <3>1. DueOf[n + 1] = e + 1
      BY <1>8, <1>19, <1>21
    <3>2. now \in Nat /\ now + s - (IF sampleclocked THEN 1 ELSE 0) = e
      BY <1>1, <1>10 DEF Counted, Types
    <3> QED  BY <3>1, <3>2
  <2>3. UNCHANGED <<track, oldRdataToggle, rdataEdge, captured, now>>
    BY <1>13 DEF sampler
  <2>4. /\ Seen(rdata, PulseTicks(captured), rdataEdge, rdataToggle # oldRdataToggle, now)'
        /\ Len(rdata') = n + 1 + Strays'
        /\ InTime(rdata, s, n + 1)'
    BY <1>1, <1>12, <1>19, <1>21, <2>1, <2>2, <2>3, Rising
  <2>5. Given(s, p + 1, n + 1)'
    BY <1>15, <1>20, <1>21, <2>4 DEF Given
  <2>6. Sequenced'
    BY <1>6, <1>16, <2>5 DEF Sequenced
  <2>7. SampledSoFar'
    BY <1>1, <1>13, <2>4, SampledKept
  <2>8. Types'
    BY <1>1, <1>23, <1>24, <2>1 DEF Types
  <2> QED  BY <1>15, <2>6, <2>7, <2>8 DEF PathInv
<1>22. CASE ~(c.pulse /\ countdown' = 0)
  <2>1. rdataToggle' = rdataToggle /\ rdata' = rdata
    BY <1>9, <1>22 DEF Load, Wdata
  <2>2. Seen(rdata, PulseTicks(captured), rdataEdge, rdataToggle # oldRdataToggle, now)'
    BY <1>1, <1>13, <2>1 DEF SampledSoFar, sampler
  <2>3. InTime(rdata, s, n)'
    BY <1>12, <1>15, <2>1 DEF InTime
  <2>4. Given(s, p + 1, n)'
    <3>1. n + (IF state' = "WRITING" /\ countdown' > 0 /\ pulsepending' THEN 1 ELSE 0)
            = Len(PulseTicks(Done(p + 1))')
      <4>1. CASE c.pulse
        <5>1. countdown' > 0 /\ pulsepending' /\ state' = "WRITING"
          BY <1>8, <1>9, <1>13, <1>22, <4>1
        <5> QED  BY <1>12, <1>15, <1>20, <4>1, <5>1
      <4>2. CASE ~c.pulse
        <5>1. ~pulsepending'
          BY <1>9, <4>2
        <5> QED  BY <1>12, <1>15, <1>20, <4>2, <5>1
      <4> QED  BY <4>1, <4>2
    <3>2. Len(rdata') = n + Strays'
      BY <1>12, <1>15, <2>1
    <3> QED  BY <2>3, <3>1, <3>2 DEF Given
  <2>6. Sequenced'
    BY <1>6, <1>16, <2>4 DEF Sequenced
  <2>7. SampledSoFar'
    BY <1>1, <1>13, <2>2, SampledKept
  <2>8. Types'
    BY <1>1, <1>23, <1>24, <2>1 DEF Types
  <2> QED  BY <1>15, <2>6, <2>7, <2>8 DEF PathInv
<1> QED  BY <1>21, <1>22

LEMMA CountStep ==
    ASSUME PathInv, Count
    PROVE  PathInv'
<1>1. TrackOK /\ Types /\ SampledSoFar
  BY DEF PathInv
<1>2. PICK s \in {0, 1}, p \in Nat, n \in Nat : AtOpcode(s, p) /\ Given(s, p, n)
  BY DEF PathInv, Sequenced
<1>3. /\ state = "WRITING" /\ sampleclocked /\ sampleclocked' = FALSE
      /\ UNCHANGED <<track, map, pulsepending, sampler, indexToggle, now, index>>
  BY DEF Count
<1>4. now \in Nat /\ countdown \in 0 .. Span - 1 /\ pulsepending \in BOOLEAN
  BY <1>1 DEF Types
<1>5. PICK q \in Nat : p = q + 1 /\ q < Len(Playing)
  <2>1. p > 0 /\ p + Len(map) = Len(Playing)
    BY <1>2, <1>3 DEF AtOpcode
  <2>2. PICK l \in Nat : l = Len(map)
    BY <1>1 DEF Types
  <2>3. PICK all : all = Len(Playing)
    OBVIOUS
  <2>4. p + l = all
    BY <2>1, <2>2, <2>3
  <2>5. p - 1 \in Nat /\ p = (p - 1) + 1 /\ p - 1 < all
    BY <2>1, <2>4
  <2> QED  BY <2>3, <2>5
<1>6. PICK e : e = Elapsed(Done(p))[p]
  OBVIOUS
<1>7. Counted(s) = now + s - 1 /\ (now + s - 1) + countdown + 1 = e
      /\ pulsepending = Playing[p].pulse
  BY <1>2, <1>3, <1>6 DEF AtOpcode, Counted
<1>8. Counted(s)' = now + s
  BY <1>3, <1>4 DEF Counted
<1>9. Playing' = Playing /\ DueOf' = DueOf /\ Strays' = Strays /\ stray' = stray
      /\ TrackOK' /\ \A i : Done(i)' = Done(i)
  BY <1>1, <1>3, TrackKept
<1>10. Len(rdata) = n + Strays /\ InTime(rdata, s, n)
       /\ n + (IF countdown > 0 /\ pulsepending THEN 1 ELSE 0) = Len(PulseTicks(Done(p)))
  BY <1>2, <1>3 DEF Given
<1>11. /\ stray' = stray /\ oldRdataToggle' = oldRdataToggle /\ pulsepending' = pulsepending
       /\ rdataEdge' = rdataEdge /\ indexToggle' = indexToggle /\ oldIndexToggle' = oldIndexToggle
       /\ indexEdge' = indexEdge /\ counter' = counter /\ now' = now /\ captured' = captured
       /\ map' = map
  BY <1>3 DEF sampler, track
<1>12. /\ p + Len(map') = Len(Playing')
       /\ \A i \in 1 .. Len(map') : AtLeastOne(map'[i]) = Playing'[p + i]
  BY <1>2, <1>9, <1>11 DEF AtOpcode
<1>13. ASSUME rdataToggle' = rdataToggle, rdata' = rdata
       PROVE  InTime(rdata, s, n)' /\ SampledSoFar' /\ Len(rdata') = n + Strays'
  <2>1. Seen(rdata, PulseTicks(captured), rdataEdge, rdataToggle # oldRdataToggle, now)'
    BY <1>1, <1>11, <1>13 DEF SampledSoFar
  <2>2. InTime(rdata, s, n)'
    BY <1>9, <1>10, <1>13 DEF InTime
  <2>3. SampledSoFar'
    BY <1>1, <1>3, <2>1, SampledKept
  <2> QED  BY <1>9, <1>10, <1>13, <2>2, <2>3
<1>14. CASE countdown = 0
  <2>1. state' = "LOAD" /\ rdataToggle' = rdataToggle /\ rdata' = rdata /\ countdown' = countdown
    BY <1>3, <1>14 DEF Count
  <2>2. Counted(s)' = e
    BY <1>4, <1>7, <1>8, <1>14
  <2>3. AtOpcode(s, p)'
    BY <1>6, <1>9, <1>12, <2>1, <2>2 DEF AtOpcode
  <2>4. Given(s, p, n)'
    <3>1. n = Len(PulseTicks(Done(p)'))
      BY <1>9, <1>10, <1>14
    <3> QED  BY <1>13, <2>1, <3>1 DEF Given
  <2>5. Sequenced'
    BY <2>3, <2>4 DEF Sequenced
  <2>6. Types'
    BY <1>1, <1>3, <1>11, <2>1 DEF Types
  <2> QED  BY <1>9, <1>13, <2>1, <2>5, <2>6 DEF PathInv
<1>15. CASE countdown # 0
  <2>1. /\ state' = state /\ countdown' = countdown - 1
        /\ Wdata(pulsepending /\ countdown' = 0)
    BY <1>3, <1>15 DEF Count
  <2>2. countdown' \in 0 .. Span - 1
    BY <1>4, <1>15, <2>1, SpanIs
  <2>3. Counted(s)' + countdown' + 1 = e
    BY <1>4, <1>7, <1>8, <2>1, SpanIs
  <2>4. AtOpcode(s, p)'
    BY <1>3, <1>5, <1>6, <1>7, <1>9, <1>11, <1>12, <2>1, <2>3 DEF AtOpcode
  <2>5. n + (IF pulsepending THEN 1 ELSE 0) = Len(PulseTicks(Done(p)))
    BY <1>4, <1>10, <1>15, SpanIs
  <2>6. CASE pulsepending /\ countdown' = 0
    <3>1. rdataToggle' = ~rdataToggle /\ rdata' = Append(rdata, now)
      BY <2>1, <2>6 DEF Wdata
    <3>2. n < Len(DueOf) /\ DueOf[n + 1] = e
      <4>1. PICK u \in Seq(Nat) : u = PulseTicks(Done(q))
        BY <1>1, <1>5, DoneMore
      <4>2. Playing[q + 1].pulse
        BY <1>5, <1>7, <2>6
      <4>3. PulseTicks(Done(q + 1)) = Append(u, Elapsed(Done(q + 1))[q + 1])
        BY <1>1, <1>5, <4>1, <4>2, DoneMore
      <4>4. PulseTicks(Done(p)) = Append(u, e)
        BY <1>5, <1>6, <4>3
      <4>5. PICK v : v = Append(u, e)
        OBVIOUS
      <4>6. Len(v) = Len(u) + 1 /\ v[Len(u) + 1] = e /\ Len(u) \in Nat
        <5>1. e \in Nat
          BY <1>4, <1>7, <1>15, SpanIs
        <5> QED  BY <4>5, <5>1, AppendProperties
      <4>7. Len(v) = n + 1
        BY <2>5, <2>6, <4>4, <4>5
      <4>8. Begins(v, DueOf)
        <5>1. Begins(PulseTicks(Done(q + 1)), DueOf)
          BY <1>1, <1>5, DoneMore
        <5> QED  BY <1>5, <4>4, <4>5, <5>1
      <4>9. Len(DueOf) \in Nat
        BY <1>1, DueOfIs
      <4> QED  BY <4>6, <4>7, <4>8, <4>9 DEF Begins
    <3>3. now + 1 + s = e
      BY <1>4, <1>7, <2>1, <2>6, SpanIs
    <3>4. UNCHANGED <<track, oldRdataToggle, rdataEdge, captured, now>>
      BY <1>3, <1>11
    <3>5. /\ Seen(rdata, PulseTicks(captured), rdataEdge, rdataToggle # oldRdataToggle, now)'
          /\ Len(rdata') = n + 1 + Strays'
          /\ InTime(rdata, s, n + 1)'
      BY <1>1, <1>10, <3>1, <3>2, <3>3, <3>4, Rising
    <3>6. Given(s, p, n + 1)'
      BY <1>9, <2>5, <2>6, <3>5 DEF Given
    <3>7. Sequenced'
      BY <2>4, <3>6 DEF Sequenced
    <3>8. SampledSoFar'
      BY <1>1, <1>3, <3>5, SampledKept
    <3>9. Types'
      BY <1>1, <1>3, <1>11, <2>1, <2>2, <3>1 DEF Types
    <3> QED  BY <1>9, <3>7, <3>8, <3>9 DEF PathInv
  <2>7. CASE ~(pulsepending /\ countdown' = 0)
    <3>1. rdataToggle' = rdataToggle /\ rdata' = rdata
      BY <2>1, <2>7 DEF Wdata
    <3>2. n + (IF state' = "WRITING" /\ countdown' > 0 /\ pulsepending' THEN 1 ELSE 0)
            = Len(PulseTicks(Done(p)'))
      <4>1. CASE pulsepending
        <5>1. countdown' > 0
          BY <2>2, <2>7, <4>1, SpanIs
        <5> QED  BY <1>3, <1>9, <1>11, <2>1, <2>5, <4>1, <5>1
      <4>2. CASE ~pulsepending
        BY <1>9, <1>11, <2>5, <4>2
      <4> QED  BY <4>1, <4>2
    <3>3. Given(s, p, n)'
      BY <1>13, <3>1, <3>2 DEF Given
    <3>4. Sequenced'
      BY <2>4, <3>3 DEF Sequenced
    <3>5. Types'
      BY <1>1, <1>3, <1>11, <2>1, <2>2, <3>1 DEF Types
    <3> QED  BY <1>9, <1>13, <3>1, <3>4, <3>5 DEF PathInv
  <2> QED  BY <2>6, <2>7
<1> QED  BY <1>14, <1>15

LEMMA IndexStep ==
    ASSUME PathInv, IndexPulse
    PROVE  PathInv'
<1>1. TrackOK /\ Types /\ SampledSoFar
  BY DEF PathInv
<1>2. PICK s \in {0, 1}, p \in Nat, n \in Nat : AtOpcode(s, p) /\ Given(s, p, n)
  BY DEF PathInv, Sequenced
<1>3. /\ indexToggle = oldIndexToggle /\ indexToggle' = ~indexToggle /\ index' = Append(index, now)
      /\ UNCHANGED <<track, sequencer, sampleclocked, sampler, rdataToggle, now, rdata>>
  BY DEF IndexPulse
<1>4. /\ stray' = stray /\ oldRdataToggle' = oldRdataToggle /\ pulsepending' = pulsepending
      /\ rdataEdge' = rdataEdge /\ oldIndexToggle' = oldIndexToggle
      /\ indexEdge' = indexEdge /\ counter' = counter /\ now' = now /\ captured' = captured
      /\ map' = map /\ state' = state /\ countdown' = countdown /\ sampleclocked' = sampleclocked
      /\ rdataToggle' = rdataToggle /\ rdata' = rdata
  BY <1>3 DEF sampler, track, sequencer
<1>5. Playing' = Playing /\ DueOf' = DueOf /\ Strays' = Strays
      /\ TrackOK' /\ \A i : Done(i)' = Done(i)
  BY <1>1, <1>3, TrackKept
<1>6. AtOpcode(s, p)' /\ Given(s, p, n)'
  <2>1. Counted(s)' = Counted(s)
    BY <1>4 DEF Counted
  <2>2. AtOpcode(s, p)'
    BY <1>2, <1>4, <1>5, <2>1 DEF AtOpcode
  <2>3. InTime(rdata, s, n)'
    BY <1>2, <1>4, <1>5 DEF Given, InTime
  <2>4. Given(s, p, n)'
    BY <1>2, <1>4, <1>5, <2>3 DEF Given
  <2> QED  BY <2>2, <2>4
<1>7. Sequenced'
  BY <1>6 DEF Sequenced
<1>8. Types'
  BY <1>1, <1>3, <1>4 DEF Types
<1>9. SampledSoFar'
  <2>1. Seen(index, IndexTicks(captured), indexEdge, FALSE, now)
    BY <1>1, <1>3 DEF SampledSoFar, Seen
  <2>2. Seen(Append(index, now), IndexTicks(captured), indexEdge, TRUE, now)
    BY <1>1, <2>1, SeenEdge DEF Types
  <2>3. indexToggle' # oldIndexToggle'
    BY <1>1, <1>3, <1>4 DEF Types
  <2>4. Seen(index', IndexTicks(captured'), indexEdge', indexToggle' # oldIndexToggle', now')
    <3>1. PICK u \in Seq(Nat) : u = index' /\ u = Append(index, now)
      BY <1>3, <2>2 DEF Seen
    <3>2. Seen(u, IndexTicks(captured), indexEdge, TRUE, now)
      BY <2>2, <3>1
    <3>3. /\ Len(u) = Len(IndexTicks(captured)) + (IF indexEdge THEN 1 ELSE 0) + 1
          /\ u[Len(u)] = now
      BY <3>2 DEF Seen
    <3>4. Len(u) = Len(IndexTicks(captured')) + (IF indexEdge' THEN 1 ELSE 0)
                     + (IF indexToggle' # oldIndexToggle' THEN 1 ELSE 0)
      BY <1>4, <2>3, <3>3
    <3>5. /\ IndexTicks(captured') \in Seq(Nat) /\ now' \in Nat
          /\ \A k \in 1 .. Len(IndexTicks(captured')) : IndexTicks(captured')[k] = u[k] + 1
          /\ indexEdge' => u[Len(IndexTicks(captured')) + 1] + 1 = now'
      BY <1>4, <3>2 DEF Seen
    <3>6. u[Len(u)] = now'
      BY <1>4, <3>3
    <3> QED  BY <3>1, <3>4, <3>5, <3>6 DEF Seen
  <2>5. Seen(rdata, PulseTicks(captured), rdataEdge, rdataToggle # oldRdataToggle, now)'
    BY <1>1, <1>4 DEF SampledSoFar
  <2>6. /\ Elapsed(captured')[Len(captured')] + counter' = now'
        /\ counter' = 0 <=> now' = 0
        /\ now' = 0 => ~rdataEdge' /\ ~indexEdge'
    BY <1>1, <1>4 DEF SampledSoFar
  <2> QED  BY <2>4, <2>5, <2>6 DEF SampledSoFar
<1> QED  BY <1>5, <1>7, <1>8, <1>9 DEF PathInv

LEMMA TickStep ==
    ASSUME PathInv, Tick
    PROVE  PathInv'
<1>1. TrackOK /\ Types /\ SampledSoFar
  BY DEF PathInv
<1>2. PICK s \in {0, 1}, p \in Nat, n \in Nat : AtOpcode(s, p) /\ Given(s, p, n)
  BY DEF PathInv, Sequenced
<1>3. /\ sampleclocked' = TRUE /\ now' = now + 1
      /\ UNCHANGED <<track, sequencer, rdataToggle, indexToggle, rdata, index>>
      /\ Played \/ sampleclocked = FALSE
  BY <1>1 DEF Tick, Types
<1>4. /\ stray' = stray /\ pulsepending' = pulsepending
      /\ map' = map /\ state' = state /\ countdown' = countdown
      /\ rdataToggle' = rdataToggle /\ indexToggle' = indexToggle /\ rdata' = rdata /\ index' = index
  BY <1>3 DEF track, sequencer
<1>5. /\ rdataEdge' = (rdataToggle # oldRdataToggle) /\ oldRdataToggle' = rdataToggle
      /\ indexEdge' = (indexToggle # oldIndexToggle) /\ oldIndexToggle' = indexToggle
  BY DEF Tick, Sample
<1>6. Playing' = Playing /\ DueOf' = DueOf /\ Strays' = Strays
      /\ TrackOK' /\ \A i : Done(i)' = Done(i)
  BY <1>1, <1>3, TrackKept
<1>7. now \in Nat /\ counter \in 0 .. Span /\ captured \in Seq(Opcodes)
      /\ rdataEdge \in BOOLEAN /\ indexEdge \in BOOLEAN
  BY <1>1 DEF Types
<1>8. Sequenced'
  <2>1. AtOpcode(s, p)'
    <3>1. CASE Played
      BY <1>2, <1>4, <1>6, <3>1 DEF AtOpcode, Played
    <3>2. CASE sampleclocked = FALSE
      <4>1. Counted(s)' = Counted(s)
        BY <1>3, <1>7, <3>2 DEF Counted
      <4> QED  BY <1>2, <1>4, <1>6, <4>1 DEF AtOpcode
    <3> QED  BY <1>3, <3>1, <3>2
  <2>2. InTime(rdata, s, n)'
    BY <1>2, <1>4, <1>6 DEF Given, InTime
  <2>3. Given(s, p, n)'
    BY <1>2, <1>4, <1>6, <2>2 DEF Given
  <2> QED  BY <2>1, <2>3 DEF Sequenced
<1>9. PICK e \in Nat : e = Elapsed(captured)[Len(captured)] /\ e + counter = now
  BY <1>1, <1>7, LastElapsed DEF SampledSoFar
<1>10. /\ captured' \in Seq(Opcodes) /\ counter' \in 1 .. Span
       /\ \A i \in 1 .. Len(captured') : captured'[i].ticks \in 1 .. Span
       /\ Elapsed(captured')[Len(captured')] + counter' = now + 1
       /\ PulseTicks(captured') = IF rdataEdge THEN Append(PulseTicks(captured), now)
                                  ELSE PulseTicks(captured)
       /\ IndexTicks(captured') = IF indexEdge THEN Append(IndexTicks(captured), now)
                                  ELSE IndexTicks(captured)
  <2>1. CASE rdataEdge \/ indexEdge \/ counter = Span
    <3>1. counter \in 1 .. Span
      BY <1>1, <1>7, <1>9, <2>1, SpanIs DEF SampledSoFar
    <3>2. PICK b \in Opcodes : b = Byte(counter, rdataEdge, indexEdge)
      <4>1. counter \in Nat
        BY <3>1, SpanIs
      <4> QED  BY <1>7, <4>1 DEF Byte, Opcodes
    <3>3. PICK u : u = Append(captured, b)
      OBVIOUS
    <3>4. captured' = u /\ counter' = 1
      BY <2>1, <3>2, <3>3 DEF Tick, Sample
    <3>5. b.ticks = counter /\ b.pulse = rdataEdge /\ b.index = indexEdge
      BY <3>2 DEF Byte
    <3>6. PICK l \in Nat : l = Len(captured)
      BY <1>7
    <3>7. /\ u \in Seq(Opcodes) /\ Len(u) = l + 1 /\ u[l + 1] = b
          /\ \A i \in 1 .. l : u[i] = captured[i]
      BY <1>7, <3>3, <3>6, AppendProperties
    <3>8. Elapsed(u)[l + 1] = now
      <4>1. Elapsed(u)[Len(captured) + 1] = Elapsed(captured)[Len(captured)] + b.ticks
        BY <1>7, <3>3, OneMore
      <4> QED  BY <1>9, <3>5, <3>6, <4>1
    <3>9. PulseTicks(u) = IF rdataEdge THEN Append(PulseTicks(captured), now)
                          ELSE PulseTicks(captured)
      <4>1. PulseTicks(u) = IF b.pulse THEN Append(PulseTicks(captured), Elapsed(captured)[Len(captured)] + b.ticks)
                            ELSE PulseTicks(captured)
        BY <1>7, <3>3, OneMore
      <4> QED  BY <1>9, <3>5, <4>1
    <3>10. IndexTicks(u) = IF indexEdge THEN Append(IndexTicks(captured), now)
                           ELSE IndexTicks(captured)
      <4>1. IndexTicks(u) = IF b.index THEN Append(IndexTicks(captured), Elapsed(captured)[Len(captured)] + b.ticks)
                            ELSE IndexTicks(captured)
        BY <1>7, <3>3, OneMore
      <4> QED  BY <1>9, <3>5, <4>1
    <3>11. \A i \in 1 .. Len(u) : u[i].ticks \in 1 .. Span
      <4>1. \A i \in 1 .. Len(u) : i \in 1 .. l \/ i = l + 1
        BY <3>7
      <4>2. \A i \in 1 .. l : captured[i].ticks \in 1 .. Span
        BY <1>1, <3>6 DEF Types
      <4> QED  BY <3>1, <3>5, <3>7, <4>1, <4>2
    <3> QED  BY <3>4, <3>7, <3>8, <3>9, <3>10, <3>11, SpanIs
  <2>2. CASE ~(rdataEdge \/ indexEdge \/ counter = Span)
    <3>1. captured' = captured /\ counter' = counter + 1
      BY <2>2 DEF Tick, Sample
    <3>2. counter' \in 1 .. Span
      BY <1>7, <2>2, <3>1, SpanIs
    <3>3. \A i \in 1 .. Len(captured) : captured[i].ticks \in 1 .. Span
      BY <1>1 DEF Types
    <3>4. e + (counter + 1) = now + 1
      BY <1>7, <1>9, SpanIs
    <3> QED  BY <1>7, <1>9, <2>2, <3>1, <3>2, <3>3, <3>4
  <2> QED  BY <2>1, <2>2
<1>11. Types'
  <2>1. rdataEdge' \in BOOLEAN /\ indexEdge' \in BOOLEAN
    BY <1>5
  <2>2. oldRdataToggle' \in BOOLEAN /\ oldIndexToggle' \in BOOLEAN
    BY <1>1, <1>5 DEF Types
  <2>3. counter' \in 0 .. Span /\ now' \in Nat
    BY <1>3, <1>7, <1>10, SpanIs
  <2> QED  BY <1>1, <1>3, <1>4, <1>10, <2>1, <2>2, <2>3 DEF Types
<1>12. SampledSoFar'
  <2>1. Seen(rdata, PulseTicks(captured'), rdataToggle # oldRdataToggle, FALSE, now + 1)
    <3>1. PICK unseen \in BOOLEAN : unseen = (rdataToggle # oldRdataToggle)
      OBVIOUS
    <3>2. Seen(rdata, PulseTicks(captured), rdataEdge, unseen, now)
      BY <1>1, <3>1 DEF SampledSoFar
    <3>3. Seen(rdata, IF rdataEdge THEN Append(PulseTicks(captured), now) ELSE PulseTicks(captured),
               unseen, FALSE, now + 1)
      BY <1>7, <3>2, SeenTick
    <3> QED  BY <1>10, <3>1, <3>3
  <2>2. Seen(index, IndexTicks(captured'), indexToggle # oldIndexToggle, FALSE, now + 1)
    <3>1. PICK unseen \in BOOLEAN : unseen = (indexToggle # oldIndexToggle)
      OBVIOUS
    <3>2. Seen(index, IndexTicks(captured), indexEdge, unseen, now)
      BY <1>1, <3>1 DEF SampledSoFar
    <3>3. Seen(index, IF indexEdge THEN Append(IndexTicks(captured), now) ELSE IndexTicks(captured),
               unseen, FALSE, now + 1)
      BY <1>7, <3>2, SeenTick
    <3> QED  BY <1>10, <3>1, <3>3
  <2>3. (rdataToggle' # oldRdataToggle') = FALSE /\ (indexToggle' # oldIndexToggle') = FALSE
    BY <1>4, <1>5
  <2>4. Seen(rdata', PulseTicks(captured'), rdataEdge', rdataToggle' # oldRdataToggle', now')
    BY <1>3, <1>4, <1>5, <2>1, <2>3
  <2>5. Seen(index', IndexTicks(captured'), indexEdge', indexToggle' # oldIndexToggle', now')
    BY <1>3, <1>4, <1>5, <2>2, <2>3
  <2>6. Elapsed(captured')[Len(captured')] + counter' = now'
    BY <1>3, <1>10
  <2>7. counter' # 0 /\ now' # 0
    BY <1>3, <1>7, <1>10, SpanIs
  <2> QED  BY <2>4, <2>5, <2>6, <2>7 DEF SampledSoFar
<1> QED  BY <1>6, <1>8, <1>11, <1>12 DEF PathInv

LEMMA NextPath == PathInv /\ [Next]_vars => PathInv'
<1> SUFFICES ASSUME PathInv, [Next]_vars PROVE PathInv'
  OBVIOUS
<1>1. CASE Load        BY <1>1, LoadStep
<1>2. CASE Count       BY <1>2, CountStep
<1>3. CASE IndexPulse  BY <1>3, IndexStep
<1>4. CASE Tick        BY <1>4, TickStep
<1>5. CASE UNCHANGED vars
  <2>1. UNCHANGED <<track, sequencer, sampleclocked, sampler, rdataToggle, indexToggle, now, rdata, index>>
    BY <1>5 DEF vars
  <2>2. /\ UNCHANGED track /\ UNCHANGED <<sampleclocked, rdataToggle, indexToggle, now, rdata, index>>
        /\ UNCHANGED <<map, state, countdown, pulsepending>>
        /\ UNCHANGED <<oldRdataToggle, rdataEdge, oldIndexToggle, indexEdge, counter, captured>>
        /\ stray' = stray
    BY <2>1 DEF track, sequencer, sampler
  <2>3. Playing' = Playing /\ DueOf' = DueOf /\ Strays' = Strays /\ TrackOK'
        /\ \A i : Done(i)' = Done(i)
    BY <2>2, TrackKept DEF PathInv
  <2>4. Types'
    BY <2>2 DEF PathInv, Types
  <2>5. Sequenced'
    <3>1. PICK s \in {0, 1}, p \in Nat, n \in Nat : AtOpcode(s, p) /\ Given(s, p, n)
      BY DEF PathInv, Sequenced
    <3>2. Counted(s)' = Counted(s)
      BY <2>2 DEF Counted
    <3>3. AtOpcode(s, p)'
      BY <2>2, <2>3, <3>1, <3>2 DEF AtOpcode
    <3>4. InTime(rdata, s, n)'
      BY <2>2, <2>3, <3>1 DEF Given, InTime
    <3>5. Given(s, p, n)'
      BY <2>2, <2>3, <3>1, <3>4 DEF Given
    <3> QED  BY <3>3, <3>5 DEF Sequenced
  <2>6. SampledSoFar'
    BY <2>2 DEF PathInv, SampledSoFar
  <2> QED  BY <2>3, <2>4, <2>5, <2>6 DEF PathInv
<1> QED  BY <1>1, <1>2, <1>3, <1>4, <1>5 DEF Next

\* The three parts hold in every reachable state, whatever the streams, the
\* clocks' phases and the span of the counter.
THEOREM PathInvariant == Spec => []PathInv
BY InitPath, NextPath, PTL DEF Spec

-----------------------------------------------------------------------------
(* What it means.                                                            *)

LEMMA WrittenIs ==
    ASSUME Types, rdata \in Seq(Nat), NEW n \in Nat, Len(rdata) = n + Strays
    PROVE  /\ Len(Written) = n /\ DOMAIN Written = 1 .. n
           /\ \A k \in 1 .. n : Written[k] = rdata[k + Strays]
<1>1. CASE stray
  <2>1. Strays = 1 /\ rdata # <<>>
    BY <1>1 DEF Strays
  <2>2. /\ Tail(rdata) \in Seq(Nat) /\ Len(Tail(rdata)) = n
        /\ \A k \in 1 .. Len(Tail(rdata)) : Tail(rdata)[k] = rdata[k + 1]
    BY <2>1, HeadTailProperties
  <2> QED  BY <1>1, <2>1, <2>2 DEF Written
<1>2. CASE ~stray
  <2>1. Strays = 0 /\ \A k \in 1 .. n : k + 0 = k
    BY <1>2 DEF Strays
  <2> QED  BY <1>2, <2>1 DEF Written
<1> QED  BY <1>1, <1>2

LEMMA GivenDue ==
    ASSUME PathInv, NEW s \in {0, 1}, NEW p \in Nat, NEW n \in Nat,
           AtOpcode(s, p), Given(s, p, n)
    PROVE  /\ Len(PulseTicks(Done(p))) \in Nat
           /\ n <= Len(PulseTicks(Done(p))) /\ Len(PulseTicks(Done(p))) <= Len(DueOf)
<1>1. TrackOK /\ Types
  BY DEF PathInv
<1>2. PICK m \in Seq(Opcodes) : m = Playing /\ PulseTicks(m) = DueOf
  BY <1>1, PlayingIs DEF DueOf
<1>3. p \in 0 .. Len(m)
  <2>1. Len(map) \in Nat /\ p + Len(map) = Len(m) /\ Len(m) \in Nat
    BY <1>1, <1>2 DEF Types, AtOpcode
  <2> QED  BY <2>1
<1>4. Begins(PulseTicks(Done(p)), DueOf)
  BY <1>2, <1>3, PlayedPart DEF Done
<1>5. PICK c \in Nat : c = Len(PulseTicks(Done(p)))
  <2>1. PICK d \in Seq(Opcodes) : d = Done(p)
    BY <1>2, <1>3, PartOf DEF Done
  <2>2. Len(d) \in 0 .. Len(d)
    OBVIOUS
  <2>3. PulseTicks(d) \in Seq(Nat)
    BY <2>2, TicksIn DEF PulseTicks
  <2> QED  BY <2>1, <2>3
<1>6. n + (IF state = "WRITING" /\ countdown > 0 /\ pulsepending THEN 1 ELSE 0) = c
  BY <1>5 DEF Given
<1> QED  BY <1>4, <1>5, <1>6 DEF Begins

LEMMA OnTime == PathInv => PlayedOnTime
<1> SUFFICES ASSUME PathInv PROVE PlayedOnTime
  OBVIOUS
<1>1. TrackOK /\ Types /\ SampledSoFar
  BY DEF PathInv
<1>2. PICK s \in {0, 1}, p \in Nat, n \in Nat : AtOpcode(s, p) /\ Given(s, p, n)
  BY DEF PathInv, Sequenced
<1>3. rdata \in Seq(Nat) /\ Strays \in {0, 1} /\ Len(rdata) = n + Strays
  BY <1>1, <1>2 DEF SampledSoFar, Seen, Given, Strays
<1>4. /\ Len(Written) = n /\ DOMAIN Written = 1 .. n
      /\ \A k \in 1 .. n : Written[k] = rdata[k + Strays]
  BY <1>1, <1>3, WrittenIs
<1>5. Wanted = DueOf /\ DueOf \in Seq(Nat)
  BY <1>1, WantedIs, DueOfIs DEF DueOf
<1>6. PICK m \in Seq(Opcodes) : m = Playing /\ PulseTicks(m) = DueOf
  BY <1>1, PlayingIs DEF DueOf
<1>7. PICK l \in Nat : l = Len(map) /\ p + l = Len(m)
  <2>1. Len(map) \in Nat
    BY <1>1 DEF Types
  <2>2. p + Len(map) = Len(m)
    BY <1>2, <1>6 DEF AtOpcode
  <2> QED  BY <2>1, <2>2
<1>10. PICK c \in Nat : c = Len(PulseTicks(Done(p)))
  BY <1>2, GivenDue
<1>11. n <= c /\ c <= Len(DueOf)
  BY <1>2, <1>10, GivenDue
<1>12. Len(Written) <= Len(Wanted)
  BY <1>4, <1>5, <1>11
<1>13. Played => Len(Written) = Len(Wanted)
  <2>1. SUFFICES ASSUME Played PROVE n = Len(DueOf)
    BY <1>4, <1>5
  <2>2. n = c
    BY <1>2, <1>10, <2>1 DEF Given, Played
  <2>3. p = Len(m)
    BY <1>7, <2>1 DEF Played
  <2>4. Done(p) = m
    BY <1>6, <2>3, SubSeqFull DEF Done
  <2> QED  BY <1>6, <1>10, <2>2, <2>4
<1>14. ASSUME NEW k \in 1 .. n
       PROVE  (Written[k] - Written[1]) - (Wanted[k] - Wanted[1]) \in {-1, 0, 1}
  <2>1. \A j \in 1 .. n : /\ Written[j] \in Nat /\ DueOf[j] \in Nat
                          /\ Written[j] + 1 + s \in {DueOf[j], DueOf[j] + 1}
    <3>1. ASSUME NEW j \in 1 .. n
          PROVE  /\ Written[j] \in Nat /\ DueOf[j] \in Nat
                 /\ Written[j] + 1 + s \in {DueOf[j], DueOf[j] + 1}
      <4>1. j + Strays \in 1 .. Len(rdata) /\ j \in 1 .. Len(DueOf)
        BY <1>3, <1>5, <1>11
      <4>2. Written[j] = rdata[j + Strays] /\ rdata[j + Strays] \in Nat /\ DueOf[j] \in Nat
        <5>1. DueOf[j] \in Nat
          BY <1>5, <4>1
        <5>2. rdata[j + Strays] \in Nat
          BY <1>3, <4>1
        <5> QED  BY <1>4, <5>1, <5>2
      <4>3. rdata[j + Strays] + 1 + s \in {DueOf[j], DueOf[j] + 1}
        BY <1>2 DEF Given, InTime
      <4> QED  BY <4>2, <4>3
    <3> QED  BY <3>1
  <2>2. 1 \in 1 .. n
    OBVIOUS
  <2>3. PICK w \in Nat, d \in Nat : w = Written[k] /\ d = DueOf[k] /\ w + 1 + s \in {d, d + 1}
    BY <2>1
  <2>4. PICK v \in Nat, e \in Nat : v = Written[1] /\ e = DueOf[1] /\ v + 1 + s \in {e, e + 1}
    BY <2>1, <2>2
  <2>5. (w - v) - (d - e) \in {-1, 0, 1}
    <3>0. s \in Nat
      OBVIOUS
    <3>1. w + 1 + s = d \/ w + 1 + s = d + 1
      BY <2>3
    <3>2. v + 1 + s = e \/ v + 1 + s = e + 1
      BY <2>4
    <3> QED  BY ONLY <3>0, <3>1, <3>2, w \in Nat, d \in Nat, v \in Nat, e \in Nat
  <2> QED  BY <1>5, <2>3, <2>4, <2>5
<1> QED  BY <1>4, <1>12, <1>13, <1>14 DEF PlayedOnTime

\* A signal that has been seen is in the opcodes, all of it when there is
\* nothing on its way.
LEMMA SeenIs ==
    ASSUME NEW times, NEW ticks, NEW edge \in BOOLEAN, NEW pending \in BOOLEAN, NEW t,
           Seen(times, ticks, edge, pending, t)
    PROVE  /\ Late(times) \in Seq(Nat) /\ Len(Late(times)) = Len(times)
           /\ Begins(ticks, Late(times))
           /\ (\A k \in 1 .. Len(times) : times[k] + 1 < t) => ticks = Late(times)
<1>1. times \in Seq(Nat) /\ ticks \in Seq(Nat) /\ t \in Nat
  BY DEF Seen
<1>2. PICK n \in Nat : n = Len(times) /\ DOMAIN times = 1 .. n
  BY <1>1
<1>3. PICK u \in Seq(Nat) : u = Late(times) /\ Len(u) = n /\ \A k \in 1 .. n : u[k] = times[k] + 1
  <2>1. \A k \in 1 .. n : times[k] + 1 \in Nat
    BY <1>1, <1>2
  <2>2. PICK u : u = [k \in 1 .. n |-> times[k] + 1]
    OBVIOUS
  <2>3. u \in [1 .. n -> Nat]
    BY <2>1, <2>2
  <2>4. u \in Seq(Nat) /\ Len(u) = n
    BY <2>3
  <2>5. u = Late(times)
    BY <1>2, <2>2 DEF Late
  <2> QED  BY <2>2, <2>4, <2>5
<1>7. PICK x \in {0, 1} : x = IF edge THEN 1 ELSE 0
  OBVIOUS
<1>8. PICK y \in {0, 1} : y = IF pending THEN 1 ELSE 0
  OBVIOUS
<1>4. PICK r \in Nat : r = Len(ticks) /\ n = r + x + y
  <2>1. n = Len(ticks) + x + y
    BY <1>2, <1>7, <1>8 DEF Seen
  <2> QED  BY <1>1, <2>1
<1>5. Begins(ticks, u)
  <2>1. \A k \in 1 .. r : k \in 1 .. n /\ ticks[k] = times[k] + 1
    <3>1. \A k \in 1 .. r : ticks[k] = times[k] + 1
      BY <1>4 DEF Seen
    <3>2. \A k \in 1 .. r : k \in 1 .. n
      BY <1>4
    <3> QED  BY <3>1, <3>2
  <2>2. r <= n
    BY <1>4
  <2> QED  BY <1>3, <1>4, <2>1, <2>2 DEF Begins
<1>6. ASSUME \A k \in 1 .. n : times[k] + 1 < t PROVE ticks = u
  <2>1. ~edge
    <3>1. SUFFICES ASSUME edge PROVE FALSE
      OBVIOUS
    <3>2. r + 1 \in 1 .. n
      BY <1>4, <1>7, <3>1
    <3>3. times[r + 1] + 1 = t
      BY <1>4, <3>1 DEF Seen
    <3> QED  BY <1>1, <1>6, <3>2, <3>3
  <2>2. ~pending
    <3>1. SUFFICES ASSUME pending PROVE FALSE
      OBVIOUS
    <3>2. n \in 1 .. n
      BY <1>4, <1>8, <3>1
    <3>3. times[n] = t
      BY <1>2, <3>1 DEF Seen
    <3>4. times[n] \in Nat
      BY <1>1, <1>2, <3>2
    <3> QED  BY <1>1, <1>6, <3>2, <3>3, <3>4
  <2>3. r = n
    BY <1>4, <1>7, <1>8, <2>1, <2>2
  <2>4. \A k \in 1 .. Len(ticks) : ticks[k] = u[k]
    BY <1>3, <1>5, <1>4, <2>3 DEF Begins
  <2> QED  BY <1>1, <1>3, <1>4, <2>3, <2>4, SeqEqual
<1> QED  BY <1>2, <1>3, <1>5, <1>6

LEMMA Exactly == PathInv => SampledExactly
<1> SUFFICES ASSUME PathInv PROVE SampledExactly
  OBVIOUS
<1>1. Types /\ SampledSoFar
  BY DEF PathInv
<1>2. TypeOK
  <2>1. captured \in Seq(Opcodes)
    BY <1>1 DEF Types
  <2>2. ASSUME NEW i \in DOMAIN captured
        PROVE  captured[i].ticks \in 1 .. Span /\ {captured[i].pulse, captured[i].index} \subseteq BOOLEAN
    <3>1. i \in 1 .. Len(captured) /\ captured[i] \in Opcodes
      BY <2>1
    <3> QED  BY <1>1, <3>1 DEF Types, Opcodes
  <2> QED  BY <1>1, <2>2 DEF Types, TypeOK
<1>3. PICK a \in Seq(Nat) : a = PulseTicks(captured)
  BY <1>1 DEF SampledSoFar, Seen
<1>4. PICK b \in Seq(Nat) : b = IndexTicks(captured)
  BY <1>1 DEF SampledSoFar, Seen
<1>5. /\ Late(rdata) \in Seq(Nat) /\ Len(Late(rdata)) = Len(rdata) /\ Begins(a, Late(rdata))
      /\ (\A k \in 1 .. Len(rdata) : rdata[k] + 1 < now) => a = Late(rdata)
  <2>1. PICK unseen \in BOOLEAN : unseen = (rdataToggle # oldRdataToggle)
    OBVIOUS
  <2>2. Seen(rdata, a, rdataEdge, unseen, now) /\ rdataEdge \in BOOLEAN
    BY <1>1, <1>3, <2>1 DEF SampledSoFar, Types
  <2> QED  BY <2>2, SeenIs
<1>6. /\ Late(index) \in Seq(Nat) /\ Len(Late(index)) = Len(index) /\ Begins(b, Late(index))
      /\ (\A k \in 1 .. Len(index) : index[k] + 1 < now) => b = Late(index)
  <2>1. PICK unseen \in BOOLEAN : unseen = (indexToggle # oldIndexToggle)
    OBVIOUS
  <2>2. Seen(index, b, indexEdge, unseen, now) /\ indexEdge \in BOOLEAN
    BY <1>1, <1>4, <2>1 DEF SampledSoFar, Types
  <2> QED  BY <2>2, SeenIs
<1>7. IsPrefix(a, Late(rdata)) /\ IsPrefix(b, Late(index))
  BY <1>5, <1>6, PrefixIs
<1>8. rdata \in Seq(Nat) /\ index \in Seq(Nat) /\ now \in Nat
  BY <1>1 DEF SampledSoFar, Seen
<1>9. ASSUME Drained
      PROVE  /\ a = Late(rdata) /\ b = Late(index)
             /\ IsPrefix(PulsesRead(captured), Late(rdata))
             /\ Len(PulsesRead(captured)) >= Len(rdata) - 1
  <2>1. PICK m \in Nat : /\ m = Max({0} \cup Range(rdata) \cup Range(index))
                         /\ \A k \in 1 .. Len(rdata) : rdata[k] <= m
                         /\ \A k \in 1 .. Len(index) : index[k] <= m
    BY <1>8, LastOf
  <2>2. now > Span + 2 + m
    BY <1>9, <2>1 DEF Drained
  <2>3. \A k \in 1 .. Len(rdata) : rdata[k] + 1 < now
    <3>1. ASSUME NEW k \in 1 .. Len(rdata) PROVE rdata[k] + 1 < now
      <4>0. rdata[k] <= m
        BY <2>1
      <4>2. rdata[k] \in Nat
        BY <1>8
      <4>1. PICK t \in Nat : t = rdata[k] /\ t <= m
        BY <4>0, <4>2
      <4> QED  BY <1>8, <2>2, <4>1, SpanIs
    <3> QED  BY <3>1
  <2>4. \A k \in 1 .. Len(index) : index[k] + 1 < now
    <3>1. ASSUME NEW k \in 1 .. Len(index) PROVE index[k] + 1 < now
      <4>0. index[k] <= m
        BY <2>1
      <4>2. index[k] \in Nat
        BY <1>8
      <4>1. PICK t \in Nat : t = index[k] /\ t <= m
        BY <4>0, <4>2
      <4> QED  BY <1>8, <2>2, <4>1, SpanIs
    <3> QED  BY <3>1
  <2>5. a = Late(rdata) /\ b = Late(index)
    BY <1>5, <1>6, <2>3, <2>4
  <2>6. captured \in Seq(Opcodes) /\ captured # <<>>
    <3>1. captured \in Seq(Opcodes) /\ counter \in 0 .. Span
      BY <1>1 DEF Types
    <3>2. ASSUME captured = <<>> PROVE FALSE
      <4>1. Elapsed(captured)[Len(captured)] = 0
        BY <3>2, DoneNone
      <4>2. counter = now
        BY <1>1, <3>1, <4>1, SpanIs DEF SampledSoFar
      <4> QED  BY <1>8, <2>1, <2>2, <3>1, <4>2, SpanIs
    <3> QED  BY <3>1, <3>2
  <2>7. PICK l \in Nat : Len(captured) = l + 1
    <3>1. Len(captured) - 1 \in Nat /\ Len(captured) = (Len(captured) - 1) + 1
      BY <2>6
    <3> QED  BY <3>1
  <2>8. PICK c \in Seq(Opcodes), x \in Opcodes : captured = Append(c, x)
    <3>1. l \in 0 .. Len(captured) /\ l < Len(captured)
      BY <2>7
    <3>2. SubSeq(captured, 1, l + 1) = captured
      BY <2>6, <2>7, SubSeqFull
    <3>3. PICK c \in Seq(Opcodes) : c = SubSeq(captured, 1, l)
      BY <2>6, <3>1, PartOf
    <3>4. PICK x \in Opcodes : x = captured[l + 1]
      BY <2>6, <2>7
    <3>5. SubSeq(captured, 1, l + 1) = Append(SubSeq(captured, 1, l), captured[l + 1])
      BY <2>6, <3>1, PartOf
    <3>6. captured = Append(c, x)
      BY <3>2, <3>3, <3>4, <3>5
    <3> QED  BY <3>6
  <2>9. PICK u \in Seq(Nat) : u = PulseTicks(c) /\ PulsesRead(captured) = u
    <3>1. PulsesRead(Append(c, x)) = PulseTicks(c)
      BY OneMore
    <3>2. Len(c) \in 0 .. Len(c)
      OBVIOUS
    <3>3. PulseTicks(c) \in Seq(Nat)
      BY <3>2, TicksIn DEF PulseTicks
    <3> QED  BY <2>8, <3>1, <3>3
  <2>10. PICK e \in Nat : e = Elapsed(c)[Len(c)] + x.ticks
    <3>1. Elapsed(c)[Len(c)] \in Nat
      BY LastElapsed
    <3>2. x.ticks \in Nat
      BY DEF Opcodes
    <3> QED  BY <3>1, <3>2
  <2>11. a = IF x.pulse THEN Append(u, e) ELSE u
    BY <1>3, <2>8, <2>9, <2>10, OneMore
  <2>12. Begins(u, a) /\ Len(u) >= Len(a) - 1
    <3>1. CASE x.pulse
      <4>1. PICK v : v = Append(u, e)
        OBVIOUS
      <4>2. Len(v) = Len(u) + 1 /\ \A k \in 1 .. Len(u) : v[k] = u[k]
        BY <4>1, AppendProperties
      <4>3. a = v
        BY <2>11, <3>1, <4>1
      <4> QED  BY <4>2, <4>3 DEF Begins
    <3>2. CASE ~x.pulse
      <4>1. a = u
        BY <2>11, <3>2
      <4> QED  BY <4>1 DEF Begins
    <3> QED  BY <3>1, <3>2
  <2>13. IsPrefix(u, a)
    BY <2>12, PrefixIs
  <2> QED  BY <1>5, <2>5, <2>9, <2>12, <2>13
<1> QED  BY <1>2, <1>3, <1>4, <1>7, <1>9 DEF SampledExactly

\* The pulses of a track are played as far apart as they are in it, within a
\* tick, however many there have been before.
THEOREM PulsesOnTime == Spec => []PlayedOnTime
BY PathInvariant, OnTime, PTL

\* Every edge of either signal is in the opcodes that are captured, at its tick,
\* and nothing else is; and none of them is without ticks.
THEOREM EdgesSampled == Spec => []SampledExactly
BY PathInvariant, Exactly, PTL

-----------------------------------------------------------------------------
(* The stream of a GreaseWeazle.                                             *)

LEMMA DivRises ==
    ASSUME NEW a \in Nat, NEW b \in Nat, a <= b, NEW d \in Nat \ {0}
    PROVE  a \div d <= b \div d
<1>1. PICK q \in Nat, r \in 0 .. d - 1 : q = a \div d /\ a = d * q + r
  BY DivMod
<1>2. PICK p \in Nat, s \in 0 .. d - 1 : p = b \div d /\ b = d * p + s
  BY DivMod
<1>3. ASSUME p < q PROVE FALSE
  <2>1. PICK e \in Nat : q = p + 1 + e
    <3>1. q - (p + 1) \in Nat /\ q = p + 1 + (q - (p + 1))
      BY <1>3
    <3> QED  BY <3>1
  <2>2. d * q = d * p + d + d * e
    BY <2>1
  <2>3. d * e \in Nat /\ d * p \in Nat
    OBVIOUS
  <2> QED  BY <1>1, <1>2, <2>2, <2>3
<1> QED  BY <1>1, <1>2, <1>3

LEMMA ClockIs == Num \in Nat \ {0} /\ Den \in Nat \ {0} /\ Num >= Den
  BY FluxStreamAssumption

LEMMA FluxTicksRise ==
    ASSUME NEW a \in Nat, NEW b \in Nat, a <= b
    PROVE  FluxTicks(a) \in Nat /\ FluxTicks(b) \in Nat /\ FluxTicks(a) <= FluxTicks(b)
<1>1. PICK n \in Nat \ {0}, d \in Nat \ {0} : n = Num /\ d = Den
  BY ClockIs
<1>2. a * d \in Nat /\ b * d \in Nat
  OBVIOUS
<1>3. a * d <= b * d
  <2>1. PICK e \in Nat : b = a + e
    <3>1. b - a \in Nat /\ b = a + (b - a)
      OBVIOUS
    <3> QED  BY <3>1
  <2>2. b * d = a * d + e * d /\ e * d \in Nat
    BY <2>1
  <2> QED  BY <1>2, <2>2
<1> QED  BY <1>1, <1>2, <1>3, DivMod, DivRises DEF FluxTicks

LEMMA FluxTicksIn == \A a \in Nat : FluxTicks(a) \in Nat
<1>1. ASSUME NEW a \in Nat PROVE FluxTicks(a) \in Nat
  <2>1. a <= a
    OBVIOUS
  <2> QED  BY <2>1, FluxTicksRise
<1> QED  BY <1>1

LEMMA FluxTicksNone == FluxTicks(0) = 0
<1>1. PICK n \in Nat \ {0}, d \in Nat \ {0} : n = Num /\ d = Den
  BY ClockIs
<1>2. (0 * d) \div n = 0
  OBVIOUS
<1> QED  BY <1>1, <1>2 DEF FluxTicks

\* There and back: the same tick, or the one before.
LEMMA BackAgain ==
    ASSUME NEW p \in Nat
    PROVE  /\ (p * Num) \div Den \in Nat
           /\ p - FluxTicks((p * Num) \div Den) \in {0, 1}
<1>1. PICK n \in Nat \ {0}, d \in Nat \ {0} : n = Num /\ d = Den /\ n >= d
  BY ClockIs
<1>2. p * n \in Nat
  OBVIOUS
<1>3. PICK x \in Nat, r \in 0 .. d - 1 : x = (p * n) \div d /\ p * n = d * x + r
  BY <1>2, DivMod
<1>4. x * d \in Nat /\ x * d = d * x
  OBVIOUS
<1>5. PICK y \in Nat, s \in 0 .. n - 1 : y = (x * d) \div n /\ x * d = n * y + s
  BY <1>4, DivMod
<1>6. p * n = n * y + s + r
  BY <1>3, <1>4, <1>5
<1>7. p >= y
  <2>1. ASSUME p < y PROVE FALSE
    <3>1. PICK e \in Nat : y = p + 1 + e
      <4>1. y - (p + 1) \in Nat /\ y = p + 1 + (y - (p + 1))
        BY <2>1
      <4> QED  BY <4>1
    <3>2. n * y = p * n + n + n * e /\ n * e \in Nat
      BY <3>1
    <3> QED  BY <1>2, <1>6, <3>2
  <2> QED  BY <2>1
<1>8. p <= y + 1
  <2>1. ASSUME p > y + 1 PROVE FALSE
    <3>1. PICK e \in Nat : p = y + 2 + e
      <4>1. p - (y + 2) \in Nat /\ p = y + 2 + (p - (y + 2))
        BY <2>1
      <4> QED  BY <4>1
    <3>2. p * n = n * y + n + n + e * n /\ e * n \in Nat /\ n * y \in Nat
      BY <3>1
    <3> QED  BY <1>1, <1>6, <3>2
  <2> QED  BY <2>1
<1>9. FluxTicks((p * Num) \div Den) = y
  BY <1>1, <1>3, <1>5 DEF FluxTicks
<1> QED  BY <1>1, <1>3, <1>7, <1>8, <1>9

\* Later ticks are later there.
LEMMA ThereRises ==
    ASSUME NEW p \in Nat, NEW q \in Nat, p < q
    PROVE  (q * Num) \div Den >= (p * Num) \div Den + 1
<1>1. PICK n \in Nat \ {0}, d \in Nat \ {0} : n = Num /\ d = Den /\ n >= d
  BY ClockIs
<1>2. p * n \in Nat /\ q * n \in Nat
  OBVIOUS
<1>3. PICK x \in Nat, r \in 0 .. d - 1 : x = (p * n) \div d /\ p * n = d * x + r
  BY <1>2, DivMod
<1>4. PICK e \in Nat : q = p + 1 + e
  <2>1. q - (p + 1) \in Nat /\ q = p + 1 + (q - (p + 1))
    OBVIOUS
  <2> QED  BY <2>1
<1>5. q * n = p * n + n + e * n /\ e * n \in Nat
  BY <1>4
<1>6. PICK y \in Nat, s \in 0 .. d - 1 : y = (q * n) \div d /\ q * n = d * y + s
  BY <1>2, DivMod
<1>7. d * x + d <= q * n
  BY <1>1, <1>3, <1>5
<1>8. ASSUME y <= x PROVE FALSE
  <2>1. PICK g \in Nat : x = y + g
    <3>1. x - y \in Nat /\ x = y + (x - y)
      BY <1>8
    <3> QED  BY <3>1
  <2>2. d * x = d * y + d * g /\ d * g \in Nat /\ d * y \in Nat
    BY <2>1
  <2> QED  BY <1>6, <1>7, <2>2
<1> QED  BY <1>1, <1>3, <1>6, <1>8

\* An interval of the stream, as opcodes.
Stretched(m, t, p, i, r) ==
    /\ Stretch(t, p, i) \in Seq(Opcodes)
    /\ r \in Seq(Opcodes) /\ r = m \o Stretch(t, p, i)
    /\ Elapsed(r)[Len(r)] = Elapsed(m)[Len(m)] + t
    /\ PulseTicks(r) = IF p THEN Append(PulseTicks(m), Elapsed(m)[Len(m)] + t) ELSE PulseTicks(m)
    /\ IndexTicks(r) = IF i THEN Append(IndexTicks(m), Elapsed(m)[Len(m)] + t) ELSE IndexTicks(m)

LEMMA StretchIs ==
    ASSUME NEW m \in Seq(Opcodes), NEW t \in Nat, NEW p \in BOOLEAN, NEW i \in BOOLEAN
    PROVE  \E r : Stretched(m, t, p, i, r)
<1>1. PICK full \in Nat : /\ full = IF t = 0 THEN 0 ELSE (t - 1) \div Span
                          /\ t - full * Span \in Nat
  <2>1. CASE t = 0
    <3>1. 0 - 0 * Span = 0
      BY SpanIs
    <3> QED  BY <2>1, <3>1
  <2>2. CASE t # 0
    <3>1. PICK u \in Nat : u = t - 1
      BY <2>2
    <3>2. PICK n \in Nat \ {0} : n = Span
      BY SpanIs
    <3>3. PICK q \in Nat, r \in 0 .. n - 1 : q = u \div n /\ u = n * q + r
      BY DivMod
    <3>4. t - q * n = r + 1
      <4>1. n * q = q * n /\ q * n \in Nat
        OBVIOUS
      <4> QED  BY <3>1, <3>3, <4>1
    <3> QED  BY <2>2, <3>1, <3>2, <3>3, <3>4
  <2> QED  BY <2>1, <2>2
<1>2. PICK b \in Opcodes : b = Byte(t - full * Span, p, i)
  BY <1>1 DEF Byte, Opcodes
<1>3. PICK x \in Seq(Opcodes) : /\ x = m \o Whole(full)
                                /\ Elapsed(x)[Len(x)] = Elapsed(m)[Len(m)] + full * Span
                                /\ PulseTicks(x) = PulseTicks(m) /\ IndexTicks(x) = IndexTicks(m)
  BY WholeQuiet DEF Silent
<1>4. PICK r : r = Append(x, b)
  OBVIOUS
<1>5. m \o Stretch(t, p, i) = r /\ Stretch(t, p, i) \in Seq(Opcodes)
  <2>1. Stretch(t, p, i) = Whole(full) \o <<b>>
    BY <1>1, <1>2 DEF Stretch, Whole
  <2>2. Whole(full) \in Seq(Opcodes) /\ <<b>> \in Seq(Opcodes)
    BY WholeIs
  <2>3. m \o (Whole(full) \o <<b>>) = (m \o Whole(full)) \o <<b>>
    BY <2>2, ConcatAssociative
  <2>4. x \o <<b>> = Append(x, b)
    BY AppendIsConcat
  <2>5. Whole(full) \o <<b>> \in Seq(Opcodes)
    BY <2>2, ConcatProperties
  <2> QED  BY <1>3, <1>4, <2>1, <2>3, <2>4, <2>5
<1>6. r \in Seq(Opcodes) /\ Len(r) = Len(x) + 1
  BY <1>4, AppendProperties
<1>7. b.ticks = t - full * Span /\ b.pulse = p /\ b.index = i
  BY <1>2 DEF Byte
<1>8. Elapsed(x)[Len(x)] + b.ticks = Elapsed(m)[Len(m)] + t
  <2>1. Elapsed(m)[Len(m)] \in Nat /\ full * Span \in Nat
    BY LastElapsed, SpanIs
  <2> QED  BY <1>3, <1>7, <2>1
<1>9. /\ Elapsed(r)[Len(x) + 1] = Elapsed(x)[Len(x)] + b.ticks
      /\ PulseTicks(r) = IF b.pulse THEN Append(PulseTicks(x), Elapsed(x)[Len(x)] + b.ticks)
                         ELSE PulseTicks(x)
      /\ IndexTicks(r) = IF b.index THEN Append(IndexTicks(x), Elapsed(x)[Len(x)] + b.ticks)
                         ELSE IndexTicks(x)
  BY <1>4, OneMore
<1> QED  BY <1>3, <1>5, <1>6, <1>7, <1>8, <1>9 DEF Stretched

-----------------------------------------------------------------------------
(* How a stream is read, an opcode at a time.                                *)

\* Where a conversion can be: its output has the ticks up to the last event,
\* which are not more than it has read; an index mark it remembers is not
\* before the last event.
Conversions ==
    {x \in [gw : Nat, last : Nat, index : Nat \cup {None}, bytes : Seq(Opcodes)] :
        /\ x.last = Elapsed(x.bytes)[Len(x.bytes)] /\ x.last <= FluxTicks(x.gw)
        /\ x.index # None => FluxTicks(x.index) >= x.last}

LEMMA BegunIs ==
    /\ Begun \in Conversions
    /\ PulseTicks(<<>>) = <<>> /\ IndexTicks(<<>>) = <<>>
<1>1. <<>> \in Seq(Opcodes) /\ Len(<<>>) = 0
  OBVIOUS
<1>2. Begun \in [gw : Nat, last : Nat, index : Nat \cup {None}, bytes : Seq(Opcodes)]
  BY <1>1 DEF Begun
<1>3. Begun.last = 0 /\ Begun.gw = 0 /\ Begun.index = None /\ Begun.bytes = <<>>
  BY DEF Begun
<1> QED  BY <1>1, <1>2, <1>3, DoneNone, FluxTicksNone DEF Conversions

LEMMA Regrouped ==
    ASSUME NEW a \in Seq(Opcodes), NEW b \in Seq(Opcodes), NEW c \in Seq(Opcodes)
    PROVE  a \o (b \o c) = (a \o b) \o c
  BY ConcatAssociative

\* A pulse comes at its tick; the index mark that was remembered with it, or
\* before it, unless it is later.
Pulsed(x, t, y) ==
    /\ y.gw = x.gw + t /\ y.last = FluxTicks(y.gw)
    /\ PulseTicks(y.bytes) = Append(PulseTicks(x.bytes), FluxTicks(y.gw))
    /\ IndexTicks(y.bytes) =
           IF x.index # None /\ FluxTicks(x.index) <= FluxTicks(y.gw)
           THEN Append(IndexTicks(x.bytes), FluxTicks(x.index)) ELSE IndexTicks(x.bytes)
    /\ y.index = IF x.index # None /\ FluxTicks(x.index) < FluxTicks(y.gw) THEN None
                 ELSE x.index

LEMMA PulseIs ==
    ASSUME NEW x \in Conversions, NEW t \in Nat
    PROVE  Pulse(x, t) \in Conversions /\ Pulsed(x, t, Pulse(x, t))
<1> DEFINE y == Pulse(x, t)
<1>0. /\ x.gw \in Nat /\ x.last \in Nat /\ x.index \in Nat \cup {None} /\ x.bytes \in Seq(Opcodes)
      /\ x.last = Elapsed(x.bytes)[Len(x.bytes)] /\ x.last <= FluxTicks(x.gw)
      /\ x.index # None => FluxTicks(x.index) >= x.last
  BY DEF Conversions
<1>1. PICK g \in Nat, u \in Nat : g = x.gw + t /\ u = FluxTicks(g) /\ u >= x.last
  <2>1. x.gw + t \in Nat /\ x.gw <= x.gw + t
    BY <1>0
  <2>2. FluxTicks(x.gw) \in Nat /\ FluxTicks(x.gw + t) \in Nat
        /\ FluxTicks(x.gw) <= FluxTicks(x.gw + t)
    BY <1>0, <2>1, FluxTicksRise
  <2> QED  BY <1>0, <2>1, <2>2
<1>2. PICK m \in Seq(Opcodes), l \in Nat : m = x.bytes /\ l = x.last /\ l = Elapsed(m)[Len(m)]
  BY <1>0
<1>3. None \notin Nat
  BY FluxStreamAssumption
<1>4. CASE x.index # None /\ FluxTicks(x.index) < u
  <2>1. PICK v \in Nat : v = FluxTicks(x.index) /\ v < u /\ v >= l
    <3>1. x.index \in Nat
      BY <1>0, <1>4
    <3>2. FluxTicks(x.index) \in Nat
      BY <3>1, FluxTicksIn
    <3> QED  BY <1>0, <1>2, <1>4, <3>2
  <2>2. PICK n \in Seq(Opcodes) :
            /\ n = m \o Stretch(v - l, FALSE, TRUE) /\ Elapsed(n)[Len(n)] = v
            /\ PulseTicks(n) = PulseTicks(m) /\ IndexTicks(n) = Append(IndexTicks(m), v)
            /\ Stretch(v - l, FALSE, TRUE) \in Seq(Opcodes)
    <3>1. PICK e \in Nat : e = v - l /\ l + e = v
      BY <2>1
    <3>2. PICK n : Stretched(m, e, FALSE, TRUE, n)
      BY StretchIs
    <3> QED  BY <1>2, <3>1, <3>2 DEF Stretched
  <2>3. PICK r \in Seq(Opcodes) :
            /\ r = n \o Stretch(u - v, TRUE, FALSE) /\ Elapsed(r)[Len(r)] = u
            /\ PulseTicks(r) = Append(PulseTicks(n), u) /\ IndexTicks(r) = IndexTicks(n)
            /\ Stretch(u - v, TRUE, FALSE) \in Seq(Opcodes)
    <3>1. PICK e \in Nat : e = u - v /\ v + e = u
      BY <2>1
    <3>2. PICK r : Stretched(n, e, TRUE, FALSE, r)
      BY StretchIs
    <3> QED  BY <2>2, <3>1, <3>2 DEF Stretched
  <2>4. m \o (Stretch(v - l, FALSE, TRUE) \o Stretch(u - v, TRUE, FALSE)) = r
    <3>1. PICK a \in Seq(Opcodes), b \in Seq(Opcodes) :
              a = Stretch(v - l, FALSE, TRUE) /\ b = Stretch(u - v, TRUE, FALSE)
      BY <2>2, <2>3
    <3>2. m \o (a \o b) = (m \o a) \o b
      BY Regrouped, Zenon
    <3> QED  BY <2>2, <2>3, <3>1, <3>2
  <2>5. y = [gw |-> g, last |-> u, index |-> None, bytes |-> r]
    <3>1. v # None
      BY <1>3
    <3> QED  BY <1>1, <1>2, <1>4, <2>1, <2>4, <3>1 DEF Pulse
  <2>6. y.gw = g /\ y.last = u /\ y.index = None /\ y.bytes = r
    BY <2>5
  <2>a. y \in [gw : Nat, last : Nat, index : Nat \cup {None}, bytes : Seq(Opcodes)]
    BY <2>5
  <2> HIDE DEF y
  <2>7. y \in Conversions
    <3>1. y.last = Elapsed(y.bytes)[Len(y.bytes)]
      BY <2>3, <2>6
    <3>2. y.last <= FluxTicks(y.gw)
      BY <1>1, <2>6
    <3>3. y.index # None => FluxTicks(y.index) >= y.last
      BY <2>6
    <3> QED  BY <2>a, <3>1, <3>2, <3>3 DEF Conversions
  <2>8. Pulsed(x, t, y)
    <3>1. x.index # None /\ FluxTicks(x.index) <= u
      BY <1>4, <2>1
    <3> QED  BY <1>1, <1>2, <1>4, <2>1, <2>2, <2>3, <2>6, <3>1 DEF Pulsed
  <2> QED  BY <2>7, <2>8 DEF y
<1>5. CASE ~(x.index # None /\ FluxTicks(x.index) < u)
  <2>1. PICK w \in BOOLEAN : w = (x.index # None /\ FluxTicks(x.index) = u)
    OBVIOUS
  <2>2. PICK r \in Seq(Opcodes) :
            /\ r = m \o Stretch(u - l, TRUE, w) /\ Elapsed(r)[Len(r)] = u
            /\ PulseTicks(r) = Append(PulseTicks(m), u)
            /\ IndexTicks(r) = IF w THEN Append(IndexTicks(m), u) ELSE IndexTicks(m)
    <3>1. PICK e \in Nat : e = u - l /\ l + e = u
      BY <1>1, <1>2
    <3>2. PICK r : Stretched(m, e, TRUE, w, r)
      BY StretchIs
    <3> QED  BY <1>2, <3>1, <3>2 DEF Stretched
  <2>3. y = [gw |-> g, last |-> u, index |-> x.index, bytes |-> r]
    <3>1. x.index # None => FluxTicks(x.index) \in Nat
      BY <1>0, FluxTicksIn
    <3>2. x.index # None => FluxTicks(x.index) # None
      BY <1>3, <3>1
    <3> QED  BY <1>1, <1>2, <1>5, <2>1, <2>2, <3>2 DEF Pulse
  <2>4. y.gw = g /\ y.last = u /\ y.index = x.index /\ y.bytes = r
    BY <2>3
  <2>5. x.index # None => FluxTicks(x.index) >= u /\ FluxTicks(x.index) \in Nat
    <3>1. ASSUME x.index # None PROVE FluxTicks(x.index) \in Nat
      BY <1>0, <3>1, FluxTicksIn
    <3> QED  BY <1>5, <3>1
  <2>a. y \in [gw : Nat, last : Nat, index : Nat \cup {None}, bytes : Seq(Opcodes)]
    BY <1>0, <2>3
  <2> HIDE DEF y
  <2>6. y \in Conversions
    <3>1. y.last = Elapsed(y.bytes)[Len(y.bytes)]
      BY <2>2, <2>4
    <3>2. y.last <= FluxTicks(y.gw)
      BY <1>1, <2>4
    <3>3. y.index # None => FluxTicks(y.index) >= y.last
      BY <2>4, <2>5
    <3> QED  BY <2>a, <3>1, <3>2, <3>3 DEF Conversions
  <2>7. w <=> x.index # None /\ FluxTicks(x.index) <= u
    <3>1. ASSUME x.index # None, FluxTicks(x.index) <= u PROVE FluxTicks(x.index) = u
      BY <2>5, <3>1
    <3>2. ASSUME FluxTicks(x.index) = u PROVE FluxTicks(x.index) <= u
      BY <3>2
    <3> QED  BY <2>1, <3>1, <3>2, Zenon
  <2>8. Pulsed(x, t, y)
    BY <1>1, <1>2, <1>5, <2>1, <2>2, <2>4, <2>7 DEF Pulsed
  <2> QED  BY <2>6, <2>8 DEF y
<1> QED  BY <1>4, <1>5

\* The ticks of an opcode.
Width(c) == CASE c.code \in {"short", "space"} -> c.n
              [] c.code = "long"               -> Direct + c.high * Step + c.n - 1
              [] OTHER                         -> 0

LEMMA WidthIs ==
    ASSUME NEW c \in StreamCodes
    PROVE  /\ Width(c) \in Nat
           /\ c.code \in {"short", "long", "space", "index"}
           /\ c.code = "index" => c.n \in Nat
           /\ c # EndOfStream
<1>0. Step \in Nat \ {0} /\ Direct \in Nat \ {0}
  BY FluxStreamAssumption
<1>1. CASE c \in [code : {"short"}, n : 1 .. Direct - 1]
  <2>1. c.code = "short" /\ c.n \in Nat
    BY <1>1
  <2> QED  BY <2>1 DEF Width, EndOfStream
<1>2. CASE c \in [code : {"long"}, high : 0 .. Steps - 1, n : 1 .. Step]
  <2>1. c.code = "long" /\ c.n \in Nat \ {0} /\ c.high \in Nat
    BY <1>2
  <2>2. PICK h \in Nat, n \in Nat \ {0} : h = c.high /\ n = c.n
    BY <2>1
  <2>3. h * Step \in Nat
    BY <1>0
  <2>4. Direct + h * Step + n - 1 \in Nat
    BY <1>0, <2>2, <2>3
  <2> QED  BY <2>1, <2>2, <2>4 DEF Width, EndOfStream
<1>3. CASE c \in [code : {"space", "index"}, n : Nat]
  <2>1. c.code \in {"space", "index"} /\ c.n \in Nat
    BY <1>3
  <2> QED  BY <2>1 DEF Width, EndOfStream
<1> QED  BY <1>1, <1>2, <1>3 DEF StreamCodes

LEMMA ConvertIs ==
    ASSUME NEW x \in Conversions, NEW c \in StreamCodes
    PROVE  LET y == Convert(x, c)
           IN  /\ y \in Conversions /\ y.gw = x.gw + Width(c)
               /\ c.code \in {"short", "long"} => Pulsed(x, Width(c), y)
               /\ c.code \notin {"short", "long"} =>
                     /\ y.bytes = x.bytes
                     /\ y.index = IF c.code = "index" THEN x.gw + c.n ELSE x.index
<1> DEFINE y == Convert(x, c)
<1>0. /\ x \in [gw : Nat, last : Nat, index : Nat \cup {None}, bytes : Seq(Opcodes)]
      /\ x.last = Elapsed(x.bytes)[Len(x.bytes)] /\ x.last <= FluxTicks(x.gw)
      /\ x.index # None => FluxTicks(x.index) >= x.last
  BY DEF Conversions
<1>1. Width(c) \in Nat /\ c.code \in {"short", "long", "space", "index"}
      /\ (c.code = "index" => c.n \in Nat)
  BY WidthIs
<1>2. CASE c.code \in {"short", "long"}
  <2>1. y = Pulse(x, Width(c))
    BY <1>2 DEF Convert, Width
  <2> HIDE DEF y
  <2>2. y \in Conversions /\ Pulsed(x, Width(c), y)
    BY <1>1, <2>1, PulseIs
  <2> QED  BY <1>2, <2>2 DEF Pulsed, y
<1>3. CASE c.code = "space"
  <2>1. PICK n \in Nat : n = Width(c) /\ n = c.n
    BY <1>1, <1>3 DEF Width
  <2>2. y = [x EXCEPT !.gw = x.gw + n]
    BY <1>3, <2>1 DEF Convert
  <2>3. /\ y \in [gw : Nat, last : Nat, index : Nat \cup {None}, bytes : Seq(Opcodes)]
        /\ y.gw = x.gw + n /\ y.last = x.last /\ y.index = x.index /\ y.bytes = x.bytes
    BY <1>0, <2>2
  <2> HIDE DEF y
  <2>4. x.last <= FluxTicks(x.gw + n)
    <3>1. x.gw \in Nat /\ x.last \in Nat /\ x.gw <= x.gw + n
      BY <1>0
    <3>2. PICK a \in Nat, b \in Nat : a = FluxTicks(x.gw) /\ b = FluxTicks(x.gw + n) /\ a <= b
      BY <3>1, FluxTicksRise
    <3> QED  BY <1>0, <3>1, <3>2
  <2>5. y \in Conversions
    BY <1>0, <2>3, <2>4 DEF Conversions
  <2> QED  BY <1>3, <2>1, <2>3, <2>5 DEF y
<1>4. CASE c.code = "index"
  <2>1. PICK n \in Nat : n = c.n /\ Width(c) = 0
    BY <1>1, <1>4 DEF Width
  <2>2. y = [x EXCEPT !.index = x.gw + n]
    BY <1>4, <2>1 DEF Convert
  <2>3. /\ y \in [gw : Nat, last : Nat, index : Nat \cup {None}, bytes : Seq(Opcodes)]
        /\ y.gw = x.gw /\ y.last = x.last /\ y.index = x.gw + n /\ y.bytes = x.bytes
    BY <1>0, <2>2
  <2> HIDE DEF y
  <2>4. x.last <= FluxTicks(x.gw + n)
    <3>1. x.gw \in Nat /\ x.last \in Nat /\ x.gw <= x.gw + n
      BY <1>0
    <3>2. PICK a \in Nat, b \in Nat : a = FluxTicks(x.gw) /\ b = FluxTicks(x.gw + n) /\ a <= b
      BY <3>1, FluxTicksRise
    <3> QED  BY <1>0, <3>1, <3>2
  <2>5. FluxTicks(y.index) >= y.last
    <3>0. x.gw + n \in Nat
      BY <1>0
    <3>1. FluxTicks(x.gw + n) \in Nat /\ x.last \in Nat
      BY <1>0, <3>0, FluxTicksIn
    <3> QED  BY <2>3, <2>4, <3>1
  <2>6. y \in Conversions
    BY <1>0, <2>3, <2>5 DEF Conversions
  <2>7. y.gw = x.gw + 0
    BY <1>0, <2>3
  <2> QED  BY <1>4, <2>1, <2>3, <2>6, <2>7 DEF y
<1> QED  BY <1>1, <1>2, <1>3, <1>4

\* The conversion after each opcode.
Converts(f, s, n) == f[0] = Begun /\ \A i \in 1 .. n : f[i] = Convert(f[i - 1], s[i])

LEMMA ConvertsSame ==
    ASSUME NEW s, NEW n \in Nat, NEW f, NEW h, Converts(f, s, n), Converts(h, s, n)
    PROVE  f[n] = h[n]
<1> DEFINE T == {i \in 0 .. n : f[i] = h[i]}
<1>1. 0 \in T  BY DEF Converts
<1>2. ASSUME NEW i \in 1 .. n, i - 1 \in T PROVE i \in T
  BY <1>2 DEF Converts
<1>3. \A i \in 0 .. n : i \in T
  <2> HIDE DEF T
  <2> QED  BY <1>1, <1>2, AllOf
<1> QED  BY <1>3

LEMMA ConvertsExists ==
    ASSUME NEW s \in Seq(StreamCodes)
    PROVE  \E f \in [0 .. Len(s) -> Conversions] : Converts(f, s, Len(s))
<1>1. PICK n \in Nat : n = Len(s) /\ \A i \in 1 .. n : s[i] \in StreamCodes
  OBVIOUS
<1> DEFINE g == [i \in 1 .. n |-> [x \in Conversions |-> Convert(x, s[i])]]
<1>2. g \in [1 .. n -> [Conversions -> Conversions]]
  <2>1. ASSUME NEW i \in 1 .. n
        PROVE  [x \in Conversions |-> Convert(x, s[i])] \in [Conversions -> Conversions]
    <3>1. \A x \in Conversions : Convert(x, s[i]) \in Conversions
      BY <1>1, ConvertIs
    <3> QED  BY <3>1
  <2> QED  BY <2>1
<1>3. PICK f \in [0 .. n -> Conversions] : Follows(f, Begun, g, n)
  <2> HIDE DEF g
  <2> QED  BY <1>2, BegunIs, Iterated
<1>4. ASSUME NEW i \in 1 .. n PROVE f[i] = Convert(f[i - 1], s[i])
  <2>1. f[i - 1] \in Conversions
    OBVIOUS
  <2>2. g[i][f[i - 1]] = Convert(f[i - 1], s[i])
    BY <2>1
  <2> QED  BY <1>3, <2>2 DEF Follows
<1>5. Converts(f, s, n)
  BY <1>3, <1>4 DEF Converts, Follows
<1> QED  BY <1>1, <1>5

\* A stream is converted up to its end.
LEMMA ConvertedIs ==
    ASSUME NEW st \in Seq(StreamCodes \cup {EndOfStream}), NEW s \in Seq(StreamCodes),
           NEW n \in Nat, n = Len(s), n <= Len(st), \A i \in 1 .. n : st[i] = s[i],
           n = Len(st) \/ st[n + 1] = EndOfStream,
           NEW f, Converts(f, s, n)
    PROVE  GreaseWeazleToFluxEngine(st) = f[n].bytes
<1> DEFINE ends == {Len(st) + 1} \cup {i \in DOMAIN st : st[i] = EndOfStream}
<1>1. Min(ends) = n + 1
  <2>1. n + 1 \in ends
    OBVIOUS
  <2>2. ASSUME NEW i \in ends PROVE i \in Nat /\ n + 1 <= i
    <3>0. \A j \in 1 .. n : st[j] # EndOfStream
      <4>1. \A j \in 1 .. n : s[j] \in StreamCodes
        OBVIOUS
      <4> QED  BY <4>1, WidthIs
    <3>1. i \in Nat /\ i > 0 /\ ~(i \in 1 .. n)
      BY <3>0
    <3> QED  BY <3>1
  <2> HIDE DEF ends
  <2>3. \A x \in ends : (\A y \in ends : x <= y) => x = n + 1
    BY <2>1, <2>2
  <2> QED  BY <2>1, <2>2, <2>3 DEF Min
<1>2. (n + 1) - 1 = n
  OBVIOUS
<1> DEFINE F(h) == h = [i \in 0 .. n |-> IF i = 0 THEN Begun ELSE Convert(h[i - 1], st[i])]
           F0 == CHOOSE h : F(h)
<1>3. GreaseWeazleToFluxEngine(st) = F0[n].bytes
  BY <1>1, <1>2 DEF GreaseWeazleToFluxEngine
<1>4. PICK h : h = [i \in 0 .. n |-> f[i]]
  OBVIOUS
<1>5. F(h)
  <2>1. ASSUME NEW i \in 0 .. n PROVE h[i] = IF i = 0 THEN Begun ELSE Convert(h[i - 1], st[i])
    <3>1. CASE i = 0
      BY <1>4, <3>1 DEF Converts
    <3>2. CASE i # 0
      <4>1. i \in 1 .. n /\ i - 1 \in 0 .. n
        BY <3>2
      <4>2. h[i] = f[i] /\ h[i - 1] = f[i - 1] /\ st[i] = s[i]
        BY <1>4, <4>1
      <4> QED  BY <3>2, <4>1, <4>2 DEF Converts
    <3> QED  BY <3>1, <3>2
  <2>2. h = [i \in 0 .. n |-> h[i]]
    BY <1>4
  <2> QED  BY <2>1, <2>2
<1>6. F(F0)
  <2> HIDE DEF F
  <2> QED  BY <1>5, Zenon
<1>7. Converts(F0, s, n)
  <2> HIDE DEF F0
  <2>1. \A i \in 0 .. n : F0[i] = IF i = 0 THEN Begun ELSE Convert(F0[i - 1], st[i])
    BY <1>6
  <2>2. \A i \in 1 .. n : i \in 0 .. n /\ i # 0 /\ st[i] = s[i]
    OBVIOUS
  <2> QED  BY <2>1, <2>2 DEF Converts
<1>8. F0[n] = f[n]
  <2> HIDE DEF F0
  <2> QED  BY <1>7, ConvertsSame
<1> QED  BY <1>3, <1>8

\* Where the conversion of a stream has come.
Reads(s, x) ==
    /\ s \in Seq(StreamCodes) /\ x \in Conversions
    /\ \E f \in [0 .. Len(s) -> Conversions] : Converts(f, s, Len(s)) /\ f[Len(s)] = x

LEMMA ReadsNone == Reads(<<>>, Begun)
<1>1. <<>> \in Seq(StreamCodes) /\ Len(<<>>) = 0
  OBVIOUS
<1>2. PICK f \in [0 .. 0 -> Conversions] : Converts(f, <<>>, 0)
  BY <1>1, ConvertsExists
<1>3. f[0] = Begun
  BY <1>2 DEF Converts
<1> QED  BY <1>1, <1>2, <1>3, BegunIs DEF Reads

LEMMA ReadsMore ==
    ASSUME NEW s, NEW x, Reads(s, x), NEW c \in StreamCodes
    PROVE  Reads(Append(s, c), Convert(x, c))
<1>1. s \in Seq(StreamCodes) /\ x \in Conversions
  BY DEF Reads
<1>2. PICK n \in Nat : n = Len(s)
  BY <1>1
<1>3. PICK f \in [0 .. n -> Conversions] : Converts(f, s, n) /\ f[n] = x
  BY <1>2 DEF Reads
<1>4. PICK a : a = Append(s, c)
  OBVIOUS
<1>5. a \in Seq(StreamCodes) /\ Len(a) = n + 1 /\ a[n + 1] = c /\ \A i \in 1 .. n : a[i] = s[i]
  BY <1>1, <1>2, <1>4, AppendProperties
<1>6. PICK y \in Conversions : y = Convert(x, c)
  BY <1>1, ConvertIs
<1>7. PICK h : h = [i \in 0 .. n + 1 |-> IF i = n + 1 THEN y ELSE f[i]]
  OBVIOUS
<1>8. h \in [0 .. n + 1 -> Conversions]
  BY <1>7
<1>9. Converts(h, a, n + 1)
  <2>1. h[0] = Begun
    BY <1>3, <1>7 DEF Converts
  <2>2. ASSUME NEW i \in 1 .. n + 1 PROVE h[i] = Convert(h[i - 1], a[i])
    <3>0. i - 1 \in 0 .. n /\ h[i - 1] = f[i - 1]
      BY <1>7
    <3>1. CASE i = n + 1
      <4>1. i - 1 = n
        BY <3>1
      <4> QED  BY <1>3, <1>5, <1>6, <1>7, <3>0, <3>1, <4>1
    <3>2. CASE i # n + 1
      <4>1. i \in 1 .. n /\ h[i] = f[i]
        BY <1>7, <3>2
      <4> QED  BY <1>3, <1>5, <3>0, <4>1 DEF Converts
    <3> QED  BY <3>1, <3>2
  <2> QED  BY <2>1, <2>2 DEF Converts
<1>10. h[n + 1] = y
  BY <1>7
<1> QED  BY <1>4, <1>5, <1>6, <1>8, <1>9, <1>10 DEF Reads

LEMMA ReadsAll ==
    ASSUME NEW s, NEW x, Reads(s, x)
    PROVE  GreaseWeazleToFluxEngine(Append(s, EndOfStream)) = x.bytes
<1>1. s \in Seq(StreamCodes)
  BY DEF Reads
<1>2. PICK n \in Nat : n = Len(s)
  BY <1>1
<1>3. PICK f \in [0 .. n -> Conversions] : Converts(f, s, n) /\ f[n] = x
  BY <1>2 DEF Reads
<1>4. PICK a : a = Append(s, EndOfStream)
  OBVIOUS
<1>5. /\ a \in Seq(StreamCodes \cup {EndOfStream}) /\ Len(a) = n + 1 /\ a[n + 1] = EndOfStream
      /\ \A i \in 1 .. n : a[i] = s[i]
  <2>1. s \in Seq(StreamCodes \cup {EndOfStream})
    <3>1. s \in [1 .. n -> StreamCodes]
      BY <1>1, <1>2
    <3>2. s \in [1 .. n -> StreamCodes \cup {EndOfStream}]
      BY <3>1
    <3> QED  BY <3>2
  <2> QED  BY <1>2, <1>4, <2>1, AppendProperties
<1>6. n <= Len(a)
  BY <1>5
<1> QED  BY <1>1, <1>2, <1>3, <1>4, <1>5, <1>6, ConvertedIs

LEMMA PairIs ==
    ASSUME NEW a \in StreamCodes, NEW c \in StreamCodes
    PROVE  <<a>> \o <<c>> = <<a, c>>
<1>1. <<a>> \in Seq(StreamCodes) /\ <<c>> \in Seq(StreamCodes) /\ <<a, c>> \in Seq(StreamCodes)
  OBVIOUS
<1>2. PICK p \in Seq(StreamCodes), q \in Seq(StreamCodes), r \in Seq(StreamCodes) :
          /\ p = <<a>> /\ Len(p) = 1 /\ p[1] = a /\ q = <<c>> /\ Len(q) = 1 /\ q[1] = c
          /\ r = <<a, c>> /\ Len(r) = 2 /\ r[1] = a /\ r[2] = c
  BY <1>1
<1>3. PICK u \in Seq(StreamCodes) : u = p \o q /\ Len(u) = 2 /\ u[1] = a /\ u[2] = c
  <2>1. PICK u : u = p \o q
    OBVIOUS
  <2>2. u \in Seq(StreamCodes) /\ Len(u) = 2
    BY <1>2, <2>1, ConcatProperties
  <2>3. u[1] = a
    BY <1>2, <2>1, ConcatProperties
  <2>4. u[2] = c
    BY <1>2, <2>1, ConcatProperties
  <2> QED  BY <2>1, <2>2, <2>3, <2>4
<1>4. \A i \in 1 .. 2 : u[i] = r[i]
  <2>1. \A i \in 1 .. 2 : i = 1 \/ i = 2
    OBVIOUS
  <2> QED  BY <1>2, <1>3, <2>1
<1>5. u = r
  BY <1>2, <1>3, <1>4, SeqEqual
<1> QED  BY <1>2, <1>3, <1>5

-----------------------------------------------------------------------------
(* There and back.                                                           *)

\* The opcodes of an interval are read as that interval.
ReadOn(s, x, t, y) ==
    /\ Reads(s \o Delta(t), y) /\ y.index = None /\ y.gw = x.gw + t
    /\ PulseTicks(y.bytes) = Append(PulseTicks(x.bytes), FluxTicks(x.gw + t))

LEMMA DeltaRead ==
    ASSUME NEW s, NEW x, Reads(s, x), x.index = None, NEW t \in Nat \ {0}
    PROVE  Delta(t) \in Seq(StreamCodes) /\ \E y : ReadOn(s, x, t, y)
<1>0. s \in Seq(StreamCodes) /\ x \in Conversions
  BY DEF Reads
<1>1. ASSUME NEW r, NEW z, Reads(r, z), z.index = None, NEW c \in StreamCodes,
             c.code \in {"short", "long"}
      PROVE  /\ Reads(r \o <<c>>, Convert(z, c)) /\ Convert(z, c).index = None
             /\ Convert(z, c).gw = z.gw + Width(c)
             /\ PulseTicks(Convert(z, c).bytes)
                  = Append(PulseTicks(z.bytes), FluxTicks(z.gw + Width(c)))
  <2>1. r \in Seq(StreamCodes) /\ z \in Conversions
    BY <1>1 DEF Reads
  <2>2. r \o <<c>> = Append(r, c)
    BY <2>1, AppendIsConcat
  <2>3. Reads(Append(r, c), Convert(z, c))
    BY <1>1, ReadsMore
  <2>4. Pulsed(z, Width(c), Convert(z, c))
    BY <1>1, <2>1, ConvertIs
  <2> QED  BY <1>1, <2>2, <2>3, <2>4 DEF Pulsed
<1>2. Direct \in Nat /\ Direct > 1 /\ Step \in Nat \ {0} /\ Steps \in Nat \ {0}
  BY FluxStreamAssumption
<1>3. CASE t \in 1 .. Direct - 1
  <2>1. Delta(t) = <<Short(t)>>
    BY <1>2, <1>3 DEF Delta
  <2>2. PICK c \in StreamCodes : c = Short(t)
    BY <1>2, <1>3 DEF Short, StreamCodes
  <2>3. c.code = "short" /\ Width(c) = t
    BY <2>2 DEF Short, Width
  <2>4. <<c>> \in Seq(StreamCodes)
    OBVIOUS
  <2>5. ReadOn(s, x, t, Convert(x, c))
    BY <1>1, <2>1, <2>2, <2>3 DEF ReadOn
  <2> QED  BY <2>1, <2>2, <2>4, <2>5
<1>4. CASE t >= Direct
  <2>1. PICK e \in Nat : e = t - Direct /\ t = Direct + e
    <3>1. t - Direct \in Nat /\ t = Direct + (t - Direct)
      BY <1>2, <1>4
    <3> QED  BY <3>1
  <2>2. PICK h \in Nat, l \in 0 .. Step - 1 : h = e \div Step /\ l = e % Step /\ e = h * Step + l
    <3>1. PICK n \in Nat \ {0} : n = Step
      BY <1>2
    <3>2. PICK h \in Nat, l \in 0 .. n - 1 : h = e \div n /\ l = e % n /\ e = n * h + l
      BY DivMod
    <3>3. n * h = h * n
      OBVIOUS
    <3> QED  BY <3>1, <3>2, <3>3
  <2>3. CASE h < Steps
    <3>1. Delta(t) = <<Long(h, 1 + l)>>
      <4>1. t # 0 /\ ~(t \in 1 .. Direct - 1) /\ (t - Direct) \div Step = h /\ (t - Direct) % Step = l
        BY <1>2, <1>4, <2>1, <2>2
      <4> QED  BY <1>4, <2>3, <4>1 DEF Delta
    <3>2. 1 + l \in 1 .. Step /\ h \in 0 .. Steps - 1
      BY <1>2, <2>2, <2>3
    <3>3. PICK c \in StreamCodes : c = Long(h, 1 + l)
      BY <3>2 DEF Long, StreamCodes
    <3>4. c.code = "long" /\ Width(c) = t
      <4>1. c.code = "long" /\ c.high = h /\ c.n = 1 + l
        BY <3>3 DEF Long
      <4>2. Width(c) = Direct + h * Step + (1 + l) - 1
        BY <4>1 DEF Width
      <4>3. h * Step \in Nat
        BY <1>2
      <4> QED  BY <1>2, <2>1, <2>2, <4>1, <4>2, <4>3
    <3>5. <<c>> \in Seq(StreamCodes)
      OBVIOUS
    <3>6. ReadOn(s, x, t, Convert(x, c))
      BY <1>1, <3>1, <3>3, <3>4 DEF ReadOn
    <3> QED  BY <3>1, <3>3, <3>5, <3>6
  <2>4. CASE ~(h < Steps)
    <3>1. Delta(t) = <<Space(t - (Direct - 1)), Short(Direct - 1)>>
      BY <1>2, <1>4, <2>1, <2>2, <2>4 DEF Delta
    <3>2. PICK u \in Nat : u = t - (Direct - 1) /\ u + (Direct - 1) = t
      BY <1>2, <1>4
    <3>3. PICK a \in StreamCodes : a = Space(u)
      BY DEF Space, StreamCodes
    <3>4. PICK c \in StreamCodes : c = Short(Direct - 1)
      <4>1. PICK d \in 1 .. Direct - 1 : d = Direct - 1
        BY <1>2
      <4>2. Short(d) \in StreamCodes
        BY DEF Short, StreamCodes
      <4> QED  BY <4>1, <4>2
    <3>5. a.code = "space" /\ Width(a) = u /\ c.code = "short" /\ Width(c) = Direct - 1
      BY <3>3, <3>4 DEF Space, Short, Width
    <3>6. PICK z : z = Convert(x, a)
      OBVIOUS
    <3>7. z.index = None /\ z.bytes = x.bytes /\ z.gw = x.gw + u
      BY <1>0, <3>5, <3>6, ConvertIs
    <3>8. Reads(Append(s, a), z)
      BY <3>6, ReadsMore
    <3>9. PICK y : /\ Reads(Append(s, a) \o <<c>>, y) /\ y.index = None
                   /\ y.gw = z.gw + (Direct - 1)
                   /\ PulseTicks(y.bytes)
                        = Append(PulseTicks(z.bytes), FluxTicks(z.gw + (Direct - 1)))
      BY <1>1, <3>5, <3>7, <3>8
    <3>10. z.gw + (Direct - 1) = x.gw + t
      <4>1. x.gw \in Nat
        BY <1>0 DEF Conversions
      <4> QED  BY <1>2, <3>2, <3>7, <4>1
    <3>11. Delta(t) = <<a, c>> /\ <<a, c>> \in Seq(StreamCodes)
      BY <3>1, <3>2, <3>3, <3>4
    <3>12. Append(s, a) \o <<c>> = s \o <<a, c>>
      <4>1. PICK v : v = Append(s, a)
        OBVIOUS
      <4>2. v \in Seq(StreamCodes) /\ v = s \o <<a>> /\ <<a>> \in Seq(StreamCodes)
            /\ <<c>> \in Seq(StreamCodes)
        BY <1>0, <4>1, AppendProperties, AppendIsConcat
      <4>3. <<a>> \o <<c>> = <<a, c>>
        BY PairIs
      <4>4. (s \o <<a>>) \o <<c>> = s \o (<<a>> \o <<c>>)
        BY <1>0, <4>2, ConcatAssociative
      <4> QED  BY <4>1, <4>2, <4>3, <4>4
    <3>13. ReadOn(s, x, t, y)
      BY <3>7, <3>9, <3>10, <3>11, <3>12 DEF ReadOn
    <3> QED  BY <3>11, <3>13
  <2> QED  BY <2>3, <2>4
<1>5. t \in 1 .. Direct - 1 \/ t >= Direct
  BY <1>2
<1> QED  BY <1>3, <1>4, <1>5

\* Of a map whose pulses are apart.
There(p)   == [k \in DOMAIN p |-> (p[k] * Num) \div Den]
Between(t) == [k \in DOMAIN t |-> Delta(t[k] - IF k = 1 THEN 0 ELSE t[k - 1])]

LEMMA ToStreamIs ==
    ASSUME NEW m
    PROVE  FluxEngineToGreaseWeazle(m)
             = FlattenSeq(Between(There(PulseTicks(m)))) \o <<EndOfStream>>
  BY Zenon DEF FluxEngineToGreaseWeazle, Between, There

LEMMA SequenceOf ==
    ASSUME NEW S, NEW n \in Nat, NEW f \in [1 .. n -> S]
    PROVE  f \in Seq(S) /\ Len(f) = n
  OBVIOUS

LEMMA ThereAndBack ==
    ASSUME NEW m \in Seq(Opcodes), Separate(PulseTicks(m))
    PROVE  RoundTrip(m)
<1>1. PICK p \in Seq(Nat) : p = PulseTicks(m)
  <2>1. Len(m) \in 0 .. Len(m)
    OBVIOUS
  <2> QED  BY <2>1, TicksIn DEF PulseTicks
<1>2. PICK n \in Nat : n = Len(p) /\ DOMAIN p = 1 .. n
  OBVIOUS
<1>3. PICK t : t = [k \in 1 .. n |-> (p[k] * Num) \div Den]
  OBVIOUS
<1>4. ASSUME NEW k \in 1 .. n PROVE t[k] \in Nat /\ p[k] - FluxTicks(t[k]) \in {0, 1}
  <2>1. p[k] \in Nat
    BY <1>2
  <2> QED  BY <1>3, <2>1, BackAgain
<1> DEFINE g(k) == IF k = 0 THEN 0 ELSE t[k]
<1>5. ASSUME NEW k \in 1 .. n PROVE g(k - 1) \in Nat /\ g(k) - g(k - 1) \in Nat \ {0}
  <2>1. p[k] \in Nat /\ t[k] = (p[k] * Num) \div Den /\ t[k] \in Nat
    BY <1>2, <1>3, <1>4
  <2>2. CASE k = 1
    <3>1. p[k] > 0 /\ 0 \in Nat /\ 0 < p[k]
      BY <1>1, <1>2, <2>1, <2>2 DEF Separate
    <3>2. PICK w \in Nat : w = (0 * Num) \div Den
      BY <3>1, BackAgain
    <3>3. t[k] >= w + 1
      BY <2>1, <3>1, <3>2, ThereRises
    <3>4. t[k] > 0
      BY <2>1, <3>2, <3>3
    <3> QED  BY <2>1, <2>2, <3>4
  <2>3. CASE k # 1
    <3>1. k - 1 \in 1 .. n
      BY <2>3
    <3>2. p[k - 1] \in Nat /\ p[k - 1] < p[k] /\ t[k - 1] = (p[k - 1] * Num) \div Den
          /\ t[k - 1] \in Nat
      BY <1>1, <1>2, <1>3, <1>4, <2>3, <3>1 DEF Separate
    <3>3. t[k] >= t[k - 1] + 1
      BY <2>1, <3>2, ThereRises
    <3> QED  BY <2>1, <2>3, <3>1, <3>2, <3>3
  <2> QED  BY <2>2, <2>3
<1>6. PICK ss : ss = [k \in 1 .. n |-> Delta(g(k) - g(k - 1))]
  OBVIOUS
<1>7. \A k \in 1 .. n : ss[k] \in Seq(StreamCodes)
  <2>1. ASSUME NEW d \in Nat \ {0} PROVE Delta(d) \in Seq(StreamCodes)
    <3>1. Begun.index = None
      BY DEF Begun
    <3> QED  BY <3>1, ReadsNone, DeltaRead
  <2> HIDE DEF g
  <2> QED  BY <1>5, <1>6, <2>1
<1>8. ss \in [1 .. n -> Seq(StreamCodes)]
  <2> HIDE DEF g
  <2> QED  BY <1>6, <1>7
<1>9. PICK j \in [0 .. n -> Seq(StreamCodes)] : Joins(j, ss, n) /\ FlattenSeq(ss) = j[n]
  BY <1>8, FlattenJoins
<1>10. FluxEngineToGreaseWeazle(m) = Append(j[n], EndOfStream)
  <2>1. PICK a : a = FluxEngineToGreaseWeazle(m)
    OBVIOUS
  <2>2. [k \in DOMAIN p |-> (p[k] * Num) \div Den] = t
    BY <1>2, <1>3
  <2>3. DOMAIN t = 1 .. n
    BY <1>3
  <2>4. [k \in 1 .. n |-> Delta(t[k] - IF k = 1 THEN 0 ELSE t[k - 1])] = ss
    <3>1. ASSUME NEW k \in 1 .. n
          PROVE  t[k] - (IF k = 1 THEN 0 ELSE t[k - 1]) = g(k) - g(k - 1)
      <4>1. k # 0 /\ (k = 1 <=> k - 1 = 0)
        OBVIOUS
      <4> QED  BY <4>1
    <3> HIDE DEF g
    <3> QED  BY <1>6, <3>1
  <2>5. FluxEngineToGreaseWeazle(m) = FlattenSeq(ss) \o <<EndOfStream>>
    <3>1. There(PulseTicks(m)) = t
      BY <1>1, <2>2 DEF There
    <3>2. Between(t) = ss
      BY <2>3, <2>4 DEF Between
    <3> QED  BY <3>1, <3>2, ToStreamIs
  <2>6. j[n] \in Seq(StreamCodes \cup {EndOfStream})
    <3>1. PICK s \in Seq(StreamCodes) : s = j[n]
      OBVIOUS
    <3>2. s \in [1 .. Len(s) -> StreamCodes]
      OBVIOUS
    <3>3. s \in [1 .. Len(s) -> StreamCodes \cup {EndOfStream}]
      BY <3>2
    <3>4. s \in Seq(StreamCodes \cup {EndOfStream})
      BY <3>3
    <3> QED  BY <3>1, <3>4
  <2>7. Append(j[n], EndOfStream) = j[n] \o <<EndOfStream>>
    BY <2>6, AppendIsConcat
  <2> QED  BY <1>9, <2>5, <2>7
<1> DEFINE Read(k, x) == /\ Reads(j[k], x) /\ x.gw = g(k) /\ x.index = None
                         /\ PulseTicks(x.bytes) = [i \in 1 .. k |-> FluxTicks(t[i])]
           T == {k \in 0 .. n : \E x : Read(k, x)}
<1>11. 0 \in T
  <2>1. Begun.gw = 0 /\ Begun.index = None /\ Begun.bytes = <<>>
    BY DEF Begun
  <2>2. j[0] = <<>> /\ [i \in 1 .. 0 |-> FluxTicks(t[i])] = <<>>
    BY <1>9 DEF Joins
  <2>3. Read(0, Begun)
    BY <2>1, <2>2, BegunIs, ReadsNone
  <2> HIDE DEF Read
  <2> QED  BY <2>3
<1>12. ASSUME NEW k \in 1 .. n, k - 1 \in T PROVE k \in T
  <2>1. PICK x : Read(k - 1, x)
    BY <1>12
  <2>a. Reads(j[k - 1], x) /\ x.index = None
    BY <2>1
  <2>2. PICK d \in Nat \ {0} : d = g(k) - g(k - 1)
    BY <1>5
  <2>3. j[k] = j[k - 1] \o Delta(d)
    BY <1>6, <1>9, <2>2 DEF Joins
  <2>b. PICK y : ReadOn(j[k - 1], x, d, y)
    <3> HIDE DEF T, Read, g
    <3> QED  BY <2>a, DeltaRead
  <2>4. /\ Reads(j[k - 1] \o Delta(d), y) /\ y.index = None /\ y.gw = x.gw + d
        /\ PulseTicks(y.bytes) = Append(PulseTicks(x.bytes), FluxTicks(x.gw + d))
    BY <2>b DEF ReadOn
  <2>5. x.gw + d = t[k] /\ t[k] = g(k)
    <3>1. k # 0 /\ g(k) = t[k]
      OBVIOUS
    <3>2. PICK c \in Nat : c = g(k - 1)
      <4> HIDE DEF g
      <4> QED  BY <1>5
    <3>3. x.gw = c
      BY <2>1, <3>2
    <3>4. d = t[k] - c
      <4> HIDE DEF g
      <4> QED  BY <2>2, <3>1, <3>2
    <3>5. t[k] \in Nat
      BY <1>4
    <3>6. PICK q \in Nat : q = t[k]
      BY <3>5
    <3>7. x.gw + d = q
      <4> HIDE DEF g
      <4> QED  BY <3>3, <3>4, <3>6
    <3> QED  BY <3>1, <3>6, <3>7
  <2>6. PulseTicks(y.bytes) = [i \in 1 .. k |-> FluxTicks(t[i])]
    <3>1. PICK u : u = [i \in 1 .. k - 1 |-> FluxTicks(t[i])]
      OBVIOUS
    <3>2. PICK v : v = [i \in 1 .. k |-> FluxTicks(t[i])]
      OBVIOUS
    <3>3. PICK h \in Nat : h = k - 1 /\ k = h + 1
      OBVIOUS
    <3>4. u \in [1 .. h -> Nat] /\ v \in [1 .. k -> Nat]
      <4>1. ASSUME NEW i \in 1 .. k PROVE FluxTicks(t[i]) \in Nat
        <5>1. t[i] \in Nat
          BY <1>4
        <5> QED  BY <5>1, FluxTicksIn
      <4>2. \A i \in 1 .. h : i \in 1 .. k
        BY <3>3
      <4> QED  BY <3>1, <3>2, <3>3, <4>1, <4>2
    <3>5. u \in Seq(Nat) /\ Len(u) = h /\ v \in Seq(Nat) /\ Len(v) = h + 1
      <4>1. u \in Seq(Nat) /\ Len(u) = h
        BY <3>4
      <4>2. k \in Nat
        OBVIOUS
      <4>3. v \in Seq(Nat) /\ Len(v) = k
        BY <3>4, <4>2, SequenceOf
      <4> QED  BY <3>3, <4>1, <4>3
    <3>6. PICK f \in Nat : f = FluxTicks(t[k])
      BY <1>4, FluxTicksIn
    <3>7. PICK w : w = Append(u, f)
      OBVIOUS
    <3>8. w \in Seq(Nat) /\ Len(w) = h + 1 /\ w[h + 1] = f /\ \A i \in 1 .. h : w[i] = u[i]
      BY <3>5, <3>7, AppendProperties
    <3>9. ASSUME NEW i \in 1 .. h + 1 PROVE w[i] = v[i]
      <4>1. CASE i = h + 1
        BY <3>2, <3>3, <3>6, <3>8, <4>1
      <4>2. CASE i # h + 1
        <5>1. i \in 1 .. h /\ i \in 1 .. k
          BY <3>3, <4>2
        <5> QED  BY <3>1, <3>2, <3>3, <3>8, <5>1
      <4> QED  BY <4>1, <4>2
    <3>10. w = v
      BY <3>5, <3>8, <3>9, SeqEqual
    <3> QED  BY <2>1, <2>4, <2>5, <3>1, <3>2, <3>6, <3>7, <3>10
  <2>7. Read(k, y)
    BY <2>3, <2>4, <2>5, <2>6
  <2> HIDE DEF Read
  <2> QED  BY <2>7
<1>13. PICK x : Read(n, x)
  <2> HIDE DEF Read
  <2>1. \A k \in 0 .. n : k \in T
    <3> HIDE DEF T
    <3> QED  BY <1>11, <1>12, AllOf
  <2> QED  BY <2>1
<1>14. PICK b : b = PulseTicks(GreaseWeazleToFluxEngine(FluxEngineToGreaseWeazle(m)))
  OBVIOUS
<1>15. b = [i \in 1 .. n |-> FluxTicks(t[i])]
  BY <1>10, <1>13, <1>14, ReadsAll
<1>16. Len(b) = n /\ \A k \in 1 .. n : p[k] - b[k] \in {0, 1}
  <2>1. b \in [1 .. n -> Nat]
    BY <1>4, <1>15, FluxTicksIn
  <2>2. Len(b) = n
    BY <2>1
  <2>3. \A k \in 1 .. n : b[k] = FluxTicks(t[k])
    BY <1>15
  <2> QED  BY <1>4, <2>2, <2>3
<1> QED  BY <1>1, <1>2, <1>14, <1>16 DEF RoundTrip

\* The pulses that have been captured are, too.
LEMMA CapturedApart ==
    ASSUME PathInv, Played, Drained
    PROVE  Separate(PulseTicks(captured))
<1>1. TrackOK /\ Types /\ SampledSoFar
  BY DEF PathInv
<1>2. PICK s \in {0, 1}, p \in Nat, n \in Nat : AtOpcode(s, p) /\ Given(s, p, n)
  BY DEF PathInv, Sequenced
<1>3. rdata \in Seq(Nat) /\ Strays \in {0, 1} /\ Len(rdata) = n + Strays
  BY <1>1, <1>2 DEF SampledSoFar, Seen, Given, Strays
<1>4. n <= Len(DueOf)
  <2>1. PICK c \in Nat : c = Len(PulseTicks(Done(p))) /\ n <= c /\ c <= Len(DueOf)
    BY <1>2, GivenDue
  <2>2. Len(DueOf) \in Nat
    BY <1>1, DueOfIs
  <2> QED  BY <2>1, <2>2
<1>5. /\ DueOf \in Seq(Nat)
      /\ \A k \in 1 .. Len(DueOf) - 1 : DueOf[k + 1] >= DueOf[k] + 2
      /\ Len(DueOf) > 0 => DueOf[1] >= 4
  BY <1>1, DueOfIs
<1>6. ASSUME NEW k \in 1 .. n
      PROVE  /\ k + Strays \in 1 .. Len(rdata) /\ rdata[k + Strays] \in Nat
             /\ DueOf[k] \in Nat /\ rdata[k + Strays] + 1 + s \in {DueOf[k], DueOf[k] + 1}
  <2>1. k + Strays \in 1 .. Len(rdata) /\ k \in 1 .. Len(DueOf)
    BY <1>3, <1>4, <1>5
  <2>2. rdata[k + Strays] \in Nat
    BY <1>3, <2>1
  <2>3. DueOf[k] \in Nat
    BY <1>5, <2>1
  <2> QED  BY <1>2, <2>1, <2>2, <2>3 DEF Given, InTime
<1>7. PICK l \in Nat : l = Len(rdata)
  BY <1>3
<1>8. ASSUME NEW k \in 1 .. l
      PROVE  rdata[k] \in Nat /\ (k # 1 => rdata[k - 1] \in Nat /\ rdata[k - 1] < rdata[k])
  <2>1. rdata[k] \in Nat
    BY <1>3, <1>7
  <2>2. ASSUME k # 1 PROVE rdata[k - 1] \in Nat /\ rdata[k - 1] < rdata[k]
    <3>1. PICK j \in 1 .. n : k = j + Strays
      <4>1. k - Strays \in 1 .. n /\ k = (k - Strays) + Strays
        BY <1>3, <1>7, <2>2
      <4> QED  BY <4>1
    <3>2. PICK w \in Nat, d \in Nat : w = rdata[k] /\ d = DueOf[j] /\ w + 1 + s \in {d, d + 1}
      BY <1>6, <3>1
    <3>3. CASE j = 1
      <4>1. stray /\ k - 1 = 1
        BY <1>3, <2>2, <3>1, <3>3 DEF Strays
      <4>2. rdata[1] = 0
        BY <1>2, <4>1 DEF Given, InTime
      <4>3. d >= 4
        BY <1>4, <1>5, <3>2, <3>3
      <4>4. w > 0
        <5>1. s \in Nat /\ s <= 1
          OBVIOUS
        <5>2. w + 1 + s = d \/ w + 1 + s = d + 1
          BY <3>2
        <5> QED  BY <4>3, <5>1, <5>2
      <4> QED  BY <3>2, <4>1, <4>2, <4>4
    <3>4. CASE j # 1
      <4>1. PICK i \in 1 .. n : j = i + 1 /\ k - 1 = i + Strays
        <5>1. j - 1 \in 1 .. n /\ j = (j - 1) + 1 /\ k - 1 = (j - 1) + Strays
          BY <1>3, <3>1, <3>4
        <5> QED  BY <5>1
      <4>2. PICK v \in Nat, e \in Nat :
                v = rdata[k - 1] /\ e = DueOf[i] /\ v + 1 + s \in {e, e + 1}
        BY <1>6, <4>1
      <4>3. d >= e + 2
        <5>1. i \in 1 .. Len(DueOf) - 1
          BY <1>4, <1>5, <4>1
        <5> QED  BY <1>5, <3>2, <4>1, <4>2, <5>1
      <4>4. v < w
        <5>0. s \in Nat
          OBVIOUS
        <5>1. w + 1 + s = d \/ w + 1 + s = d + 1
          BY <3>2
        <5>2. v + 1 + s = e \/ v + 1 + s = e + 1
          BY <4>2
        <5> QED  BY ONLY <5>0, <5>1, <5>2, <4>3, w \in Nat, d \in Nat, v \in Nat, e \in Nat
      <4> QED  BY <3>2, <4>2, <4>4
    <3> QED  BY <3>3, <3>4
  <2> QED  BY <2>1, <2>2
<1>9. PulseTicks(captured) = Late(rdata)
  BY Exactly DEF SampledExactly
<1>10. PICK a : a = Late(rdata)
  OBVIOUS
<1>11. a \in Seq(Nat) /\ Len(a) = l /\ \A k \in 1 .. l : a[k] = rdata[k] + 1
  <2>1. a = [k \in 1 .. l |-> rdata[k] + 1]
    BY <1>3, <1>7, <1>10 DEF Late
  <2>2. a \in [1 .. l -> Nat]
    BY <1>8, <2>1
  <2> QED  BY <2>1, <2>2, SequenceOf
<1>12. ASSUME NEW k \in 1 .. l PROVE a[k] > IF k = 1 THEN 0 ELSE a[k - 1]
  <2>1. CASE k = 1
    BY <1>8, <1>11, <2>1
  <2>2. CASE k # 1
    <3>1. k - 1 \in 1 .. l
      BY <2>2
    <3>2. a[k] = rdata[k] + 1 /\ a[k - 1] = rdata[k - 1] + 1
      BY <1>11, <3>1
    <3> QED  BY <1>8, <2>2, <3>2
  <2> QED  BY <2>1, <2>2
<1> QED  BY <1>9, <1>10, <1>11, <1>12 DEF Separate

-----------------------------------------------------------------------------
(* Any stream.                                                               *)

LEMMA StreamTicksIs ==
    ASSUME stream \in Seq(StreamCodes)
    PROVE  /\ StreamTicks[0] = 0
           /\ \A i \in 0 .. Len(stream) : StreamTicks[i] \in Nat
           /\ \A i \in 1 .. Len(stream) :
                  StreamTicks[i] = StreamTicks[i - 1] + Width(stream[i])
<1>1. PICK n \in Nat : n = Len(stream) /\ \A i \in 1 .. n : stream[i] \in StreamCodes
  OBVIOUS
<1>2. \A i \in 1 .. n : Width(stream[i]) \in Nat
  BY <1>1, WidthIs
<1> DEFINE F(f) == f = [i \in 0 .. n |-> IF i = 0 THEN 0 ELSE f[i - 1] + Width(stream[i])]
           g == [i \in 1 .. n |-> [x \in Nat |-> x + Width(stream[i])]]
<1>3. g \in [1 .. n -> [Nat -> Nat]]
  BY <1>2
<1>4. PICK f \in [0 .. n -> Nat] : Follows(f, 0, g, n)
  <2> HIDE DEF g
  <2> QED  BY <1>3, Iterated
<1>5. ASSUME NEW i \in 1 .. n PROVE f[i] = f[i - 1] + Width(stream[i])
  <2>1. f[i - 1] \in Nat
    OBVIOUS
  <2>2. g[i][f[i - 1]] = f[i - 1] + Width(stream[i])
    BY <2>1
  <2> QED  BY <1>4, <2>2 DEF Follows
<1>6. F(f)
  <2>1. f[0] = 0
    BY <1>4 DEF Follows
  <2>2. \A i \in 0 .. n : f[i] = IF i = 0 THEN 0 ELSE f[i - 1] + Width(stream[i])
    BY <1>5, <2>1
  <2> HIDE DEF g
  <2> QED  BY <2>2
<1>7. F(StreamTicks)
  <2>1. StreamTicks = CHOOSE h : F(h)
    BY <1>1 DEF StreamTicks, Width
  <2> HIDE DEF F
  <2> QED  BY <1>6, <2>1, Zenon
<1>8. \A i \in 0 .. n : StreamTicks[i] = IF i = 0 THEN 0 ELSE StreamTicks[i - 1] + Width(stream[i])
  BY <1>7
<1> DEFINE T == {i \in 0 .. n : StreamTicks[i] \in Nat}
<1>9. 0 \in T
  BY <1>8
<1>10. ASSUME NEW i \in 1 .. n, i - 1 \in T PROVE i \in T
  <2>1. StreamTicks[i] = StreamTicks[i - 1] + Width(stream[i])
    BY <1>8
  <2> QED  BY <1>2, <1>10, <2>1
<1>11. \A i \in 0 .. n : i \in T
  <2> HIDE DEF T
  <2> QED  BY <1>9, <1>10, AllOf
<1>12. \A i \in 1 .. n : StreamTicks[i] = StreamTicks[i - 1] + Width(stream[i])
  <2>1. \A i \in 1 .. n : i \in 0 .. n /\ i # 0
    OBVIOUS
  <2> QED  BY <1>8, <2>1
<1> QED  BY <1>1, <1>8, <1>11, <1>12

\* What an opcode does.
Reading(f, i) ==
    LET x == f[i - 1]
        y == f[i]
    IN  /\ x \in Conversions /\ y \in Conversions /\ stream[i] \in StreamCodes
        /\ x.gw = StreamTicks[i - 1] /\ y.gw = StreamTicks[i]
        /\ IsPulse(i) => Pulsed(x, Width(stream[i]), y)
        /\ ~IsPulse(i) => /\ y.bytes = x.bytes
                          /\ y.index = IF stream[i].code = "index" THEN x.gw + stream[i].n
                                       ELSE x.index

LEMMA ReadingIs ==
    ASSUME stream \in Seq(StreamCodes), NEW n \in Nat, n = Len(stream),
           NEW f \in [0 .. n -> Conversions], Converts(f, stream, n)
    PROVE  f[0].gw = StreamTicks[0] /\ \A i \in 1 .. n : Reading(f, i)
<1>1. ASSUME NEW i \in 1 .. n
      PROVE  /\ f[i - 1] \in Conversions /\ f[i] \in Conversions /\ stream[i] \in StreamCodes
             /\ f[i] = Convert(f[i - 1], stream[i])
             /\ f[i].gw = f[i - 1].gw + Width(stream[i])
  <2>1. f[i - 1] \in Conversions /\ f[i] \in Conversions /\ stream[i] \in StreamCodes
    OBVIOUS
  <2>2. f[i] = Convert(f[i - 1], stream[i])
    BY DEF Converts
  <2> QED  BY <2>1, <2>2, ConvertIs
<1> DEFINE T == {i \in 0 .. n : f[i].gw = StreamTicks[i]}
<1>2. 0 \in T
  <2>1. f[0].gw = 0
    BY DEF Converts, Begun
  <2> QED  BY <2>1, StreamTicksIs
<1>3. ASSUME NEW i \in 1 .. n, i - 1 \in T PROVE i \in T
  BY <1>1, <1>3, StreamTicksIs
<1>4. \A i \in 0 .. n : i \in T
  <2> HIDE DEF T
  <2> QED  BY <1>2, <1>3, AllOf
<1>5. ASSUME NEW i \in 1 .. n PROVE Reading(f, i)
  <2>1. PICK x \in Conversions, c \in StreamCodes : x = f[i - 1] /\ c = stream[i]
    BY <1>1
  <2>2. PICK y \in Conversions : y = f[i] /\ y = Convert(x, c)
    BY <1>1, <2>1
  <2>3. x.gw = StreamTicks[i - 1] /\ y.gw = StreamTicks[i]
    <3>1. i - 1 \in T /\ i \in T
      <4> HIDE DEF T
      <4> QED  BY <1>4
    <3> QED  BY <2>1, <2>2, <3>1
  <2>4. c.code \in {"short", "long"} => Pulsed(x, Width(c), y)
    BY <2>2, ConvertIs
  <2>5. c.code \notin {"short", "long"} =>
            /\ y.bytes = x.bytes
            /\ y.index = IF c.code = "index" THEN x.gw + c.n ELSE x.index
    BY <2>2, ConvertIs
  <2>6. IsPulse(i) <=> c.code \in {"short", "long"}
    BY <2>1 DEF IsPulse
  <2> QED  BY <2>1, <2>2, <2>3, <2>4, <2>5, <2>6 DEF Reading
<1>6. 0 \in T
  BY <1>2
<1> QED  BY <1>5, <1>6

\* A sequence that has been appended to.
LEMMA AppendIs ==
    ASSUME NEW s \in Seq(Nat), NEW e \in Nat, NEW n \in Nat, Len(s) = n,
           NEW w, w = Append(s, e)
    PROVE  w \in Seq(Nat) /\ Len(w) = n + 1 /\ w[n + 1] = e /\ \A k \in 1 .. n : w[k] = s[k]
BY AppendProperties

\* Its pulses come at its ticks.
LEMMA PulsesConverted ==
    ASSUME stream \in Seq(StreamCodes), NEW n \in Nat, n = Len(stream),
           NEW f \in [0 .. n -> Conversions], Converts(f, stream, n)
    PROVE  LET ones == InOrder({i \in DOMAIN stream : IsPulse(i)}, n)
           IN  PulseTicks(f[n].bytes) = [k \in DOMAIN ones |-> FluxTicks(StreamTicks[ones[k]])]
<1>1. PICK P : P = {i \in DOMAIN stream : IsPulse(i)}
  OBVIOUS
<1> DEFINE At2(s) == [k \in DOMAIN s |-> FluxTicks(StreamTicks[s[k]])]
           T == {i \in 0 .. n : PulseTicks(f[i].bytes) = At2(InOrder(P, i))}
<1>2. 0 \in T
  <2>1. f[0].bytes = <<>>
    BY DEF Converts, Begun
  <2>2. InOrder(P, 0) = <<>>
    BY InOrderSteps
  <2>3. At2(<<>>) = <<>>
    OBVIOUS
  <2>4. PulseTicks(f[0].bytes) = At2(InOrder(P, 0))
    BY <2>1, <2>2, <2>3, BegunIs
  <2> QED  BY <2>4
<1>3. ASSUME NEW i \in 1 .. n, i - 1 \in T PROVE i \in T
  <2>1. PICK h \in Nat : h = i - 1 /\ i = h + 1
    OBVIOUS
  <2>2. PICK s \in Seq(1 .. h) : s = InOrder(P, h)
    BY InOrderRises DEF Rises
  <2>3. PulseTicks(f[h].bytes) = At2(s)
    BY <1>3, <2>1, <2>2
  <2>4. InOrder(P, i) = IF i \in P THEN Append(s, i) ELSE s
    <3>1. i \in Nat \ {0}
      OBVIOUS
    <3> QED  BY <2>1, <2>2, <3>1, InOrderSteps
  <2>5. Reading(f, i)
    BY ReadingIs
  <2>6. i \in P <=> IsPulse(i)
    BY <1>1
  <2>7. CASE i \in P
    <3>1. PulseTicks(f[i].bytes) = Append(PulseTicks(f[h].bytes), FluxTicks(StreamTicks[i]))
      BY <2>1, <2>5, <2>6, <2>7 DEF Reading, Pulsed
    <3>2. At2(Append(s, i)) = Append(At2(s), FluxTicks(StreamTicks[i]))
      <4>1. PICK a : a = Append(s, i)
        OBVIOUS
      <4>2. PICK l \in Nat : l = Len(s) /\ DOMAIN s = 1 .. l
        OBVIOUS
      <4>3. /\ a \in Seq(Nat) /\ Len(a) = l + 1 /\ a[l + 1] = i /\ \A k \in 1 .. l : a[k] = s[k]
        <5>1. s \in Seq(Nat)
          BY <2>2, InOrderSteps
        <5> QED  BY <4>1, <4>2, <5>1, AppendProperties
      <4>4. ASSUME NEW k \in 1 .. l + 1
            PROVE  FluxTicks(StreamTicks[a[k]]) \in Nat
        <5>1. a[k] \in 1 .. n
          <6>1. CASE k = l + 1
            BY <4>3, <6>1
          <6>2. CASE k # l + 1
            <7>1. k \in 1 .. l /\ s[k] \in 1 .. h
              BY <4>2, <6>2
            <7> QED  BY <2>1, <4>3, <7>1
          <6> QED  BY <6>1, <6>2
        <5>2. StreamTicks[a[k]] \in Nat
          <6>1. a[k] \in 0 .. n
            BY <5>1
          <6> QED  BY <6>1, StreamTicksIs
        <5> QED  BY <5>2, FluxTicksIn
      <4>5. PICK u : u = [k \in 1 .. l |-> FluxTicks(StreamTicks[s[k]])]
        OBVIOUS
      <4>6. PICK v : v = [k \in 1 .. l + 1 |-> FluxTicks(StreamTicks[a[k]])]
        OBVIOUS
      <4>7. u \in Seq(Nat) /\ Len(u) = l
        <5>1. u \in [1 .. l -> Nat]
          <6>1. ASSUME NEW k \in 1 .. l PROVE FluxTicks(StreamTicks[s[k]]) \in Nat
            <7>1. k \in 1 .. l + 1 /\ a[k] = s[k]
              BY <4>3
            <7> QED  BY <4>4, <7>1
          <6> QED  BY <4>5, <6>1
        <5> QED  BY <5>1, SequenceOf
      <4>8. v \in Seq(Nat) /\ Len(v) = l + 1
        <5>1. v \in [1 .. l + 1 -> Nat] /\ l + 1 \in Nat
          BY <4>4, <4>6
        <5> QED  BY <5>1, SequenceOf
      <4>9. PICK e \in Nat : e = FluxTicks(StreamTicks[i])
        <5>1. l + 1 \in 1 .. l + 1
          OBVIOUS
        <5> QED  BY <4>3, <4>4, <5>1
      <4>10. PICK w : w = Append(u, e)
        OBVIOUS
      <4>11. w \in Seq(Nat) /\ Len(w) = l + 1 /\ w[l + 1] = e /\ \A k \in 1 .. l : w[k] = u[k]
        BY ONLY <4>2, <4>7, <4>9, <4>10, AppendIs
      <4>12. ASSUME NEW k \in 1 .. l + 1 PROVE w[k] = v[k]
        <5>1. CASE k = l + 1
          BY <4>3, <4>6, <4>9, <4>11, <5>1
        <5>2. CASE k # l + 1
          <6>1. k \in 1 .. l
            BY <5>2
          <6> QED  BY <4>3, <4>5, <4>6, <4>11, <6>1
        <5> QED  BY <5>1, <5>2
      <4>13. w = v
        BY <4>8, <4>11, <4>12, SeqEqual
      <4>14. At2(a) = v /\ At2(s) = u
        <5>1. DOMAIN a = 1 .. l + 1
          BY <4>3
        <5> QED  BY <4>2, <4>5, <4>6, <5>1
      <4> HIDE DEF At2
      <4> QED  BY <4>1, <4>9, <4>10, <4>13, <4>14
    <3>3. PulseTicks(f[i].bytes) = At2(InOrder(P, i))
      <4> HIDE DEF At2
      <4> QED  BY <2>3, <2>4, <2>7, <3>1, <3>2
    <3> HIDE DEF At2
    <3> QED  BY <3>3
  <2>8. CASE i \notin P
    <3>1. f[i].bytes = f[h].bytes
      BY <2>1, <2>5, <2>6, <2>8 DEF Reading
    <3> HIDE DEF At2
    <3> QED  BY <2>3, <2>4, <2>8, <3>1
  <2> QED  BY <2>7, <2>8
<1>4. n \in T
  <2>1. \A i \in 0 .. n : i \in T
    <3> HIDE DEF T
    <3> QED  BY <1>2, <1>3, AllOf
  <2> HIDE DEF T
  <2> QED  BY <2>1
<1> QED  BY <1>1, <1>4

\* Where an index mark is, and the marks that have been given after i opcodes.
MarkAt(q)   == StreamTicks[q - 1] + stream[q].n
IsIndex(q)  == stream[q].code = "index"
GivenAt(q, k) ==
    /\ IsPulse(k) /\ FluxTicks(MarkAt(q)) <= FluxTicks(StreamTicks[k])
    /\ \A j \in q + 1 .. k : ~IsIndex(j)
MarksGiven(i) ==
    {FluxTicks(MarkAt(q)) : q \in {q \in 1 .. i : IsIndex(q) /\ \E k \in q + 1 .. i : GivenAt(q, k)}}

LEMMA MarksOfIs ==
    ASSUME stream \in Seq(StreamCodes)
    PROVE  MarksOf = MarksGiven(Len(stream))
<1>1. DOMAIN stream = 1 .. Len(stream)
  OBVIOUS
<1> QED  BY <1>1, Zenon DEF MarksOf, MarksGiven, GivenAt, MarkAt, IsIndex

\* The conversion remembers the last index mark, or has given it.
Remembers(x, i) ==
    \/ x.index = None /\ \A q \in 1 .. i : ~IsIndex(q)
    \/ \E q \in 1 .. i :
           /\ IsIndex(q) /\ \A j \in q + 1 .. i : ~IsIndex(j)
           /\ \/ x.index = MarkAt(q)
              \/ x.index = None /\ FluxTicks(MarkAt(q)) \in Range(IndexTicks(x.bytes))

LEMMA RangeAppend ==
    ASSUME NEW s \in Seq(Nat), NEW e \in Nat
    PROVE  Range(Append(s, e)) = Range(s) \cup {e}
<1>1. PICK a : a = Append(s, e)
  OBVIOUS
<1>2. PICK n \in Nat : n = Len(s) /\ DOMAIN s = 1 .. n
  OBVIOUS
<1>3. /\ a \in Seq(Nat) /\ Len(a) = n + 1 /\ a[n + 1] = e
      /\ \A i \in 1 .. n : a[i] = s[i]
  BY <1>1, <1>2, AppendProperties
<1>4. DOMAIN a = 1 .. n + 1
  BY <1>3
<1>5. ASSUME NEW y \in Range(a) PROVE y \in Range(s) \cup {e}
  <2>1. PICK i \in 1 .. n + 1 : y = a[i]
    BY <1>4 DEF Range
  <2>2. i \in 1 .. n \/ i = n + 1
    OBVIOUS
  <2> QED  BY <1>2, <1>3, <2>1, <2>2 DEF Range
<1>6. ASSUME NEW y \in Range(s) \cup {e} PROVE y \in Range(a)
  <2>1. CASE y = e
    <3>1. n + 1 \in DOMAIN a
      BY <1>4
    <3> QED  BY <1>3, <2>1, <3>1 DEF Range
  <2>2. CASE y \in Range(s)
    <3>1. PICK i \in 1 .. n : y = s[i]
      BY <1>2, <2>2 DEF Range
    <3>2. i \in DOMAIN a /\ a[i] = y
      BY <1>3, <1>4, <3>1
    <3> QED  BY <3>2 DEF Range
  <2> QED  BY <2>1, <2>2
<1> QED  BY <1>1, <1>5, <1>6

LEMMA IndexTicksIn ==
    ASSUME NEW m \in Seq(Opcodes)
    PROVE  IndexTicks(m) \in Seq(Nat)
<1>1. Len(m) \in 0 .. Len(m)
  OBVIOUS
<1> QED  BY <1>1, TicksIn DEF IndexTicks

LEMMA MarksConverted ==
    ASSUME stream \in Seq(StreamCodes), NEW n \in Nat, n = Len(stream),
           NEW f \in [0 .. n -> Conversions], Converts(f, stream, n)
    PROVE  Range(IndexTicks(f[n].bytes)) = MarksGiven(n)
<1>0. None \notin Nat
  BY FluxStreamAssumption
<1>1. ASSUME NEW q \in 1 .. n, IsIndex(q) PROVE MarkAt(q) \in Nat /\ FluxTicks(MarkAt(q)) \in Nat
  <2>1. q - 1 \in 0 .. n /\ stream[q] \in StreamCodes
    OBVIOUS
  <2>2. StreamTicks[q - 1] \in Nat /\ stream[q].n \in Nat
    BY <1>1, <2>1, StreamTicksIs, WidthIs DEF IsIndex
  <2>3. MarkAt(q) \in Nat
    BY <2>2 DEF MarkAt
  <2> QED  BY <2>3, FluxTicksIn
<1> DEFINE Good(i) == /\ Range(IndexTicks(f[i].bytes)) = MarksGiven(i)
                      /\ Remembers(f[i], i)
           T == {i \in 0 .. n : Good(i)}
<1>2. 0 \in T
  <2>1. f[0].bytes = <<>> /\ f[0].index = None
    BY DEF Converts, Begun
  <2>2. Range(IndexTicks(f[0].bytes)) = {}
    BY <2>1, BegunIs DEF Range
  <2>3. MarksGiven(0) = {}
    BY DEF MarksGiven
  <2>4. Remembers(f[0], 0)
    BY <2>1 DEF Remembers
  <2> QED  BY <2>2, <2>3, <2>4
<1>3. ASSUME NEW i \in 1 .. n, i - 1 \in T PROVE i \in T
  <2>1. PICK h \in 0 .. n : h = i - 1 /\ i = h + 1 /\ Good(h)
    BY <1>3
  <2>2. PICK x \in Conversions, y \in Conversions :
            /\ x = f[h] /\ y = f[i]
            /\ stream[i] \in StreamCodes /\ x.gw = StreamTicks[h] /\ y.gw = StreamTicks[i]
            /\ IsPulse(i) => Pulsed(x, Width(stream[i]), y)
            /\ ~IsPulse(i) => /\ y.bytes = x.bytes
                              /\ y.index = IF IsIndex(i) THEN x.gw + stream[i].n ELSE x.index
    <3>1. Reading(f, i)
      BY ReadingIs
    <3> QED  BY <2>1, <3>1 DEF Reading, IsIndex
  <2>3. PICK marks : /\ marks = Range(IndexTicks(x.bytes)) /\ marks = MarksGiven(h)
                     /\ Remembers(x, h)
    BY <2>1, <2>2
  <2> HIDE DEF Good
  <2>4. i \in 1 .. n /\ h \in Nat /\ \A q \in 1 .. i : q \in 1 .. h \/ q = i
    BY <2>1
  <2>5. CASE ~IsPulse(i)
    <3>1. MarksGiven(i) = MarksGiven(h)
      <4>1. ASSUME NEW q \in 1 .. i PROVE
                (IsIndex(q) /\ \E k \in q + 1 .. i : GivenAt(q, k))
                  <=> (q \in 1 .. h /\ IsIndex(q) /\ \E k \in q + 1 .. h : GivenAt(q, k))
        <5>1. ASSUME NEW k \in q + 1 .. i, GivenAt(q, k) PROVE q \in 1 .. h /\ k \in q + 1 .. h
          <6>1. k # i
            BY <2>5, <5>1 DEF GivenAt
          <6> QED  BY <2>1, <6>1
        <5>2. \A k \in q + 1 .. h : k \in q + 1 .. i
          BY <2>1
        <5> QED  BY <5>1, <5>2
      <4>2. \A q \in 1 .. h : q \in 1 .. i
        BY <2>1
      <4>3. {q \in 1 .. i : IsIndex(q) /\ \E k \in q + 1 .. i : GivenAt(q, k)}
              = {q \in 1 .. h : IsIndex(q) /\ \E k \in q + 1 .. h : GivenAt(q, k)}
        BY <4>1, <4>2
      <4> QED  BY <4>3 DEF MarksGiven
    <3>2. Range(IndexTicks(y.bytes)) = MarksGiven(i)
      BY <2>2, <2>3, <2>5, <3>1
    <3>3. Remembers(y, i)
      <4>1. CASE IsIndex(i)
        <5>1. y.index = MarkAt(i)
          BY <2>1, <2>2, <2>5, <4>1 DEF MarkAt
        <5>2. i \in 1 .. i /\ \A j \in i + 1 .. i : ~IsIndex(j)
          OBVIOUS
        <5> QED  BY <4>1, <5>1, <5>2 DEF Remembers
      <4>2. CASE ~IsIndex(i)
        <5>1. y.index = x.index /\ y.bytes = x.bytes
          BY <2>2, <2>5, <4>2
        <5>2. CASE x.index = None /\ \A q \in 1 .. h : ~IsIndex(q)
          BY <2>4, <4>2, <5>1, <5>2 DEF Remembers
        <5>3. ASSUME NEW q \in 1 .. h, IsIndex(q), \A j \in q + 1 .. h : ~IsIndex(j),
                     \/ x.index = MarkAt(q)
                     \/ x.index = None /\ FluxTicks(MarkAt(q)) \in Range(IndexTicks(x.bytes))
              PROVE  Remembers(y, i)
          <6>1. q \in 1 .. i /\ \A j \in q + 1 .. i : j \in q + 1 .. h \/ j = i
            BY <2>1
          <6> QED  BY <4>2, <5>1, <5>3, <6>1 DEF Remembers
        <5> QED  BY <2>3, <5>2, <5>3 DEF Remembers
      <4> QED  BY <4>1, <4>2
    <3> QED  BY <2>2, <3>2, <3>3 DEF Good
  <2>6. CASE IsPulse(i)
    <3>1. ~IsIndex(i)
      BY <2>6 DEF IsPulse, IsIndex
    <3>2. Pulsed(x, Width(stream[i]), y) /\ FluxTicks(y.gw) = FluxTicks(StreamTicks[i])
      BY <2>2, <2>6
    <3>3. PICK u \in Nat : u = FluxTicks(StreamTicks[i])
      <4>1. i \in 0 .. n
        OBVIOUS
      <4> QED  BY <4>1, StreamTicksIs, FluxTicksIn
    <3> DEFINE New == {FluxTicks(MarkAt(q)) : q \in {q \in 1 .. h :
                          IsIndex(q) /\ GivenAt(q, i)}}
    <3>4. MarksGiven(i) = MarksGiven(h) \cup New
      <4>1. ASSUME NEW q \in 1 .. i PROVE
                (IsIndex(q) /\ \E k \in q + 1 .. i : GivenAt(q, k))
                  <=> (q \in 1 .. h /\ IsIndex(q)
                         /\ (GivenAt(q, i) \/ \E k \in q + 1 .. h : GivenAt(q, k)))
        <5>1. ASSUME NEW k \in q + 1 .. i PROVE q \in 1 .. h /\ (k \in q + 1 .. h \/ k = i)
          BY <2>1
        <5>2. \A k \in q + 1 .. h : k \in q + 1 .. i
          BY <2>1
        <5>3. q \in 1 .. h => i \in q + 1 .. i
          BY <2>1
        <5> QED  BY <5>1, <5>2, <5>3
      <4>2. \A q \in 1 .. h : q \in 1 .. i
        BY <2>1
      <4> QED  BY <4>1, <4>2, Zenon DEF MarksGiven
    <3>5. x.bytes \in Seq(Opcodes) /\ x.index \in Nat \cup {None}
      BY DEF Conversions
    <3>6. PICK s \in Seq(Nat) : s = IndexTicks(x.bytes)
      BY <3>5, IndexTicksIn
    <3>7. CASE x.index = None /\ \A q \in 1 .. h : ~IsIndex(q)
      <4>1. New = {}
        BY <3>7
      <4>2. IndexTicks(y.bytes) = s /\ y.index = None
        BY <3>2, <3>6, <3>7 DEF Pulsed
      <4>3. Range(IndexTicks(y.bytes)) = MarksGiven(i)
        BY <2>3, <3>4, <3>6, <4>1, <4>2
      <4>4. Remembers(y, i)
        BY <2>4, <3>1, <3>7, <4>2 DEF Remembers
      <4> QED  BY <2>2, <4>3, <4>4 DEF Good
    <3>8. ASSUME NEW q \in 1 .. h, IsIndex(q), \A j \in q + 1 .. h : ~IsIndex(j),
                 \/ x.index = MarkAt(q)
                 \/ x.index = None /\ FluxTicks(MarkAt(q)) \in Range(IndexTicks(x.bytes))
          PROVE  Good(i)
      <4>1. PICK m \in Nat, t \in Nat : m = MarkAt(q) /\ t = FluxTicks(m)
        <5>1. q \in 1 .. n
          BY <2>1
        <5> QED  BY <1>1, <3>8, <5>1
      <4>2. \A j \in q + 1 .. i : ~IsIndex(j)
        <5>1. \A j \in q + 1 .. i : j \in q + 1 .. h \/ j = i
          BY <2>1
        <5> QED  BY <3>1, <3>8, <5>1
      <4>3. ASSUME NEW r \in 1 .. h, IsIndex(r), GivenAt(r, i) PROVE r = q
        <5>1. ~(r < q)
          <6>1. ASSUME r < q PROVE FALSE
            <7>1. q \in r + 1 .. i
              BY <2>1, <6>1
            <7> QED  BY <3>8, <4>3, <7>1 DEF GivenAt
          <6> QED  BY <6>1
        <5>2. ~(q < r)
          <6>1. ASSUME q < r PROVE FALSE
            <7>1. r \in q + 1 .. h
              BY <6>1
            <7> QED  BY <3>8, <4>3, <7>1
          <6> QED  BY <6>1
        <5> QED  BY <5>1, <5>2
      <4>4. GivenAt(q, i) <=> t <= u
        BY <2>6, <3>3, <4>1, <4>2 DEF GivenAt
      <4>5. New = IF t <= u THEN {t} ELSE {}
        <5>1. CASE t <= u
          <6>1. {r \in 1 .. h : IsIndex(r) /\ GivenAt(r, i)} = {q}
            BY <3>8, <4>3, <4>4, <5>1
          <6> QED  BY <4>1, <5>1, <6>1
        <5>2. CASE ~(t <= u)
          <6>1. {r \in 1 .. h : IsIndex(r) /\ GivenAt(r, i)} = {}
            BY <3>8, <4>3, <4>4, <5>2
          <6> QED  BY <5>2, <6>1
        <5> QED  BY <5>1, <5>2
      <4> HIDE DEF New
      <4>6. q \in 1 .. i
        BY <2>1
      <4>7. CASE x.index = MarkAt(q)
        <5>1. x.index # None /\ FluxTicks(x.index) = t
          BY <1>0, <4>1, <4>7
        <5>2. /\ IndexTicks(y.bytes) = IF t <= u THEN Append(s, t) ELSE s
              /\ y.index = IF t < u THEN None ELSE x.index
          BY <3>2, <3>3, <3>6, <5>1 DEF Pulsed
        <5>3. Range(IndexTicks(y.bytes)) = IF t <= u THEN marks \cup {t} ELSE marks
          BY <2>3, <3>6, <5>2, RangeAppend
        <5>4. Range(IndexTicks(y.bytes)) = MarksGiven(i)
          BY <2>3, <3>4, <4>5, <5>3
        <5>5. CASE t < u
          <6>1. y.index = None /\ t \in Range(IndexTicks(y.bytes))
            <7>1. t <= u
              BY <5>5
            <7> QED  BY <5>2, <5>3, <5>5, <7>1
          <6>2. Remembers(y, i)
            BY <3>8, <4>1, <4>2, <4>6, <6>1 DEF Remembers
          <6> QED  BY <2>2, <5>4, <6>2 DEF Good
        <5>6. CASE ~(t < u)
          <6>1. y.index = MarkAt(q)
            BY <4>7, <5>2, <5>6
          <6>2. Remembers(y, i)
            BY <3>8, <4>2, <4>6, <6>1 DEF Remembers
          <6> QED  BY <2>2, <5>4, <6>2 DEF Good
        <5> QED  BY <5>5, <5>6
      <4>8. CASE x.index = None /\ FluxTicks(MarkAt(q)) \in Range(IndexTicks(x.bytes))
        <5>1. IndexTicks(y.bytes) = s /\ y.index = None
          BY <3>2, <3>6, <4>8 DEF Pulsed
        <5>2. t \in marks /\ Range(IndexTicks(y.bytes)) = marks
          BY <2>3, <3>6, <4>1, <4>8, <5>1
        <5>3. Range(IndexTicks(y.bytes)) = MarksGiven(i)
          BY <2>3, <3>4, <4>5, <5>2
        <5>4. Remembers(y, i)
          BY <3>8, <4>1, <4>2, <4>6, <5>1, <5>2 DEF Remembers
        <5> QED  BY <2>2, <5>3, <5>4 DEF Good
      <4> QED  BY <3>8, <4>7, <4>8
    <3>9. Good(i)
      BY <2>3, <3>7, <3>8 DEF Remembers
    <3> QED  BY <3>9
  <2> QED  BY <2>5, <2>6
<1>4. Good(n)
  <2> HIDE DEF Good
  <2>1. \A i \in 0 .. n : i \in T
    <3> HIDE DEF T
    <3> QED  BY <1>2, <1>3, AllOf
  <2> QED  BY <2>1
<1> QED  BY <1>4

\* A map with an index mark, cut at the first.
LEMMA CutAtMark ==
    ASSUME NEW m \in Seq(Opcodes), Range(IndexTicks(m)) # {}
    PROVE  /\ StripPartialRotation(m)[1].index
           /\ IsSuffix(StripPartialRotation(m), m)
<1>1. PICK n \in Nat : n = Len(m) /\ DOMAIN m = 1 .. n /\ \A i \in 1 .. n : m[i] \in Opcodes
  OBVIOUS
<1>2. PICK marks : marks = {i \in DOMAIN m : m[i].index}
  OBVIOUS
<1>3. marks \in SUBSET Nat /\ marks # {}
  <2>1. PICK s : s = InOrder(marks, n)
    OBVIOUS
  <2>2. IndexTicks(m) = [k \in DOMAIN s |-> Elapsed(m)[s[k]]]
    BY <1>1, <1>2, <2>1 DEF IndexTicks, TicksAt
  <2>3. PICK k : k \in DOMAIN s
    BY <2>2 DEF Range
  <2>4. s[k] \in marks
    BY <2>1, <2>3, InOrderRises
  <2> QED  BY <1>1, <1>2, <2>4
<1>4. PICK a \in 1 .. n : a = Min(marks) /\ m[a].index
  <2>1. \E x \in marks : \A y \in marks : x <= y
    BY <1>3, LeastOf
  <2>2. Min(marks) \in marks
    BY <2>1, Zenon DEF Min
  <2> QED  BY <1>1, <1>2, <2>2
<1>5. PICK c : c = SubSeq(m, a, n)
  OBVIOUS
<1>6. StripPartialRotation(m) = c
  BY <1>1, <1>2, <1>3, <1>4, <1>5 DEF StripPartialRotation
<1>7. PICK l \in Nat : /\ l = (n - a) + 1 /\ c \in Seq(Opcodes) /\ Len(c) = l
                       /\ \A i \in 1 .. l : c[i] = m[a + i - 1]
  <2>1. a \in Int /\ n \in Int /\ a <= n /\ \A i \in a .. n : m[i] \in Opcodes
    BY <1>1
  <2>2. c \in Seq(Opcodes) /\ Len(c) = (IF a <= n THEN n - a + 1 ELSE 0)
        /\ \A i \in 1 .. n - a + 1 : c[i] = m[a + i - 1]
    BY <1>5, <2>1, SubSeqProperties
  <2>3. (n - a) + 1 \in Nat
    BY <1>1
  <2> QED  BY <2>1, <2>2, <2>3
<1>8. c[1].index
  <2>1. 1 \in 1 .. l /\ a + 1 - 1 = a
    BY <1>4, <1>7
  <2> QED  BY <1>4, <1>7, <2>1
<1>9. PICK r, t : /\ r = [i \in 1 .. l |-> c[(l - i) + 1]]
                  /\ t = [i \in 1 .. n |-> m[(n - i) + 1]]
  OBVIOUS
<1>10. r = Reverse(c) /\ t = Reverse(m)
  BY <1>1, <1>7, <1>9 DEF Reverse
<1>11. r \in Seq(Opcodes) /\ Len(r) = l
  <2>1. \A i \in 1 .. l : (l - i) + 1 \in 1 .. l
    OBVIOUS
  <2>2. \A i \in 1 .. l : c[i] \in Opcodes
    BY <1>7
  <2>3. r \in [1 .. l -> Opcodes]
    BY <1>9, <2>1, <2>2
  <2> QED  BY <2>3, SequenceOf
<1>12. t \in Seq(Opcodes) /\ Len(t) = n
  <2>1. \A i \in 1 .. n : (n - i) + 1 \in 1 .. n
    OBVIOUS
  <2>2. t \in [1 .. n -> Opcodes]
    BY <1>1, <1>9, <2>1
  <2> QED  BY <2>2, SequenceOf
<1>13. Begins(r, t)
  <2>1. l <= n
    BY <1>7
  <2>2. ASSUME NEW i \in 1 .. l PROVE r[i] = t[i]
    <3>1. i \in 1 .. n /\ (l - i) + 1 \in 1 .. l /\ a + ((l - i) + 1) - 1 = (n - i) + 1
      BY <1>7, <2>1
    <3> QED  BY <1>7, <1>9, <3>1
  <2> QED  BY <1>11, <1>12, <2>1, <2>2 DEF Begins
<1>14. IsSuffix(c, m)
  <2>1. IsPrefix(r, t)
    BY <1>11, <1>12, <1>13, PrefixIs
  <2> QED  BY <1>10, <2>1 DEF IsSuffix
<1> QED  BY <1>6, <1>8, <1>14

\* A stream is converted to opcodes, one step for each of its elements.
LEMMA StreamMade ==
    ASSUME stream \in Seq(StreamCodes)
    PROVE  /\ GreaseWeazleToFluxEngine(stream) \in Seq(Opcodes)
           /\ \E f \in [0 .. Len(stream) -> Conversions] :
                  /\ Converts(f, stream, Len(stream))
                  /\ GreaseWeazleToFluxEngine(stream) = f[Len(stream)].bytes
<1>1. PICK n \in Nat : n = Len(stream)
  OBVIOUS
<1>2. PICK f \in [0 .. n -> Conversions] : Converts(f, stream, n)
  BY <1>1, ConvertsExists
<1>3. PICK bytes : bytes = GreaseWeazleToFluxEngine(stream)
  OBVIOUS
<1>4. stream \in Seq(StreamCodes \cup {EndOfStream})
  <2>1. stream \in [1 .. n -> StreamCodes \cup {EndOfStream}]
    BY <1>1
  <2> QED  BY <2>1, SequenceOf
<1>5. bytes = f[n].bytes
  BY <1>1, <1>2, <1>3, <1>4, ConvertedIs
<1>6. f[n] \in Conversions
  OBVIOUS
<1> QED  BY <1>1, <1>2, <1>3, <1>5, <1>6 DEF Conversions

\* A stream is converted to the pulses and the index marks that it has.
LEMMA StreamConverted ==
    ASSUME stream \in Seq(StreamCodes)
    PROVE  Converted
<1>1. PICK n \in Nat : n = Len(stream)
  OBVIOUS
<1>2. PICK bytes \in Seq(Opcodes) : bytes = GreaseWeazleToFluxEngine(stream)
  BY StreamMade
<1>3. bytes \in Seq(Opcodes)
  OBVIOUS
<1>4. PICK f \in [0 .. n -> Conversions] : Converts(f, stream, n) /\ bytes = f[n].bytes
  BY <1>1, <1>2, StreamMade
<1>5. PICK P : P = {i \in DOMAIN stream : IsPulse(i)}
  OBVIOUS
<1>6. PICK ones : ones = InOrder(P, n)
  OBVIOUS
<1>7. PulseTicks(bytes) = [k \in DOMAIN ones |-> FluxTicks(StreamTicks[ones[k]])]
  BY <1>1, <1>3, <1>4, <1>5, <1>6, PulsesConverted
<1>8. Range(IndexTicks(bytes)) = MarksOf
  BY <1>1, <1>3, <1>4, MarksConverted, MarksOfIs
<1>9. MarksOf # {} => /\ StripPartialRotation(bytes)[1].index
                      /\ IsSuffix(StripPartialRotation(bytes), bytes)
  BY <1>3, <1>8, CutAtMark
<1> QED  BY <1>1, <1>2, <1>5, <1>6, <1>7, <1>8, <1>9, Zenon DEF Converted

-----------------------------------------------------------------------------
(* In every state.                                                           *)

\* The stream is one that a GreaseWeazle sends, and stays as it is.
StreamOK == stream \in Seq(StreamCodes)

LEMMA InitStream == Init => StreamOK
<1>1. <<>> \in Seq(StreamCodes) /\ Streams \subseteq Seq(StreamCodes)
  BY FluxPathAssumption
<1> QED  BY <1>1 DEF Init, StreamOK

LEMMA NextStream == StreamOK /\ [Next]_vars => StreamOK'
<1>1. [Next]_vars => UNCHANGED stream
  BY DEF Next, Load, Count, IndexPulse, Tick, vars, track
<1> QED  BY <1>1 DEF StreamOK

LEMMA GoesThrough == PathInv /\ StreamOK => ConvertedExactly
<1> SUFFICES ASSUME PathInv, StreamOK PROVE ConvertedExactly
  OBVIOUS
<1>1. ASSUME Played, Drained PROVE RoundTrip(captured)
  <2>1. captured \in Seq(Opcodes)
    BY DEF PathInv, Types
  <2> QED  BY <1>1, <2>1, CapturedApart, ThereAndBack
<1>2. RoundTrip(AppendBits(bits, cell))
  <2>1. Made(AppendBits(bits, cell), Ones(bits), cell)
    BY MadeAll DEF PathInv, TrackOK
  <2> QED  BY <2>1, ThereAndBack DEF Made
<1>3. Converted
  BY StreamConverted DEF StreamOK
<1> QED  BY <1>1, <1>2, <1>3 DEF ConvertedExactly

\* Flux that goes through a GreaseWeazle and back has its pulses where they
\* were, within a tick; a stream is converted to the pulses and index marks it
\* has.
THEOREM FluxConverted == Spec => []ConvertedExactly
<1>1. Spec => []StreamOK
  BY InitStream, NextStream, PTL DEF Spec
<1> QED  BY <1>1, PathInvariant, GoesThrough, PTL

-----------------------------------------------------------------------------
(* The search for a pattern.                                                 *)

\* The sums of the first elements of a sequence, as its recursion says.
LEMMA TotalsIs ==
    ASSUME NEW s \in Seq(Int)
    PROVE  /\ Totals(s)[0] = 0
           /\ \A i \in 0 .. Len(s) : Totals(s)[i] \in Int
           /\ \A i \in 1 .. Len(s) : Totals(s)[i] = Totals(s)[i - 1] + s[i]
<1>0. PICK n \in Nat : n = Len(s) /\ \A i \in 1 .. n : s[i] \in Int
  OBVIOUS
<1> DEFINE F(f) == f = [i \in 0 .. n |-> IF i = 0 THEN 0 ELSE f[i - 1] + s[i]]
           g == [i \in 1 .. n |-> [x \in Int |-> x + s[i]]]
<1>1. g \in [1 .. n -> [Int -> Int]]
  BY <1>0
<1>2. PICK f \in [0 .. n -> Int] : Follows(f, 0, g, n)
  <2>1. 0 \in Int
    OBVIOUS
  <2> HIDE DEF g
  <2> QED  BY <1>1, <2>1, Iterated
<1>3. ASSUME NEW i \in 1 .. n PROVE f[i] = f[i - 1] + s[i]
  <2>1. i - 1 \in 0 .. n /\ f[i - 1] \in Int
    OBVIOUS
  <2>2. f[i] = g[i][f[i - 1]]
    BY <1>2 DEF Follows
  <2> QED  BY <2>1, <2>2
<1>4. F(f)
  BY <1>2, <1>3 DEF Follows
<1>5. F(Totals(s))
  <2> HIDE DEF g
  <2> QED  BY <1>0, <1>4, Zenon DEF Totals
<1> DEFINE e == Totals(s)
           T == {i \in 0 .. n : e[i] = f[i]}
<1>6. e[0] = 0 /\ \A i \in 1 .. n : e[i] = e[i - 1] + s[i]
  <2> HIDE DEF e
  <2>1. F(e)  BY <1>5 DEF e
  <2>2. \A i \in 0 .. n : e[i] = IF i = 0 THEN 0 ELSE e[i - 1] + s[i]
    BY <2>1
  <2> QED  BY <2>2
<1>7. \A i \in 0 .. n : i \in T
  <2>1. 0 \in T  BY <1>2, <1>6 DEF Follows
  <2>2. ASSUME NEW i \in 1 .. n, i - 1 \in T PROVE i \in T
    <3> HIDE DEF e
    <3> QED  BY <1>3, <1>6, <2>2
  <2> HIDE DEF T
  <2> QED  BY <2>1, <2>2, AllOf
<1> QED  BY <1>0, <1>6, <1>7

LEMMA TotalsNone ==
    ASSUME NEW s \in Seq(Int), \A i \in 1 .. Len(s) : s[i] = 0
    PROVE  \A i \in 0 .. Len(s) : Totals(s)[i] = 0
<1>1. PICK n \in Nat : n = Len(s)
  OBVIOUS
<1>2. PICK e : e = Totals(s)
  OBVIOUS
<1>3. e[0] = 0 /\ \A i \in 1 .. n : e[i] = e[i - 1] + s[i]
  BY <1>1, <1>2, TotalsIs
<1> DEFINE T == {i \in 0 .. n : e[i] = 0}
<1>4. 0 \in T
  BY <1>3
<1>5. ASSUME NEW i \in 1 .. n, i - 1 \in T PROVE i \in T
  BY <1>1, <1>3, <1>5
<1>6. \A i \in 0 .. n : i \in T
  <2> HIDE DEF T
  <2> QED  BY <1>4, <1>5, AllOf
<1> QED  BY <1>1, <1>2, <1>6

\* One of a sequence is the greatest.
LEMMA MostOf ==
    ASSUME NEW s \in Seq(Nat), s # <<>>
    PROVE  /\ Max({s[i] : i \in DOMAIN s}) \in {s[i] : i \in DOMAIN s}
           /\ \A i \in DOMAIN s : s[i] <= Max({s[j] : j \in DOMAIN s})
<1>1. PICK n \in Nat \ {0} : n = Len(s) /\ DOMAIN s = 1 .. n /\ \A i \in 1 .. n : s[i] \in Nat
  OBVIOUS
<1> DEFINE T == {i \in 0 .. n : i = 0 \/ \E m \in 1 .. i : \A k \in 1 .. i : s[k] <= s[m]}
<1>2. 0 \in T
  OBVIOUS
<1>3. ASSUME NEW i \in 1 .. n, i - 1 \in T PROVE i \in T
  <2>1. s[i] \in Nat /\ \A k \in 1 .. i : k = i \/ k \in 1 .. i - 1
    BY <1>1
  <2>2. CASE i = 1
    <3>1. \A k \in 1 .. i : s[k] <= s[i]
      BY <2>1, <2>2
    <3> QED  BY <3>1
  <2>3. CASE i # 1
    <3>1. PICK m \in 1 .. i - 1 : \A k \in 1 .. i - 1 : s[k] <= s[m]
      BY <1>3, <2>3
    <3>2. m \in 1 .. n /\ m \in 1 .. i /\ s[m] \in Nat /\ \A k \in 1 .. i : s[k] \in Nat
      BY <1>1
    <3>3. CASE s[i] <= s[m]
      <4>1. \A k \in 1 .. i : s[k] <= s[m]
        BY <2>1, <3>1, <3>3
      <4> QED  BY <3>2, <4>1
    <3>4. CASE ~(s[i] <= s[m])
      <4>1. \A k \in 1 .. i : s[k] <= s[i]
        BY <2>1, <3>1, <3>2, <3>4
      <4> QED  BY <4>1
    <3> QED  BY <3>3, <3>4
  <2> QED  BY <2>2, <2>3
<1>4. PICK m \in 1 .. n : \A k \in 1 .. n : s[k] <= s[m]
  <2>1. \A i \in 0 .. n : i \in T
    <3> HIDE DEF T
    <3> QED  BY <1>2, <1>3, AllOf
  <2>2. n \in T
    <3> HIDE DEF T
    <3> QED  BY <2>1
  <2> QED  BY <2>2
<1>5. PICK S : S = {s[i] : i \in DOMAIN s}
  OBVIOUS
<1>6. s[m] \in S /\ \A y \in S : s[m] >= y
  BY <1>1, <1>4, <1>5
<1>7. \E x \in S : \A y \in S : x >= y
  BY <1>6
<1>8. Max(S) \in S /\ \A y \in S : Max(S) >= y
  BY <1>7, Zenon DEF Max
<1>9. \A i \in DOMAIN s : s[i] \in S /\ s[i] \in Nat /\ Max(S) \in Nat
  <2>1. \A y \in S : y \in Nat
    BY <1>1, <1>5
  <2> QED  BY <1>1, <1>5, <1>8, <2>1
<1> QED  BY <1>5, <1>8, <1>9

\* Patterns to look for, and the longest of their windows.
Sought(patterns, n) ==
    /\ patterns \in Seq(FluxPatterns) \ {<<>>} /\ n \in Nat \ {0}
    /\ \A i \in DOMAIN patterns : Intervals(patterns[i]) \in 1 .. n
    /\ SeekBegun(patterns) = [at |-> 0, window |-> [i \in 1 .. n |-> 0],
                              places |-> [i \in 1 .. n + 1 |-> 0], found |-> None]

LEMMA IntervalsIn ==
    ASSUME NEW p \in FluxPatterns
    PROVE  Intervals(p) \in Nat /\ Len(p.exact) \in 0 .. Intervals(p)
<1>1. PICK l \in Nat : l = Len(p.exact)
  BY DEF FluxPatterns
<1>2. Intervals(p) = l + IF p.lowzero = 0 THEN 0 ELSE 1
  BY <1>1 DEF Intervals
<1>3. Intervals(p) = l \/ Intervals(p) = l + 1
  BY <1>2
<1> QED  BY <1>1, <1>3

LEMMA SoughtIs ==
    ASSUME NEW patterns \in Seq(FluxPatterns) \ {<<>>},
           \A i \in DOMAIN patterns : Intervals(patterns[i]) > 0
    PROVE  \E n : Sought(patterns, n)
<1>1. PICK l \in Nat \ {0} : l = Len(patterns) /\ DOMAIN patterns = 1 .. l
                             /\ \A i \in 1 .. l : patterns[i] \in FluxPatterns
  OBVIOUS
<1>2. PICK s : s = [i \in 1 .. l |-> Intervals(patterns[i])]
  OBVIOUS
<1>3. s \in Seq(Nat) /\ Len(s) = l /\ DOMAIN s = 1 .. l
  <2>1. s \in [1 .. l -> Nat]
    BY <1>1, <1>2, IntervalsIn
  <2> QED  BY <2>1, SequenceOf
<1>4. PICK S : S = {Intervals(patterns[i]) : i \in DOMAIN patterns}
  OBVIOUS
<1>5. S = {s[i] : i \in DOMAIN s}
  BY <1>1, <1>2, <1>3, <1>4
<1>6. s # <<>>
  BY <1>3
<1>7. PICK n : n = Max(S)
  OBVIOUS
<1>8. n \in S /\ \A i \in 1 .. l : s[i] <= n
  BY <1>3, <1>5, <1>6, <1>7, MostOf
<1>9. n \in Nat \ {0}
  BY <1>1, <1>4, <1>8, IntervalsIn
<1>10. \A i \in DOMAIN patterns : Intervals(patterns[i]) \in 1 .. n
  BY <1>1, <1>2, <1>8, <1>9, IntervalsIn
<1>11. SeekBegun(patterns) = [at |-> 0, window |-> [i \in 1 .. n |-> 0],
                              places |-> [i \in 1 .. n + 1 |-> 0], found |-> None]
  BY <1>4, <1>7, Zenon DEF SeekBegun
<1> QED  BY <1>9, <1>10, <1>11 DEF Sought

LEMMA CandidateIs ==
    ASSUME NEW p \in FluxPatterns, NEW n \in Nat, Intervals(p) \in 1 .. n,
           NEW w \in [1 .. n -> Int]
    PROVE  /\ Candidate(p, w) \in Int
           /\ (\A i \in 1 .. n : w[i] = 0) => Candidate(p, w) = 0
<1>1. PICK m \in 1 .. n : m = Intervals(p)
  OBVIOUS
<1>2. w \in Seq(Int) /\ Len(w) = n
  BY SequenceOf
<1>3. PICK c : c = Compared(p, w)
  OBVIOUS
<1>4. PICK a \in 1 .. n : a = n - m + 1
  OBVIOUS
<1>5. c = SubSeq(w, a, n)
  BY <1>1, <1>2, <1>3, <1>4 DEF Compared
<1>6. /\ c \in Seq(Int) /\ Len(c) = m
      /\ \A i \in 1 .. m : c[i] = w[a + i - 1] /\ a + i - 1 \in 1 .. n
  <2>1. a \in Int /\ n \in Int /\ a <= n /\ \A i \in a .. n : w[i] \in Int
    OBVIOUS
  <2>2. c \in Seq(Int) /\ Len(c) = (IF a <= n THEN n - a + 1 ELSE 0)
        /\ \A i \in 1 .. n - a + 1 : c[i] = w[a + i - 1]
    BY <1>5, <2>1, SubSeqProperties
  <2>3. n - a + 1 = m /\ \A i \in 1 .. m : a + i - 1 \in 1 .. n
    BY <1>4
  <2> QED  BY <2>2, <2>3
<1>7. PICK l \in 0 .. m : l = Len(p.exact)
  BY <1>1, IntervalsIn
<1>8. Candidate(p, w) = Totals(c)[l]
  BY <1>3, <1>7 DEF Candidate
<1>9. Totals(c)[l] \in Int
  BY <1>6, TotalsIs
<1>10. (\A i \in 1 .. n : w[i] = 0) => Totals(c)[l] = 0
  BY <1>6, TotalsNone
<1> QED  BY <1>8, <1>9, <1>10

\* A match is one of the patterns that are looked for; there is none before the
\* first interval.
LEMMA MatchesIs ==
    ASSUME NEW patterns, NEW n, Sought(patterns, n), NEW w \in [1 .. n -> Int]
    PROVE  /\ Matches(patterns, w) \in Found \cup {None}
           /\ Matches(patterns, w) # None => Matches(patterns, w).intervals \in 1 .. n
           /\ (\A i \in 1 .. n : w[i] = 0) => Matches(patterns, w) = None
<1>1. n \in Nat \ {0} /\ \A i \in DOMAIN patterns : patterns[i] \in FluxPatterns
                                                    /\ Intervals(patterns[i]) \in 1 .. n
  BY DEF Sought
<1>2. PICK M : M = {i \in DOMAIN patterns : PatternMatches(patterns[i], w)}
  OBVIOUS
<1>3. Matches(patterns, w) = IF M = {} THEN None ELSE Match(patterns[Min(M)], w)
  BY <1>2 DEF Matches
<1>4. CASE M = {}
  BY <1>3, <1>4
<1>5. CASE M # {}
  <2>1. PICK i \in DOMAIN patterns : i = Min(M) /\ PatternMatches(patterns[i], w)
    <3>1. M \in SUBSET Nat
      BY <1>2 DEF Sought
    <3>2. \E x \in M : \A y \in M : x <= y
      BY <1>5, <3>1, LeastOf
    <3>3. Min(M) \in M
      BY <3>2, Zenon DEF Min
    <3> QED  BY <1>2, <3>3
  <2>2. PICK p \in FluxPatterns : p = patterns[i] /\ Intervals(p) \in 1 .. n
    BY <1>1
  <2>3. Matches(patterns, w) = Match(p, w)
    BY <1>3, <1>5, <2>1, <2>2
  <2>4. Candidate(p, w) \in Int /\ ((\A k \in 1 .. n : w[k] = 0) => Candidate(p, w) = 0)
    BY <1>1, <2>2, CandidateIs
  <2>5. Candidate(p, w) # 0
    BY <2>1, <2>2 DEF PatternMatches, Close
  <2>6. p.length \in Nat /\ p.zeroes \in Nat
    BY DEF FluxPatterns
  <2>7. Match(p, w) \in Found /\ Match(p, w).intervals = Intervals(p)
    BY <2>2, <2>4, <2>6, <1>1 DEF Match, Found
  <2>8. None \notin Found
    BY FluxDecodeAssumption
  <2> QED  BY <2>2, <2>3, <2>4, <2>5, <2>7, <2>8
<1> QED  BY <1>4, <1>5

-----------------------------------------------------------------------------

\* A map that is searched, with its end.
Searched(times, e) == e \in Nat /\ times \in [0 .. e -> Int]

LEMMA EndIs ==
    ASSUME NEW times, NEW e, Searched(times, e)
    PROVE  End(times) = e /\ \A k \in 1 .. e : Interval(times, k) \in Int
<1>1. e \in Nat /\ DOMAIN times = 0 .. e /\ \A k \in 0 .. e : times[k] \in Int
  BY DEF Searched
<1>2. Cardinality(0 .. e) = e + 1
  BY <1>1, FS_Interval
<1>3. ASSUME NEW k \in 1 .. e PROVE Interval(times, k) \in Int
  <2>1. k \in 0 .. e /\ k - 1 \in 0 .. e
    BY <1>1
  <2> QED  BY <1>1, <2>1 DEF Interval
<1> QED  BY <1>1, <1>2, <1>3 DEF End

\* The states of a search.
Ended(s, e) == s.found # None \/ s.at = e

SeekAt(s, e, n) ==
    /\ s \in [at     : 0 .. e,           places : [1 .. n + 1 -> 0 .. e],
              window : [1 .. n -> Int],  found  : Found \cup {None}]
    /\ ~Ended(s, e) => s.at = s.places[n + 1] /\ \A i \in 1 .. n + 1 : s.places[i] # e

LEMMA EndedIs ==
    ASSUME NEW times, NEW e, Searched(times, e), NEW s
    PROVE  SeekEnded(times, s) <=> Ended(s, e)
BY EndIs DEF SeekEnded, Ended

LEMMA SeekingIs ==
    ASSUME NEW patterns, NEW n, Sought(patterns, n), NEW times, NEW e, Searched(times, e)
    PROVE  Seeking(times, patterns) = {s \in [at     : 0 .. e,
                                              places : [1 .. n + 1 -> 0 .. e],
                                              window : [1 .. n -> Int],
                                              found  : Found \cup {None}] : SeekAt(s, e, n)}
<1>1. n \in Nat \ {0} /\ e \in Nat
  BY DEF Sought, Searched
<1>2. Len(SeekBegun(patterns).window) = n
  <2>1. SeekBegun(patterns).window = [i \in 1 .. n |-> 0]
    BY DEF Sought
  <2>2. [i \in 1 .. n |-> 0] \in [1 .. n -> Int]
    OBVIOUS
  <2>3. Len([i \in 1 .. n |-> 0]) = n
    BY <1>1, <2>2, SequenceOf
  <2> QED  BY <2>1, <2>3
<1>3. PICK S : S = [at     : 0 .. e,           places : [1 .. n + 1 -> 0 .. e],
                    window : [1 .. n -> Int],  found  : Found \cup {None}]
  OBVIOUS
<1>4. Seeking(times, patterns)
        = {s \in S : ~SeekEnded(times, s) => s.at = Last(s.places) /\ e \notin Range(s.places)}
  BY <1>2, <1>3, EndIs DEF Seeking
<1>5. ASSUME NEW s \in S
      PROVE  (~SeekEnded(times, s) => s.at = Last(s.places) /\ e \notin Range(s.places))
               <=> SeekAt(s, e, n)
  <2>1. PICK p \in [1 .. n + 1 -> 0 .. e] : p = s.places
    BY <1>3
  <2>2. Len(p) = n + 1 /\ DOMAIN p = 1 .. n + 1
    <3>1. n + 1 \in Nat
      BY <1>1
    <3> QED  BY <3>1, SequenceOf
  <2>3. Last(p) = p[n + 1] /\ (e \notin Range(p) <=> \A i \in 1 .. n + 1 : p[i] # e)
    BY <2>2 DEF Last, Range
  <2> QED  BY <1>3, <2>1, <2>3, EndedIs DEF SeekAt
<1> QED  BY <1>3, <1>4, <1>5

LEMMA BeginIs ==
    ASSUME NEW patterns, NEW n, Sought(patterns, n), NEW times, NEW e, Searched(times, e)
    PROVE  SeekAt(SeekBegun(patterns), e, n)
<1>1. n \in Nat \ {0} /\ e \in Nat
  BY DEF Sought, Searched
<1>2. PICK b : b = SeekBegun(patterns)
  OBVIOUS
<1>3. b = [at |-> 0, window |-> [i \in 1 .. n |-> 0],
           places |-> [i \in 1 .. n + 1 |-> 0], found |-> None]
  BY <1>2 DEF Sought
<1>4. [i \in 1 .. n |-> 0] \in [1 .. n -> Int] /\ [i \in 1 .. n + 1 |-> 0] \in [1 .. n + 1 -> 0 .. e]
  BY <1>1
<1>5. b \in [at : 0 .. e, places : [1 .. n + 1 -> 0 .. e], window : [1 .. n -> Int],
             found : Found \cup {None}]
  BY <1>1, <1>3, <1>4
<1>6. b.at = 0 /\ b.found = None /\ \A i \in 1 .. n + 1 : b.places[i] = 0
  BY <1>3
<1>7. n + 1 \in 1 .. n + 1
  BY <1>1
<1> QED  BY <1>2, <1>5, <1>6, <1>7 DEF SeekAt, Ended

\* A window with an element more.
Shift(w, x, n) == [i \in 1 .. n |-> IF i = n THEN x ELSE w[i + 1]]

LEMMA Shifted ==
    ASSUME NEW S, NEW n \in Nat \ {0}, NEW w \in [1 .. n -> S], NEW x \in S
    PROVE  Append(Tail(w), x) = Shift(w, x, n)
<1>1. w \in Seq(S) /\ Len(w) = n
  BY SequenceOf
<1>2. w # <<>>
  BY <1>1
<1>3. PICK t : t = Tail(w)
  OBVIOUS
<1>4. PICK h \in Nat : h = n - 1 /\ n = h + 1
  OBVIOUS
<1>5. t \in Seq(S) /\ Len(t) = h /\ \A i \in 1 .. h : t[i] = w[i + 1]
  BY <1>1, <1>2, <1>3, <1>4, HeadTailProperties
<1>6. PICK a : a = Append(t, x)
  OBVIOUS
<1>7. a \in Seq(S) /\ Len(a) = n /\ a[n] = x /\ \A i \in 1 .. h : a[i] = w[i + 1]
  BY <1>4, <1>5, <1>6, AppendProperties
<1>8. a = [i \in 1 .. n |-> a[i]]
  BY <1>7
<1>9. \A i \in 1 .. n : a[i] = IF i = n THEN x ELSE w[i + 1]
  BY <1>4, <1>7
<1> QED  BY <1>3, <1>6, <1>8, <1>9 DEF Shift

\* The interval after a position has been taken in.
Taken(times, s, t, a, n) ==
    /\ t.at = a + 1 /\ t.found = None
    /\ t.places = [i \in 1 .. n + 1 |-> IF i = n + 1 THEN a + 1 ELSE s.places[i + 1]]
    /\ t.window = [i \in 1 .. n |-> IF i = n THEN Interval(times, a + 1) ELSE s.window[i + 1]]

LEMMA NextIntervalIs ==
    ASSUME NEW n \in Nat \ {0}, NEW times, NEW e, Searched(times, e),
           NEW s, SeekAt(s, e, n), ~Ended(s, e), NEW a \in 0 .. e - 1
    PROVE  /\ SeekAt(NextInterval(times, s, a), e, n)
           /\ Taken(times, s, NextInterval(times, s, a), a, n)
<1>1. PICK t : t = NextInterval(times, s, a)
  OBVIOUS
<1>2. e \in Nat /\ a + 1 \in 0 .. e /\ Interval(times, a + 1) \in Int
  <2>1. e \in Nat
    BY DEF Searched
  <2>2. a + 1 \in 1 .. e
    BY <2>1
  <2> QED  BY <2>1, <2>2, EndIs
<1>3. /\ s.places \in [1 .. n + 1 -> 0 .. e] /\ s.window \in [1 .. n -> Int]
      /\ s.found = None /\ \A i \in 1 .. n + 1 : s.places[i] # e
  BY DEF SeekAt, Ended
<1>4. PICK p \in [1 .. n + 1 -> 0 .. e] :
          p = [i \in 1 .. n + 1 |-> IF i = n + 1 THEN a + 1 ELSE s.places[i + 1]]
  <2>1. ASSUME NEW i \in 1 .. n + 1
        PROVE  (IF i = n + 1 THEN a + 1 ELSE s.places[i + 1]) \in 0 .. e
    <3>1. i = n + 1 \/ i + 1 \in 1 .. n + 1
      OBVIOUS
    <3> QED  BY <1>2, <1>3, <3>1
  <2> QED  BY <2>1
<1>5. PICK w \in [1 .. n -> Int] :
          w = [i \in 1 .. n |-> IF i = n THEN Interval(times, a + 1) ELSE s.window[i + 1]]
  <2>1. ASSUME NEW i \in 1 .. n
        PROVE  (IF i = n THEN Interval(times, a + 1) ELSE s.window[i + 1]) \in Int
    <3>1. i = n \/ i + 1 \in 1 .. n
      OBVIOUS
    <3> QED  BY <1>2, <1>3, <3>1
  <2> QED  BY <2>1
<1>6. Append(Tail(s.window), Interval(times, a + 1)) = w
  <2>1. PICK v \in [1 .. n -> Int], x \in Int : v = s.window /\ x = Interval(times, a + 1)
    BY <1>2, <1>3
  <2>2. Append(Tail(v), x) = Shift(v, x, n)
    BY ONLY n \in Nat \ {0}, <2>1, Shifted
  <2> QED  BY <1>5, <2>1, <2>2 DEF Shift
<1>7. Append(Tail(s.places), a + 1) = p
  <2>1. PICK m \in Nat \ {0} : m = n + 1
    OBVIOUS
  <2>2. PICK v \in [1 .. m -> 0 .. e], x \in 0 .. e : v = s.places /\ x = a + 1
    BY <1>2, <1>3, <2>1
  <2>3. Append(Tail(v), x) = Shift(v, x, m)
    BY <2>1, <2>2, Shifted, Zenon
  <2> QED  BY <1>4, <2>1, <2>2, <2>3 DEF Shift
<1>8. t = [s EXCEPT !.at = a + 1, !.window = w, !.places = p]
  BY <1>1, <1>6, <1>7 DEF NextInterval
<1>9. s \in [at : 0 .. e, places : [1 .. n + 1 -> 0 .. e], window : [1 .. n -> Int],
             found : Found \cup {None}]
  BY DEF SeekAt
<1>10. t.at = a + 1 /\ t.window = w /\ t.places = p /\ t.found = None
  BY <1>3, <1>8, <1>9
<1>11. t \in [at : 0 .. e, places : [1 .. n + 1 -> 0 .. e], window : [1 .. n -> Int],
              found : Found \cup {None}]
  BY <1>2, <1>8, <1>9
<1>12. t.at # e => t.at = p[n + 1] /\ \A i \in 1 .. n + 1 : p[i] # e
  <2>1. ASSUME t.at # e, NEW i \in 1 .. n + 1 PROVE p[i] # e
    <3>1. i = n + 1 \/ i + 1 \in 1 .. n + 1
      OBVIOUS
    <3> QED  BY <1>3, <1>4, <1>10, <2>1, <3>1
  <2>2. n + 1 \in 1 .. n + 1
    OBVIOUS
  <2> QED  BY <1>4, <1>10, <2>1, <2>2
<1>13. SeekAt(t, e, n)
  BY <1>10, <1>11, <1>12 DEF SeekAt, Ended
<1> QED  BY <1>1, <1>4, <1>5, <1>10, <1>13 DEF Taken

\* A turn takes an interval in, or ends the search with a match that is not
\* too fast.
Turned(times, patterns, s, t, n) ==
    LET m == Matches(patterns, s.window)
    IN  \/ m = None /\ Taken(times, s, t, s.at, n)
        \/ m # None /\ Fast(m) /\ Taken(times, s, t, s.places[(n + 1) - m.intervals], n)
        \/ m # None /\ ~Fast(m) /\ t.found = m /\ t.at = s.places[(n + 1) - m.intervals]

LEMMA StepIs ==
    ASSUME NEW patterns, NEW n, Sought(patterns, n), NEW times, NEW e, Searched(times, e),
           NEW s, SeekAt(s, e, n), ~Ended(s, e)
    PROVE  /\ SeekAt(SeekStep(times, patterns, s), e, n)
           /\ Turned(times, patterns, s, SeekStep(times, patterns, s), n)
<1>1. n \in Nat \ {0} /\ e \in Nat
  BY DEF Sought, Searched
<1>2. PICK t, m : t = SeekStep(times, patterns, s) /\ m = Matches(patterns, s.window)
  OBVIOUS
<1>3. s \in [at : 0 .. e, places : [1 .. n + 1 -> 0 .. e], window : [1 .. n -> Int],
             found : Found \cup {None}]
  BY DEF SeekAt
<1>4. s.found = None /\ s.at \in 0 .. e - 1 /\ \A i \in 1 .. n + 1 : s.places[i] \in 0 .. e - 1
  <2>1. s.at # e /\ s.found = None /\ \A i \in 1 .. n + 1 : s.places[i] # e
    BY DEF SeekAt, Ended
  <2>2. s.at \in 0 .. e /\ \A i \in 1 .. n + 1 : s.places[i] \in 0 .. e
    BY <1>3
  <2> QED  BY <1>1, <2>1, <2>2
<1>5. m \in Found \cup {None} /\ (m # None => m.intervals \in 1 .. n)
  <2>1. s.window \in [1 .. n -> Int]
    BY <1>3
  <2> QED  BY <1>2, <2>1, MatchesIs
<1>6. t = Tried(times, s, m)
  BY <1>2 DEF SeekStep
<1>7. CASE m = None
  <2>1. t = NextInterval(times, s, s.at)
    BY <1>6, <1>7 DEF Tried
  <2>2. SeekAt(t, e, n) /\ Taken(times, s, t, s.at, n)
    BY <1>1, <1>4, <2>1, NextIntervalIs
  <2> QED  BY <1>2, <1>7, <2>2 DEF Turned
<1>8. CASE m # None
  <2>1. Len(s.places) = n + 1
    <3>1. PICK k \in Nat : k = n + 1
      BY <1>1
    <3>2. s.places \in [1 .. k -> 0 .. e]
      BY <1>3, <3>1
    <3> QED  BY <3>1, <3>2, SequenceOf
  <2>2. (n + 1) - m.intervals \in 1 .. n + 1
    BY <1>1, <1>5, <1>8
  <2>3. PICK a \in 0 .. e - 1 : a = s.places[(n + 1) - m.intervals] /\ a = PlaceOf(s, m)
    BY <1>4, <2>1, <2>2 DEF PlaceOf
  <2>4. CASE Fast(m)
    <3>1. t = NextInterval(times, s, a)
      BY <1>6, <1>8, <2>3, <2>4 DEF Tried
    <3>2. SeekAt(t, e, n) /\ Taken(times, s, t, a, n)
      BY <1>1, <3>1, NextIntervalIs
    <3> QED  BY <1>2, <1>8, <2>3, <2>4, <3>2 DEF Turned
  <2>5. CASE ~Fast(m)
    <3>1. t = [s EXCEPT !.at = a, !.found = m]
      BY <1>6, <1>8, <2>3, <2>5 DEF Tried
    <3>2. t.at = a /\ t.found = m
      BY <1>3, <3>1
    <3>3. t \in [at : 0 .. e, places : [1 .. n + 1 -> 0 .. e], window : [1 .. n -> Int],
                 found : Found \cup {None}]
      <4>1. a \in 0 .. e
        BY <1>1
      <4> QED  BY <1>3, <1>5, <3>1, <4>1
    <3>4. SeekAt(t, e, n)
      BY <1>8, <3>2, <3>3 DEF SeekAt, Ended
    <3> QED  BY <1>2, <1>8, <2>3, <2>5, <3>2, <3>4 DEF Turned
  <2> QED  BY <2>4, <2>5
<1> QED  BY <1>7, <1>8

\* The states that a search goes through, turn by turn.
Turn(times, patterns, s) ==
    IF SeekEnded(times, s) THEN s ELSE SeekStep(times, patterns, s)

Goes(f, times, patterns, N) ==
    f[0] = SeekBegun(patterns) /\ \A i \in 1 .. N : f[i] = Turn(times, patterns, f[i - 1])

LEMMA TurnIs ==
    ASSUME NEW patterns, NEW n, Sought(patterns, n), NEW times, NEW e, Searched(times, e),
           NEW s \in Seeking(times, patterns)
    PROVE  /\ Turn(times, patterns, s) \in Seeking(times, patterns)
           /\ ~SeekEnded(times, s) => SeekStep(times, patterns, s) \in Seeking(times, patterns)
<1>1. SeekAt(s, e, n)
  BY SeekingIs
<1>2. CASE SeekEnded(times, s)
  BY <1>2 DEF Turn
<1>3. CASE ~SeekEnded(times, s)
  <2>1. ~Ended(s, e)
    BY <1>3, EndedIs
  <2>2. SeekAt(SeekStep(times, patterns, s), e, n)
    BY <1>1, <2>1, StepIs
  <2>3. SeekStep(times, patterns, s) \in Seeking(times, patterns)
    BY <2>2, SeekingIs DEF SeekAt
  <2> QED  BY <1>3, <2>3 DEF Turn
<1> QED  BY <1>2, <1>3

LEMMA BegunSeeking ==
    ASSUME NEW patterns, NEW n, Sought(patterns, n), NEW times, NEW e, Searched(times, e)
    PROVE  SeekBegun(patterns) \in Seeking(times, patterns)
<1>1. SeekAt(SeekBegun(patterns), e, n)
  BY BeginIs
<1> QED  BY <1>1, SeekingIs DEF SeekAt

LEMMA GoesOn ==
    ASSUME NEW patterns, NEW n, Sought(patterns, n), NEW times, NEW e, Searched(times, e),
           NEW N \in Nat
    PROVE  \E f \in [0 .. N -> Seeking(times, patterns)] : Goes(f, times, patterns, N)
<1>1. PICK S : S = Seeking(times, patterns)
  OBVIOUS
<1> DEFINE g == [i \in 1 .. N |-> [s \in S |-> Turn(times, patterns, s)]]
<1>2. g \in [1 .. N -> [S -> S]]
  BY <1>1, TurnIs
<1>3. PICK f \in [0 .. N -> S] : Follows(f, SeekBegun(patterns), g, N)
  <2>1. SeekBegun(patterns) \in S
    BY <1>1, BegunSeeking
  <2> HIDE DEF g
  <2> QED  BY <1>2, <2>1, Iterated
<1>4. ASSUME NEW i \in 1 .. N PROVE f[i] = Turn(times, patterns, f[i - 1])
  <2>1. f[i - 1] \in S
    OBVIOUS
  <2>2. g[i][f[i - 1]] = Turn(times, patterns, f[i - 1])
    BY <2>1
  <2> QED  BY <1>3, <2>2 DEF Follows
<1>5. Goes(f, times, patterns, N)
  BY <1>3, <1>4 DEF Goes, Follows
<1> QED  BY <1>1, <1>5

LEMMA TurnsAre ==
    ASSUME NEW patterns, NEW n, Sought(patterns, n), NEW times, NEW e, Searched(times, e)
    PROVE  Turns(times, patterns) = (e + 1) * (n + 2) /\ Turns(times, patterns) \in Nat
<1>1. n \in Nat \ {0} /\ e \in Nat
  BY DEF Sought, Searched
<1>2. Len(SeekBegun(patterns).places) = n + 1
  <2>1. SeekBegun(patterns).places = [i \in 1 .. n + 1 |-> 0]
    BY DEF Sought
  <2>2. PICK k \in Nat : k = n + 1
    BY <1>1
  <2>3. [i \in 1 .. k |-> 0] \in [1 .. k -> Int]
    OBVIOUS
  <2>4. Len([i \in 1 .. k |-> 0]) = k
    BY <2>3, SequenceOf
  <2> QED  BY <2>1, <2>2, <2>4
<1>3. (n + 1) + 1 = n + 2
  BY <1>1
<1>4. (e + 1) * (n + 2) \in Nat
  BY <1>1
<1> QED  BY <1>2, <1>3, <1>4, EndIs DEF Turns

\* A search is where so many turns have led.
LEMMA SeekIs ==
    ASSUME NEW patterns, NEW n, Sought(patterns, n), NEW times, NEW e, Searched(times, e),
           NEW N, N = Turns(times, patterns),
           NEW f \in [0 .. N -> Seeking(times, patterns)], Goes(f, times, patterns, N)
    PROVE  SeekToPattern(times, patterns) = f[N]
<1>1. N \in Nat
  BY TurnsAre
<1>2. PICK S : S = Seeking(times, patterns)
  OBVIOUS
<1> DEFINE F(h) == h = [k \in 0 .. N |->
                        [s \in S |-> IF SeekEnded(times, s) \/ k = 0 THEN s
                                     ELSE h[k - 1][SeekStep(times, patterns, s)]]]
           F0 == CHOOSE h : F(h)
           g == [k \in 1 .. N |-> [x \in [S -> S] |->
                   [s \in S |-> IF SeekEnded(times, s) THEN s
                                ELSE x[SeekStep(times, patterns, s)]]]]
           s0 == [s \in S |-> s]
<1>3. SeekToPattern(times, patterns) = F0[N][SeekBegun(patterns)]
  BY <1>2, Zenon DEF SeekToPattern
<1>4. s0 \in [S -> S] /\ g \in [1 .. N -> [[S -> S] -> [S -> S]]]
  <2>1. ASSUME NEW x \in [S -> S], NEW s \in S
        PROVE  (IF SeekEnded(times, s) THEN s ELSE x[SeekStep(times, patterns, s)]) \in S
    BY <1>2, TurnIs
  <2> QED  BY <2>1
<1>5. PICK h \in [0 .. N -> [S -> S]] : Follows(h, s0, g, N)
  <2> HIDE DEF s0, g
  <2> QED  BY <1>1, <1>4, Iterated
<1>6. F(h)
  <2>1. ASSUME NEW k \in 0 .. N
        PROVE  h[k] = [s \in S |-> IF SeekEnded(times, s) \/ k = 0 THEN s
                                   ELSE h[k - 1][SeekStep(times, patterns, s)]]
    <3>1. CASE k = 0
      BY <1>5, <3>1 DEF Follows
    <3>2. CASE k # 0
      <4>1. k \in 1 .. N /\ k - 1 \in 0 .. N
        BY <1>1, <3>2
      <4>2. PICK x \in [S -> S] : x = h[k - 1]
        BY <4>1
      <4>3. h[k] = g[k][x]
        BY <1>5, <4>1, <4>2 DEF Follows
      <4>4. g[k][x] = [s \in S |-> IF SeekEnded(times, s) THEN s
                                   ELSE x[SeekStep(times, patterns, s)]]
        BY <4>1
      <4> QED  BY <3>2, <4>2, <4>3, <4>4
    <3> QED  BY <3>1, <3>2
  <2>2. h = [k \in 0 .. N |-> h[k]]
    OBVIOUS
  <2> QED  BY <2>1, <2>2
<1>7. F(F0)
  <2> HIDE DEF F
  <2> QED  BY <1>6, Zenon
<1>8. PICK q : F(q) /\ q = F0
  BY <1>7
<1>9. ASSUME NEW k \in 0 .. N, NEW s \in S
      PROVE  q[k][s] = IF SeekEnded(times, s) \/ k = 0 THEN s
                       ELSE q[k - 1][SeekStep(times, patterns, s)]
  <2>1. q[k] = [r \in S |-> IF SeekEnded(times, r) \/ k = 0 THEN r
                            ELSE q[k - 1][SeekStep(times, patterns, r)]]
    BY <1>8
  <2> QED  BY <2>1
<1> HIDE DEF F, F0, g, s0
<1> DEFINE T == {k \in 0 .. N : \A i \in 0 .. N : i + k <= N => q[k][f[i]] = f[i + k]}
<1>10. 0 \in T
  <2>1. ASSUME NEW i \in 0 .. N PROVE q[0][f[i]] = f[i + 0]
    <3>1. f[i] \in S /\ 0 \in 0 .. N /\ i + 0 = i
      BY <1>1, <1>2
    <3> QED  BY <1>9, <3>1
  <2> QED  BY <1>1, <2>1
<1>11. ASSUME NEW k \in 1 .. N, k - 1 \in T PROVE k \in T
  <2>1. ASSUME NEW i \in 0 .. N, i + k <= N PROVE q[k][f[i]] = f[i + k]
    <3>1. PICK j \in 1 .. N, l \in 0 .. N :
              j = i + 1 /\ l = k - 1 /\ i = j - 1 /\ i + k = j + l /\ j + l <= N /\ i + l <= N
      BY <1>1, <2>1
    <3>2. f[i] \in S /\ f[j] = Turn(times, patterns, f[i]) /\ k # 0 /\ k \in 0 .. N
      BY <1>2, <3>1 DEF Goes
    <3>3. q[l][f[j]] = f[j + l] /\ q[l][f[i]] = f[i + l]
      BY <1>11, <3>1
    <3>4. CASE SeekEnded(times, f[i])
      <4>1. f[j] = f[i] /\ q[k][f[i]] = f[i] /\ q[l][f[i]] = f[i]
        BY <1>9, <3>1, <3>2, <3>4 DEF Turn
      <4> QED  BY <3>1, <3>3, <4>1
    <3>5. CASE ~SeekEnded(times, f[i])
      <4>1. f[j] = SeekStep(times, patterns, f[i])
        BY <3>2, <3>5 DEF Turn
      <4>2. q[k][f[i]] = q[k - 1][f[j]]
        BY <1>9, <3>2, <3>5, <4>1
      <4> QED  BY <3>1, <3>3, <4>2
    <3> QED  BY <3>4, <3>5
  <2> QED  BY <2>1
<1>12. N \in T
  <2>1. \A k \in 0 .. N : k \in T
    <3> HIDE DEF T
    <3> QED  BY <1>1, <1>10, <1>11, AllOf
  <2> HIDE DEF T
  <2> QED  BY <1>1, <2>1
<1>13. q[N][f[0]] = f[N]
  <2>1. 0 \in 0 .. N /\ 0 + N <= N /\ 0 + N = N
    BY <1>1
  <2> QED  BY <1>12, <2>1
<1> QED  BY <1>3, <1>8, <1>13 DEF Goes

-----------------------------------------------------------------------------

\* How far a search has come: every position in the window is at least at one
\* pulse, and the last of them are at the next.
Reached(s, n, k, j) ==
    /\ k \in Nat /\ j \in 0 .. n
    /\ \A i \in 1 .. n + 1 : s.places[i] >= k /\ (i + j >= n + 2 => s.places[i] >= k + 1)

LEMMA ReachedOn ==
    ASSUME NEW n \in Nat \ {0}, NEW times, NEW e \in Nat, NEW s, NEW t,
           SeekAt(s, e, n), SeekAt(t, e, n), NEW k, NEW j, Reached(s, n, k, j),
           NEW i0 \in 1 .. n + 1, Taken(times, s, t, s.places[i0], n)
    PROVE  IF j = n THEN Reached(t, n, k + 1, 0) ELSE Reached(t, n, k, j + 1)
<1>1. /\ k \in Nat /\ j \in 0 .. n
      /\ \A i \in 1 .. n + 1 : s.places[i] \in 0 .. e /\ t.places[i] \in 0 .. e
      /\ \A i \in 1 .. n + 1 : s.places[i] >= k /\ (i + j >= n + 2 => s.places[i] >= k + 1)
  BY DEF SeekAt, Reached
<1>2. t.places[n + 1] >= k + 1
  <2>1. n + 1 \in 1 .. n + 1
    OBVIOUS
  <2>2. t.places[n + 1] = s.places[i0] + 1
    BY <2>1 DEF Taken
  <2> QED  BY <1>1, <2>2
<1>3. ASSUME NEW i \in 1 .. n PROVE i + 1 \in 1 .. n + 1 /\ t.places[i] = s.places[i + 1]
  <2>1. i \in 1 .. n + 1 /\ i # n + 1
    OBVIOUS
  <2> QED  BY <2>1 DEF Taken
<1>4. ASSUME NEW i \in 1 .. n + 1
      PROVE  t.places[i] >= k /\ (i + j + 1 >= n + 2 => t.places[i] >= k + 1)
  <2>1. CASE i = n + 1
    BY <1>1, <1>2, <2>1
  <2>2. CASE i # n + 1
    <3>1. i \in 1 .. n
      BY <2>2
    <3>2. PICK h \in 1 .. n + 1 : h = i + 1 /\ t.places[i] = s.places[h]
      BY <1>3, <3>1
    <3>3. s.places[h] >= k /\ (h + j >= n + 2 => s.places[h] >= k + 1)
      BY <1>1
    <3> QED  BY <1>1, <3>2, <3>3
  <2> QED  BY <2>1, <2>2
<1>5. CASE j = n
  <2>1. \A i \in 1 .. n + 1 : i + j + 1 >= n + 2 /\ ~(i + 0 >= n + 2)
    BY <1>5
  <2> QED  BY <1>1, <1>4, <1>5, <2>1 DEF Reached
<1>6. CASE j # n
  <2>1. j + 1 \in 0 .. n /\ \A i \in 1 .. n + 1 : i + (j + 1) = i + j + 1
    BY <1>1, <1>6
  <2> QED  BY <1>1, <1>4, <1>6, <2>1 DEF Reached
<1> QED  BY <1>5, <1>6

\* Every position is taken from the window.
LEMMA TakenFrom ==
    ASSUME NEW patterns, NEW n, Sought(patterns, n), NEW times, NEW e, Searched(times, e),
           NEW s, SeekAt(s, e, n), ~Ended(s, e), NEW t, Turned(times, patterns, s, t, n),
           ~Ended(t, e)
    PROVE  \E i \in 1 .. n + 1 : Taken(times, s, t, s.places[i], n)
<1>1. n \in Nat \ {0}
  BY DEF Sought
<1>2. PICK m : m = Matches(patterns, s.window)
  OBVIOUS
<1>3. m # None => (n + 1) - m.intervals \in 1 .. n + 1
  <2>1. s.window \in [1 .. n -> Int]
    BY DEF SeekAt
  <2>2. m # None => m.intervals \in 1 .. n
    BY <1>2, <2>1, MatchesIs
  <2> QED  BY <1>1, <2>2
<1>4. s.at = s.places[n + 1] /\ n + 1 \in 1 .. n + 1
  BY <1>1 DEF SeekAt
<1>5. CASE m = None
  <2>1. Taken(times, s, t, s.at, n)
    BY <1>2, <1>5 DEF Turned
  <2> QED  BY <1>4, <2>1
<1>6. CASE m # None /\ Fast(m)
  <2>1. Taken(times, s, t, s.places[(n + 1) - m.intervals], n)
    BY <1>2, <1>6 DEF Turned
  <2> QED  BY <1>3, <1>6, <2>1
<1>7. CASE m # None /\ ~Fast(m)
  BY <1>2, <1>7 DEF Turned, Ended
<1> QED  BY <1>5, <1>6, <1>7

\* A search goes from state to state, and stays where it ends.
LEMMA TurnsTaken ==
    ASSUME NEW patterns, NEW n, Sought(patterns, n), NEW times, NEW e, Searched(times, e),
           NEW N \in Nat, NEW f \in [0 .. N -> Seeking(times, patterns)],
           Goes(f, times, patterns, N)
    PROVE  /\ f[0] = SeekBegun(patterns)
           /\ \A i \in 0 .. N : SeekAt(f[i], e, n)
           /\ \A i \in 1 .. N : IF Ended(f[i - 1], e) THEN f[i] = f[i - 1]
                                ELSE Turned(times, patterns, f[i - 1], f[i], n)
<1>1. \A i \in 0 .. N : SeekAt(f[i], e, n)
  <2>1. ASSUME NEW i \in 0 .. N PROVE SeekAt(f[i], e, n)
    <3>1. f[i] \in Seeking(times, patterns)
      OBVIOUS
    <3> QED  BY <3>1, SeekingIs
  <2> QED  BY <2>1
<1>2. ASSUME NEW i \in 1 .. N
      PROVE  IF Ended(f[i - 1], e) THEN f[i] = f[i - 1]
             ELSE Turned(times, patterns, f[i - 1], f[i], n)
  <2>1. PICK s, t : s = f[i - 1] /\ t = f[i]
    OBVIOUS
  <2>2. t = Turn(times, patterns, s) /\ SeekAt(s, e, n)
    BY <1>1, <2>1 DEF Goes
  <2>3. CASE Ended(s, e)
    BY <2>1, <2>2, <2>3, EndedIs DEF Turn
  <2>4. CASE ~Ended(s, e)
    <3>1. t = SeekStep(times, patterns, s)
      BY <2>2, <2>4, EndedIs DEF Turn
    <3>2. Turned(times, patterns, s, t, n)
      BY <2>2, <2>4, <3>1, StepIs
    <3> QED  BY <2>1, <2>4, <3>2
  <2> QED  BY <2>3, <2>4
<1> QED  BY <1>1, <1>2 DEF Goes

Stays(f, e, N) == \A i \in 1 .. N : Ended(f[i - 1], e) => f[i] = f[i - 1]

LEMMA EndedStays ==
    ASSUME NEW e, NEW N \in Nat, NEW f, Stays(f, e, N), NEW b \in 0 .. N, Ended(f[b], e)
    PROVE  f[N] = f[b]
<1> DEFINE T == {i \in 0 .. N : b <= i => f[i] = f[b]}
<1>1. 0 \in T
  <2>1. b <= 0 => b = 0
    OBVIOUS
  <2> QED  BY <2>1
<1>2. ASSUME NEW i \in 1 .. N, i - 1 \in T PROVE i \in T
  <2>1. b <= i => b = i \/ b <= i - 1
    OBVIOUS
  <2> QED  BY <1>2, <2>1 DEF Stays
<1>3. N \in T
  <2>1. \A i \in 0 .. N : i \in T
    <3> HIDE DEF T
    <3> QED  BY <1>1, <1>2, AllOf
  <2> QED  BY <2>1
<1> QED  BY <1>3

\* Every n + 1 turns take the window to the next position, however often it
\* goes back; so a search has ended after as many turns as Turns allows it.
LEMMA SearchedThrough ==
    ASSUME NEW patterns, NEW n, Sought(patterns, n), NEW times, NEW e, Searched(times, e),
           NEW N \in Nat, N = (e + 1) * (n + 2),
           NEW f \in [0 .. N -> Seeking(times, patterns)], Goes(f, times, patterns, N)
    PROVE  Ended(f[N], e)
<1>1. n \in Nat \ {0} /\ e \in Nat
  BY DEF Sought, Searched
<1>2. PICK m \in Nat \ {0} : m = n + 1
  BY <1>1
<1>3. /\ f[0] = SeekBegun(patterns)
      /\ \A i \in 0 .. N : SeekAt(f[i], e, n)
      /\ \A i \in 1 .. N : IF Ended(f[i - 1], e) THEN f[i] = f[i - 1]
                           ELSE Turned(times, patterns, f[i - 1], f[i], n)
  BY TurnsTaken
<1> DEFINE T == {t \in 0 .. N : Ended(f[t], e) \/
                     \E k \in Nat, j \in 0 .. n : t = k * m + j /\ Reached(f[t], n, k, j)}
<1>4. 0 \in T
  <2>1. f[0].places = [i \in 1 .. n + 1 |-> 0]
    BY <1>3 DEF Sought
  <2>2. \A i \in 1 .. n + 1 : f[0].places[i] = 0 /\ ~(i + 0 >= n + 2)
    BY <1>1, <2>1
  <2>3. 0 \in Nat /\ 0 \in 0 .. n
    BY <1>1
  <2>4. Reached(f[0], n, 0, 0)
    BY <2>2, <2>3 DEF Reached
  <2>5. 0 = 0 * m + 0 /\ 0 \in 0 .. N
    BY <1>2
  <2> QED  BY <2>3, <2>4, <2>5
<1>5. ASSUME NEW t \in 1 .. N, t - 1 \in T PROVE t \in T
  <2>1. CASE Ended(f[t - 1], e)
    BY <1>3, <2>1
  <2>2. CASE Ended(f[t], e)
    BY <2>2
  <2>3. CASE ~Ended(f[t - 1], e) /\ ~Ended(f[t], e)
    <3>1. PICK k \in Nat, j \in 0 .. n : t - 1 = k * m + j /\ Reached(f[t - 1], n, k, j)
      BY <1>5, <2>3
    <3>2. SeekAt(f[t - 1], e, n) /\ SeekAt(f[t], e, n)
      BY <1>3
    <3>3. PICK i \in 1 .. n + 1 : Taken(times, f[t - 1], f[t], f[t - 1].places[i], n)
      <4>1. Turned(times, patterns, f[t - 1], f[t], n)
        BY <1>3, <2>3
      <4> QED  BY <2>3, <3>2, <4>1, TakenFrom
    <3>4. IF j = n THEN Reached(f[t], n, k + 1, 0) ELSE Reached(f[t], n, k, j + 1)
      <4>1. PICK s, r : s = f[t - 1] /\ r = f[t]
        OBVIOUS
      <4> QED  BY <1>1, <3>1, <3>2, <3>3, <4>1, ReachedOn
    <3>5. CASE j = n
      <4>1. k + 1 \in Nat /\ 0 \in 0 .. n
        BY <1>1
      <4>2. (k + 1) * m = k * m + m /\ k * m \in Nat
        BY <1>2
      <4>3. t = (k + 1) * m + 0
        BY <1>1, <1>2, <3>1, <3>5, <4>2
      <4> QED  BY <3>4, <3>5, <4>1, <4>3
    <3>6. CASE j # n
      <4>1. j + 1 \in 0 .. n
        BY <1>1, <3>1, <3>6
      <4>2. k * m \in Nat
        BY <1>2
      <4>3. t = k * m + (j + 1)
        BY <3>1, <4>2
      <4> QED  BY <3>4, <3>6, <4>1, <4>3
    <3> QED  BY <3>5, <3>6
  <2> QED  BY <2>1, <2>2, <2>3
<1>6. N \in T
  <2>1. \A t \in 0 .. N : t \in T
    <3> HIDE DEF T
    <3> QED  BY <1>4, <1>5, AllOf
  <2> HIDE DEF T
  <2> QED  BY <2>1
<1>7. CASE ~Ended(f[N], e)
  <2>1. PICK k \in Nat, j \in 0 .. n : N = k * m + j /\ Reached(f[N], n, k, j)
    BY <1>6, <1>7
  <2>2. 1 \in 1 .. n + 1 /\ SeekAt(f[N], e, n)
    BY <1>1, <1>3
  <2>3. f[N].places[1] \in 0 .. e /\ f[N].places[1] # e /\ f[N].places[1] >= k
    BY <1>7, <2>1, <2>2 DEF SeekAt, Reached
  <2>4. k <= e
    BY <1>1, <2>3
  <2>5. k * m <= e * m /\ k * m \in Nat /\ e * m \in Nat
    BY <1>1, <1>2, <2>4
  <2>6. (e + 1) * (m + 1) = e * m + e + m + 1
    BY <1>1, <1>2
  <2>7. N = (e + 1) * (m + 1)
    BY <1>1, <1>2
  <2> QED  BY <1>1, <1>2, <2>1, <2>5, <2>6, <2>7
<1> QED  BY <1>7

-----------------------------------------------------------------------------

\* The window at a position that was reached without going back.
WindowAt(times, n, k) ==
    [i \in 1 .. n |-> IF k - n + i < 1 THEN 0 ELSE Interval(times, k - n + i)]

LEMMA WindowIs ==
    ASSUME NEW patterns, NEW n, Sought(patterns, n), NEW times, NEW e, Searched(times, e),
           NEW k \in 0 .. e
    PROVE  /\ WindowAt(times, n, k) \in [1 .. n -> Int]
           /\ MatchAt(times, patterns, k) = Matches(patterns, WindowAt(times, n, k))
           /\ k = 0 => MatchAt(times, patterns, k) = None
<1>1. n \in Nat \ {0} /\ e \in Nat
  BY DEF Sought, Searched
<1>2. \A i \in 1 .. e : Interval(times, i) \in Int
  BY EndIs
<1>3. ASSUME NEW i \in 1 .. n
      PROVE  (IF k - n + i < 1 THEN 0 ELSE Interval(times, k - n + i)) \in Int
  <2>1. k - n + i < 1 \/ k - n + i \in 1 .. e
    BY <1>1
  <2> QED  BY <1>2, <2>1
<1>4. WindowAt(times, n, k) \in [1 .. n -> Int]
  BY <1>3 DEF WindowAt
<1>5. Len(SeekBegun(patterns).window) = n
  <2>1. SeekBegun(patterns).window = [i \in 1 .. n |-> 0]
    BY DEF Sought
  <2>2. [i \in 1 .. n |-> 0] \in [1 .. n -> Int]
    OBVIOUS
  <2>3. Len([i \in 1 .. n |-> 0]) = n
    BY <1>1, <2>2, SequenceOf
  <2> QED  BY <2>1, <2>3
<1>6. MatchAt(times, patterns, k) = Matches(patterns, WindowAt(times, n, k))
  BY <1>5, Zenon DEF MatchAt, WindowAt
<1>7. ASSUME k = 0 PROVE MatchAt(times, patterns, k) = None
  <2>1. \A i \in 1 .. n : k - n + i < 1
    BY <1>1, <1>7
  <2>2. \A i \in 1 .. n : WindowAt(times, n, k)[i] = 0
    BY <2>1 DEF WindowAt
  <2> QED  BY <1>4, <1>6, <2>2, MatchesIs
<1> QED  BY <1>4, <1>6, <1>7

\* A search that has not gone back.
Straight(s, times, n, t) ==
    /\ s.at = t /\ s.found = None /\ s.window = WindowAt(times, n, t)
    /\ \A i \in 1 .. n + 1 : s.places[i] = IF t + i < n + 1 THEN 0 ELSE t + i - (n + 1)

LEMMA StraightOn ==
    ASSUME NEW n \in Nat \ {0}, NEW times, NEW t \in Nat, NEW s, NEW r,
           Straight(s, times, n, t), Taken(times, s, r, t, n)
    PROVE  Straight(r, times, n, t + 1)
<1>1. r.at = t + 1 /\ r.found = None
  BY DEF Taken
<1>2. r.window = WindowAt(times, n, t + 1)
  <2>1. ASSUME NEW i \in 1 .. n
        PROVE  (IF i = n THEN Interval(times, t + 1) ELSE s.window[i + 1])
                 = IF (t + 1) - n + i < 1 THEN 0 ELSE Interval(times, (t + 1) - n + i)
    <3>1. CASE i = n
      <4>1. (t + 1) - n + i = t + 1 /\ ~((t + 1) - n + i < 1)
        BY <3>1
      <4> QED  BY <3>1, <4>1
    <3>2. CASE i # n
      <4>1. i + 1 \in 1 .. n /\ t - n + (i + 1) = (t + 1) - n + i
        BY <3>2
      <4>2. s.window[i + 1] = IF t - n + (i + 1) < 1 THEN 0 ELSE Interval(times, t - n + (i + 1))
        BY <4>1 DEF Straight, WindowAt
      <4> QED  BY <3>2, <4>1, <4>2
    <3> QED  BY <3>1, <3>2
  <2>2. r.window = [i \in 1 .. n |-> IF i = n THEN Interval(times, t + 1) ELSE s.window[i + 1]]
    BY DEF Taken
  <2> QED  BY <2>1, <2>2 DEF WindowAt
<1>3. ASSUME NEW i \in 1 .. n + 1
      PROVE  r.places[i] = IF (t + 1) + i < n + 1 THEN 0 ELSE (t + 1) + i - (n + 1)
  <2>1. r.places[i] = IF i = n + 1 THEN t + 1 ELSE s.places[i + 1]
    BY DEF Taken
  <2>2. CASE i = n + 1
    BY <2>1, <2>2
  <2>3. CASE i # n + 1
    <3>1. i + 1 \in 1 .. n + 1
      BY <2>3
    <3>2. s.places[i + 1] = IF t + (i + 1) < n + 1 THEN 0 ELSE t + (i + 1) - (n + 1)
      BY <3>1 DEF Straight
    <3> QED  BY <2>1, <2>3, <3>2
  <2> QED  BY <2>2, <2>3
<1> QED  BY <1>1, <1>2, <1>3 DEF Straight

\* It does not before the first match.
LEMMA StraightTo ==
    ASSUME NEW patterns, NEW n, Sought(patterns, n), NEW times, NEW e, Searched(times, e),
           NEW N \in Nat, NEW f \in [0 .. N -> Seeking(times, patterns)],
           Goes(f, times, patterns, N), NEW b \in 0 .. e, b <= N,
           \A k \in 1 .. b - 1 : MatchAt(times, patterns, k) = None
    PROVE  Straight(f[b], times, n, b)
<1>1. n \in Nat \ {0} /\ e \in Nat
  BY DEF Sought, Searched
<1>2. /\ f[0] = SeekBegun(patterns)
      /\ \A i \in 0 .. N : SeekAt(f[i], e, n)
      /\ \A i \in 1 .. N : IF Ended(f[i - 1], e) THEN f[i] = f[i - 1]
                           ELSE Turned(times, patterns, f[i - 1], f[i], n)
  BY TurnsTaken
<1> DEFINE T == {t \in 0 .. b : Straight(f[t], times, n, t)}
<1>3. 0 \in T
  <2>1. /\ f[0].at = 0 /\ f[0].found = None /\ f[0].window = [i \in 1 .. n |-> 0]
        /\ f[0].places = [i \in 1 .. n + 1 |-> 0]
    BY <1>2 DEF Sought
  <2>2. \A i \in 1 .. n : 0 - n + i < 1
    BY <1>1
  <2>3. f[0].window = WindowAt(times, n, 0)
    BY <2>1, <2>2 DEF WindowAt
  <2>4. ASSUME NEW i \in 1 .. n + 1
        PROVE  f[0].places[i] = IF 0 + i < n + 1 THEN 0 ELSE 0 + i - (n + 1)
    <3>1. 0 + i < n + 1 \/ 0 + i - (n + 1) = 0
      BY <1>1
    <3> QED  BY <2>1, <3>1
  <2> QED  BY <1>1, <2>1, <2>3, <2>4 DEF Straight
<1>4. ASSUME NEW t \in 1 .. b, t - 1 \in T PROVE t \in T
  <2>1. PICK u \in 0 .. b - 1 : u = t - 1 /\ t = u + 1
    BY <1>1
  <2>2. u \in 0 .. e /\ u # e /\ t \in 1 .. N
    BY <1>1, <2>1
  <2>3. Straight(f[u], times, n, u)
    BY <1>4, <2>1
  <2>4. ~Ended(f[u], e)
    BY <2>2, <2>3 DEF Straight, Ended
  <2>5. MatchAt(times, patterns, u) = None
    <3>1. u = 0 \/ u \in 1 .. b - 1
      OBVIOUS
    <3> QED  BY <2>2, <3>1, WindowIs
  <2>6. Matches(patterns, f[u].window) = None
    BY <2>2, <2>3, <2>5, WindowIs DEF Straight
  <2>7. Turned(times, patterns, f[u], f[t], n)
    BY <1>2, <2>1, <2>2, <2>4
  <2>8. Taken(times, f[u], f[t], f[u].at, n)
    BY <2>6, <2>7 DEF Turned
  <2>9. Taken(times, f[u], f[t], u, n)
    BY <2>3, <2>8 DEF Straight
  <2>10. Straight(f[t], times, n, u + 1)
    <3>1. PICK s, r : s = f[u] /\ r = f[t]
      OBVIOUS
    <3>2. u \in Nat
      OBVIOUS
    <3> QED  BY <1>1, <2>3, <2>9, <3>1, <3>2, StraightOn
  <2> QED  BY <2>1, <2>10
<1>5. \A t \in 0 .. b : t \in T
  <2>1. b \in Nat
    OBVIOUS
  <2> HIDE DEF T
  <2> QED  BY <1>3, <1>4, <2>1, AllOf
<1>6. b \in T
  <2>1. b \in 0 .. b
    OBVIOUS
  <2> HIDE DEF T
  <2> QED  BY <1>5, <2>1
<1> QED  BY <1>6

\* A match that ends a search is not too fast.
LEMMA FoundSlow ==
    ASSUME NEW patterns, NEW n, Sought(patterns, n), NEW times, NEW e, Searched(times, e),
           NEW N \in Nat, NEW f \in [0 .. N -> Seeking(times, patterns)],
           Goes(f, times, patterns, N)
    PROVE  f[N].found # None => ~Fast(f[N].found)
<1>1. /\ f[0] = SeekBegun(patterns)
      /\ \A i \in 1 .. N : IF Ended(f[i - 1], e) THEN f[i] = f[i - 1]
                           ELSE Turned(times, patterns, f[i - 1], f[i], n)
  BY TurnsTaken
<1> DEFINE T == {t \in 0 .. N : f[t].found # None => ~Fast(f[t].found)}
<1>2. 0 \in T
  BY <1>1 DEF Sought
<1>3. ASSUME NEW t \in 1 .. N, t - 1 \in T PROVE t \in T
  <2>1. PICK s, r : s = f[t - 1] /\ r = f[t]
    OBVIOUS
  <2>2. CASE Ended(s, e)
    BY <1>1, <1>3, <2>1, <2>2
  <2>3. CASE ~Ended(s, e)
    <3>1. Turned(times, patterns, s, r, n)
      BY <1>1, <2>1, <2>3
    <3>2. PICK m : m = Matches(patterns, s.window)
      OBVIOUS
    <3>3. r.found = None \/ (r.found = m /\ ~Fast(m))
      BY <3>1, <3>2 DEF Turned, Taken
    <3> QED  BY <2>1, <3>3
  <2> QED  BY <2>2, <2>3
<1>4. N \in T
  <2>1. \A t \in 0 .. N : t \in T
    <3> HIDE DEF T
    <3> QED  BY <1>2, <1>3, AllOf
  <2>2. N \in 0 .. N
    OBVIOUS
  <2> HIDE DEF T
  <2> QED  BY <2>1, <2>2
<1> QED  BY <1>4

\* Its first match does, if it is not.
LEMMA FirstIs ==
    ASSUME NEW patterns, NEW n, Sought(patterns, n), NEW times, NEW e, Searched(times, e),
           NEW N \in Nat, e < N, NEW f \in [0 .. N -> Seeking(times, patterns)],
           Goes(f, times, patterns, N), NEW b \in 1 .. e - 1,
           \A k \in 1 .. b - 1 : MatchAt(times, patterns, k) = None,
           NEW m, m = MatchAt(times, patterns, b), m # None, ~Fast(m)
    PROVE  f[N].found = m /\ f[N].at = Max({0, b - m.intervals})
<1>1. n \in Nat \ {0} /\ e \in Nat
  BY DEF Sought, Searched
<1>2. /\ \A i \in 1 .. N : IF Ended(f[i - 1], e) THEN f[i] = f[i - 1]
                           ELSE Turned(times, patterns, f[i - 1], f[i], n)
  BY TurnsTaken
<1>3. PICK c \in 1 .. N : c = b + 1 /\ b = c - 1 /\ c \in 0 .. N /\ b \in 0 .. e /\ b <= N /\ b # e
  BY <1>1
<1>4. Straight(f[b], times, n, b)
  BY <1>3, StraightTo
<1>5. m = Matches(patterns, f[b].window) /\ m.intervals \in 1 .. n
  <2>1. /\ WindowAt(times, n, b) \in [1 .. n -> Int]
        /\ MatchAt(times, patterns, b) = Matches(patterns, WindowAt(times, n, b))
    BY <1>3, WindowIs
  <2>2. m = Matches(patterns, WindowAt(times, n, b))
    BY <2>1
  <2>3. m.intervals \in 1 .. n
    BY <2>1, <2>2, MatchesIs
  <2> QED  BY <1>4, <2>2, <2>3 DEF Straight
<1>6. ~Ended(f[b], e)
  BY <1>3, <1>4 DEF Straight, Ended
<1>7. Turned(times, patterns, f[b], f[c], n)
  BY <1>2, <1>3, <1>6
<1>8. f[c].found = m /\ f[c].at = f[b].places[(n + 1) - m.intervals]
  BY <1>5, <1>7 DEF Turned
<1>9. f[c].at = Max({0, b - m.intervals})
  <2>1. PICK i \in 1 .. n + 1 : i = (n + 1) - m.intervals
    BY <1>1, <1>5
  <2>2. f[b].places[i] = IF b + i < n + 1 THEN 0 ELSE b + i - (n + 1)
    BY <1>4 DEF Straight
  <2>3. b + i - (n + 1) = b - m.intervals /\ (b + i < n + 1 <=> b - m.intervals < 0)
    BY <1>1, <1>5, <2>1
  <2>4. PICK d \in Int : d = b - m.intervals
    BY <1>1, <1>5
  <2>5. Max({0, d}) = IF d < 0 THEN 0 ELSE d
    <3>1. PICK x \in {0, d} : \A y \in {0, d} : x >= y
      OBVIOUS
    <3>2. Max({0, d}) \in {0, d} /\ \A y \in {0, d} : Max({0, d}) >= y
      BY <3>1, Zenon DEF Max
    <3> QED  BY <3>2
  <2> QED  BY <1>8, <2>1, <2>2, <2>3, <2>4, <2>5
<1>10. f[N] = f[c]
  <2>1. Ended(f[c], e)
    BY <1>8 DEF Ended
  <2>2. Stays(f, e, N)
    BY <1>2 DEF Stays
  <2>3. c \in 0 .. N
    BY <1>3
  <2> QED  BY ONLY N \in Nat, <2>1, <2>2, <2>3, EndedStays
<1> QED  BY <1>8, <1>9, <1>10

\* A search ends, and where it should.
LEMMA SearchIs ==
    ASSUME NEW patterns, NEW n, Sought(patterns, n), NEW times, NEW e, Searched(times, e)
    PROVE  FirstFound(times, patterns)
<1>1. n \in Nat \ {0} /\ e \in Nat /\ End(times) = e
  BY EndIs DEF Sought, Searched
<1>2. PICK N \in Nat : N = Turns(times, patterns) /\ N = (e + 1) * (n + 2)
  BY TurnsAre
<1>3. e < N
  <2>1. (e + 1) * (n + 2) = (e + 1) * n + e + 1 + e + 1 /\ (e + 1) * n \in Nat
    BY <1>1
  <2> QED  BY <1>1, <1>2, <2>1
<1>4. PICK f \in [0 .. N -> Seeking(times, patterns)] : Goes(f, times, patterns, N)
  BY GoesOn
<1>5. PICK s : s = f[N] /\ s = SeekToPattern(times, patterns)
  BY <1>2, <1>4, SeekIs
<1>6. SeekEnded(times, s)
  BY <1>2, <1>4, <1>5, SearchedThrough, EndedIs
<1>7. s.found # None => ~Fast(s.found)
  BY <1>4, <1>5, FoundSlow
<1>8. PICK B : B = {k \in 1 .. e - 1 : MatchAt(times, patterns, k) # None}
  OBVIOUS
<1>9. ASSUME B = {} PROVE s.found = None
  <2>1. \A k \in 1 .. e - 1 : MatchAt(times, patterns, k) = None
    BY <1>8, <1>9
  <2>2. e \in 0 .. e /\ e <= N /\ e \in 0 .. N
    BY <1>1, <1>3
  <2>3. Straight(f[e], times, n, e)
    BY <1>4, <2>1, <2>2, StraightTo
  <2>4. Ended(f[e], e)
    BY <2>3 DEF Straight, Ended
  <2>5. Stays(f, e, N)
    <3>1. \A i \in 1 .. N : IF Ended(f[i - 1], e) THEN f[i] = f[i - 1]
                            ELSE Turned(times, patterns, f[i - 1], f[i], n)
      BY <1>4, TurnsTaken
    <3> QED  BY <3>1 DEF Stays
  <2>6. f[N] = f[e]
    BY ONLY N \in Nat, <2>2, <2>4, <2>5, EndedStays
  <2> QED  BY <1>5, <2>3, <2>6 DEF Straight
<1>10. ASSUME B # {}, ~Fast(MatchAt(times, patterns, Min(B)))
       PROVE  /\ s.found = MatchAt(times, patterns, Min(B))
              /\ s.at = Max({0, Min(B) - MatchAt(times, patterns, Min(B)).intervals})
  <2>1. B \in SUBSET Nat
    BY <1>8
  <2>2. \E x \in B : \A y \in B : x <= y
    BY <1>10, <2>1, LeastOf
  <2>3. Min(B) \in B /\ \A y \in B : Min(B) <= y
    BY <2>2, Zenon DEF Min
  <2>4. PICK b \in 1 .. e - 1 : b = Min(B)
    BY <1>8, <2>3
  <2>5. PICK m : m = MatchAt(times, patterns, b) /\ m # None /\ ~Fast(m)
    BY <1>8, <1>10, <2>3, <2>4
  <2>6. \A k \in 1 .. b - 1 : MatchAt(times, patterns, k) = None
    <3>1. ASSUME NEW k \in 1 .. b - 1 PROVE k \notin B /\ k \in 1 .. e - 1
      <4>1. k \in 1 .. e - 1 /\ ~(b <= k)
        BY <1>1
      <4> QED  BY <2>3, <2>4, <4>1
    <3> QED  BY <1>8, <3>1
  <2>7. f[N].found = m /\ f[N].at = Max({0, b - m.intervals})
    BY <1>3, <1>4, <2>5, <2>6, FirstIs
  <2> QED  BY <1>5, <2>4, <2>5, <2>7
<1>11. EndsRight(times, patterns, s)
  BY <1>1, <1>6, <1>7, <1>8, <1>9, <1>10 DEF EndsRight
<1> QED  BY <1>5, <1>11 DEF FirstFound

\* The times of a map can be searched.
LEMMA TimesIs ==
    ASSUME NEW m \in Seq(Opcodes)
    PROVE  \E e : Searched(Times(m), e)
<1>1. PICK l \in Nat : l = Len(m)
  OBVIOUS
<1>2. PICK r : r = PulsesRead(m)
  OBVIOUS
<1>3. CASE m = <<>>
  <2>1. Times(m) = [k \in 0 .. 0 |-> CASE k = 0            -> 0
                                       [] k \in DOMAIN r -> r[k]
                                       [] OTHER            -> Elapsed(m)[Len(m)]]
    BY <1>2, <1>3 DEF Times
  <2>2. Times(m) = [k \in 0 .. 0 |-> 0]
    BY <2>1
  <2>3. Searched(Times(m), 0)
    BY <2>2 DEF Searched
  <2> QED  BY <2>3
<1>4. CASE m # <<>>
  <2>1. l - 1 \in 0 .. Len(m)
    BY <1>1, <1>4
  <2>2. r \in Seq(Nat)
    BY <1>1, <1>2, <2>1, TicksIn DEF PulsesRead
  <2>3. PICK e \in Nat \ {0} : e = Len(r) + 1
    BY <2>2
  <2>4. Elapsed(m)[Len(m)] \in Int
    <3>1. PICK x \in [0 .. l -> Nat] : x = Elapsed(m)
      BY <1>1, ElapsedIs
    <3> QED  BY <1>1, <3>1
  <2>5. Times(m) = [k \in 0 .. e |-> CASE k = 0            -> 0
                                       [] k \in DOMAIN r -> r[k]
                                       [] OTHER            -> Elapsed(m)[Len(m)]]
    BY <1>2, <1>4, <2>3 DEF Times
  <2>6. ASSUME NEW k \in 0 .. e
        PROVE  (CASE k = 0            -> 0
                  [] k \in DOMAIN r -> r[k]
                  [] OTHER            -> Elapsed(m)[Len(m)]) \in Int
    <3>1. k \in DOMAIN r => r[k] \in Int
      BY <2>2
    <3> QED  BY <2>4, <3>1
  <2>7. Searched(Times(m), e)
    BY <2>5, <2>6 DEF Searched
  <2> QED  BY <2>7
<1> QED  BY <1>3, <1>4

LEMMA SearchedInNoise == StreamOK => SearchEnds
<1> SUFFICES ASSUME StreamOK, NEW patterns \in Patterns
             PROVE  FirstFound(Times(GreaseWeazleToFluxEngine(stream)), patterns)
  BY DEF SearchEnds
<1>1. PICK bytes \in Seq(Opcodes) : bytes = GreaseWeazleToFluxEngine(stream)
  BY StreamMade DEF StreamOK
<1>2. PICK times, e : times = Times(bytes) /\ Searched(times, e)
  BY TimesIs
<1>3. PICK n : Sought(patterns, n)
  <2>1. patterns \in Seq(FluxPatterns) \ {<<>>} /\ \A i \in DOMAIN patterns : Intervals(patterns[i]) > 0
    BY FluxPathAssumption
  <2> QED  BY <2>1, SoughtIs
<1> QED  BY <1>1, <1>2, <1>3, SearchIs

\* A search for patterns ends in so many turns, whatever the map and however
\* often it goes back, and at the first match unless that one is too fast.
THEOREM SearchesEnd == Spec => []SearchEnds
<1>1. Spec => []StreamOK
  BY InitStream, NextStream, PTL DEF Spec
<1> QED  BY <1>1, SearchedInNoise, PTL

-----------------------------------------------------------------------------
(* The drives.                                                               *)

\* What a command in progress relies on: its motor runs, it steps from a known
\* position, home() has steps left for every track there is, and the head is
\* on its way to the track that was asked for, or has got there.
Underway ==
    /\ pc \in {"homing", "stepping", "transfer"} => motorOn
    /\ pc \in {"stepping", "transfer"} => homed
    /\ pc = "homing" /\ drive \in attached => head[drive] + steps <= MaxTrack
    /\ pc \in {"homing", "stepping"} => target = wanted
    /\ pc \notin {"homing", "stepping"} => currentTrack = wanted

DriveInv == DriveTypeOK /\ RightDrive /\ HeadKnown /\ Underway

\* The drives and the firmware when the power comes on.
THEOREM InitDrive == DriveInit => DriveInv
<1> SUFFICES ASSUME DriveInit PROVE DriveInv
  OBVIOUS
<1> USE DriveAssumption DEF DriveInit, NoDrive, Targets, Homing
<1>1. DriveTypeOK
  <2>1. head \in [Drives -> 0 .. MaxTrack]  OBVIOUS
  <2>2. present \in [Drives -> BOOLEAN]  OBVIOUS
  <2>3. drive \in Drives  BY DEF Drives
  <2>4. attached \subseteq Drives  OBVIOUS
  <2>5. target \in Targets /\ steps \in 0 .. HomeLimit /\ wanted \in Targets /\ currentTrack \in Targets  OBVIOUS
  <2> QED  BY <2>1, <2>2, <2>3, <2>4, <2>5 DEF DriveTypeOK
<1>2. RightDrive /\ HeadKnown /\ Underway
  BY DEF RightDrive, HeadKnown, Underway, Detecting
<1> QED  BY <1>1, <1>2 DEF DriveInv

\* A seek of a command that begins in the main loop.
LEMMA SeekToStep ==
    ASSUME DriveInv, pc = "idle",
           NEW t \in Targets, NEW h \in BOOLEAN, h => homed,
           NEW next \in {"transfer", "reply"},
           SeekTo(t, h, next),
           UNCHANGED <<hardware, drive, currentTrack, present, overshot>>,
           wanted' = t
    PROVE  DriveInv'
<1> USE DriveAssumption DEF DriveInv, Drives, NoDrive, Targets, Homing, hardware, SeekTo, StartMotor
<1>1. DriveTypeOK'
  <2>1. homed' \in BOOLEAN  OBVIOUS
  <2>2. pc' \in {"homing", "stepping"}  OBVIOUS
  <2>3. steps' \in 0 .. HomeLimit  OBVIOUS
  <2>4. select' \in {0, 1, NoDrive}  BY DEF DriveTypeOK
  <2> QED  BY <2>1, <2>2, <2>3, <2>4 DEF DriveTypeOK
<1>2. RightDrive' /\ HeadKnown'
  BY DEF DriveTypeOK, RightDrive, HeadKnown, Detecting
<1>3. Underway'  BY DEF DriveTypeOK, Underway
<1> QED  BY <1>1, <1>2, <1>3

LEMMA CommandStep == DriveInv /\ Command => DriveInv'
<1> SUFFICES ASSUME DriveInv, Command PROVE DriveInv'
  OBVIOUS
<1> USE DriveAssumption
    DEF DriveInv, Drives, NoDrive, Targets, Homing, hardware, flags, position, seeking, history
<1>1. CASE Seek
  <2>1. PICK t \in Targets : SeekTo(t, homed, "reply") /\ wanted' = t
    BY <1>1 DEF Seek
  <2> QED  BY <1>1, <2>1, SeekToStep DEF Seek, DriveTypeOK
<1>2. CASE Recalibrate
  <2>1. 0 \in Targets /\ FALSE \in BOOLEAN  OBVIOUS
  <2>2. pc = "idle" /\ SeekTo(0, FALSE, "reply") /\ wanted' = 0
        /\ UNCHANGED <<hardware, drive, currentTrack, present, overshot>>
    BY <1>2 DEF Recalibrate
  <2> QED  BY ONLY DriveInv, <2>1, <2>2, SeekToStep
<1>3. CASE Transfer
  <2>1. currentTrack \in Targets /\ wanted = currentTrack
    BY <1>3 DEF Transfer, DriveTypeOK, Underway
  <2> QED  BY <1>3, <2>1, SeekToStep DEF Transfer, DriveTypeOK
<1>4. CASE MeasureSpeed
  BY <1>4 DEF MeasureSpeed, StartMotor, DriveTypeOK, RightDrive, HeadKnown, Underway, Detecting
<1>5. CASE SetDrive
  <2>1. PICK d \in Drives :
           SetDriveFlags(IF present[0] # present[1]
                         THEN (IF present[0] THEN 0 ELSE 1) ELSE d)
    BY <1>5 DEF SetDrive
  <2> DEFINE e == IF present[0] # present[1]
                  THEN (IF present[0] THEN 0 ELSE 1) ELSE d
  <2>2. e \in Drives  BY <2>1
  <2>3. SetDriveFlags(e)  BY <2>1
  <2> HIDE DEF e
  <2> USE <1>5, <2>2, <2>3 DEF SetDrive, SetDriveFlags
  <2>4. motorOn' \in BOOLEAN /\ motor' \in BOOLEAN /\ homed' \in BOOLEAN
    OBVIOUS
  <2>5. DriveTypeOK'  BY <2>4 DEF DriveTypeOK
  <2>6. RightDrive'  BY DEF DriveTypeOK, RightDrive, Detecting
  <2>7. HeadKnown'  BY DEF DriveTypeOK, HeadKnown, Detecting
  <2>8. Underway'  BY DEF DriveTypeOK, Underway
  <2> QED  BY <2>5, <2>6, <2>7, <2>8
<1>6. CASE MeasureVoltages
  <2> USE <1>6 DEF MeasureVoltages
  <2>1. head' \in [Drives -> 0 .. MaxTrack]  BY DEF DriveTypeOK
  <2>2. DriveTypeOK'  BY <2>1 DEF DriveTypeOK
  <2>3. RightDrive' /\ HeadKnown' /\ Underway'
    BY DEF RightDrive, HeadKnown, Underway, Detecting
  <2> QED  BY <2>2, <2>3
<1>7. CASE OtherCommand
  BY <1>7 DEF OtherCommand, DriveTypeOK, RightDrive, HeadKnown, Underway, Detecting
<1> QED  BY <1>1, <1>2, <1>3, <1>4, <1>5, <1>6, <1>7 DEF Command

LEMMA ProceedStep == DriveInv /\ Proceed => DriveInv'
<1> SUFFICES ASSUME DriveInv, Proceed PROVE DriveInv'
  OBVIOUS
<1> USE DriveAssumption
    DEF DriveInv, Drives, NoDrive, Targets, Homing, hardware, flags, position, seeking, history
<1>1. CASE HomeStep
  <2> USE <1>1 DEF HomeStep, HomeEnds, StepIn
  <2>1. DriveTypeOK'  BY DEF DriveTypeOK
  <2>2. RightDrive' /\ HeadKnown'  BY DEF RightDrive, HeadKnown, Detecting
  <2>3. Underway'  BY DEF DriveTypeOK, RightDrive, Underway, Detecting, Track0
  <2> QED  BY <2>1, <2>2, <2>3
<1>2. CASE Homed
  <2> USE <1>2 DEF Homed
  <2>0. homed' \in BOOLEAN /\ overshot' \in BOOLEAN  OBVIOUS
  <2>1. DriveTypeOK' /\ RightDrive' /\ Underway'
    <3>1. DriveTypeOK'  BY <2>0 DEF DriveTypeOK
    <3>2. RightDrive'  BY DEF RightDrive, Detecting
    <3>3. Underway'  BY DEF DriveTypeOK, Underway
    <3> QED  BY <3>1, <3>2, <3>3
  <2>2. ASSUME drive \in attached PROVE head[drive] = 0
    BY <2>2 DEF DriveTypeOK, RightDrive, Underway, Detecting, HomeEnds, Track0
  <2>3. HeadKnown'  BY <2>2 DEF HeadKnown
  <2> QED  BY <2>1, <2>3
<1>3. CASE StepToTarget
  <2> DEFINE at == IF Track0 THEN 0 ELSE currentTrack
  <2> USE <1>3 DEF StepToTarget
  <2>1. at \in Targets  BY DEF DriveTypeOK
  <2>2. motorOn /\ homed /\ select = drive /\ target = wanted
    BY DEF DriveTypeOK, RightDrive, Underway, Detecting
  <2>3. ASSUME drive \in attached, ~overshot PROVE head[drive] = at
    BY <2>2, <2>3 DEF HeadKnown, Detecting, Track0
  <2>4. CASE target > at /\ StepOut /\ currentTrack' = at + 1
              /\ overshot' = (overshot \/ (select \in attached /\ head[select] = MaxTrack))
    <3>1. DriveTypeOK'  BY <2>1, <2>4 DEF DriveTypeOK, StepOut
    <3>2. RightDrive' /\ Underway'
      BY <2>2, <2>4 DEF DriveTypeOK, RightDrive, Underway, Detecting
    <3>3. HeadKnown'
      <4>1. SUFFICES ASSUME drive \in attached, ~overshot'
                     PROVE  head'[drive] = at + 1
        BY <2>4 DEF HeadKnown
      <4>2. ~overshot /\ head[drive] # MaxTrack
        BY <2>2, <2>4, <4>1
      <4>3. head[drive] \in 0 .. MaxTrack
        BY DEF DriveTypeOK
      <4>4. head'[drive] = head[drive] + 1
        <5>1. head' = [d \in {0, 1} |->
                         IF d = select /\ d \in attached /\ head[d] < MaxTrack
                         THEN head[d] + 1 ELSE head[d]]
          BY <2>4 DEF StepOut
        <5>2. drive \in {0, 1} /\ head[drive] < MaxTrack
          BY <4>2, <4>3 DEF DriveTypeOK
        <5> QED  BY ONLY <5>1, <5>2, <2>2, <4>1
      <4> QED  BY <2>3, <4>1, <4>2, <4>4
    <3> QED  BY <3>1, <3>2, <3>3
  <2>5. CASE target < at /\ StepIn /\ currentTrack' = at - 1 /\ UNCHANGED overshot
    <3>1. DriveTypeOK'  BY <2>1, <2>5 DEF DriveTypeOK, StepIn
    <3>2. RightDrive' /\ Underway'
      BY <2>2, <2>5 DEF DriveTypeOK, RightDrive, Underway, Detecting
    <3>3. HeadKnown'  BY <2>1, <2>2, <2>3, <2>5 DEF DriveTypeOK, HeadKnown, StepIn
    <3> QED  BY <3>1, <3>2, <3>3
  <2>6. CASE target = at /\ currentTrack' = at /\ UNCHANGED <<head, overshot>>
    BY <2>1, <2>2, <2>3, <2>6
    DEF DriveTypeOK, RightDrive, HeadKnown, Underway, Detecting
  <2> QED  BY <2>4, <2>5, <2>6
<1>4. CASE Arrive
  BY <1>4 DEF Arrive, DriveTypeOK, RightDrive, HeadKnown, Underway, Detecting
<1>5. CASE Detected0
  <2> USE <1>5 DEF Detected0
  <2>1. (steps < HomeLimit) \in BOOLEAN  OBVIOUS
  <2>2. present' \in [Drives -> BOOLEAN]  BY <2>1 DEF DriveTypeOK
  <2>3. motorOn' \in BOOLEAN /\ motor' \in BOOLEAN /\ timeUp' \in BOOLEAN
        /\ homed' \in BOOLEAN
    OBVIOUS
  <2>4. DriveTypeOK'  BY <2>2, <2>3 DEF DriveTypeOK
  <2>5. RightDrive' /\ HeadKnown'  BY DEF RightDrive, HeadKnown, Detecting
  <2>6. Underway'  BY DEF DriveTypeOK, Underway
  <2> QED  BY <2>4, <2>5, <2>6
<1>6. CASE Detected1
  <2>1. (steps < HomeLimit) \in BOOLEAN  OBVIOUS
  <2> QED  BY <1>6, <2>1
           DEF Detected1, StopMotor, DriveTypeOK, RightDrive, HeadKnown, Underway, Detecting
<1>7. CASE Reply
  BY <1>7 DEF Reply, DriveTypeOK, RightDrive, HeadKnown, Underway, Detecting
<1> QED  BY <1>1, <1>2, <1>3, <1>4, <1>5, <1>6, <1>7 DEF Proceed

\* The host's commands, the steps of each, the motor's timeout, and a reset of
\* the device: none of them breaks it.
THEOREM DriveStep == DriveInv /\ [DriveNext]_driveVars => DriveInv'
<1> SUFFICES ASSUME DriveInv, [DriveNext]_driveVars PROVE DriveInv'
  OBVIOUS
<1> USE DriveAssumption
    DEF DriveInv, Drives, NoDrive, Targets, Homing, hardware, flags, position, seeking, history
<1>1. CASE Command  BY <1>1, CommandStep
<1>2. CASE Proceed  BY <1>2, ProceedStep
<1>3. CASE TimerTick
  BY <1>3 DEF TimerTick, DriveTypeOK, RightDrive, HeadKnown, Underway, Detecting
<1>4. CASE MotorTimeout
  BY <1>4 DEF MotorTimeout, StopMotor, DriveTypeOK, RightDrive, HeadKnown, Underway, Detecting
<1>5. CASE Unconfigured
  BY <1>5 DEF Unconfigured, DriveTypeOK, RightDrive, HeadKnown, Underway, Detecting
<1>6. CASE Configure
  <2> USE <1>6 DEF Configure, StartMotor
  <2>1. motorOn' \in BOOLEAN /\ motor' \in BOOLEAN /\ timeUp' \in BOOLEAN
        /\ homed' \in BOOLEAN
    OBVIOUS
  <2>2. DriveTypeOK'  BY <2>1 DEF DriveTypeOK
  <2>3. RightDrive' /\ HeadKnown'  BY DEF RightDrive, HeadKnown, Detecting
  <2>4. Underway'  BY DEF DriveTypeOK, Underway
  <2> QED  BY <2>2, <2>3, <2>4
<1>7. CASE Reset
  <2> USE <1>7 DEF Reset, Blank
  <2>1. motorOn' \in BOOLEAN /\ motor' \in BOOLEAN /\ timeUp' \in BOOLEAN
        /\ homed' \in BOOLEAN /\ overshot' \in BOOLEAN
    OBVIOUS
  <2>2. present' \in [Drives -> BOOLEAN]  OBVIOUS
  <2>3. DriveTypeOK'  BY <2>1, <2>2 DEF DriveTypeOK
  <2>4. RightDrive' /\ HeadKnown' /\ Underway'
    BY DEF RightDrive, HeadKnown, Underway, Detecting
  <2> QED  BY <2>3, <2>4
<1>8. CASE UNCHANGED driveVars
  BY <1>8 DEF driveVars, DriveTypeOK, RightDrive, HeadKnown, Underway, Detecting
<1> QED  BY <1>1, <1>2, <1>3, <1>4, <1>5, <1>6, <1>7, <1>8 DEF DriveNext

\* What a command in progress relies on holds whatever came before it.
THEOREM DriveInvariant == DriveSpec => []DriveInv
<1>1. DriveInit => DriveInv  BY InitDrive
<1>2. DriveInv /\ [DriveNext]_driveVars => DriveInv'  BY DriveStep
<1> QED  BY <1>1, <1>2, PTL DEF DriveSpec

\* current_track is where the head is, whatever commands, timeouts, detections
\* and resets came before.
THEOREM HeadCorrect == DriveSpec => []HeadTrue
<1>1. DriveInv => HeadTrue  BY DEF DriveInv, HeadTrue
<1> QED  BY <1>1, DriveInvariant, PTL

\* Steps and flux go to the drive in current_drive_flags.
THEOREM DriveCorrect == DriveSpec => []RightDrive
<1>1. DriveInv => RightDrive  BY DEF DriveInv
<1> QED  BY <1>1, DriveInvariant, PTL

\* A transfer happens at the track that the host last asked for.
THEOREM TransferCorrect == DriveSpec => []TransferAtWanted
<1>1. DriveInv => TransferAtWanted
  BY DEF DriveInv, HeadKnown, Underway, Detecting, TransferAtWanted
<1> QED  BY <1>1, DriveInvariant, PTL
=============================================================================
