------------------------ MODULE Sectors_proofs ------------------------
(***************************************************************************)
(* Proofs about the two ways to the sectors of a disk.                     *)
(*                                                                         *)
(* ReadTrack, from the flux of a drive: for any layout, any finite set of  *)
(* contents, any number of copies of a sector, any group and any number of *)
(* retries.  The merge of the copies is a recursion over them: what it     *)
(* comes to is proved by taking, of the counts at which it would be wrong, *)
(* the least.                                                              *)
(*                                                                         *)
(* ImageSectors, from an image file: for any disks, of the formats with a  *)
(* place for each sector.  The places are the tracks flattened; the two    *)
(* maps between the orders of a track are inverses of each other; so each  *)
(* sector of a client has a place of its own, and what is written there is *)
(* what is read.                                                           *)
(***************************************************************************)
EXTENDS ReadTrack, ImageSectors, SequenceTheorems, FunctionTheorems,
        FiniteSetTheorems, NaturalsInduction, WellFoundedInduction, TLAPS

-----------------------------------------------------------------------------
(* Induction.                                                                *)

LEMMA LeastOf ==
    ASSUME NEW S \in SUBSET Nat, S # {}
    PROVE  \E m \in S : \A n \in S : m <= n
<1>1. PICK m \in S : \A n \in S : ~ (<<n, m>> \in OpToRel(<, Nat))
  BY NatLessThanWellFounded, WFMin
<1>2. ASSUME NEW n \in S PROVE m <= n
  <2>1. ~ (n < m)
    BY <1>1 DEF OpToRel
  <2> QED  BY <2>1
<1> QED  BY <1>2

\* Induction, over a set of numbers.
LEMMA AllOf ==
    ASSUME NEW N \in Nat, NEW T, 0 \in T,
           \A i \in 1 .. N : i - 1 \in T => i \in T
    PROVE  \A i \in 0 .. N : i \in T
<1> DEFINE B == {i \in 0 .. N : i \notin T}
<1>1. ASSUME B # {} PROVE FALSE
  <2>1. B \in SUBSET Nat
    OBVIOUS
  <2>2. PICK m \in B : \A n \in B : m <= n
    <3> HIDE DEF B
    <3> QED  BY <1>1, <2>1, LeastOf
  <2>3. m \in 1 .. N /\ m - 1 \in 0 .. N
    OBVIOUS
  <2>4. m - 1 \in T
    BY <2>2, <2>3
  <2> QED  BY <2>3, <2>4
<1> QED  BY <1>1

\* A value for each number, made of the one before.
Follows(f, s0, g, N) == f[0] = s0 /\ \A i \in 1 .. N : f[i] = g[i][f[i - 1]]

LEMMA Iterated ==
    ASSUME NEW S, NEW N \in Nat, NEW s0 \in S, NEW g \in [1 .. N -> [S -> S]]
    PROVE  \E f \in [0 .. N -> S] : Follows(f, s0, g, N)
<1> DEFINE Made(n, f) == f[0] = s0 /\ \A i \in 1 .. n : f[i] = g[i][f[i - 1]]
           T == {n \in 0 .. N : \E f \in [0 .. n -> S] : Made(n, f)}
<1>1. 0 \in T
  <2> DEFINE f == [i \in 0 .. 0 |-> s0]
  <2>1. f \in [0 .. 0 -> S] /\ Made(0, f)
    OBVIOUS
  <2> HIDE DEF f, Made
  <2> QED  BY <2>1
<1>2. ASSUME NEW n \in 1 .. N, n - 1 \in T PROVE n \in T
  <2>1. PICK h \in [0 .. n - 1 -> S] : Made(n - 1, h)
    BY <1>2
  <2> DEFINE f == [i \in 0 .. n |-> IF i = n THEN g[n][h[n - 1]] ELSE h[i]]
  <2>2. h[n - 1] \in S /\ g[n] \in [S -> S]
    OBVIOUS
  <2>3. g[n][h[n - 1]] \in S
    BY <2>2
  <2>4. f \in [0 .. n -> S]
    BY <2>3
  <2>5. f[0] = s0
    BY <2>1
  <2>6. ASSUME NEW i \in 1 .. n PROVE f[i] = g[i][f[i - 1]]
    <3>1. f[i - 1] = h[i - 1]
      OBVIOUS
    <3>2. CASE i = n  BY <3>1, <3>2
    <3>3. CASE i # n
      <4>1. i \in 1 .. n - 1
        BY <3>3
      <4>2. h[i] = g[i][h[i - 1]] /\ f[i] = h[i]
        BY <2>1, <3>3, <4>1
      <4> QED  BY <3>1, <4>2
    <3> QED  BY <3>2, <3>3
  <2>7. Made(n, f)
    BY <2>5, <2>6
  <2> HIDE DEF f, Made
  <2> QED  BY <2>4, <2>7
<1>3. N \in T
  <2> HIDE DEF T
  <2>1. \A n \in 0 .. N : n \in T
    BY <1>1, <1>2, AllOf
  <2> QED  BY <2>1
<1> QED  BY <1>3 DEF Follows

-----------------------------------------------------------------------------
(* Reading a track.                                                          *)

Kinds == Versions \cup Conflict \cup {Missing}

\* v is what a set of copies with these good ones should come to.
Speaks(v, good) ==
    /\ v \in Kinds
    /\ v \in Good => good = {v}
    /\ v \in Conflict => \E a, b \in good : a # b
    /\ v \notin Good \cup Conflict => good = {}

\* Each sector known of speaks for its copies, and none is left out.
Honest ==
    \A k \in Keys :
       /\ k \in DOMAIN sectors => Speaks(sectors[k], decoded[k] \cap Good)
       /\ k \notin DOMAIN sectors => decoded[k] = {}

\* A result that is good: as the loop goes on and after it.
Clean ==
    /\ pc = "group" /\ skip => result # "GOOD_READ"
    /\ result = "GOOD_READ" /\ (skip \/ \A o \in Offsets : supply[o] = Unlimited)
       => Wanted \subseteq DOMAIN sectors /\ NoBadSectors(sectors)

\* A result that is bad for good: the physical tracks passed have run dry.
Dry ==
    /\ pc = "group" /\ result = "BAD_AND_CAN_NOT_RETRY"
       => \A o \in 0 .. offset - 1 : supply[o] = 0
    /\ pc \in {"decide", "done"} /\ result = "BAD_AND_CAN_NOT_RETRY"
       => \A o \in Offsets : supply[o] = 0
    /\ pc = "done" /\ result = "BAD_AND_CAN_RETRY" => retries = 0

ReadIInv == ReadTypeOK /\ Honest /\ Clean /\ Dry

-----------------------------------------------------------------------------
(* The merge.                                                                *)

\* The kinds of version are told apart.
LEMMA KindsApart ==
    /\ Good \cap Conflict = {}
    /\ Missing \notin Good \cup Conflict
    /\ Unread \cap (Good \cup Conflict) = {}
BY DEF Good, Conflict, Missing, Unread

LEMMA MergedType ==
    ASSUME NEW left \in Kinds, NEW right \in Kinds
    PROVE  Merged(left, right) \in Kinds
<1>1. CASE left \in Good /\ right \in Good /\ left # right
  <2>1. PICK d \in Contents : left = <<"OK", d>>
    BY <1>1 DEF Good
  <2> QED  BY <1>1, <2>1 DEF Merged, Kinds, Conflict
<1>2. CASE ~ (left \in Good /\ right \in Good /\ left # right)
  BY <1>2 DEF Merged
<1> QED  BY <1>1, <1>2

LEMMA FiniteVersions ==
    IsFiniteSet(Good) /\ IsFiniteSet(Versions \cup {Missing})
<1>1. IsFiniteSet(Good)
  <2> DEFINE f == [d \in Contents |-> <<"OK", d>>]
  <2>1. f \in Surjection(Contents, Good)
    BY DEF Surjection, Good
  <2> HIDE DEF f
  <2> QED  BY <2>1, FS_Surjection, ReadTrackAssumption
<1>2. IsFiniteSet(Unread) /\ IsFiniteSet({Missing})
  <2>1. Unread = {<<"BAD_CHECKSUM">>} \cup {<<"DATA_MISSING">>}
    BY DEF Unread
  <2> QED  BY <2>1, FS_Singleton, FS_Union
<1> QED  BY <1>1, <1>2, FS_Union DEF Versions

\* One more copy.
LEMMA MergedSpeaks ==
    ASSUME NEW left, NEW good, Speaks(left, good),
           NEW right \in Versions \cup {Missing}
    PROVE  Speaks(Merged(left, right), good \cup ({right} \cap Good))
<1>1. left \in Kinds /\ right \in Kinds
  BY DEF Speaks, Kinds
<1>2. Merged(left, right) \in Kinds
  BY <1>1, MergedType
<1>3. right \notin Conflict
  BY KindsApart DEF Versions
<1>4. CASE left \in Good /\ right \in Good /\ left # right
  <2>1. PICK d \in Contents : left = <<"OK", d>>
    BY <1>4 DEF Good
  <2>2. Merged(left, right) \in Conflict
    BY <1>4, <2>1 DEF Merged, Conflict
  <2>3. left \in good
    BY <1>4 DEF Speaks
  <2> QED  BY <1>2, <1>4, <2>2, <2>3, KindsApart DEF Speaks
<1>5. CASE /\ ~ (left \in Good /\ right \in Good /\ left # right)
           /\ left \in Conflict \/ left \in Good \/ right \notin Good
  <2>1. Merged(left, right) = left
    BY <1>3, <1>5 DEF Merged
  <2> QED  BY <1>5, <2>1, KindsApart DEF Speaks
<1>6. CASE left \notin Conflict /\ left \notin Good /\ right \in Good
  <2>1. Merged(left, right) = right
    BY <1>6, KindsApart DEF Merged
  <2>2. good = {}
    BY <1>6 DEF Speaks
  <2> QED  BY <1>1, <1>6, <2>1, <2>2, KindsApart DEF Speaks
<1> QED  BY <1>4, <1>5, <1>6

\* The recursive definition of Accumulate() has a value at every count.
LEMMA FoldExists ==
    ASSUME NEW N \in Nat, N # 0, NEW o \in [1 .. N -> Kinds]
    PROVE  \E g \in [1 .. N -> Kinds] :
              g = [i \in 1 .. N |-> IF i = 1 THEN o[1] ELSE Merged(g[i - 1], o[i])]
<1> DEFINE Fold(n, g) ==
      \A i \in 1 .. n : g[i] = IF i = 1 THEN o[1] ELSE Merged(g[i - 1], o[i])
    S == {n \in 1 .. N : ~ \E g \in [1 .. n -> Kinds] : Fold(n, g)}
<1>1. S = {}
  <2>1. SUFFICES ASSUME S # {} PROVE FALSE
    OBVIOUS
  <2>2. S \in SUBSET Nat
    OBVIOUS
  <2>3. PICK m \in S : \A n \in S : m <= n
    BY <2>1, <2>2, LeastOf
  <2>4. m \in 1 .. N /\ ~ \E g \in [1 .. m -> Kinds] : Fold(m, g)
    OBVIOUS
  <2>5. CASE m = 1
    <3> DEFINE g == [i \in 1 .. 1 |-> o[1]]
    <3>1. g \in [1 .. 1 -> Kinds] /\ Fold(1, g)
      OBVIOUS
    <3> QED  BY <2>4, <2>5, <3>1
  <2>6. CASE m # 1
    <3>1. m - 1 \in 1 .. N
      BY <2>4, <2>6
    <3>2. m - 1 \notin S
      <4> HIDE DEF S
      <4> QED  BY <2>3, <2>4
    <3>3. PICK h \in [1 .. m - 1 -> Kinds] : Fold(m - 1, h)
      BY <3>1, <3>2
    <3> DEFINE g == [i \in 1 .. m |-> IF i = m THEN Merged(h[m - 1], o[m]) ELSE h[i]]
    <3>4. Merged(h[m - 1], o[m]) \in Kinds
      BY <2>4, <3>1, MergedType
    <3>5. g \in [1 .. m -> Kinds]
      BY <2>4, <3>4
    <3>6. ASSUME NEW i \in 1 .. m
          PROVE  g[i] = IF i = 1 THEN o[1] ELSE Merged(g[i - 1], o[i])
      <4>1. CASE i = m
        BY <2>4, <2>6, <4>1
      <4>2. CASE i # m
        <5>1. i \in 1 .. m - 1 /\ g[i] = h[i]
          BY <2>4, <4>2
        <5>2. i # 1 => i - 1 \in 1 .. m /\ i - 1 # m
          BY <2>4, <4>2
        <5>3. i # 1 => g[i - 1] = h[i - 1]
          BY <5>2
        <5>4. h[i] = IF i = 1 THEN o[1] ELSE Merged(h[i - 1], o[i])
          BY <3>3, <5>1
        <5> HIDE DEF g
        <5> QED  BY <5>1, <5>3, <5>4
      <4> QED  BY <4>1, <4>2
    <3>7. Fold(m, g)
      BY <3>6
    <3> HIDE DEF g, Fold
    <3> QED  BY <2>4, <3>5, <3>7
  <2> QED  BY <2>5, <2>6
<1>2. N \in 1 .. N /\ N \notin S
  BY <1>1
<1>3. PICK g \in [1 .. N -> Kinds] : Fold(N, g)
  BY <1>2
<1>4. g = [i \in 1 .. N |-> IF i = 1 THEN o[1] ELSE Merged(g[i - 1], o[i])]
  BY <1>3
<1> QED  BY <1>4

\* std::accumulate() over the copies speaks for them.
LEMMA AccumulateSpeaks ==
    ASSUME NEW N \in Nat, N # 0, NEW o \in [1 .. N -> Versions \cup {Missing}]
    PROVE  Speaks(Accumulate(o), {o[i] : i \in 1 .. N} \cap Good)
<1> DEFINE E(f) == f = [i \in 1 .. N |-> IF i = 1 THEN o[1] ELSE Merged(f[i - 1], o[i])]
           F == CHOOSE f : E(f)
<1>1. o \in Seq(Versions \cup {Missing}) /\ Len(o) = N
  OBVIOUS
<1>2. Accumulate(o) = F[N]
  BY <1>1 DEF Accumulate
<1>3. \E f : E(f)
  <2>1. o \in [1 .. N -> Kinds]
    BY DEF Kinds
  <2> QED  BY <2>1, FoldExists
<1>4. E(F)
  <2> HIDE DEF E
  <2> QED  BY <1>3, Zenon
<1>5. \A i \in 1 .. N : F[i] = IF i = 1 THEN o[1] ELSE Merged(F[i - 1], o[i])
  <2> HIDE DEF F
  <2> QED  BY <1>4
<1> HIDE DEF E, F
<1> DEFINE Upto(n) == {o[i] : i \in 1 .. n} \cap Good
           S == {n \in 1 .. N : ~ Speaks(F[n], Upto(n))}
<1>6. S = {}
  <2>1. SUFFICES ASSUME S # {} PROVE FALSE
    OBVIOUS
  <2>2. S \in SUBSET Nat
    OBVIOUS
  <2>3. PICK m \in S : \A n \in S : m <= n
    BY <2>1, <2>2, LeastOf
  <2>4. m \in 1 .. N /\ ~ Speaks(F[m], Upto(m))
    OBVIOUS
  <2>5. CASE m = 1
    <3>1. F[m] = o[1] /\ o[1] \in Versions \cup {Missing}
      BY <1>5, <2>4, <2>5
    <3>2. Upto(m) = {o[1]} \cap Good
      BY <2>5
    <3>3. Speaks(o[1], {o[1]} \cap Good)
      BY <3>1, KindsApart DEF Speaks, Kinds, Versions
    <3> QED  BY <2>4, <3>1, <3>2, <3>3
  <2>6. CASE m # 1
    <3>1. m - 1 \in 1 .. N
      BY <2>4, <2>6
    <3>2. m - 1 \notin S
      <4> HIDE DEF S
      <4> QED  BY <2>3, <2>4
    <3>3. Speaks(F[m - 1], Upto(m - 1))
      BY <3>1, <3>2
    <3>4. F[m] = Merged(F[m - 1], o[m]) /\ o[m] \in Versions \cup {Missing}
      BY <1>5, <2>4, <2>6
    <3>5. Upto(m) = Upto(m - 1) \cup ({o[m]} \cap Good)
      BY <2>4, <2>6
    <3> HIDE DEF Upto
    <3>6. Speaks(F[m], Upto(m))
      BY <3>3, <3>4, <3>5, MergedSpeaks
    <3> QED  BY <2>4, <3>6
  <2> QED  BY <2>5, <2>6
<1>7. N \in 1 .. N
  OBVIOUS
<1>8. N \notin S
  <2> HIDE DEF S
  <2> QED  BY <1>6
<1>9. Speaks(F[N], Upto(N))
  BY <1>7, <1>8
<1> QED  BY <1>2, <1>9

\* A set of copies in any order.
LEMMA OrderOf ==
    ASSUME NEW copies, IsFiniteSet(copies), NEW order \in SetToSeqs(copies)
    PROVE  /\ order \in [1 .. Cardinality(copies) -> copies]
           /\ copies = {order[i] : i \in 1 .. Cardinality(copies)}
<1> DEFINE D == 1 .. Cardinality(copies)
<1>1. Cardinality(copies) \in Nat
  BY FS_CardinalityType
<1>2. order \in [D -> copies] /\ \A i, j \in D : i # j => order[i] # order[j]
  BY DEF SetToSeqs
<1>3. order \in Injection(D, copies)
  BY <1>2 DEF Injection, IsInjective
<1>4. IsFiniteSet(D) /\ Cardinality(D) = Cardinality(copies)
  BY <1>1, FS_Interval
<1>5. order \in Surjection(D, copies)
  BY <1>3, <1>4, FS_Injection
<1> QED  BY <1>2, <1>5 DEF Surjection

\* What collectSectors() makes of any set of copies, in any order.
LEMMA OutcomesSpeak ==
    ASSUME NEW copies \in SUBSET (Versions \cup {Missing}), copies # {},
           NEW v \in OutcomesOf(copies)
    PROVE  Speaks(v, copies \cap Good)
<1>1. OutcomesOf(copies) = Collected(copies)
  <2> DEFINE pair == <<copies, Collected(copies)>>
             C == CHOOSE o \in Outcomes : o[1] = copies
  <2>1. pair \in Outcomes /\ pair[1] = copies
    <3>1. copies \in (SUBSET (Versions \cup {Missing})) \ {{}}
      OBVIOUS
    <3> QED  BY <3>1, Zenon DEF Outcomes
  <2>2. C \in Outcomes /\ C[1] = copies
    <3> HIDE DEF pair
    <3> QED  BY <2>1
  <2>3. \A o \in Outcomes : o[1] = copies => o[2] = Collected(copies)
    BY DEF Outcomes
  <2>4. OutcomesOf(copies) = C[2]
    BY DEF OutcomesOf
  <2> HIDE DEF C
  <2> QED  BY <2>2, <2>3, <2>4
<1>2. IsFiniteSet(copies)
  BY FiniteVersions, FS_Subset
<1>3. PICK order \in SetToSeqs(copies) : v = Accumulate(order)
  BY <1>1 DEF Collected
<1>4. /\ order \in [1 .. Cardinality(copies) -> copies]
      /\ copies = {order[i] : i \in 1 .. Cardinality(copies)}
  BY <1>2, <1>3, OrderOf
<1>5. Cardinality(copies) \in Nat /\ Cardinality(copies) # 0
  BY <1>2, FS_CardinalityType, FS_EmptySet
<1>6. order \in [1 .. Cardinality(copies) -> Versions \cup {Missing}]
  BY <1>4
<1>7. Speaks(Accumulate(order), {order[i] : i \in 1 .. Cardinality(copies)} \cap Good)
  BY <1>5, <1>6, AccumulateSpeaks
<1> QED  BY <1>3, <1>4, <1>7

-----------------------------------------------------------------------------
(* The invariant.                                                            *)

\* What a read may leave in trackFlux.sectors.
LEMMA CombinationsAre ==
    ASSUME NEW d \in [Keys -> SUBSET Versions], NEW s \in Combinations(d)
    PROVE  /\ DOMAIN s \subseteq Keys /\ Wanted \subseteq DOMAIN s
           /\ \A k \in DOMAIN s : Speaks(s[k], d[k] \cap Good)
           /\ \A k \in Keys \ DOMAIN s : d[k] = {}
<1> DEFINE all == Candidates(d)
           known == {k \in Keys : all[k] # {}}
<1>1. \A k \in Keys : all[k] = d[k] \cup IF k \in Wanted THEN {Missing} ELSE {}
  BY DEF Candidates
<1>2. /\ s \in [known -> UNION {OutcomesOf(all[k]) : k \in known}]
      /\ \A k \in known : s[k] \in OutcomesOf(all[k])
  BY DEF Combinations
<1> HIDE DEF all
<1>3. DOMAIN s = known
  BY <1>2
<1>4. ASSUME NEW k \in known PROVE Speaks(s[k], d[k] \cap Good)
  <2>1. all[k] \in SUBSET (Versions \cup {Missing}) /\ all[k] # {}
    BY <1>1
  <2>2. all[k] \cap Good = d[k] \cap Good
    BY <1>1, KindsApart
  <2> QED  BY <1>2, <2>1, <2>2, OutcomesSpeak
<1>5. \A k \in Wanted : k \in Keys /\ all[k] # {}
  BY <1>1 DEF Keys
<1>6. \A k \in Keys \ known : d[k] = {}
  BY <1>1
<1> QED  BY <1>3, <1>4, <1>5, <1>6

\* What one read does to the versions known of.
LEMMA ReadStep ==
    ASSUME ReadTypeOK, Read
    PROVE  /\ decoded' \in [Keys -> SUBSET Versions]
           /\ \A k \in Keys : decoded[k] \subseteq decoded'[k]
           /\ DOMAIN sectors' \subseteq Keys /\ Wanted \subseteq DOMAIN sectors'
           /\ \A k \in DOMAIN sectors' :
                 sectors'[k] \in Kinds /\ Speaks(sectors'[k], decoded'[k] \cap Good)
           /\ Honest'
<1>1. PICK found \in [Keys -> Found] :
         decoded' = Accumulated(found) /\ sectors' \in Combinations(Accumulated(found))
  BY DEF Read
<1>2. /\ decoded' \in [Keys -> SUBSET Versions]
      /\ \A k \in Keys : decoded[k] \subseteq decoded'[k]
  BY <1>1 DEF Accumulated, Found, ReadTypeOK
<1>3. /\ DOMAIN sectors' \subseteq Keys /\ Wanted \subseteq DOMAIN sectors'
      /\ \A k \in DOMAIN sectors' : Speaks(sectors'[k], decoded'[k] \cap Good)
      /\ \A k \in Keys \ DOMAIN sectors' : decoded'[k] = {}
  BY <1>1, <1>2, CombinationsAre
<1>4. \A k \in DOMAIN sectors' : sectors'[k] \in Kinds
  BY <1>3 DEF Speaks
<1> QED  BY <1>2, <1>3, <1>4 DEF Honest

LEMMA OffsetsAre ==
    /\ Group \in Nat /\ Group # 0 /\ Retries \in Nat
    /\ \A i \in 0 .. Group : i < Group => i \in Offsets /\ i + 1 \in 0 .. Group
    /\ \A i : i \in Offsets <=> i \in 0 .. Group - 1
    /\ 0 \in 0 .. Group /\ 0 .. 0 - 1 = {}
    /\ \A i \in 0 .. Group : \A o \in 0 .. (i + 1) - 1 : o = i \/ o \in 0 .. i - 1
    /\ \A i \in 0 .. Group : i < Group => i \notin 0 .. i - 1 /\ 0 .. i - 1 \subseteq Offsets
BY ReadTrackAssumption DEF Offsets

LEMMA InitInv == ASSUME ReadInit PROVE ReadIInv
<1>1. ReadTypeOK
  <2>1. supply \in [Offsets -> Nat \cup {Unlimited}]
    BY ReadTrackAssumption DEF ReadInit
  <2>2. DOMAIN sectors = {} /\ decoded \in [Keys -> SUBSET Versions]
    BY DEF ReadInit
  <2>3. /\ skip \in BOOLEAN /\ pc = "group" /\ offset \in 0 .. Group
        /\ retries \in 0 .. Retries /\ result \in Results
    BY OffsetsAre DEF ReadInit, Results
  <2> QED  BY <2>1, <2>2, <2>3 DEF ReadTypeOK
<1>2. Honest
  BY DEF ReadInit, Honest
<1>3. Clean
  BY DEF ReadInit, Clean
<1>4. Dry
  BY OffsetsAre DEF ReadInit, Dry
<1> QED  BY <1>1, <1>2, <1>3, <1>4 DEF ReadIInv

LEMMA ReadInv == ASSUME ReadIInv, Read PROVE ReadIInv'
<1>1. /\ pc = "group" /\ offset \in Offsets /\ offset + 1 \in 0 .. Group
      /\ supply[offset] # 0
      /\ skip' = skip /\ retries' = retries
  BY OffsetsAre DEF ReadIInv, ReadTypeOK, Read
<1>2. ReadTypeOK
  BY DEF ReadIInv
<1>3. /\ supply' \in [Offsets -> Nat \cup {Unlimited}]
      /\ \A o \in Offsets : o # offset => supply'[o] = supply[o]
      /\ supply'[offset] = Taken(supply[offset])
  <2>1. supply' = [supply EXCEPT ![offset] = Taken(@)]
    BY DEF Read
  <2>2. supply \in [Offsets -> Nat \cup {Unlimited}]
    BY <1>2 DEF ReadTypeOK
  <2>3. Taken(supply[offset]) \in Nat \cup {Unlimited}
    BY <1>1, <2>2 DEF Taken
  <2> QED  BY <1>1, <2>1, <2>2, <2>3
<1>4. \A o \in Offsets : supply'[o] = Unlimited <=> supply[o] = Unlimited
  <2>1. supply[offset] \in Nat \cup {Unlimited}
    BY <1>1, <1>2 DEF ReadTypeOK
  <2>2. supply'[offset] = Unlimited <=> supply[offset] = Unlimited
    BY <1>1, <1>3, <2>1, ReadTrackAssumption DEF Taken
  <2> QED  BY <1>3, <2>2
<1>5. Wanted \subseteq DOMAIN sectors' /\ Honest'
  BY <1>2, ReadStep
<1>6. CASE NoBadSectors(sectors')
  <2>1. result' = "GOOD_READ"
    BY <1>6 DEF Read, Judge
  <2>2. \/ skip /\ pc' = "decide" /\ offset' = offset
        \/ ~skip /\ pc' = "group" /\ offset' = offset + 1
    BY <1>1, <1>6 DEF Read
  <2>3. ReadTypeOK'
    <3>1. offset' \in 0 .. Group /\ pc' \in {"group", "decide", "done", "error"}
      BY <1>1, <1>2, <2>2 DEF ReadTypeOK
    <3>2. skip' \in BOOLEAN /\ retries' \in 0 .. Retries /\ result' \in Results
      BY <1>1, <1>2, <2>1 DEF ReadTypeOK, Results
    <3>3. DOMAIN sectors' \subseteq Keys /\ \A k \in DOMAIN sectors' : sectors'[k] \in Kinds
      BY <1>2, ReadStep
    <3>4. decoded' \in [Keys -> SUBSET Versions]
      BY <1>2, ReadStep
    <3> QED  BY <1>3, <3>1, <3>2, <3>3, <3>4 DEF ReadTypeOK, Kinds
  <2>4. Clean'
    BY <1>1, <1>5, <1>6, <2>2 DEF Clean
  <2>5. Dry'
    BY <2>1, <2>2 DEF Dry
  <2> QED  BY <1>5, <2>3, <2>4, <2>5 DEF ReadIInv
<1>7. CASE ~ NoBadSectors(sectors')
  <2>1. result' = IF supply'[offset] # 0 THEN "BAD_AND_CAN_RETRY" ELSE result
    BY <1>7 DEF Read, Judge
  <2>2. pc' = "group" /\ offset' = offset + 1
    BY <1>1, <1>7 DEF Read
  <2>3. ReadTypeOK'
    <3>1. offset' \in 0 .. Group /\ pc' \in {"group", "decide", "done", "error"}
      BY <1>1, <2>2
    <3>2. skip' \in BOOLEAN /\ retries' \in 0 .. Retries /\ result' \in Results
      BY <1>1, <1>2, <2>1 DEF ReadTypeOK, Results
    <3>3. DOMAIN sectors' \subseteq Keys /\ \A k \in DOMAIN sectors' : sectors'[k] \in Kinds
      BY <1>2, ReadStep
    <3>4. decoded' \in [Keys -> SUBSET Versions]
      BY <1>2, ReadStep
    <3> QED  BY <1>3, <3>1, <3>2, <3>3, <3>4 DEF ReadTypeOK, Kinds
  <2>4. Clean'
    <3>1. skip' => result' # "GOOD_READ"
      BY <1>1, <2>1 DEF ReadIInv, Clean
    <3>2. (\A o \in Offsets : supply'[o] = Unlimited) => result' # "GOOD_READ"
      BY <1>1, <2>1, ReadTrackAssumption
    <3> QED  BY <1>1, <3>1, <3>2 DEF Clean
  <2>5. Dry'
    <3>1. ASSUME result' = "BAD_AND_CAN_NOT_RETRY"
          PROVE  \A o \in 0 .. offset' - 1 : supply'[o] = 0
      <4>1. supply'[offset] = 0 /\ result = "BAD_AND_CAN_NOT_RETRY"
        BY <2>1, <3>1
      <4>2. \A o \in 0 .. offset - 1 : supply[o] = 0
        BY <1>1, <4>1 DEF ReadIInv, Dry
      <4>3. \A o \in 0 .. offset - 1 : o \in Offsets /\ o # offset
        BY <1>1, OffsetsAre
      <4>4. \A o \in 0 .. offset' - 1 : o = offset \/ o \in 0 .. offset - 1
        BY <1>1, <2>2, OffsetsAre
      <4> QED  BY <1>3, <4>1, <4>2, <4>3, <4>4
    <3> QED  BY <2>2, <3>1 DEF Dry
  <2> QED  BY <1>5, <2>3, <2>4, <2>5 DEF ReadIInv
<1> QED  BY <1>6, <1>7

LEMMA OtherInv ==
    ASSUME ReadIInv, ReadThrows \/ PassOver \/ GroupRead \/ GiveUp \/ Retry \/ Terminated
    PROVE  ReadIInv'
<1>1. ReadTypeOK'
  BY OffsetsAre DEF ReadIInv, ReadTypeOK, ReadThrows, PassOver, GroupRead, GiveUp, Retry,
        Terminated, readVars, held, Results
<1>2. Honest'
  BY DEF ReadIInv, Honest, ReadThrows, PassOver, GroupRead, GiveUp, Retry,
        Terminated, readVars, held
<1>3. Clean'
  BY DEF ReadIInv, Clean, ReadThrows, PassOver, GroupRead, GiveUp, Retry,
        Terminated, readVars, held
<1>4. Dry'
  <2>1. CASE PassOver
    <3>1. \A o \in 0 .. offset' - 1 : o = offset \/ o \in 0 .. offset - 1
      BY <2>1, OffsetsAre DEF PassOver, ReadIInv, ReadTypeOK
    <3> QED  BY <2>1, <3>1 DEF PassOver, ReadIInv, Dry, held
  <2>2. CASE GroupRead
    BY <2>2, OffsetsAre DEF GroupRead, ReadIInv, Dry, held
  <2>3. CASE Retry
    BY <2>3, OffsetsAre DEF Retry, ReadIInv, Dry, held
  <2>4. CASE GiveUp
    BY <2>4 DEF GiveUp, ReadIInv, Dry, held
  <2>5. CASE ReadThrows \/ Terminated
    BY <2>5 DEF ReadThrows, Terminated, ReadIInv, Dry, held, readVars
  <2> QED  BY <2>1, <2>2, <2>3, <2>4, <2>5
<1> QED  BY <1>1, <1>2, <1>3, <1>4 DEF ReadIInv

\* The inductive invariant holds.
THEOREM ReadInvariance == ReadSpec => []ReadIInv
<1>1. ReadInit => ReadIInv
  BY InitInv
<1>2. ReadIInv /\ [ReadNext]_readVars => ReadIInv'
  <2> SUFFICES ASSUME ReadIInv, [ReadNext]_readVars PROVE ReadIInv'
    OBVIOUS
  <2>1. CASE UNCHANGED readVars
    BY <2>1 DEF readVars, held, ReadIInv, ReadTypeOK, Honest, Clean, Dry
  <2>2. CASE ReadNext
    BY <2>2, ReadInv, OtherInv DEF ReadNext
  <2> QED  BY <2>1, <2>2
<1> QED  BY <1>1, <1>2, PTL DEF ReadSpec

-----------------------------------------------------------------------------
(* The properties.                                                           *)

\* What is known of a sector, said of how many good copies it has.
LEMMA SpeaksInNumbers ==
    ASSUME NEW v, NEW good \in SUBSET Good, Speaks(v, good)
    PROVE  /\ v \in Good <=> Cardinality(good) = 1
           /\ v \in Good => v \in good
           /\ v \in Conflict <=> Cardinality(good) > 1
<1>1. IsFiniteSet(good) /\ Cardinality(good) \in Nat
  BY FiniteVersions, FS_Subset, FS_CardinalityType
<1>2. CASE v \in Good
  <2>1. good = {v} /\ v \notin Conflict
    BY <1>2, KindsApart DEF Speaks
  <2>2. Cardinality(good) = 1
    BY <2>1, FS_Singleton
  <2> QED  BY <1>1, <1>2, <2>1, <2>2
<1>3. CASE v \in Conflict
  <2>1. PICK a, b \in good : a # b
    BY <1>3 DEF Speaks
  <2>2. Cardinality(good) # 1
    <3>1. ~ \E x : good = {x}
      BY <2>1
    <3> QED  BY <1>1, <3>1, FS_Singleton
  <2>3. Cardinality(good) # 0
    BY <1>1, <2>1, FS_EmptySet
  <2> QED  BY <1>1, <1>3, <2>2, <2>3, KindsApart
<1>4. CASE v \notin Good \cup Conflict
  <2>1. Cardinality(good) = 0
    BY <1>4, FS_EmptySet DEF Speaks
  <2> QED  BY <1>4, <2>1
<1> QED
  <2>1. v \in Good \/ v \in Conflict \/ v \notin Good \cup Conflict
    OBVIOUS
  <2> QED  BY <1>2, <1>3, <1>4, <2>1, Zenon

\* The merge is honest: after any number of reads and whatever the order of the
\* copies in memory, a sector is OK exactly when its good copies agree, and in
\* conflict exactly when they do not (collectSectors()).
THEOREM MergeCorrect == ReadSpec => []SectorsTrue
<1>1. ReadIInv => SectorsTrue
  <2> SUFFICES ASSUME ReadIInv PROVE SectorsTrue
    OBVIOUS
  <2>1. ReadTypeOK
    BY Zenon DEF ReadIInv
  <2>2. ASSUME NEW k \in DOMAIN sectors
        PROVE  /\ sectors[k] \in Good <=> Cardinality(decoded[k] \cap Good) = 1
               /\ sectors[k] \in Good => sectors[k] \in decoded[k] \cap Good
               /\ sectors[k] \in Conflict <=> Cardinality(decoded[k] \cap Good) > 1
    <3>1. k \in Keys
      BY <2>1 DEF ReadTypeOK
    <3>2. Speaks(sectors[k], decoded[k] \cap Good)
      BY <3>1 DEF ReadIInv, Honest
    <3>3. decoded[k] \cap Good \in SUBSET Good
      OBVIOUS
    <3> QED  BY <3>2, <3>3, SpeaksInNumbers
  <2>3. MergeHonest
    BY <2>2, Zenon DEF MergeHonest
  <2> QED  BY <2>1, <2>3 DEF SectorsTrue
<1> QED  BY <1>1, ReadInvariance, PTL

\* A track taken for good has every sector of its layout, all of them OK.
THEOREM GoodReadCorrect == ReadSpec => []GoodReadIsClean
<1>1. ReadIInv => GoodReadIsClean
  BY DEF ReadIInv, Clean, GoodReadIsClean
<1> QED  BY <1>1, ReadInvariance, PTL

\* readAndDecodeTrack() gives a track up only when it has used every retry, or
\* when no physical track of the group has a read left.
THEOREM RetriesCorrect == ReadSpec => []NoEarlyGivingUp
<1>1. ReadIInv => NoEarlyGivingUp
  BY DEF ReadIInv, ReadTypeOK, Results, Dry, NoEarlyGivingUp
<1> QED  BY <1>1, ReadInvariance, PTL

\* Once a good copy of a sector has been read no later read takes it away: it
\* stays, with its data, or the sector is in conflict for good.
OkSticks ==
    [][\A k \in DOMAIN sectors :
           /\ sectors[k] \in Good
              => /\ k \in DOMAIN sectors'
                 /\ sectors'[k] \in {sectors[k]} \cup Conflict
           /\ sectors[k] \in Conflict
              => k \in DOMAIN sectors' /\ sectors'[k] \in Conflict]_readVars

\* Once a good copy of a sector has been read, no later read takes it away or
\* changes its data but by a conflict, and a conflict stays.
THEOREM OkStays == ReadSpec => OkSticks
<1> DEFINE Sticks == \A k \in DOMAIN sectors :
              /\ sectors[k] \in Good
                 => /\ k \in DOMAIN sectors'
                    /\ sectors'[k] \in {sectors[k]} \cup Conflict
              /\ sectors[k] \in Conflict
                 => k \in DOMAIN sectors' /\ sectors'[k] \in Conflict
<1>1. ReadIInv /\ [ReadNext]_readVars => [Sticks]_readVars
  <2> SUFFICES ASSUME ReadIInv, [ReadNext]_readVars PROVE Sticks
    OBVIOUS
  <2>1. CASE UNCHANGED sectors
    <3>1. \A k \in DOMAIN sectors : k \in DOMAIN sectors' /\ sectors'[k] = sectors[k]
      BY <2>1
    <3> QED  BY <3>1
  <2>2. CASE Read
    <3>1. ReadTypeOK
      BY Zenon DEF ReadIInv
    <3> SUFFICES ASSUME NEW k \in DOMAIN sectors,
                        sectors[k] \in Good \cup Conflict
                 PROVE  /\ k \in DOMAIN sectors'
                        /\ sectors[k] \in Good
                           => sectors'[k] \in {sectors[k]} \cup Conflict
                        /\ sectors[k] \in Conflict => sectors'[k] \in Conflict
      BY Zenon
    <3>2. k \in Keys
      BY <3>1 DEF ReadTypeOK
    <3>3. Speaks(sectors[k], decoded[k] \cap Good)
      BY <3>2 DEF ReadIInv, Honest
    <3>4. decoded[k] \cap Good # {} /\ decoded[k] \subseteq decoded'[k]
      BY <3>1, <3>2, <3>3, <2>2, ReadStep, KindsApart DEF Speaks
    <3>5. k \in DOMAIN sectors' /\ Speaks(sectors'[k], decoded'[k] \cap Good)
      BY <3>1, <3>2, <3>4, <2>2, ReadStep DEF Honest
    <3>6. CASE sectors[k] \in Good
      <4>1. sectors[k] \in decoded'[k] \cap Good /\ sectors[k] \notin Conflict
        BY <3>3, <3>4, <3>6, KindsApart DEF Speaks
      <4>2. sectors'[k] \in {sectors[k]} \cup Conflict
        BY <3>5, <4>1 DEF Speaks
      <4> QED  BY <3>5, <4>1, <4>2
    <3>7. CASE sectors[k] \in Conflict
      <4>1. sectors[k] \notin Good
        BY <3>7, KindsApart
      <4>2. PICK a, b \in decoded'[k] \cap Good : a # b
        BY <3>3, <3>4, <3>7 DEF Speaks
      <4>3. sectors'[k] \in Conflict
        BY <3>5, <4>2 DEF Speaks
      <4> QED  BY <3>5, <4>1, <4>3
    <3> QED  BY <3>6, <3>7
  <2> QED  BY <2>1, <2>2 DEF ReadNext, ReadThrows, PassOver, GroupRead, GiveUp, Retry,
              Terminated, readVars, held
<1> QED  BY <1>1, ReadInvariance, PTL DEF ReadSpec, OkSticks

-----------------------------------------------------------------------------
(* Tracks, one after the other.                                              *)

\* g has the first of the sequences of ss joined.
Joined(g, N, ss) == g[0] = <<>> /\ \A i \in 1 .. N : g[i] = g[i - 1] \o ss[i]

LEMMA JoinedExists ==
    ASSUME NEW S, NEW N \in Nat, NEW ss \in [1 .. N -> Seq(S)]
    PROVE  \E g \in [0 .. N -> Seq(S)] : Joined(g, N, ss)
<1> DEFINE f == [i \in 1 .. N |-> [x \in Seq(S) |-> x \o ss[i]]]
<1>1. f \in [1 .. N -> [Seq(S) -> Seq(S)]]
  <2>1. ASSUME NEW i \in 1 .. N, NEW x \in Seq(S) PROVE x \o ss[i] \in Seq(S)
    OBVIOUS
  <2> QED  BY <2>1
<1>2. <<>> \in Seq(S)
  OBVIOUS
<1>3. PICK g \in [0 .. N -> Seq(S)] : Follows(g, <<>>, f, N)
  <2> HIDE DEF f
  <2> QED  BY <1>1, <1>2, Iterated
<1>4. ASSUME NEW i \in 1 .. N PROVE g[i] = g[i - 1] \o ss[i]
  <2>1. i - 1 \in 0 .. N
    OBVIOUS
  <2>2. g[i - 1] \in Seq(S)
    BY <2>1
  <2>3. g[i] = f[i][g[i - 1]]
    <3> HIDE DEF f
    <3> QED  BY <1>3 DEF Follows
  <2> QED  BY <2>2, <2>3
<1> QED  BY <1>3, <1>4 DEF Follows, Joined

LEMMA FlattenIs ==
    ASSUME NEW S, NEW N \in Nat, NEW ss \in [1 .. N -> Seq(S)],
           NEW g \in [0 .. N -> Seq(S)], Joined(g, N, ss)
    PROVE  FlattenSeq(ss) = g[N]
<1> DEFINE E(f) == f = [i \in 1 .. N |-> IF i = 1 THEN ss[i] ELSE f[i - 1] \o ss[i]]
           F == CHOOSE f : E(f)
<1>0. ss \in Seq(Seq(S)) /\ Len(ss) = N
  OBVIOUS
<1>1. CASE N = 0
  <2>1. ss = <<>>
    BY <1>0, <1>1
  <2> QED  BY <1>0, <1>1, <2>1 DEF FlattenSeq, Joined
<1>2. CASE N # 0
  <2>1. FlattenSeq(ss) = F[N]
    BY <1>0, <1>2 DEF FlattenSeq
  <2> DEFINE h == [i \in 1 .. N |-> g[i]]
  <2>2. ASSUME NEW i \in 1 .. N
        PROVE  h[i] = IF i = 1 THEN ss[i] ELSE h[i - 1] \o ss[i]
    <3>1. g[i] = g[i - 1] \o ss[i] /\ ss[i] \in Seq(S)
      BY DEF Joined
    <3>2. CASE i = 1
      <4>1. g[i - 1] = <<>>
        BY <3>2 DEF Joined
      <4>2. <<>> \o ss[i] = ss[i]
        BY <3>1
      <4> QED  BY <3>1, <3>2, <4>1, <4>2
    <3>3. CASE i # 1
      <4>1. i - 1 \in 1 .. N
        BY <3>3
      <4> QED  BY <3>1, <3>3, <4>1
    <3> QED  BY <3>2, <3>3
  <2>3. E(h)
    BY <2>2
  <2>4. E(F)
    <3> HIDE DEF E, h
    <3> QED  BY <2>3, Zenon
  <2>5. \A i \in 1 .. N : F[i] = IF i = 1 THEN ss[i] ELSE F[i - 1] \o ss[i]
    <3> HIDE DEF F
    <3> QED  BY <2>4
  <2> HIDE DEF E, F
  <2> DEFINE T == {0} \cup {i \in 1 .. N : F[i] = g[i]}
  <2>6. ASSUME NEW i \in 1 .. N, i - 1 \in T PROVE i \in T
    <3>1. h[i] = g[i]
      OBVIOUS
    <3>2. CASE i = 1
      <4>1. F[i] = ss[i] /\ h[i] = ss[i]
        <5> HIDE DEF h
        <5> QED  BY <2>2, <2>5, <3>2
      <4> QED  BY <3>1, <4>1
    <3>3. CASE i # 1
      <4>1. i - 1 \in 1 .. N /\ F[i - 1] = g[i - 1] /\ h[i - 1] = g[i - 1]
        BY <2>6, <3>3
      <4>2. F[i] = F[i - 1] \o ss[i] /\ h[i] = h[i - 1] \o ss[i]
        <5> HIDE DEF h
        <5> QED  BY <2>2, <2>5, <3>3
      <4> HIDE DEF h
      <4>3. F[i] = g[i]
        BY <3>1, <4>1, <4>2
      <4> QED  BY <4>3
    <3> QED  BY <3>2, <3>3
  <2>7. \A i \in 0 .. N : i \in T
    <3>1. 0 \in T
      OBVIOUS
    <3> HIDE DEF T
    <3> QED  BY <2>6, <3>1, AllOf
  <2>8. F[N] = g[N]
    <3>1. N \in T
      <4> HIDE DEF T
      <4> QED  BY <2>7
    <3> QED  BY <1>2, <3>1
  <2> QED  BY <2>1, <2>8
<1> QED  BY <1>1, <1>2

\* Where the pieces of a flattened sequence end.
EndsOf(o, N, ss, d) ==
    /\ o \in [0 .. N -> Nat] /\ o[0] = 0
    /\ \A i \in 1 .. N : o[i] = o[i - 1] + Len(ss[i])
    /\ \A n \in 0 .. N : Len(FlattenSeq(SubSeq(ss, 1, n))) = o[n]
    /\ d = FlattenSeq(ss) /\ Len(d) = o[N]
    /\ \A i \in 1 .. N : \A m \in 1 .. Len(ss[i]) : d[o[i - 1] + m] = ss[i][m]

LEMMA FlattenEnds ==
    ASSUME NEW S, NEW N \in Nat, NEW ss \in [1 .. N -> Seq(S)]
    PROVE  /\ FlattenSeq(ss) \in Seq(S)
           /\ \E o : EndsOf(o, N, ss, FlattenSeq(ss))
<1>1. PICK g \in [0 .. N -> Seq(S)] : Joined(g, N, ss)
  BY JoinedExists
<1>2. FlattenSeq(ss) = g[N] /\ g[N] \in Seq(S)
  <2>1. g[N] \in Seq(S)
    OBVIOUS
  <2> QED  BY <1>1, <2>1, FlattenIs
<1> DEFINE o == [i \in 0 .. N |-> Len(g[i])]
<1>3. o \in [0 .. N -> Nat]
  OBVIOUS
<1>4. o[0] = 0
  <2>1. o[0] = Len(g[0])
    OBVIOUS
  <2> QED  BY <1>1, <2>1 DEF Joined
<1>5. ASSUME NEW i \in 1 .. N
      PROVE  /\ i - 1 \in 0 .. N /\ g[i - 1] \in Seq(S) /\ ss[i] \in Seq(S)
             /\ g[i] = g[i - 1] \o ss[i]
             /\ o[i - 1] = Len(g[i - 1]) /\ o[i] = Len(g[i])
  <2>1. i - 1 \in 0 .. N /\ i \in 0 .. N
    OBVIOUS
  <2>2. g[i] = g[i - 1] \o ss[i]
    BY <1>1 DEF Joined
  <2> QED  BY <2>1, <2>2
<1>6. ASSUME NEW i \in 1 .. N PROVE o[i] = o[i - 1] + Len(ss[i])
  <2> HIDE DEF o
  <2>1. PICK u \in Seq(S), v \in Seq(S) : u = g[i - 1] /\ v = ss[i] /\ g[i] = u \o v
    BY <1>5
  <2>2. Len(u \o v) = Len(u) + Len(v)
    BY ConcatProperties
  <2> QED  BY <1>5, <2>1, <2>2
<1>7. ASSUME NEW n \in 0 .. N PROVE Len(FlattenSeq(SubSeq(ss, 1, n))) = o[n]
  <2> DEFINE h == [i \in 0 .. n |-> g[i]]
             s == [i \in 1 .. n |-> ss[i]]
  <2>1. ss \in Seq(Seq(S)) /\ Len(ss) = N
    OBVIOUS
  <2>2. SubSeq(ss, 1, n) = s
    <3>1. SubSeq(ss, 1, n) \in Seq(Seq(S)) /\ Len(SubSeq(ss, 1, n)) = n
          /\ \A i \in 1 .. n : SubSeq(ss, 1, n)[i] = ss[i]
      <4>1. 1 \in Int /\ n \in Int /\ \A i \in 1 .. n : ss[i] \in Seq(S)
        OBVIOUS
      <4> QED  BY <2>1, <4>1, SubSeqProperties
    <3>2. s \in Seq(Seq(S)) /\ Len(s) = n /\ \A i \in 1 .. n : s[i] = ss[i]
      OBVIOUS
    <3> HIDE DEF s
    <3> QED  BY <3>1, <3>2, SeqEqual
  <2>3. h \in [0 .. n -> Seq(S)] /\ s \in [1 .. n -> Seq(S)]
    OBVIOUS
  <2>4. Joined(h, n, s)
    <3>1. h[0] = <<>>
      BY <1>1 DEF Joined
    <3>2. ASSUME NEW i \in 1 .. n PROVE h[i] = h[i - 1] \o s[i]
      <4>1. i - 1 \in 0 .. n /\ i \in 0 .. n /\ i \in 1 .. N
        OBVIOUS
      <4>2. h[i] = g[i] /\ h[i - 1] = g[i - 1] /\ s[i] = ss[i]
        BY <4>1
      <4> HIDE DEF h, s
      <4> QED  BY <1>5, <4>1, <4>2
    <3> HIDE DEF h, s
    <3> QED  BY <3>1, <3>2 DEF Joined
  <2>5. FlattenSeq(s) = h[n]
    <3>1. n \in Nat
      OBVIOUS
    <3> HIDE DEF h, s
    <3> QED  BY <2>3, <2>4, <3>1, FlattenIs
  <2>6. h[n] = g[n] /\ o[n] = Len(g[n])
    OBVIOUS
  <2> HIDE DEF h, s, o
  <2> QED  BY <2>2, <2>5, <2>6
<1>8. ASSUME NEW i \in 1 .. N, NEW m \in 1 .. Len(ss[i])
      PROVE  g[N][o[i - 1] + m] = ss[i][m]
  <2> HIDE DEF o
  <2> DEFINE p == o[i - 1] + m
             T == {n \in 0 .. N : n >= i => p <= Len(g[n]) /\ g[n][p] = ss[i][m]}
  <2>0. p \in Nat /\ p > 0
    BY <1>3, <1>5
  <2>1. 0 \in T
    OBVIOUS
  <2>2. ASSUME NEW n \in 1 .. N, n - 1 \in T PROVE n \in T
    <3>1. CASE n < i
      BY <3>1
    <3>2. CASE n = i
      <4>1. PICK u \in Seq(S), v \in Seq(S) :
                u = g[i - 1] /\ v = ss[i] /\ g[n] = u \o v /\ p = Len(u) + m
        BY <1>5, <3>2
      <4> HIDE DEF p
      <4>2. Len(u) \in Nat /\ Len(v) \in Nat /\ m \in 1 .. Len(v)
        BY <4>1
      <4>3. Len(u \o v) = Len(u) + Len(v) /\ (u \o v)[Len(u) + m] = v[(Len(u) + m) - Len(u)]
        BY <4>2, ConcatProperties
      <4>4. (Len(u) + m) - Len(u) = m
        BY <4>2
      <4>5. p <= Len(g[n]) /\ g[n][p] = ss[i][m]
        BY <4>1, <4>2, <4>3, <4>4
      <4> QED  BY <4>5
    <3>3. CASE n > i
      <4>1. n - 1 >= i /\ p <= Len(g[n - 1]) /\ g[n - 1][p] = ss[i][m]
        BY <2>2, <3>3
      <4>2. PICK u \in Seq(S), v \in Seq(S) : u = g[n - 1] /\ v = ss[n] /\ g[n] = u \o v
        BY <1>5
      <4> HIDE DEF p
      <4>3. p \in 1 .. Len(u)
        BY <2>0, <4>1, <4>2
      <4>4. Len(u \o v) = Len(u) + Len(v) /\ (u \o v)[p] = u[p]
        BY <4>3, ConcatProperties
      <4>5. Len(u) \in Nat /\ Len(v) \in Nat
        OBVIOUS
      <4>6. p <= Len(g[n]) /\ g[n][p] = ss[i][m]
        BY <2>0, <4>1, <4>2, <4>3, <4>4, <4>5
      <4> QED  BY <4>6
    <3> QED  BY <3>1, <3>2, <3>3
  <2>3. \A n \in 0 .. N : n \in T
    <3> HIDE DEF T
    <3> QED  BY <2>1, <2>2, AllOf
  <2>4. N \in T
    <3> HIDE DEF T
    <3> QED  BY <2>3
  <2> QED  BY <2>4
<1>9. Len(g[N]) = o[N]
  OBVIOUS
<1>10. EndsOf(o, N, ss, FlattenSeq(ss))
  <2> HIDE DEF o
  <2> QED  BY <1>2, <1>3, <1>4, <1>6, <1>7, <1>8, <1>9 DEF EndsOf
<1> QED  BY <1>2, <1>10

\* Every position is in a piece.
InPieces(o, N, ss, d) ==
    \A p \in 1 .. Len(d) : \E i \in 1 .. N : \E m \in 1 .. Len(ss[i]) :
        p = o[i - 1] + m /\ d[p] = ss[i][m]

LEMMA InPiece ==
    ASSUME NEW S, NEW N \in Nat, NEW ss \in [1 .. N -> Seq(S)], NEW o, NEW d,
           EndsOf(o, N, ss, d)
    PROVE  InPieces(o, N, ss, d)
<1> DEFINE T == {n \in 0 .. N : \A p \in 1 .. o[n] : \E i \in 1 .. n :
                     \E m \in 1 .. Len(ss[i]) : p = o[i - 1] + m}
<1>1. \A i \in 0 .. N : o[i] \in Nat
  BY DEF EndsOf
<1>2. 0 \in T
  BY DEF EndsOf
<1>3. ASSUME NEW n \in 1 .. N, n - 1 \in T PROVE n \in T
  <2>1. o[n] = o[n - 1] + Len(ss[n]) /\ o[n - 1] \in Nat /\ Len(ss[n]) \in Nat
    <3>1. n - 1 \in 0 .. N /\ ss[n] \in Seq(S)
      OBVIOUS
    <3>2. o[n] = o[n - 1] + Len(ss[n])
      BY DEF EndsOf
    <3> QED  BY <1>1, <3>1, <3>2
  <2>2. ASSUME NEW p \in 1 .. o[n]
        PROVE  \E i \in 1 .. n : \E m \in 1 .. Len(ss[i]) : p = o[i - 1] + m
    <3>1. CASE p <= o[n - 1]
      <4>1. p \in 1 .. o[n - 1]
        BY <2>1, <3>1
      <4>2. PICK i \in 1 .. n - 1 : \E m \in 1 .. Len(ss[i]) : p = o[i - 1] + m
        BY <1>3, <4>1
      <4> QED  BY <4>2
    <3>2. CASE p > o[n - 1]
      <4>1. p - o[n - 1] \in 1 .. Len(ss[n]) /\ p = o[n - 1] + (p - o[n - 1])
        BY <2>1, <3>2
      <4> QED  BY <4>1
    <3> QED  BY <2>1, <3>1, <3>2
  <2> QED  BY <2>2
<1>4. N \in T
  <2>1. \A n \in 0 .. N : n \in T
    <3> HIDE DEF T
    <3> QED  BY <1>2, <1>3, AllOf
  <2> HIDE DEF T
  <2> QED  BY <2>1
<1>5. ASSUME NEW p \in 1 .. Len(d)
      PROVE  \E i \in 1 .. N : \E m \in 1 .. Len(ss[i]) : p = o[i - 1] + m /\ d[p] = ss[i][m]
  <2>1. p \in 1 .. o[N]
    BY DEF EndsOf
  <2>2. PICK i \in 1 .. N : \E m \in 1 .. Len(ss[i]) : p = o[i - 1] + m
    BY <1>4, <2>1
  <2>3. PICK m \in 1 .. Len(ss[i]) : p = o[i - 1] + m
    BY <2>2
  <2>4. d[p] = ss[i][m]
    BY <2>3 DEF EndsOf
  <2> QED  BY <2>3, <2>4
<1> QED  BY <1>5 DEF InPieces

-----------------------------------------------------------------------------
(* The tracks of a disk.                                                     *)

Rectangle(t, s) == (0 .. t - 1) \X (0 .. s - 1)

\* at goes through tracks, none of them twice.
Walk(at, t, s) == at \in [1 .. t * s -> Rectangle(t, s)] /\ IsInjective(at)

LEMMA SizeIs ==
    ASSUME NEW t \in Nat \ {0}, NEW s \in {1, 2}
    PROVE  t * s \in Nat /\ t * s = IF s = 1 THEN t ELSE t + t
OBVIOUS

LEMMA DivIs ==
    ASSUME NEW t \in Nat \ {0}, NEW a \in 0 .. (t + t) - 1
    PROVE  /\ a < t => a \div t = 0 /\ a % t = a
           /\ a >= t => a \div t = 1 /\ a % t = a - t
OBVIOUS

LEMMA OrderingIs ==
    ASSUME NEW order, NEW t \in Nat \ {0}, NEW s \in {1, 2}
    PROVE  Walk(TrackOrdering(order, t, s), t, s)
<1> DEFINE at == TrackOrdering(order, t, s)
           side(a)  == IF order = "CHS" THEN a % s ELSE a \div t
           track(a) == IF order = "CHS" THEN a \div s ELSE a % t
<1>1. PICK n \in Nat : n = t * s /\ n = IF s = 1 THEN t ELSE t + t
  BY SizeIs
<1>2. at = [i \in 1 .. n |-> <<track(i - 1), side(i - 1)>>]
  BY <1>1 DEF TrackOrdering
<1>3. \A a \in 0 .. n - 1 : track(a) \in 0 .. t - 1 /\ side(a) \in 0 .. s - 1
  <2>1. ASSUME NEW a \in 0 .. n - 1 PROVE track(a) \in 0 .. t - 1 /\ side(a) \in 0 .. s - 1
    <3>1. CASE order = "CHS"
      <4>1. a \div s \in 0 .. t - 1 /\ a % s \in 0 .. s - 1
        <5>1. CASE s = 1
          <6>1. a \div 1 = a /\ a % 1 = 0 /\ a \in 0 .. t - 1
            BY <1>1, <5>1
          <6> QED  BY <5>1, <6>1
        <5>2. CASE s = 2
          <6>1. a \in 0 .. (t + t) - 1
            BY <1>1, <5>2
          <6>2. a \div 2 \in 0 .. t - 1 /\ a % 2 \in 0 .. 1
            BY <6>1
          <6> QED  BY <5>2, <6>2
        <5> QED  BY <5>1, <5>2
      <4> QED  BY <3>1, <4>1
    <3>2. CASE order # "CHS"
      <4>1. a \in 0 .. (t + t) - 1 /\ (s = 1 => a < t)
        BY <1>1
      <4>2. CASE a < t
        <5>1. a \div t = 0 /\ a % t = a
          BY <4>1, <4>2, DivIs
        <5>2. a \in 0 .. t - 1 /\ 0 \in 0 .. s - 1
          BY <4>1, <4>2
        <5> QED  BY <3>2, <5>1, <5>2
      <4>3. CASE ~(a < t)
        <5>1. a \div t = 1 /\ a % t = a - t
          BY <4>1, <4>3, DivIs
        <5>2. a - t \in 0 .. t - 1 /\ 1 \in 0 .. s - 1
          BY <4>1, <4>3
        <5> QED  BY <3>2, <5>1, <5>2
      <4> QED  BY <4>2, <4>3
    <3> QED  BY <3>1, <3>2
  <2> QED  BY <2>1
<1>4. \A a, b \in 0 .. n - 1 : track(a) = track(b) /\ side(a) = side(b) => a = b
  <2>1. ASSUME NEW a \in 0 .. n - 1, NEW b \in 0 .. n - 1, track(a) = track(b), side(a) = side(b)
        PROVE  a = b
    <3>1. CASE order = "CHS"
      BY <1>1, <2>1, <3>1
    <3>2. CASE order # "CHS"
      <4>1. a \in 0 .. (t + t) - 1 /\ b \in 0 .. (t + t) - 1
        BY <1>1
      <4>2. a % t = b % t /\ a \div t = b \div t
        BY <2>1, <3>2
      <4> QED  BY <4>1, <4>2, DivIs
    <3> QED  BY <3>1, <3>2
  <2> QED  BY <2>1
<1> HIDE DEF track, side
<1>5. at \in [1 .. n -> Rectangle(t, s)]
  <2>1. ASSUME NEW i \in 1 .. n PROVE <<track(i - 1), side(i - 1)>> \in Rectangle(t, s)
    <3>1. i - 1 \in 0 .. n - 1
      OBVIOUS
    <3> QED  BY <1>3, <3>1 DEF Rectangle
  <2> HIDE DEF at
  <2> QED  BY <1>2, <2>1
<1>6. IsInjective(at)
  <2>1. ASSUME NEW i \in 1 .. n, NEW j \in 1 .. n, at[i] = at[j] PROVE i = j
    <3> HIDE DEF at
    <3>1. i - 1 \in 0 .. n - 1 /\ j - 1 \in 0 .. n - 1
      OBVIOUS
    <3>2. track(i - 1) = track(j - 1) /\ side(i - 1) = side(j - 1)
      BY <1>2, <2>1
    <3>3. i - 1 = j - 1
      BY <1>4, <3>1, <3>2
    <3> QED  BY <3>3
  <2> HIDE DEF at
  <2> QED  BY <1>5, <2>1 DEF IsInjective
<1> HIDE DEF at
<1>7. Walk(at, t, s)
  BY <1>1, <1>5, <1>6 DEF Walk
<1> QED  BY <1>7 DEF at

LEMMA NsiOrderingIs ==
    ASSUME NEW c, c.tracks \in Nat \ {0}, c.sides \in {1, 2}
    PROVE  Walk(NsiOrdering(c), c.tracks, c.sides)
<1>1. PICK t \in Nat \ {0} : t = c.tracks
  OBVIOUS
<1>2. PICK s \in {1, 2} : s = c.sides
  OBVIOUS
<1>3. PICK n \in Nat : n = t * s /\ n = IF s = 1 THEN t ELSE t + t
  BY SizeIs
<1>4. NsiOrdering(c) = [i \in 1 .. n |-> IF i <= t THEN <<i - 1, 0>> ELSE <<2 * t - i, 1>>]
  BY <1>1, <1>2, <1>3 DEF NsiOrdering
<1>5. ASSUME NEW i \in 1 .. n
      PROVE  (IF i <= t THEN <<i - 1, 0>> ELSE <<2 * t - i, 1>>) \in Rectangle(t, s)
  <2>1. CASE i <= t
    <3>1. i - 1 \in 0 .. t - 1 /\ 0 \in 0 .. s - 1
      BY <2>1
    <3> QED  BY <2>1, <3>1 DEF Rectangle
  <2>2. CASE ~(i <= t)
    <3>1. 2 * t - i \in 0 .. t - 1 /\ 1 \in 0 .. s - 1
      BY <1>3, <2>2
    <3> QED  BY <2>2, <3>1 DEF Rectangle
  <2> QED  BY <2>1, <2>2
<1>6. NsiOrdering(c) \in [1 .. n -> Rectangle(t, s)]
  BY <1>4, <1>5
<1>7. ASSUME NEW i \in 1 .. n, NEW j \in 1 .. n, NsiOrdering(c)[i] = NsiOrdering(c)[j]
      PROVE  i = j
  <2>1. (IF i <= t THEN <<i - 1, 0>> ELSE <<2 * t - i, 1>>)
          = (IF j <= t THEN <<j - 1, 0>> ELSE <<2 * t - j, 1>>)
    BY <1>4, <1>7
  <2> QED  BY <2>1
<1>8. IsInjective(NsiOrdering(c))
  BY <1>6, <1>7 DEF IsInjective
<1> QED  BY <1>1, <1>2, <1>3, <1>6, <1>8 DEF Walk

GoesTo(at, x, y) == \E i \in DOMAIN at : at[i] = <<x, y>>

LEMMA OrderingCovers ==
    ASSUME NEW order, NEW t \in Nat \ {0}, NEW s \in {1, 2},
           NEW x \in 0 .. t - 1, NEW y \in 0 .. s - 1
    PROVE  GoesTo(TrackOrdering(order, t, s), x, y)
<1>1. PICK n \in Nat : n = t * s /\ n = IF s = 1 THEN t ELSE t + t
  BY SizeIs
<1>2. TrackOrdering(order, t, s)
        = [i \in 1 .. n |-> IF order = "CHS" THEN <<(i - 1) \div s, (i - 1) % s>>
                            ELSE <<(i - 1) % t, (i - 1) \div t>>]
  BY <1>1 DEF TrackOrdering
<1>3. CASE order = "CHS"
  <2>1. CASE s = 1
    <3>1. x + 1 \in 1 .. n /\ (x + 1) - 1 = x /\ y = 0
      BY <1>1, <2>1
    <3>2. x \div 1 = x /\ x % 1 = 0
      OBVIOUS
    <3>3. TrackOrdering(order, t, s)[x + 1] = <<x, y>>
      BY <1>2, <1>3, <2>1, <3>1, <3>2
    <3> QED  BY <1>2, <3>1, <3>3 DEF GoesTo
  <2>2. CASE s = 2
    <3>1. PICK a \in Nat : a = x + x + y
      BY <2>2
    <3>2. a + 1 \in 1 .. n /\ (a + 1) - 1 = a
      BY <1>1, <2>2, <3>1
    <3>3. a \div 2 = x /\ a % 2 = y
      BY <2>2, <3>1
    <3>4. TrackOrdering(order, t, s)[a + 1] = <<x, y>>
      BY <1>2, <1>3, <2>2, <3>2, <3>3
    <3> QED  BY <1>2, <3>2, <3>4 DEF GoesTo
  <2> QED  BY <2>1, <2>2
<1>4. CASE order # "CHS"
  <2>1. PICK a \in Nat : a = IF y = 0 THEN x ELSE x + t
    OBVIOUS
  <2>2. a + 1 \in 1 .. n /\ (a + 1) - 1 = a /\ a \in 0 .. (t + t) - 1
    BY <1>1, <2>1
  <2>3. y = 0 \/ y = 1
    OBVIOUS
  <2>4. a \div t = y /\ a % t = x
    <3>1. CASE y = 0
      BY <2>1, <2>2, <3>1, DivIs
    <3>2. CASE y = 1
      <4>1. a >= t /\ a - t = x
        BY <2>1, <3>2
      <4> QED  BY <2>2, <3>2, <4>1, DivIs
    <3> QED  BY <2>3, <3>1, <3>2
  <2>5. TrackOrdering(order, t, s)[a + 1] = <<x, y>>
    BY <1>2, <1>4, <2>2, <2>4
  <2> QED  BY <1>2, <2>2, <2>5 DEF GoesTo
<1> QED  BY <1>3, <1>4

\* The tracks of a file of places, and the sectors of each.
At(c) ==
    IF c.format = "nsi" THEN NsiOrdering(c)
    ELSE TrackOrdering(IF c.format = "img" THEN c.order ELSE "CHS", c.tracks, c.sides)

Secs(c, a) ==
    IF c.format = "img" THEN LogicalSectorOrder(c.entries, a[1], a[2])
    ELSE From0(c.zones[a[1] + 1])

ImageKeys == Nat \X Nat \X Nat

LEMMA Checked ==
    ASSUME NEW c \in Disks, OfPlaces(c)
    PROVE  Seated(c) /\ Laid(c) /\ c.tracks \in Nat \ {0} /\ c.sides \in {1, 2}
BY ImageSectorsAssumption DEF Seated

LEMMA SecsAre ==
    ASSUME NEW c \in Disks, OfPlaces(c), NEW a \in Rectangle(c.tracks, c.sides)
    PROVE  Secs(c, a) \in Seq(Nat) /\ IsInjective(Secs(c, a))
<1>1. Seated(c) /\ c.tracks \in Nat \ {0}
  BY Checked
<1>2. a[1] \in 0 .. c.tracks - 1 /\ a[2] \in 0 .. c.sides - 1
  BY DEF Rectangle
<1>3. CASE c.format = "img"
  <2>1. \A list \in {LogicalSectorOrder(c.entries, a[1], a[2]),
                     FilesystemSectorOrder(c.entries, a[1], a[2])} :
            list \in Seq(Nat) /\ IsInjective(list)
    BY <1>1, <1>2 DEF Seated
  <2> QED  BY <1>3, <2>1 DEF Secs
<1>4. CASE c.format # "img"
  <2>1. PICK n \in Nat : n = c.zones[a[1] + 1]
    <3>1. a[1] + 1 \in 1 .. c.tracks
      BY <1>1, <1>2
    <3> QED  BY <1>1, <1>4, <3>1 DEF Seated
  <2>2. Secs(c, a) = [i \in 1 .. n |-> i - 1]
    BY <1>4, <2>1 DEF Secs, From0
  <2>3. \A i, j \in 1 .. n : i - 1 = j - 1 => i = j
    OBVIOUS
  <2>4. [i \in 1 .. n |-> i - 1] \in Seq(Nat)
    OBVIOUS
  <2>5. IsInjective([i \in 1 .. n |-> i - 1])
    BY <2>3 DEF IsInjective
  <2> QED  BY <2>2, <2>4, <2>5
<1> QED  BY <1>3, <1>4

LEMMA AtIs ==
    ASSUME NEW c \in Disks, OfPlaces(c)
    PROVE  Walk(At(c), c.tracks, c.sides)
<1>1. c.tracks \in Nat \ {0} /\ c.sides \in {1, 2}
  BY Checked
<1>2. CASE c.format = "nsi"
  BY <1>1, <1>2, NsiOrderingIs DEF At
<1>3. CASE c.format # "nsi"
  BY <1>1, <1>3, OrderingIs DEF At
<1> QED  BY <1>2, <1>3

Track(c, a) == OnTrack(a, Secs(c, a))

LEMMA TracksAre ==
    ASSUME NEW c \in Disks, OfPlaces(c)
    PROVE  /\ TracksOfFile[c] = [i \in DOMAIN At(c) |-> Track(c, At(c)[i])]
           /\ Places[c] = FlattenSeq(TracksOfFile[c])
<1>1. TracksOfFile[c] = TracksIn(c) /\ Places[c] = FlattenSeq(TracksIn(c))
  BY DEF TracksOfFile, Places
<1>2. CASE c.format = "img"
  BY <1>1, <1>2 DEF TracksIn, At, Track, Secs, ImgTrack, Ordering
<1>3. CASE c.format = "nsi"
  BY <1>1, <1>3 DEF TracksIn, At, Track, Secs, D64Track
<1>4. CASE c.format \in {"d64", "diskcopy"}
  BY <1>1, <1>4 DEF TracksIn, At, Track, Secs, D64Track
<1> QED  BY <1>1, <1>2, <1>3, <1>4 DEF OfPlaces

LEMMA TrackIs ==
    ASSUME NEW c \in Disks, OfPlaces(c), NEW a \in Rectangle(c.tracks, c.sides)
    PROVE  /\ Track(c, a) \in Seq(ImageKeys) /\ Len(Track(c, a)) = Len(Secs(c, a))
           /\ \A m \in 1 .. Len(Secs(c, a)) : Track(c, a)[m] = <<a[1], a[2], Secs(c, a)[m]>>
<1>1. PICK q \in Seq(Nat) : q = Secs(c, a)
  BY SecsAre
<1>2. a[1] \in Nat /\ a[2] \in Nat
  BY DEF Rectangle
<1>3. Track(c, a) = [i \in 1 .. Len(q) |-> <<a[1], a[2], q[i]>>]
  BY <1>1 DEF Track, OnTrack
<1>4. \A i \in 1 .. Len(q) : <<a[1], a[2], q[i]>> \in ImageKeys
  BY <1>2 DEF ImageKeys
<1> QED  BY <1>1, <1>3, <1>4

\* Where a place is: the m-th sector of the i-th track.
Seat(c, o, p, i, m) ==
    /\ i \in DOMAIN At(c) /\ At(c)[i] \in Rectangle(c.tracks, c.sides)
    /\ m \in 1 .. Len(Secs(c, At(c)[i])) /\ p = o[i - 1] + m
    /\ Places[c][p] = <<At(c)[i][1], At(c)[i][2], Secs(c, At(c)[i])[m]>>

LEMMA PlacesAre ==
    ASSUME NEW c \in Disks, OfPlaces(c)
    PROVE  /\ Places[c] \in Seq(ImageKeys)
           /\ \E o : /\ EndsOf(o, c.tracks * c.sides, TracksOfFile[c], Places[c])
                     /\ \A p \in 1 .. Len(Places[c]) : \E i, m : Seat(c, o, p, i, m)
           /\ c.tracks * c.sides \in Nat /\ DOMAIN TracksOfFile[c] = 1 .. c.tracks * c.sides
<1>1. PICK t \in Nat \ {0} : t = c.tracks
  BY Checked
<1>2. PICK s \in {1, 2} : s = c.sides
  BY Checked
<1>3. PICK n \in Nat : n = t * s
  BY SizeIs
<1>4. n = c.tracks * c.sides
  BY <1>1, <1>2, <1>3
<1> DEFINE at == At(c)
           ss == TracksOfFile[c]
<1>5. at \in [1 .. n -> Rectangle(c.tracks, c.sides)]
  BY <1>4, AtIs DEF Walk
<1>6. ss = [i \in 1 .. n |-> Track(c, at[i])] /\ Places[c] = FlattenSeq(ss)
  BY <1>5, TracksAre
<1> HIDE DEF at, ss
<1>7. ss \in [1 .. n -> Seq(ImageKeys)]
  BY <1>5, <1>6, TrackIs
<1>8. FlattenSeq(ss) \in Seq(ImageKeys) /\ \E o : EndsOf(o, n, ss, FlattenSeq(ss))
  BY <1>7, FlattenEnds
<1>9. PICK o : EndsOf(o, n, ss, Places[c])
  BY <1>6, <1>8
<1>10. ASSUME NEW p \in 1 .. Len(Places[c]) PROVE \E i, m : Seat(c, o, p, i, m)
  <2>1. PICK i \in 1 .. n : \E m \in 1 .. Len(ss[i]) : p = o[i - 1] + m /\ Places[c][p] = ss[i][m]
    <3>1. InPieces(o, n, ss, Places[c])
      BY <1>7, <1>9, InPiece
    <3> QED  BY <3>1 DEF InPieces
  <2>2. PICK m \in 1 .. Len(ss[i]) : p = o[i - 1] + m /\ Places[c][p] = ss[i][m]
    BY <2>1
  <2>3. at[i] \in Rectangle(c.tracks, c.sides) /\ ss[i] = Track(c, at[i])
    BY <1>5, <1>6
  <2>4. Len(ss[i]) = Len(Secs(c, at[i])) /\ ss[i][m] = <<at[i][1], at[i][2], Secs(c, at[i])[m]>>
    BY <2>2, <2>3, TrackIs
  <2>5. Seat(c, o, p, i, m)
    BY <1>5, <2>1, <2>2, <2>3, <2>4 DEF Seat, at
  <2> QED  BY <2>5
<1>11. DOMAIN ss = 1 .. n
  BY <1>7
<1> QED  BY <1>4, <1>6, <1>8, <1>9, <1>10, <1>11 DEF ss

LEMMA PlacesOnce ==
    ASSUME NEW c \in Disks, OfPlaces(c)
    PROVE  IsInjective(Places[c])
<1>1. PICK o : /\ EndsOf(o, c.tracks * c.sides, TracksOfFile[c], Places[c])
               /\ \A p \in 1 .. Len(Places[c]) : \E i, m : Seat(c, o, p, i, m)
  BY PlacesAre
<1>2. ASSUME NEW p \in 1 .. Len(Places[c]), NEW q \in 1 .. Len(Places[c]), Places[c][p] = Places[c][q]
      PROVE  p = q
  <2>1. PICK i, m : Seat(c, o, p, i, m)
    BY <1>1
  <2>2. PICK j, k : Seat(c, o, q, j, k)
    BY <1>1
  <2>3. At(c)[i] = At(c)[j]
    <3>1. At(c)[i][1] = At(c)[j][1] /\ At(c)[i][2] = At(c)[j][2]
      BY <1>2, <2>1, <2>2 DEF Seat
    <3>2. At(c)[i] \in Rectangle(c.tracks, c.sides) /\ At(c)[j] \in Rectangle(c.tracks, c.sides)
      BY <2>1, <2>2 DEF Seat
    <3> QED  BY <3>1, <3>2 DEF Rectangle
  <2>4. i = j
    <3>1. IsInjective(At(c)) /\ i \in DOMAIN At(c) /\ j \in DOMAIN At(c)
      BY <2>1, <2>2, AtIs DEF Walk, Seat
    <3> QED  BY <2>3, <3>1 DEF IsInjective
  <2>5. PICK e \in Seq(Nat) : e = Secs(c, At(c)[i]) /\ IsInjective(e)
    <3>1. At(c)[i] \in Rectangle(c.tracks, c.sides)
      BY <2>1 DEF Seat
    <3> QED  BY <3>1, SecsAre
  <2>6. m \in 1 .. Len(e) /\ k \in 1 .. Len(e) /\ e[m] = e[k]
    BY <1>2, <2>1, <2>2, <2>4, <2>5 DEF Seat
  <2>7. m = k
    BY <2>5, <2>6 DEF IsInjective
  <2> QED  BY <2>1, <2>2, <2>4, <2>7 DEF Seat
<1>3. DOMAIN Places[c] = 1 .. Len(Places[c])
  BY PlacesAre
<1> QED  BY <1>2, <1>3 DEF IsInjective

-----------------------------------------------------------------------------
(* The names a client has for the places.                                    *)

LEMMA MappedIs ==
    ASSUME NEW from \in Seq(Nat), IsInjective(from), NEW to, NEW k \in 1 .. Len(from)
    PROVE  Mapped(from, to, from[k]) = to[k]
<1> DEFINE R(i) == from[i] = from[k] /\ \A j \in DOMAIN from : from[j] = from[k] => j <= i
           i0 == CHOOSE i \in DOMAIN from : R(i)
<1>1. DOMAIN from = 1 .. Len(from)
  OBVIOUS
<1>2. \A j \in DOMAIN from : from[j] = from[k] => j = k
  BY <1>1 DEF IsInjective
<1>3. R(k)
  BY <1>1, <1>2
<1>4. i0 \in DOMAIN from /\ R(i0)
  <2> HIDE DEF R
  <2> QED  BY <1>1, <1>3
<1>5. i0 = k
  BY <1>2, <1>4
<1>6. Mapped(from, to, from[k]) = to[i0]
  BY DEF Mapped
<1> QED  BY <1>5, <1>6

ClientKeys(c) == [i \in DOMAIN Places[c] |-> ClientKey(c, Places[c][i])]

\* The way back.
PlaceKey(c, key) ==
    IF c.filesystemSectorOrder
    THEN <<key[1], key[2], LogicalToFilesystem(c.entries, key[1], key[2], key[3])>>
    ELSE key

LEMMA OrdersAre ==
    ASSUME NEW c \in Disks, OfPlaces(c), NEW a \in Rectangle(c.tracks, c.sides)
    PROVE  LET lo == LogicalSectorOrder(c.entries, a[1], a[2])
               fo == FilesystemSectorOrder(c.entries, a[1], a[2])
           IN  /\ lo \in Seq(Nat) /\ fo \in Seq(Nat) /\ Len(lo) = Len(fo)
               /\ IsInjective(lo) /\ IsInjective(fo)
<1>1. Seated(c) /\ Laid(c) /\ c.tracks \in Nat \ {0} /\ c.sides \in {1, 2}
  BY Checked
<1>2. PICK x \in 0 .. c.tracks - 1, y \in 0 .. c.sides - 1 : a = <<x, y>>
  BY DEF Rectangle
<1>3. PICK i \in DOMAIN Ordering(c) : Ordering(c)[i] = <<x, y>>
  <2>1. PICK t \in Nat \ {0} : t = c.tracks
    BY <1>1
  <2>2. PICK s \in {1, 2} : s = c.sides
    BY <1>1
  <2>3. GoesTo(TrackOrdering(c.order, t, s), x, y)
    BY <2>1, <2>2, OrderingCovers
  <2> QED  BY <2>1, <2>2, <2>3 DEF Ordering, GoesTo
<1>4. LaidOut(c.entries, x, y)
  BY <1>1, <1>3 DEF Laid
<1>5. Len(FilesystemSectorOrder(c.entries, x, y)) = Len(LogicalSectorOrder(c.entries, x, y))
  BY <1>4 DEF LaidOut
<1>6. \A list \in {LogicalSectorOrder(c.entries, x, y), FilesystemSectorOrder(c.entries, x, y)} :
          list \in Seq(Nat) /\ IsInjective(list)
  BY <1>1 DEF Seated
<1> QED  BY <1>2, <1>5, <1>6

\* A place's sector is the k-th of both orders of its track, if they are used.
LEMMA ClientKeyIs ==
    ASSUME NEW c \in Disks, OfPlaces(c), c.filesystemSectorOrder, NEW p \in 1 .. Len(Places[c])
    PROVE  LET key == Places[c][p]
               lo == LogicalSectorOrder(c.entries, key[1], key[2])
               fo == FilesystemSectorOrder(c.entries, key[1], key[2])
           IN  \E k \in 1 .. Len(lo) :
                   /\ k \in 1 .. Len(fo)
                   /\ key = <<key[1], key[2], lo[k]>>
                   /\ ClientKey(c, key) = <<key[1], key[2], fo[k]>>
<1>1. PICK key \in ImageKeys : key = Places[c][p]
  BY PlacesAre
<1>2. <<key[1], key[2]>> \in Rectangle(c.tracks, c.sides)
  <2>1. PICK o, i, m : Seat(c, o, p, i, m)
    BY PlacesAre
  <2> QED  BY <1>1, <2>1 DEF Seat, Rectangle
<1>3. PICK lo \in Seq(Nat), fo \in Seq(Nat) :
          /\ lo = LogicalSectorOrder(c.entries, key[1], key[2])
          /\ fo = FilesystemSectorOrder(c.entries, key[1], key[2])
          /\ Len(lo) = Len(fo) /\ IsInjective(lo) /\ IsInjective(fo)
  BY <1>2, OrdersAre
<1>4. key[3] \in Range(lo)
  <2>1. key \in Range(Places[c])
    <3>1. p \in DOMAIN Places[c]
      BY PlacesAre
    <3> QED  BY <1>1, <3>1 DEF Range
  <2> QED  BY <1>3, <2>1, Checked DEF Seated
<1>5. PICK k \in 1 .. Len(lo) : key[3] = lo[k]
  <2>1. DOMAIN lo = 1 .. Len(lo)
    OBVIOUS
  <2> QED  BY <1>4, <2>1 DEF Range
<1>6. Mapped(lo, fo, lo[k]) = fo[k]
  BY <1>3, MappedIs
<1>7. ClientKey(c, key) = <<key[1], key[2], fo[k]>>
  BY <1>3, <1>5, <1>6 DEF ClientKey, FilesystemToLogical
<1>8. key = <<key[1], key[2], lo[k]>>
  BY <1>5 DEF ImageKeys
<1> QED  BY <1>1, <1>3, <1>5, <1>7, <1>8

LEMMA ClientKeysAre ==
    ASSUME NEW c \in Disks, OfPlaces(c)
    PROVE  /\ ClientKeys(c) \in Seq(ImageKeys) /\ Len(ClientKeys(c)) = Len(Places[c])
           /\ \A p \in 1 .. Len(Places[c]) :
                  /\ ClientKeys(c)[p] = ClientKey(c, Places[c][p])
                  /\ PlaceKey(c, ClientKeys(c)[p]) = Places[c][p]
                  /\ ClientKeys(c)[p][1] = Places[c][p][1]
                  /\ ClientKeys(c)[p][2] = Places[c][p][2]
<1>1. PICK P \in Seq(ImageKeys) : P = Places[c]
  BY PlacesAre
<1>2. ClientKeys(c) = [i \in 1 .. Len(P) |-> ClientKey(c, P[i])]
  BY <1>1 DEF ClientKeys
<1>3. ASSUME NEW p \in 1 .. Len(P)
      PROVE  /\ ClientKey(c, P[p]) \in ImageKeys
             /\ PlaceKey(c, ClientKey(c, P[p])) = P[p]
             /\ ClientKey(c, P[p])[1] = P[p][1] /\ ClientKey(c, P[p])[2] = P[p][2]
  <2>1. PICK key \in ImageKeys : key = P[p]
    OBVIOUS
  <2>2. CASE ~c.filesystemSectorOrder
    BY <2>1, <2>2 DEF ClientKey, PlaceKey
  <2>3. CASE c.filesystemSectorOrder
    <3>1. PICK k : LET lo == LogicalSectorOrder(c.entries, key[1], key[2])
                       fo == FilesystemSectorOrder(c.entries, key[1], key[2])
                   IN  /\ k \in 1 .. Len(lo) /\ k \in 1 .. Len(fo)
                       /\ key = <<key[1], key[2], lo[k]>>
                       /\ ClientKey(c, key) = <<key[1], key[2], fo[k]>>
      BY <1>1, <2>1, <2>3, ClientKeyIs
    <3>2. <<key[1], key[2]>> \in Rectangle(c.tracks, c.sides)
      <4>1. PICK o, i, m : Seat(c, o, p, i, m)
        BY <1>1, PlacesAre
      <4> QED  BY <1>1, <2>1, <4>1 DEF Seat, Rectangle
    <3>3. PICK lo \in Seq(Nat), fo \in Seq(Nat) :
              /\ lo = LogicalSectorOrder(c.entries, key[1], key[2])
              /\ fo = FilesystemSectorOrder(c.entries, key[1], key[2])
              /\ Len(lo) = Len(fo) /\ IsInjective(lo) /\ IsInjective(fo)
      BY <3>2, OrdersAre
    <3>4. /\ k \in 1 .. Len(lo) /\ k \in 1 .. Len(fo)
          /\ key = <<key[1], key[2], lo[k]>>
          /\ ClientKey(c, key) = <<key[1], key[2], fo[k]>>
      BY <3>1, <3>3
    <3>5. key[1] \in Nat /\ key[2] \in Nat /\ fo[k] \in Nat
      <4>1. key \in Nat \X Nat \X Nat
        BY <2>1 DEF ImageKeys
      <4>2. key[1] \in Nat /\ key[2] \in Nat
        BY <4>1
      <4>3. fo[k] \in Nat
        BY <3>3, <3>4
      <4> QED  BY <4>2, <4>3
    <3>6. Mapped(fo, lo, fo[k]) = lo[k]
      BY <3>3, <3>4, MappedIs
    <3>7. PlaceKey(c, <<key[1], key[2], fo[k]>>) = <<key[1], key[2], lo[k]>>
      BY <2>3, <3>3, <3>6 DEF PlaceKey, LogicalToFilesystem
    <3>8. <<key[1], key[2], fo[k]>> \in ImageKeys
      BY <3>5 DEF ImageKeys
    <3>9. /\ ClientKey(c, key) \in ImageKeys /\ PlaceKey(c, ClientKey(c, key)) = key
          /\ ClientKey(c, key)[1] = key[1] /\ ClientKey(c, key)[2] = key[2]
      <4>1. PICK name : name = <<key[1], key[2], fo[k]>>
        OBVIOUS
      <4>2. ClientKey(c, key) = name /\ name \in ImageKeys /\ name[1] = key[1] /\ name[2] = key[2]
        BY <3>4, <3>8, <4>1
      <4>3. PlaceKey(c, name) = key
        BY <3>4, <3>7, <4>1
      <4> QED  BY <4>2, <4>3
    <3> QED  BY <2>1, <3>9
  <2> QED  BY <2>2, <2>3
<1> QED  BY <1>1, <1>2, <1>3

LEMMA ClientKeysOnce ==
    ASSUME NEW c \in Disks, OfPlaces(c), NEW p \in 1 .. Len(Places[c]),
           NEW q \in 1 .. Len(Places[c]), ClientKeys(c)[p] = ClientKeys(c)[q]
    PROVE  p = q
<1>1. Places[c][p] = Places[c][q]
  BY ClientKeysAre
<1>2. DOMAIN Places[c] = 1 .. Len(Places[c])
  BY PlacesAre
<1> QED  BY <1>1, <1>2, PlacesOnce DEF IsInjective

\* A client's sectors all have places.
LEMMA BlocksPlaced ==
    ASSUME NEW c \in Disks, OfPlaces(c), NEW l \in Range(Blocks[c])
    PROVE  \E p \in 1 .. Len(Places[c]) : l = ClientKeys(c)[p]
<1>1. PICK key \in Range(Places[c]) : l = ClientKey(c, key)
  BY Checked DEF Seated
<1>2. PICK p \in 1 .. Len(Places[c]) : key = Places[c][p]
  <2>1. DOMAIN Places[c] = 1 .. Len(Places[c])
    BY PlacesAre
  <2> QED  BY <2>1 DEF Range
<1> QED  BY <1>1, <1>2, ClientKeysAre

-----------------------------------------------------------------------------
(* Reading a file of places.                                                 *)

LEMMA EndsGrow ==
    ASSUME NEW N \in Nat, NEW ss, NEW o, NEW d, EndsOf(o, N, ss, d),
           \A i \in 1 .. N : Len(ss[i]) \in Nat, NEW i \in 1 .. N
    PROVE  o[i] <= o[N]
<1> DEFINE T == {n \in 0 .. N : n >= i => o[i] <= o[n]}
<1>1. 0 \in T
  OBVIOUS
<1>2. ASSUME NEW n \in 1 .. N, n - 1 \in T PROVE n \in T
  <2>1. o[n - 1] \in Nat /\ o[n] \in Nat /\ o[n] = o[n - 1] + Len(ss[n]) /\ Len(ss[n]) \in Nat
    <3>1. n - 1 \in 0 .. N /\ n \in 0 .. N
      OBVIOUS
    <3> QED  BY <3>1 DEF EndsOf
  <2>2. CASE n <= i
    BY <2>1, <2>2
  <2>3. CASE n > i
    <3>1. o[i] <= o[n - 1] /\ o[i] \in Nat
      BY <1>2, <2>3 DEF EndsOf
    <3> QED  BY <2>1, <3>1
  <2> QED  BY <2>2, <2>3
<1>3. N \in T
  <2>1. \A n \in 0 .. N : n \in T
    <3> HIDE DEF T
    <3> QED  BY <1>1, <1>2, AllOf
  <2> HIDE DEF T
  <2> QED  BY <2>1
<1> QED  BY <1>3

\* The keys, and the places, a reader finds in a file of n sectors.
KeysRead(c, n) ==
    IF c.format = "img"
    THEN UNION {Range(TracksOfFile[c][i]) :
                    i \in {i \in DOMAIN TracksOfFile[c] :
                               Len(FlattenSeq(SubSeq(TracksOfFile[c], 1, i - 1))) <= n}}
    ELSE Range(Places[c])

Reached(c, n) == {p \in 1 .. Len(Places[c]) : Places[c][p] \in KeysRead(c, n)}

LEMMA KeysReadAre ==
    ASSUME NEW c \in Disks, OfPlaces(c), NEW n \in Nat, NEW key \in KeysRead(c, n)
    PROVE  \E p \in Reached(c, n) : key = Places[c][p]
<1>1. SUFFICES \E p \in 1 .. Len(Places[c]) : key = Places[c][p]
  BY DEF Reached
<1>2. CASE c.format # "img"
  <2>1. key \in Range(Places[c]) /\ DOMAIN Places[c] = 1 .. Len(Places[c])
    BY <1>2, PlacesAre DEF KeysRead
  <2> QED  BY <2>1 DEF Range
<1>3. CASE c.format = "img"
  <2>1. PICK o : EndsOf(o, c.tracks * c.sides, TracksOfFile[c], Places[c])
    BY PlacesAre
  <2>2. PICK N \in Nat : N = c.tracks * c.sides
    BY PlacesAre
  <2>3. PICK i \in DOMAIN TracksOfFile[c] : key \in Range(TracksOfFile[c][i])
    BY <1>3 DEF KeysRead
  <2>4. i \in 1 .. N
    BY <2>2, PlacesAre
  <2>5. \A j \in 1 .. N : TracksOfFile[c][j] \in Seq(ImageKeys)
    <3>1. At(c) \in [1 .. N -> Rectangle(c.tracks, c.sides)]
      BY <2>2, AtIs DEF Walk
    <3>2. TracksOfFile[c] = [j \in 1 .. N |-> Track(c, At(c)[j])]
      BY <3>1, TracksAre
    <3>3. ASSUME NEW j \in 1 .. N PROVE TracksOfFile[c][j] \in Seq(ImageKeys)
      <4>1. PICK a \in Rectangle(c.tracks, c.sides) : a = At(c)[j]
        BY <3>1
      <4>2. Track(c, a) \in Seq(ImageKeys)
        BY TrackIs
      <4> QED  BY <3>2, <4>1, <4>2
    <3> QED  BY <3>3
  <2>6. PICK m \in 1 .. Len(TracksOfFile[c][i]) : key = TracksOfFile[c][i][m]
    <3>1. PICK s \in Seq(ImageKeys) : s = TracksOfFile[c][i]
      BY <2>4, <2>5
    <3>2. key \in Range(s)
      BY <2>3, <3>1
    <3> QED  BY <3>1, <3>2 DEF Range
  <2>7. Places[c][o[i - 1] + m] = key
    BY <2>1, <2>2, <2>4, <2>6 DEF EndsOf
  <2>8. o[i - 1] + m \in 1 .. Len(Places[c])
    <3>1. \A j \in 1 .. N : Len(TracksOfFile[c][j]) \in Nat
      BY <2>5
    <3>2. EndsOf(o, N, TracksOfFile[c], Places[c])
      BY <2>1, <2>2
    <3>3. o[i] <= o[N]
      BY <2>4, <3>1, <3>2, EndsGrow
    <3>4. i - 1 \in 0 .. N /\ i \in 0 .. N /\ N \in 0 .. N
      BY <2>4
    <3>5. /\ o[i] = o[i - 1] + Len(TracksOfFile[c][i])
          /\ o[i - 1] \in Nat /\ o[i] \in Nat /\ o[N] \in Nat /\ o[N] = Len(Places[c])
      BY <2>4, <3>2, <3>4 DEF EndsOf
    <3>6. Len(TracksOfFile[c][i]) \in Nat
      BY <2>4, <3>1
    <3> QED  BY <3>3, <3>5, <3>6
  <2> QED  BY <2>7, <2>8
<1> QED  BY <1>2, <1>3

\* What is in the file is read, and more of a longer one.
LEMMA ReachedIs ==
    ASSUME NEW c \in Disks, OfPlaces(c), NEW n \in Nat
    PROVE  /\ \A p \in 1 .. Len(Places[c]) : p <= n => p \in Reached(c, n)
           /\ \A k \in Nat : k <= n => Reached(c, k) \subseteq Reached(c, n)
           /\ c.format # "img" => Reached(c, n) = 1 .. Len(Places[c])
<1>1. ASSUME NEW k \in Nat, k <= n PROVE KeysRead(c, k) \subseteq KeysRead(c, n)
  <2>1. CASE c.format # "img"
    BY <2>1 DEF KeysRead
  <2>2. CASE c.format = "img"
    <3>1. PICK o : EndsOf(o, c.tracks * c.sides, TracksOfFile[c], Places[c])
      BY PlacesAre
    <3>2. ASSUME NEW i \in DOMAIN TracksOfFile[c]
          PROVE  Len(FlattenSeq(SubSeq(TracksOfFile[c], 1, i - 1))) \in Nat
      <4>1. PICK N \in Nat : N = c.tracks * c.sides
        BY PlacesAre
      <4>2. i - 1 \in 0 .. N
        BY <4>1, PlacesAre
      <4> QED  BY <3>1, <4>1, <4>2 DEF EndsOf
    <3>3. \A i \in DOMAIN TracksOfFile[c] :
              Len(FlattenSeq(SubSeq(TracksOfFile[c], 1, i - 1))) <= k
                  => Len(FlattenSeq(SubSeq(TracksOfFile[c], 1, i - 1))) <= n
      BY <1>1, <3>2
    <3> QED  BY <2>2, <3>3 DEF KeysRead
  <2> QED  BY <2>1, <2>2
<1>2. CASE c.format # "img"
  <2>1. DOMAIN Places[c] = 1 .. Len(Places[c])
    BY PlacesAre
  <2>2. \A p \in 1 .. Len(Places[c]) : Places[c][p] \in KeysRead(c, n)
    BY <1>2, <2>1 DEF KeysRead, Range
  <2> QED  BY <1>1, <2>2 DEF Reached
<1>3. CASE c.format = "img"
  <2>1. PICK o : /\ EndsOf(o, c.tracks * c.sides, TracksOfFile[c], Places[c])
                 /\ \A p \in 1 .. Len(Places[c]) : \E i, m : Seat(c, o, p, i, m)
    BY PlacesAre
  <2>2. PICK N \in Nat : N = c.tracks * c.sides
    BY PlacesAre
  <2>3. ASSUME NEW p \in 1 .. Len(Places[c]), p <= n PROVE Places[c][p] \in KeysRead(c, n)
    <3>1. PICK i, m : Seat(c, o, p, i, m)
      BY <2>1
    <3>2. i \in 1 .. N
      BY <2>2, <3>1, AtIs DEF Seat, Walk
    <3>3. i \in DOMAIN TracksOfFile[c]
      BY <2>2, <3>2, PlacesAre
    <3>4. PICK q : q = Secs(c, At(c)[i]) /\ q \in Seq(Nat)
      BY <3>1, SecsAre DEF Seat
    <3>5. m \in 1 .. Len(q) /\ p = o[i - 1] + m
      BY <3>1, <3>4 DEF Seat
    <3>6. i - 1 \in 0 .. N
      BY <3>2
    <3>7. o[i - 1] \in Nat /\ Len(FlattenSeq(SubSeq(TracksOfFile[c], 1, i - 1))) = o[i - 1]
      BY <2>1, <2>2, <3>6 DEF EndsOf
    <3>8. o[i - 1] <= n
      BY <2>3, <3>5, <3>7
    <3>9. Places[c][p] \in Range(TracksOfFile[c][i])
      <4>1. TracksOfFile[c][i] = Track(c, At(c)[i])
        BY <3>1, TracksAre DEF Seat
      <4>2. PICK s \in Seq(ImageKeys) : s = TracksOfFile[c][i] /\ m \in 1 .. Len(s) /\ s[m] = Places[c][p]
        BY <3>1, <4>1, TrackIs DEF Seat
      <4>3. s[m] \in Range(s)
        BY <4>2 DEF Range
      <4> QED  BY <4>2, <4>3
    <3> QED  BY <1>3, <3>3, <3>7, <3>8, <3>9 DEF KeysRead
  <2> QED  BY <1>1, <1>3, <2>3 DEF Reached
<1> QED  BY <1>2, <1>3

\* The sector read at a place.
SectorAt(c, file_, p) ==
    IF p <= Len(file_) THEN Sector("OK", file_[p])
    ELSE IF c.format = "d64" THEN Sector("DATA_MISSING", NoData)
    ELSE Sector("OK", Zeros)

\* The image has these sectors at the places reached, and no others.
Holds(c, i, keys, file_) ==
    /\ \A p \in Reached(c, Len(file_)) : keys[p] \in DOMAIN i /\ i[keys[p]] = SectorAt(c, file_, p)
    /\ \A key \in DOMAIN i : \E p \in Reached(c, Len(file_)) : key = keys[p]

LEMMA ReadPlacesIs ==
    ASSUME NEW c \in Disks, OfPlaces(c), NEW S, NEW f \in Seq(S)
    PROVE  Holds(c, ReadPlaces(c, f), Places[c], f)
<1> DEFINE Place(key) == CHOOSE i \in DOMAIN Places[c] : Places[c][i] = key
           i == ReadPlaces(c, f)
<1>0. Len(f) \in Nat
  OBVIOUS
<1>1. i = [key \in KeysRead(c, Len(f)) |->
              IF Place(key) <= Len(f) THEN Sector("OK", f[Place(key)])
              ELSE IF c.format = "d64" THEN Sector("DATA_MISSING", NoData)
              ELSE Sector("OK", Zeros)]
  BY DEF ReadPlaces, KeysRead, ImgTracksRead
<1>2. ASSUME NEW p \in Reached(c, Len(f))
      PROVE  Places[c][p] \in DOMAIN i /\ i[Places[c][p]] = SectorAt(c, f, p)
  <2>1. p \in 1 .. Len(Places[c]) /\ Places[c][p] \in KeysRead(c, Len(f))
    BY DEF Reached
  <2>2. p \in DOMAIN Places[c]
    BY <2>1, PlacesAre
  <2>3. Place(Places[c][p]) \in DOMAIN Places[c] /\ Places[c][Place(Places[c][p])] = Places[c][p]
    BY <2>2
  <2>4. Place(Places[c][p]) = p
    BY <2>2, <2>3, PlacesOnce DEF IsInjective
  <2> HIDE DEF Place, i
  <2> QED  BY <1>1, <2>1, <2>4 DEF SectorAt
<1>3. ASSUME NEW key \in DOMAIN i PROVE \E p \in Reached(c, Len(f)) : key = Places[c][p]
  <2>1. key \in KeysRead(c, Len(f))
    <3> HIDE DEF Place, i
    <3> QED  BY <1>1
  <2> QED  BY <1>0, <2>1, KeysReadAre
<1> HIDE DEF i
<1>4. Holds(c, i, Places[c], f)
  BY <1>2, <1>3 DEF Holds
<1> QED  BY <1>4 DEF i

LEMMA ReadIs ==
    ASSUME NEW c \in Disks, OfPlaces(c), NEW S, NEW f \in Seq(S)
    PROVE  Holds(c, ReadMappedImage(c, f), ClientKeys(c), f)
<1>1. ReadImage(c, f) = ReadPlaces(c, f)
  BY DEF ReadImage, OfPlaces
<1>2. PICK r : r = ReadPlaces(c, f)
  OBVIOUS
<1>3. Holds(c, r, Places[c], f)
  BY <1>2, ReadPlacesIs
<1>4. \A p \in Reached(c, Len(f)) : p \in 1 .. Len(Places[c])
  BY DEF Reached
<1>5. CASE ~c.filesystemSectorOrder
  <2>1. ReadMappedImage(c, f) = r
    BY <1>1, <1>2, <1>5 DEF ReadMappedImage
  <2>2. \A p \in 1 .. Len(Places[c]) : ClientKeys(c)[p] = Places[c][p]
    BY <1>5, ClientKeysAre DEF ClientKey
  <2> QED  BY <1>3, <1>4, <2>1, <2>2 DEF Holds
<1>6. CASE c.filesystemSectorOrder
  <2> DEFINE W(key) == CHOOSE k \in DOMAIN r : ClientKey(c, k) = key
             m == [key \in {ClientKey(c, k) : k \in DOMAIN r} |-> r[W(key)]]
  <2>1. ReadMappedImage(c, f) = m
    BY <1>1, <1>2, <1>6 DEF ReadMappedImage, Renumbered, ClientKey
  <2>2. \A k \in DOMAIN r : \E p \in Reached(c, Len(f)) : k = Places[c][p]
    BY <1>3 DEF Holds
  <2>3. ASSUME NEW p \in Reached(c, Len(f))
        PROVE  ClientKeys(c)[p] \in DOMAIN m /\ m[ClientKeys(c)[p]] = SectorAt(c, f, p)
    <3>1. p \in 1 .. Len(Places[c]) /\ ClientKeys(c)[p] = ClientKey(c, Places[c][p])
      BY <1>4, ClientKeysAre
    <3>2. Places[c][p] \in DOMAIN r /\ r[Places[c][p]] = SectorAt(c, f, p)
      BY <1>3 DEF Holds
    <3>3. W(ClientKeys(c)[p]) \in DOMAIN r /\ ClientKey(c, W(ClientKeys(c)[p])) = ClientKeys(c)[p]
      BY <3>1, <3>2
    <3>4. PICK q \in Reached(c, Len(f)) : W(ClientKeys(c)[p]) = Places[c][q]
      BY <2>2, <3>3
    <3>5. q \in 1 .. Len(Places[c]) /\ ClientKeys(c)[q] = ClientKey(c, Places[c][q])
      BY <1>4, ClientKeysAre
    <3>6. q = p
      BY <3>1, <3>3, <3>4, <3>5, ClientKeysOnce
    <3>7. W(ClientKeys(c)[p]) = Places[c][p]
      BY <3>4, <3>6
    <3> HIDE DEF W
    <3> QED  BY <3>1, <3>2, <3>7
  <2>4. ASSUME NEW key \in DOMAIN m PROVE \E p \in Reached(c, Len(f)) : key = ClientKeys(c)[p]
    <3>1. PICK k \in DOMAIN r : key = ClientKey(c, k)
      OBVIOUS
    <3>2. PICK p \in Reached(c, Len(f)) : k = Places[c][p]
      BY <2>2
    <3> QED  BY <1>4, <3>1, <3>2, ClientKeysAre
  <2> HIDE DEF m
  <2> QED  BY <2>1, <2>3, <2>4 DEF Holds
<1> QED  BY <1>5, <1>6

-----------------------------------------------------------------------------
(* Writing a file of places.                                                 *)

LEMMA GreatestIs ==
    ASSUME NEW L \in Nat, NEW S \in SUBSET (0 .. L), S # {}
    PROVE  Max(S) \in S /\ \A x \in S : x <= Max(S)
<1> DEFINE B == {L - x : x \in S}
           G(x) == \A y \in S : x >= y
           m == CHOOSE x \in S : G(x)
<1>1. B \in SUBSET Nat /\ B # {}
  OBVIOUS
<1>2. PICK b \in B : \A n \in B : b <= n
  <2> HIDE DEF B
  <2> QED  BY <1>1, LeastOf
<1>3. PICK x \in S : b = L - x
  OBVIOUS
<1>4. G(x)
  <2>1. ASSUME NEW y \in S PROVE x >= y
    <3>1. L - y \in B
      OBVIOUS
    <3>2. L - x <= L - y
      <4> HIDE DEF B
      <4> QED  BY <1>2, <1>3, <3>1
    <3>3. x \in 0 .. L /\ y \in 0 .. L
      OBVIOUS
    <3> QED  BY <3>2, <3>3
  <2> QED  BY <2>1
<1>5. m \in S /\ G(m)
  <2> HIDE DEF G
  <2> QED  BY <1>4
<1>6. m = Max(S)
  BY DEF Max
<1>7. \A y \in S : m \in 0 .. L /\ y \in 0 .. L /\ m >= y
  BY <1>5
<1>8. \A y \in S : y <= m
  BY <1>7
<1> HIDE DEF m
<1> QED  BY <1>5, <1>6, <1>8

\* The image has a sector with data at a place.
Has(c, i, keys, p) == keys[p] \in DOMAIN i /\ i[keys[p]].data # NoData

\* A file of n sectors, the last of them there in the image, and none after it.
Stores(c, i, keys, f) ==
    \E n \in 0 .. Len(Places[c]) :
        /\ f = [p \in 1 .. n |-> IF Has(c, i, keys, p) THEN i[keys[p]].data ELSE Zeros]
        /\ n # 0 => Has(c, i, keys, n)
        /\ \A p \in 1 .. Len(Places[c]) : Has(c, i, keys, p) => p <= n

LEMMA WritePlacesIs ==
    ASSUME NEW c \in Disks, OfPlaces(c), NEW i
    PROVE  Stores(c, i, Places[c], WritePlaces(c, i))
<1> DEFINE S == {0} \cup {p \in DOMAIN Places[c] : Has(c, i, Places[c], p)}
           f == [p \in 1 .. Max(S) |->
                    IF Has(c, i, Places[c], p) THEN i[Places[c][p]].data ELSE Zeros]
<1>1. PICK L \in Nat : L = Len(Places[c]) /\ DOMAIN Places[c] = 1 .. L
  BY PlacesAre
<1>2. S \in SUBSET (0 .. L) /\ S # {}
  BY <1>1
<1>3. Max(S) \in S /\ \A x \in S : x <= Max(S)
  <2> HIDE DEF S
  <2> QED  BY <1>2, GreatestIs
<1>4. WritePlaces(c, i) = f
  BY DEF WritePlaces, Has
<1>5. PICK n \in 0 .. L : n = Max(S)
  BY <1>2, <1>3
<1>6. n # 0 => Has(c, i, Places[c], n)
  BY <1>3, <1>5
<1>7. \A p \in 1 .. L : Has(c, i, Places[c], p) => p <= n
  <2>1. \A p \in 1 .. L : Has(c, i, Places[c], p) => p \in S
    BY <1>1
  <2> HIDE DEF S
  <2> QED  BY <1>3, <1>5, <2>1
<1>8. f = [p \in 1 .. n |-> IF Has(c, i, Places[c], p) THEN i[Places[c][p]].data ELSE Zeros]
  <2> HIDE DEF S
  <2> QED  BY <1>5
<1> HIDE DEF f, S
<1> QED  BY <1>1, <1>4, <1>6, <1>7, <1>8 DEF Stores

\* An image of sectors that all have places.
AllPlaced(c, i) ==
    \A key \in DOMAIN i : \E p \in 1 .. Len(Places[c]) : key = ClientKeys(c)[p]

LEMMA WriteIs ==
    ASSUME NEW c \in Disks, OfPlaces(c), NEW i, AllPlaced(c, i), NEW g
    PROVE  Stores(c, i, ClientKeys(c), WriteMappedImage(c, i, g))
<1>1. \A j, h : WriteImage(c, j, h) = WritePlaces(c, j)
  BY DEF WriteImage, OfPlaces
<1>2. CASE ~c.filesystemSectorOrder
  <2>1. WriteMappedImage(c, i, g) = WritePlaces(c, i)
    BY <1>1, <1>2 DEF WriteMappedImage
  <2>2. ClientKeys(c) = Places[c]
    <3>1. \A p \in 1 .. Len(Places[c]) : ClientKeys(c)[p] = Places[c][p]
      BY <1>2, ClientKeysAre DEF ClientKey
    <3>2. ClientKeys(c) \in Seq(ImageKeys) /\ Places[c] \in Seq(ImageKeys)
          /\ Len(ClientKeys(c)) = Len(Places[c])
      BY ClientKeysAre, PlacesAre
    <3> QED  BY <3>1, <3>2, SeqEqual
  <2> QED  BY <2>1, <2>2, WritePlacesIs
<1>3. CASE c.filesystemSectorOrder
  <2> DEFINE W(key) == CHOOSE k \in DOMAIN i : PlaceKey(c, k) = key
             m == [key \in {PlaceKey(c, k) : k \in DOMAIN i} |-> i[W(key)]]
             L == Len(Places[c])
  <2>1. WriteMappedImage(c, i, g) = WritePlaces(c, m)
    BY <1>1, <1>3 DEF WriteMappedImage, Renumbered, PlaceKey
  <2>2. ASSUME NEW p \in 1 .. L
        PROVE  /\ ClientKeys(c)[p] \in DOMAIN i <=> Places[c][p] \in DOMAIN m
               /\ Places[c][p] \in DOMAIN m => m[Places[c][p]] = i[ClientKeys(c)[p]]
    <3>1. PlaceKey(c, ClientKeys(c)[p]) = Places[c][p]
      BY ClientKeysAre
    <3>2. ASSUME NEW k \in DOMAIN i, PlaceKey(c, k) = Places[c][p] PROVE k = ClientKeys(c)[p]
      <4>1. PICK q \in 1 .. L : k = ClientKeys(c)[q]
        BY DEF AllPlaced
      <4>2. Places[c][q] = Places[c][p]
        BY <3>2, <4>1, ClientKeysAre
      <4>3. q = p
        <5>1. p \in DOMAIN Places[c] /\ q \in DOMAIN Places[c]
          BY PlacesAre
        <5> QED  BY <4>2, <5>1, PlacesOnce DEF IsInjective
      <4> QED  BY <4>1, <4>3
    <3>3. ASSUME Places[c][p] \in DOMAIN m
          PROVE  ClientKeys(c)[p] \in DOMAIN i /\ m[Places[c][p]] = i[ClientKeys(c)[p]]
      <4>1. PICK k \in DOMAIN i : PlaceKey(c, k) = Places[c][p]
        BY <3>3
      <4>2. W(Places[c][p]) \in DOMAIN i /\ PlaceKey(c, W(Places[c][p])) = Places[c][p]
        BY <4>1
      <4>3. W(Places[c][p]) = ClientKeys(c)[p]
        <5> HIDE DEF W
        <5> QED  BY <3>2, <4>2
      <4>4. m[Places[c][p]] = i[W(Places[c][p])]
        <5> HIDE DEF W
        <5> QED  BY <3>3
      <4> HIDE DEF W, m
      <4> QED  BY <4>2, <4>3, <4>4
    <3>4. ClientKeys(c)[p] \in DOMAIN i => Places[c][p] \in DOMAIN m
      BY <3>1
    <3> HIDE DEF m
    <3> QED  BY <3>3, <3>4
  <2> HIDE DEF m
  <2>3. \A p \in 1 .. L : Has(c, m, Places[c], p) <=> Has(c, i, ClientKeys(c), p)
    BY <2>2 DEF Has
  <2>4. PICK n \in 0 .. L :
            /\ WritePlaces(c, m)
                 = [p \in 1 .. n |-> IF Has(c, m, Places[c], p) THEN m[Places[c][p]].data ELSE Zeros]
            /\ n # 0 => Has(c, m, Places[c], n)
            /\ \A p \in 1 .. L : Has(c, m, Places[c], p) => p <= n
    BY WritePlacesIs DEF Stores
  <2>5. L \in Nat /\ \A p \in 1 .. n : p \in 1 .. L
    BY PlacesAre
  <2>6. \A p \in 1 .. n : (IF Has(c, m, Places[c], p) THEN m[Places[c][p]].data ELSE Zeros)
                            = IF Has(c, i, ClientKeys(c), p) THEN i[ClientKeys(c)[p]].data ELSE Zeros
    <3>1. ASSUME NEW p \in 1 .. n
          PROVE  (IF Has(c, m, Places[c], p) THEN m[Places[c][p]].data ELSE Zeros)
                    = IF Has(c, i, ClientKeys(c), p) THEN i[ClientKeys(c)[p]].data ELSE Zeros
      <4>1. p \in 1 .. L
        BY <2>5
      <4>2. CASE Has(c, m, Places[c], p)
        BY <2>2, <2>3, <4>1, <4>2 DEF Has
      <4>3. CASE ~Has(c, m, Places[c], p)
        BY <2>3, <4>1, <4>3
      <4> QED  BY <4>2, <4>3
    <3> QED  BY <3>1
  <2>7. WritePlaces(c, m)
          = [p \in 1 .. n |-> IF Has(c, i, ClientKeys(c), p) THEN i[ClientKeys(c)[p]].data ELSE Zeros]
    BY <2>4, <2>6
  <2>8. n # 0 => Has(c, i, ClientKeys(c), n)
    BY <2>3, <2>4, <2>5
  <2> QED  BY <2>1, <2>3, <2>4, <2>7, <2>8 DEF Stores
<1> QED  BY <1>2, <1>3

-----------------------------------------------------------------------------
(* What a client finds.                                                      *)

FileContents == Data \cup {Zeros}

LEMMA Apart ==
    /\ None \notin {Garbled, Lost, Zeros, NoData} /\ Garbled \notin {Lost, Zeros, NoData}
    /\ Lost \notin {Zeros, NoData} /\ Zeros # NoData
    /\ \A d \in Data : d \notin {None, Garbled, Lost, Zeros, NoData}
    /\ Initial \subseteq Data
BY ImageSectorsAssumption

FileOf(c, f) ==
    /\ f \in Seq(FileContents) /\ Len(f) <= Len(Places[c])
    /\ c.format = "nsi" => Len(f) = Len(Places[c])

\* A sector of a well-formed image.
Plain(sector) ==
    /\ sector.status \in {"OK", "DATA_MISSING", "INTERNAL_ERROR"}
    /\ sector.data \in Data \cup {Zeros, NoData}

ImageOf(c, i) ==
    /\ AllPlaced(c, i)
    /\ \A l \in DOMAIN i : Plain(i[l])
    /\ c.format = "nsi" => \A p \in 1 .. Len(Places[c]) : Has(c, i, ClientKeys(c), p)

\* The image is at least as long as the file.
Reaches(c, i, n) ==
    n # 0 => \E p \in 1 .. Len(Places[c]) : n <= p /\ Has(c, i, ClientKeys(c), p)

\* What a client finds at a place of a file.
FoundAt(c, f, p) ==
    IF p <= Len(f) THEN (IF f[p] = Zeros THEN Lost ELSE f[p])
    ELSE IF c.format = "d64" \/ p \notin Reached(c, Len(f)) THEN Garbled
    ELSE Lost

LEMMA SectorAtIs ==
    ASSUME NEW c \in Disks, NEW f, FileOf(c, f), NEW p \in 1 .. Len(Places[c])
    PROVE  /\ Plain(SectorAt(c, f, p))
           /\ p <= Len(f) => SectorAt(c, f, p).data = f[p] /\ f[p] \in FileContents
           /\ ~(p <= Len(f)) => SectorAt(c, f, p).data = IF c.format = "d64" THEN NoData ELSE Zeros
<1>1. CASE p <= Len(f)
  <2>1. PICK d \in FileContents : d = f[p]
    <3>1. p \in 1 .. Len(f)
      BY <1>1 DEF FileOf
    <3> QED  BY <3>1 DEF FileOf
  <2>2. SectorAt(c, f, p) = [status |-> "OK", data |-> d]
    BY <1>1, <2>1 DEF SectorAt, Sector
  <2> QED  BY <1>1, <2>1, <2>2 DEF Plain, FileContents
<1>2. CASE ~(p <= Len(f)) /\ c.format = "d64"
  <2>1. SectorAt(c, f, p) = [status |-> "DATA_MISSING", data |-> NoData]
    BY <1>2 DEF SectorAt, Sector
  <2> QED  BY <1>2, <2>1 DEF Plain
<1>3. CASE ~(p <= Len(f)) /\ c.format # "d64"
  <2>1. SectorAt(c, f, p) = [status |-> "OK", data |-> Zeros]
    BY <1>3 DEF SectorAt, Sector
  <2> QED  BY <1>3, <2>1 DEF Plain
<1> QED  BY <1>1, <1>2, <1>3

LEMMA FoundIs ==
    ASSUME NEW c \in Disks, OfPlaces(c), NEW f, FileOf(c, f), NEW i, i = ReadMappedImage(c, f)
    PROVE  /\ \A p \in 1 .. Len(Places[c]) : Held(i, ClientKeys(c)[p]) = FoundAt(c, f, p)
           /\ \A l : (\A p \in 1 .. Len(Places[c]) : l # ClientKeys(c)[p]) => Held(i, l) = Garbled
           /\ ImageOf(c, i) /\ Reaches(c, i, Len(f))
<1>1. Holds(c, i, ClientKeys(c), f)
  <2>1. f \in Seq(FileContents)
    BY DEF FileOf
  <2> QED  BY <2>1, ReadIs
<1>2. /\ \A p \in Reached(c, Len(f)) :
            ClientKeys(c)[p] \in DOMAIN i /\ i[ClientKeys(c)[p]] = SectorAt(c, f, p)
      /\ \A key \in DOMAIN i : \E p \in Reached(c, Len(f)) : key = ClientKeys(c)[p]
  BY <1>1 DEF Holds
<1>3. Len(f) \in Nat /\ Len(Places[c]) \in Nat
  BY PlacesAre DEF FileOf
<1>4. \A p \in Reached(c, Len(f)) : p \in 1 .. Len(Places[c])
  BY DEF Reached
<1>5. \A p \in 1 .. Len(Places[c]) : p <= Len(f) => p \in Reached(c, Len(f))
  BY <1>3, ReachedIs
<1>6. AllPlaced(c, i)
  BY <1>2, <1>4 DEF AllPlaced
<1>7. \A l \in DOMAIN i : Plain(i[l])
  BY <1>2, <1>4, SectorAtIs
<1>8. \A p \in 1 .. Len(Places[c]) :
          ClientKeys(c)[p] \in DOMAIN i => p \in Reached(c, Len(f))
  BY <1>2, <1>4, ClientKeysOnce
<1>9. ASSUME NEW p \in 1 .. Len(Places[c]), p <= Len(f)
      PROVE  Has(c, i, ClientKeys(c), p)
  <2>1. ClientKeys(c)[p] \in DOMAIN i /\ i[ClientKeys(c)[p]] = SectorAt(c, f, p)
    BY <1>2, <1>5, <1>9
  <2>2. SectorAt(c, f, p).data \in FileContents
    BY <1>9, SectorAtIs
  <2>3. i[ClientKeys(c)[p]].data # NoData
    BY <2>1, <2>2, Apart DEF FileContents
  <2> QED  BY <2>1, <2>3 DEF Has
<1>10. ASSUME NEW p \in 1 .. Len(Places[c])
       PROVE  Held(i, ClientKeys(c)[p]) = FoundAt(c, f, p)
  <2>1. CASE p <= Len(f)
    <3>1. ClientKeys(c)[p] \in DOMAIN i /\ i[ClientKeys(c)[p]] = SectorAt(c, f, p)
      BY <1>2, <1>5, <2>1
    <3>2. PICK d \in FileContents : i[ClientKeys(c)[p]].data = d /\ f[p] = d
      BY <2>1, <3>1, SectorAtIs
    <3>3. d # NoData
      BY Apart DEF FileContents
    <3> QED  BY <2>1, <3>1, <3>2, <3>3 DEF Held, FoundAt
  <2>2. CASE ~(p <= Len(f)) /\ p \notin Reached(c, Len(f))
    BY <1>8, <2>2 DEF Held, FoundAt
  <2>3. CASE ~(p <= Len(f)) /\ p \in Reached(c, Len(f))
    <3>1. ClientKeys(c)[p] \in DOMAIN i /\ i[ClientKeys(c)[p]] = SectorAt(c, f, p)
      BY <1>2, <2>3
    <3>2. i[ClientKeys(c)[p]].data = IF c.format = "d64" THEN NoData ELSE Zeros
      BY <2>3, <3>1, SectorAtIs
    <3> QED  BY <2>3, <3>1, <3>2, Apart DEF Held, FoundAt
  <2> QED  BY <2>1, <2>2, <2>3
<1>11. ASSUME NEW l, \A p \in 1 .. Len(Places[c]) : l # ClientKeys(c)[p]
       PROVE  Held(i, l) = Garbled
  BY <1>6, <1>11 DEF Held, AllPlaced
<1>12. Reaches(c, i, Len(f))
  <2>1. CASE Len(f) = 0
    BY <2>1 DEF Reaches
  <2>2. CASE Len(f) # 0
    <3>1. Len(f) \in 1 .. Len(Places[c]) /\ Len(f) <= Len(f)
      BY <1>3, <2>2 DEF FileOf
    <3> QED  BY <1>9, <3>1 DEF Reaches
  <2> QED  BY <2>1, <2>2
<1>13. ASSUME c.format = "nsi", NEW p \in 1 .. Len(Places[c]) PROVE Has(c, i, ClientKeys(c), p)
  BY <1>3, <1>9, <1>13 DEF FileOf
<1> QED  BY <1>6, <1>7, <1>10, <1>11, <1>12, <1>13 DEF ImageOf

\* What a writer makes of an image.
LEMMA WrittenIs ==
    ASSUME NEW c \in Disks, OfPlaces(c), NEW i, ImageOf(c, i), NEW g,
           NEW f, f = WriteMappedImage(c, i, g)
    PROVE  /\ FileOf(c, f) /\ Reaches(c, i, Len(f))
           /\ \A p \in 1 .. Len(Places[c]) : Has(c, i, ClientKeys(c), p) => p <= Len(f)
           /\ \A p \in 1 .. Len(f) :
                  f[p] = IF Has(c, i, ClientKeys(c), p) THEN i[ClientKeys(c)[p]].data ELSE Zeros
<1>1. Stores(c, i, ClientKeys(c), f)
  BY WriteIs DEF ImageOf
<1>2. PICK L \in Nat : L = Len(Places[c])
  BY PlacesAre
<1>3. PICK n \in 0 .. L :
          /\ f = [p \in 1 .. n |-> IF Has(c, i, ClientKeys(c), p) THEN i[ClientKeys(c)[p]].data
                                   ELSE Zeros]
          /\ n # 0 => Has(c, i, ClientKeys(c), n)
          /\ \A p \in 1 .. L : Has(c, i, ClientKeys(c), p) => p <= n
  BY <1>1, <1>2 DEF Stores
<1>4. \A p \in 1 .. n : f[p] = IF Has(c, i, ClientKeys(c), p) THEN i[ClientKeys(c)[p]].data ELSE Zeros
  BY <1>3
<1>5. \A p \in 1 .. n : f[p] \in FileContents
  <2>1. ASSUME NEW p \in 1 .. n PROVE f[p] \in FileContents
    <3>1. CASE Has(c, i, ClientKeys(c), p)
      BY <1>4, <3>1 DEF Has, ImageOf, Plain, FileContents
    <3>2. CASE ~Has(c, i, ClientKeys(c), p)
      BY <1>4, <3>2 DEF FileContents
    <3> QED  BY <3>1, <3>2
  <2> QED  BY <2>1
<1>6. f \in Seq(FileContents) /\ Len(f) = n
  <2>1. f \in [1 .. n -> FileContents] /\ n \in Nat
    BY <1>3, <1>5
  <2> QED  BY <2>1
<1>7. c.format = "nsi" => n = L
  <2>1. ASSUME c.format = "nsi", L # 0 PROVE n = L
    <3>1. L \in 1 .. L
      BY <2>1
    <3>2. Has(c, i, ClientKeys(c), L)
      BY <1>2, <2>1, <3>1 DEF ImageOf
    <3>3. L <= n
      BY <1>3, <3>1, <3>2
    <3> QED  BY <3>3
  <2> QED  BY <2>1
<1>8. Reaches(c, i, n)
  <2>1. ASSUME n # 0 PROVE n \in 1 .. L /\ n <= n /\ Has(c, i, ClientKeys(c), n)
    BY <1>3, <2>1
  <2> QED  BY <1>2, <2>1 DEF Reaches
<1> QED  BY <1>2, <1>3, <1>4, <1>6, <1>7, <1>8 DEF FileOf

\* A flush keeps what the image holds; a gap before its end is filled.
LEMMA FlushKeeps ==
    ASSUME NEW c \in Disks, OfPlaces(c), NEW i, ImageOf(c, i), NEW g,
           NEW f, f = WriteMappedImage(c, i, g), NEW l
    PROVE  LET found == Held(ReadMappedImage(c, f), l)
           IN  Held(i, l) = found \/ (Held(i, l) = Garbled /\ found = Lost)
<1>1. PICK r : r = ReadMappedImage(c, f)
  OBVIOUS
<1>2. FileOf(c, f)
  BY WrittenIs
<1>3. CASE \A p \in 1 .. Len(Places[c]) : l # ClientKeys(c)[p]
  <2>1. Held(r, l) = Garbled
    BY <1>1, <1>2, <1>3, FoundIs
  <2>2. l \notin DOMAIN i
    BY <1>3 DEF ImageOf, AllPlaced
  <2> QED  BY <1>1, <2>1, <2>2 DEF Held
<1>4. CASE \E p \in 1 .. Len(Places[c]) : l = ClientKeys(c)[p]
  <2>1. PICK p \in 1 .. Len(Places[c]) : l = ClientKeys(c)[p]
    BY <1>4
  <2>2. Held(r, l) = FoundAt(c, f, p)
    BY <1>1, <1>2, <2>1, FoundIs
  <2>3. CASE Has(c, i, ClientKeys(c), p)
    <3>1. p <= Len(f) /\ p \in 1 .. Len(f)
      <4>1. p <= Len(f)
        BY <2>3, WrittenIs
      <4>2. Len(f) \in Nat
        BY <1>2 DEF FileOf
      <4> QED  BY <4>1, <4>2
    <3>2. f[p] = i[l].data
      BY <2>1, <2>3, <3>1, WrittenIs
    <3> QED  BY <1>1, <2>1, <2>2, <2>3, <3>1, <3>2 DEF Held, Has, FoundAt
  <2>4. CASE ~Has(c, i, ClientKeys(c), p)
    <3>1. Held(i, l) = Garbled
      BY <2>1, <2>4 DEF Held, Has
    <3>2. p <= Len(f) => f[p] = Zeros
      <4>1. Len(f) \in Nat
        BY <1>2 DEF FileOf
      <4>2. p <= Len(f) => p \in 1 .. Len(f)
        BY <4>1
      <4> QED  BY <2>4, <4>2, WrittenIs
    <3> QED  BY <1>1, <2>2, <3>1, <3>2 DEF FoundAt
  <2> QED  BY <2>3, <2>4
<1> QED  BY <1>3, <1>4

\* A gap the file has, a longer file has too.
LEMMA GapsStay ==
    ASSUME NEW c \in Disks, OfPlaces(c), NEW i, ImageOf(c, i), NEW g,
           NEW f, f = WriteMappedImage(c, i, g),
           NEW e, FileOf(c, e), Reaches(c, i, Len(e)),
           NEW l, Held(i, l) = Garbled, Held(ReadMappedImage(c, e), l) = Lost
    PROVE  Held(ReadMappedImage(c, f), l) = Lost
<1>1. PICK r : r = ReadMappedImage(c, f)
  OBVIOUS
<1>2. PICK s : s = ReadMappedImage(c, e)
  OBVIOUS
<1>3. FileOf(c, f)
  BY WrittenIs
<1>4. PICK p \in 1 .. Len(Places[c]) : l = ClientKeys(c)[p]
  <2>1. CASE \A p \in 1 .. Len(Places[c]) : l # ClientKeys(c)[p]
    <3>1. Held(s, l) = Garbled
      BY <1>2, <2>1, FoundIs
    <3> QED  BY <1>2, <3>1, Apart
  <2> QED  BY <2>1
<1>5. Held(r, l) = FoundAt(c, f, p) /\ FoundAt(c, e, p) = Lost
  <2>1. Held(r, l) = FoundAt(c, f, p)
    BY <1>1, <1>3, <1>4, FoundIs
  <2>2. Held(s, l) = FoundAt(c, e, p)
    BY <1>2, <1>4, FoundIs
  <2> QED  BY <1>2, <2>1, <2>2
<1>6. Len(f) \in Nat /\ Len(e) \in Nat /\ p \in Nat
  BY <1>3 DEF FileOf
<1>7. Len(e) <= Len(f)
  <2>1. CASE Len(e) = 0
    BY <1>6, <2>1
  <2>2. CASE Len(e) # 0
    <3>1. PICK q \in 1 .. Len(Places[c]) : Len(e) <= q /\ Has(c, i, ClientKeys(c), q)
      BY <2>2 DEF Reaches
    <3>2. q <= Len(f) /\ q \in Nat
      BY <3>1, WrittenIs
    <3> QED  BY <1>6, <3>1, <3>2
  <2> QED  BY <2>1, <2>2
<1>8. ~Has(c, i, ClientKeys(c), p)
  <2>1. ASSUME Has(c, i, ClientKeys(c), p) PROVE FALSE
    <3>1. l \in DOMAIN i /\ i[l].data # NoData /\ i[l].data \in Data \cup {Zeros, NoData}
      BY <1>4, <2>1 DEF Has, ImageOf, Plain
    <3>2. Held(i, l) \in Data \cup {Lost}
      BY <3>1 DEF Held
    <3> QED  BY <3>2, Apart
  <2> QED  BY <2>1
<1>9. CASE p <= Len(f)
  <2>1. p \in 1 .. Len(f)
    BY <1>6, <1>9
  <2>2. f[p] = Zeros
    BY <1>8, <2>1, WrittenIs
  <2> QED  BY <1>1, <1>5, <1>9, <2>2 DEF FoundAt
<1>10. CASE ~(p <= Len(f))
  <2>1. ~(p <= Len(e))
    BY <1>6, <1>7, <1>10
  <2>2. c.format # "d64" /\ p \in Reached(c, Len(e))
    BY <1>5, <2>1, Apart DEF FoundAt
  <2>3. p \in Reached(c, Len(f))
    BY <1>6, <1>7, <2>2, ReachedIs
  <2> QED  BY <1>1, <1>5, <1>10, <2>2, <2>3 DEF FoundAt
<1> QED  BY <1>9, <1>10

-----------------------------------------------------------------------------
(* The invariant.                                                            *)

Types ==
    /\ FileOf(disk, file) /\ ImageOf(disk, image)
    /\ changed \in BOOLEAN /\ attempted \in BOOLEAN
    /\ asked \in [AllLocations -> Data \cup {None}]

\* What the client has put, or else what was in the file.
Kept(l) ==
    IF asked[l] # None THEN l \in DOMAIN image /\ image[l].data = asked[l]
    ELSE Held(image, l) = content[l] \/ (Held(image, l) = Garbled /\ content[l] = Lost)

SectorsKept ==
    /\ Types
    /\ content = HeldBy(ReadMappedImage(disk, file))
    /\ changed <=> asked # Blank
    /\ \A l \in AllLocations : Kept(l)
    /\ Reaches(disk, image, Len(file))

IInv == disk \in Disks /\ (OfPlaces(disk) => SectorsKept)

LEMMA HeldIs ==
    ASSUME NEW c, NEW i, ImageOf(c, i), NEW l
    PROVE  Held(i, l) \in Data \cup {Garbled, Lost}
<1>1. CASE l \notin DOMAIN i \/ i[l].data = NoData
  BY <1>1 DEF Held
<1>2. CASE l \in DOMAIN i /\ i[l].data # NoData
  <2>1. i[l].data \in Data \cup {Zeros}
    BY <1>2 DEF ImageOf, Plain
  <2> QED  BY <1>2, <2>1 DEF Held
<1> QED  BY <1>1, <1>2

LEMMA BlankIs ==
    /\ Blank \in [AllLocations -> Data \cup {None}]
    /\ \A l \in AllLocations : Blank[l] = None
BY DEF Blank

\* What holds once the file has been read.
LEMMA Loaded ==
    ASSUME NEW c \in Disks, OfPlaces(c), NEW f, FileOf(c, f)
    PROVE  LET i == ReadMappedImage(c, f) IN ImageOf(c, i) /\ Reaches(c, i, Len(f))
<1>1. PICK i : i = ReadMappedImage(c, f)
  OBVIOUS
<1>2. ImageOf(c, i) /\ Reaches(c, i, Len(f))
  BY <1>1, FoundIs
<1> QED  BY <1>1, <1>2

LEMMA InitKept == Init => IInv
<1> SUFFICES ASSUME Init, OfPlaces(disk) PROVE SectorsKept
  BY DEF Init, IInv
<1>1. /\ disk \in Disks /\ file \in Files(disk) /\ Readable(disk, file)
      /\ image = ReadMappedImage(disk, file) /\ changed = FALSE
      /\ asked = Blank /\ content = HeldBy(image) /\ attempted = FALSE
  BY DEF Init
<1>2. FileOf(disk, file)
  <2>1. PICK n \in 0 .. Len(Places[disk]) : file \in [1 .. n -> Initial]
    BY <1>1 DEF Files, OfPlaces
  <2>2. Len(Places[disk]) \in Nat
    BY <1>1, PlacesAre
  <2>3. n \in Nat /\ n <= Len(Places[disk])
    BY <2>2
  <2>4. file \in [1 .. n -> FileContents]
    BY <2>1, Apart DEF FileContents
  <2>5. file \in Seq(FileContents) /\ Len(file) = n
    BY <2>3, <2>4
  <2>6. disk.format = "nsi" => Len(file) = Len(Places[disk])
    BY <1>1 DEF Readable
  <2> QED  BY <2>3, <2>5, <2>6 DEF FileOf
<1>3. ImageOf(disk, image) /\ Reaches(disk, image, Len(file))
  BY <1>1, <1>2, Loaded
<1>4. \A l \in AllLocations : Kept(l)
  <2>1. \A l \in AllLocations : asked[l] = None /\ content[l] = Held(image, l)
    BY <1>1, BlankIs DEF HeldBy
  <2> QED  BY <2>1 DEF Kept
<1>5. Types
  BY <1>1, <1>2, <1>3, BlankIs DEF Types
<1> QED  BY <1>1, <1>3, <1>4, <1>5 DEF SectorsKept

LEMMA PutKept ==
    ASSUME IInv, OfPlaces(disk), NEW l \in Range(Blocks[disk]), NEW d \in Data, Put(l, d)
    PROVE  SectorsKept'
<1>1. disk \in Disks /\ SectorsKept /\ Types
  BY DEF IInv, SectorsKept
<1>2. /\ image' = With(image, l, Sector("INTERNAL_ERROR", d)) /\ changed' = TRUE
      /\ asked' = [asked EXCEPT ![l] = d]
      /\ disk' = disk /\ file' = file /\ content' = content /\ attempted' = attempted
  BY DEF Put
<1>3. l \in AllLocations
  BY <1>1 DEF AllLocations
<1>4. PICK s : s = Sector("INTERNAL_ERROR", d)
  OBVIOUS
<1>5. s = [status |-> "INTERNAL_ERROR", data |-> d]
  BY <1>4 DEF Sector
<1>6. s.data = d /\ Plain(s) /\ d # NoData /\ d # None
  BY <1>5, Apart DEF Plain
<1>7. /\ DOMAIN image' = DOMAIN image \cup {l} /\ image'[l] = s
      /\ \A k \in DOMAIN image : k # l => image'[k] = image[k]
  BY <1>2, <1>4 DEF With
<1>8. asked' \in [AllLocations -> Data \cup {None}]
      /\ \A k \in AllLocations : asked'[k] = IF k = l THEN d ELSE asked[k]
  BY <1>1, <1>2, <1>3 DEF Types
<1>9. \A p \in 1 .. Len(Places[disk]) :
          Has(disk, image, ClientKeys(disk), p) => Has(disk, image', ClientKeys(disk), p)
  <2>1. ASSUME NEW p \in 1 .. Len(Places[disk]), Has(disk, image, ClientKeys(disk), p)
        PROVE  Has(disk, image', ClientKeys(disk), p)
    <3>1. CASE ClientKeys(disk)[p] = l
      BY <1>6, <1>7, <3>1 DEF Has
    <3>2. CASE ClientKeys(disk)[p] # l
      BY <1>7, <2>1, <3>2 DEF Has
    <3> QED  BY <3>1, <3>2
  <2> QED  BY <2>1
<1>10. ImageOf(disk, image')
  <2>1. AllPlaced(disk, image')
    <3>1. \E p \in 1 .. Len(Places[disk]) : l = ClientKeys(disk)[p]
      BY <1>1, BlocksPlaced
    <3>2. AllPlaced(disk, image)
      BY <1>1 DEF Types, ImageOf
    <3> QED  BY <1>7, <3>1, <3>2 DEF AllPlaced
  <2>2. \A k \in DOMAIN image' : Plain(image'[k])
    <3>1. \A k \in DOMAIN image : Plain(image[k])
      BY <1>1 DEF Types, ImageOf
    <3>2. ASSUME NEW k \in DOMAIN image' PROVE Plain(image'[k])
      <4>1. CASE k = l
        BY <1>6, <1>7, <4>1
      <4>2. CASE k # l
        BY <1>7, <3>1, <4>2
      <4> QED  BY <4>1, <4>2
    <3> QED  BY <3>2
  <2>3. disk.format = "nsi" =>
            \A p \in 1 .. Len(Places[disk]) : Has(disk, image', ClientKeys(disk), p)
    BY <1>1, <1>9 DEF Types, ImageOf
  <2> QED  BY <2>1, <2>2, <2>3 DEF ImageOf
<1>11. Reaches(disk, image', Len(file))
  BY <1>1, <1>9 DEF SectorsKept, Reaches
<1>12. ASSUME NEW k \in AllLocations PROVE Kept(k)'
  <2>1. CASE k = l
    <3>1. asked'[k] = d /\ asked'[k] # None /\ k \in DOMAIN image' /\ image'[k].data = d
      BY <1>3, <1>6, <1>7, <1>8, <2>1
    <3> QED  BY <3>1 DEF Kept
  <2>2. CASE k # l
    <3>1. asked'[k] = asked[k] /\ content'[k] = content[k]
      BY <1>2, <1>8, <2>2
    <3>2. (k \in DOMAIN image' <=> k \in DOMAIN image)
          /\ (k \in DOMAIN image => image'[k] = image[k])
      BY <1>7, <2>2
    <3>3. Held(image', k) = Held(image, k)
      BY <3>2 DEF Held
    <3>4. Kept(k)
      BY <1>1 DEF SectorsKept
    <3> QED  BY <3>1, <3>2, <3>3, <3>4 DEF Kept
  <2> QED  BY <2>1, <2>2
<1>13. asked' # Blank
  BY <1>3, <1>6, <1>8, BlankIs
<1>14. Types'
  <2>1. FileOf(disk, file) /\ attempted \in BOOLEAN
    BY <1>1 DEF Types
  <2> QED  BY <1>2, <1>8, <1>10, <2>1 DEF Types
<1>15. content' = HeldBy(ReadMappedImage(disk', file'))
  BY <1>1, <1>2 DEF SectorsKept
<1> QED  BY <1>2, <1>11, <1>12, <1>13, <1>14, <1>15 DEF SectorsKept

\* What a flush leaves.
LEMMA FlushIs ==
    ASSUME IInv, OfPlaces(disk), Flush
    PROVE  /\ disk' = disk /\ image' = image /\ changed' = FALSE
           /\ asked' = Blank /\ attempted' = FALSE
           /\ file' = WriteMappedImage(disk, image, geometry) /\ FileOf(disk, file')
           /\ content' = HeldBy(ReadMappedImage(disk, file'))
<1>1. disk \in Disks /\ ImageOf(disk, image)
  BY DEF IInv, SectorsKept, Types
<1>2. /\ disk' = disk /\ image' = image /\ changed' = FALSE /\ asked' = Blank
      /\ attempted' = FALSE /\ file' = WriteMappedImage(disk, image, geometry)
      /\ content' = IF Readable(disk, file') THEN HeldBy(ReadMappedImage(disk, file'))
                    ELSE [l \in AllLocations |-> Garbled]
  BY DEF Flush
<1>3. PICK f : f = file'
  OBVIOUS
<1>4. FileOf(disk, f)
  BY <1>1, <1>2, <1>3, WrittenIs
<1>5. Readable(disk, f)
  BY <1>4 DEF Readable, FileOf, OfPlaces
<1> QED  BY <1>2, <1>3, <1>4, <1>5

LEMMA FlushKept ==
    ASSUME IInv, OfPlaces(disk), Flush
    PROVE  SectorsKept'
<1>1. disk \in Disks /\ SectorsKept /\ Types /\ ImageOf(disk, image)
  BY DEF IInv, SectorsKept, Types
<1>2. /\ disk' = disk /\ image' = image /\ changed' = FALSE
      /\ asked' = Blank /\ attempted' = FALSE
      /\ file' = WriteMappedImage(disk, image, geometry) /\ FileOf(disk, file')
      /\ content' = HeldBy(ReadMappedImage(disk, file'))
  BY FlushIs
<1>3. PICK f : f = file'
  OBVIOUS
<1>4. Reaches(disk, image, Len(f))
  BY <1>1, <1>2, <1>3, WrittenIs
<1>5. ASSUME NEW l \in AllLocations PROVE Kept(l)'
  <2>1. asked'[l] = None
    BY <1>2, BlankIs
  <2>2. content'[l] = Held(ReadMappedImage(disk, f), l)
    BY <1>2, <1>3 DEF HeldBy
  <2>3. LET found == Held(ReadMappedImage(disk, f), l)
        IN  Held(image, l) = found \/ (Held(image, l) = Garbled /\ found = Lost)
    BY <1>1, <1>2, <1>3, FlushKeeps
  <2> QED  BY <1>2, <2>1, <2>2, <2>3 DEF Kept
<1>6. Types'
  BY <1>1, <1>2, BlankIs DEF Types
<1>7. changed' <=> asked' # Blank'
  BY <1>2 DEF Blank
<1> QED  BY <1>2, <1>3, <1>4, <1>5, <1>6, <1>7 DEF SectorsKept

LEMMA FlushThrowsIs ==
    ASSUME OfPlaces(disk), FlushThrows
    PROVE  /\ disk' = disk /\ file' = file /\ image' = image /\ changed' = changed
           /\ asked' = asked /\ content' = content /\ attempted' = TRUE
BY DEF FlushThrows, OfPlaces, WriteThrows

LEMMA SameKept ==
    ASSUME SectorsKept, attempted' \in BOOLEAN,
           disk' = disk, file' = file, image' = image, changed' = changed,
           asked' = asked, content' = content
    PROVE  SectorsKept'
BY DEF SectorsKept, Types, Kept, Reaches, Blank

LEMMA DiscardKept ==
    ASSUME IInv, OfPlaces(disk), Discard
    PROVE  SectorsKept' /\ content' = content
<1>1. disk \in Disks /\ SectorsKept /\ FileOf(disk, file)
  BY DEF IInv, SectorsKept, Types
<1>2. /\ disk' = disk /\ file' = file /\ image' = ReadMappedImage(disk, file)
      /\ changed' = FALSE /\ asked' = Blank /\ attempted' = FALSE
      /\ content' = HeldBy(image')
  BY DEF Discard, Load
<1>3. ImageOf(disk, image') /\ Reaches(disk, image', Len(file))
  BY <1>1, <1>2, Loaded
<1>4. \A l \in AllLocations : Kept(l)'
  <2>1. \A l \in AllLocations : asked'[l] = None /\ content'[l] = Held(image', l)
    BY <1>2, BlankIs DEF HeldBy
  <2> QED  BY <2>1 DEF Kept
<1>5. Types'
  BY <1>1, <1>2, <1>3, BlankIs DEF Types
<1>6. changed' <=> asked' # Blank'
  BY <1>2 DEF Blank
<1>7. content' = HeldBy(ReadMappedImage(disk', file')) /\ content' = content
  BY <1>1, <1>2 DEF SectorsKept
<1> QED  BY <1>2, <1>3, <1>4, <1>5, <1>6, <1>7 DEF SectorsKept

LEMMA NextKept == IInv /\ [Next]_vars => IInv'
<1> SUFFICES ASSUME IInv, [Next]_vars PROVE IInv'
  OBVIOUS
<1>1. disk' = disk
  <2>1. CASE Next
    BY <2>1 DEF Next, Put, Flush, FlushThrows, Discard
  <2>2. CASE vars' = vars
    BY <2>2 DEF vars
  <2> QED  BY <2>1, <2>2
<1>2. ASSUME OfPlaces(disk) PROVE SectorsKept'
  <2>1. ASSUME NEW l \in Range(Blocks[disk]), NEW d \in Data, Put(l, d) PROVE SectorsKept'
    BY <1>2, <2>1, PutKept
  <2>2. CASE Flush
    BY <1>2, <2>2, FlushKept
  <2>3. CASE FlushThrows
    <3>1. SectorsKept
      BY <1>2 DEF IInv
    <3> QED  BY <1>2, <2>3, <3>1, FlushThrowsIs, SameKept
  <2>4. CASE Discard
    BY <1>2, <2>4, DiscardKept
  <2>5. CASE vars' = vars
    <3>1. /\ disk' = disk /\ file' = file /\ image' = image /\ changed' = changed
          /\ asked' = asked /\ content' = content /\ attempted' = attempted
      BY <2>5 DEF vars, history
    <3>2. SectorsKept /\ attempted \in BOOLEAN
      BY <1>2 DEF IInv, SectorsKept, Types
    <3> QED  BY <3>1, <3>2, SameKept
  <2> QED  BY <2>1, <2>2, <2>3, <2>4, <2>5 DEF Next
<1> QED  BY <1>1, <1>2 DEF IInv, OfPlaces

-----------------------------------------------------------------------------
(* Theorems.                                                                 *)

\* Any sequence of puts, flushes, failures and discards leaves the invariant.
LEMMA Invariant == Spec => []IInv
<1>1. Init => IInv
  BY InitKept
<1>2. IInv /\ [Next]_vars => IInv'
  BY NextKept
<1> QED  BY <1>1, <1>2, PTL DEF Spec

LEMMA KeptIsTrue == IInv => (OfPlaces(disk) => ImageTrue)
<1> SUFFICES ASSUME IInv, OfPlaces(disk) PROVE ImageTrue
  OBVIOUS
<1>1. disk \in Disks /\ SectorsKept /\ Types
  BY DEF IInv, SectorsKept
<1>2. FileOf(disk, file) /\ ImageOf(disk, image)
  BY <1>1 DEF Types
<1>3. ASSUME NEW l \in DOMAIN image PROVE l[1] < disk.tracks /\ l[2] < disk.sides
  <2>1. PICK p \in 1 .. Len(Places[disk]) : l = ClientKeys(disk)[p]
    BY <1>2 DEF ImageOf, AllPlaced
  <2>2. l[1] = Places[disk][p][1] /\ l[2] = Places[disk][p][2]
    BY <1>1, <2>1, ClientKeysAre
  <2>3. PICK o, i, m : Seat(disk, o, p, i, m)
    BY <1>1, PlacesAre
  <2>4. PICK a \in Rectangle(disk.tracks, disk.sides) : l[1] = a[1] /\ l[2] = a[2]
    BY <2>2, <2>3 DEF Seat
  <2>5. a[1] \in 0 .. disk.tracks - 1 /\ a[2] \in 0 .. disk.sides - 1
    BY <2>4 DEF Rectangle
  <2>6. disk.tracks \in Nat /\ disk.sides \in Nat
    BY <1>1, Checked
  <2> QED  BY <2>4, <2>5, <2>6
<1>4. content \in [AllLocations -> Data \cup {Garbled, Lost}]
  <2>1. PICK r : r = ReadMappedImage(disk, file)
    OBVIOUS
  <2>2. ImageOf(disk, r)
    BY <1>1, <1>2, <2>1, FoundIs
  <2>3. content = [l \in AllLocations |-> Held(r, l)]
    BY <1>1, <2>1 DEF SectorsKept, HeldBy
  <2> QED  BY <2>2, <2>3, HeldIs
<1>5. TypeOK
  <2>1. Len(file) <= IF disk.format \in {"d88", "imd"} THEN disk.tracks * disk.sides
                     ELSE Len(Places[disk])
    BY <1>2 DEF FileOf, OfPlaces
  <2>2. \A l \in DOMAIN image : Plain(image[l])
    BY <1>2 DEF ImageOf
  <2> QED  BY <1>1, <1>3, <1>4, <2>1, <2>2 DEF TypeOK, Types, Plain
<1>6. ASSUME NEW l \in Range(Blocks[disk])
      PROVE  IF asked[l] # None THEN Held(image, l) = asked[l]
             ELSE \/ Held(image, l) = content[l]
                  \/ Held(image, l) = Garbled /\ content[l] = Lost
  <2>1. l \in AllLocations
    BY <1>1 DEF AllLocations
  <2>2. Kept(l)
    BY <1>1, <2>1 DEF SectorsKept
  <2>3. CASE asked[l] = None
    BY <2>2, <2>3 DEF Kept
  <2>4. CASE asked[l] # None
    <3>1. asked[l] \in Data /\ l \in DOMAIN image /\ image[l].data = asked[l]
      BY <1>1, <2>1, <2>2, <2>4 DEF Kept, Types
    <3>2. asked[l] # NoData /\ asked[l] # Zeros
      BY <3>1, Apart
    <3> QED  BY <2>4, <3>1, <3>2 DEF Held
  <2> QED  BY <2>3, <2>4
<1>7. ReadsLatest
  BY <1>1, <1>6 DEF ReadsLatest, SectorsKept
<1> QED  BY <1>5, <1>7 DEF ImageTrue

\* In a file of one of the formats with a place for each sector, whatever the
\* layout, the order of the tracks and the numbering of the disk, get() returns
\* the last thing put, or else what the file held, and needsFlushing() tells
\* whether the file is behind.
THEOREM ImagesTrue == Spec => [](OfPlaces(disk) => ImageTrue)
<1>1. IInv => (OfPlaces(disk) => ImageTrue)
  BY KeptIsTrue
<1> QED  BY <1>1, Invariant, PTL

\* The blocks of a filesystem are in the order of the places.
LEMMA BlocksAre ==
    ASSUME NEW c \in Disks, c.format = "img", c.filesystemSectorOrder, NEW k \in DOMAIN Blocks[c]
    PROVE  k \in 1 .. Len(Places[c]) /\ Blocks[c][k] = ClientKeys(c)[k]
<1>0. OfPlaces(c)
  BY DEF OfPlaces
<1>1. PICK N \in Nat : N = c.tracks * c.sides
  BY <1>0, PlacesAre
<1> DEFINE at == At(c)
           fo(a) == FilesystemSectorOrder(c.entries, a[1], a[2])
           bs == [i \in DOMAIN at |-> OnTrack(at[i], fo(at[i]))]
           ss == TracksOfFile[c]
<1>2. at = Ordering(c) /\ at \in [1 .. N -> Rectangle(c.tracks, c.sides)]
  BY <1>0, <1>1, AtIs DEF At, Ordering, Walk
<1>3. Blocks[c] = FlattenSeq(bs)
  BY <1>2 DEF Blocks, FilesystemLocations
<1> HIDE DEF at
<1>4. ASSUME NEW i \in 1 .. N
      PROVE  /\ bs[i] \in Seq(ImageKeys) /\ Len(bs[i]) = Len(ss[i]) /\ Len(ss[i]) \in Nat
             /\ \A m \in 1 .. Len(bs[i]) : bs[i][m] = <<at[i][1], at[i][2], fo(at[i])[m]>>
             /\ \A m \in 1 .. Len(bs[i]) :
                    ss[i][m] = <<at[i][1], at[i][2], LogicalSectorOrder(c.entries, at[i][1], at[i][2])[m]>>
  <2>1. PICK a \in Rectangle(c.tracks, c.sides) : a = at[i]
    BY <1>2
  <2>2. PICK q \in Seq(Nat), r \in Seq(Nat) :
            /\ q = fo(a) /\ r = LogicalSectorOrder(c.entries, a[1], a[2]) /\ Len(r) = Len(q)
    BY <1>0, OrdersAre
  <2>3. a[1] \in Nat /\ a[2] \in Nat
    BY DEF Rectangle
  <2>4. bs[i] = [m \in 1 .. Len(q) |-> <<a[1], a[2], q[m]>>]
    BY <1>2, <2>1, <2>2 DEF OnTrack
  <2>5. \A m \in 1 .. Len(q) : <<a[1], a[2], q[m]>> \in ImageKeys
    BY <2>3 DEF ImageKeys
  <2>6. bs[i] \in Seq(ImageKeys) /\ Len(bs[i]) = Len(q)
    <3>1. PICK b : b = [m \in 1 .. Len(q) |-> <<a[1], a[2], q[m]>>]
      OBVIOUS
    <3>2. PICK n \in Nat : n = Len(q)
      OBVIOUS
    <3>3. b \in [1 .. n -> ImageKeys]
      BY <2>5, <3>1, <3>2
    <3>4. b \in Seq(ImageKeys) /\ Len(b) = n
      BY <3>3
    <3> HIDE DEF bs
    <3> QED  BY <2>4, <3>1, <3>2, <3>4
  <2>7. ss[i] = Track(c, a)
    BY <1>0, <1>2, <2>1, TracksAre DEF at
  <2>8. Secs(c, a) = r
    BY <2>2 DEF Secs
  <2>9. Len(ss[i]) = Len(r) /\ \A m \in 1 .. Len(r) : ss[i][m] = <<a[1], a[2], r[m]>>
    BY <1>0, <2>7, <2>8, TrackIs
  <2> HIDE DEF bs, ss
  <2> QED  BY <2>1, <2>2, <2>4, <2>6, <2>9
<1>5. bs \in [1 .. N -> Seq(ImageKeys)]
  BY <1>2, <1>4
<1>6. PICK o : EndsOf(o, N, bs, Blocks[c])
  <2> HIDE DEF bs
  <2> QED  BY <1>3, <1>5, FlattenEnds
<1>7. PICK e : EndsOf(e, N, ss, Places[c])
  BY <1>0, <1>1, PlacesAre
<1> HIDE DEF bs, ss
<1>8. \A i \in 0 .. N : o[i] = e[i]
  <2> DEFINE T == {i \in 0 .. N : o[i] = e[i]}
  <2>1. 0 \in T
    BY <1>6, <1>7 DEF EndsOf
  <2>2. ASSUME NEW i \in 1 .. N, i - 1 \in T PROVE i \in T
    BY <1>4, <1>6, <1>7, <2>2 DEF EndsOf
  <2>3. \A i \in 0 .. N : i \in T
    <3> HIDE DEF T
    <3> QED  BY <2>1, <2>2, AllOf
  <2> QED  BY <2>3
<1>9. k \in 1 .. Len(Blocks[c]) /\ Blocks[c] \in Seq(ImageKeys)
  <2>1. Blocks[c] \in Seq(ImageKeys)
    BY <1>3, <1>5, FlattenEnds
  <2> QED  BY <2>1
<1>10. Len(Blocks[c]) = Len(Places[c])
  BY <1>6, <1>7, <1>8 DEF EndsOf
<1>11. PICK i \in 1 .. N : \E m \in 1 .. Len(bs[i]) : k = o[i - 1] + m /\ Blocks[c][k] = bs[i][m]
  <2>1. InPieces(o, N, bs, Blocks[c])
    BY <1>5, <1>6, InPiece
  <2> QED  BY <1>9, <2>1 DEF InPieces
<1>12. PICK m \in 1 .. Len(bs[i]) : k = o[i - 1] + m /\ Blocks[c][k] = bs[i][m]
  BY <1>11
<1>13. Places[c][k] = ss[i][m]
  <2>1. i - 1 \in 0 .. N /\ m \in 1 .. Len(ss[i])
    BY <1>4
  <2>2. k = e[i - 1] + m
    BY <1>8, <1>12, <2>1
  <2> QED  BY <1>7, <2>1, <2>2 DEF EndsOf
<1>14. PICK a \in Rectangle(c.tracks, c.sides) : a = at[i]
  BY <1>2
<1>15. PICK lo \in Seq(Nat), q \in Seq(Nat) :
          /\ lo = LogicalSectorOrder(c.entries, a[1], a[2]) /\ q = fo(a)
          /\ IsInjective(lo) /\ Len(lo) = Len(q)
  BY <1>0, OrdersAre
<1>16. m \in 1 .. Len(lo) /\ Places[c][k] = <<a[1], a[2], lo[m]>> /\ Blocks[c][k] = <<a[1], a[2], q[m]>>
  <2>1. Len(bs[i]) = Len(lo)
    <3>1. Len(ss[i]) = Len(lo)
      <4>1. ss[i] = Track(c, a)
        BY <1>0, <1>2, <1>14, TracksAre DEF ss, at
      <4>2. Secs(c, a) = lo
        BY <1>15 DEF Secs
      <4> QED  BY <1>0, <4>1, <4>2, TrackIs
    <3> QED  BY <1>4, <3>1
  <2> QED  BY <1>4, <1>12, <1>13, <1>14, <1>15, <2>1
<1>17. Mapped(lo, q, lo[m]) = q[m]
  BY <1>15, <1>16, MappedIs
<1>18. ClientKey(c, <<a[1], a[2], lo[m]>>) = <<a[1], a[2], q[m]>>
  BY <1>15, <1>17 DEF ClientKey, FilesystemToLogical
<1>19. k \in 1 .. Len(Places[c])
  BY <1>9, <1>10
<1> QED  BY <1>0, <1>16, <1>18, <1>19, ClientKeysAre

LEMMA KeptInOrder == IInv => BlocksInOrder
<1> SUFFICES ASSUME IInv, disk.format = "img", disk.filesystemSectorOrder,
                    NEW k \in DOMAIN Blocks[disk], k <= Len(file)
             PROVE  content[Blocks[disk][k]] = IF file[k] = Zeros THEN Lost ELSE file[k]
  BY DEF BlocksInOrder
<1>1. OfPlaces(disk)
  BY DEF OfPlaces
<1>2. disk \in Disks /\ FileOf(disk, file) /\ content = HeldBy(ReadMappedImage(disk, file))
  BY <1>1 DEF IInv, SectorsKept, Types
<1>3. k \in 1 .. Len(Places[disk]) /\ Blocks[disk][k] = ClientKeys(disk)[k]
  BY <1>2, BlocksAre
<1>4. Blocks[disk][k] \in AllLocations
  BY <1>2 DEF AllLocations, Range
<1>5. PICK r : r = ReadMappedImage(disk, file)
  OBVIOUS
<1>6. Held(r, Blocks[disk][k]) = FoundAt(disk, file, k)
  BY <1>1, <1>2, <1>3, <1>5, FoundIs
<1>7. content[Blocks[disk][k]] = Held(r, Blocks[disk][k])
  BY <1>2, <1>4, <1>5 DEF HeldBy
<1> QED  BY <1>6, <1>7 DEF FoundAt

\* Through the two maps between the orders of a track, the blocks of the
\* filesystem come out one after the other in an img file, for every layout.
THEOREM BlocksOrdered == Spec => []BlocksInOrder
<1>1. IInv => BlocksInOrder
  BY KeptInOrder
<1> QED  BY <1>1, Invariant, PTL

-----------------------------------------------------------------------------
(* Refinement.                                                               *)

\* There are no strays in an image file.
LEMMA NoneStray ==
    /\ NoStrays \in Store!Mistaken
    /\ \A l \in AllLocations : NoStrays[l] = {} /\ NoStrays[l] \in Store!Cleared(l)
BY DEF NoStrays, Store!Mistaken, Store!Cleared

LEMMA InitStores == Init /\ IInv /\ OfPlaces(disk) => Store!Init
<1> SUFFICES ASSUME Init, IInv, OfPlaces(disk) PROVE Store!Init
  OBVIOUS
<1>1. content \in [AllLocations -> Data \cup {Garbled, Lost}]
  BY KeptIsTrue DEF ImageTrue, TypeOK
<1> QED  BY <1>1, NoneStray DEF Init, Blank, Store!Init, Store!OnDisk, Store!NothingAsked

LEMMA FlushStores ==
    ASSUME IInv, IInv', OfPlaces(disk), Flush
    PROVE  Store!Flush
<1>1. disk \in Disks /\ SectorsKept /\ FileOf(disk, file) /\ ImageOf(disk, image)
  BY DEF IInv, SectorsKept, Types
<1>2. /\ disk' = disk /\ image' = image /\ asked' = Blank /\ attempted' = FALSE
      /\ file' = WriteMappedImage(disk, image, geometry) /\ FileOf(disk, file')
      /\ content' = HeldBy(ReadMappedImage(disk, file'))
  BY FlushIs
<1>3. PICK f : f = file'
  OBVIOUS
<1>4. content' \in [AllLocations -> Data \cup {Garbled, Lost}]
  <2>1. PICK r : r = ReadMappedImage(disk, f)
    OBVIOUS
  <2>2. ImageOf(disk, r)
    BY <1>1, <1>2, <1>3, <2>1, FoundIs
  <2>3. content' = [l \in AllLocations |-> Held(r, l)]
    BY <1>2, <1>3, <2>1 DEF HeldBy
  <2> QED  BY <2>2, <2>3, HeldIs
<1>5. ASSUME NEW l \in AllLocations PROVE content'[l] \in Store!Flushed(l)
  <2>1. content'[l] = Held(ReadMappedImage(disk, f), l)
    BY <1>2, <1>3 DEF HeldBy
  <2>2. LET found == Held(ReadMappedImage(disk, f), l)
        IN  Held(image, l) = found \/ (Held(image, l) = Garbled /\ found = Lost)
    BY <1>1, <1>2, <1>3, FlushKeeps
  <2>3. Held(image, l) = content'[l] \/ (Held(image, l) = Garbled /\ content'[l] = Lost)
    BY <2>1, <2>2
  <2>4. Kept(l)
    BY <1>1 DEF SectorsKept
  <2>5. CASE asked[l] # None
    <3>1. asked[l] \in Data /\ l \in DOMAIN image /\ image[l].data = asked[l]
      BY <1>1, <2>4, <2>5 DEF Kept, SectorsKept, Types
    <3>2. Held(image, l) = asked[l] /\ asked[l] # Garbled
      BY <3>1, Apart DEF Held
    <3>3. content'[l] = asked[l]
      BY <2>3, <3>2
    <3> QED  BY <2>5, <3>3 DEF Store!Flushed
  <2>6. CASE asked[l] = None
    <3>1. Held(image, l) = content[l] \/ (Held(image, l) = Garbled /\ content[l] = Lost)
      BY <2>4, <2>6 DEF Kept
    <3>2. CASE content[l] = Garbled
      <4>1. content'[l] \in {Garbled, Lost}
        BY <2>3, <3>1, <3>2, Apart
      <4> QED  BY <2>6, <3>2, <4>1 DEF Store!Flushed, Everywhere, ReadAs
    <3>3. CASE content[l] # Garbled
      <4>1. content'[l] = content[l]
        <5>1. CASE Held(image, l) = content[l]
          BY <2>3, <3>3, <5>1
        <5>2. CASE Held(image, l) = Garbled /\ content[l] = Lost
          <6>1. Held(ReadMappedImage(disk, file), l) = Lost
            BY <1>1, <5>2 DEF SectorsKept, HeldBy
          <6>2. Reaches(disk, image, Len(file))
            BY <1>1 DEF SectorsKept
          <6>3. Held(ReadMappedImage(disk, f), l) = Lost
            BY <1>1, <1>2, <1>3, <5>2, <6>1, <6>2, GapsStay
          <6> QED  BY <2>1, <5>2, <6>3
        <5> QED  BY <3>1, <5>1, <5>2
      <4> QED  BY <2>6, <3>3, <4>1 DEF Store!Flushed, ReadAs
    <3> QED  BY <3>2, <3>3
  <2> QED  BY <2>5, <2>6
<1>6. NoStrays' = NoStrays
  BY DEF NoStrays, AllLocations
<1> QED  BY <1>2, <1>4, <1>5, <1>6, NoneStray DEF Store!Flush, Store!OnDisk, Store!NothingAsked, Blank

LEMMA StepStores ==
    ASSUME IInv, IInv', OfPlaces(disk), [Next]_vars
    PROVE  [Store!Next]_Store!vars
<1>1. ASSUME NEW l \in Range(Blocks[disk]), NEW d \in Data, Put(l, d) PROVE Store!Next
  <2>1. l \in AllLocations
    BY DEF IInv, AllLocations
  <2>2. Store!Put(l, d)
    BY <1>1 DEF Put, Store!Put
  <2> QED  BY <2>1, <2>2 DEF Store!Next
<1>2. CASE Flush
  BY <1>2, FlushStores DEF Store!Next
<1>3. CASE FlushThrows
  BY <1>3, FlushThrowsIs DEF Store!Next, Store!FlushFails
<1>4. CASE Discard
  <2>1. content' = content
    BY <1>4, DiscardKept
  <2>2. content \in [AllLocations -> Data \cup {Garbled, Lost}]
    BY KeptIsTrue DEF ImageTrue, TypeOK
  <2>3. \A l \in AllLocations : content'[l] \in Store!Remains(l)
    BY <2>1 DEF Store!Remains
  <2>4. asked' = Blank /\ attempted' = FALSE
    BY <1>4 DEF Discard
  <2>5. \A l \in AllLocations : NoStrays[l] \in IF attempted THEN Store!Cleared(l) ELSE {NoStrays[l]}
    BY NoneStray
  <2> QED
    BY <2>1, <2>2, <2>3, <2>4, <2>5, NoneStray
    DEF Store!Next, Store!Discard, Store!OnDisk, Store!NothingAsked, Blank
<1>5. CASE vars' = vars
  BY <1>5 DEF vars, history, Store!vars
<1> QED  BY <1>1, <1>2, <1>3, <1>4, <1>5 DEF Next

\* On disks of these formats the interface is a sector store: a flush makes all
\* the changes, and only they, part of the file, and one that throws loses none.
THEOREM Stored == Spec /\ OfPlaces(disk) => StoreSpec
<1>1. OfPlaces(disk) /\ [Next]_vars => OfPlaces(disk)'
  <2> SUFFICES ASSUME OfPlaces(disk), [Next]_vars PROVE OfPlaces(disk)'
    OBVIOUS
  <2>1. disk' = disk
    BY DEF Next, Put, Flush, FlushThrows, Discard, vars
  <2> QED  BY <2>1 DEF OfPlaces
<1>2. Init /\ IInv /\ OfPlaces(disk) => Store!Init
  BY InitStores
<1>3. IInv /\ IInv' /\ OfPlaces(disk) /\ [Next]_vars => [Store!Next]_Store!vars
  BY StepStores
<1> QED  BY <1>1, <1>2, <1>3, Invariant, PTL DEF Spec, StoreSpec, Store!Spec
=============================================================================
