------------------------ MODULE Brother120_proofs ------------------------
(***************************************************************************)
(* Proofs about Brother120, for a table and a directory of any size, files *)
(* of any contents and flushes that fail at any track and any number of    *)
(* times.  The inductive invariant says of each directory and its table,   *)
(* on the disk and in memory, that the chains of the files are lists of    *)
(* sectors that end, that no two share a sector, and that what is free is  *)
(* in none.                                                                *)
(*                                                                         *)
(* For the refinement of FileStore a second invariant follows what was put *)
(* from the last flush to the disk: InStep.                                *)
(***************************************************************************)
EXTENDS Brother120, FunctionTheorems, FiniteSetTheorems, NaturalsInduction,
        WellFoundedInduction, TLAPS

\* The table links the sectors of c, each met once, from first to the end.
Linked(fat, first, c) ==
    /\ c \in Seq(Sectors)
    /\ first = IF Len(c) = 0 THEN End ELSE c[1]
    /\ \A i \in 1 .. Len(c) : fat[c[i]] = IF i = Len(c) THEN End ELSE c[i + 1]
    /\ \A i, j \in 1 .. Len(c) : c[i] = c[j] => i = j

Own(dirents, fat, i) == Chain(fat, dirents[i].startSector)

\* Each file has sectors of its own, none of them free or reserved.
Sound(dirents, fat) ==
    /\ Len(dirents) <= DirectorySize
    /\ \A s \in Reserved : fat[s] # 0
    /\ \A i \in 1 .. Len(dirents) :
          /\ Linked(fat, dirents[i].startSector, Own(dirents, fat, i))
          /\ Len(Own(dirents, fat, i)) = dirents[i].sectorLength
          /\ \A k \in 1 .. Len(Own(dirents, fat, i)) : Own(dirents, fat, i)[k] \notin Reserved
    /\ \A i, j \in 1 .. Len(dirents) : i # j =>
          \A k \in 1 .. Len(Own(dirents, fat, i)), l \in 1 .. Len(Own(dirents, fat, j)) :
             Own(dirents, fat, i)[k] # Own(dirents, fat, j)[l]

\* A directory with its table, either of which may be lost.
Kept(dirents, fat) ==
    /\ dirents \in Seq(Entries) \cup {Lost}
    /\ fat \in Tables \cup {Lost}
    /\ dirents # Lost /\ fat # Lost => Sound(dirents, fat)

Others == Blocks \ {DirBlock, FatBlock}

Intact(blocks) ==
    /\ Kept(blocks[DirBlock], blocks[FatBlock])
    /\ \A b \in Others : blocks[b] \in Data \cup {Lost}

IInv ==
    /\ Intact(disk) /\ Intact(content) /\ Intact(Current)
    /\ touched \subseteq Names \cup {Hidden}

-----------------------------------------------------------------------------
(* Chains.                                                                   *)

LEMMA LeastOf ==
    ASSUME NEW S \in SUBSET Nat, S # {}
    PROVE  \E m \in S : \A n \in S : m <= n
<1>1. PICK m \in S : \A n \in S : ~ (<<n, m>> \in OpToRel(<, Nat))
  BY NatLessThanWellFounded, WFMin
<1>2. ASSUME NEW n \in S PROVE m <= n
  <2>1. ~ (n < m)
    BY <1>1 DEF OpToRel
  <2> QED  BY <2>1
<1> QED  BY <1>2

LEMMA Sizes ==
    /\ SectorCount \in Nat /\ SectorCount > 2 /\ SectorCount < End
    /\ End \in Nat /\ End # 0 /\ End \notin Sectors /\ 0 \notin Sectors
    /\ Sectors \in SUBSET Nat /\ IsFiniteSet(Sectors)
    /\ Cardinality(Sectors) = SectorCount - 1
<1>1. SectorCount \in Nat /\ SectorCount < End /\ 2 \in Sectors
  BY Brother120Assumption DEF DirBlock, FatBlock
<1>2. SectorCount > 2
  BY <1>1 DEF Sectors
<1>3. IsFiniteSet(Sectors) /\ Cardinality(Sectors) = SectorCount - 1
  BY <1>1, <1>2, FS_Interval DEF Sectors
<1> QED  BY <1>1, <1>2, <1>3 DEF Sectors, End

\* A chain has no more sectors than there are.
LEMMA ChainFits ==
    ASSUME NEW fat, NEW first, NEW c, Linked(fat, first, c)
    PROVE  Len(c) \in Nat /\ Len(c) < SectorCount
<1>1. c \in Injection(1 .. Len(c), Sectors) /\ Len(c) \in Nat
  BY DEF Linked, Injection, IsInjective
<1>2. Cardinality(1 .. Len(c)) <= Cardinality(Sectors)
  BY <1>1, Sizes, FS_Injection
<1>3. Cardinality(1 .. Len(c)) = Len(c)
  <2>1. Cardinality(1 .. Len(c)) = IF 1 > Len(c) THEN 0 ELSE Len(c) - 1 + 1
    BY <1>1, FS_Interval
  <2> QED  BY <1>1, <2>1
<1> QED  BY <1>1, <1>2, <1>3, Sizes

\* Following the table gives what it links.
LEMMA ChainIs ==
    ASSUME NEW fat, NEW first, NEW c, Linked(fat, first, c)
    PROVE  Chain(fat, first) = c
<1> DEFINE L == Len(c)
           full == Append(c, End)
           Step(f, n) == IF n = 0 THEN <<first>>
                         ELSE IF Last(f[n - 1]) \in {0, End} THEN f[n - 1]
                              ELSE Append(f[n - 1], fat[Last(f[n - 1])])
           E(f) == f = [n \in 0 .. SectorCount |-> Step(f, n)]
           F == CHOOSE f : E(f)
           Upto(n) == [i \in 1 .. (IF n <= L THEN n + 1 ELSE L + 1) |-> full[i]]
           G == [n \in 0 .. SectorCount |-> Upto(n)]
<1>1. L \in Nat /\ L < SectorCount /\ c \in Seq(Sectors)
  BY ChainFits DEF Linked
<1>2. /\ full \in Seq(Sectors \cup {End}) /\ Len(full) = L + 1
      /\ full[L + 1] = End /\ first = full[1]
      /\ \A i \in 1 .. L : full[i] \in Sectors /\ fat[full[i]] = full[i + 1]
  BY <1>1 DEF Linked
<1>3. SectorCount \in Nat /\ End \notin Sectors /\ 0 \notin Sectors
  BY Sizes
<1> HIDE DEF L, full
<1>4. \A n \in 0 .. SectorCount :
         /\ Upto(n) \in Seq(Sectors \cup {End})
         /\ Len(Upto(n)) = IF n <= L THEN n + 1 ELSE L + 1
         /\ \A i \in 1 .. Len(Upto(n)) : Upto(n)[i] = full[i]
  BY <1>1, <1>2
<1>5. Upto(0) = <<first>>
  <2>1. Upto(0) = [i \in 1 .. 1 |-> full[i]]
    BY <1>1
  <2> QED  BY <1>2, <2>1
<1>6. ASSUME NEW n \in 1 .. SectorCount
      PROVE  Upto(n) = IF Last(Upto(n - 1)) \in {0, End} THEN Upto(n - 1)
                       ELSE Append(Upto(n - 1), fat[Last(Upto(n - 1))])
  <2>1. n - 1 \in 0 .. SectorCount /\ n \in 0 .. SectorCount
    BY <1>3
  <2>2. CASE n <= L
    <3>1. /\ Len(Upto(n - 1)) = n /\ Len(Upto(n)) = n + 1
          /\ Last(Upto(n - 1)) = full[n]
      BY <1>1, <1>3, <1>4, <2>1, <2>2 DEF Last
    <3>2. full[n] \notin {0, End} /\ fat[full[n]] = full[n + 1]
      BY <1>1, <1>2, <1>3, <2>2
    <3>3. Upto(n) = Append(Upto(n - 1), full[n + 1])
      <4> DEFINE u == Upto(n)  v == Upto(n - 1)
      <4>1. /\ u \in Seq(Sectors \cup {End}) /\ v \in Seq(Sectors \cup {End})
            /\ Len(v) = n /\ Len(u) = n + 1
            /\ \A i \in 1 .. n + 1 : u[i] = full[i]
            /\ \A i \in 1 .. n : v[i] = full[i]
        BY <1>4, <2>1, <3>1
      <4> HIDE DEF u, v
      <4>2. u = Append(v, full[n + 1])
        BY <4>1
      <4> QED  BY <4>2 DEF u, v
    <3> QED  BY <3>1, <3>2, <3>3
  <2>3. CASE n > L
    <3>1. Last(Upto(n - 1)) = full[L + 1]
      BY <1>1, <1>3, <1>4, <2>1, <2>3 DEF Last
    <3>2. (IF n <= L THEN n + 1 ELSE L + 1) = (IF n - 1 <= L THEN (n - 1) + 1 ELSE L + 1)
      BY <1>1, <1>3, <2>3
    <3> QED  BY <1>2, <3>1, <3>2
  <2> QED  BY <1>1, <1>3, <2>2, <2>3
<1> HIDE DEF Upto
<1>7. E(G)
  <2>1. ASSUME NEW n \in 0 .. SectorCount PROVE G[n] = Step(G, n)
    <3>1. CASE n = 0
      BY <1>5, <3>1
    <3>2. CASE n # 0
      <4>1. n \in 1 .. SectorCount /\ n - 1 \in 0 .. SectorCount
        BY <1>3, <3>2
      <4>2. G[n] = Upto(n) /\ G[n - 1] = Upto(n - 1)
        BY <4>1
      <4> HIDE DEF G
      <4> QED  BY <1>6, <3>2, <4>1, <4>2
    <3> QED  BY <3>1, <3>2
  <2> DEFINE H == [n \in 0 .. SectorCount |-> Step(G, n)]
  <2>2. DOMAIN G = 0 .. SectorCount /\ G = [n \in 0 .. SectorCount |-> G[n]]
    OBVIOUS
  <2> HIDE DEF G, Step
  <2>3. G = H
    BY <2>1, <2>2
  <2> QED  BY <2>3
<1>8. E(F)
  <2> HIDE DEF E, G
  <2> QED  BY <1>7, Zenon
<1>9. \A n \in 0 .. SectorCount : F[n] = Step(F, n)
  <2> HIDE DEF F, Step
  <2> QED  BY <1>8
<1> HIDE DEF E, F
<1>10. \A n \in 0 .. SectorCount : F[n] = G[n]
  <2> DEFINE S == {n \in 0 .. SectorCount : F[n] # G[n]}
  <2>1. SUFFICES ASSUME S # {} PROVE FALSE
    OBVIOUS
  <2>2. S \in SUBSET Nat
    OBVIOUS
  <2>3. PICK m \in S : \A n \in S : m <= n
    BY <2>1, <2>2, LeastOf
  <2>4. m \in 0 .. SectorCount /\ F[m] # G[m]
    OBVIOUS
  <2>5. CASE m = 0
    BY <1>5, <1>9, <2>4, <2>5
  <2>6. CASE m # 0
    <3>1. m \in 1 .. SectorCount /\ m - 1 \in 0 .. SectorCount
      BY <1>3, <2>4, <2>6
    <3>2. m - 1 \notin S
      <4> HIDE DEF S
      <4> QED  BY <2>3, <2>4
    <3>3. F[m - 1] = Upto(m - 1) /\ G[m] = Upto(m)
      BY <3>1, <3>2
    <3>4. F[m] = Step(F, m)
      BY <1>9, <2>4
    <3> HIDE DEF G, S
    <3> QED  BY <1>6, <2>4, <2>6, <3>1, <3>3, <3>4
  <2> QED  BY <2>5, <2>6
<1>11. Chain(fat, first) = Front(F[SectorCount])
  BY DEF Chain, F, E
<1>12. F[SectorCount] = Upto(SectorCount) /\ Len(Upto(SectorCount)) = L + 1
  BY <1>1, <1>3, <1>4, <1>10
<1>13. Front(Upto(SectorCount)) = c
  <2> DEFINE u == Upto(SectorCount)
  <2>1. /\ u \in Seq(Sectors \cup {End}) /\ Len(u) = L + 1
        /\ \A i \in 1 .. L : u[i] = c[i]
    BY <1>1, <1>3, <1>4, <1>12 DEF full, L
  <2> HIDE DEF u
  <2>2. Front(u) = c
    BY <1>1, <2>1 DEF Front, L
  <2> QED  BY <2>2 DEF u
<1> QED  BY <1>11, <1>12, <1>13

\* A chain is not disturbed by what is done to other sectors.
LEMMA LinkedStays ==
    ASSUME NEW fat, NEW first, NEW c, Linked(fat, first, c),
           NEW table, \A i \in 1 .. Len(c) : table[c[i]] = fat[c[i]]
    PROVE  Linked(table, first, c)
BY DEF Linked

-----------------------------------------------------------------------------
(* Allocating and freeing.                                                   *)

\* Each member of a finite set of numbers has its place in it.
LEMMA PlacesTaken ==
    ASSUME NEW S \in SUBSET Nat, IsFiniteSet(S), NEW n \in Nat, n < Cardinality(S)
    PROVE  \E s \in S : Cardinality({k \in S : k < s}) = n
<1> DEFINE Below(s) == {k \in S : k < s}
           Bad == {m \in Nat : m < Cardinality(S) /\ ~ \E s \in S : Cardinality(Below(s)) = m}
<1>0. \A k \in S : k \in Nat
  OBVIOUS
<1>1. Cardinality(S) \in Nat
  BY FS_CardinalityType
<1>2. Bad = {}
  <2>1. SUFFICES ASSUME Bad # {} PROVE FALSE
    OBVIOUS
  <2>2. Bad \in SUBSET Nat
    OBVIOUS
  <2>3. PICK m \in Bad : \A l \in Bad : m <= l
    BY <2>1, <2>2, LeastOf
  <2>4. m \in Nat /\ m < Cardinality(S) /\ \A s \in S : Cardinality(Below(s)) # m
    OBVIOUS
  <2>5. CASE m = 0
    <3>1. S # {}
      BY <2>4, <2>5, FS_EmptySet
    <3>2. PICK s \in S : \A k \in S : s <= k
      BY <3>1, LeastOf
    <3>3. Below(s) = {}
      <4>1. \A k \in S : ~ (k < s)
        BY <1>0, <3>2
      <4> QED  BY <4>1
    <3>4. Cardinality(Below(s)) = 0
      BY <3>3, FS_EmptySet
    <3> QED  BY <2>4, <2>5, <3>4
  <2>6. CASE m # 0
    <3>1. m - 1 \in Nat /\ m - 1 < Cardinality(S)
      BY <1>1, <2>4, <2>6
    <3>2. m - 1 \notin Bad
      <4> HIDE DEF Bad
      <4> QED  BY <2>3, <2>4
    <3>3. PICK s \in S : Cardinality(Below(s)) = m - 1
      BY <3>1, <3>2
    <3> DEFINE Above == {k \in S : k > s}
    <3>4. IsFiniteSet(Below(s)) /\ s \notin Below(s)
      BY FS_Subset
    <3>5. Cardinality(Below(s) \cup {s}) = m
      <4> HIDE DEF Below
      <4>1. Cardinality(Below(s) \cup {s}) = Cardinality(Below(s)) + 1
        BY <3>4, FS_AddElement
      <4> QED  BY <2>4, <3>3, <4>1
    <3>6. Above # {}
      <4> SUFFICES ASSUME Above = {} PROVE FALSE
        OBVIOUS
      <4>1. \A k \in S : k < s \/ k = s
        BY <1>0
      <4>2. S = Below(s) \cup {s}
        BY <4>1
      <4> HIDE DEF Below
      <4> QED  BY <1>1, <2>4, <3>5, <4>2
    <3>7. PICK t \in Above : \A k \in Above : t <= k
      BY <3>6, LeastOf
    <3>8. Below(t) = Below(s) \cup {s}
      <4>1. \A k \in S : k < t <=> k < s \/ k = s
        BY <1>0, <3>7
      <4> QED  BY <3>3, <4>1
    <3>9. t \in S /\ Cardinality(Below(t)) = m
      BY <3>5, <3>8
    <3> QED  BY <2>4, <3>9
  <2> QED  BY <2>5, <2>6
<1>3. n \notin Bad
  BY <1>2
<1> QED  BY <1>3

LEMMA FreeIs ==
    ASSUME NEW fat
    PROVE  /\ Free(fat) \in SUBSET Sectors /\ Free(fat) \in SUBSET Nat
           /\ IsFiniteSet(Free(fat)) /\ Cardinality(Free(fat)) \in Nat
<1>1. Free(fat) \in SUBSET Sectors
  BY DEF Free
<1> QED  BY <1>1, Sizes, FS_Subset, FS_CardinalityType

\* allocateSector() gives free sectors, each of them once.
LEMMA AllocatedIs ==
    ASSUME NEW fat, NEW n \in Nat, n <= Cardinality(Free(fat))
    PROVE  /\ Allocated(fat, n) \in [1 .. n -> Free(fat)]
           /\ \A i, j \in 1 .. n : Allocated(fat, n)[i] = Allocated(fat, n)[j] => i = j
<1> DEFINE Fr == Free(fat)
           Place(s) == Cardinality({k \in Fr : k < s})
           A == Allocated(fat, n)
<1>1. A = [i \in 1 .. n |-> CHOOSE s \in Fr : Place(s) = i - 1]
  BY DEF Allocated
<1>2. ASSUME NEW i \in 1 .. n PROVE A[i] \in Fr /\ Place(A[i]) = i - 1
  <2>1. i - 1 \in Nat /\ i - 1 < Cardinality(Fr)
    BY FreeIs
  <2>2. \E s \in Fr : Place(s) = i - 1
    BY <2>1, FreeIs, PlacesTaken
  <2>3. A[i] = CHOOSE s \in Fr : Place(s) = i - 1
    BY <1>1
  <2> HIDE DEF Place, A, Fr
  <2> QED  BY <2>2, <2>3, Zenon
<1>3. \A i \in 1 .. n : A[i] \in Fr
  BY <1>2
<1>4. A \in [1 .. n -> Fr]
  <2> HIDE DEF Place, Fr
  <2>1. A = [i \in 1 .. n |-> A[i]]
    BY <1>1
  <2> HIDE DEF A
  <2> QED  BY <1>3, <2>1
<1>5. ASSUME NEW i \in 1 .. n, NEW j \in 1 .. n, A[i] = A[j] PROVE i = j
  <2>1. Place(A[i]) = i - 1 /\ Place(A[j]) = j - 1
    BY <1>2
  <2> HIDE DEF A, Place
  <2> QED  BY <1>5, <2>1
<1> HIDE DEF A
<1>6. \A i, j \in 1 .. n : A[i] = A[j] => i = j
  BY <1>5
<1> QED  BY <1>4, <1>6 DEF A

\* putFile() links the sectors it has been given, and no others.
LEMMA ChainedIs ==
    ASSUME NEW fat \in Tables, NEW n \in Nat, NEW c \in [1 .. n -> Sectors],
           \A i, j \in 1 .. n : c[i] = c[j] => i = j
    PROVE  /\ Chained(fat, c) \in Tables
           /\ Linked(Chained(fat, c), FirstOf(c), c)
           /\ \A s \in Sectors : s \notin Range(c) => Chained(fat, c)[s] = fat[s]
           /\ \A s \in Sectors : s \in Range(c) => Chained(fat, c)[s] # 0
<1> DEFINE T == Chained(fat, c)
           at(s) == CHOOSE i \in DOMAIN c : c[i] = s
<1>1. c \in Seq(Sectors) /\ Len(c) = n /\ DOMAIN c = 1 .. n
  OBVIOUS
<1>2. \A s \in Range(c) : at(s) \in 1 .. n /\ c[at(s)] = s
  BY <1>1 DEF Range
<1>3. \A i \in 1 .. n : c[i] \in Range(c) /\ c[i] \in Sectors /\ at(c[i]) = i
  BY <1>1, <1>2 DEF Range
<1>4. \A s \in Sectors :
         T[s] = IF s \notin Range(c) THEN fat[s]
                ELSE IF at(s) = Len(c) THEN End ELSE c[at(s) + 1]
  BY DEF Chained
<1>5. DOMAIN T = Sectors /\ T = [s \in Sectors |-> T[s]]
  BY DEF Chained
<1> HIDE DEF T, at
<1>6. \A i \in 1 .. n : T[c[i]] = IF i = n THEN End ELSE c[i + 1]
  BY <1>1, <1>3, <1>4
<1>7. \A s \in Sectors : s \in Range(c) => T[s] \in {End} \cup Sectors
  <2> SUFFICES ASSUME NEW s \in Sectors, s \in Range(c) PROVE T[s] \in {End} \cup Sectors
    OBVIOUS
  <2>1. at(s) \in 1 .. n /\ T[s] = IF at(s) = n THEN End ELSE c[at(s) + 1]
    BY <1>1, <1>2, <1>4
  <2> QED  BY <2>1
<1>8. \A s \in Sectors : T[s] \in {0, End} \cup Sectors
  BY <1>4, <1>7 DEF Tables
<1>9. T \in Tables
  BY <1>5, <1>8 DEF Tables
<1>10. Linked(T, FirstOf(c), c)
  <2>1. FirstOf(c) = IF Len(c) = 0 THEN End ELSE c[1]
    <3>1. c = <<>> <=> Len(c) = 0
      BY <1>1
    <3> QED  BY <3>1 DEF FirstOf
  <2> QED  BY <1>1, <1>6, <2>1 DEF Linked
<1> QED  BY <1>4, <1>7, <1>9, <1>10, Sizes DEF T

-----------------------------------------------------------------------------
(* Directories.                                                              *)

\* The sectors of a file are not free.
LEMMA OwnIsTaken ==
    ASSUME NEW d \in Seq(Entries), NEW fat \in Tables, Sound(d, fat),
           NEW i \in 1 .. Len(d), NEW k \in 1 .. Len(Own(d, fat, i))
    PROVE  Own(d, fat, i)[k] \in Sectors /\ fat[Own(d, fat, i)[k]] # 0
<1> DEFINE c == Own(d, fat, i)
<1>1. Linked(fat, d[i].startSector, c)
  BY DEF Sound
<1> HIDE DEF c
<1>2. c \in Seq(Sectors) /\ k \in 1 .. Len(c)
  BY <1>1 DEF Linked, c
<1>3. fat[c[k]] = IF k = Len(c) THEN End ELSE c[k + 1]
  BY <1>1, <1>2 DEF Linked
<1>4. c[k] \in Sectors /\ (k # Len(c) => c[k + 1] \in Sectors)
  BY <1>2
<1> QED  BY <1>3, <1>4, Sizes DEF c

\* A file is entered with the first free sectors for a chain.
LEMMA EnteredSound ==
    ASSUME NEW d \in Seq(Entries), NEW fat \in Tables, Sound(d, fat),
           NEW n \in 0 .. MaxLength, n <= Cardinality(Free(fat)), Len(d) < DirectorySize,
           NEW e, e = Dirent(e.name, FirstOf(Allocated(fat, n)), n),
           e.name # Hidden => e.name \in Names \ LongNames
    PROVE  /\ Entered(d, e) \in Seq(Entries)
           /\ Chained(fat, Allocated(fat, n)) \in Tables
           /\ Sound(Entered(d, e), Chained(fat, Allocated(fat, n)))
           /\ Chain(Chained(fat, Allocated(fat, n)), FirstOf(Allocated(fat, n)))
              = Allocated(fat, n)
           /\ \A i \in 1 .. Len(d) :
                 /\ Own(d, Chained(fat, Allocated(fat, n)), i) = Own(d, fat, i)
                 /\ Range(Own(d, fat, i)) \cap Range(Allocated(fat, n)) = {}
<1> DEFINE c == Allocated(fat, n)
           T == Chained(fat, c)
           D == Entered(d, e)
<1>1. /\ n \in Nat /\ c \in [1 .. n -> Sectors] /\ Len(c) = n
      /\ \A i, j \in 1 .. n : c[i] = c[j] => i = j
      /\ \A i \in 1 .. n : c[i] \in Sectors /\ fat[c[i]] = 0
  <2>1. n \in Nat
    BY Brother120Assumption
  <2>2. c \in [1 .. n -> Free(fat)] /\ \A i, j \in 1 .. n : c[i] = c[j] => i = j
    BY <2>1, AllocatedIs
  <2> HIDE DEF c
  <2>3. \A i \in 1 .. n : c[i] \in Sectors /\ fat[c[i]] = 0
    BY <2>2 DEF Free
  <2>4. c \in [1 .. n -> Sectors] /\ Len(c) = n
    BY <2>1, <2>2, FreeIs
  <2> QED  BY <2>1, <2>2, <2>3, <2>4
<1> HIDE DEF c
<1>2. \A s : s \in Range(c) <=> \E i \in 1 .. n : s = c[i]
  BY <1>1 DEF Range
<1>3. /\ T \in Tables /\ Linked(T, FirstOf(c), c)
      /\ \A s \in Sectors : s \notin Range(c) => T[s] = fat[s]
      /\ \A s \in Sectors : s \in Range(c) => T[s] # 0
  BY <1>1, ChainedIs
<1> HIDE DEF T
<1>4. Chain(T, FirstOf(c)) = c
  BY <1>3, ChainIs
<1>5. ASSUME NEW i \in 1 .. Len(d)
      PROVE  /\ Own(d, T, i) = Own(d, fat, i)
             /\ Linked(T, d[i].startSector, Own(d, fat, i))
             /\ \A k \in 1 .. Len(Own(d, fat, i)), l \in 1 .. n : Own(d, fat, i)[k] # c[l]
             /\ Range(Own(d, fat, i)) \cap Range(c) = {}
  <2>1. \A k \in 1 .. Len(Own(d, fat, i)) :
           Own(d, fat, i)[k] \in Sectors /\ fat[Own(d, fat, i)[k]] # 0
    BY OwnIsTaken
  <2>2. Linked(fat, d[i].startSector, Own(d, fat, i))
    BY DEF Sound
  <2>3. \A k \in 1 .. Len(Own(d, fat, i)) : T[Own(d, fat, i)[k]] = fat[Own(d, fat, i)[k]]
    BY <1>1, <1>2, <1>3, <2>1
  <2>4. Linked(T, d[i].startSector, Own(d, fat, i))
    BY <2>2, <2>3, LinkedStays
  <2>5. Own(d, T, i) = Own(d, fat, i)
    BY <2>4, ChainIs DEF Own
  <2>6. \A k \in 1 .. Len(Own(d, fat, i)), l \in 1 .. n : Own(d, fat, i)[k] # c[l]
    BY <1>1, <2>1
  <2>7. Range(Own(d, fat, i)) \cap Range(c) = {}
    <3>1. Own(d, fat, i) \in Seq(Sectors)
      BY <2>2 DEF Linked
    <3>2. \A s : s \in Range(Own(d, fat, i))
                 <=> \E k \in 1 .. Len(Own(d, fat, i)) : s = Own(d, fat, i)[k]
      BY <3>1 DEF Range
    <3> QED  BY <1>2, <2>6, <3>2
  <2> QED  BY <2>4, <2>5, <2>6, <2>7
<1>6. \A s \in Reserved : T[s] # 0
  BY <1>3, Brother120Assumption DEF Sound
<1>7. Sound(d, T)
  BY <1>5, <1>6 DEF Sound
<1>8. CASE e.name = Hidden
  BY <1>3, <1>4, <1>5, <1>7, <1>8 DEF Entered, T, c
<1>9. CASE e.name # Hidden
  <2>1. D = Append(d, e)
    BY <1>9 DEF Entered
  <2>2. e.startSector = FirstOf(c) /\ e.sectorLength = n
    BY DEF Dirent, c
  <2>3. FirstOf(c) \in Sectors \cup {End}
    BY <1>1 DEF FirstOf
  <2>4. e \in Entries
    <3>1. e = [name |-> e.name, startSector |-> FirstOf(c), sectorLength |-> n]
      BY DEF Dirent, c
    <3> QED  BY <1>9, <2>3, <3>1 DEF Entries
  <2>5. /\ D \in Seq(Entries) /\ Len(D) = Len(d) + 1
        /\ D[Len(d) + 1] = e /\ \A i \in 1 .. Len(d) : D[i] = d[i]
    BY <2>1, <2>4
  <2> HIDE DEF D
  <2>6. /\ \A i \in 1 .. Len(d) : Own(D, T, i) = Own(d, T, i)
        /\ Own(D, T, Len(d) + 1) = c
    BY <1>4, <2>2, <2>5 DEF Own
  <2>7. ASSUME NEW i \in 1 .. Len(D)
        PROVE  /\ Linked(T, D[i].startSector, Own(D, T, i))
               /\ Len(Own(D, T, i)) = D[i].sectorLength
               /\ \A k \in 1 .. Len(Own(D, T, i)) : Own(D, T, i)[k] \notin Reserved
    <3>1. CASE i \in 1 .. Len(d)
      BY <1>7, <2>5, <2>6, <3>1 DEF Sound
    <3>2. CASE i = Len(d) + 1
      <4>1. \A k \in 1 .. n : c[k] \notin Reserved
        BY <1>1 DEF Sound
      <4> QED  BY <1>1, <1>3, <2>2, <2>5, <2>6, <3>2, <4>1
    <3> QED  BY <2>5, <3>1, <3>2
  <2>8. ASSUME NEW i \in 1 .. Len(D), NEW j \in 1 .. Len(D), i # j,
               NEW k \in 1 .. Len(Own(D, T, i)), NEW l \in 1 .. Len(Own(D, T, j))
        PROVE  Own(D, T, i)[k] # Own(D, T, j)[l]
    <3>1. CASE i \in 1 .. Len(d) /\ j \in 1 .. Len(d)
      BY <1>7, <2>6, <2>8, <3>1 DEF Sound
    <3>2. CASE i = Len(d) + 1 /\ j \in 1 .. Len(d)
      BY <1>1, <1>5, <2>6, <3>2
    <3>3. CASE i \in 1 .. Len(d) /\ j = Len(d) + 1
      BY <1>1, <1>5, <2>6, <3>3
    <3> QED  BY <2>5, <2>8, <3>1, <3>2, <3>3
  <2>9. Len(D) <= DirectorySize
    BY <2>5, Brother120Assumption
  <2>10. Sound(D, T)
    BY <1>6, <2>7, <2>8, <2>9 DEF Sound
  <2> QED  BY <1>3, <1>4, <1>5, <2>5, <2>10 DEF D, T, c
<1> QED  BY <1>8, <1>9

LEMMA RemoveAtIs ==
    ASSUME NEW S, NEW d \in Seq(S), NEW n \in 1 .. Len(d)
    PROVE  /\ RemoveAt(d, n) \in Seq(S) /\ Len(RemoveAt(d, n)) = Len(d) - 1
           /\ \A i \in 1 .. Len(RemoveAt(d, n)) :
                 RemoveAt(d, n)[i] = d[IF i < n THEN i ELSE i + 1]
<1> DEFINE front == SubSeq(d, 1, n - 1)
           rest  == SubSeq(d, n + 1, Len(d))
<1>1. /\ front \in Seq(S) /\ Len(front) = n - 1
      /\ \A i \in 1 .. n - 1 : front[i] = d[i]
  OBVIOUS
<1>2. /\ rest \in Seq(S) /\ Len(rest) = Len(d) - n
      /\ \A i \in 1 .. Len(d) - n : rest[i] = d[n + i]
  OBVIOUS
<1>3. RemoveAt(d, n) = front \o rest
  BY DEF RemoveAt
<1> HIDE DEF front, rest
<1>4. front \o rest \in Seq(S) /\ Len(front \o rest) = Len(d) - 1
  BY <1>1, <1>2
<1>5. ASSUME NEW i \in 1 .. Len(d) - 1
      PROVE  (front \o rest)[i] = d[IF i < n THEN i ELSE i + 1]
  <2>1. CASE i < n
    <3>1. i \in 1 .. n - 1 /\ (front \o rest)[i] = front[i]
      BY <1>1, <1>2, <2>1
    <3>2. front[i] = d[i] /\ (IF i < n THEN i ELSE i + 1) = i
      BY <1>1, <2>1, <3>1
    <3> QED  BY <3>1, <3>2
  <2>2. CASE i >= n
    <3>1. (front \o rest)[i] = rest[i - (n - 1)] /\ i - (n - 1) \in 1 .. Len(d) - n
      BY <1>1, <1>2, <2>2
    <3>2. n + (i - (n - 1)) = i + 1
      BY <2>2
    <3> QED  BY <1>2, <2>2, <3>1, <3>2
  <2>3. i < n \/ i >= n
    OBVIOUS
  <2> QED  BY <2>1, <2>2, <2>3, Zenon
<1> QED  BY <1>3, <1>4, <1>5

\* Of a file that is deleted the sectors are free, and those of no other.
LEMMA RemovedSound ==
    ASSUME NEW d \in Seq(Entries), NEW fat \in Tables, Sound(d, fat),
           NEW n \in 1 .. Len(d)
    PROVE  /\ RemoveAt(d, n) \in Seq(Entries)
           /\ Freed(fat, Own(d, fat, n)) \in Tables
           /\ Sound(RemoveAt(d, n), Freed(fat, Own(d, fat, n)))
           /\ \A i \in 1 .. Len(d) - 1 :
                 Own(RemoveAt(d, n), Freed(fat, Own(d, fat, n)), i)
                 = Own(d, fat, IF i < n THEN i ELSE i + 1)
<1> DEFINE c == Own(d, fat, n)
           T == Freed(fat, c)
           D == RemoveAt(d, n)
           old(i) == IF i < n THEN i ELSE i + 1
<1>1. /\ D \in Seq(Entries) /\ Len(D) = Len(d) - 1
      /\ \A i \in 1 .. Len(D) : D[i] = d[old(i)]
  BY RemoveAtIs
<1>2. /\ \A i \in 1 .. Len(D) : old(i) \in 1 .. Len(d) /\ old(i) # n
      /\ \A i, j \in 1 .. Len(D) : i # j => old(i) # old(j)
  BY <1>1
<1>3. c \in Seq(Sectors)
  BY DEF Sound, Linked
<1>4. \A s : s \in Range(c) <=> \E i \in 1 .. Len(c) : s = c[i]
  BY <1>3 DEF Range
<1>5. T \in Tables /\ \A s \in Sectors : T[s] = IF s \in Range(c) THEN 0 ELSE fat[s]
  BY DEF Freed, Tables
<1> HIDE DEF T, D, c, old
<1>6. ASSUME NEW i \in 1 .. Len(d), i # n
      PROVE  /\ Own(d, T, i) = Own(d, fat, i)
             /\ Linked(T, d[i].startSector, Own(d, fat, i))
  <2>1. \A k \in 1 .. Len(Own(d, fat, i)) :
           Own(d, fat, i)[k] \in Sectors /\ Own(d, fat, i)[k] \notin Range(c)
    <3>1. \A k \in 1 .. Len(Own(d, fat, i)) : Own(d, fat, i)[k] \in Sectors
      BY OwnIsTaken
    <3>2. \A k \in 1 .. Len(Own(d, fat, i)), l \in 1 .. Len(c) : Own(d, fat, i)[k] # c[l]
      BY <1>6 DEF Sound, c
    <3> QED  BY <1>4, <3>1, <3>2
  <2>2. Linked(fat, d[i].startSector, Own(d, fat, i))
    BY DEF Sound
  <2>3. \A k \in 1 .. Len(Own(d, fat, i)) : T[Own(d, fat, i)[k]] = fat[Own(d, fat, i)[k]]
    BY <1>5, <2>1
  <2>4. Linked(T, d[i].startSector, Own(d, fat, i))
    BY <2>2, <2>3, LinkedStays
  <2>5. Own(d, T, i) = Own(d, fat, i)
    BY <2>4, ChainIs DEF Own
  <2> QED  BY <2>4, <2>5
<1>7. \A i \in 1 .. Len(D) : Own(D, T, i) = Own(d, fat, old(i))
  BY <1>1, <1>2, <1>6 DEF Own
<1>8. \A s \in Reserved : T[s] # 0
  <2>1. \A s \in Reserved : s \in Sectors /\ fat[s] # 0
    BY Brother120Assumption DEF Sound
  <2>2. \A s \in Reserved : s \notin Range(c)
    BY <1>4 DEF Sound, c
  <2> QED  BY <1>5, <2>1, <2>2
<1>9. ASSUME NEW i \in 1 .. Len(D)
      PROVE  /\ Linked(T, D[i].startSector, Own(D, T, i))
             /\ Len(Own(D, T, i)) = D[i].sectorLength
             /\ \A k \in 1 .. Len(Own(D, T, i)) : Own(D, T, i)[k] \notin Reserved
  BY <1>1, <1>2, <1>6, <1>7 DEF Sound
<1>10. ASSUME NEW i \in 1 .. Len(D), NEW j \in 1 .. Len(D), i # j,
              NEW k \in 1 .. Len(Own(D, T, i)), NEW l \in 1 .. Len(Own(D, T, j))
       PROVE  Own(D, T, i)[k] # Own(D, T, j)[l]
  <2>1. /\ old(i) \in 1 .. Len(d) /\ old(j) \in 1 .. Len(d) /\ old(i) # old(j)
        /\ Own(D, T, i) = Own(d, fat, old(i)) /\ Own(D, T, j) = Own(d, fat, old(j))
    BY <1>2, <1>7, <1>10
  <2> QED  BY <1>10, <2>1 DEF Sound
<1>11. Len(D) <= DirectorySize
  BY <1>1, Brother120Assumption DEF Sound
<1>12. Sound(D, T)
  BY <1>8, <1>9, <1>10, <1>11 DEF Sound
<1> QED  BY <1>1, <1>5, <1>7, <1>12 DEF D, T, c, old

-----------------------------------------------------------------------------
(* The steps.                                                                *)

LEMMA BlocksAre ==
    /\ DirBlock \in Blocks /\ FatBlock \in Blocks /\ DirBlock # FatBlock
    /\ \A b \in Blocks : b = DirBlock \/ b = FatBlock \/ b \in Others
    /\ Others \subseteq Blocks /\ DirBlock \notin Others /\ FatBlock \notin Others
    /\ \A b \in Blocks : b + 1 \in Sectors
    /\ DirBlock + 1 \in Reserved /\ FatBlock + 1 \in Reserved
    /\ TrackOf[DirBlock] = TrackOf[FatBlock]
BY Sizes, Brother120Assumption DEF Blocks, Others, Sectors, DirBlock, FatBlock

LEMMA OverIs ==
    ASSUME NEW puts, NEW under, NEW b \in Blocks
    PROVE  Over(puts, under)[b] = IF puts[b] = None THEN under[b] ELSE puts[b]
BY DEF Over

\* Only the directory, the table and what is in the other blocks matter.
LEMMA IntactStays ==
    ASSUME NEW blocks, Intact(blocks),
           NEW left, left[DirBlock] = blocks[DirBlock], left[FatBlock] = blocks[FatBlock],
           \A b \in Others : left[b] \in Data \cup {Lost}
    PROVE  Intact(left)
BY DEF Intact

\* A list that is written is what the filesystem finds.
LEMMA CurrentIs ==
    ASSUME NEW d \in Seq(Entries), NEW fat \in Tables, NEW puts, NEW under
    PROVE  /\ Over(Over(WrittenDirectory(d, fat), puts), under)[DirBlock] = d
           /\ Over(Over(WrittenDirectory(d, fat), puts), under)[FatBlock] = fat
           /\ \A b \in Others :
                 /\ Over(Over(WrittenDirectory(d, fat), puts), under)[b] = Over(puts, under)[b]
                 /\ Over(WrittenDirectory(d, fat), puts)[b] = puts[b]
           /\ \A b \in Blocks : Over(WrittenDirectory(d, fat), puts)[b] = None
                                 => puts[b] = None
<1> DEFINE w == WrittenDirectory(d, fat)
<1>1. /\ w[DirBlock] = d /\ w[FatBlock] = fat
      /\ \A b \in Others : w[b] = None
  BY BlocksAre DEF WrittenDirectory, Untouched
<1>2. d # None /\ fat # None
  BY Brother120Assumption
<1> HIDE DEF w
<1>3. \A b \in Blocks :
         /\ Over(Over(w, puts), under)[b] =
               IF w[b] = None THEN Over(puts, under)[b] ELSE w[b]
         /\ Over(w, puts)[b] = IF w[b] = None THEN puts[b] ELSE w[b]
  <2> SUFFICES ASSUME NEW b \in Blocks
               PROVE  /\ Over(Over(w, puts), under)[b] =
                            IF w[b] = None THEN Over(puts, under)[b] ELSE w[b]
                      /\ Over(w, puts)[b] = IF w[b] = None THEN puts[b] ELSE w[b]
    OBVIOUS
  <2>1. Over(Over(w, puts), under)[b]
           = IF Over(w, puts)[b] = None THEN under[b] ELSE Over(w, puts)[b]
    BY OverIs
  <2>2. Over(w, puts)[b] = IF w[b] = None THEN puts[b] ELSE w[b]
    BY OverIs
  <2>3. Over(puts, under)[b] = IF puts[b] = None THEN under[b] ELSE puts[b]
    BY OverIs
  <2> QED  BY <2>1, <2>2, <2>3
<1> QED  BY <1>1, <1>2, <1>3, BlocksAre DEF w

\* The blocks of a file that is put hold its data, and the others are as before.
LEMMA StoredIs ==
    ASSUME NEW fat, \A s \in Reserved : fat[s] # 0,
           NEW n \in Nat, n <= Cardinality(Free(fat)),
           NEW data \in Seq(Data), n <= Len(data), NEW puts, NEW under,
           \A b \in Others : Over(puts, under)[b] \in Data \cup {Lost}
    PROVE  LET all == Over(Over(Stored(Allocated(fat, n), data), puts), under)
           IN  /\ all[DirBlock] = Over(puts, under)[DirBlock]
               /\ all[FatBlock] = Over(puts, under)[FatBlock]
               /\ \A b \in Others : all[b] \in Data \cup {Lost}
               /\ \A i \in 1 .. n : all[Allocated(fat, n)[i] - 1] = data[i]
               /\ \A b \in Blocks : b + 1 \notin Range(Allocated(fat, n))
                     => /\ all[b] = Over(puts, under)[b]
                        /\ Over(Stored(Allocated(fat, n), data), puts)[b] = puts[b]
               /\ \A b \in Blocks : Over(Stored(Allocated(fat, n), data), puts)[b] = None
                     => puts[b] = None
<1> DEFINE c == Allocated(fat, n)
           w == Stored(c, data)
<1>1. c \in [1 .. n -> Free(fat)] /\ \A i, j \in 1 .. n : c[i] = c[j] => i = j
  BY AllocatedIs
<1> HIDE DEF c
<1>2. \A s \in Range(c) : s \in Sectors /\ s \notin Reserved
                          /\ data[CHOOSE i \in DOMAIN c : c[i] = s] \in Data
  <2> SUFFICES ASSUME NEW s \in Range(c)
               PROVE  s \in Sectors /\ s \notin Reserved
                      /\ data[CHOOSE i \in DOMAIN c : c[i] = s] \in Data
    OBVIOUS
  <2>1. (CHOOSE i \in DOMAIN c : c[i] = s) \in 1 .. n
    BY <1>1 DEF Range
  <2>2. s \in Free(fat)
    BY <1>1 DEF Range
  <2> QED  BY <2>1, <2>2 DEF Free
<1>3. \A b \in Blocks : w[b] = IF b + 1 \in Range(c)
                               THEN data[CHOOSE i \in DOMAIN c : c[i] = b + 1] ELSE None
  BY DEF Stored
<1> HIDE DEF w
<1>4. w[DirBlock] = None /\ w[FatBlock] = None
  BY <1>2, <1>3, BlocksAre
<1>5. \A b \in Others : w[b] \in Data \cup {None}
  BY <1>2, <1>3, BlocksAre
<1>6. ASSUME NEW b \in Blocks
      PROVE  /\ Over(Over(w, puts), under)[b]
                = IF w[b] = None THEN Over(puts, under)[b] ELSE w[b]
             /\ Over(w, puts)[b] = IF w[b] = None THEN puts[b] ELSE w[b]
  <2>1. Over(Over(w, puts), under)[b]
           = IF Over(w, puts)[b] = None THEN under[b] ELSE Over(w, puts)[b]
    BY OverIs
  <2>2. Over(w, puts)[b] = IF w[b] = None THEN puts[b] ELSE w[b]
    BY OverIs
  <2>3. Over(puts, under)[b] = IF puts[b] = None THEN under[b] ELSE puts[b]
    BY OverIs
  <2> QED  BY <2>1, <2>2, <2>3
<1>7. ASSUME NEW i \in 1 .. n PROVE Over(Over(w, puts), under)[c[i] - 1] = data[i]
  <2>1. c[i] \in Range(c) /\ c[i] \in Sectors
    BY <1>1, <1>2 DEF Range
  <2>2. c[i] - 1 \in Blocks /\ (c[i] - 1) + 1 = c[i]
    BY <2>1, Sizes DEF Sectors, Blocks
  <2>3. (CHOOSE j \in DOMAIN c : c[j] = c[i]) = i
    BY <1>1
  <2>4. w[c[i] - 1] = data[i]
    BY <1>3, <2>1, <2>2, <2>3
  <2>5. data[i] # None
    BY Brother120Assumption
  <2> QED  BY <1>6, <2>2, <2>4, <2>5
<1>8. \A b \in Blocks : b + 1 \notin Range(c)
         => /\ Over(Over(w, puts), under)[b] = Over(puts, under)[b]
            /\ Over(w, puts)[b] = puts[b]
  BY <1>3, <1>6
<1>9. \A b \in Blocks : Over(w, puts)[b] = None => puts[b] = None
  BY <1>6
<1> QED  BY <1>4, <1>5, <1>6, <1>7, <1>8, <1>9, BlocksAre DEF w, c

LEMMA LeastOfTwo ==
    ASSUME NEW a \in Nat, NEW b \in Nat
    PROVE  Min({a, b}) \in Nat /\ Min({a, b}) <= a /\ Min({a, b}) <= b
<1>1. \E x \in {a, b} : \A y \in {a, b} : x <= y
  OBVIOUS
<1>2. Min({a, b}) \in {a, b} /\ \A y \in {a, b} : Min({a, b}) <= y
  BY <1>1 DEF Min
<1> QED  BY <1>2

\* What a readable directory that is intact says.
LEMMA ReadableIs ==
    ASSUME NEW blocks, Intact(blocks), Readable(blocks)
    PROVE  /\ Dirents(blocks) \in Seq(Entries) /\ Fat(blocks) \in Tables
           /\ Sound(Dirents(blocks), Fat(blocks))
           /\ Dirents(blocks) = blocks[DirBlock] /\ Fat(blocks) = blocks[FatBlock]
BY DEF Intact, Kept, Readable, Dirents, Fat

\* What putFile() leaves: the blocks of no file are disturbed, and when there is
\* room the directory has one more.
LEMMA PutFileGives ==
    ASSUME IInv, NEW name \in Names, NEW data \in Contents, PutFile(name, data),
           NEW d, d = Dirents(Current), NEW fat, fat = Fat(Current),
           NEW c, c = Allocated(fat, Len(data)),
           NEW e, e = Dirent(Shown[name], FirstOf(c), Len(data))
    PROVE  /\ d \in Seq(Entries) /\ fat \in Tables /\ Sound(d, fat)
           /\ UNCHANGED <<disk, content, attempts>>
           /\ data \in Seq(Data) /\ Len(data) \in 0 .. MaxLength
           /\ \A b \in Blocks : pending'[b] = None => pending[b] = None
           /\ \A b \in Others : Current'[b] \in Data \cup {Lost}
           /\ \A b \in Others : fat[b + 1] # 0 =>
                 pending'[b] = pending[b] /\ Current'[b] = Current[b]
           /\ \/ /\ touched' = touched
                 /\ Current'[DirBlock] = d /\ Current'[FatBlock] = fat
              \/ /\ Len(data) <= Cardinality(Free(fat)) /\ Len(d) < DirectorySize
                 /\ touched' = touched \cup {Shown[name]}
                 /\ Entered(d, e) \in Seq(Entries) /\ Chained(fat, c) \in Tables
                 /\ Sound(Entered(d, e), Chained(fat, c))
                 /\ Chain(Chained(fat, c), FirstOf(c)) = c
                 /\ \A i \in 1 .. Len(d) : Own(d, Chained(fat, c), i) = Own(d, fat, i)
                 /\ Current'[DirBlock] = Entered(d, e) /\ Current'[FatBlock] = Chained(fat, c)
                 /\ \A i \in 1 .. Len(data) : Current'[c[i] - 1] = data[i]
<1> DEFINE n == Min({Len(data), Cardinality(Free(fat))})
           a == Allocated(fat, n)
           put == Over(Stored(a, data), pending)
           fits == Fits(d, fat, data)
           dirent == Dirent(Shown[name], FirstOf(a), Len(data))
<1>1. /\ Readable(Current) /\ Len(data) <= MaxLength
      /\ pending' = IF fits THEN Over(WrittenDirectory(Entered(d, dirent), Chained(fat, a)), put)
                    ELSE put
      /\ touched' = IF fits THEN touched \cup {Shown[name]} ELSE touched
      /\ UNCHANGED <<disk, content, attempts>>
  BY DEF PutFile
<1>2. Intact(Current)
  BY DEF IInv
<1>3. /\ d \in Seq(Entries) /\ fat \in Tables /\ Sound(d, fat)
      /\ d = Current[DirBlock] /\ fat = Current[FatBlock]
  BY <1>1, <1>2, ReadableIs
<1>4. data \in Seq(Data) /\ Len(data) \in 0 .. MaxLength
  BY <1>1, Brother120Assumption
<1>5. n \in Nat /\ n <= Len(data) /\ n <= Cardinality(Free(fat))
  BY <1>4, FreeIs, LeastOfTwo
<1>6. fits => n = Len(data)
  <2> SUFFICES ASSUME fits PROVE n = Len(data)
    OBVIOUS
  <2>1. Len(data) <= Cardinality(Free(fat))
    BY DEF Fits
  <2>2. Cardinality(Free(fat)) \in Nat
    BY FreeIs
  <2>3. n \in {Len(data), Cardinality(Free(fat))}
    <3>1. \E x \in {Len(data), Cardinality(Free(fat))} :
             \A y \in {Len(data), Cardinality(Free(fat))} : x <= y
      BY <1>4, <2>1, <2>2
    <3> QED  BY <3>1 DEF Min
  <2> QED  BY <1>4, <1>5, <2>1, <2>2, <2>3
<1> HIDE DEF n
<1>7. /\ Over(put, content)[DirBlock] = d /\ Over(put, content)[FatBlock] = fat
      /\ \A b \in Others : Over(put, content)[b] \in Data \cup {Lost}
      /\ \A i \in 1 .. n : Over(put, content)[a[i] - 1] = data[i]
      /\ \A b \in Blocks : b + 1 \notin Range(a)
            => Over(put, content)[b] = Current[b] /\ put[b] = pending[b]
      /\ \A b \in Blocks : put[b] = None => pending[b] = None
  <2>1. \A s \in Reserved : fat[s] # 0
    BY <1>3 DEF Sound
  <2>2. \A b \in Others : Over(pending, content)[b] \in Data \cup {Lost}
    BY <1>2 DEF Intact, Current
  <2> QED  BY <1>3, <1>4, <1>5, <2>1, <2>2, StoredIs DEF Current
<1>8. a \in [1 .. n -> Free(fat)]
  BY <1>5, AllocatedIs
<1>9. \A b \in Others : fat[b + 1] # 0 => b + 1 \notin Range(a)
  <2>1. \A s \in Range(a) : fat[s] = 0
    BY <1>8 DEF Range, Free
  <2> QED  BY <2>1
<1>10. Current' = Over(pending', content)
  BY <1>1 DEF Current
<1> HIDE DEF put, a
<1>11. CASE ~fits
  BY <1>1, <1>3, <1>4, <1>7, <1>9, <1>10, <1>11, BlocksAre
<1>12. CASE fits
  <2>1. Len(data) <= Cardinality(Free(fat)) /\ Len(d) < DirectorySize
    BY <1>12 DEF Fits
  <2>2. n = Len(data) /\ a = c
    BY <1>6, <1>12 DEF a
  <2>3. dirent = e
    BY <2>2
  <2>4. /\ e = Dirent(e.name, FirstOf(c), Len(data))
        /\ e.name # Hidden => e.name \in Names \ LongNames
    BY Brother120Assumption DEF Dirent
  <2> DEFINE D == Entered(d, e)
             T == Chained(fat, c)
  <2>5. /\ D \in Seq(Entries) /\ T \in Tables /\ Sound(D, T)
        /\ Chain(T, FirstOf(c)) = c
        /\ \A i \in 1 .. Len(d) : Own(d, T, i) = Own(d, fat, i)
    BY <1>3, <1>4, <2>1, <2>4, EnteredSound
  <2>6. pending' = Over(WrittenDirectory(D, T), put)
    BY <1>1, <1>12, <2>2, <2>3
  <2> HIDE DEF D, T, dirent
  <2>7. /\ Over(pending', content)[DirBlock] = D /\ Over(pending', content)[FatBlock] = T
        /\ \A b \in Others : /\ Over(pending', content)[b] = Over(put, content)[b]
                             /\ pending'[b] = put[b]
        /\ \A b \in Blocks : pending'[b] = None => put[b] = None
    BY <2>5, <2>6, CurrentIs
  <2>8. ASSUME NEW i \in 1 .. Len(data) PROVE Over(pending', content)[c[i] - 1] = data[i]
    <3>1. c[i] \in Sectors /\ fat[c[i]] = 0
      BY <1>8, <2>2 DEF Free
    <3>2. c[i] \notin Reserved
      BY <1>3, <3>1 DEF Sound
    <3>3. c[i] - 1 \in Blocks /\ (c[i] - 1) + 1 = c[i]
      BY <3>1, Sizes DEF Sectors, Blocks
    <3>4. c[i] - 1 \in Others
      BY <3>2, <3>3, BlocksAre
    <3> QED  BY <1>7, <2>2, <2>7, <3>4
  <2>9. /\ \A b \in Others : Over(pending', content)[b] \in Data \cup {Lost}
        /\ \A b \in Others : fat[b + 1] # 0 =>
              pending'[b] = pending[b] /\ Over(pending', content)[b] = Current[b]
        /\ \A b \in Blocks : pending'[b] = None => pending[b] = None
    BY <1>7, <1>9, <2>7, BlocksAre
  <2> QED  BY <1>1, <1>3, <1>4, <1>10, <1>12, <2>1, <2>5, <2>7, <2>8, <2>9 DEF D, T
<1> QED  BY <1>11, <1>12

LEMMA PutFileStep ==
    ASSUME IInv, NEW name \in Names, NEW data \in Contents, PutFile(name, data)
    PROVE  IInv'
<1> DEFINE d == Dirents(Current)
           fat == Fat(Current)
           c == Allocated(fat, Len(data))
           e == Dirent(Shown[name], FirstOf(c), Len(data))
<1>1. /\ d \in Seq(Entries) /\ fat \in Tables /\ Sound(d, fat)
      /\ UNCHANGED <<disk, content>>
      /\ \A b \in Others : Current'[b] \in Data \cup {Lost}
      /\ \/ /\ touched' = touched
            /\ Current'[DirBlock] = d /\ Current'[FatBlock] = fat
         \/ /\ touched' = touched \cup {Shown[name]}
            /\ Entered(d, e) \in Seq(Entries) /\ Chained(fat, c) \in Tables
            /\ Sound(Entered(d, e), Chained(fat, c))
            /\ Current'[DirBlock] = Entered(d, e) /\ Current'[FatBlock] = Chained(fat, c)
  BY PutFileGives
<1> HIDE DEF d, fat, c, e
<1>2. Intact(Current')
  <2>1. Kept(Current'[DirBlock], Current'[FatBlock])
    BY <1>1 DEF Kept
  <2> DEFINE now == Current'
  <2> HIDE DEF now
  <2>2. Intact(now)
    BY <1>1, <2>1 DEF Intact, now
  <2> QED  BY <2>2 DEF now
<1>3. touched' \subseteq Names \cup {Hidden}
  BY <1>1, Brother120Assumption DEF IInv
<1> QED  BY <1>1, <1>2, <1>3 DEF IInv

\* What deleteFile() leaves: the directory without the first file of the name, and
\* the sectors of that one free.
LEMMA DeleteFileGives ==
    ASSUME IInv, NEW name \in Names, DeleteFile(name),
           NEW d, d = Dirents(Current), NEW fat, fat = Fat(Current),
           NEW n, n = FindFile(Current, name)
    PROVE  /\ d \in Seq(Entries) /\ fat \in Tables /\ Sound(d, fat)
           /\ n \in 1 .. Len(d) /\ d[n].name = name
           /\ \A i \in 1 .. Len(d) : d[i].name = name => n <= i
           /\ UNCHANGED <<disk, content, attempts>>
           /\ \A b \in Blocks : pending'[b] = None => pending[b] = None
           /\ \A b \in Others : pending'[b] = pending[b] /\ Current'[b] = Current[b]
           /\ touched' = touched \cup {name}
           /\ Current'[DirBlock] = RemoveAt(d, n)
           /\ Current'[FatBlock] = Freed(fat, Own(d, fat, n))
<1> DEFINE D == RemoveAt(d, n)
           T == Freed(fat, Own(d, fat, n))
<1>1. /\ Readable(Current) /\ Named(Current, name) # {}
      /\ pending' = Over(WrittenDirectory(D, T), pending)
      /\ touched' = touched \cup {name}
      /\ UNCHANGED <<disk, content, attempts>>
  BY DEF DeleteFile, Own
<1>2. Intact(Current)
  BY DEF IInv
<1>3. d \in Seq(Entries) /\ fat \in Tables /\ Sound(d, fat)
  BY <1>1, <1>2, ReadableIs
<1>4. /\ n \in 1 .. Len(d) /\ d[n].name = name
      /\ \A i \in 1 .. Len(d) : d[i].name = name => n <= i
  <2> DEFINE S == Named(Current, name)
  <2>1. \A i : i \in S <=> i \in 1 .. Len(d) /\ d[i].name = name
    BY <1>3 DEF Named
  <2>2. S \in SUBSET Nat /\ S # {}
    BY <1>1, <2>1
  <2> HIDE DEF S
  <2>3. \E x \in S : \A y \in S : x <= y
    BY <2>2, LeastOf
  <2>4. Min(S) \in S /\ \A y \in S : Min(S) <= y
    BY <2>3 DEF Min
  <2> QED  BY <2>1, <2>4 DEF FindFile, S
<1>5. D \in Seq(Entries) /\ T \in Tables
  BY <1>3, <1>4, RemovedSound
<1> HIDE DEF D, T
<1>6. Current' = Over(pending', content)
  BY <1>1 DEF Current
<1>7. /\ Over(pending', content)[DirBlock] = D /\ Over(pending', content)[FatBlock] = T
      /\ \A b \in Others : /\ Over(pending', content)[b] = Over(pending, content)[b]
                           /\ pending'[b] = pending[b]
      /\ \A b \in Blocks : pending'[b] = None => pending[b] = None
  BY <1>1, <1>5, CurrentIs
<1> QED  BY <1>1, <1>3, <1>4, <1>6, <1>7 DEF D, T, Current

LEMMA DeleteFileStep ==
    ASSUME IInv, NEW name \in Names, DeleteFile(name)
    PROVE  IInv'
<1> DEFINE d == Dirents(Current)
           fat == Fat(Current)
           n == FindFile(Current, name)
           D == RemoveAt(d, n)
           T == Freed(fat, Own(d, fat, n))
<1>1. /\ d \in Seq(Entries) /\ fat \in Tables /\ Sound(d, fat) /\ n \in 1 .. Len(d)
      /\ UNCHANGED <<disk, content>>
      /\ \A b \in Others : Current'[b] = Current[b]
      /\ touched' = touched \cup {name}
      /\ Current'[DirBlock] = D /\ Current'[FatBlock] = T
  BY DeleteFileGives
<1>2. D \in Seq(Entries) /\ T \in Tables /\ Sound(D, T)
  BY <1>1, RemovedSound
<1> HIDE DEF d, fat, n, D, T
<1>3. Intact(Current')
  <2>1. Kept(Current'[DirBlock], Current'[FatBlock])
    BY <1>1, <1>2 DEF Kept
  <2>2. \A b \in Others : Current'[b] \in Data \cup {Lost}
    BY <1>1 DEF IInv, Intact
  <2> DEFINE now == Current'
  <2> HIDE DEF now
  <2>3. Intact(now)
    BY <2>1, <2>2 DEF Intact, now
  <2> QED  BY <2>3 DEF now
<1>4. touched' \subseteq Names \cup {Hidden}
  BY <1>1 DEF IInv
<1> QED  BY <1>1, <1>3, <1>4 DEF IInv

\* Nothing put: what the filesystem finds is what the disk held.
LEMMA NothingOver ==
    ASSUME NEW blocks, Intact(blocks)
    PROVE  Intact(Over(Untouched, blocks))
<1>1. \A b \in Blocks : Over(Untouched, blocks)[b] = blocks[b]
  BY DEF Over, Untouched
<1>2. \A b \in Others : blocks[b] \in Data \cup {Lost}
  BY DEF Intact
<1> HIDE DEF Intact
<1> QED  BY <1>1, <1>2, BlocksAre, IntactStays

\* A disk that takes the directory and the table from one place.
LEMMA IntactMixed ==
    ASSUME NEW old, Intact(old), NEW new, Intact(new), NEW left,
           \A b \in Blocks : left[b] \in {old[b], new[b], Lost},
           \/ left[DirBlock] = old[DirBlock] /\ left[FatBlock] = old[FatBlock]
           \/ /\ left[DirBlock] \in {new[DirBlock], Lost}
              /\ left[FatBlock] \in {new[FatBlock], Lost}
    PROVE  Intact(left)
<1>1. \A b \in Others : left[b] \in Data \cup {Lost}
  BY BlocksAre DEF Intact
<1>2. Kept(left[DirBlock], left[FatBlock])
  BY DEF Intact, Kept
<1> QED  BY <1>1, <1>2 DEF Intact

\* The directory and the table are written together.
LEMMA RewrittenIs == DirBlock \in Rewritten <=> FatBlock \in Rewritten
BY BlocksAre DEF Rewritten

LEMMA FlushStep == ASSUME IInv, Flush PROVE IInv'
<1>1. /\ \A b \in Blocks : disk'[b] = IF b \in Rewritten THEN Current[b] ELSE disk[b]
      /\ content' = disk' /\ pending' = Untouched /\ touched' = {}
  BY DEF Flush
<1>2. Intact(disk')
  <2>1. \A b \in Blocks : disk'[b] \in {disk[b], Current[b], Lost}
    BY <1>1
  <2>2. \/ disk'[DirBlock] = disk[DirBlock] /\ disk'[FatBlock] = disk[FatBlock]
        \/ /\ disk'[DirBlock] \in {Current[DirBlock], Lost}
           /\ disk'[FatBlock] \in {Current[FatBlock], Lost}
    BY <1>1, RewrittenIs, BlocksAre
  <2>3. Intact(disk) /\ Intact(Current)
    BY DEF IInv
  <2> DEFINE cur == Current
             left == disk'
  <2> HIDE DEF cur, left
  <2>4. Intact(left)
    BY <2>1, <2>2, <2>3, IntactMixed DEF cur, left
  <2> QED  BY <2>4 DEF left
<1>3. Current' = Over(Untouched, disk')
  BY <1>1 DEF Current
<1>4. Intact(Over(Untouched, disk'))
  BY <1>2, NothingOver
<1> QED  BY <1>1, <1>2, <1>3, <1>4 DEF IInv

\* What a flush that fails leaves: each block as it was, as it should be or lost,
\* and the first track as it was, or written before all others.
LEMMA FlushFailsGives ==
    ASSUME FlushFails
    PROVE  /\ UNCHANGED <<content, pending, touched>> /\ attempts' = attempts \cup {list}
           /\ disk' = [b \in Blocks |-> disk'[b]]
           /\ \A b \in Blocks : disk'[b] \in {disk[b], Current[b], Lost}
           /\ \A b \in Blocks : b \notin Rewritten => disk'[b] = disk[b]
           /\ \/ \A b \in Blocks : disk'[b] = disk[b]
              \/ DirBlock \notin Rewritten /\ FatBlock \notin Rewritten
              \/ /\ disk'[DirBlock] \in {Current[DirBlock], Lost}
                 /\ disk'[FatBlock] \in {Current[FatBlock], Lost}
<1>1. UNCHANGED <<content, pending, touched>> /\ attempts' = attempts \cup {list}
  BY DEF FlushFails
<1>2. PICK t \in {TrackOf[b] : b \in Rewritten} :
         LET At == {b \in Blocks : TrackOf[b] = t}
         IN  \E left \in {[b \in At |-> disk[b]]} \cup
                         {[b \in At |-> IF b \in bad THEN Lost ELSE Current[b]] :
                              bad \in SUBSET At} :
                 disk' = [b \in Blocks |->
                             IF b \in At THEN left[b]
                             ELSE IF b \in Rewritten /\ TrackOf[b] < t THEN Current[b]
                             ELSE disk[b]]
  BY DEF FlushFails
<1> DEFINE At == {b \in Blocks : TrackOf[b] = t}
<1>3. PICK left \in {[b \in At |-> disk[b]]} \cup
                    {[b \in At |-> IF b \in bad THEN Lost ELSE Current[b]] : bad \in SUBSET At} :
         disk' = [b \in Blocks |->
                     IF b \in At THEN left[b]
                     ELSE IF b \in Rewritten /\ TrackOf[b] < t THEN Current[b]
                     ELSE disk[b]]
  BY <1>2
<1>4. \/ \A b \in At : left[b] = disk[b]
      \/ \A b \in At : left[b] \in {Lost, Current[b]}
  BY <1>3
<1>5. /\ \A b \in Blocks : b \in At => disk'[b] = left[b]
      /\ \A b \in Blocks : b \notin At =>
            disk'[b] = IF b \in Rewritten /\ TrackOf[b] < t THEN Current[b] ELSE disk[b]
      /\ disk' = [b \in Blocks |-> disk'[b]]
  BY <1>3
<1>6. DirBlock \in At <=> FatBlock \in At
  BY BlocksAre
<1>7. \A b \in Blocks : b \notin Rewritten => b \notin At
  BY DEF Rewritten
<1>8. \A b \in Blocks : disk'[b] \in {disk[b], Current[b], Lost}
  BY <1>4, <1>5
<1>9. \A b \in Blocks : b \notin Rewritten => disk'[b] = disk[b]
  BY <1>5, <1>7
<1>10. \A b \in Blocks : TrackOf[DirBlock] <= TrackOf[b] /\ TrackOf[b] \in Nat
  BY Sizes, Brother120Assumption DEF Blocks, DirBlock
<1>11. t \in Nat /\ TrackOf[DirBlock] <= t
  BY <1>2, <1>10 DEF Rewritten
<1>12. CASE DirBlock \notin Rewritten
  BY <1>1, <1>5, <1>8, <1>9, <1>12, RewrittenIs
<1>13. CASE DirBlock \in Rewritten /\ DirBlock \notin At
  <2>1. TrackOf[DirBlock] # t
    BY <1>13, BlocksAre
  <2>2. TrackOf[DirBlock] < t /\ TrackOf[FatBlock] < t
    BY <1>10, <1>11, <2>1, BlocksAre
  <2>3. disk'[DirBlock] = Current[DirBlock] /\ disk'[FatBlock] = Current[FatBlock]
    BY <1>5, <1>6, <1>13, <2>2, RewrittenIs, BlocksAre
  <2> QED  BY <1>1, <1>5, <1>8, <1>9, <2>3
<1>14. CASE DirBlock \in At
  <2>1. t = TrackOf[DirBlock]
    BY <1>14
  <2>2. \A b \in Blocks : ~ (TrackOf[b] < t)
    BY <1>10, <2>1, BlocksAre
  <2>3. CASE \A b \in At : left[b] = disk[b]
    <3>1. \A b \in Blocks : disk'[b] = disk[b]
      <4> HIDE DEF At
      <4> QED  BY <1>5, <2>2, <2>3
    <3> QED  BY <1>1, <1>5, <1>8, <1>9, <3>1
  <2>4. CASE \A b \in At : left[b] \in {Lost, Current[b]}
    <3>1. /\ disk'[DirBlock] \in {Current[DirBlock], Lost}
          /\ disk'[FatBlock] \in {Current[FatBlock], Lost}
      <4> HIDE DEF At
      <4> QED  BY <1>5, <1>6, <1>14, <2>4, BlocksAre
    <3> QED  BY <1>1, <1>5, <1>8, <1>9, <3>1
  <2> QED  BY <1>4, <2>3, <2>4
<1> QED  BY <1>12, <1>13, <1>14

LEMMA FlushFailsStep == ASSUME IInv, FlushFails PROVE IInv'
<1>1. /\ UNCHANGED <<content, pending, touched>>
      /\ \A b \in Blocks : disk'[b] \in {disk[b], Current[b], Lost}
      /\ \A b \in Blocks : b \notin Rewritten => disk'[b] = disk[b]
      /\ \/ \A b \in Blocks : disk'[b] = disk[b]
         \/ DirBlock \notin Rewritten /\ FatBlock \notin Rewritten
         \/ /\ disk'[DirBlock] \in {Current[DirBlock], Lost}
            /\ disk'[FatBlock] \in {Current[FatBlock], Lost}
  BY FlushFailsGives
<1>2. \/ disk'[DirBlock] = disk[DirBlock] /\ disk'[FatBlock] = disk[FatBlock]
      \/ /\ disk'[DirBlock] \in {Current[DirBlock], Lost}
         /\ disk'[FatBlock] \in {Current[FatBlock], Lost}
  BY <1>1, BlocksAre
<1>3. Intact(disk) /\ Intact(Current)
  BY DEF IInv
<1> DEFINE cur == Current
           now == disk'
<1> HIDE DEF cur, now
<1>4. Intact(now)
  BY <1>1, <1>2, <1>3, IntactMixed DEF cur, now
<1>5. Current' = Current
  BY <1>1 DEF Current
<1> QED  BY <1>1, <1>4, <1>5 DEF IInv, now

LEMMA DiscardStep == ASSUME IInv, Discard PROVE IInv'
<1>1. disk' = disk /\ content' = disk /\ pending' = Untouched /\ touched' = {}
  BY DEF Discard
<1>2. Intact(disk) /\ Intact(Over(Untouched, disk))
  BY NothingOver DEF IInv
<1>3. Current' = Over(Untouched, disk)
  BY <1>1 DEF Current
<1> QED  BY <1>1, <1>2, <1>3 DEF IInv

LEMMA InitIInv == ASSUME Init PROVE IInv
<1>1. disk = Formatted /\ content = Formatted /\ pending = Untouched /\ touched = {}
  BY DEF Init
<1>2. /\ Formatted[DirBlock] = <<>>
      /\ Formatted[FatBlock] = [s \in Sectors |-> IF s \in Reserved THEN End ELSE 0]
      /\ \A b \in Others : Formatted[b] \in Data
  BY BlocksAre, Brother120Assumption DEF Formatted
<1>3. Sound(<<>>, Formatted[FatBlock]) /\ Formatted[FatBlock] \in Tables
  <2>1. \A s \in Reserved : Formatted[FatBlock][s] # 0
    BY <1>2, Sizes, Brother120Assumption
  <2>2. Formatted[FatBlock] \in Tables
    BY <1>2 DEF Tables
  <2>3. Len(<<>>) <= DirectorySize
    BY Brother120Assumption
  <2> QED  BY <2>1, <2>2, <2>3 DEF Sound
<1>4. Intact(Formatted)
  <2>1. <<>> \in Seq(Entries)
    OBVIOUS
  <2> QED  BY <1>2, <1>3, <2>1 DEF Intact, Kept
<1>5. Intact(Over(Untouched, Formatted))
  BY <1>4, NothingOver
<1> QED  BY <1>1, <1>4, <1>5 DEF IInv, Current

\* The inductive invariant holds.
THEOREM Invariance == Spec => []IInv
<1>1. IInv /\ [Next]_vars => IInv'
  <2> SUFFICES ASSUME IInv, [Next]_vars PROVE IInv'
    OBVIOUS
  <2>1. CASE UNCHANGED vars
    BY <2>1 DEF vars, IInv, Current
  <2>2. CASE Next
    BY <2>2, PutFileStep, DeleteFileStep, FlushStep, FlushFailsStep, DiscardStep DEF Next
  <2> QED  BY <2>1, <2>2
<1> QED  BY <1>1, InitIInv, PTL DEF Spec

\* The chains of the files are intact: each is of the length its entry says, ends,
\* and shares no sector with another or with the directory and the table; in what
\* the filesystem finds and on the disk, wherever a flush has failed
\* (brother120fs.cc over FluxSectorInterface::flushChanges()).
THEOREM ChainsCorrect == Spec => []DiskIntact
<1>1. ASSUME NEW blocks, Intact(blocks) PROVE ChainsIntact(blocks)
  <2> SUFFICES ASSUME Readable(blocks) PROVE ChainsIntact(blocks)
    BY DEF ChainsIntact
  <2> DEFINE d == Dirents(blocks)
             fat == Fat(blocks)
             c(i) == Chain(fat, d[i].startSector)
  <2>1. d \in Seq(Entries) /\ Sound(d, fat)
    BY <1>1, ReadableIs
  <2>2. \A i \in 1 .. Len(d) : c(i) = Own(d, fat, i)
    BY DEF Own
  <2> HIDE DEF d, fat
  <2>3. \A i \in 1 .. Len(d) :
           /\ c(i) \in Seq(Sectors) /\ Len(c(i)) = d[i].sectorLength
           /\ \A k, l \in 1 .. Len(c(i)) : c(i)[k] = c(i)[l] => k = l
           /\ \A k \in 1 .. Len(c(i)) : c(i)[k] \notin Reserved
    BY <2>1, <2>2 DEF Sound, Linked
  <2>4. \A i, j \in 1 .. Len(d) : i # j =>
           \A k \in 1 .. Len(c(i)), l \in 1 .. Len(c(j)) : c(i)[k] # c(j)[l]
    BY <2>1, <2>2 DEF Sound
  <2> HIDE DEF c
  <2>5. \A i \in 1 .. Len(d) : DOMAIN c(i) = 1 .. Len(c(i))
    BY <2>3
  <2>6. ASSUME NEW i \in 1 .. Len(d)
        PROVE  /\ IsInjective(c(i)) /\ Len(c(i)) = d[i].sectorLength
               /\ Range(c(i)) \cap Reserved = {}
    <3>1. IsInjective(c(i))
      BY <2>3, <2>5 DEF IsInjective
    <3>2. Range(c(i)) \cap Reserved = {}
      BY <2>3, <2>5 DEF Range
    <3> QED  BY <2>3, <3>1, <3>2
  <2>7. \A i, j \in 1 .. Len(d) : i # j => Range(c(i)) \cap Range(c(j)) = {}
    BY <2>4, <2>5 DEF Range
  <2>8. DOMAIN d = 1 .. Len(d) /\ Len(d) <= DirectorySize
    BY <2>1 DEF Sound
  <2> QED  BY <2>6, <2>7, <2>8 DEF ChainsIntact, c, d, fat
<1>2. ASSUME NEW blocks, Intact(blocks)
      PROVE  /\ Dirents(blocks) = Lost \/ Dirents(blocks) \in Seq(Entries)
             /\ Fat(blocks) = Lost \/ Fat(blocks) \in Tables
             /\ \A b \in Blocks \ {DirBlock, FatBlock} : blocks[b] \in Data \cup {Lost}
  BY <1>2 DEF Intact, Kept, Dirents, Fat, Others
<1>3. IInv => DiskIntact
  <2> SUFFICES ASSUME IInv PROVE DiskIntact
    OBVIOUS
  <2>1. Intact(disk) /\ Intact(content) /\ Intact(Current) /\ touched \subseteq Names \cup {Hidden}
    BY DEF IInv
  <2>2. TypeOK
    BY <1>2, <2>1 DEF TypeOK
  <2>3. ChainsIntact(disk) /\ ChainsIntact(Current)
    BY <1>1, <2>1
  <2> QED  BY <2>2, <2>3 DEF DiskIntact
<1> QED  BY <1>3, Invariance, PTL

-----------------------------------------------------------------------------
(* The files of a disk.                                                      *)

Records == [name : Names, contents : Seq(Data \cup {Lost})]

\* The sectors of c hold the data; on both disks the same.
Holds(blocks, c, data) ==
    Len(data) = Len(c) /\ \A k \in 1 .. Len(c) : data[k] = blocks[c[k] - 1]

Alike(blocks, other, c) == \A k \in 1 .. Len(c) : other[c[k] - 1] = blocks[c[k] - 1]

\* A sector of a file is a block that is neither the directory nor the table.
LEMMA OwnBlocks ==
    ASSUME NEW d \in Seq(Entries), NEW fat \in Tables, Sound(d, fat),
           NEW i \in 1 .. Len(d), NEW k \in 1 .. Len(Own(d, fat, i))
    PROVE  /\ Own(d, fat, i)[k] - 1 \in Others
           /\ fat[(Own(d, fat, i)[k] - 1) + 1] # 0
<1> DEFINE s == Own(d, fat, i)[k]
<1>1. s \in Sectors /\ fat[s] # 0
  BY OwnIsTaken
<1>2. s \notin Reserved
  BY DEF Sound
<1> HIDE DEF s
<1>3. s - 1 \in Blocks /\ (s - 1) + 1 = s
  BY <1>1, Sizes DEF Sectors, Blocks
<1>4. s - 1 \in Others
  BY <1>2, <1>3, BlocksAre
<1> QED  BY <1>1, <1>3, <1>4 DEF s

\* The files that list() and getFile() find.
LEMMA FilesAre ==
    ASSUME NEW blocks, Intact(blocks), Readable(blocks),
           NEW d, d = Dirents(blocks), NEW fat, fat = Fat(blocks),
           NEW files, files = FilesOf(blocks)
    PROVE  /\ files \in Seq(Records) /\ Len(files) = Len(d)
           /\ FreeOf(blocks) = Cardinality(Free(fat))
           /\ \A i \in 1 .. Len(d) :
                 /\ files[i].name = d[i].name
                 /\ files[i] = [name |-> files[i].name, contents |-> files[i].contents]
                 /\ files[i].contents \in Seq(Data \cup {Lost})
                 /\ Holds(blocks, Own(d, fat, i), files[i].contents)
<1>1. d \in Seq(Entries) /\ fat \in Tables /\ Sound(d, fat)
  BY ReadableIs
<1> DEFINE held(i) == [k \in 1 .. Len(Own(d, fat, i)) |-> blocks[Own(d, fat, i)[k] - 1]]
<1>2. ASSUME NEW i \in 1 .. Len(d)
      PROVE  /\ GetFile(blocks, d[i]) = held(i)
             /\ held(i) \in Seq(Data \cup {Lost}) /\ Len(held(i)) = Len(Own(d, fat, i))
             /\ \A k \in 1 .. Len(Own(d, fat, i)) : held(i)[k] = blocks[Own(d, fat, i)[k] - 1]
  <2>1. Own(d, fat, i) \in Seq(Sectors)
    BY <1>1 DEF Sound, Linked
  <2>2. DOMAIN Own(d, fat, i) = 1 .. Len(Own(d, fat, i)) /\ Len(Own(d, fat, i)) \in Nat
    BY <2>1
  <2>3. GetFile(blocks, d[i]) = held(i)
    BY <2>2 DEF GetFile, Own
  <2>4. \A k \in 1 .. Len(Own(d, fat, i)) :
           blocks[Own(d, fat, i)[k] - 1] \in Data \cup {Lost}
    BY <1>1, OwnBlocks DEF Intact
  <2> DEFINE own == Own(d, fat, i)
  <2> HIDE DEF own
  <2>5. [k \in 1 .. Len(own) |-> blocks[own[k] - 1]] \in Seq(Data \cup {Lost})
    BY <2>2, <2>4 DEF own
  <2>6. Len([k \in 1 .. Len(own) |-> blocks[own[k] - 1]]) = Len(own)
    BY <2>2 DEF own
  <2> QED  BY <2>3, <2>5, <2>6 DEF own
<1> HIDE DEF held
<1> DEFINE file(i) == [name |-> d[i].name, contents |-> GetFile(blocks, d[i])]
<1>3. files = [i \in 1 .. Len(d) |-> file(i)]
  <2>1. DOMAIN d = 1 .. Len(d)
    BY <1>1
  <2> QED  BY <2>1 DEF FilesOf
<1>4. ASSUME NEW i \in 1 .. Len(d) PROVE file(i) \in Records
  <2>1. d[i] \in Entries
    BY <1>1
  <2>2. d[i].name \in Names
    BY <2>1 DEF Entries
  <2>3. GetFile(blocks, d[i]) \in Seq(Data \cup {Lost})
    BY <1>2
  <2> QED  BY <2>2, <2>3 DEF Records
<1>5. files \in Seq(Records) /\ Len(files) = Len(d)
  <2> HIDE DEF file
  <2>1. \A i \in 1 .. Len(d) : file(i) \in Records
    BY <1>4
  <2> QED  BY <1>1, <1>3, <2>1
<1>6. FreeOf(blocks) = Cardinality(Free(fat))
  BY DEF FreeOf
<1>7. ASSUME NEW i \in 1 .. Len(d)
      PROVE  /\ files[i].name = d[i].name
             /\ files[i] = [name |-> files[i].name, contents |-> files[i].contents]
             /\ files[i].contents \in Seq(Data \cup {Lost})
             /\ Holds(blocks, Own(d, fat, i), files[i].contents)
  <2> DEFINE f == files[i]  h == held(i)
  <2>1. f = [name |-> d[i].name, contents |-> h]
    BY <1>2, <1>3
  <2>2. /\ h \in Seq(Data \cup {Lost}) /\ Len(h) = Len(Own(d, fat, i))
        /\ \A k \in 1 .. Len(Own(d, fat, i)) : h[k] = blocks[Own(d, fat, i)[k] - 1]
    BY <1>2
  <2> HIDE DEF f, h
  <2>3. f.name = d[i].name /\ f.contents = h
    BY <2>1
  <2> QED  BY <2>1, <2>2, <2>3 DEF f, Holds
<1> HIDE DEF file
<1> QED  BY <1>5, <1>6, <1>7

\* One of them.
LEMMA FileIs ==
    ASSUME NEW blocks, Intact(blocks), Readable(blocks), NEW i \in 1 .. Len(Dirents(blocks)),
           NEW c, c = Own(Dirents(blocks), Fat(blocks), i)
    PROVE  \E data \in Seq(Data \cup {Lost}) :
              /\ FilesOf(blocks)[i] = [name |-> Dirents(blocks)[i].name, contents |-> data]
              /\ Holds(blocks, c, data)
<1> DEFINE file == FilesOf(blocks)[i]
<1>1. /\ file.name = Dirents(blocks)[i].name
      /\ file = [name |-> file.name, contents |-> file.contents]
      /\ file.contents \in Seq(Data \cup {Lost}) /\ Holds(blocks, c, file.contents)
  BY FilesAre
<1> HIDE DEF file
<1> DEFINE data == file.contents
<1>2. /\ data \in Seq(Data \cup {Lost})
      /\ file = [name |-> Dirents(blocks)[i].name, contents |-> data]
      /\ Holds(blocks, c, data)
  BY <1>1
<1> HIDE DEF data
<1> QED  BY <1>2, Zenon DEF file

\* A file whose sectors hold the same on two disks is the same on both.
LEMMA FileStays ==
    ASSUME NEW blocks, Intact(blocks), Readable(blocks),
           NEW other, Intact(other), Readable(other),
           NEW i \in 1 .. Len(Dirents(blocks)), NEW j \in 1 .. Len(Dirents(other)),
           Dirents(other)[j].name = Dirents(blocks)[i].name,
           NEW c, c = Own(Dirents(blocks), Fat(blocks), i),
           c = Own(Dirents(other), Fat(other), j),
           Alike(blocks, other, c)
    PROVE  FilesOf(other)[j] = FilesOf(blocks)[i]
<1>1. PICK a \in Seq(Data \cup {Lost}) :
         /\ FilesOf(blocks)[i] = [name |-> Dirents(blocks)[i].name, contents |-> a]
         /\ Holds(blocks, c, a)
  BY FileIs
<1>2. PICK b \in Seq(Data \cup {Lost}) :
         /\ FilesOf(other)[j] = [name |-> Dirents(other)[j].name, contents |-> b]
         /\ Holds(other, c, b)
  BY FileIs
<1>3. Len(a) = Len(b) /\ \A k \in 1 .. Len(a) : a[k] = b[k]
  BY <1>1, <1>2 DEF Holds, Alike
<1>4. a = b
  BY <1>3
<1> QED  BY <1>1, <1>2, <1>4

\* Room: a chain that is linked takes as many sectors as it has, and gives them back.
LEMMA RangeSize ==
    ASSUME NEW n \in Nat, NEW c \in [1 .. n -> Sectors],
           \A i, j \in 1 .. n : c[i] = c[j] => i = j
    PROVE  IsFiniteSet(Range(c)) /\ Cardinality(Range(c)) = n
<1>1. Range(c) = {c[i] : i \in 1 .. n}
  BY DEF Range
<1>2. c \in Bijection(1 .. n, Range(c))
  BY <1>1 DEF Bijection, Injection, IsInjective, Surjection
<1>3. IsFiniteSet(1 .. n) /\ Cardinality(1 .. n) = n
  <2>1. IsFiniteSet(1 .. n) /\ Cardinality(1 .. n) = IF 1 > n THEN 0 ELSE n - 1 + 1
    BY FS_Interval
  <2> QED  BY <2>1
<1>4. ExistsBijection(1 .. n, Range(c))
  BY <1>2 DEF ExistsBijection
<1> QED  BY <1>3, <1>4, FS_Bijection

LEMMA RoomTaken ==
    ASSUME NEW fat \in Tables, NEW n \in Nat, n <= Cardinality(Free(fat)),
           NEW c, c = Allocated(fat, n)
    PROVE  Cardinality(Free(Chained(fat, c))) = Cardinality(Free(fat)) - n
<1>1. c \in [1 .. n -> Free(fat)] /\ \A i, j \in 1 .. n : c[i] = c[j] => i = j
  BY AllocatedIs
<1>2. c \in [1 .. n -> Sectors]
  BY <1>1, FreeIs
<1> HIDE DEF Allocated
<1>3. /\ \A s \in Sectors : s \notin Range(c) => Chained(fat, c)[s] = fat[s]
      /\ \A s \in Sectors : s \in Range(c) => Chained(fat, c)[s] # 0
  BY <1>1, <1>2, ChainedIs
<1>4. Range(c) \subseteq Free(fat)
  BY <1>1 DEF Range
<1>5. Free(Chained(fat, c)) = Free(fat) \ Range(c)
  BY <1>3, <1>4 DEF Free
<1>6. IsFiniteSet(Range(c)) /\ Cardinality(Range(c)) = n
  BY <1>1, <1>2, RangeSize
<1>7. IsFiniteSet(Free(fat)) /\ Cardinality(Free(fat)) \in Nat
  BY FreeIs
<1>8. Cardinality(Free(fat) \ Range(c)) = Cardinality(Free(fat)) - Cardinality(Free(fat) \cap Range(c))
  BY <1>6, <1>7, FS_Difference
<1>9. Free(fat) \cap Range(c) = Range(c)
  BY <1>4
<1> QED  BY <1>5, <1>6, <1>8, <1>9

LEMMA RoomGiven ==
    ASSUME NEW d \in Seq(Entries), NEW fat \in Tables, Sound(d, fat),
           NEW n \in 1 .. Len(d), NEW c, c = Own(d, fat, n)
    PROVE  Cardinality(Free(Freed(fat, c))) = Cardinality(Free(fat)) + Len(c)
<1>1. c \in Seq(Sectors) /\ \A i, j \in 1 .. Len(c) : c[i] = c[j] => i = j
  BY DEF Sound, Linked
<1>2. c \in [1 .. Len(c) -> Sectors] /\ Len(c) \in Nat
  BY <1>1
<1>3. \A k \in 1 .. Len(c) : c[k] \in Sectors /\ fat[c[k]] # 0
  BY OwnIsTaken
<1>4. \A s : s \in Range(c) => s \in Sectors /\ fat[s] # 0
  BY <1>2, <1>3 DEF Range
<1>5. Free(Freed(fat, c)) = Free(fat) \cup Range(c)
  BY <1>4 DEF Free, Freed
<1>6. IsFiniteSet(Range(c)) /\ Cardinality(Range(c)) = Len(c)
  BY <1>1, <1>2, RangeSize
<1>7. IsFiniteSet(Free(fat)) /\ Cardinality(Free(fat)) \in Nat
  BY FreeIs
<1>8. Cardinality(Free(fat) \cup Range(c))
         = Cardinality(Free(fat)) + Cardinality(Range(c)) - Cardinality(Free(fat) \cap Range(c))
  BY <1>6, <1>7, FS_Union
<1>9. Cardinality(Free(fat) \cap Range(c)) = 0
  <2>1. Free(fat) \cap Range(c) = {}
    BY <1>4 DEF Free
  <2> QED  BY <2>1, FS_EmptySet
<1> QED  BY <1>2, <1>5, <1>6, <1>7, <1>8, <1>9

-----------------------------------------------------------------------------
(* The refinement of FileStore.                                              *)

\* Of the files of a list those not named are found with their contents.
FoundBut(names, found, files) ==
    /\ Len(found) = Len(files)
    /\ \A i \in DOMAIN files :
          /\ found[i].name = files[i].name
          /\ Len(found[i].contents) = Len(files[i].contents)
          /\ files[i].name \notin names =>
                \A k \in DOMAIN files[i].contents :
                   found[i].contents[k] \in {files[i].contents[k], Lost}

\* A file that is not named has no block among those put.
Unput(names, puts, d, fat) ==
    \A i \in 1 .. Len(d) : d[i].name \notin names =>
        \A k \in 1 .. Len(Own(d, fat, i)) : puts[Own(d, fat, i)[k] - 1] = None

\* How far a disk may be from what was saved, and from what is put over it: a block
\* that was not put is as it was, or lost; a track none of whose blocks was put is
\* as it was; and a list that can be read is one that was saved or tried.
InStep(now, old, puts, found, kept, tried, names) ==
    /\ now = [b \in Blocks |-> now[b]] /\ old = [b \in Blocks |-> old[b]]
    /\ found = ListOf(Over(puts, old)) /\ kept = ListOf(old)
    /\ tried = {} => now = old
    /\ \A b \in Blocks : puts[b] = None => now[b] \in {old[b], Lost}
    /\ \A b \in Blocks :
          (\A k \in Blocks : TrackOf[k] = TrackOf[b] => puts[k] = None) => now[b] = old[b]
    /\ Readable(Over(puts, old)) =>
          Unput(names, puts, Dirents(Over(puts, old)), Fat(Over(puts, old)))
    /\ Readable(now) => \E s \in tried \cup {kept} :
                           FoundBut(names, FilesOf(now), s.files) /\ FreeOf(now) = s.free

Sync == InStep(disk, content, pending, list, saved, attempts, touched)

LEMMA FoundIs == \A found, files : Files!Found(found, files) <=> FoundBut(touched, found, files)
BY DEF Files!Found, FoundBut

LEMMA NothingPut ==
    ASSUME NEW blocks, blocks = [b \in Blocks |-> blocks[b]]
    PROVE  Over(Untouched, blocks) = blocks
<1>1. Over(Untouched, blocks) = [b \in Blocks |-> blocks[b]]
  BY DEF Over, Untouched
<1> QED  BY <1>1

\* After a flush or a discard.
LEMMA Settled ==
    ASSUME NEW blocks, Intact(blocks), blocks = [b \in Blocks |-> blocks[b]],
           NEW found, found = ListOf(blocks)
    PROVE  InStep(blocks, blocks, Untouched, found, found, {}, {})
<1>1. Over(Untouched, blocks) = blocks
  BY NothingPut
<1>2. Readable(blocks) => Unput({}, Untouched, Dirents(blocks), Fat(blocks))
  <2> SUFFICES ASSUME Readable(blocks)
               PROVE  Unput({}, Untouched, Dirents(blocks), Fat(blocks))
    OBVIOUS
  <2> DEFINE d == Dirents(blocks)
             fat == Fat(blocks)
  <2>1. d \in Seq(Entries) /\ fat \in Tables /\ Sound(d, fat)
    BY ReadableIs
  <2> HIDE DEF d, fat
  <2>2. \A i \in 1 .. Len(d) : \A k \in 1 .. Len(Own(d, fat, i)) :
           Own(d, fat, i)[k] - 1 \in Blocks
    BY <2>1, OwnBlocks DEF Others
  <2> QED  BY <2>2 DEF Unput, Untouched, d, fat
<1>3. FoundBut({}, FilesOf(blocks), found.files) /\ FreeOf(blocks) = found.free
  BY DEF FoundBut, ListOf
<1> QED  BY <1>1, <1>2, <1>3 DEF InStep

\* After an operation, which only adds to what is put and to the names.
LEMMA OperationKeeps ==
    ASSUME NEW now, NEW old, NEW puts, NEW found, NEW kept, NEW tried, NEW names,
           InStep(now, old, puts, found, kept, tried, names),
           NEW more, \A b \in Blocks : more[b] = None => puts[b] = None,
           NEW longer, names \subseteq longer,
           NEW all, all = Over(more, old),
           Readable(all) => Unput(longer, more, Dirents(all), Fat(all))
    PROVE  InStep(now, old, more, ListOf(all), kept, tried, longer)
<1>1. \A a, b : FoundBut(names, a, b) => FoundBut(longer, a, b)
  BY DEF FoundBut
<1> QED  BY <1>1 DEF InStep

\* The file entered is the last one.
LEMMA EnteredIs ==
    ASSUME NEW d \in Seq(Entries), NEW e, Entered(d, e) \in Seq(Entries)
    PROVE  /\ Len(Entered(d, e)) = IF e.name = Hidden THEN Len(d) ELSE Len(d) + 1
           /\ \A i \in 1 .. Len(d) : Entered(d, e)[i] = d[i]
           /\ e.name # Hidden => Entered(d, e)[Len(d) + 1] = e
BY DEF Entered

\* After putFile() only the files of its name may have blocks put that had none.
LEMMA PutFileSync ==
    ASSUME IInv, Sync, NEW name \in Names, NEW data \in Contents, PutFile(name, data), Observed
    PROVE  Sync'
<1> DEFINE d == Dirents(Current)
           fat == Fat(Current)
           c == Allocated(fat, Len(data))
           e == Dirent(Shown[name], FirstOf(c), Len(data))
           D == Entered(d, e)
           T == Chained(fat, c)
           all == Over(pending', content)
<1>1. /\ d \in Seq(Entries) /\ fat \in Tables /\ Sound(d, fat)
      /\ UNCHANGED <<disk, content, attempts>>
      /\ \A b \in Blocks : pending'[b] = None => pending[b] = None
      /\ \A b \in Others : fat[b + 1] # 0 => pending'[b] = pending[b]
      /\ \/ /\ touched' = touched
            /\ Current'[DirBlock] = d /\ Current'[FatBlock] = fat
         \/ /\ touched' = touched \cup {Shown[name]}
            /\ D \in Seq(Entries)
            /\ \A i \in 1 .. Len(d) : Own(d, T, i) = Own(d, fat, i)
            /\ Current'[DirBlock] = D /\ Current'[FatBlock] = T
  BY PutFileGives
<1>2. Readable(Current)
  BY DEF PutFile
<1>3. Current' = all
  BY <1>1 DEF Current
<1>4. Unput(touched, pending, d, fat)
  BY <1>2 DEF Sync, InStep, Current
<1>5. e.name = Shown[name]
  BY DEF Dirent
<1> HIDE DEF d, fat, c, e, D, T, all
<1>6. ASSUME NEW i \in 1 .. Len(d), NEW k \in 1 .. Len(Own(d, fat, i)), d[i].name \notin touched
      PROVE  pending'[Own(d, fat, i)[k] - 1] = None
  <2> DEFINE b == Own(d, fat, i)[k] - 1
  <2>1. b \in Others /\ fat[b + 1] # 0
    BY <1>1, OwnBlocks
  <2>2. pending[b] = None
    BY <1>4, <1>6 DEF Unput
  <2> HIDE DEF b
  <2>3. pending'[b] = None
    BY <1>1, <2>1, <2>2
  <2> QED  BY <2>3 DEF b
<1>7. Unput(touched', pending', all[DirBlock], all[FatBlock])
  <2>1. CASE touched' = touched /\ all[DirBlock] = d /\ all[FatBlock] = fat
    BY <1>6, <2>1 DEF Unput
  <2>2. CASE /\ touched' = touched \cup {Shown[name]} /\ D \in Seq(Entries)
             /\ \A i \in 1 .. Len(d) : Own(d, T, i) = Own(d, fat, i)
             /\ all[DirBlock] = D /\ all[FatBlock] = T
    <3>1. /\ Len(D) = IF e.name = Hidden THEN Len(d) ELSE Len(d) + 1
          /\ \A i \in 1 .. Len(d) : D[i] = d[i]
          /\ e.name # Hidden => D[Len(d) + 1] = e
      BY <1>1, <2>2, EnteredIs DEF D
    <3>2. ASSUME NEW i \in 1 .. Len(D), D[i].name \notin touched'
          PROVE  i \in 1 .. Len(d) /\ D[i] = d[i] /\ Own(D, T, i) = Own(d, fat, i)
      <4>1. i # Len(d) + 1
        BY <1>5, <2>2, <3>1, <3>2
      <4>2. i \in 1 .. Len(d)
        BY <1>1, <3>1, <4>1
      <4>3. D[i] = d[i] /\ Own(D, T, i) = Own(d, T, i)
        BY <3>1, <4>2 DEF Own
      <4> QED  BY <2>2, <4>2, <4>3
    <3>3. ASSUME NEW i \in 1 .. Len(D), D[i].name \notin touched',
                 NEW k \in 1 .. Len(Own(D, T, i))
          PROVE  pending'[Own(D, T, i)[k] - 1] = None
      BY <1>6, <2>2, <3>2, <3>3
    <3> QED  BY <2>2, <3>3 DEF Unput
  <2> QED  BY <1>1, <1>3, <2>1, <2>2
<1>8. touched \subseteq touched'
  BY <1>1
<1>9. InStep(disk, content, pending', ListOf(all), saved, attempts, touched')
  <2>1. InStep(disk, content, pending, list, saved, attempts, touched)
    BY DEF Sync
  <2>2. Unput(touched', pending', Dirents(all), Fat(all))
    BY <1>7 DEF Dirents, Fat
  <2> DEFINE puts == pending'
             names == touched'
  <2>3. /\ \A b \in Blocks : puts[b] = None => pending[b] = None
        /\ touched \subseteq names /\ all = Over(puts, content)
        /\ Unput(names, puts, Dirents(all), Fat(all))
    BY <1>1, <1>8, <2>2 DEF all
  <2> HIDE DEF puts, names
  <2>4. InStep(disk, content, puts, ListOf(all), saved, attempts, names)
    BY <2>1, <2>3, OperationKeeps
  <2> QED  BY <2>4 DEF puts, names
<1>10. list' = ListOf(all) /\ saved' = saved
  BY <1>1 DEF Observed, all, Sync, InStep
<1> QED  BY <1>1, <1>9, <1>10 DEF Sync

LEMMA DeleteFileSync ==
    ASSUME IInv, Sync, NEW name \in Names, DeleteFile(name), Observed
    PROVE  Sync'
<1> DEFINE d == Dirents(Current)
           fat == Fat(Current)
           n == FindFile(Current, name)
           D == RemoveAt(d, n)
           T == Freed(fat, Own(d, fat, n))
           all == Over(pending', content)
           names == touched'
           puts == pending'
           old(i) == IF i < n THEN i ELSE i + 1
<1>1. /\ d \in Seq(Entries) /\ fat \in Tables /\ Sound(d, fat) /\ n \in 1 .. Len(d)
      /\ UNCHANGED <<disk, content, attempts>>
      /\ \A b \in Blocks : puts[b] = None => pending[b] = None
      /\ \A b \in Others : puts[b] = pending[b]
      /\ touched \subseteq names
      /\ Current'[DirBlock] = D /\ Current'[FatBlock] = T
  BY DeleteFileGives
<1>2. Readable(Current)
  BY DEF DeleteFile
<1>3. Current' = all
  BY <1>1 DEF Current
<1>4. Unput(touched, pending, d, fat)
  BY <1>2 DEF Sync, InStep, Current
<1>5. /\ D \in Seq(Entries) /\ Len(D) = Len(d) - 1
      /\ \A i \in 1 .. Len(D) : D[i] = d[old(i)]
      /\ \A i \in 1 .. Len(D) : Own(D, T, i) = Own(d, fat, old(i))
  BY <1>1, RemovedSound, RemoveAtIs
<1>6. \A i \in 1 .. Len(D) : old(i) \in 1 .. Len(d)
  BY <1>1, <1>5
<1> HIDE DEF d, fat, n, D, T, all, names, puts, old
<1>7. ASSUME NEW i \in 1 .. Len(D), D[i].name \notin names, NEW k \in 1 .. Len(Own(D, T, i))
      PROVE  puts[Own(D, T, i)[k] - 1] = None
  <2>1. /\ old(i) \in 1 .. Len(d) /\ d[old(i)].name \notin touched
        /\ Own(D, T, i) = Own(d, fat, old(i))
    BY <1>1, <1>5, <1>6, <1>7
  <2> DEFINE b == Own(d, fat, old(i))[k] - 1
  <2>2. b \in Others
    BY <1>1, <1>7, <2>1, OwnBlocks
  <2>3. pending[b] = None
    BY <1>4, <1>7, <2>1 DEF Unput
  <2> HIDE DEF b
  <2>4. puts[b] = None
    BY <1>1, <2>2, <2>3
  <2> QED  BY <2>1, <2>4 DEF b
<1>8. Unput(names, puts, Dirents(all), Fat(all))
  <2>1. Dirents(all) = D /\ Fat(all) = T
    BY <1>1, <1>3 DEF Dirents, Fat
  <2>2. Unput(names, puts, D, T)
    BY <1>7 DEF Unput
  <2> QED  BY <2>1, <2>2
<1>9. InStep(disk, content, puts, ListOf(all), saved, attempts, names)
  <2>1. InStep(disk, content, pending, list, saved, attempts, touched)
    BY DEF Sync
  <2>2. all = Over(puts, content)
    BY DEF all, puts
  <2> QED  BY <1>1, <1>8, <2>1, <2>2, OperationKeeps
<1>10. list' = ListOf(all) /\ saved' = saved
  BY <1>1 DEF Observed, all, Sync, InStep
<1> QED  BY <1>1, <1>9, <1>10 DEF Sync, puts, names

\* A flush that succeeds leaves on the disk what the filesystem finds.
LEMMA FlushSaves ==
    ASSUME Sync, Flush
    PROVE  /\ disk' = Current /\ content' = Current /\ pending' = Untouched
           /\ attempts' = {} /\ touched' = {} /\ Current' = Current
<1>1. /\ disk' = [b \in Blocks |-> IF b \in Rewritten THEN Current[b] ELSE disk[b]]
      /\ content' = disk' /\ pending' = Untouched /\ attempts' = {} /\ touched' = {}
  BY DEF Flush
<1>2. ASSUME NEW b \in Blocks, b \notin Rewritten PROVE disk[b] = Current[b]
  <2>1. \A k \in Blocks : TrackOf[k] = TrackOf[b] => pending[k] = None
    BY <1>2 DEF Rewritten
  <2>2. disk[b] = content[b]
    BY <2>1 DEF Sync, InStep
  <2>3. pending[b] = None
    BY <2>1
  <2> QED  BY <2>2, <2>3, OverIs DEF Current
<1>3. Current = [b \in Blocks |-> Current[b]]
  BY DEF Current, Over
<1> DEFINE cur == Current
<1>4. \A b \in Blocks : (IF b \in Rewritten THEN cur[b] ELSE disk[b]) = cur[b]
  BY <1>2
<1> HIDE DEF cur
<1>5. [b \in Blocks |-> IF b \in Rewritten THEN cur[b] ELSE disk[b]] = [b \in Blocks |-> cur[b]]
  BY <1>4
<1>6. disk' = Current
  BY <1>1, <1>3, <1>5 DEF cur
<1>7. Current' = Over(Untouched, Current)
  BY <1>1, <1>6 DEF Current
<1>8. Over(Untouched, Current) = Current
  BY <1>3, NothingPut
<1> QED  BY <1>1, <1>6, <1>7, <1>8

LEMMA FlushSync == ASSUME IInv, Sync, Flush, Observed PROVE Sync'
<1>1. /\ disk' = Current /\ content' = Current /\ pending' = Untouched
      /\ attempts' = {} /\ touched' = {}
  BY FlushSaves
<1>2. Intact(Current) /\ Current = [b \in Blocks |-> Current[b]]
  BY DEF IInv, Current, Over
<1>3. list' = ListOf(Over(Untouched, Current)) /\ saved' = ListOf(Current)
  BY <1>1 DEF Observed
<1>4. Over(Untouched, Current) = Current
  BY <1>2, NothingPut
<1>5. InStep(Current, Current, Untouched, ListOf(Current), ListOf(Current), {}, {})
  BY <1>2, Settled
<1> QED  BY <1>1, <1>3, <1>4, <1>5 DEF Sync

LEMMA DiscardSync == ASSUME IInv, Sync, Discard, Observed PROVE Sync'
<1>1. /\ disk' = disk /\ content' = disk /\ pending' = Untouched
      /\ attempts' = {} /\ touched' = {}
  BY DEF Discard
<1>2. Intact(disk) /\ disk = [b \in Blocks |-> disk[b]]
  BY DEF IInv, Sync, InStep
<1>3. list' = ListOf(Over(Untouched, disk)) /\ saved' = ListOf(disk)
  BY <1>1 DEF Observed
<1>4. Over(Untouched, disk) = disk
  BY <1>2, NothingPut
<1>5. InStep(disk, disk, Untouched, ListOf(disk), ListOf(disk), {}, {})
  BY <1>2, Settled
<1> QED  BY <1>1, <1>3, <1>4, <1>5 DEF Sync

LEMMA InitSync == ASSUME Init PROVE Sync
<1>1. /\ disk = Formatted /\ content = Formatted /\ pending = Untouched
      /\ list = ListOf(Formatted) /\ saved = ListOf(Formatted) /\ attempts = {} /\ touched = {}
  BY DEF Init
<1>2. Intact(Formatted)
  BY <1>1, InitIInv DEF IInv
<1>3. Formatted = [b \in Blocks |-> Formatted[b]]
  BY DEF Formatted
<1>4. InStep(Formatted, Formatted, Untouched, ListOf(Formatted), ListOf(Formatted), {}, {})
  BY <1>2, <1>3, Settled
<1> QED  BY <1>1, <1>4 DEF Sync

\* A list that can be read on the disk, from the directory that is found in memory,
\* has the files found there, all of those not named with their contents.
LEMMA FoundOnDisk ==
    ASSUME NEW now, Intact(now), Readable(now), NEW cur, Intact(cur), Readable(cur),
           Dirents(now) = Dirents(cur), Fat(now) = Fat(cur),
           NEW puts, NEW names, Unput(names, puts, Dirents(cur), Fat(cur)),
           \A b \in Blocks : puts[b] = None => now[b] \in {cur[b], Lost}
    PROVE  FoundBut(names, FilesOf(now), FilesOf(cur)) /\ FreeOf(now) = FreeOf(cur)
<1> DEFINE d == Dirents(cur)
           fat == Fat(cur)
           a == FilesOf(now)
           b == FilesOf(cur)
<1>1. d \in Seq(Entries) /\ fat \in Tables /\ Sound(d, fat)
  BY ReadableIs
<1>2. /\ a \in Seq(Records) /\ Len(a) = Len(d) /\ b \in Seq(Records) /\ Len(b) = Len(d)
      /\ FreeOf(now) = FreeOf(cur)
  BY FilesAre
<1>3. ASSUME NEW i \in 1 .. Len(d)
      PROVE  /\ a[i].name = d[i].name /\ b[i].name = d[i].name
             /\ a[i].contents \in Seq(Data \cup {Lost}) /\ b[i].contents \in Seq(Data \cup {Lost})
             /\ Holds(now, Own(d, fat, i), a[i].contents)
             /\ Holds(cur, Own(d, fat, i), b[i].contents)
  <2>1. PICK x \in Seq(Data \cup {Lost}) :
           /\ FilesOf(now)[i] = [name |-> Dirents(now)[i].name, contents |-> x]
           /\ Holds(now, Own(Dirents(now), Fat(now), i), x)
    BY FileIs
  <2>2. PICK y \in Seq(Data \cup {Lost}) :
           /\ FilesOf(cur)[i] = [name |-> Dirents(cur)[i].name, contents |-> y]
           /\ Holds(cur, Own(Dirents(cur), Fat(cur), i), y)
    BY FileIs
  <2>3. a[i] = [name |-> d[i].name, contents |-> x] /\ Holds(now, Own(d, fat, i), x)
    BY <2>1
  <2>4. b[i] = [name |-> d[i].name, contents |-> y] /\ Holds(cur, Own(d, fat, i), y)
    BY <2>2
  <2> HIDE DEF a, b, d, fat
  <2>5. a[i].name = d[i].name /\ a[i].contents = x /\ b[i].name = d[i].name /\ b[i].contents = y
    BY <2>3, <2>4
  <2> QED  BY <2>3, <2>4, <2>5
<1>4. \A i \in 1 .. Len(d) : \A k \in 1 .. Len(Own(d, fat, i)) :
         Own(d, fat, i)[k] - 1 \in Blocks
  BY <1>1, OwnBlocks DEF Others
<1>5. Unput(names, puts, d, fat)
  OBVIOUS
<1> HIDE DEF d, fat, a, b
<1>6. ASSUME NEW i \in 1 .. Len(d), b[i].name \notin names,
             NEW k \in 1 .. Len(Own(d, fat, i))
      PROVE  a[i].contents[k] \in {b[i].contents[k], Lost}
  <2>1. puts[Own(d, fat, i)[k] - 1] = None
    BY <1>3, <1>5, <1>6 DEF Unput
  <2>2. /\ a[i].contents[k] = now[Own(d, fat, i)[k] - 1]
        /\ b[i].contents[k] = cur[Own(d, fat, i)[k] - 1]
    BY <1>3, <1>6 DEF Holds
  <2> QED  BY <1>4, <1>6, <2>1, <2>2
<1>7. \A i \in 1 .. Len(d) :
         /\ Len(a[i].contents) = Len(Own(d, fat, i)) /\ Len(b[i].contents) = Len(Own(d, fat, i))
         /\ DOMAIN b[i].contents = 1 .. Len(Own(d, fat, i))
  BY <1>3 DEF Holds
<1>8. DOMAIN b = 1 .. Len(d)
  BY <1>1, <1>2
<1>9. FoundBut(names, a, b)
  BY <1>2, <1>3, <1>6, <1>7, <1>8 DEF FoundBut
<1> QED  BY <1>2, <1>9 DEF a, b

\* A flush that fails has tried the list that the filesystem finds.
LEMMA FlushFailsSync == ASSUME IInv, Sync, FlushFails, Observed PROVE Sync'
<1> DEFINE now == disk'
           cur == Current
<1>1. /\ content' = content /\ pending' = pending /\ touched' = touched
      /\ attempts' = attempts \cup {list}
      /\ now = [b \in Blocks |-> now[b]]
      /\ \A b \in Blocks : now[b] \in {disk[b], cur[b], Lost}
      /\ \A b \in Blocks : b \notin Rewritten => now[b] = disk[b]
      /\ \/ \A b \in Blocks : now[b] = disk[b]
         \/ DirBlock \notin Rewritten /\ FatBlock \notin Rewritten
         \/ /\ now[DirBlock] \in {cur[DirBlock], Lost}
            /\ now[FatBlock] \in {cur[FatBlock], Lost}
  BY FlushFailsGives
<1>2. Intact(now) /\ Intact(cur)
  BY FlushFailsStep DEF IInv
<1>3. /\ disk = [b \in Blocks |-> disk[b]]
      /\ content = [b \in Blocks |-> content[b]]
      /\ list = ListOf(cur) /\ saved = ListOf(content)
      /\ \A b \in Blocks : pending[b] = None => disk[b] \in {content[b], Lost}
      /\ \A b \in Blocks : b \notin Rewritten => disk[b] = content[b]
      /\ Readable(cur) => Unput(touched, pending, Dirents(cur), Fat(cur))
      /\ Readable(disk) => \E s \in attempts \cup {saved} :
            FoundBut(touched, FilesOf(disk), s.files) /\ FreeOf(disk) = s.free
  BY DEF Sync, InStep, Current, Rewritten
<1>4. cur = Over(pending, content) /\ Current' = cur
  BY <1>1 DEF Current
<1>5. list' = list /\ saved' = saved
  BY <1>1, <1>3, <1>4 DEF Observed
<1> HIDE DEF now, cur
<1>6. \A b \in Blocks : pending[b] = None => cur[b] = content[b]
  BY <1>4, OverIs
<1>7. \A b \in Blocks : pending[b] = None => now[b] \in {content[b], Lost}
  BY <1>1, <1>3, <1>6
<1>8. \A b \in Blocks : b \notin Rewritten => now[b] = content[b] /\ pending[b] = None
  BY <1>1, <1>3 DEF Rewritten
<1>9. Readable(now) => \E s \in attempts' \cup {saved} :
         FoundBut(touched, FilesOf(now), s.files) /\ FreeOf(now) = s.free
  <2>1. CASE \A b \in Blocks : now[b] = disk[b]
    <3>1. now = disk
      BY <1>1, <1>3, <2>1
    <3> QED  BY <1>1, <1>3, <3>1
  <2>2. CASE ~ \A b \in Blocks : now[b] = disk[b]
    <3> SUFFICES ASSUME Readable(now)
                 PROVE  \E s \in attempts' \cup {saved} :
                           FoundBut(touched, FilesOf(now), s.files) /\ FreeOf(now) = s.free
      OBVIOUS
    <3>1. now[DirBlock] # Lost /\ now[FatBlock] # Lost
      BY DEF Readable, Dirents, Fat
    <3>2. now[DirBlock] = cur[DirBlock] /\ now[FatBlock] = cur[FatBlock]
      BY <1>1, <1>6, <1>8, <2>2, <3>1, BlocksAre
    <3>3. Readable(cur) /\ Dirents(now) = Dirents(cur) /\ Fat(now) = Fat(cur)
      BY <3>1, <3>2 DEF Readable, Dirents, Fat
    <3>4. \A b \in Blocks : pending[b] = None => now[b] \in {cur[b], Lost}
      BY <1>6, <1>7
    <3>5. FoundBut(touched, FilesOf(now), FilesOf(cur)) /\ FreeOf(now) = FreeOf(cur)
      BY <1>2, <1>3, <3>3, <3>4, FoundOnDisk
    <3>6. list.files = FilesOf(cur) /\ list.free = FreeOf(cur)
      BY <1>3 DEF ListOf
    <3> QED  BY <1>1, <3>5, <3>6
  <2> QED  BY <2>1, <2>2
<1>10. InStep(now, content, pending, list, saved, attempts', touched)
  <2>1. attempts' # {}
    BY <1>1
  <2>2. \A b \in Blocks :
           (\A k \in Blocks : TrackOf[k] = TrackOf[b] => pending[k] = None) => now[b] = content[b]
    BY <1>8 DEF Rewritten
  <2> QED  BY <1>1, <1>3, <1>4, <1>7, <1>9, <2>1, <2>2 DEF InStep
<1> QED  BY <1>1, <1>5, <1>10 DEF Sync, now

LEMMA SyncInvariance == Spec => [](IInv /\ Sync)
<1>1. IInv /\ Sync /\ [Next]_vars => (IInv /\ Sync)'
  <2> SUFFICES ASSUME IInv, Sync, [Next]_vars PROVE IInv' /\ Sync'
    OBVIOUS
  <2>1. CASE UNCHANGED vars
    BY <2>1 DEF vars, IInv, Sync, Current
  <2>2. CASE Next
    <3>1. Observed
      BY <2>2 DEF Next
    <3>2. ASSUME NEW n \in Names, NEW c \in Contents, PutFile(n, c) PROVE IInv' /\ Sync'
      BY <3>1, <3>2, PutFileStep, PutFileSync
    <3>3. ASSUME NEW n \in Names, DeleteFile(n) PROVE IInv' /\ Sync'
      BY <3>1, <3>3, DeleteFileStep, DeleteFileSync
    <3>4. Flush => IInv' /\ Sync'
      BY <3>1, FlushStep, FlushSync
    <3>5. FlushFails => IInv' /\ Sync'
      BY <3>1, FlushFailsStep, FlushFailsSync
    <3>6. Discard => IInv' /\ Sync'
      BY <3>1, DiscardStep, DiscardSync
    <3> QED  BY <2>2, <3>2, <3>3, <3>4, <3>5, <3>6 DEF Next
  <2> QED  BY <2>1, <2>2
<1> QED  BY <1>1, InitIInv, InitSync, PTL DEF Spec

\* The steps of the files.
LEMMA ListIs ==
    ASSUME NEW blocks
    PROVE  /\ ListOf(blocks).files = FilesOf(blocks) /\ ListOf(blocks).free = FreeOf(blocks)
           /\ ListOf(blocks) = [files |-> ListOf(blocks).files, free |-> ListOf(blocks).free]
BY DEF ListOf

LEMMA NamesAre ==
    ASSUME NEW blocks, Intact(blocks), Readable(blocks)
    PROVE  \A i \in 1 .. Len(Dirents(blocks)) : FilesOf(blocks)[i].name = Dirents(blocks)[i].name
<1> SUFFICES ASSUME NEW i \in 1 .. Len(Dirents(blocks))
             PROVE  FilesOf(blocks)[i].name = Dirents(blocks)[i].name
  OBVIOUS
<1>1. \E x \in Seq(Data \cup {Lost}) :
         FilesOf(blocks)[i] = [name |-> Dirents(blocks)[i].name, contents |-> x]
  BY FileIs
<1> QED  BY <1>1

\* A directory that is as it was, over files whose blocks are as they were.
LEMMA FilesStay ==
    ASSUME NEW cur, Intact(cur), Readable(cur), NEW now, Intact(now), Readable(now),
           Dirents(now) = Dirents(cur), Fat(now) = Fat(cur),
           \A i \in 1 .. Len(Dirents(cur)) :
              Alike(cur, now, Own(Dirents(cur), Fat(cur), i))
    PROVE  FilesOf(now) = FilesOf(cur) /\ FreeOf(now) = FreeOf(cur)
<1> DEFINE a == FilesOf(now)
           b == FilesOf(cur)
<1>1. /\ a \in Seq(Records) /\ Len(a) = Len(Dirents(cur))
      /\ b \in Seq(Records) /\ Len(b) = Len(Dirents(cur))
      /\ FreeOf(now) = FreeOf(cur)
  BY FilesAre
<1>2. \A i \in 1 .. Len(Dirents(cur)) : a[i] = b[i]
  BY FileStays
<1> HIDE DEF a, b
<1>3. a = b
  BY <1>1, <1>2
<1> QED  BY <1>1, <1>3 DEF a, b

LEMMA PutFileRefines ==
    ASSUME IInv, Sync, NEW name \in Names, NEW data \in Contents, PutFile(name, data), Observed
    PROVE  Files!Put(name, data) \/ UNCHANGED Files!vars
<1> DEFINE d == Dirents(Current)
           fat == Fat(Current)
           n == Len(data)
           c == Allocated(fat, n)
           e == Dirent(Shown[name], FirstOf(c), n)
           D == Entered(d, e)
           T == Chained(fat, c)
           cur == Current
           now == Current'
           F == FilesOf(cur)
           G == FilesOf(now)
<1>1. /\ d \in Seq(Entries) /\ fat \in Tables /\ Sound(d, fat)
      /\ UNCHANGED <<content, attempts>>
      /\ data \in Seq(Data) /\ n \in Nat
      /\ \A b \in Others : fat[b + 1] # 0 => now[b] = cur[b]
  BY PutFileGives
<1>2. \/ /\ touched' = touched
         /\ now[DirBlock] = d /\ now[FatBlock] = fat
      \/ /\ n <= Cardinality(Free(fat)) /\ Len(d) < DirectorySize
         /\ touched' = touched \cup {Shown[name]}
         /\ D \in Seq(Entries) /\ T \in Tables
         /\ Chain(T, FirstOf(c)) = c
         /\ \A i \in 1 .. Len(d) : Own(d, T, i) = Own(d, fat, i)
         /\ now[DirBlock] = D /\ now[FatBlock] = T
         /\ \A i \in 1 .. n : now[c[i] - 1] = data[i]
  BY PutFileGives
<1>3. Readable(cur) /\ Named(cur, name) = {}
  BY DEF PutFile
<1>4. Intact(cur) /\ Intact(now)
  BY PutFileStep DEF IInv
<1>5. list = ListOf(cur) /\ saved = ListOf(content) /\ list' = ListOf(now) /\ saved' = saved
  BY <1>1 DEF Sync, InStep, Observed, Current
<1>6. /\ list.files = F /\ list.free = FreeOf(cur) /\ list'.files = G /\ list'.free = FreeOf(now)
  BY <1>5, ListIs
<1>7. /\ d = Dirents(cur) /\ fat = Fat(cur)
      /\ F \in Seq(Records) /\ Len(F) = Len(d) /\ FreeOf(cur) = Cardinality(Free(fat))
  BY <1>3, <1>4, FilesAre
<1>8. \A i \in 1 .. Len(d) : F[i].name = d[i].name
  BY <1>3, <1>4, NamesAre
<1>9. e.name = Shown[name] /\ e.startSector = FirstOf(c)
  BY DEF Dirent
<1> HIDE DEF d, fat, n, c, e, D, T, cur, now, F, G
<1>10. ASSUME NEW i \in 1 .. Len(d) PROVE Alike(cur, now, Own(d, fat, i))
  BY <1>1, OwnBlocks DEF Alike
<1>11. CASE /\ touched' = touched
            /\ now[DirBlock] = d /\ now[FatBlock] = fat
  <2>1. Dirents(now) = d /\ Fat(now) = fat
    BY <1>11 DEF Dirents, Fat
  <2>2. Readable(now)
    BY <1>1, <2>1, Brother120Assumption DEF Readable
  <2>3. G = F /\ FreeOf(now) = FreeOf(cur)
    BY <1>3, <1>4, <1>7, <1>10, <2>1, <2>2, FilesStay DEF F, G
  <2>4. UNCHANGED <<list.files, list.free, saved, attempts, touched>>
    BY <1>1, <1>5, <1>6, <1>11, <2>3
  <2> QED  BY <2>4 DEF Files!vars
<1>12. CASE /\ n <= Cardinality(Free(fat)) /\ Len(d) < DirectorySize
            /\ touched' = touched \cup {Shown[name]}
            /\ D \in Seq(Entries) /\ T \in Tables
            /\ Chain(T, FirstOf(c)) = c
            /\ \A i \in 1 .. Len(d) : Own(d, T, i) = Own(d, fat, i)
            /\ now[DirBlock] = D /\ now[FatBlock] = T
            /\ \A i \in 1 .. n : now[c[i] - 1] = data[i]
  <2>1. Dirents(now) = D /\ Fat(now) = T
    BY <1>12 DEF Dirents, Fat
  <2>2. Readable(now)
    BY <1>12, <2>1, Brother120Assumption DEF Readable
  <2>3. /\ Len(D) = IF e.name = Hidden THEN Len(d) ELSE Len(d) + 1
        /\ \A i \in 1 .. Len(d) : D[i] = d[i]
        /\ e.name # Hidden => D[Len(d) + 1] = e
    BY <1>1, <1>12, EnteredIs DEF D
  <2>4. G \in Seq(Records) /\ Len(G) = Len(D) /\ FreeOf(now) = Cardinality(Free(T))
    BY <1>4, <2>1, <2>2, FilesAre DEF G
  <2>5. ASSUME NEW i \in 1 .. Len(d) PROVE G[i] = F[i]
    <3>1. i \in 1 .. Len(D) /\ D[i].name = d[i].name
      BY <1>1, <2>3
    <3>2. Own(D, T, i) = Own(d, fat, i)
      BY <1>12, <2>3 DEF Own
    <3> QED  BY <1>3, <1>4, <1>7, <1>10, <2>1, <2>2, <3>1, <3>2, FileStays DEF F, G
  <2>6. FreeOf(now) = FreeOf(cur) - n
    BY <1>1, <1>7, <1>12, <2>4, RoomTaken DEF T, c
  <2>7. G = IF Shown[name] = Hidden THEN F
            ELSE Append(F, [name |-> Shown[name], contents |-> data])
    <3>1. CASE Shown[name] = Hidden
      <4>1. Len(G) = Len(F) /\ \A i \in 1 .. Len(F) : G[i] = F[i]
        BY <1>7, <1>9, <2>3, <2>4, <2>5, <3>1
      <4>2. G = F
        BY <1>7, <2>4, <4>1
      <4> QED  BY <3>1, <4>2
    <3>2. CASE Shown[name] # Hidden
      <4> DEFINE l == Len(d) + 1
                 new == [name |-> Shown[name], contents |-> data]
      <4>1. l \in 1 .. Len(D) /\ D[l] = e /\ Len(D) = l
        BY <1>1, <1>9, <2>3, <3>2
      <4>2. Own(D, T, l) = c
        BY <1>9, <1>12, <4>1 DEF Own
      <4>3. PICK x \in Seq(Data \cup {Lost}) :
               /\ FilesOf(now)[l] = [name |-> Dirents(now)[l].name, contents |-> x]
               /\ Holds(now, Own(Dirents(now), Fat(now), l), x)
        BY <1>4, <2>1, <2>2, <4>1, FileIs
      <4>4. Len(c) = n
        <5>1. c \in [1 .. n -> Free(fat)]
          BY <1>1, <1>12, AllocatedIs DEF c
        <5> QED  BY <1>1, <5>1
      <4>5. Len(x) = n /\ \A k \in 1 .. n : x[k] = data[k]
        BY <1>12, <2>1, <4>2, <4>3, <4>4 DEF Holds
      <4>6. x = data
        BY <1>1, <4>5 DEF n
      <4>7. G[l] = new
        BY <1>9, <2>1, <4>1, <4>3, <4>6 DEF G
      <4>8. new \in Records
        BY <2>4, <4>1, <4>7
      <4> HIDE DEF new
      <4>9. Len(G) = Len(F) + 1 /\ G[Len(F) + 1] = new /\ \A i \in 1 .. Len(F) : G[i] = F[i]
        BY <1>7, <2>4, <2>5, <4>1, <4>7
      <4>10. G = Append(F, new)
        BY <1>7, <2>4, <4>8, <4>9
      <4> QED  BY <3>2, <4>10 DEF new
    <3> QED  BY <3>1, <3>2
  <2>8. Files!Put(name, data)
    <3>1. F # Ruined
      BY <1>7, Brother120Assumption DEF Records
    <3>2. {i \in DOMAIN F : F[i].name = name} = {}
      <4>1. DOMAIN F = 1 .. Len(d) /\ DOMAIN d = 1 .. Len(d)
        BY <1>1, <1>7
      <4>2. \A i \in 1 .. Len(d) : d[i].name # name
        BY <1>3, <1>7, <4>1 DEF Named
      <4> QED  BY <1>8, <4>1, <4>2
    <3>3. n <= FreeOf(cur) /\ Len(F) < DirectorySize
      BY <1>7, <1>12
    <3> QED  BY <1>1, <1>5, <1>6, <1>12, <2>6, <2>7, <3>1, <3>2, <3>3
             DEF Files!Put, Files!Named, Files!Entry, n
  <2> QED  BY <2>8
<1> QED  BY <1>2, <1>11, <1>12

LEMMA DeleteFileRefines ==
    ASSUME IInv, Sync, NEW name \in Names, DeleteFile(name), Observed
    PROVE  Files!Delete(name)
<1> DEFINE d == Dirents(Current)
           fat == Fat(Current)
           n == FindFile(Current, name)
           c == Own(d, fat, n)
           D == RemoveAt(d, n)
           T == Freed(fat, c)
           cur == Current
           now == Current'
           F == FilesOf(cur)
           G == FilesOf(now)
           old(i) == IF i < n THEN i ELSE i + 1
<1>1. /\ d \in Seq(Entries) /\ fat \in Tables /\ Sound(d, fat)
      /\ n \in 1 .. Len(d) /\ d[n].name = name
      /\ \A i \in 1 .. Len(d) : d[i].name = name => n <= i
      /\ UNCHANGED <<content, attempts>>
      /\ \A b \in Others : now[b] = cur[b]
      /\ touched' = touched \cup {name}
      /\ now[DirBlock] = D /\ now[FatBlock] = T
  BY DeleteFileGives
<1>2. Readable(cur)
  BY DEF DeleteFile
<1>3. Intact(cur) /\ Intact(now)
  BY DeleteFileStep DEF IInv
<1>4. list = ListOf(cur) /\ saved = ListOf(content) /\ list' = ListOf(now) /\ saved' = saved
  BY <1>1 DEF Sync, InStep, Observed, Current
<1>5. /\ list.files = F /\ list.free = FreeOf(cur) /\ list'.files = G /\ list'.free = FreeOf(now)
  BY <1>4, ListIs
<1>6. /\ d = Dirents(cur) /\ fat = Fat(cur)
      /\ F \in Seq(Records) /\ Len(F) = Len(d) /\ FreeOf(cur) = Cardinality(Free(fat))
  BY <1>2, <1>3, FilesAre
<1>7. \A i \in 1 .. Len(d) : F[i].name = d[i].name
  BY <1>2, <1>3, NamesAre
<1>8. /\ D \in Seq(Entries) /\ Len(D) = Len(d) - 1 /\ T \in Tables
      /\ \A i \in 1 .. Len(D) : D[i] = d[old(i)]
      /\ \A i \in 1 .. Len(D) : Own(D, T, i) = Own(d, fat, old(i))
  <2>1. /\ D \in Seq(Entries) /\ Len(D) = Len(d) - 1
        /\ \A i \in 1 .. Len(D) : D[i] = d[old(i)]
    BY <1>1, RemoveAtIs
  <2>2. T \in Tables /\ \A i \in 1 .. Len(d) - 1 : Own(D, T, i) = Own(d, fat, old(i))
    <3> HIDE DEF d, fat, n
    <3> QED  BY <1>1, RemovedSound
  <2> QED  BY <2>1, <2>2
<1>9. \A i \in 1 .. Len(D) : old(i) \in 1 .. Len(d)
  BY <1>1, <1>8
<1>10. Cardinality(Free(T)) = Cardinality(Free(fat)) + Len(c)
  BY <1>1, RoomGiven
<1> HIDE DEF d, fat, n, D, T, cur, now, F, G
<1>11. Dirents(now) = D /\ Fat(now) = T
  BY <1>1 DEF Dirents, Fat
<1>12. Readable(now)
  BY <1>8, <1>11, Brother120Assumption DEF Readable
<1>13. G \in Seq(Records) /\ Len(G) = Len(D) /\ FreeOf(now) = Cardinality(Free(T))
  BY <1>3, <1>11, <1>12, FilesAre DEF G
<1>14. ASSUME NEW i \in 1 .. Len(D) PROVE G[i] = F[old(i)]
  <2>1. old(i) \in 1 .. Len(d) /\ D[i] = d[old(i)] /\ Own(D, T, i) = Own(d, fat, old(i))
    BY <1>8, <1>9
  <2> HIDE DEF old
  <2>2. Alike(cur, now, Own(d, fat, old(i)))
    BY <1>1, <2>1, OwnBlocks DEF Alike
  <2> QED  BY <1>2, <1>3, <1>6, <1>11, <1>12, <2>1, <2>2, FileStays DEF F, G
<1>15. G = RemoveAt(F, n)
  <2> DEFINE R == RemoveAt(F, n)
  <2>1. R \in Seq(Records) /\ Len(R) = Len(F) - 1 /\ \A i \in 1 .. Len(R) : R[i] = F[old(i)]
    BY <1>1, <1>6, RemoveAtIs
  <2> HIDE DEF R, old
  <2>2. Len(G) = Len(R) /\ \A i \in 1 .. Len(R) : G[i] = R[i]
    BY <1>6, <1>8, <1>13, <1>14, <2>1
  <2>3. G = R
    BY <1>13, <2>1, <2>2
  <2> QED  BY <2>3 DEF R
<1>16. Len(F[n].contents) = Len(c)
  <2>1. PICK x \in Seq(Data \cup {Lost}) :
           /\ FilesOf(cur)[n] = [name |-> Dirents(cur)[n].name, contents |-> x]
           /\ Holds(cur, Own(Dirents(cur), Fat(cur), n), x)
    BY <1>1, <1>2, <1>3, <1>6, FileIs
  <2> QED  BY <1>6, <2>1 DEF Holds, F
<1>17. FreeOf(now) = FreeOf(cur) + Len(F[n].contents)
  BY <1>6, <1>10, <1>13, <1>16
<1>18. DOMAIN F = 1 .. Len(d)
  BY <1>1, <1>6
<1>19. F # Ruined
  BY <1>6, Brother120Assumption DEF Records
<1>20. /\ n \in {i \in DOMAIN F : F[i].name = name}
       /\ \A j \in {i \in DOMAIN F : F[i].name = name} : n <= j
  BY <1>1, <1>7, <1>18
<1>21. G = Files!RemoveAt(F, n)
  BY <1>15 DEF RemoveAt, Files!RemoveAt
<1> QED  BY <1>1, <1>4, <1>5, <1>17, <1>19, <1>20, <1>21 DEF Files!Delete, Files!Named

LEMMA FlushRefines == ASSUME Sync, Flush, Observed PROVE Files!Flush
<1>1. /\ disk' = Current /\ content' = Current /\ Current' = Current
      /\ attempts' = {} /\ touched' = {}
  BY FlushSaves
<1>2. list = ListOf(Current)
  BY DEF Sync, InStep, Current
<1>3. list' = list /\ saved' = list
  BY <1>1, <1>2 DEF Observed, Current
<1>4. list = [files |-> list.files, free |-> list.free]
  BY <1>2, ListIs
<1> QED  BY <1>1, <1>3, <1>4 DEF Files!Flush, Files!List

LEMMA FlushFailsRefines == ASSUME Sync, FlushFails, Observed PROVE Files!FlushFails
<1>1. UNCHANGED <<content, pending, touched>> /\ attempts' = attempts \cup {list}
  BY DEF FlushFails
<1>2. list = ListOf(Current) /\ saved = ListOf(content)
  BY DEF Sync, InStep, Current
<1>3. list' = list /\ saved' = saved
  BY <1>1, <1>2 DEF Observed, Current
<1>4. list = [files |-> list.files, free |-> list.free]
  BY <1>2, ListIs
<1> QED  BY <1>1, <1>3, <1>4 DEF Files!FlushFails, Files!List

\* A discard finds what is on the disk.
LEMMA DiscardRefines == ASSUME Sync, Discard, Observed PROVE Files!Discard
<1>1. /\ disk' = disk /\ content' = disk /\ pending' = Untouched
      /\ attempts' = {} /\ touched' = {}
  BY DEF Discard
<1>2. /\ disk = [b \in Blocks |-> disk[b]] /\ saved = ListOf(content)
      /\ attempts = {} => disk = content
      /\ Readable(disk) => \E s \in attempts \cup {saved} :
            FoundBut(touched, FilesOf(disk), s.files) /\ FreeOf(disk) = s.free
  BY DEF Sync, InStep
<1>3. Over(Untouched, disk) = disk
  BY <1>2, NothingPut
<1>4. list' = ListOf(disk) /\ saved' = list'
  BY <1>1, <1>3 DEF Observed
<1>5. list'.files = FilesOf(disk) /\ list'.free = FreeOf(disk)
  BY <1>4, ListIs
<1>6. saved' = [files |-> list'.files, free |-> list'.free]
  BY <1>4, ListIs
<1>7. attempts = {} => list'.files = saved.files /\ list'.free = saved.free
  BY <1>2, <1>4
<1>8. Readable(disk) => \E s \in attempts \cup {saved} :
         Files!Found(list'.files, s.files) /\ list'.free = s.free
  BY <1>2, <1>5, FoundIs
<1>9. ~Readable(disk) => list'.files = Ruined /\ list'.free = 0
  BY <1>5 DEF FilesOf, FreeOf
<1> QED  BY <1>1, <1>6, <1>7, <1>8, <1>9 DEF Files!Discard, Files!List

\* The filesystem keeps files: each operation has its effect as a whole or none, room
\* is neither lost nor made, a flush that fails spoils no file but those changed
\* (brother120fs.cc over FluxSectorInterface::flushChanges() and discardChanges()).
THEOREM Refinement == Spec => FilesSpec
<1>1. Init => Files!Init
  <2> SUFFICES ASSUME Init PROVE Files!Init
    OBVIOUS
  <2>1. /\ list = ListOf(Formatted) /\ saved = list /\ attempts = {} /\ touched = {}
    BY DEF Init
  <2>2. Formatted[DirBlock] = <<>> /\ Formatted[FatBlock] \in Tables
    BY BlocksAre, Brother120Assumption DEF Formatted, Tables
  <2>3. Intact(Formatted) /\ Readable(Formatted)
    <3>1. Intact(Formatted)
      BY InitIInv DEF Init, IInv
    <3>2. <<>> \in Seq(Entries)
      OBVIOUS
    <3> QED  BY <2>2, <3>1, <3>2, Brother120Assumption DEF Readable, Dirents, Fat
  <2>4. FilesOf(Formatted) \in Seq(Records) /\ Len(FilesOf(Formatted)) = 0
    BY <2>2, <2>3, FilesAre DEF Dirents
  <2>5. FilesOf(Formatted) = <<>>
    BY <2>4
  <2>6. FreeOf(Formatted) \in Nat
    BY <2>3, FreeIs DEF FreeOf
  <2>7. /\ list.files = <<>> /\ list.free \in Nat
        /\ list = [files |-> list.files, free |-> list.free]
    BY <2>1, <2>5, <2>6, ListIs
  <2> QED  BY <2>1, <2>7 DEF Files!Init, Files!List
<1>2. IInv /\ Sync /\ [Next]_vars => [Files!Next]_(Files!vars)
  <2> SUFFICES ASSUME IInv, Sync, [Next]_vars PROVE [Files!Next]_(Files!vars)
    OBVIOUS
  <2>1. CASE UNCHANGED vars
    BY <2>1 DEF vars, Files!vars
  <2>2. CASE Next
    <3>1. Observed
      BY <2>2 DEF Next
    <3>2. ASSUME NEW n \in Names, NEW c \in Contents, PutFile(n, c)
          PROVE  [Files!Next]_(Files!vars)
      BY <3>1, <3>2, PutFileRefines DEF Files!Next
    <3>3. ASSUME NEW n \in Names, DeleteFile(n) PROVE Files!Next
      BY <3>1, <3>3, DeleteFileRefines DEF Files!Next
    <3>4. Flush => Files!Next
      BY <3>1, FlushRefines DEF Files!Next
    <3>5. FlushFails => Files!Next
      BY <3>1, FlushFailsRefines DEF Files!Next
    <3>6. Discard => Files!Next
      BY <3>1, DiscardRefines DEF Files!Next
    <3> QED  BY <2>2, <3>2, <3>3, <3>4, <3>5, <3>6 DEF Next
  <2> QED  BY <2>1, <2>2
<1> QED  BY <1>1, <1>2, SyncInvariance, PTL DEF Spec, FilesSpec, Files!Spec
=============================================================================
