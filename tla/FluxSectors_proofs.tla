----------------------- MODULE FluxSectors_proofs -----------------------
(***************************************************************************)
(* Proofs about FluxSectors, for any layout, any contents, any number of   *)
(* retries and any disk at first.  The inductive invariant compares, for   *)
(* each sector, the disk and the two caches with what the disk held when   *)
(* the last flush or discard was done, strays included, and with what was  *)
(* put since then, wherever flushChanges() is or was left by an exception. *)
(***************************************************************************)
EXTENDS FluxSectors, FiniteSetTheorems, NaturalsInduction,
        WellFoundedInduction, TLAPS

\* What reading the sector gave or would have given before any flush.
Seen(l) == Reads(l, content[l]) \cup strays[l]

\* The tracks with a sector that was put, and what became of it.
Pending == changedTracks = {l[1] : l \in {k \in Locations : asked[k] # None}}

\* The caches hold what was put, and otherwise what was there.
Cached ==
    /\ \A l \in Locations :
          /\ asked[l] # None => changed[l] = asked[l]
          /\ asked[l] = None => changed[l] \in {None} \cup Seen(l)
          /\ changed[l] # None => l[1] \in changedTracks
          /\ loaded[l] \in {None} \cup Seen(l)
    /\ \A t \in loadedTracks : \A l \in On(t) : loaded[l] # None

\* The disk is as it was but for tracks that will not be read again: they are
\* in the cache as a whole.
Stored ==
    \A l \in Locations :
       /\ foreign[l] \subseteq strays[l]
       /\ disk[l] # content[l] /\ asked[l] = None => disk[l] \in {changed[l], Garbled}
       /\ disk[l] # content[l] \/ foreign[l] # strays[l] =>
             /\ l[1] \in changedTracks /\ ~Incomplete(l[1])
             /\ attempted \/ pc = "write"

\* How far the flush is.
Flushed ==
    /\ pc = "merge" => \A t \in changedTracks \ todo : ~Incomplete(t)
    /\ pc = "write" =>
          /\ \A t \in changedTracks : ~Incomplete(t)
          /\ \A t \in changedTracks \ todo : \A l \in On(t) : disk[l] = changed[l]
    /\ pc # "idle" => todo \subseteq changedTracks

IInv == TypeOK /\ Pending /\ Cached /\ Stored /\ Flushed

-----------------------------------------------------------------------------
(* Tables of sectors.                                                        *)

LEMMA LocationsAre ==
    /\ \A l \in Locations : l[1] \in Tracks /\ l \in On(l[1])
    /\ \A t \in Tracks : On(t) \subseteq Locations /\ \A l \in On(t) : l[1] = t
BY DEF Locations, On

LEMMA MinIs == ASSUME NEW S \in SUBSET Nat, S # {} PROVE Min(S) \in S
<1>1. PICK m \in S : \A n \in S : ~ (<<n, m>> \in OpToRel(<, Nat))
  BY NatLessThanWellFounded, WFMin
<1>2. ASSUME NEW n \in S PROVE m <= n
  <2>1. ~ (n < m)
    BY <1>1 DEF OpToRel
  <2> QED  BY <2>1
<1> QED  BY <1>2 DEF Min

LEMMA WithTrackIs ==
    ASSUME NEW t \in Tracks, NEW R, NEW r \in [On(t) -> R], NEW f \in [Locations -> R]
    PROVE  /\ WithTrack(t, r, f) \in [Locations -> R]
           /\ \A l \in Locations : l \in On(t) => WithTrack(t, r, f)[l] = r[l]
           /\ \A l \in Locations : l \notin On(t) => WithTrack(t, r, f)[l] = f[l]
BY DEF WithTrack

LEMMA Distinct ==
    /\ None # Garbled /\ None # Lost /\ Garbled # Lost
    /\ None \notin Data /\ Garbled \notin Data /\ Lost \notin Data
<1>1. ASSUME NEW a, NEW b PROVE Cardinality({a, b}) # 3
  <2>1. IsFiniteSet({b}) /\ Cardinality({b}) = 1
    BY FS_Singleton
  <2>2. Cardinality({b} \cup {a}) \in {1, 2}
    BY <2>1, FS_AddElement
  <2>3. {a, b} = {b} \cup {a}
    OBVIOUS
  <2> QED  BY <2>2, <2>3
<1>2. Cardinality({None, Garbled, Lost}) = 3
  BY FluxSectorsAssumption
<1>3. None # Garbled
  <2>1. {Garbled, Garbled, Lost} = {Garbled, Lost}  OBVIOUS
  <2> QED  BY <1>1, <1>2, <2>1
<1>4. None # Lost
  <2>1. {Lost, Garbled, Lost} = {Garbled, Lost}  OBVIOUS
  <2> QED  BY <1>1, <1>2, <2>1
<1>5. Garbled # Lost
  <2>1. {None, Lost, Lost} = {None, Lost}  OBVIOUS
  <2> QED  BY <1>1, <1>2, <2>1
<1> QED  BY <1>3, <1>4, <1>5, FluxSectorsAssumption

\* What is seen of a sector is never nothing.
LEMMA SeenIs ==
    ASSUME TypeOK, NEW l \in Locations
    PROVE  /\ Seen(l) \subseteq Data \cup {Lost} /\ None \notin Seen(l)
           /\ disk[l] = content[l] /\ foreign[l] \subseteq strays[l] => Readings(l) \subseteq Seen(l)
<1>1. Reads(l, content[l]) \subseteq Data \cup {Lost}
  BY Distinct DEF TypeOK, OnMedium, Reads
<1>2. strays[l] \subseteq Data \cup {Lost}
  BY DEF TypeOK
<1> QED  BY <1>1, <1>2, Distinct DEF Seen, Readings

-----------------------------------------------------------------------------
(* Reading and writing a track.                                              *)

LEMMA PopulateStep ==
    ASSUME IInv, NEW t \in Tracks, Populate(t), Incomplete(t)
    PROVE  /\ loaded' \in [Locations -> Data \cup {Lost, None}]
           /\ \A l \in Locations : IF l \in On(t) THEN loaded'[l] \in Seen(l)
                                   ELSE loaded'[l] = loaded[l]
           /\ loadedTracks' = loadedTracks \cup {t}
<1>1. PICK r \in TrackReadings(t) : loaded' = WithTrack(t, r, loaded)
  BY DEF Populate
<1>2. \A l \in On(t) : r[l] \in Readings(l)
  BY DEF TrackReadings, Each
<1>3. \A l \in On(t) : l \in Locations /\ disk[l] = content[l] /\ foreign[l] \subseteq strays[l]
  BY LocationsAre DEF IInv, Stored
<1>4. \A l \in On(t) : r[l] \in Seen(l)
  BY <1>2, <1>3, SeenIs DEF IInv
<1>7. r \in [On(t) -> Data \cup {Lost, None}]
  <2>1. PICK R : r \in [On(t) -> R]
    BY DEF TrackReadings, Each
  <2>2. \A l \in On(t) : r[l] \in Data \cup {Lost, None}
    BY <1>3, <1>4, SeenIs DEF IInv
  <2> QED  BY <2>1, <2>2
<1>5. loaded \in [Locations -> Data \cup {Lost, None}]
  BY DEF IInv, TypeOK
<1>6. /\ loaded' \in [Locations -> Data \cup {Lost, None}]
      /\ \A l \in Locations : l \in On(t) => loaded'[l] = r[l]
      /\ \A l \in Locations : l \notin On(t) => loaded'[l] = loaded[l]
  <2>1. PICK R : R = Data \cup {Lost, None}
    OBVIOUS
  <2>2. r \in [On(t) -> R] /\ loaded \in [Locations -> R]
    BY <1>7, <1>5, <2>1
  <2>3. /\ loaded' \in [Locations -> R]
        /\ \A l \in Locations : l \in On(t) => loaded'[l] = r[l]
        /\ \A l \in Locations : l \notin On(t) => loaded'[l] = loaded[l]
    BY <1>1, <2>2, WithTrackIs
  <2> QED  BY <2>1, <2>3
<1> QED  BY <1>4, <1>6 DEF Populate

LEMMA WriteTrackStep ==
    ASSUME IInv, NEW t \in Tracks, WriteTrack(t), ~Incomplete(t)
    PROVE  /\ disk' \in [Locations -> OnMedium]
           /\ foreign' \in [Locations -> SUBSET (Data \cup {Lost})]
           /\ \A l \in Locations : IF l \in On(t) THEN /\ disk'[l] \in {changed[l], disk[l], Garbled}
                                                       /\ foreign'[l] \subseteq foreign[l]
                                   ELSE disk'[l] = disk[l] /\ foreign'[l] = foreign[l]
<1>1. PICK w \in Each(t, Leavings) : disk' = WithTrack(t, w, disk)
  BY DEF WriteTrack
<1>2. PICK v \in Each(t, Remaining) : foreign' = WithTrack(t, v, foreign)
  BY DEF WriteTrack
<1>3. disk \in [Locations -> OnMedium] /\ foreign \in [Locations -> SUBSET (Data \cup {Lost})]
  BY DEF IInv, TypeOK
<1>4. \A l \in On(t) : w[l] \in {changed[l], disk[l], Garbled}
  BY <1>1 DEF Each, Leavings
<1>5. \A l \in On(t) : v[l] \subseteq foreign[l]
  BY <1>2 DEF Each, Remaining
<1>6. \A l \in On(t) : l \in Locations /\ changed[l] \in Data \cup {Lost}
  BY LocationsAre DEF IInv, TypeOK, Incomplete
<1>7. w \in [On(t) -> OnMedium]
  <2>1. PICK R : w \in [On(t) -> R]
    BY <1>1 DEF Each
  <2>2. \A l \in On(t) : w[l] \in OnMedium
    BY <1>3, <1>4, <1>6 DEF OnMedium
  <2> QED  BY <2>1, <2>2
<1>8. v \in [On(t) -> SUBSET (Data \cup {Lost})]
  <2>1. PICK R : v \in [On(t) -> R]
    BY <1>2 DEF Each
  <2>2. \A l \in On(t) : v[l] \in SUBSET (Data \cup {Lost})
    BY <1>3, <1>5, <1>6
  <2> QED  BY <2>1, <2>2
<1>9. /\ disk' \in [Locations -> OnMedium]
      /\ \A l \in Locations : l \in On(t) => disk'[l] = w[l]
      /\ \A l \in Locations : l \notin On(t) => disk'[l] = disk[l]
  BY <1>1, <1>3, <1>7, WithTrackIs
<1>10. /\ foreign' \in [Locations -> SUBSET (Data \cup {Lost})]
       /\ \A l \in Locations : l \in On(t) => foreign'[l] = v[l]
       /\ \A l \in Locations : l \notin On(t) => foreign'[l] = foreign[l]
  <2>1. PICK R : R = SUBSET (Data \cup {Lost})
    OBVIOUS
  <2>2. v \in [On(t) -> R] /\ foreign \in [Locations -> R]
    BY <1>3, <1>8, <2>1
  <2>3. /\ foreign' \in [Locations -> R]
        /\ \A l \in Locations : l \in On(t) => foreign'[l] = v[l]
        /\ \A l \in Locations : l \notin On(t) => foreign'[l] = foreign[l]
    BY <1>2, <2>2, WithTrackIs
  <2> QED  BY <2>1, <2>3
<1> QED  BY <1>4, <1>5, <1>9, <1>10

-----------------------------------------------------------------------------
(* Every step keeps the invariant.                                           *)

LEMMA BlankIs ==
    /\ Blank \in [Locations -> Data \cup {Lost, None}] /\ Blank \in [Locations -> Data \cup {None}]
    /\ \A l \in Locations : Blank[l] = None
BY DEF Blank

LEMMA InitIInv == Init => IInv
<1> SUFFICES ASSUME Init PROVE IInv
  OBVIOUS
<1>1. disk \in [Locations -> OnMedium] /\ foreign \in [Locations -> SUBSET (Data \cup {Lost})]
  <2>1. PICK d \in Disks : disk = d.held /\ foreign = d.strays
    BY DEF Init
  <2>2. /\ d.held \in [Locations -> Data \cup {Garbled}]
        /\ d.strays \in [Locations -> SUBSET (Data \cup {Lost})]
    BY FluxSectorsAssumption
  <2> QED  BY <2>1, <2>2 DEF OnMedium
<1>2. Retries \in 0 .. Retries
  BY FluxSectorsAssumption
<1>3. TypeOK
  BY <1>1, <1>2, BlankIs DEF Init, TypeOK
<1> QED  BY <1>3, BlankIs DEF Init, IInv, Pending, Cached, Stored, Flushed

\* The caches are emptied: what the disk holds is what it held.
LEMMA ForgetStep == ASSUME IInv, Forget, disk' = disk, foreign' = foreign, todo' \in SUBSET Tracks,
                           retries' = retries, pc' = "idle"
                    PROVE  IInv'
<1>1. TypeOK'
  BY BlankIs DEF Forget, IInv, TypeOK
<1> QED  BY <1>1, BlankIs DEF Forget, IInv, Pending, Cached, Stored, Flushed

LEMMA GetStep == ASSUME IInv, NEW t \in Tracks, Get(t) PROVE IInv'
<1>1. /\ pc = "idle"
      /\ UNCHANGED <<disk, foreign, changedTracks, changed, pc, todo, retries, asked, content, strays,
                     attempted>>
  BY DEF Get, medium, changes, flush, history
<1>2. /\ loaded' \in [Locations -> Data \cup {Lost, None}]
      /\ \A l \in Locations : IF l \in On(t) THEN loaded'[l] \in Seen(l)
                              ELSE loaded'[l] = loaded[l]
      /\ loadedTracks' = loadedTracks \cup {t}
  BY PopulateStep DEF Get
<1>3. TypeOK'
  BY <1>1, <1>2 DEF IInv, TypeOK
<1>4. Cached'
  <2>1. \A l \in Locations : Seen(l)' = Seen(l) /\ None \notin Seen(l)
    BY <1>1, SeenIs DEF Seen, IInv
  <2>2. \A l \in Locations : loaded'[l] \in {None} \cup Seen(l)
    BY <1>2 DEF IInv, Cached
  <2>3. \A u \in loadedTracks' : \A l \in On(u) : loaded'[l] # None
    BY <1>2, <2>1, LocationsAre DEF IInv, TypeOK, Cached
  <2> QED  BY <1>1, <2>1, <2>2, <2>3 DEF IInv, Cached
<1>5. Stored' /\ Pending' /\ Flushed'
  BY <1>1 DEF IInv, Stored, Pending, Flushed, Incomplete
<1> QED  BY <1>3, <1>4, <1>5 DEF IInv

LEMMA PutStep == ASSUME IInv, NEW k \in Locations, NEW d \in Data, Put(k, d) PROVE IInv'
<1>1. /\ pc = "idle"
      /\ UNCHANGED <<disk, foreign, loadedTracks, loaded, pc, todo, retries, content, strays, attempted>>
      /\ changedTracks' = changedTracks \cup {k[1]}
  BY DEF Put, medium, cache, flush
<1>2. /\ changed' \in [Locations -> Data \cup {Lost, None}]
      /\ asked' \in [Locations -> Data \cup {None}]
      /\ changed'[k] = d /\ asked'[k] = d /\ d # None
      /\ \A l \in Locations : l # k => changed'[l] = changed[l] /\ asked'[l] = asked[l]
  BY Distinct DEF Put, IInv, TypeOK
<1>3. TypeOK'
  BY <1>1, <1>2, LocationsAre DEF IInv, TypeOK
<1>4. Pending'
  BY <1>1, <1>2 DEF IInv, Pending
<1>5. Cached'
  <2>1. \A l \in Locations : Seen(l)' = Seen(l)
    BY <1>1 DEF Seen
  <2> QED  BY <1>1, <1>2, <2>1 DEF IInv, Cached
<1>6. Stored'
  <2>1. \A t \in Tracks : Incomplete(t)' => Incomplete(t)
    BY <1>2, LocationsAre DEF Incomplete
  <2> QED  BY <1>1, <1>2, <2>1, LocationsAre DEF IInv, Stored
<1>7. Flushed'
  BY <1>1 DEF Flushed
<1> QED  BY <1>3, <1>4, <1>5, <1>6, <1>7 DEF IInv

\* The flush goes on, or ends with an exception, and the disk and the caches stay.
LEMMA KeepStep ==
    ASSUME IInv, UNCHANGED <<medium, cache, changes, asked, content, strays>>,
           pc' \in {"idle", "merge", "write"}, todo' \in SUBSET Tracks, retries' \in 0 .. Retries,
           attempted' \in BOOLEAN,
           attempted => attempted', pc = "write" => pc' = "write" \/ attempted',
           Flushed'
    PROVE  IInv'
<1>1. UNCHANGED <<disk, foreign, loadedTracks, loaded, changedTracks, changed, asked, content, strays>>
  BY DEF medium, cache, changes
<1>2. TypeOK'
  BY <1>1 DEF IInv, TypeOK
<1>3. Pending' /\ Cached'
  BY <1>1 DEF IInv, Pending, Cached, Seen
<1>4. Stored'
  BY <1>1 DEF IInv, Stored, Incomplete
<1> QED  BY <1>2, <1>3, <1>4 DEF IInv

LEMMA ThrowStep == ASSUME IInv, Throw, UNCHANGED medium PROVE IInv'
<1>1. Retries \in 0 .. Retries
  BY FluxSectorsAssumption
<1>2. Flushed'
  BY DEF Throw, Flushed
<1> QED  BY <1>1, <1>2, KeepStep DEF Throw

LEMMA NextTrack ==
    ASSUME IInv, todo # {}, pc # "idle"
    PROVE  Min(todo) \in todo /\ Min(todo) \in changedTracks /\ Min(todo) \in Tracks
<1>1. todo \subseteq Tracks /\ todo \in SUBSET Nat /\ todo \subseteq changedTracks
  BY FluxSectorsAssumption DEF IInv, TypeOK, Flushed, Tracks
<1> QED  BY <1>1, MinIs

LEMMA MergeTrackStep == ASSUME IInv, MergeTrack PROVE IInv'
<1> DEFINE t == Min(todo)
<1>1. t \in todo /\ t \in changedTracks /\ t \in Tracks
  BY NextTrack DEF MergeTrack
<1> HIDE DEF t
<1>2. /\ pc = "merge" /\ todo' = todo \ {t}
      /\ UNCHANGED <<disk, foreign, changedTracks, pc, retries, asked, content, strays, attempted, medium>>
  BY DEF MergeTrack, medium, history, t
<1>3. CASE ~Incomplete(t) /\ UNCHANGED <<cache, changed>>
  <2>1. Flushed'
    BY <1>1, <1>2, <1>3 DEF IInv, Flushed, Incomplete
  <2> QED  BY <1>1, <1>2, <1>3, <2>1, KeepStep DEF changes, IInv, TypeOK
<1>4. CASE /\ Incomplete(t)
           /\ IF t \in loadedTracks THEN UNCHANGED cache ELSE Populate(t)
           /\ changed' = Completed(t, loaded')
  <2>1. /\ loaded' \in [Locations -> Data \cup {Lost, None}]
        /\ \A l \in Locations : l \notin On(t) => loaded'[l] = loaded[l]
        /\ \A l \in On(t) : loaded'[l] \in Seen(l)
        /\ loadedTracks' = loadedTracks \cup {t}
    <3>1. CASE t \in loadedTracks
      BY <1>1, <1>4, <3>1, LocationsAre DEF cache, IInv, TypeOK, Cached
    <3>2. CASE t \notin loadedTracks
      BY <1>1, <1>4, <3>2, PopulateStep, LocationsAre
    <3> QED  BY <3>1, <3>2
  <2>2. /\ changed' \in [Locations -> Data \cup {Lost, None}]
        /\ \A l \in Locations : changed'[l] = IF l \in On(t) /\ changed[l] = None THEN loaded'[l]
                                              ELSE changed[l]
    BY <1>4, <2>1 DEF Completed, IInv, TypeOK
  <2>3. \A l \in Locations : Seen(l)' = Seen(l) /\ None \notin Seen(l)
    BY <1>2, SeenIs DEF Seen, IInv
  <2>4. TypeOK'
    BY <1>1, <1>2, <2>1, <2>2 DEF IInv, TypeOK
  <2>5. Cached'
    <3>1. ASSUME NEW l \in Locations
          PROVE  /\ asked[l] # None => changed'[l] = asked[l]
                 /\ asked[l] = None => changed'[l] \in {None} \cup Seen(l)
                 /\ changed'[l] # None => l[1] \in changedTracks
                 /\ loaded'[l] \in {None} \cup Seen(l)
      BY <1>1, <2>1, <2>2, LocationsAre DEF IInv, Cached
    <3>2. \A u \in loadedTracks' : \A l \in On(u) : loaded'[l] # None
      BY <1>1, <2>1, <2>3, LocationsAre DEF IInv, TypeOK, Cached
    <3> QED  BY <1>2, <2>3, <3>1, <3>2 DEF Cached
  <2>6. \A u \in Tracks : Incomplete(u)' <=> Incomplete(u) /\ u # t
    BY <1>1, <2>1, <2>2, <2>3, LocationsAre DEF Incomplete
  <2>7. Stored'
    BY <1>1, <1>2, <1>4, <2>2, <2>6, LocationsAre DEF IInv, Stored
  <2>8. Flushed'
    BY <1>2, <2>6 DEF IInv, TypeOK, Flushed
  <2>9. Pending'
    BY <1>2 DEF IInv, Pending
  <2> QED  BY <2>4, <2>5, <2>7, <2>8, <2>9 DEF IInv
<1> QED  BY <1>3, <1>4 DEF MergeTrack, t

\* An attempt to write a track, after which the flush goes on or throws.
LEMMA WriteStep ==
    ASSUME IInv, NEW t \in changedTracks, pc = "write", WriteTrack(t),
           UNCHANGED <<cache, changes, asked, content, strays>>,
           pc' \in {"idle", "write"}, todo' \in SUBSET Tracks, retries' \in 0 .. Retries,
           attempted' \in BOOLEAN, attempted' \/ (pc' = "write" /\ attempted' = attempted),
           Flushed'
    PROVE  IInv'
<1>1. UNCHANGED <<loadedTracks, loaded, changedTracks, changed, asked, content, strays>>
  BY DEF cache, changes
<1>2. t \in Tracks /\ ~Incomplete(t)
  BY DEF IInv, TypeOK, Flushed
<1>3. /\ disk' \in [Locations -> OnMedium]
      /\ foreign' \in [Locations -> SUBSET (Data \cup {Lost})]
      /\ \A l \in Locations : IF l \in On(t) THEN /\ disk'[l] \in {changed[l], disk[l], Garbled}
                                                  /\ foreign'[l] \subseteq foreign[l]
                              ELSE disk'[l] = disk[l] /\ foreign'[l] = foreign[l]
  BY <1>2, WriteTrackStep
<1>4. TypeOK'
  BY <1>1, <1>3 DEF IInv, TypeOK
<1>5. Pending' /\ Cached'
  BY <1>1 DEF IInv, Pending, Cached, Seen
<1>6. Stored'
  BY <1>1, <1>2, <1>3, LocationsAre DEF IInv, Stored, Incomplete
<1> QED  BY <1>4, <1>5, <1>6 DEF IInv

LEMMA WriteGoodStep == ASSUME IInv, WriteGood PROVE IInv'
<1> DEFINE t == Min(todo)
<1>1. t \in todo /\ t \in changedTracks /\ t \in Tracks
  BY NextTrack DEF WriteGood
<1> HIDE DEF t
<1>2. /\ pc = "write" /\ WriteTrack(t) /\ Verified(t) /\ todo' = todo \ {t} /\ retries' = Retries
      /\ UNCHANGED <<pc, cache, changes, asked, content, strays, attempted, changedTracks, changed>>
  BY DEF WriteGood, history, changes, t
<1>5. ~Incomplete(t)
  BY <1>1, <1>2 DEF IInv, Flushed
<1>3. Flushed'
  <2>1. \A u \in changedTracks : ~Incomplete(u) /\ ~Incomplete(u)'
    BY <1>2 DEF IInv, Flushed, Incomplete
  <2>2. ASSUME NEW u \in changedTracks \ todo', NEW l \in On(u) PROVE disk'[l] = changed[l]
    <3>1. CASE u = t
      BY <1>2, <2>2, <3>1 DEF Verified
    <3>2. CASE u # t
      <4>1. u \in Tracks /\ u \in changedTracks \ todo
        BY <1>2, <2>2, <3>2 DEF IInv, TypeOK
      <4>2. l \in Locations /\ l \notin On(t)
        BY <1>1, <2>2, <3>2, <4>1, LocationsAre
      <4>3. disk'[l] = disk[l]
        BY <1>1, <1>2, <1>5, <4>2, WriteTrackStep
      <4> QED  BY <1>2, <2>2, <4>1, <4>3 DEF IInv, Flushed
    <3> QED  BY <3>1, <3>2
  <2> QED  BY <1>2, <2>1, <2>2 DEF IInv, Flushed
<1>4. Retries \in 0 .. Retries
  BY FluxSectorsAssumption
<1> QED  BY <1>1, <1>2, <1>3, <1>4, WriteStep DEF IInv, TypeOK

LEMMA WriteRetriedStep == ASSUME IInv, WriteRetried PROVE IInv'
<1> DEFINE t == Min(todo)
<1>1. t \in todo /\ t \in changedTracks /\ t \in Tracks
  BY NextTrack DEF WriteRetried
<1> HIDE DEF t
<1>2. /\ pc = "write" /\ WriteTrack(t) /\ retries # 0 /\ retries' = retries - 1
      /\ UNCHANGED <<pc, todo, cache, changes, asked, content, strays, attempted, changedTracks, changed>>
  BY DEF WriteRetried, history, changes, t
<1>5. ~Incomplete(t)
  BY <1>1, <1>2 DEF IInv, Flushed
<1>3. Flushed'
  <2>1. ASSUME NEW u \in changedTracks \ todo, NEW l \in On(u) PROVE disk'[l] = disk[l]
    <3>1. u \in Tracks /\ u # t
      BY <1>1, <2>1 DEF IInv, TypeOK
    <3> QED  BY <1>1, <1>2, <1>5, <2>1, <3>1, WriteTrackStep, LocationsAre
  <2> QED  BY <1>2, <2>1 DEF IInv, Flushed, Incomplete
<1>4. retries' \in 0 .. Retries
  BY <1>2, FluxSectorsAssumption DEF IInv, TypeOK
<1> QED  BY <1>1, <1>2, <1>3, <1>4, WriteStep DEF IInv, TypeOK

LEMMA WriteThrowsStep == ASSUME IInv, WriteThrows PROVE IInv'
<1>1. Retries \in 0 .. Retries
  BY FluxSectorsAssumption
<1>2. Flushed'
  BY DEF WriteThrows, Throw, Flushed
<1>3. CASE UNCHANGED medium
  BY <1>3, ThrowStep DEF WriteThrows
<1>4. CASE WriteTrack(Min(todo))
  <2>1. Min(todo) \in changedTracks
    BY NextTrack DEF WriteThrows
  <2>2. /\ UNCHANGED <<cache, changes, asked, content, strays>> /\ pc = "write" /\ pc' = "idle"
        /\ todo' = {} /\ retries' = Retries /\ attempted' = TRUE
    BY DEF WriteThrows, Throw
  <2>3. /\ todo' \in SUBSET Tracks /\ attempted' \in BOOLEAN /\ pc' \in {"idle", "write"}
        /\ attempted' \/ (pc' = "write" /\ attempted' = attempted)
    BY <2>2
  <2> QED  BY <1>1, <1>2, <1>4, <2>1, <2>2, <2>3, WriteStep
<1> QED  BY <1>3, <1>4 DEF WriteThrows

LEMMA StepIInv == IInv /\ [Next]_vars => IInv'
<1> SUFFICES ASSUME IInv, [Next]_vars PROVE IInv'
  OBVIOUS
<1>1. CASE \E t \in Tracks : Get(t)
  BY <1>1, GetStep
<1>2. CASE \E l \in Locations : \E d \in Puts[l] : Put(l, d)
  BY <1>2, PutStep, FluxSectorsAssumption
<1>3. CASE Discard
  BY <1>3, ForgetStep DEF Discard, medium, flush, IInv, TypeOK
<1>4. CASE FlushBegins
  <2>1. Flushed'
    BY <1>4 DEF FlushBegins, changes, Flushed
  <2> QED  BY <1>4, <2>1, KeepStep DEF FlushBegins, history, IInv, TypeOK
<1>5. CASE MergeTrack
  BY <1>5, MergeTrackStep
<1>6. CASE MergeThrows
  BY <1>6, ThrowStep DEF MergeThrows
<1>7. CASE WriteBegins
  <2>1. Flushed'
    BY <1>7 DEF WriteBegins, changes, IInv, Flushed, Incomplete
  <2>2. Retries \in 0 .. Retries
    BY FluxSectorsAssumption
  <2> QED  BY <1>7, <2>1, <2>2, KeepStep DEF WriteBegins, history, IInv, TypeOK
<1>8. CASE WriteGood
  BY <1>8, WriteGoodStep
<1>9. CASE WriteRetried
  BY <1>9, WriteRetriedStep
<1>10. CASE WriteThrows
  BY <1>10, WriteThrowsStep
<1>11. CASE FlushEnds
  BY <1>11, ForgetStep DEF FlushEnds, medium, IInv, TypeOK
<1>12. CASE UNCHANGED vars
  <2>1. UNCHANGED <<medium, cache, changes, asked, content, strays, pc, todo, retries, attempted>>
    BY <1>12 DEF vars, flush, history
  <2>2. Flushed'
    BY <2>1 DEF medium, changes, IInv, Flushed, Incomplete
  <2> QED  BY <2>1, <2>2, KeepStep DEF IInv, TypeOK
<1> QED
  BY <1>1, <1>2, <1>3, <1>4, <1>5, <1>6, <1>7, <1>8, <1>9, <1>10, <1>11, <1>12
  DEF Next, Flushing

-----------------------------------------------------------------------------
(* Theorems.                                                                 *)

\* The invariant holds in every state, wherever a flush was left.
THEOREM Invariance == Spec => []IInv
<1> QED  BY InitIInv, StepIInv, PTL DEF Spec

\* CachesAgree: get() gives the last thing put, or else what was read of the
\* sector or of a stray in its place, and needsFlushing() is right, also after
\* flushes that failed half way and whatever was put and read in between.
THEOREM CachesCorrect == Spec => []CachesAgree
<1>1. IInv => ReadsLatest
  <2> SUFFICES ASSUME IInv, NEW l \in Locations
               PROVE  LET found == IF changed[l] # None THEN changed[l] ELSE loaded[l]
                      IN  IF asked[l] # None THEN found = asked[l]
                          ELSE \/ found \in Reads(l, content[l]) \cup strays[l]
                               \/ found = None /\ l[1] \notin loadedTracks
    BY DEF ReadsLatest
  <2>1. l[1] \in loadedTracks => loaded[l] # None
    BY LocationsAre DEF IInv, Cached
  <2> QED  BY <2>1, Distinct DEF IInv, TypeOK, Cached, Seen
<1>2. IInv => DirtyExact
  BY DEF IInv, Pending, DirtyExact
<1>3. IInv => CachesAgree
  BY <1>1, <1>2 DEF IInv, CachesAgree
<1> QED  BY <1>3, Invariance, PTL

-----------------------------------------------------------------------------
(* Refinement of SectorStore.                                                *)

LEMMA InitRefines == Init => Store!Init
<1> SUFFICES ASSUME Init PROVE Store!Init
  OBVIOUS
<1>1. /\ content \in [Locations -> Data \cup {Garbled, Lost}]
      /\ strays \in [Locations -> SUBSET (Data \cup {Lost})]
  BY InitIInv DEF IInv, TypeOK, OnMedium
<1>2. asked = [l \in Locations |-> None] /\ attempted = FALSE
  BY DEF Init, Blank
<1> QED  BY <1>1, <1>2 DEF Store!Init, Store!OnDisk, Store!Mistaken, Store!NothingAsked

\* The track of a sector is one that was changed.
LEMMA TouchedIs ==
    ASSUME IInv, NEW l \in Locations
    PROVE  Touched(l, asked) <=> l[1] \in changedTracks
<1>1. l[1] \in Tracks /\ l \in On(l[1])
  BY LocationsAre
<1>2. ASSUME Touched(l, asked) PROVE l[1] \in changedTracks
  <2>1. PICK k \in On(l[1]) : asked[k] # None
    BY <1>2 DEF Touched
  <2>2. k \in Locations /\ k[1] = l[1]
    BY <1>1, <2>1, LocationsAre
  <2> QED  BY <2>1, <2>2 DEF IInv, Pending
<1>3. ASSUME l[1] \in changedTracks PROVE Touched(l, asked)
  <2>1. PICK k \in Locations : asked[k] # None /\ k[1] = l[1]
    BY <1>3 DEF IInv, Pending
  <2>2. k \in On(l[1])
    BY <2>1, LocationsAre
  <2> QED  BY <2>1, <2>2 DEF Touched
<1> QED  BY <1>2, <1>3

LEMMA DiscardRefines == ASSUME IInv, Discard PROVE Store!Discard
<1>1. /\ disk \in [Locations -> Data \cup {Garbled, Lost}] /\ content' = disk
      /\ foreign \in [Locations -> SUBSET (Data \cup {Lost})] /\ strays' = foreign
      /\ asked' = [l \in Locations |-> None] /\ attempted' = FALSE /\ pc = "idle"
  BY DEF Discard, Forget, Blank, IInv, TypeOK, OnMedium
<1>2. ASSUME NEW l \in Locations PROVE disk[l] \in Store!Remains(l)
  <2>1. CASE disk[l] = content[l]
    BY <1>1, <2>1 DEF Store!Remains
  <2>2. CASE disk[l] # content[l]
    <3>1. /\ attempted /\ Touched(l, asked) /\ ~Incomplete(l[1])
          /\ asked[l] = None => disk[l] \in {changed[l], Garbled}
      BY <1>1, <2>2, TouchedIs DEF IInv, Stored
    <3>2. changed[l] # None
      BY <3>1, LocationsAre DEF Incomplete
    <3>3. asked[l] = None => disk[l] \in {Garbled} \cup Reads(l, content[l]) \cup strays[l]
      BY <3>1, <3>2 DEF IInv, Cached, Seen
    <3>4. disk[l] \in Data \cup {Garbled, Lost}
      BY <1>1
    <3> QED  BY <3>1, <3>3, <3>4 DEF Store!Remains
  <2> QED  BY <2>1, <2>2
<1>3. ASSUME NEW l \in Locations
      PROVE  foreign[l] \in IF attempted THEN Store!Cleared(l) ELSE {strays[l]}
  <2>1. foreign[l] \subseteq strays[l]
    BY DEF IInv, Stored
  <2>2. foreign[l] # strays[l] => attempted /\ Touched(l, asked)
    BY <1>1, TouchedIs DEF IInv, Stored
  <2> QED  BY <2>1, <2>2 DEF Store!Cleared
<1> QED  BY <1>1, <1>2, <1>3 DEF Store!Discard, Store!OnDisk, Store!Mistaken, Store!NothingAsked

\* Every changed track is on the disk as a whole: what was put, and of the rest
\* what was read.
LEMMA FlushRefines == ASSUME IInv, FlushEnds PROVE Store!Flush
<1>1. /\ disk \in [Locations -> Data \cup {Garbled, Lost}] /\ content' = disk
      /\ foreign \in [Locations -> SUBSET (Data \cup {Lost})] /\ strays' = foreign
      /\ asked' = [l \in Locations |-> None] /\ attempted' = FALSE /\ pc = "write" /\ todo = {}
  BY DEF FlushEnds, Forget, Blank, IInv, TypeOK, OnMedium
<1>2. ASSUME NEW l \in Locations PROVE disk[l] \in Store!Flushed(l)
  <2>1. CASE l[1] \in changedTracks
    <3>1. disk[l] = changed[l] /\ changed[l] # None
      BY <1>1, <2>1, LocationsAre DEF IInv, Flushed, Incomplete
    <3>2. CASE asked[l] # None
      BY <3>1, <3>2 DEF IInv, Cached, Store!Flushed
    <3>3. CASE asked[l] = None
      <4>1. disk[l] \in Reads(l, content[l]) \cup strays[l]
        BY <3>1, <3>3 DEF IInv, Cached, Seen
      <4>2. Touched(l, asked)
        BY <2>1, TouchedIs
      <4> QED  BY <3>3, <4>1, <4>2 DEF Store!Flushed
    <3> QED  BY <3>2, <3>3
  <2>2. CASE l[1] \notin changedTracks
    <3>1. disk[l] = content[l] /\ ~Touched(l, asked)
      BY <2>2, TouchedIs DEF IInv, Stored
    <3>2. asked[l] = None
      BY <2>2 DEF IInv, Pending
    <3> QED  BY <3>1, <3>2 DEF Store!Flushed
  <2> QED  BY <2>1, <2>2
<1>3. ASSUME NEW l \in Locations PROVE foreign[l] \in Store!Cleared(l)
  <2>1. foreign[l] \subseteq strays[l]
    BY DEF IInv, Stored
  <2>2. foreign[l] # strays[l] => Touched(l, asked)
    BY TouchedIs DEF IInv, Stored
  <2> QED  BY <2>1, <2>2 DEF Store!Cleared
<1> QED  BY <1>1, <1>2, <1>3 DEF Store!Flush, Store!OnDisk, Store!Mistaken, Store!NothingAsked

LEMMA StepRefines == IInv /\ [Next]_vars => [Store!Next]_(Store!vars)
<1> SUFFICES ASSUME IInv, [Next]_vars
             PROVE  Store!Next \/ UNCHANGED <<content, strays, asked, attempted>>
  BY DEF Store!vars
<1>1. CASE \E l \in Locations : \E d \in Puts[l] : Put(l, d)
  BY <1>1, FluxSectorsAssumption DEF Put, Store!Next, Store!Put
<1>2. CASE Discard
  BY <1>2, DiscardRefines DEF Store!Next
<1>3. CASE FlushEnds
  BY <1>3, FlushRefines DEF Store!Next
<1>4. CASE MergeThrows \/ WriteThrows
  BY <1>4 DEF MergeThrows, WriteThrows, Throw, Store!Next, Store!FlushFails
<1>5. CASE UNCHANGED <<content, strays, asked, attempted>>
  BY <1>5
<1> QED
  BY <1>1, <1>2, <1>3, <1>4, <1>5
  DEF Next, Flushing, Get, FlushBegins, MergeTrack, WriteBegins, WriteGood, WriteRetried, history,
      vars

\* The interface is a sector store, whatever strays the disk has and wherever
\* its good sectors do not read: a flush makes every change part of the disk,
\* and of the sectors it has to write with them what was read, wherever flushes
\* before it have failed.
THEOREM Refinement == Spec => StoreSpec
<1>1. Init => IInv  BY InitIInv
<1>2. IInv /\ [Next]_vars => IInv'  BY StepIInv
<1>3. IInv /\ [Next]_vars => [Store!Next]_(Store!vars)  BY StepRefines
<1> QED  BY <1>1, <1>2, <1>3, InitRefines, PTL DEF Spec, StoreSpec, Store!Spec
=============================================================================
