---------------------------- MODULE MCFluxPath ----------------------------
(* Tracks of up to six cells, the first without a pulse and the last with  *)
(* one; records of two bits after the sync mark of MFM (4489), and of 40   *)
(* while the drive drifts; streams of up to four opcodes.                  *)
EXTENDS FluxPath

MCTracks == {t \in UNION {[1 .. n -> BOOLEAN] : n \in 2 .. 6} : ~t[1] /\ t[Len(t)]}
MCCells  == {<<2, 1>>, <<5, 2>>, <<10, 3>>}

MCRecords     == [1 .. 2 -> BOOLEAN]
MCRecordCells == {<<5, 1>>, <<20, 3>>}
MCLongRecords == {[i \in 1 .. 40 |-> i % 5 \in r] : r \in {{}, {0}, {0, 3}, {1, 2}, {0, 1, 2, 3}, 0 .. 4}}
MCDrifts      == {-8, 8}

MCSync    == [i \in 1 .. 16 |-> i \in {2, 6, 9, 13, 16}]

B(ones, n)  == [i \in 1 .. n |-> i \in ones]
MCPatterns  == {<<Pattern(B({1, 2, 4}, 4))>>, <<Pattern(B({2, 3}, 5))>>,
                <<Pattern(B({1, 2, 3}, 3)), Pattern(B({1, 3}, 3))>>}

Opcodes   == {Short(1), Short(3), Long(0, 1), Long(1, 2), Space(4), Index(0), Index(2), Index(3)}
MCStreams == UNION {[1 .. n -> Opcodes] : n \in 1 .. 4}
=============================================================================
