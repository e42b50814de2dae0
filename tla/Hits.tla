-------------------------------- MODULE Hits --------------------------------
(***************************************************************************)
(* From the signals of the sensors (digi hits) to the hits of a detector   *)
(* element and to clusters: CalorimeterHit_factory, IntVetoHit_factory,    *)
(* ExtVetoHit_factory, CalorimeterCluster_factory and the two factories of *)
(* veto summaries.  A loop over a vector is a fold over a sequence.        *)
(*                                                                         *)
(* A channel is a record with the fields sector, layer, component (x and y *)
(* of a crystal) and readout; 0 for the last stands for the whole element. *)
(* Charges and energies are integers: the charges of an instance are such  *)
(* that dividing by a gain leaves no remainder.                            *)
(***************************************************************************)
EXTENDS Integers, Sequences, FiniteSets, Folds, SequencesExt, FiniteSetsExt

CONSTANTS
    THR_singleReadout,    \* CALORIMETER/INTVETO:HIT_THR_SINGLE
    THR_multipleReadout,  \* CALORIMETER/INTVETO:HIT_THR_MULTI
    N_multipleReadout,    \* CALORIMETER/INTVETO:HIT_N_MULTI
    DT_multipleReadout,   \* INTVETO:HIT_DT_MULTI
    CLUSTER_HIT_THR,      \* CALORIMETER:CLUSTER_HIT_THR
    CLUSTER_SEED_THR,     \* CALORIMETER:CLUSTER_SEED_THR
    Gain, Ped             \* /Calorimeter/Ene of each element: gain, pedestal

\* Less than any charge or energy: the -9999 the searches for a maximum
\* start from.
Low == -9999

Whole(c) == [c EXCEPT !.readout = 0]

\* m_map: the digi hits of each element, in the order they came.
OfElement(digis, c) == SelectSeq(digis, LAMBDA d : Whole(d.ch) = c)

\* The keys of m_map, in the order the map is walked through (operator< of
\* the indices puts the larger one first).
Before(c, d) ==
    \/ c.sector > d.sector
    \/ c.sector = d.sector /\ c.layer > d.layer
    \/ c.sector = d.sector /\ c.layer = d.layer /\ c.component > d.component
Elements(digis) ==
    SetToSortSeq({Whole(digis[i].ch) : i \in DOMAIN digis}, Before)

\* The search for the digi hit with the largest charge: the first of several.
Highest(ds) ==
    FoldLeft(LAMBDA best, d : IF d.Q > best.Q THEN d ELSE best,
             [Q |-> Low], ds)

SumOf(ds, f(_)) == FoldLeft(LAMBDA sum, d : sum + f(d), 0, ds)
EnergyOf(hits)  == SumOf(hits, LAMBDA h : h.E)

-----------------------------------------------------------------------------
(***************************************************************************)
(* CalorimeterHit_factory.                                                 *)
(***************************************************************************)

\* Pedestal subtracted, and divided by the gain unless that is zero.
Energy(q, c) ==
    IF Gain[c] # 0 THEN (q - Ped[c]) \div Gain[c] ELSE q - Ped[c]

\* The digi hits that are put in the map.
CaloUsed(digis) == SelectSeq(digis, LAMBDA d : d.ch.readout = 1)

\* The hit of one element, as a sequence that is empty when there is none.
CaloHitOf(ds, c) ==
    LET q == Highest(ds).Q
        enough == IF Len(ds) = 1 THEN q > THR_singleReadout
                  ELSE Len(SelectSeq(ds, LAMBDA d : d.Q > THR_multipleReadout))
                           >= N_multipleReadout
    IN  IF enough THEN << [ch |-> c, E |-> Energy(q, c), T |-> Highest(ds).T] >>
        ELSE << >>

\* evnt.
CalorimeterHits(digis) ==
    LET used == CaloUsed(digis)
        es   == Elements(used)
    IN  FlattenSeq([i \in DOMAIN es |-> CaloHitOf(OfElement(used, es[i]), es[i])])

-----------------------------------------------------------------------------
(***************************************************************************)
(* IntVetoHit_factory.  workaround is INTVETO:HIT_BOTTOM_WORKAROUND, which *)
(* treats component 3 of every layer as if it had a single readout.        *)
(***************************************************************************)

Distance(s, t) == IF s < t THEN t - s ELSE s - t

\* As Coincident, within the window after the largest only.
Coincident_After(ds, max) ==
    SelectSeq(ds, LAMBDA d : /\ d.Q > THR_multipleReadout
                             /\ d.T - max.T < DT_multipleReadout)

\* The digi hits over threshold and in time with the largest.
Coincident(ds, max) ==
    SelectSeq(ds, LAMBDA d : /\ d.Q > THR_multipleReadout
                             /\ Distance(d.T, max.T) < DT_multipleReadout)

SingleVeto(max, c) ==
    IF max.Q > THR_singleReadout
    THEN << [ch |-> c, Q |-> max.Q, T |-> max.T, from |-> <<max>>] >>
    ELSE << >>

MultiVeto(ds, max, c) ==
    LET near == Coincident(ds, max)
    IN  IF max.Q < THR_multipleReadout \/ Len(near) < N_multipleReadout
        THEN << >>
        ELSE << [ch |-> c, Q |-> SumOf(near, LAMBDA d : d.Q), T |-> max.T,
                 from |-> near] >>

VetoHitOf(ds, c, workaround) ==
    IF Len(ds) = 1 \/ (workaround /\ c.component = 3)
    THEN SingleVeto(Highest(ds), c)
    ELSE MultiVeto(ds, Highest(ds), c)

\* evnt.
IntVetoHits(digis, workaround) ==
    LET es == Elements(digis)
    IN  FlattenSeq([i \in DOMAIN es |->
            VetoHitOf(OfElement(digis, es[i]), es[i], workaround)])

-----------------------------------------------------------------------------
(***************************************************************************)
(* ExtVetoHit_factory: all charges of the element, the time of the largest *)
(* one; no hit when that time is negative (the converters' mark for "no    *)
(* pulse").  Its energy constant only scales the charge.                   *)
(***************************************************************************)

ExtVetoHitOf(ds, c) ==
    IF Highest(ds).T < 0 THEN << >>
    ELSE << [ch |-> c, Q |-> SumOf(ds, LAMBDA d : d.Q), T |-> Highest(ds).T] >>

\* evnt.
ExtVetoHits(digis) ==
    LET es == Elements(digis)
    IN  FlattenSeq([i \in DOMAIN es |->
            ExtVetoHitOf(OfElement(digis, es[i]), es[i])])

-----------------------------------------------------------------------------
(***************************************************************************)
(* CalorimeterCluster_factory: in each sector, the hits over threshold,    *)
(* if the largest of them is over the threshold of a seed.                 *)
(***************************************************************************)

OverThreshold(hits) == SelectSeq(hits, LAMBDA h : h.E > CLUSTER_HIT_THR)

Sectors(hits) ==
    SetToSortSeq({hits[i].ch.sector : i \in DOMAIN hits}, <)

Seed(hits) ==
    FoldLeft(LAMBDA best, h : IF h.E > best.E THEN h ELSE best,
             [E |-> Low], hits)

\* setCluster.
ClusterOf(hits, s) ==
    LET near == SelectSeq(hits, LAMBDA h : h.ch.sector = s)
    IN  IF Seed(near).E > CLUSTER_SEED_THR
        THEN << [sector |-> s, hits |-> near, seed |-> Seed(near),
                 E |-> EnergyOf(near)] >>
        ELSE << >>

\* evnt.
CalorimeterClusters(hits) ==
    LET over == OverThreshold(hits)
        ss   == Sectors(over)
    IN  FlattenSeq([i \in DOMAIN ss |-> ClusterOf(over, ss[i])])

-----------------------------------------------------------------------------
(***************************************************************************)
(* IntVetoSummary_factory counts the hits of each sector, and              *)
(* ExtVetoSummary_factory those of them later than time 0.                 *)
(***************************************************************************)
IntVetoSummaries(hits) ==
    [s \in ToSet(Sectors(hits)) |->
        Len(SelectSeq(hits, LAMBDA h : h.ch.sector = s))]
ExtVetoSummaries(hits) ==
    [s \in ToSet(Sectors(hits)) |->
        Len(SelectSeq(hits, LAMBDA h : h.ch.sector = s /\ h.T > 0))]
=============================================================================
