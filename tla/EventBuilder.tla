---------------------------- MODULE EventBuilder ----------------------------
(***************************************************************************)
(* The last part of the reconstruction: one processing thread with one of  *)
(* the factories that build a TEvent (BDXmini, CataniaProto2, JLabFlux,    *)
(* FullMC), called by BDXEventProcessor::evnt, event after event.  The     *)
(* factory asks for the objects of the event one kind after the other, and *)
(* each kind's own factory (modules Hits and TriggerWords) makes them when *)
(* it is asked first.  What a factory keeps from event to event are the    *)
(* lists (TClonesArrays) the objects are copied into: a TEvent only points *)
(* to them.                                                                *)
(*                                                                         *)
(* An entry of a list is the event and the number of the object it was     *)
(* copied from.  Threads have factories of their own, so that one thread   *)
(* shows all there is; the fills of the shared trees are in RunOutput.     *)
(***************************************************************************)
EXTENDS Hits, TriggerWords

CONSTANTS
    Builders,      \* which of the four builders to look at
    MaxEvents,     \* bound: events of a job
    Inputs,        \* the digi hits, UserMCData and cross-correlations of events
    Few,           \* bound: some of each; an event has others of one kind only
    MaxOther,      \* bound: objects of each other kind in an event
    thrNpheVeto, thrEneTot          \* TEVENT_FACTORY_BDXMINI:...

\* The values of a cross-correlation: not over the lower limit, between the
\* limits, not under the upper limit.
Level == {"low", "in", "high"}

ASSUME EventBuilderAssumption ==
    /\ Builders \subseteq {"BDXmini", "CataniaProto2", "JLabFlux", "FullMC"}
    /\ MaxEvents \in Nat /\ MaxOther \in Nat
    /\ DOMAIN Inputs = {"calo", "int", "ext", "user", "words", "cross"}
    /\ \A k \in DOMAIN Inputs : Few[k] \subseteq Inputs[k]
    /\ Inputs["cross"] \subseteq [sine : Level, signal : Level]

VARIABLES
    builder, isMC, workaround,  \* options of the job
    n,          \* number of the event
    pc,         \* "idle", "built", or what the builder does
    step,       \* the list that is next
    digis,      \* the digi hits of each detector
    called,     \* the detectors whose factory was called (evnt_called)
    made,       \* what it has published
    vary,       \* the kind of input of which the event may have any
    other,      \* how many objects of each other kind the event has
    cross,      \* the cross-correlations of the event with the calorimeter
    lists,      \* the TClonesArrays
    event       \* the TEvent

eventVars == <<n, pc, step, digis, called, made, vary, other, cross, event>>
jobVars   == <<builder, isMC, workaround>>
vars      == <<jobVars, eventVars, lists, wordVars>>

-----------------------------------------------------------------------------

ListNames == {"caloDigi", "intDigi", "extDigi", "clusters", "calo", "int",
              "ext", "gen", "real", "waves"}

\* The lists in the order the builder fills them.
Program ==
    CASE builder = "BDXmini" ->
            IF isMC THEN <<"calo", "int", "gen", "real">> ELSE <<"calo", "int", "waves">>
      [] builder = "CataniaProto2" ->
            IF isMC THEN <<"caloDigi", "intDigi", "extDigi", "clusters", "calo", "int", "ext",
                           "real">>
            ELSE <<"caloDigi", "intDigi", "extDigi", "clusters", "calo", "int", "ext">>
      [] builder = "JLabFlux" ->
            IF isMC THEN <<"calo", "int", "gen", "real">> ELSE <<"calo", "int">>
      [] builder = "FullMC" ->
            <<"gen", "calo", "clusters", "int", "ext">>

\* The detector whose digi hits a list needs.
DetectorOf(list) ==
    CASE list \in {"caloDigi", "clusters", "calo"} -> "calo"
      [] list \in {"intDigi", "int"}               -> "int"
      [] list \in {"extDigi", "ext"}               -> "ext"
      [] OTHER                                     -> "none"

Detectors == {"calo", "int", "ext"}
NoDigis   == [d \in Detectors |-> << >>]
InputOf(k) == IF vary = k THEN Inputs[k] ELSE Few[k]
NoEvent   == [lists |-> << >>, weight |-> 0, number |-> 0]

\* A new TEvent, with an empty TEventHeader.
NewEvent == [lists |-> << >>, weight |-> 1, number |-> 0]

NoCross == [sine |-> "low", signal |-> "low"]

Init ==
    /\ builder \in Builders /\ isMC \in BOOLEAN
    /\ builder = "FullMC" => isMC
    /\ workaround \in BOOLEAN
    /\ n = 0 /\ pc = "idle" /\ step = 1
    /\ digis = NoDigis /\ called = {} /\ made = NoDigis
    /\ vary = "calo" /\ other = 0 /\ cross = NoCross
    /\ lists = [l \in ListNames |-> << >>]
    /\ event = NoEvent
    /\ InitWords

\* BDXEventProcessor::evnt up to the TEvent.  Simulated events have no bank
\* to be checked; an event without eventData or from EPICS is not built.  Of a
\* real event the BDXmini builder asks for two more objects before all else.
StartEvent ==
    /\ pc = "idle" /\ n < MaxEvents
    /\ n' = n + 1
    /\ \E k \in 0..MaxOther : other' = k
    /\ \E k \in DOMAIN Inputs : vary' = k
    /\ \/ ~isMC /\ pc' = "idle" /\ UNCHANGED event
       \/ /\ pc' = IF ~isMC /\ builder = "BDXmini" THEN "words" ELSE "header"
          /\ event' = NewEvent
    /\ step' = 1 /\ digis' = NoDigis /\ called' = {} /\ made' = NoDigis /\ cross' = NoCross
    /\ UNCHANGED <<jobVars, lists, wordVars>>

\* GetSingle of the trigger data: the factory decodes the words.
Words ==
    /\ pc = "words"
    /\ (StartDecoding /\ sent' \in InputOf("words")) \/ DecodeStep
    /\ UNCHANGED <<jobVars, eventVars, lists>>

\* GetSingle of the cross-correlations: none in an event without waveforms,
\* and then evnt returns: no TEvent is published and no list was touched.
GetCross ==
    /\ pc = "words" /\ stage = "decoded"
    /\ IF other = 0
       THEN pc' = "idle" /\ event' = NoEvent /\ UNCHANGED cross
       ELSE /\ pc' = "header" /\ UNCHANGED event
            /\ \E c \in InputOf("cross") : cross' = c
    /\ ForgetWords
    /\ UNCHANGED <<jobVars, n, step, digis, called, made, vary, other, lists>>

\* The header is filled: from the bank of a real event, or with the number of
\* a simulated one.
Header ==
    /\ pc = "header"
    /\ pc' = "fill" /\ event' = [event EXCEPT !.number = n]
    /\ UNCHANGED <<jobVars, n, step, digis, called, made, vary, other, cross,
                   lists, wordVars>>

\* The factory of the hits of a detector, when it is asked first.
MakeHits(d) ==
    /\ pc = "fill" /\ step <= Len(Program)
    /\ DetectorOf(Program[step]) = d /\ d \notin called
    /\ \E ds \in InputOf(d) :
          /\ digis' = [digis EXCEPT ![d] = ds]
          /\ called' = called \cup {d}
          /\ made' = [made EXCEPT ![d] =
                        CASE d = "calo" -> CalorimeterHits(ds)
                          [] d = "int"  -> IntVetoHits(ds, workaround)
                          [] d = "ext"  -> ExtVetoHits(ds)]
    /\ UNCHANGED <<jobVars, n, pc, step, vary, other, cross, event, lists, wordVars>>

\* How many objects there are to copy into a list.
Objects(list) ==
    CASE list = "clusters" -> Len(CalorimeterClusters(made["calo"]))
      [] list \in {"caloDigi", "intDigi", "extDigi"} -> Len(digis[DetectorOf(list)])
      [] list \in Detectors -> Len(made[list])
      [] OTHER -> other

\* As Copied, without the Clear.
Copied_NotCleared(list) ==
    [i \in 1..(IF Objects(list) > Len(lists[list]) THEN Objects(list)
                                                   ELSE Len(lists[list])) |->
        IF i <= Objects(list) THEN [ev |-> n, i |-> i] ELSE lists[list][i]]

\* Clear, and ConstructedAt(i) for each object.
Copied(list) == [i \in 1..Objects(list) |-> [ev |-> n, i |-> i]]

\* saveWaveforms_Etot: the energy of all hits.
Etot == EnergyOf(made["calo"])

\* As FlagCalo, for the hit with the largest energy.
FlagCalo_Largest == Seed(made["calo"]).E > thrEneTot

\* saveWaveforms_flagCalo.
FlagCalo == Etot > thrEneTot

\* saveWaveforms_flagVeto: no hit over threshold, but for component 3 of any
\* layer of sector 0.
FlagVeto ==
    ~\E i \in DOMAIN made["int"] :
        LET h == made["int"][i]
        IN  /\ ~(h.ch.sector = 0 /\ h.ch.component = 3)
            /\ h.Q > thrNpheVeto

\* saveWaveforms_Crosscorr.
FlagCross ==
    \/ cross.sine = "in" /\ cross.signal # "high"
    \/ cross.signal = "in" /\ cross.sine # "high"

KeepWaveforms == (FlagVeto /\ FlagCalo) \/ FlagCross

\* One list: cleared, filled and added to the event; the waveforms only when
\* they are to be kept.
FillList ==
    /\ pc = "fill" /\ step <= Len(Program)
    /\ LET l == Program[step]
           wanted == l = "waves" => KeepWaveforms
       IN  /\ DetectorOf(l) = "none" \/ DetectorOf(l) \in called
           /\ lists' = [lists EXCEPT ![l] = IF wanted THEN Copied(l) ELSE << >>]
           /\ event' = IF wanted THEN [event EXCEPT !.lists = Append(@, l)] ELSE event
    /\ step' = step + 1
    /\ UNCHANGED <<jobVars, n, pc, digis, called, made, vary, other, cross, wordVars>>

\* The weight of a simulated event: of the last number 1 or 10 (BDXmini), of
\* the first number 1 (JLabFlux); 0 is taken for 1.
Weight(user) ==
    LET w == IF builder = "BDXmini"
             THEN FoldLeft(LAMBDA v, u : IF u.N \in {1, 10} THEN u.data ELSE v, 1, user)
             ELSE LET ones == SelectSeq(user, LAMBDA u : u.N = 1)
                  IN  IF ones = << >> THEN 1 ELSE ones[1].data
    IN  IF w = 0 THEN 1 ELSE w

\* The rest of evnt: the weight, and the event is published.
Publish ==
    /\ pc = "fill" /\ step > Len(Program)
    /\ IF isMC /\ builder \in {"BDXmini", "JLabFlux"}
       THEN \E u \in InputOf("user") : event' = [event EXCEPT !.weight = Weight(u)]
       ELSE UNCHANGED event
    /\ pc' = "built"
    /\ UNCHANGED <<jobVars, n, step, digis, called, made, vary, other, cross, lists, wordVars>>

\* The processor fills its trees; the factories are reset: the TEvent is
\* deleted, the lists are not.
EndEvent ==
    /\ pc = "built"
    /\ pc' = "idle" /\ event' = NoEvent
    /\ digis' = NoDigis /\ called' = {} /\ made' = NoDigis /\ cross' = NoCross /\ step' = 1
    /\ vary' = "calo" /\ other' = 0
    /\ UNCHANGED <<jobVars, n, lists, wordVars>>

Done == pc = "idle" /\ n = MaxEvents /\ UNCHANGED vars

Next ==
    \/ StartEvent \/ Words \/ GetCross \/ Header
    \/ \E d \in Detectors : MakeHits(d)
    \/ FillList \/ Publish \/ EndEvent \/ Done

Spec == Init /\ [][Next]_vars

-----------------------------------------------------------------------------
(***************************************************************************)
(* Properties.                                                             *)
(***************************************************************************)

\* Type correctness.
TypeOK ==
    /\ WordsTypeOK
    /\ n \in 0..MaxEvents /\ step \in 1..(Len(Program) + 1)
    /\ pc \in {"idle", "header", "words", "fill", "built"}
    /\ vary \in DOMAIN Inputs /\ other \in 0..MaxOther
    /\ cross \in [sine : Level, signal : Level]
    /\ \A l \in ListNames : \A i \in DOMAIN lists[l] :
          lists[l][i].ev \in 1..n /\ lists[l][i].i = i

\* The event that is written has the number of its own event in the header and
\* exactly the objects of its own event in every list it points to, although
\* the lists are used again for every event and hold fewer objects than before
\* or still those of an event before the last, as when evnt returned before it
\* came to them; and no list twice.  Its weight is not 0: it would vanish from
\* every histogram.
EventIsWhole ==
    pc = "built" =>
        /\ event.weight # 0 /\ event.number = n
        /\ \A k, m \in DOMAIN event.lists : event.lists[k] = event.lists[m] => k = m
        /\ \A k \in DOMAIN event.lists :
              LET l == event.lists[k]
              IN  /\ DOMAIN lists[l] = 1..Objects(l)
                  /\ \A i \in DOMAIN lists[l] : lists[l][i] = [ev |-> n, i |-> i]

\* A real BDX-MINI event that is written.
RealBDXmini == pc = "built" /\ builder = "BDXmini" /\ ~isMC

\* A veto counter that is not looked at: the code says it skips OV3 (layer 0),
\* which is broken, but it does not test the layer, so that IV3 (layer 1 of the
\* same sector and component) is skipped as well.
Skipped(ch) == ch.sector = 0 /\ ch.component = 3

\* A real BDX-MINI event is written with its waveforms exactly if its hits have
\* more energy than thrEneTot together and no veto counter but OV3 and IV3 has
\* more than thrNpheVeto, or if none of the two cross-correlations is too high
\* and one of them is in its window.  An event that says it has waveforms has
\* some, and where they are not kept nothing is left of those of an earlier
\* event.
WaveformsDecided ==
    RealBDXmini =>
        LET kept  == "waves" \in ToSet(event.lists)
            hot   == {h \in ToSet(made["int"]) : h.Q > thrNpheVeto}
            quiet == \A h \in hot : Skipped(h.ch)
            noise == {cross.sine, cross.signal}
        IN  /\ kept <=> \/ Etot > thrEneTot /\ quiet
                        \/ "in" \in noise /\ "high" \notin noise
            /\ IF kept THEN other > 0 ELSE lists["waves"] = << >>

\* The hits with an energy below zero, which a pedestal constant larger than
\* the charge makes of a digi hit over threshold.
Negative(hits) == SumOf(hits, LAMBDA h : IF h.E < 0 THEN h.E ELSE 0)

\* The energy of a cluster is all in the total the decision is taken on: hits
\* outside of it take away no more than the negative energies there are.
ClustersWithinTotal ==
    RealBDXmini =>
        LET cs == CalorimeterClusters(made["calo"])
        IN  \A i \in DOMAIN cs : Etot >= cs[i].E + Negative(made["calo"])

\* "The idea is to not leave any important event behind": a real BDX-MINI
\* event with a cluster over thrEneTot, no negative energies and no hit over
\* thrNpheVeto in a veto that is looked at is written with its waveforms, and
\* others only for one of the reasons named.
ImportantWaveformsKept == WaveformsDecided /\ ClustersWithinTotal

\* What the digi hits of an element say, without the order they come in.
DigisOf(d, c) == {i \in DOMAIN digis[d] : Whole(digis[d][i].ch) = c}
TopOf(d, c)   == Max({digis[d][i].Q : i \in DigisOf(d, c)})

\* A veto hit belongs to one element, one hit for each; its charge is the sum
\* of digi hits of that element over threshold, and all of them are in time
\* with its time, which is that of a digi hit with the largest charge of the
\* element.  And an element with a single readout over threshold, or with
\* enough of them in time with the only largest one, does have a hit.
VetoHitsCoincident ==
    "int" \in called =>
        LET hits == made["int"]
            ds   == digis["int"]
            HitOf(c) == {i \in DOMAIN hits : hits[i].ch = c}
        IN  \A c \in {Whole(ds[i].ch) : i \in DOMAIN ds} :
              LET mine == DigisOf("int", c)
                  top  == TopOf("int", c)
                  single == Cardinality(mine) = 1 \/ (workaround /\ c.component = 3)
                  In(i, t) == /\ ds[i].Q > THR_multipleReadout
                              /\ Distance(ds[i].T, t) < DT_multipleReadout
                  Sum(I) == FoldSet(LAMBDA i, s : s + ds[i].Q, 0, I)
              IN  /\ Cardinality(HitOf(c)) <= 1
                  /\ \A h \in HitOf(c) :
                       /\ \E i \in mine : ds[i].Q = top /\ ds[i].T = hits[h].T
                       /\ hits[h].Q = IF single THEN top
                                      ELSE Sum({i \in mine : In(i, hits[h].T)})
                  /\ (\A i \in mine : ds[i].Q = top =>
                        IF single THEN top > THR_singleReadout
                        ELSE Cardinality({j \in mine : In(j, ds[i].T)})
                                >= N_multipleReadout)
                     => HitOf(c) # {}

\* The clusters are the hits over threshold, sector by sector: each such hit of
\* a sector with a seed is in exactly one cluster, with the hits of its own
\* sector, and no other hit is in any: none of a sector without a seed, however
\* many of its hits are over the lower threshold.  No two clusters share a
\* sector.
ClustersPartitionHits ==
    "calo" \in called =>
        LET hits == made["calo"]
            cs   == CalorimeterClusters(hits)
            Seeded(s) == \E k \in DOMAIN hits :
                            /\ hits[k].ch.sector = s
                            /\ hits[k].E > CLUSTER_HIT_THR /\ hits[k].E > CLUSTER_SEED_THR
        IN  /\ \A i, k \in DOMAIN cs : cs[i].sector = cs[k].sector => i = k
            /\ \A h \in DOMAIN hits :
                  Cardinality({p \in (DOMAIN cs) \X (DOMAIN hits) :
                      p[2] \in DOMAIN cs[p[1]].hits /\ cs[p[1]].hits[p[2]] = hits[h]})
                    = IF hits[h].E > CLUSTER_HIT_THR /\ Seeded(hits[h].ch.sector)
                      THEN 1 ELSE 0
            /\ \A i \in DOMAIN cs : \A k \in DOMAIN cs[i].hits :
                  /\ cs[i].hits[k].ch.sector = cs[i].sector
                  /\ cs[i].hits[k].E <= cs[i].seed.E

\* A crystal counts once: all hits of the calorimeter are of different
\* crystals, each from a digi hit of the first sensor, and its energy is not
\* that of another sensor of the same crystal.
OneHitPerCrystal ==
    "calo" \in called =>
        LET hits == made["calo"]
        IN  /\ \A h, k \in DOMAIN hits : hits[h].ch = hits[k].ch => h = k
            /\ \A h \in DOMAIN hits : \E i \in DigisOf("calo", hits[h].ch) :
                  /\ digis["calo"][i].ch.readout = 1
                  /\ hits[h].E = Energy(digis["calo"][i].Q, hits[h].ch)

\* An external veto hit has the whole charge of its element and a time that is
\* not the converters' mark for "no pulse" (a negative one): such an element
\* has no hit, whatever charge its other sensors have seen.
ExtVetoHitsInTime ==
    "ext" \in called =>
        \A h \in DOMAIN made["ext"] :
            LET hit == made["ext"][h]
                mine == DigisOf("ext", hit.ch)
            IN  /\ hit.T >= 0
                /\ hit.Q = FoldSet(LAMBDA i, s : s + digis["ext"][i].Q, 0, mine)
                /\ ExtVetoSummaries(made["ext"])[hit.ch.sector] <=
                      IntVetoSummaries(made["ext"])[hit.ch.sector]

\* The hits and clusters that the lists are filled from are those of the digi
\* hits: none twice, none of another element, none out of time.
HitsSound == /\ TypeOK /\ VetoHitsCoincident /\ ClustersPartitionHits
             /\ OneHitPerCrystal /\ ExtVetoHitsInTime
=============================================================================
