----------------------------- MODULE Waveforms -----------------------------
(***************************************************************************)
(* From the samples of one FADC channel to a hit: convertMode1Hit of the   *)
(* four fa250 converters, called for one hit after the other by the SiPM   *)
(* and PMT hit factories.                                                  *)
(*                                                                         *)
(* Samples are numbered from 0 and pedestal-subtracted; what matters of    *)
(* them is how they compare with the thresholds and with each other.  All  *)
(* lengths are in samples.  A charge is given by the ranges of samples     *)
(* that are summed, a time by the two samples it is interpolated between.  *)
(* Reading outside of the samples finds anything.                          *)
(*                                                                         *)
(* The converters of the external veto and of the paddles keep the         *)
(* pedestals of earlier waveforms in static variables, shared by all       *)
(* threads: OtherThread is what the other threads do to them.              *)
(***************************************************************************)
EXTENDS Integers, Sequences, FiniteSets

CONSTANTS
    Size,         \* number of samples of a waveform
    Levels,       \* amplitudes in each detector
    THR,          \* threshold for pulses
    TOTTHR,       \* threshold of the time over threshold
    MIN_TOT,      \* a pulse this long or shorter is noise
    SIGNAL_TOT,   \* a pulse of the calorimeter longer than this is a signal
    NSB, NSA,     \* samples to integrate before and after the maximum
    NSAMPLES,     \* samples to integrate for a signal
    AminTOT,      \* a greater amplitude is computed from the time over threshold
    NPED,         \* samples for the pedestal of the calorimeter
    INT_NPED,     \* INTVETO:NPED, the only length that is in ns, and
    IntNPEDs,     \* what it is in samples in the internal veto's digitizers
    NRMSCHECKS,   \* number of places to look for the internal veto's pedestal
    Nsamples,     \* samples for the pedestal of a paddle
    Early, Gap,   \* external veto: pulses up to Early have no pedestal of their own;
                  \* the pedestal ends Gap samples before the crossing
    ExtChannels   \* channels <<component, readout>> of the external veto

ASSUME WaveformAssumption ==
    /\ Size \in Nat /\ Size >= 2
    /\ NPED \in 0..Size /\ Nsamples \in 0..Size
    /\ \A d \in {"calorimeter", "intveto", "extveto", "paddles"} : Levels[d] \subseteq Nat
    /\ {THR, TOTTHR, MIN_TOT, SIGNAL_TOT, NSB, NSA, NSAMPLES, Early, Gap,
        AminTOT, INT_NPED} \subseteq Nat
    /\ IntNPEDs \subseteq 0..INT_NPED /\ NRMSCHECKS \in Nat \ {0}
    /\ Gap <= Early

Samples == 0..Size - 1
Detectors == {"calorimeter", "intveto", "extveto", "paddles"}
Unset   == <<>>
PaddleIds == {<<0>>, <<1>>}
Channels(d) == CASE d = "extveto" -> ExtChannels
                 [] d = "paddles" -> PaddleIds
                 [] d = "intveto" -> {<<n>> : n \in IntNPEDs}
                 [] OTHER         -> {<<>>}

VARIABLES
    pc,
    det,       \* the detector whose converter is called
    chan,      \* channel of the hit
    wave,      \* the samples
    ii,        \* index of the loop over the samples
    first,     \* m_thisCrossingTime.first
    crossings, \* m_crossingTimes
    out,       \* the hit
    reads,     \* the samples read after the loop
    backup     \* Vpedestal_backup and Ped_prev_id0, Ped_prev_id1

vars == <<pc, det, chan, wave, ii, first, crossings, out, reads, backup>>

\* A new hit: kind, amplitude, ranges summed, time, time over threshold,
\* pedestal, and the fields computed from a value that was never set.
NewHit == [kind |-> "new", A |-> 0, Q |-> <<>>, T |-> <<>>, tot |-> Unset,
           ped |-> Unset, garbage |-> FALSE]

-----------------------------------------------------------------------------
(***************************************************************************)
(* The beginning of a conversion and the loop over the samples.            *)
(***************************************************************************)

\* Where the internal veto's check number icheck of the pedestal begins: near
\* the end of the window the length in ns is taken for a number of samples.
CheckBegin(c, icheck) ==
    LET istart == icheck * (Size \div NRMSCHECKS)
    IN IF istart + c[1] >= Size THEN Size - INT_NPED - 1 ELSE istart

\* The samples read until a check is satisfied, or all n are made.
CheckReads(c, n) ==
    UNION {CheckBegin(c, k)..CheckBegin(c, k) + c[1] - 1 : k \in 0..n - 1}

\* The next hit that the translation table assigns to the detector.  w are its
\* samples less the pedestal.
NextHit(c, w) ==
    /\ pc = "idle"
    /\ chan' = c /\ wave' = w
    /\ ii' = 1 /\ crossings' = <<>> /\ out' = NewHit
    /\ \/ /\ pc' = "scan" /\ first' = (IF w[0] > THR THEN 0 ELSE -1)
          /\ \/ det = "calorimeter" /\ reads' = 0..NPED - 1
             \/ det = "intveto" /\ \E n \in 1..NRMSCHECKS : reads' = CheckReads(c, n)
       \/ /\ det \in {"extveto", "paddles"}
          /\ pc' = "pedestal" /\ first' = -1 /\ reads' = {}
    /\ UNCHANGED <<det, backup>>

\* As ScanSample, keeping the beginning of a pulse that has ended.
ScanSample_KeepsFirst ==
    /\ pc = "scan" /\ ii < Size /\ ii' = ii + 1
    /\ \/ /\ wave[ii] > THR /\ wave[ii - 1] < THR /\ first = -1
          /\ first' = ii /\ UNCHANGED crossings
       \/ /\ wave[ii] < THR /\ wave[ii - 1] > THR
          /\ crossings' = Append(crossings, <<first, ii>>) /\ UNCHANGED first
       \/ /\ ~(wave[ii] > THR /\ wave[ii - 1] < THR /\ first = -1)
          /\ ~(wave[ii] < THR /\ wave[ii - 1] > THR)
          /\ UNCHANGED <<first, crossings>>
    /\ UNCHANGED <<pc, det, chan, wave, out, reads, backup>>

\* Two neighbouring samples on different sides of the threshold begin or end
\* a pulse.  A sample that equals the threshold is on neither side.
ScanSample ==
    /\ pc = "scan" /\ ii < Size /\ ii' = ii + 1
    /\ LET begins == wave[ii] > THR /\ wave[ii - 1] < THR
           ends   == wave[ii] < THR /\ wave[ii - 1] > THR /\ first # -1
       IN \/ begins /\ first' = ii /\ UNCHANGED crossings
          \/ ends /\ crossings' = Append(crossings, <<first, ii>>) /\ first' = -1
          \/ ~begins /\ ~ends /\ UNCHANGED <<first, crossings>>
    /\ UNCHANGED <<pc, det, chan, wave, out, reads, backup>>

\* A pulse that is not over at the last sample ends there.
EndScan ==
    /\ pc = "scan" /\ ii = Size /\ pc' = "convert"
    /\ crossings' = IF wave[Size - 1] > THR THEN Append(crossings, <<first, Size>>)
                    ELSE crossings
    /\ UNCHANGED <<det, chan, wave, ii, first, out, reads, backup>>

-----------------------------------------------------------------------------
(***************************************************************************)
(* Pulses.                                                                 *)
(***************************************************************************)

ToT(k) == crossings[k][2] - crossings[k][1]

\* The pulses of the calorimeter long enough for a signal.
Signals == {k \in DOMAIN crossings : det = "calorimeter" /\ ToT(k) > SIGNAL_TOT}

\* The other pulses that are no noise: long enough, or cut by the window.
Singles == {k \in DOMAIN crossings \ Signals :
              ToT(k) > MIN_TOT \/ crossings[k][2] = Size \/ crossings[k][1] = 0}

First(S) == CHOOSE k \in S : \A m \in S : k <= m

Anything == Levels[det] \cup {-1}

\* What is read at index i when there is g outside of the samples.
Cell(i, g) == IF i \in Samples THEN wave[i] ELSE g

\* getMaximum: the first place of the greatest value from lo to hi, both included.
MaxAt(lo, hi, g) ==
    First({i \in lo..hi : \A k \in lo..hi : Cell(k, g) <= Cell(i, g)})

Highest == MaxAt(0, Size - 1, 0)

Larger(a, b)  == IF a < b THEN b ELSE a
Smaller(a, b) == IF a < b THEN a ELSE b

\* The calorimeter's time of a pulse that begins at sample f: between the
\* sample before and f.  If f is 1 neither is looked at, and the time is
\* computed all the same.
PulseTime(hit, f) ==
    IF f - 1 = 0 THEN [hit EXCEPT !.garbage = TRUE]
    ELSE [hit EXCEPT !.T = <<f - 1, f>>]

TimeReads(f) == IF f - 1 = 0 THEN {} ELSE {f - 1, f}

\* The range summed when there is no pulse, or one at the edge.
FixedRange == 0..(IF NSB + NSA >= Size THEN Size - 1 ELSE NSB + NSA)

Converting(d) == pc = "convert" /\ det = d /\ pc' = "given"

Give(hit, r) ==
    /\ out' = hit
    /\ reads' = reads \cup r
    /\ UNCHANGED <<det, chan, wave, ii, first, crossings>>

-----------------------------------------------------------------------------
(***************************************************************************)
(* The calorimeter.                                                        *)
(***************************************************************************)

CaloNoise ==
    /\ Converting("calorimeter") /\ Signals = {} /\ Singles = {}
    /\ Give([out EXCEPT !.kind = "noise", !.Q = <<FixedRange>>], FixedRange)
    /\ UNCHANGED backup

\* The first signal is integrated, from NSB before its beginning.
CaloSignal ==
    /\ Converting("calorimeter") /\ Signals # {}
    /\ LET f     == crossings[First(Signals)][1]
           range == Larger(f - NSB, 0)..Smaller(f - NSB + NSAMPLES, Size - 1)
           hit   == [out EXCEPT !.kind = "real_signal", !.Q = <<range>>, !.A = wave[Highest]]
       IN Give(PulseTime(hit, f), range \cup Samples \cup TimeReads(f))
    /\ UNCHANGED backup

\* One single: the first pulse, whether it is the single or not.
CaloOnePhe(g) ==
    /\ Converting("calorimeter") /\ Signals = {} /\ Cardinality(Singles) = 1
    /\ LET f    == crossings[1][1]
           s    == crossings[1][2]
           tmax == MaxAt(f, s, g)
           hit  == [out EXCEPT !.A = Cell(tmax, g)]
       IN \/ /\ tmax <= NSB \/ tmax >= Size - 1 - NSA
             /\ Give([hit EXCEPT !.kind = "one_phe", !.Q = <<FixedRange>>], f..s \cup FixedRange)
          \/ /\ tmax > NSB /\ tmax < Size - 1 - NSA
             /\ Give([hit EXCEPT !.kind = "good_one_phe", !.Q = <<Samples>>, !.T = <<f - 1, f>>],
                     f..s \cup Samples \cup {f - 1, f})
    /\ UNCHANGED backup

\* The range summed around the maximum of pulse k.
PheRange(k, g) ==
    LET tmax == MaxAt(crossings[k][1], crossings[k][2], g)
    IN Larger(tmax - NSB, 0)..(IF tmax + NSA > Size THEN Size - 1 ELSE tmax + NSA)

\* Several singles: the ranges around their maxima are added up.
CaloManyPhe(g) ==
    /\ Converting("calorimeter") /\ Signals = {} /\ Cardinality(Singles) > 1
    /\ LET f      == crossings[First(Singles)][1]
           ranges == [k \in Singles |-> PheRange(k, g)]
           seen   == UNION {crossings[k][1]..crossings[k][2] : k \in Singles}
           best   == CHOOSE v \in {Cell(i, g) : i \in seen} : \A i \in seen : Cell(i, g) <= v
           hit    == [out EXCEPT !.kind = "many_phe", !.Q = ranges, !.A = best]
       IN Give(PulseTime(hit, f), seen \cup TimeReads(f) \cup UNION {ranges[k] : k \in Singles})
    /\ UNCHANGED backup

-----------------------------------------------------------------------------
(***************************************************************************)
(* The internal veto.                                                      *)
(***************************************************************************)

\* Where the amplitude last rises to TOTTHR and last falls below it (0: never).
LastRise == LET S == {i \in 1..Size - 1 : wave[i] >= TOTTHR /\ wave[i - 1] < TOTTHR}
            IN IF S = {} THEN 0 ELSE CHOOSE i \in S : \A k \in S : k <= i
LastFall == LET S == {i \in 1..Size - 1 : wave[i] < TOTTHR /\ wave[i - 1] >= TOTTHR}
            IN IF S = {} THEN 0 ELSE CHOOSE i \in S : \A k \in S : k <= i

\* m_TOT: from the last rise to the last fall, or -1 if that is not positive.
\* Both lie up to one sample before the one before their index, the rise there
\* and the fall one earlier if the threshold is just reached; without a rise or
\* a fall m_TOT_PRE and m_TOT_POST are 0.
TimeOverThreshold ==
    IF \/ LastRise > 0 /\ LastFall = LastRise + 1 /\ wave[LastRise] > TOTTHR
       \/ LastRise > 0 /\ LastFall > LastRise + 1
       \/ LastRise = 1 /\ LastFall = 0 /\ wave[1] > TOTTHR
       \/ LastRise = 0 /\ (LastFall > 2 \/ (LastFall = 2 /\ wave[1] > TOTTHR))
    THEN <<LastRise, LastFall>> ELSE <<0, 0>>

\* No pulse: nothing says what the time over threshold is.
IntNoise ==
    /\ Converting("intveto") /\ Singles = {}
    /\ LET range == 0..Smaller(NSA + NSB, Size) - 1
       IN Give([out EXCEPT !.kind = "noise", !.Q = <<range>>, !.A = wave[Highest]],
               range \cup Samples)
    /\ UNCHANGED backup

\* As PulseSpan, without the limits.
PulseSpan_NoLimits(k) == crossings[k]

\* Where the maximum of pulse k is looked for: within the samples.
PulseSpan(k) == <<Larger(crossings[k][1], 0), Smaller(crossings[k][2], Size - 1)>>
PulseMax(k)  == MaxAt(PulseSpan(k)[1], PulseSpan(k)[2], 0)

\* As HighestPulse, the last one.
HighestPulse_Last == CHOOSE k \in Singles : \A m \in Singles : m <= k

\* The first of the highest pulses.
HighestPulse ==
    First({k \in Singles : \A m \in Singles : wave[PulseMax(m)] <= wave[PulseMax(k)]})

\* The charge is that of the highest pulse, from NSA before to NSB after its
\* maximum; the time is that of the highest sample.
IntSignal ==
    /\ Converting("intveto") /\ Singles # {}
    /\ LET tmax  == PulseMax(HighestPulse)
           range == Larger(tmax - NSA, 0)..Smaller(tmax + NSB, Size - 1)
       IN Give([out EXCEPT !.kind = "real_signal", !.A = wave[tmax], !.Q = <<range>>,
                           !.T = <<Highest>>, !.tot = TimeOverThreshold],
               range \cup Samples \cup UNION {PulseSpan(k)[1]..PulseSpan(k)[2] : k \in Singles})
    /\ UNCHANGED backup

-----------------------------------------------------------------------------
(***************************************************************************)
(* The external veto and the paddles.                                      *)
(***************************************************************************)

\* Place of a channel of the external veto in Vpedestal_backup.
ExtSlot(c) == IF c = <<6, 2>> THEN <<7>> ELSE <<c[1]>>

\* In the translation tables of both prototypes the channels have different
\* places: only component 6 has a second readout, and then there is no 7.
ASSUME SlotAssumption == \A c, e \in ExtChannels : ExtSlot(c) = ExtSlot(e) => c = e

\* The variable that keeps the pedestal of channel c of detector d.
Slot(d, c) == <<d, IF d = "extveto" THEN ExtSlot(c) ELSE c>>
Slots == {Slot(d, c) : d \in {"extveto"}, c \in ExtChannels}
         \cup {Slot(d, c) : d \in {"paddles"}, c \in PaddleIds}

\* The variable has no value yet ...
PedestalMissing ==
    /\ pc = "pedestal" /\ backup[Slot(det, chan)] = Unset /\ pc' = "fill"
    /\ UNCHANGED <<det, chan, wave, ii, first, crossings, out, reads, backup>>

\* ... and gets that of the data base.  Those of both paddles get it together.
FillPedestal ==
    /\ pc = "fill" /\ pc' = "convert"
    /\ backup' = [s \in Slots |->
                    IF s = Slot(det, chan) \/ (det = "paddles" /\ s[1] = "paddles")
                    THEN <<s, "data base">> ELSE backup[s]]
    /\ UNCHANGED <<det, chan, wave, ii, first, crossings, out, reads>>

PedestalThere ==
    /\ pc = "pedestal" /\ backup[Slot(det, chan)] # Unset /\ pc' = "convert"
    /\ UNCHANGED <<det, chan, wave, ii, first, crossings, out, reads, backup>>

Own(c) == <<Slot(det, c), "waveform", c>>

\* Use the pedestal of samples r of this waveform and keep it for the next ones.
OwnPedestal(hit, r, other) ==
    /\ Give([hit EXCEPT !.ped = Own(chan)], r \cup other)
    /\ backup' = [backup EXCEPT ![Slot(det, chan)] = Own(chan)]

OldPedestal(hit, other) ==
    /\ Give([hit EXCEPT !.ped = backup[Slot(det, chan)]], other)
    /\ UNCHANGED backup

\* As ExtOver, for the samples strictly above.
ExtOver_Above == {i \in Samples : wave[i] > THR}

\* The samples that reach the threshold of the external veto.
ExtOver == {i \in Samples : wave[i] >= THR}

\* No sample reaches the threshold: no charge, and a time of -10.
ExtNothing ==
    /\ Converting("extveto") /\ ExtOver = {}
    /\ Give([out EXCEPT !.kind = "nothing"], Samples)
    /\ UNCHANGED backup

\* The samples for the external veto's own pedestal, when sample i is the
\* first that reaches the threshold.
ExtPedestal(i) == 0..i - 1 - Gap

\* All samples are summed.  If that gives a negative charge, only those around
\* the crossing are, the last sample never.
ExtRange(i) ==
    LET t == IF i <= 1 THEN 0 ELSE IF wave[i] = THR THEN i ELSE i - 1
    IN {Samples, Larger(t - 2, 0)..Smaller(t + 4, Size - 1) - 1}

ExtPulse ==
    /\ Converting("extveto") /\ ExtOver # {}
    /\ LET i == First(ExtOver)
       IN \E range \in ExtRange(i) :
          LET hit == [out EXCEPT !.kind = "pulse", !.Q = <<range>>, !.T = <<i - 1, i>>]
          IN \/ i - 1 >= Early /\ OwnPedestal(hit, ExtPedestal(i), Samples)
             \/ i - 1 < Early /\ OldPedestal(hit, Samples)

PaddleOver == {i \in Samples : wave[i] > THR}

PaddleNothing ==
    /\ Converting("paddles") /\ PaddleOver = {}
    /\ Give([out EXCEPT !.kind = "nothing"], Samples)
    /\ UNCHANGED backup

\* Twice Sum[i] of the constant fraction: the signal delayed by two samples
\* minus half the signal.
CFSum(i, g) == IF i \in Samples THEN (IF i >= 2 THEN 2 * wave[i - 2] ELSE 0) - wave[i] ELSE g

\* The search for the zero crossing goes down from two samples after the
\* maximum and looks at the next sample where it ends.
CFReads(g) ==
    LET top  == Highest + 2
        neg  == {i \in 1..top : CFSum(i, g) < 0}
        stop == CHOOSE i \in neg : \A k \in neg : k <= i
    IN IF neg = {} THEN 1..top ELSE stop..top \cup {stop + 1}

\* The charge is always that of all samples: the time, still 0, is not
\* positive when the recovery of a negative charge asks for it.
PaddlePulse(g) ==
    /\ Converting("paddles") /\ PaddleOver # {}
    /\ LET i   == First(PaddleOver)
           hit == [out EXCEPT !.kind = "pulse", !.Q = <<Samples>>, !.T = <<i>>]
           cf  == IF i > 0 THEN CFReads(g) ELSE {}
       IN \/ i < Nsamples /\ OldPedestal(hit, Samples \cup cf)
          \/ i >= Nsamples /\ OwnPedestal(hit, 0..Nsamples - 1, Samples \cup cf)

\* Another thread converts a late pulse of a channel and keeps its pedestal.
OtherThread(c) ==
    /\ pc \in {"pedestal", "fill", "convert"} /\ det \in {"extveto", "paddles"}
    /\ backup' = [backup EXCEPT ![Slot(det, c)] = Own(c)]
    /\ UNCHANGED <<pc, det, chan, wave, ii, first, crossings, out, reads>>

-----------------------------------------------------------------------------
(***************************************************************************)
(* The hit factories.                                                      *)
(***************************************************************************)

\* The hit gets its charge in photoelectrons and is published.  For the
\* internal veto of BDX-MINI a large amplitude is replaced by one computed
\* from the time over threshold, if that is positive: one that was never set
\* may be.
Publish ==
    /\ pc = "given" /\ pc' = "published"
    /\ \/ out' = out
       \/ /\ det = "intveto" /\ out.tot = Unset /\ out.A > AminTOT
          /\ out' = [out EXCEPT !.garbage = TRUE]
    /\ UNCHANGED <<det, chan, wave, ii, first, crossings, reads, backup>>

\* The framework deletes the hits.
Forget ==
    /\ pc = "published" /\ pc' = "idle"
    /\ chan' = <<>> /\ wave' = <<>> /\ ii' = 0 /\ first' = -1 /\ crossings' = <<>>
    /\ out' = NewHit /\ reads' = {}
    /\ UNCHANGED <<det, backup>>

Init ==
    /\ pc = "idle" /\ det \in Detectors /\ chan = <<>>
    /\ wave = <<>> /\ ii = 0 /\ first = -1 /\ crossings = <<>>
    /\ out = NewHit /\ reads = {}
    /\ backup = [s \in Slots |-> Unset]

Next ==
    \/ \E c \in Channels(det), w \in [Samples -> Levels[det]] : NextHit(c, w)
    \/ ScanSample \/ EndScan
    \/ CaloNoise \/ CaloSignal \/ IntNoise \/ IntSignal
    \/ PedestalMissing \/ FillPedestal \/ PedestalThere
    \/ ExtNothing \/ ExtPulse \/ PaddleNothing
    \/ \E g \in Anything : CaloOnePhe(g) \/ CaloManyPhe(g) \/ PaddlePulse(g)
    \/ \E c \in Channels(det) : OtherThread(c)
    \/ Publish \/ Forget

Spec == Init /\ [][Next]_vars

-----------------------------------------------------------------------------
(***************************************************************************)
(* Properties.                                                             *)
(***************************************************************************)

\* Type invariant.
TypeOK ==
    /\ pc \in {"idle", "scan", "pedestal", "fill", "convert", "given", "published"}
    /\ det \in Detectors
    /\ pc # "idle" => chan \in Channels(det) /\ wave \in [Samples -> Levels[det]]
    /\ ii \in 0..Size /\ first \in -1..Size - 1
    /\ \A k \in DOMAIN crossings :
          crossings[k][1] \in -1..Size - 1 /\ crossings[k][2] \in 1..Size
    /\ \A s \in Slots : backup[s] = Unset \/ backup[s][1] = s

\* The maximal ranges of samples above the threshold.
PulseAt(f, s) ==
    /\ \A i \in f..s - 1 : wave[i] > THR
    /\ f > 0 => wave[f - 1] <= THR
    /\ s < Size => wave[s] <= THR

Scanned == pc \in {"convert", "given"} /\ det \in {"calorimeter", "intveto"}

\* The loop over the samples finds the pulses: whenever no sample equals the
\* threshold, the crossings are the maximal ranges above it, all of them and in
\* order, those cut by either end of the window included.
PulsesFound ==
    Scanned /\ (\A i \in Samples : wave[i] # THR) =>
        /\ {crossings[k] : k \in DOMAIN crossings} =
               {p \in Samples \X (1..Size) : p[1] < p[2] /\ PulseAt(p[1], p[2])}
        /\ \A k, m \in DOMAIN crossings : k < m => crossings[k][2] < crossings[m][1]

\* Where a converter may look outside of the samples: the calorimeter when a
\* pulse is cut by the window, has no beginning because it rose through a
\* sample that equals the threshold, or has its maximum within NSA of the end;
\* a paddle when the maximum is among the last three samples; the internal veto
\* when the waveform has no more samples than its INTVETO:NPED has nanoseconds
\* and a check of the pedestal comes near its end.
AtTheEdge ==
    \/ det = "calorimeter" /\ \E k \in DOMAIN crossings :
          crossings[k][1] \in {-1, 0} \/ crossings[k][2] >= Size - NSA
    \/ det = "paddles" /\ Highest >= Size - 3
    \/ det = "intveto" /\ INT_NPED >= Size /\ \E icheck \in 0..NRMSCHECKS - 1 :
          icheck * (Size \div NRMSCHECKS) + chan[1] >= Size

\* How far: two samples before the first and three after the last; for the
\* internal veto's pedestal as far as INTVETO:NPED exceeds the window.
Outskirts == IF det = "intveto" THEN Smaller(0, Size - INT_NPED - 1)..Size - 1
             ELSE -2..Size + 2

\* A converter looks outside of the samples in those cases only, the external
\* veto never, and no further.  Times that were never set come out only for
\* pulses that begin in the first two samples and, in the internal veto, for
\* high pulses rejected as too short.
ReadsInside ==
    /\ reads \subseteq Outskirts
    /\ pc # "idle" /\ ~(reads \subseteq Samples) => AtTheEdge
    /\ out.garbage => \/ det = "calorimeter" /\ wave[1] > THR
                      \/ det = "intveto" /\ Singles = {}

\* The hit of the internal veto is that of one pulse, the highest that is long
\* enough: its amplitude is among the samples summed and no other accepted pulse
\* exceeds it.
ChargeOfHighestPulse ==
    pc = "given" /\ det = "intveto" /\ out.kind = "real_signal" =>
        /\ \E i \in out.Q[1] : wave[i] = out.A
        /\ \A k \in Singles : \A i \in Samples :
              crossings[k][1] <= i /\ i < crossings[k][2] => wave[i] <= out.A

\* The time over threshold is that of one pulse, between whose ends the
\* amplitude never falls below TOTTHR: the last one that ends in the window,
\* which need not be the pulse of the charge and may be a spike too short to
\* be accepted.  A pulse that is over TOTTHR from sample 1 to the end has one
\* of less than a sample.
TotOfOnePulse ==
    out.tot # Unset =>
        /\ \A i \in out.tot[1]..out.tot[2] - 1 : wave[i] >= TOTTHR
        /\ out.tot[1] > out.tot[2] =>
              out.tot = <<1, 0>> /\ \A i \in 1..Size - 1 : wave[i] >= TOTTHR

\* Which photoelectrons are counted twice: samples are in the ranges of two of
\* the pulses that are added up exactly if their maxima are not more than
\* NSB + NSA apart (prev_xmin, which is to keep the ranges apart, stays 0).
\* Said of pulses that are not cut by the end of the window.
SharedIfNear ==
    pc = "given" /\ out.kind = "many_phe" =>
        \A k, m \in Singles :
            /\ crossings[k][2] < Size /\ crossings[m][2] < Size
            /\ PulseMax(k) < PulseMax(m)
            => (out.Q[k] \cap out.Q[m] # {} <=> PulseMax(m) - PulseMax(k) <= NSB + NSA)

\* Charge and amplitude of an internal veto's hit are those of its highest
\* accepted pulse, its time over threshold that of one pulse; photoelectrons
\* of the calorimeter are counted once unless they are near.
HitOfItsPulse == ChargeOfHighestPulse /\ TotOfOnePulse /\ SharedIfNear

\* The pedestal of a hit comes from its own channel, from this or an earlier
\* waveform or from the data base, whatever the other threads have kept
\* meanwhile.
PedestalOfItsChannel ==
    out.ped # Unset =>
        /\ out.ped[1] = Slot(det, chan)
        /\ out.ped[2] = "waveform" => out.ped[3] = chan

\* And a pedestal taken from a waveform of the external veto has nothing of the
\* pulse in it.
PedestalBeforePulse ==
    pc = "given" /\ det = "extveto" /\ out.kind = "pulse" /\ out.T[1] >= Early =>
        \A i \in ExtPedestal(out.T[2]) : wave[i] < THR

\* The pedestal subtracted from a pulse is the channel's own and was not
\* measured under it.
PedestalSound == TypeOK /\ PedestalOfItsChannel /\ PedestalBeforePulse
=============================================================================
