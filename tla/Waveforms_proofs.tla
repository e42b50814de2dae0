------------------------- MODULE Waveforms_proofs --------------------------
(***************************************************************************)
(* Theorems about the conversion of waveforms, for waveforms of any length *)
(* and amplitude, any thresholds and ranges of integration and any number  *)
(* of other threads.                                                       *)
(*                                                                         *)
(* What the loop over the samples has found is an invariant of the loop    *)
(* (FoundInv, CrossInv); what a conversion computes from it follows from   *)
(* the facts about the first and the highest of the samples with which the *)
(* module begins.                                                          *)
(***************************************************************************)
EXTENDS Waveforms, FiniteSetTheorems, WellFoundedInduction, TLAPS

-----------------------------------------------------------------------------
(***************************************************************************)
(* The first and the highest.                                              *)
(***************************************************************************)

\* A set of natural numbers has a least element.
LEMMA LeastExists ==
    ASSUME NEW T \in SUBSET Nat, T # {}
    PROVE  \E x \in T : \A y \in T : x <= y
<1> DEFINE R == {p \in Nat \X Nat : p[1] < p[2]}
<1>1. IsWellFoundedOn(R, Nat) BY NatLessThanWellFounded DEF OpToRel
<1> HIDE DEF R
<1>2. PICK x \in T : \A y \in T : <<y, x>> \notin R BY <1>1, WFMin
<1>3. \A y \in T : ~(y < x) BY <1>2 DEF R
<1> QED BY <1>3

\* First gives the least element of a set of integers that has a lower bound.
LEMMA FirstIsLeast ==
    ASSUME NEW S \in SUBSET Int, S # {}, NEW b \in Int, \A i \in S : b <= i
    PROVE  First(S) \in S /\ \A m \in S : First(S) <= m
<1> DEFINE T == {i - b : i \in S}
<1>1. T \in SUBSET Nat /\ T # {}
  <2>1. \A i \in S : i - b \in Nat OBVIOUS
  <2>2. PICK j \in S : TRUE OBVIOUS
  <2>3. j - b \in T BY <2>2
  <2> QED BY <2>1, <2>3
<1>2. PICK x \in T : \A y \in T : x <= y BY <1>1, LeastExists
<1>3. PICK i \in S : x = i - b BY <1>2
<1>4. \A m \in S : i <= m
  <2> TAKE m \in S
  <2>1. m - b \in T OBVIOUS
  <2>2. x <= m - b BY <1>2, <2>1
  <2> QED BY <1>3, <2>2
<1> QED BY <1>3, <1>4 DEF First

\* A bounded set of integers has a greatest element.
LEMMA GreatestExists ==
    ASSUME NEW S \in SUBSET Int, S # {}, NEW b \in Int, \A i \in S : i <= b
    PROVE  \E x \in S : \A y \in S : y <= x
<1> DEFINE T == {b - i : i \in S}
<1>1. T \in SUBSET Nat /\ T # {}
  <2>1. \A i \in S : b - i \in Nat OBVIOUS
  <2>2. PICK j \in S : TRUE OBVIOUS
  <2>3. b - j \in T BY <2>2
  <2> QED BY <2>1, <2>3
<1>2. PICK x \in T : \A y \in T : x <= y BY <1>1, LeastExists
<1>3. PICK i \in S : x = b - i BY <1>2
<1>4. \A m \in S : m <= i
  <2> TAKE m \in S
  <2>1. b - m \in T OBVIOUS
  <2>2. x <= b - m BY <1>2, <2>1
  <2> QED BY <1>3, <2>2
<1> QED BY <1>3, <1>4

\* A sequence of integers takes its greatest value somewhere: were there a
\* beginning without one, the shortest would be one element longer than one
\* that has it.
LEMMA HighestExists ==
    ASSUME NEW lo \in Int, NEW hi \in Int, lo <= hi, NEW F \in [lo..hi -> Int]
    PROVE  \E i \in lo..hi : \A k \in lo..hi : F[k] <= F[i]
<1> DEFINE Has(n) == \E i \in lo..lo + n : \A k \in lo..lo + n : F[k] <= F[i]
           T == {n \in Nat : lo + n <= hi /\ ~Has(n)}
<1>1. T = {}
  <2> SUFFICES ASSUME T # {} PROVE FALSE OBVIOUS
  <2>1. PICK n \in T : \A m \in T : n <= m
    <3>1. T \in SUBSET Nat OBVIOUS
    <3> QED BY <3>1, LeastExists
  <2>2. n \in Nat /\ lo + n <= hi /\ ~Has(n) OBVIOUS
  <2>3. n # 0
    <3> SUFFICES ASSUME n = 0 PROVE FALSE OBVIOUS
    <3>1. lo \in lo..lo + n /\ \A k \in lo..lo + n : k = lo OBVIOUS
    <3>2. F[lo] \in Int OBVIOUS
    <3>3. Has(n) BY <3>1, <3>2
    <3> QED BY <2>2, <3>3
  <2>4. n - 1 \in Nat /\ lo + (n - 1) <= hi BY <2>2, <2>3
  <2>5. n - 1 \notin T
    <3> HIDE DEF T
    <3>1. n - 1 \in T => n <= n - 1 BY <2>1
    <3> QED BY <2>2, <3>1
  <2>6. PICK i \in lo..lo + (n - 1) : \A k \in lo..lo + (n - 1) : F[k] <= F[i]
    BY <2>4, <2>5
  <2>7. /\ i \in lo..lo + n /\ lo + n \in lo..lo + n /\ i \in lo..hi /\ lo + n \in lo..hi
        /\ \A k \in lo..lo + n : k \in lo..hi /\ (k \in lo..lo + (n - 1) \/ k = lo + n)
    BY <2>2, <2>4
  <2>8. F[i] \in Int /\ F[lo + n] \in Int /\ \A k \in lo..lo + n : F[k] \in Int BY <2>7
  <2>9. CASE F[lo + n] <= F[i]
    <3>1. \A k \in lo..lo + n : F[k] <= F[i] BY <2>6, <2>7, <2>9
    <3> QED BY <3>1, <2>7, <2>2
  <2>10. CASE F[i] < F[lo + n]
    <3>1. \A k \in lo..lo + n : F[k] <= F[lo + n]
      <4> TAKE k \in lo..lo + n
      <4>1. CASE k = lo + n BY <4>1, <2>8
      <4>2. CASE k \in lo..lo + (n - 1)
        <5>1. F[k] <= F[i] BY <4>2, <2>6
        <5> QED BY <5>1, <2>8, <2>10
      <4> QED BY <2>7, <4>1, <4>2
    <3> QED BY <3>1, <2>7, <2>2
  <2> QED BY <2>8, <2>9, <2>10
<1>2. hi - lo \in Nat /\ lo + (hi - lo) = hi OBVIOUS
<1>3. ~(lo + (hi - lo) <= hi /\ ~Has(hi - lo))
  <2>1. hi - lo \notin T BY <1>1
  <2> HIDE DEF Has
  <2> QED BY <1>2, <2>1
<1>4. Has(hi - lo)
  <2> HIDE DEF Has
  <2> QED BY <1>2, <1>3
<1> QED BY <1>2, <1>4

-----------------------------------------------------------------------------
(***************************************************************************)
(* What the conversions give.                                              *)
(***************************************************************************)

Hit(kind, A, Q, T, tot, ped, garbage) ==
    [kind |-> kind, A |-> A, Q |-> Q, T |-> T, tot |-> tot, ped |-> ped, garbage |-> garbage]

\* The actions that make a hit of the waveform at hand.
Conversion ==
    \/ CaloNoise \/ CaloSignal \/ IntNoise \/ IntSignal
    \/ ExtNothing \/ ExtPulse \/ PaddleNothing
    \/ \E g \in Anything : CaloOnePhe(g) \/ CaloManyPhe(g) \/ PaddlePulse(g)

\* A conversion changes the hit, what was read and, perhaps, the pedestals.
LEMMA ConversionKeeps ==
    Conversion => /\ pc = "convert" /\ pc' = "given"
                  /\ UNCHANGED <<det, chan, wave, ii, first, crossings>>
  BY DEF Conversion, CaloNoise, CaloSignal, IntNoise, IntSignal, ExtNothing, ExtPulse,
         PaddleNothing, CaloOnePhe, CaloManyPhe, PaddlePulse, Converting, Give,
         OwnPedestal, OldPedestal

\* The calorimeter's hits.
LEMMA CaloNoiseGives ==
    ASSUME out = NewHit, CaloNoise
    PROVE  /\ out' = Hit("noise", 0, <<FixedRange>>, <<>>, Unset, Unset, FALSE)
           /\ reads' = reads \cup FixedRange
           /\ backup' = backup /\ det = "calorimeter"
  BY DEF CaloNoise, Give, Hit, NewHit, Converting

SignalBegin == crossings[First(Signals)][1]
SignalRange ==
    Larger(SignalBegin - NSB, 0)..Smaller(SignalBegin - NSB + NSAMPLES, Size - 1)

\* The first pulse long enough gives the hit; a pulse from sample 1 on has no
\* time.
LEMMA CaloSignalGives ==
    ASSUME out = NewHit, CaloSignal
    PROVE  /\ out' = Hit("real_signal", wave[Highest], <<SignalRange>>,
                         IF SignalBegin - 1 = 0 THEN <<>> ELSE <<SignalBegin - 1, SignalBegin>>,
                         Unset, Unset, SignalBegin - 1 = 0)
           /\ reads' = reads \cup (SignalRange \cup Samples \cup TimeReads(SignalBegin))
           /\ backup' = backup /\ det = "calorimeter" /\ Signals # {}
<1> DEFINE h == [out EXCEPT !.kind = "real_signal", !.Q = <<SignalRange>>, !.A = wave[Highest]]
<1>1. /\ det = "calorimeter" /\ Signals # {} /\ backup' = backup
      /\ Give(PulseTime(h, SignalBegin), SignalRange \cup Samples \cup TimeReads(SignalBegin))
  BY DEF CaloSignal, SignalBegin, SignalRange, Converting
<1>2. h = [out EXCEPT !.kind = "real_signal", !.Q = <<SignalRange>>, !.A = wave[Highest]]
  OBVIOUS
<1> HIDE DEF h
<1>3. h = Hit("real_signal", wave[Highest], <<SignalRange>>, <<>>, Unset, Unset, FALSE)
  BY <1>2 DEF Hit, NewHit
<1>4. out' = Hit("real_signal", wave[Highest], <<SignalRange>>,
                 IF SignalBegin - 1 = 0 THEN <<>> ELSE <<SignalBegin - 1, SignalBegin>>,
                 Unset, Unset, SignalBegin - 1 = 0)
  <2>1. out' = PulseTime(h, SignalBegin) BY <1>1 DEF Give
  <2> QED BY <2>1, <1>3 DEF PulseTime, Hit
<1> QED BY <1>1, <1>4 DEF Give

OnePheMax(g) == MaxAt(crossings[1][1], crossings[1][2], g)

\* One photoelectron: away from the edges its charge is that of all samples.
LEMMA CaloOnePheGives ==
    ASSUME out = NewHit, NEW g, CaloOnePhe(g)
    PROVE  /\ backup' = backup /\ det = "calorimeter" /\ Cardinality(Singles) = 1
           /\ \/ /\ out' = Hit("one_phe", Cell(OnePheMax(g), g), <<FixedRange>>, <<>>,
                               Unset, Unset, FALSE)
                 /\ reads' = reads \cup (crossings[1][1]..crossings[1][2] \cup FixedRange)
              \/ /\ out' = Hit("good_one_phe", Cell(OnePheMax(g), g), <<Samples>>,
                               <<crossings[1][1] - 1, crossings[1][1]>>, Unset, Unset, FALSE)
                 /\ reads' = reads \cup (crossings[1][1]..crossings[1][2] \cup Samples
                                         \cup {crossings[1][1] - 1, crossings[1][1]})
<1> DEFINE f == crossings[1][1]
           s == crossings[1][2]
           h == [out EXCEPT !.A = Cell(OnePheMax(g), g)]
           one  == Give([h EXCEPT !.kind = "one_phe", !.Q = <<FixedRange>>], f..s \cup FixedRange)
           good == Give([h EXCEPT !.kind = "good_one_phe", !.Q = <<Samples>>, !.T = <<f - 1, f>>],
                        f..s \cup Samples \cup {f - 1, f})
<1>1. /\ det = "calorimeter" /\ Cardinality(Singles) = 1 /\ backup' = backup
      /\ one \/ good
  BY DEF CaloOnePhe, OnePheMax, Converting
<1>2. h = [out EXCEPT !.A = Cell(OnePheMax(g), g)] OBVIOUS
<1> HIDE DEF h
<1>3. h = Hit("new", Cell(OnePheMax(g), g), <<>>, <<>>, Unset, Unset, FALSE)
  BY <1>2 DEF Hit, NewHit
<1>4. CASE one
  <2>1. out' = [h EXCEPT !.kind = "one_phe", !.Q = <<FixedRange>>] BY <1>4 DEF Give
  <2>2. out' = Hit("one_phe", Cell(OnePheMax(g), g), <<FixedRange>>, <<>>, Unset, Unset, FALSE)
    BY <2>1, <1>3 DEF Hit
  <2> QED BY <1>1, <1>4, <2>2 DEF Give
<1>5. CASE good
  <2>1. out' = [h EXCEPT !.kind = "good_one_phe", !.Q = <<Samples>>, !.T = <<f - 1, f>>]
    BY <1>5 DEF Give
  <2>2. out' = Hit("good_one_phe", Cell(OnePheMax(g), g), <<Samples>>, <<f - 1, f>>,
                   Unset, Unset, FALSE)
    BY <2>1, <1>3 DEF Hit
  <2> QED BY <1>1, <1>5, <2>2 DEF Give
<1> QED BY <1>1, <1>4, <1>5

SinglesBegin == crossings[First(Singles)][1]
SinglesSeen  == UNION {crossings[k][1]..crossings[k][2] : k \in Singles}
PheRanges(g) == UNION {PheRange(k, g) : k \in Singles}

\* Several photoelectrons: one range for each of them.
LEMMA CaloManyPheGives ==
    ASSUME out = NewHit, NEW g, CaloManyPhe(g)
    PROVE  /\ backup' = backup /\ det = "calorimeter" /\ Cardinality(Singles) > 1
           /\ \E best : out' = Hit("many_phe", best, [k \in Singles |-> PheRange(k, g)],
                   IF SinglesBegin - 1 = 0 THEN <<>> ELSE <<SinglesBegin - 1, SinglesBegin>>,
                   Unset, Unset, SinglesBegin - 1 = 0)
           /\ reads' = reads \cup (SinglesSeen \cup TimeReads(SinglesBegin) \cup PheRanges(g))
<1> DEFINE ranges == [k \in Singles |-> PheRange(k, g)]
           best == CHOOSE v \in {Cell(i, g) : i \in SinglesSeen} :
                       \A i \in SinglesSeen : Cell(i, g) <= v
           h == [out EXCEPT !.kind = "many_phe", !.Q = ranges, !.A = best]
           r == SinglesSeen \cup TimeReads(SinglesBegin) \cup UNION {ranges[k] : k \in Singles}
<1>1. /\ det = "calorimeter" /\ Cardinality(Singles) > 1 /\ backup' = backup
      /\ Give(PulseTime(h, SinglesBegin), r)
  BY DEF CaloManyPhe, SinglesBegin, SinglesSeen, Converting
<1>2. {ranges[k] : k \in Singles} = {PheRange(k, g) : k \in Singles} OBVIOUS
<1>3. reads' = reads \cup (SinglesSeen \cup TimeReads(SinglesBegin) \cup PheRanges(g))
  <2>1. reads' = reads \cup r BY <1>1 DEF Give
  <2>2. UNION {ranges[k] : k \in Singles} = PheRanges(g) BY <1>2 DEF PheRanges
  <2>3. r = SinglesSeen \cup TimeReads(SinglesBegin) \cup PheRanges(g) BY <2>2
  <2> HIDE DEF r
  <2> QED BY <2>1, <2>3
<1>4. h = [out EXCEPT !.kind = "many_phe", !.Q = ranges, !.A = best] OBVIOUS
<1> HIDE DEF h, best, ranges
<1>5. h = Hit("many_phe", best, ranges, <<>>, Unset, Unset, FALSE) BY <1>4 DEF Hit, NewHit
<1>6. out' = PulseTime(h, SinglesBegin) BY <1>1 DEF Give
<1>7. out' = Hit("many_phe", best, ranges,
                 IF SinglesBegin - 1 = 0 THEN <<>> ELSE <<SinglesBegin - 1, SinglesBegin>>,
                 Unset, Unset, SinglesBegin - 1 = 0)
  BY <1>5, <1>6 DEF PulseTime, Hit
<1> QED BY <1>1, <1>3, <1>7 DEF ranges

NoiseRange == 0..Smaller(NSA + NSB, Size) - 1

\* The hits of the internal veto.
LEMMA IntNoiseGives ==
    ASSUME out = NewHit, IntNoise
    PROVE  /\ out' = Hit("noise", wave[Highest], <<NoiseRange>>, <<>>, Unset, Unset, FALSE)
           /\ reads' = reads \cup (NoiseRange \cup Samples)
           /\ backup' = backup /\ det = "intveto" /\ Singles = {}
<1>1. /\ det = "intveto" /\ Singles = {} /\ backup' = backup
      /\ out' = [out EXCEPT !.kind = "noise", !.Q = <<NoiseRange>>, !.A = wave[Highest]]
      /\ reads' = reads \cup (NoiseRange \cup Samples)
  BY DEF IntNoise, Converting, Give, NoiseRange
<1>2. out' = Hit("noise", wave[Highest], <<NoiseRange>>, <<>>, Unset, Unset, FALSE)
  BY <1>1 DEF Hit, NewHit
<1> QED BY <1>1, <1>2

PulseRange ==
    Larger(PulseMax(HighestPulse) - NSA, 0)..Smaller(PulseMax(HighestPulse) + NSB, Size - 1)
PulseSpans == UNION {PulseSpan(k)[1]..PulseSpan(k)[2] : k \in Singles}

\* The range around the maximum of the highest pulse.
LEMMA IntSignalGives ==
    ASSUME out = NewHit, IntSignal
    PROVE  /\ out' = Hit("real_signal", wave[PulseMax(HighestPulse)], <<PulseRange>>, <<Highest>>,
                         TimeOverThreshold, Unset, FALSE)
           /\ reads' = reads \cup (PulseRange \cup Samples \cup PulseSpans)
           /\ backup' = backup /\ det = "intveto" /\ Singles # {}
<1>1. /\ det = "intveto" /\ Singles # {} /\ backup' = backup
      /\ out' = [out EXCEPT !.kind = "real_signal", !.A = wave[PulseMax(HighestPulse)],
                            !.Q = <<PulseRange>>, !.T = <<Highest>>, !.tot = TimeOverThreshold]
      /\ reads' = reads \cup (PulseRange \cup Samples \cup PulseSpans)
  BY DEF IntSignal, Converting, Give, PulseRange, PulseSpans
<1>2. out' = Hit("real_signal", wave[PulseMax(HighestPulse)], <<PulseRange>>, <<Highest>>,
                 TimeOverThreshold, Unset, FALSE)
  BY <1>1 DEF Hit, NewHit
<1> QED BY <1>1, <1>2

\* No pulse in the external veto or a paddle.
LEMMA NothingGives ==
    ASSUME out = NewHit, ExtNothing \/ PaddleNothing
    PROVE  /\ out' = Hit("nothing", 0, <<>>, <<>>, Unset, Unset, FALSE)
           /\ reads' = reads \cup Samples
           /\ backup' = backup /\ det \in {"extveto", "paddles"}
<1>1. /\ det \in {"extveto", "paddles"} /\ backup' = backup
      /\ out' = [out EXCEPT !.kind = "nothing"]
      /\ reads' = reads \cup Samples
  BY DEF ExtNothing, PaddleNothing, Converting, Give
<1>2. out' = Hit("nothing", 0, <<>>, <<>>, Unset, Unset, FALSE) BY <1>1 DEF Hit, NewHit
<1> QED BY <1>1, <1>2

ExtBegin == First(ExtOver)

\* A hit with the pedestal of its own waveform, or with the one that is kept.
WithOwn(q, t) ==
    /\ out' = Hit("pulse", 0, <<q>>, t, Unset, Own(chan), FALSE)
    /\ backup' = [backup EXCEPT ![Slot(det, chan)] = Own(chan)]
WithOld(q, t) ==
    /\ out' = Hit("pulse", 0, <<q>>, t, Unset, backup[Slot(det, chan)], FALSE)
    /\ backup' = backup

ReadsAlso(r) == reads' = reads \cup r

\* What OwnPedestal makes of a hit without pedestal.
LEMMA OwnPedestalGives ==
    ASSUME NEW q, NEW t, NEW h, h = Hit("pulse", 0, <<q>>, t, Unset, Unset, FALSE),
           NEW r, NEW other, OwnPedestal(h, r, other)
    PROVE  WithOwn(q, t) /\ ReadsAlso(r \cup other)
<1>1. out' = [h EXCEPT !.ped = Own(chan)] BY DEF OwnPedestal, Give
<1>2. out' = Hit("pulse", 0, <<q>>, t, Unset, Own(chan), FALSE) BY <1>1 DEF Hit
<1> QED BY <1>2 DEF OwnPedestal, Give, WithOwn, ReadsAlso

\* The other one takes the pedestal that is kept.
LEMMA OldPedestalGives ==
    ASSUME NEW q, NEW t, NEW h, h = Hit("pulse", 0, <<q>>, t, Unset, Unset, FALSE),
           NEW other, OldPedestal(h, other)
    PROVE  WithOld(q, t) /\ ReadsAlso(other)
<1>1. out' = [h EXCEPT !.ped = backup[Slot(det, chan)]] BY DEF OldPedestal, Give
<1>2. out' = Hit("pulse", 0, <<q>>, t, Unset, backup[Slot(det, chan)], FALSE)
  BY <1>1 DEF Hit
<1> QED BY <1>2 DEF OldPedestal, Give, WithOld, ReadsAlso

\* A late pulse of the external veto has its own pedestal, an early one has not.
LEMMA ExtPulseGives ==
    ASSUME out = NewHit, ExtPulse
    PROVE  /\ det = "extveto" /\ ExtOver # {}
           /\ \E q : \/ /\ ExtBegin - 1 >= Early /\ WithOwn(q, <<ExtBegin - 1, ExtBegin>>)
                        /\ ReadsAlso(ExtPedestal(ExtBegin) \cup Samples)
                     \/ /\ ExtBegin - 1 < Early /\ WithOld(q, <<ExtBegin - 1, ExtBegin>>)
                        /\ ReadsAlso(Samples)
<1> DEFINE h(q) == [out EXCEPT !.kind = "pulse", !.Q = <<q>>, !.T = <<ExtBegin - 1, ExtBegin>>]
<1>1. /\ det = "extveto" /\ ExtOver # {}
      /\ \E q \in ExtRange(ExtBegin) :
           \/ ExtBegin - 1 >= Early /\ OwnPedestal(h(q), ExtPedestal(ExtBegin), Samples)
           \/ ExtBegin - 1 < Early /\ OldPedestal(h(q), Samples)
  BY DEF ExtPulse, ExtBegin, Converting
<1>2. PICK q : \/ ExtBegin - 1 >= Early /\ OwnPedestal(h(q), ExtPedestal(ExtBegin), Samples)
               \/ ExtBegin - 1 < Early /\ OldPedestal(h(q), Samples)
  BY <1>1
<1> DEFINE k == h(q)
<1>3. k = [out EXCEPT !.kind = "pulse", !.Q = <<q>>, !.T = <<ExtBegin - 1, ExtBegin>>]
  OBVIOUS
<1>4. \/ ExtBegin - 1 >= Early /\ OwnPedestal(k, ExtPedestal(ExtBegin), Samples)
      \/ ExtBegin - 1 < Early /\ OldPedestal(k, Samples)
  BY <1>2
<1> HIDE DEF k, h
<1>5. k = Hit("pulse", 0, <<q>>, <<ExtBegin - 1, ExtBegin>>, Unset, Unset, FALSE)
  BY <1>3 DEF Hit, NewHit
<1>6. /\ OwnPedestal(k, ExtPedestal(ExtBegin), Samples) =>
           /\ WithOwn(q, <<ExtBegin - 1, ExtBegin>>)
           /\ ReadsAlso(ExtPedestal(ExtBegin) \cup Samples)
      /\ OldPedestal(k, Samples) =>
           WithOld(q, <<ExtBegin - 1, ExtBegin>>) /\ ReadsAlso(Samples)
  <2>1. OwnPedestal(k, ExtPedestal(ExtBegin), Samples) =>
           /\ WithOwn(q, <<ExtBegin - 1, ExtBegin>>)
           /\ ReadsAlso(ExtPedestal(ExtBegin) \cup Samples)
    BY <1>5, OwnPedestalGives, Zenon
  <2>2. OldPedestal(k, Samples) =>
           WithOld(q, <<ExtBegin - 1, ExtBegin>>) /\ ReadsAlso(Samples)
    BY <1>5, OldPedestalGives, Zenon
  <2> QED BY <2>1, <2>2
<1> QED BY <1>1, <1>4, <1>6

PaddleBegin == First(PaddleOver)
PaddleCF(g) == IF PaddleBegin > 0 THEN CFReads(g) ELSE {}

\* The same for the paddles.
LEMMA PaddlePulseGives ==
    ASSUME out = NewHit, NEW g, PaddlePulse(g)
    PROVE  /\ det = "paddles" /\ PaddleOver # {}
           /\ \/ /\ WithOld(Samples, <<PaddleBegin>>)
                 /\ ReadsAlso(Samples \cup PaddleCF(g))
              \/ /\ WithOwn(Samples, <<PaddleBegin>>)
                 /\ ReadsAlso(0..Nsamples - 1 \cup (Samples \cup PaddleCF(g)))
<1> DEFINE h == [out EXCEPT !.kind = "pulse", !.Q = <<Samples>>, !.T = <<PaddleBegin>>]
<1>1. /\ det = "paddles" /\ PaddleOver # {}
      /\ \/ OldPedestal(h, Samples \cup PaddleCF(g))
         \/ OwnPedestal(h, 0..Nsamples - 1, Samples \cup PaddleCF(g))
  BY DEF PaddlePulse, PaddleBegin, PaddleCF, Converting
<1>2. h = [out EXCEPT !.kind = "pulse", !.Q = <<Samples>>, !.T = <<PaddleBegin>>] OBVIOUS
<1> HIDE DEF h
<1>3. h = Hit("pulse", 0, <<Samples>>, <<PaddleBegin>>, Unset, Unset, FALSE)
  BY <1>2 DEF Hit, NewHit
<1>4. /\ OwnPedestal(h, 0..Nsamples - 1, Samples \cup PaddleCF(g)) =>
           /\ WithOwn(Samples, <<PaddleBegin>>)
           /\ ReadsAlso(0..Nsamples - 1 \cup (Samples \cup PaddleCF(g)))
      /\ OldPedestal(h, Samples \cup PaddleCF(g)) =>
           /\ WithOld(Samples, <<PaddleBegin>>)
           /\ ReadsAlso(Samples \cup PaddleCF(g))
  <2>1. OwnPedestal(h, 0..Nsamples - 1, Samples \cup PaddleCF(g)) =>
           /\ WithOwn(Samples, <<PaddleBegin>>)
           /\ ReadsAlso(0..Nsamples - 1 \cup (Samples \cup PaddleCF(g)))
    BY <1>3, OwnPedestalGives, Zenon
  <2>2. OldPedestal(h, Samples \cup PaddleCF(g)) =>
           /\ WithOld(Samples, <<PaddleBegin>>)
           /\ ReadsAlso(Samples \cup PaddleCF(g))
    BY <1>3, OldPedestalGives, Zenon
  <2> QED BY <2>1, <2>2
<1> QED BY <1>1, <1>4

-----------------------------------------------------------------------------
(***************************************************************************)
(* Types.  Until a conversion is made the hit is as new.                   *)
(***************************************************************************)
Scanning == {"calorimeter", "intveto"}
Static   == {"extveto", "paddles"}
Before   == {"idle", "scan", "pedestal", "fill", "convert"}
Crossing == (-1..Size - 1) \X (1..Size)

IsHit(h) ==
    \E kind, A, Q, T, tot, ped, garbage : h = Hit(kind, A, Q, T, tot, ped, garbage)

TInv ==
    /\ pc \in Before \cup {"given", "published"} /\ det \in Detectors
    /\ pc # "idle" => chan \in Channels(det) /\ wave \in [Samples -> Levels[det]]
    /\ ii \in 0..Size /\ (pc = "scan" => ii >= 1)
    /\ first \in -1..Size - 1
    /\ crossings \in Seq(Crossing)
    /\ pc = "scan" => det \in Scanning
    /\ pc \in {"pedestal", "fill"} => det \in Static
    /\ IsHit(out) /\ (pc \in Before => out = NewHit)

\* The constants.
LEMMA Constants ==
    /\ Size \in Nat /\ Size >= 2 /\ NPED \in 0..Size /\ Nsamples \in 0..Size
    /\ \A d \in Detectors : Levels[d] \subseteq Nat
    /\ THR \in Nat /\ TOTTHR \in Nat /\ MIN_TOT \in Nat /\ SIGNAL_TOT \in Nat
    /\ NSB \in Nat /\ NSA \in Nat /\ NSAMPLES \in Nat /\ Early \in Nat /\ Gap \in Nat
<1>1. \A d \in Detectors : Levels[d] \subseteq Nat BY WaveformAssumption DEF Detectors
<1> QED BY <1>1, WaveformAssumption

\* The constants of the internal veto's pedestal search.
LEMMA CheckConstants ==
    INT_NPED \in Nat /\ IntNPEDs \subseteq 0..INT_NPED /\ NRMSCHECKS \in Nat \ {0}
  BY WaveformAssumption

\* The kinds of steps.
LEMMA Steps ==
    ASSUME [Next]_vars
    PROVE  \/ \E c \in Channels(det), w \in [Samples -> Levels[det]] : NextHit(c, w)
           \/ ScanSample \/ EndScan \/ Conversion
           \/ PedestalMissing \/ FillPedestal \/ PedestalThere
           \/ \E c \in Channels(det) : OtherThread(c)
           \/ Publish \/ Forget
           \/ UNCHANGED vars
<1>1. CASE Next BY <1>1 DEF Next, Conversion
<1> QED BY <1>1

\* A new hit is a hit.
LEMMA NewHitIsHit == IsHit(NewHit)
<1>1. NewHit = Hit("new", 0, <<>>, <<>>, Unset, Unset, FALSE) BY DEF NewHit, Hit
<1> QED BY <1>1 DEF IsHit

\* So is what a conversion makes of it,
LEMMA ConversionHit == ASSUME out = NewHit, Conversion PROVE IsHit(out')
<1>1. CASE CaloNoise BY <1>1, CaloNoiseGives DEF IsHit
<1>2. CASE CaloSignal BY <1>2, CaloSignalGives DEF IsHit
<1>3. CASE IntNoise BY <1>3, IntNoiseGives DEF IsHit
<1>4. CASE IntSignal BY <1>4, IntSignalGives DEF IsHit
<1>5. CASE ExtNothing \/ PaddleNothing BY <1>5, NothingGives DEF IsHit
<1>6. CASE ExtPulse BY <1>6, ExtPulseGives DEF IsHit, WithOwn, WithOld
<1>7. ASSUME NEW g \in Anything, CaloOnePhe(g) PROVE IsHit(out')
  BY <1>7, CaloOnePheGives DEF IsHit
<1>8. ASSUME NEW g \in Anything, CaloManyPhe(g) PROVE IsHit(out')
  <2>1. PICK best : out' = Hit("many_phe", best, [k \in Singles |-> PheRange(k, g)],
                   IF SinglesBegin - 1 = 0 THEN <<>> ELSE <<SinglesBegin - 1, SinglesBegin>>,
                   Unset, Unset, SinglesBegin - 1 = 0)
    BY <1>8, CaloManyPheGives
  <2> QED BY <2>1 DEF IsHit
<1>9. ASSUME NEW g \in Anything, PaddlePulse(g) PROVE IsHit(out')
  BY <1>9, PaddlePulseGives DEF IsHit, WithOwn, WithOld
<1> QED BY <1>1, <1>2, <1>3, <1>4, <1>5, <1>6, <1>7, <1>8, <1>9 DEF Conversion

\* and what is published: the same hit, marked if it is computed from a value
\* that was never set.
LEMMA PublishGives ==
    ASSUME IsHit(out), Publish
    PROVE  /\ IsHit(out')
           /\ out'.kind = out.kind /\ out'.A = out.A /\ out'.Q = out.Q /\ out'.T = out.T
           /\ out'.tot = out.tot /\ out'.ped = out.ped
           /\ \/ out'.garbage = out.garbage
              \/ det = "intveto" /\ out.tot = Unset
           /\ pc = "given" /\ pc' = "published"
           /\ UNCHANGED <<det, chan, wave, ii, first, crossings, reads, backup>>
<1>1. /\ \/ out' = out
         \/ /\ det = "intveto" /\ out.tot = Unset
            /\ out' = [out EXCEPT !.garbage = TRUE]
      /\ pc = "given" /\ pc' = "published"
      /\ UNCHANGED <<det, chan, wave, ii, first, crossings, reads, backup>>
  BY DEF Publish
<1>2. PICK kind, A, Q, T, tot, ped, garbage : out = Hit(kind, A, Q, T, tot, ped, garbage)
  BY DEF IsHit
<1>3. CASE out' = out BY <1>1, <1>3
<1>4. CASE det = "intveto" /\ out.tot = Unset /\ out' = [out EXCEPT !.garbage = TRUE]
  <2>1. out' = Hit(kind, A, Q, T, tot, ped, TRUE) BY <1>2, <1>4 DEF Hit
  <2>2. IsHit(out') BY <2>1 DEF IsHit
  <2>3. /\ out'.kind = out.kind /\ out'.A = out.A /\ out'.Q = out.Q /\ out'.T = out.T
        /\ out'.tot = out.tot /\ out'.ped = out.ped
    BY <2>1, <1>2 DEF Hit
  <2> QED BY <1>1, <1>4, <2>2, <2>3
<1> QED BY <1>1, <1>3, <1>4

\* Every step preserves TInv.
LEMMA TInvStep == TInv /\ [Next]_vars => TInv'
<1> SUFFICES ASSUME TInv, [Next]_vars PROVE TInv' OBVIOUS
<1> USE Constants
<1>1. ASSUME NEW c \in Channels(det), NEW w \in [Samples -> Levels[det]], NextHit(c, w)
      PROVE  TInv'
  <2>1. /\ pc' \in {"scan", "pedestal"} /\ det' = det /\ chan' = c /\ wave' = w
        /\ ii' = 1 /\ crossings' = <<>> /\ out' = NewHit /\ first' \in {-1, 0}
        /\ pc' = "scan" => det \in Scanning
        /\ pc' = "pedestal" => det \in Static
    BY <1>1 DEF NextHit, Scanning, Static
  <2>2. IsHit(out') BY <2>1, NewHitIsHit
  <2>3. crossings' \in Seq(Crossing) BY <2>1
  <2> QED BY <2>1, <2>2, <2>3 DEF TInv, Before
<1>2. CASE ScanSample
  <2>1. /\ pc = "scan" /\ ii \in Nat /\ ii < Size /\ ii' = ii + 1
        /\ first' \in {ii, -1, first}
        /\ crossings' \in {crossings, Append(crossings, <<first, ii>>)}
        /\ UNCHANGED <<pc, det, chan, wave, out>>
    BY <1>2 DEF ScanSample, TInv
  <2>2. <<first, ii>> \in Crossing BY <2>1 DEF TInv, Crossing
  <2>3. crossings' \in Seq(Crossing)
    <3>1. crossings \in Seq(Crossing) BY DEF TInv
    <3>2. Append(crossings, <<first, ii>>) \in Seq(Crossing) BY <3>1, <2>2
    <3> QED BY <2>1, <3>1, <3>2
  <2>4. first' \in -1..Size - 1 /\ ii' \in 0..Size /\ ii' >= 1 BY <2>1 DEF TInv
  <2> QED BY <2>1, <2>3, <2>4 DEF TInv
<1>3. CASE EndScan
  <2>1. /\ pc = "scan" /\ pc' = "convert"
        /\ crossings' \in {crossings, Append(crossings, <<first, Size>>)}
        /\ UNCHANGED <<det, chan, wave, ii, first, out>>
    BY <1>3 DEF EndScan
  <2>2. <<first, Size>> \in Crossing BY DEF TInv, Crossing
  <2>3. crossings' \in Seq(Crossing)
    <3>1. crossings \in Seq(Crossing) BY DEF TInv
    <3>2. Append(crossings, <<first, Size>>) \in Seq(Crossing) BY <3>1, <2>2
    <3> QED BY <2>1, <3>1, <3>2
  <2> QED BY <2>1, <2>3 DEF TInv, Before
<1>4. CASE Conversion
  <2>1. /\ pc = "convert" /\ pc' = "given" /\ out = NewHit
        /\ UNCHANGED <<det, chan, wave, ii, first, crossings>>
    BY <1>4, ConversionKeeps DEF TInv, Before
  <2>2. IsHit(out') BY <1>4, <2>1, ConversionHit
  <2> QED BY <2>1, <2>2 DEF TInv, Before
<1>5. CASE PedestalMissing \/ FillPedestal \/ PedestalThere
  <2>1. /\ pc \in {"pedestal", "fill"} /\ pc' \in {"fill", "convert"}
        /\ UNCHANGED <<det, chan, wave, ii, first, crossings, out>>
    BY <1>5 DEF PedestalMissing, FillPedestal, PedestalThere
  <2> QED BY <2>1 DEF TInv, Before
<1>6. ASSUME NEW c \in Channels(det), OtherThread(c) PROVE TInv'
  <2>1. UNCHANGED <<pc, det, chan, wave, ii, first, crossings, out>> BY <1>6 DEF OtherThread
  <2> QED BY <2>1 DEF TInv
<1>7. CASE Publish
  <2>1. IsHit(out) BY DEF TInv
  <2>2. /\ IsHit(out') /\ pc = "given" /\ pc' = "published"
        /\ UNCHANGED <<det, chan, wave, ii, first, crossings>>
    BY <1>7, <2>1, PublishGives
  <2> QED BY <2>2 DEF TInv, Before
<1>8. CASE Forget
  <2>1. /\ pc' = "idle" /\ det' = det /\ ii' = 0 /\ first' = -1 /\ crossings' = <<>>
        /\ out' = NewHit
    BY <1>8 DEF Forget
  <2>2. IsHit(out') BY <2>1, NewHitIsHit
  <2> QED BY <2>1, <2>2 DEF TInv, Before
<1>9. CASE UNCHANGED vars BY <1>9 DEF vars, TInv
<1> QED BY <1>1, <1>2, <1>3, <1>4, <1>5, <1>6, <1>7, <1>8, <1>9, Steps

\* Types hold.
LEMMA TypesHold == Spec => []TInv
<1>1. Init => TInv
  <2> SUFFICES ASSUME Init PROVE TInv OBVIOUS
  <2>1. IsHit(out) BY NewHitIsHit DEF Init
  <2> QED BY <2>1, Constants DEF Init, TInv, Before, Static, Scanning
<1> QED BY <1>1, TInvStep, PTL DEF Spec

-----------------------------------------------------------------------------
(***************************************************************************)
(* The loop over the samples.  CrossInv is what holds of the crossings for *)
(* any waveform: they follow each other, begin above the threshold, and    *)
(* only one cut by the end of the window may be without a beginning.       *)
(***************************************************************************)
CrossInv ==
    /\ \A k \in DOMAIN crossings :
          /\ crossings[k][1] < crossings[k][2]
          /\ crossings[k][1] >= 0 => wave[crossings[k][1]] > THR
          /\ crossings[k][2] < Size => crossings[k][1] >= 0
          /\ pc = "scan" => crossings[k][2] < ii
    /\ \A k, m \in DOMAIN crossings : k < m =>
          /\ crossings[k][2] < Size
          /\ crossings[m][1] >= 0 => crossings[k][2] <= crossings[m][1]
    /\ pc = "scan" =>
          /\ first < ii
          /\ first >= 0 => wave[first] > THR /\ \A k \in DOMAIN crossings : crossings[k][2] <= first

\* The crossings after one more is found.
LEMMA OneMore ==
    ASSUME crossings \in Seq(Crossing), NEW c \in Crossing, crossings' = Append(crossings, c)
    PROVE  /\ \A k \in DOMAIN crossings' :
                 \/ k \in DOMAIN crossings /\ crossings'[k] = crossings[k]
                 \/ k = Len(crossings) + 1 /\ crossings'[k] = c
           /\ \A k \in DOMAIN crossings :
                 k \in DOMAIN crossings' /\ crossings'[k] = crossings[k] /\ k < Len(crossings) + 1
           /\ Len(crossings) + 1 \in DOMAIN crossings' /\ crossings'[Len(crossings) + 1] = c
  OBVIOUS

\* A crossing and its ends.
LEMMA CrossingTypes ==
    ASSUME TInv
    PROVE  \A k \in DOMAIN crossings :
              /\ crossings[k] \in Crossing /\ crossings[k] = <<crossings[k][1], crossings[k][2]>>
              /\ crossings[k][1] \in -1..Size - 1 /\ crossings[k][2] \in 1..Size
<1>1. crossings \in Seq(Crossing) BY DEF TInv
<1>2. \A k \in DOMAIN crossings : crossings[k] \in Crossing BY <1>1
<1> QED BY <1>2 DEF Crossing

\* Samples are natural numbers.
LEMMA WaveTypes ==
    ASSUME TInv, pc # "idle"
    PROVE  \A i \in Samples : wave[i] \in Levels[det] /\ wave[i] \in Nat
  BY Constants DEF TInv

\* One sample more, or the end of the waveform.
LEMMA CrossInvScan ==
    ASSUME TInv, CrossInv, ScanSample \/ EndScan
    PROVE  CrossInv'
<1> USE Constants
<1> DEFINE n == Len(crossings) + 1
<1>1. /\ pc = "scan" /\ ii \in 1..Size /\ first \in -1..Size - 1 /\ wave' = wave
      /\ crossings \in Seq(Crossing) /\ wave \in [Samples -> Nat]
  BY WaveTypes DEF TInv, ScanSample, EndScan
<1>2. \A k \in DOMAIN crossings :
         /\ crossings[k][1] \in -1..Size - 1 /\ crossings[k][2] \in 1..Size
         /\ crossings[k][1] < crossings[k][2] /\ crossings[k][2] < ii
         /\ crossings[k][1] >= 0 /\ wave[crossings[k][1]] > THR
  <2> TAKE k \in DOMAIN crossings
  <2>1. crossings[k][1] \in -1..Size - 1 /\ crossings[k][2] \in 1..Size BY CrossingTypes
  <2>2. /\ crossings[k][1] < crossings[k][2] /\ crossings[k][2] < ii
        /\ crossings[k][1] >= 0 => wave[crossings[k][1]] > THR
        /\ crossings[k][2] < Size => crossings[k][1] >= 0
    BY <1>1 DEF CrossInv
  <2> QED BY <1>1, <2>1, <2>2
<1>3. CASE crossings' = crossings /\ ScanSample
  <2>1. first' \in {first, ii} /\ (first' = ii => wave[ii] > THR \/ first = ii) /\ ii' = ii + 1
        /\ pc' = pc /\ ii < Size
    BY <1>1, <1>3 DEF ScanSample
  <2>2. \A k \in DOMAIN crossings : crossings[k][2] < ii' BY <1>1, <1>2, <2>1
  <2>3. first < ii /\ (first >= 0 => wave[first] > THR
                            /\ \A k \in DOMAIN crossings : crossings[k][2] <= first)
    BY <1>1 DEF CrossInv
  <2>4. first' < ii' BY <1>1, <2>1, <2>3
  <2>5. first' >= 0 => wave[first'] > THR /\ \A k \in DOMAIN crossings : crossings[k][2] <= first'
    <3>1. CASE first' = first BY <3>1, <2>3
    <3>2. CASE first' = ii BY <3>2, <1>1, <1>2, <2>1, <2>3
    <3> QED BY <2>1, <3>1, <3>2
  <2> QED BY <1>1, <1>3, <2>2, <2>4, <2>5 DEF CrossInv
<1>4. CASE crossings' = crossings /\ EndScan BY <1>1, <1>2, <1>4 DEF CrossInv, EndScan
<1>5. ASSUME NEW s \in {ii, Size}, crossings' = Append(crossings, <<first, s>>),
             s < Size => first >= 0, pc' = "scan" => ii' = s + 1 /\ first' = -1
      PROVE  CrossInv'
  <2>1. <<first, s>> \in Crossing BY <1>1 DEF Crossing
  <2> DEFINE c == <<first, s>>
  <2>2. /\ \A k \in DOMAIN crossings' :
              \/ k \in DOMAIN crossings /\ crossings'[k] = crossings[k]
              \/ k = n /\ crossings'[k] = c
        /\ \A k \in DOMAIN crossings : k < n
    BY <1>1, <1>5, <2>1, OneMore
  <2>3. c[1] = first /\ c[2] = s /\ first < s /\ (first >= 0 => wave[first] > THR)
        /\ (s < Size => first >= 0)
        /\ \A k \in DOMAIN crossings : crossings[k][2] < Size /\ (first >= 0 => crossings[k][2] <= first)
    BY <1>1, <1>2, <1>5 DEF CrossInv
  <2> HIDE DEF c, n
  <2>4. ASSUME NEW k \in DOMAIN crossings'
        PROVE  /\ crossings'[k][1] < crossings'[k][2]
               /\ crossings'[k][1] >= 0 => wave[crossings'[k][1]] > THR
               /\ crossings'[k][2] < Size => crossings'[k][1] >= 0
               /\ pc' = "scan" => crossings'[k][2] < ii'
    <3>1. CASE k \in DOMAIN crossings /\ crossings'[k] = crossings[k]
      BY <3>1, <1>1, <1>2, <1>5
    <3>2. CASE crossings'[k] = c BY <3>2, <2>3, <1>1, <1>5
    <3> QED BY <2>2, <3>1, <3>2
  <2>5. ASSUME NEW k \in DOMAIN crossings', NEW m \in DOMAIN crossings', k < m
        PROVE  /\ crossings'[k][2] < Size
               /\ crossings'[m][1] >= 0 => crossings'[k][2] <= crossings'[m][1]
    <3>1. k \in DOMAIN crossings /\ crossings'[k] = crossings[k]
      <4>1. n \in Int /\ DOMAIN crossings \subseteq Int BY <1>1 DEF n
      <4>2. m <= n BY <2>2, <4>1
      <4> QED BY <2>2, <2>5, <4>1, <4>2
    <3>2. CASE m \in DOMAIN crossings /\ crossings'[m] = crossings[m]
      BY <3>1, <3>2, <2>5 DEF CrossInv
    <3>3. CASE crossings'[m] = c BY <3>1, <3>3, <2>3
    <3> QED BY <2>2, <3>2, <3>3
  <2>6. pc' = "scan" => first' < ii' /\ ~(first' >= 0) BY <1>1, <1>5
  <2> QED BY <1>1, <2>4, <2>5, <2>6 DEF CrossInv
<1>6. CASE crossings' = Append(crossings, <<first, ii>>) /\ ScanSample /\ crossings' # crossings
  <2>1. first # -1 /\ ii' = ii + 1 /\ first' = -1 BY <1>6 DEF ScanSample
  <2> QED BY <1>1, <1>5, <1>6, <2>1
<1>7. CASE crossings' = Append(crossings, <<first, Size>>) /\ EndScan
  <2>1. pc' = "convert" /\ ii = Size BY <1>7 DEF EndScan
  <2>2. wave[Size - 1] > THR \/ crossings' = crossings BY <1>7 DEF EndScan
  <2> QED BY <1>1, <1>5, <1>7, <2>1
<1> QED BY <1>3, <1>4, <1>6, <1>7 DEF ScanSample, EndScan

\* The steps after the loop leave the crossings as they are, and make no hit
\* while samples are scanned.
LEMMA Afterwards ==
    ASSUME TInv, \/ Conversion \/ PedestalMissing \/ FillPedestal \/ PedestalThere
                 \/ \E c \in Channels(det) : OtherThread(c)
                 \/ Publish
    PROVE  pc # "scan" /\ pc' # "scan" /\ UNCHANGED <<det, chan, wave, ii, first, crossings>>
<1>1. CASE Conversion BY <1>1, ConversionKeeps
<1>2. CASE PedestalMissing \/ FillPedestal \/ PedestalThere
  BY <1>2 DEF PedestalMissing, FillPedestal, PedestalThere
<1>3. ASSUME NEW c \in Channels(det), OtherThread(c)
      PROVE  pc # "scan" /\ pc' # "scan" /\ UNCHANGED <<det, chan, wave, ii, first, crossings>>
  BY <1>3 DEF OtherThread
<1>4. CASE Publish BY <1>4 DEF Publish
<1> QED BY <1>1, <1>2, <1>3, <1>4

\* Every step preserves CrossInv.
LEMMA CrossInvStep == TInv /\ CrossInv /\ [Next]_vars => CrossInv'
<1> SUFFICES ASSUME TInv, CrossInv, [Next]_vars PROVE CrossInv' OBVIOUS
<1> USE Constants
<1>1. ASSUME NEW c \in Channels(det), NEW w \in [Samples -> Levels[det]], NextHit(c, w)
      PROVE  CrossInv'
  <2>1. /\ wave' = w /\ ii' = 1 /\ crossings' = <<>>
        /\ (first' = 0 /\ w[0] > THR) \/ first' = -1
    BY <1>1 DEF NextHit
  <2> QED BY <2>1 DEF CrossInv
<1>2. CASE ScanSample \/ EndScan BY <1>2, CrossInvScan
<1>3. CASE \/ Conversion \/ PedestalMissing \/ FillPedestal \/ PedestalThere
           \/ \E c \in Channels(det) : OtherThread(c)
           \/ Publish
  <2>1. pc' # "scan" /\ UNCHANGED <<wave, crossings>> BY <1>3, Afterwards
  <2> QED BY <2>1 DEF CrossInv
<1>4. CASE Forget
  <2>1. pc' = "idle" /\ crossings' = <<>> BY <1>4 DEF Forget
  <2> QED BY <2>1 DEF CrossInv
<1>5. CASE UNCHANGED vars BY <1>5 DEF vars, CrossInv
<1> QED BY <1>1, <1>2, <1>3, <1>4, <1>5, Steps

\* What the scan has found of a waveform without samples at the threshold: the
\* pulse that is open, if any, and those that ended up to sample n, all of them
\* and nothing else.
Clean == \A i \in Samples : wave[i] # THR

Open ==
    /\ first = -1 <=> wave[ii - 1] < THR
    /\ first # -1 => /\ \A i \in first..ii - 1 : wave[i] > THR
                     /\ first > 0 => wave[first - 1] <= THR

Sound(n) ==
    \A k \in DOMAIN crossings :
        /\ 0 <= crossings[k][1] /\ crossings[k][1] < crossings[k][2] /\ crossings[k][2] <= n
        /\ PulseAt(crossings[k][1], crossings[k][2])

Complete(n) ==
    \A f \in Samples, s \in 1..n :
        f < s /\ PulseAt(f, s) => \E k \in DOMAIN crossings : crossings[k] = <<f, s>>

FoundInv ==
    Clean => /\ pc = "scan" => Open /\ Sound(ii - 1) /\ Complete(ii - 1)
             /\ Scanned => Sound(Size) /\ Complete(Size)

\* A pulse that was open ends at sample n: it is found, and it is the only one
\* that ends there.
LEMMA PulseEnds ==
    ASSUME TInv, CrossInv, pc = "scan", Open, Sound(ii - 1), Complete(ii - 1),
           first # -1, wave' = wave, NEW n, n = ii, n < Size => wave[n] <= THR,
           crossings' = Append(crossings, <<first, n>>)
    PROVE  Sound(n)' /\ Complete(n)'
<1> USE Constants
<1>1. /\ n \in 1..Size /\ first \in 0..Size - 1 /\ wave \in [Samples -> Nat] /\ first < n
      /\ crossings \in Seq(Crossing)
  BY WaveTypes DEF TInv, CrossInv
<1>2. <<first, n>> \in Crossing BY <1>1 DEF Crossing
<1>3. \A f, s : PulseAt(f, s)' <=> PulseAt(f, s) BY DEF PulseAt
<1>4. PulseAt(first, n) BY <1>1 DEF PulseAt, Open
<1> DEFINE c == <<first, n>>
<1>5. c[1] = first /\ c[2] = n OBVIOUS
<1>6. /\ \A k \in DOMAIN crossings' :
            \/ k \in DOMAIN crossings /\ crossings'[k] = crossings[k]
            \/ crossings'[k] = c
      /\ \A k \in DOMAIN crossings : k \in DOMAIN crossings' /\ crossings'[k] = crossings[k]
      /\ \E k \in DOMAIN crossings' : crossings'[k] = c
  BY <1>1, <1>2, OneMore
<1> HIDE DEF c
<1>7. Sound(n)'
  <2> SUFFICES ASSUME NEW k \in DOMAIN crossings'
               PROVE  /\ 0 <= crossings'[k][1] /\ crossings'[k][1] < crossings'[k][2]
                      /\ crossings'[k][2] <= n
                      /\ PulseAt(crossings'[k][1], crossings'[k][2])
    BY <1>3 DEF Sound
  <2>1. CASE k \in DOMAIN crossings /\ crossings'[k] = crossings[k]
    <3>1. crossings[k][1] \in Int /\ crossings[k][2] \in Int BY <2>1, CrossingTypes
    <3> QED BY <1>1, <2>1, <3>1 DEF Sound
  <2>2. CASE crossings'[k] = c BY <1>1, <1>4, <1>5, <2>2
  <2> QED BY <1>6, <2>1, <2>2
<1>8. Complete(n)'
  <2> SUFFICES ASSUME NEW f \in Samples, NEW s \in 1..n, f < s, PulseAt(f, s)
               PROVE  \E k \in DOMAIN crossings' : crossings'[k] = <<f, s>>
    BY <1>3 DEF Complete
  <2>1. CASE s < n
    <3>1. s \in 1..ii - 1 BY <1>1, <2>1
    <3>2. PICK k \in DOMAIN crossings : crossings[k] = <<f, s>> BY <3>1 DEF Complete
    <3> QED BY <1>6, <3>2
  <2>2. CASE s = n
    <3>1. f \in 0..Size - 1 /\ f < n BY <2>2 DEF Samples
    <3>2. /\ \A i \in f..n - 1 : wave[i] > THR
          /\ f > 0 => wave[f - 1] <= THR
          /\ \A i \in first..n - 1 : wave[i] > THR
          /\ first > 0 => wave[first - 1] <= THR
      BY <1>4, <2>2 DEF PulseAt
    <3>3. ~(f < first)
      <4> SUFFICES ASSUME f < first PROVE FALSE OBVIOUS
      <4>1. first - 1 \in f..n - 1 /\ first > 0 /\ first - 1 \in Samples
        BY <1>1, <3>1 DEF Samples
      <4>2. wave[first - 1] \in Nat /\ wave[first - 1] > THR /\ wave[first - 1] <= THR
        BY <1>1, <3>2, <4>1
      <4> QED BY <4>2
    <3>4. ~(first < f)
      <4> SUFFICES ASSUME first < f PROVE FALSE OBVIOUS
      <4>1. f - 1 \in first..n - 1 /\ f > 0 /\ f - 1 \in Samples BY <1>1, <3>1, SMTT(30) DEF Samples
      <4>2. wave[f - 1] \in Nat /\ wave[f - 1] > THR /\ wave[f - 1] <= THR
        BY <1>1, <3>2, <4>1
      <4> QED BY <4>2
    <3>5. f = first BY <1>1, <3>1, <3>3, <3>4
    <3>6. <<f, s>> = c BY <2>2, <3>5 DEF c
    <3> QED BY <1>6, <3>6
  <2>3. s < n \/ s = n BY <1>1
  <2> QED BY <2>1, <2>2, <2>3
<1> QED BY <1>7, <1>8

\* No pulse ends at sample n.
LEMMA NothingEnds ==
    ASSUME TInv, pc = "scan", Sound(ii - 1), Complete(ii - 1),
           wave' = wave, crossings' = crossings, NEW n, n = ii,
           IF n < Size THEN wave[n] > THR \/ wave[n - 1] <= THR ELSE wave[n - 1] <= THR
    PROVE  Sound(n)' /\ Complete(n)'
<1> USE Constants
<1>1. n \in 1..Size /\ wave \in [Samples -> Nat] BY WaveTypes DEF TInv
<1>2. \A f, s : PulseAt(f, s)' <=> PulseAt(f, s) BY DEF PulseAt
<1>3. Sound(n)'
  <2>1. \A k \in DOMAIN crossings : crossings[k][2] \in Int BY CrossingTypes
  <2> QED BY <1>1, <1>2, <2>1 DEF Sound
<1>4. Complete(n)'
  <2> SUFFICES ASSUME NEW f \in Samples, NEW s \in 1..n, f < s, PulseAt(f, s)
               PROVE  \E k \in DOMAIN crossings : crossings[k] = <<f, s>>
    BY <1>2 DEF Complete
  <2>1. s # n
    <3> SUFFICES ASSUME s = n PROVE FALSE OBVIOUS
    <3>1. n - 1 \in f..n - 1 /\ n - 1 \in Samples /\ (n < Size => n \in Samples)
      BY <1>1 DEF Samples
    <3>2. wave[n - 1] > THR /\ (n < Size => wave[n] <= THR) BY <3>1 DEF PulseAt
    <3>3. wave[n - 1] \in Nat /\ (n < Size => wave[n] \in Nat) BY <1>1, <3>1
    <3> QED BY <1>1, <3>2, <3>3
  <2>2. s \in 1..ii - 1 BY <1>1, <2>1
  <2> QED BY <2>2 DEF Complete
<1> QED BY <1>3, <1>4

\* The scan of one sample.
LEMMA FoundScan ==
    ASSUME TInv, CrossInv, FoundInv, Clean, ScanSample
    PROVE  (Open /\ Sound(ii - 1) /\ Complete(ii - 1))'
<1> USE Constants
<1>1. /\ pc = "scan" /\ Open /\ Sound(ii - 1) /\ Complete(ii - 1)
      /\ wave' = wave /\ ii' = ii + 1 /\ ii < Size
  BY DEF FoundInv, ScanSample
<1>2. /\ ii \in 1..Size - 1 /\ first \in -1..ii - 1
      /\ wave[ii] \in Nat /\ wave[ii - 1] \in Nat /\ wave[ii] # THR /\ wave[ii - 1] # THR
  <2>1. ii \in 1..Size - 1 /\ first \in -1..ii - 1 BY <1>1 DEF TInv, CrossInv
  <2>2. ii \in Samples /\ ii - 1 \in Samples BY <2>1 DEF Samples
  <2> QED BY <1>1, <2>1, <2>2, WaveTypes DEF Clean
<1>3. PICK n : n = ii OBVIOUS
<1>4. ii' - 1 = n BY <1>1, <1>2, <1>3
<1>5. SUFFICES Open' /\ Sound(n)' /\ Complete(n)' BY <1>4
<1>6. CASE wave[ii] > THR /\ wave[ii - 1] < THR
  <2>1. first = -1 /\ first' = ii /\ crossings' = crossings
    BY <1>1, <1>2, <1>6 DEF ScanSample, Open
  <2>2. Sound(n)' /\ Complete(n)' BY <1>1, <1>2, <1>3, <1>6, <2>1, NothingEnds
  <2>3. Open' BY <1>1, <1>2, <1>6, <2>1 DEF Open
  <2> QED BY <2>2, <2>3
<1>7. CASE wave[ii] < THR /\ wave[ii - 1] > THR
  <2>1. first # -1 BY <1>1, <1>2, <1>7 DEF Open
  <2>2. first' = -1 /\ crossings' = Append(crossings, <<first, ii>>)
    BY <1>1, <1>2, <1>7, <2>1, SMTT(30) DEF ScanSample
  <2>3. Sound(n)' /\ Complete(n)' BY <1>1, <1>2, <1>3, <1>7, <2>1, <2>2, PulseEnds
  <2>4. Open' BY <1>1, <1>2, <1>7, <2>2 DEF Open
  <2> QED BY <2>3, <2>4
<1>8. CASE ~(wave[ii] > THR /\ wave[ii - 1] < THR) /\ ~(wave[ii] < THR /\ wave[ii - 1] > THR)
  <2>1. first' = first /\ crossings' = crossings BY <1>8 DEF ScanSample
  <2>2. wave[ii] > THR <=> wave[ii - 1] > THR BY <1>2, <1>8
  <2>3. Sound(n)' /\ Complete(n)' BY <1>1, <1>2, <1>3, <2>1, <2>2, NothingEnds
  <2>4. first' = -1 <=> wave'[ii' - 1] < THR BY <1>1, <1>2, <2>1, <2>2 DEF Open
  <2>5. first' # -1 => /\ \A i \in first'..ii' - 1 : wave'[i] > THR
                       /\ first' > 0 => wave'[first' - 1] <= THR
    <3> SUFFICES ASSUME first # -1
                 PROVE  /\ \A i \in first..ii : wave[i] > THR
                        /\ first > 0 => wave[first - 1] <= THR
      BY <1>1, <1>2, <2>1
    <3>1. wave[ii] > THR BY <1>1, <1>2, <2>2 DEF Open
    <3>2. \A i \in first..ii : i \in first..ii - 1 \/ i = ii BY <1>2
    <3> QED BY <1>1, <3>1, <3>2 DEF Open
  <2> QED BY <2>3, <2>4, <2>5 DEF Open
<1> QED BY <1>6, <1>7, <1>8

\* The end of the scan.
LEMMA FoundEnd ==
    ASSUME TInv, CrossInv, FoundInv, Clean, EndScan
    PROVE  Sound(Size)' /\ Complete(Size)'
<1> USE Constants
<1>1. /\ pc = "scan" /\ Open /\ Sound(ii - 1) /\ Complete(ii - 1)
      /\ wave' = wave /\ ii = Size
  BY DEF FoundInv, EndScan
<1>2. wave[Size - 1] \in Nat /\ wave[Size - 1] # THR
  <2>1. Size - 1 \in Samples BY DEF Samples
  <2> QED BY <1>1, <2>1, WaveTypes DEF Clean
<1>3. CASE wave[Size - 1] > THR
  <2>1. first # -1 /\ crossings' = Append(crossings, <<first, Size>>)
    BY <1>1, <1>2, <1>3 DEF Open, EndScan
  <2> QED BY <1>1, <2>1, PulseEnds
<1>4. CASE wave[Size - 1] < THR
  <2>1. crossings' = crossings BY <1>2, <1>4 DEF EndScan
  <2> QED BY <1>1, <1>2, <1>4, <2>1, NothingEnds
<1> QED BY <1>2, <1>3, <1>4

\* Every step preserves FoundInv.
LEMMA FoundInvStep == TInv /\ CrossInv /\ FoundInv /\ [Next]_vars => FoundInv'
<1> SUFFICES ASSUME TInv, CrossInv, FoundInv, [Next]_vars PROVE FoundInv' OBVIOUS
<1> USE Constants
<1>1. ASSUME NEW c \in Channels(det), NEW w \in [Samples -> Levels[det]], NextHit(c, w)
      PROVE  FoundInv'
  <2>1. /\ wave' = w /\ ii' = 1 /\ crossings' = <<>> /\ pc' \in {"scan", "pedestal"}
        /\ pc' = "scan" => first' = IF w[0] > THR THEN 0 ELSE -1
    BY <1>1 DEF NextHit
  <2>2. 0 \in Samples /\ w[0] \in Nat BY DEF Samples, TInv
  <2>3. Sound(0)' BY <2>1 DEF Sound
  <2>4. Complete(0)' BY DEF Complete
  <2>5. Clean' => w[0] # THR BY <2>1, <2>2 DEF Clean, Samples
  <2>6. Clean' /\ pc' = "scan" => Open' BY <2>1, <2>2, <2>5 DEF Open
  <2>7. ii' - 1 = 0 BY <2>1
  <2>8. ~Scanned' BY <2>1 DEF Scanned
  <2> QED BY <2>3, <2>4, <2>6, <2>7, <2>8 DEF FoundInv
<1>2. CASE ScanSample
  <2>1. (Clean <=> Clean') /\ ~Scanned' BY <1>2 DEF ScanSample, Clean, Scanned
  <2>2. Clean => (Open /\ Sound(ii - 1) /\ Complete(ii - 1))' BY <1>2, FoundScan
  <2> QED BY <2>1, <2>2 DEF FoundInv
<1>3. CASE EndScan
  <2>1. (Clean <=> Clean') /\ pc' # "scan" BY <1>3 DEF EndScan, Clean
  <2>2. Clean => Sound(Size)' /\ Complete(Size)' BY <1>3, FoundEnd
  <2> QED BY <2>1, <2>2 DEF FoundInv
<1>4. CASE \/ Conversion \/ PedestalMissing \/ FillPedestal \/ PedestalThere
           \/ \E c \in Channels(det) : OtherThread(c)
           \/ Publish
  <2>1. pc # "scan" /\ pc' # "scan" /\ UNCHANGED <<det, wave, crossings>> BY <1>4, Afterwards
  <2>2. (Clean <=> Clean') /\ (Sound(Size) <=> Sound(Size)') /\ (Complete(Size) <=> Complete(Size)')
    BY <2>1 DEF Clean, Sound, Complete, PulseAt
  <2>3. Scanned' => Scanned
    <3>1. CASE Conversion BY <3>1, <2>1, ConversionKeeps DEF Scanned
    <3>2. CASE PedestalMissing \/ FillPedestal \/ PedestalThere
      BY <3>2, <2>1 DEF PedestalMissing, FillPedestal, PedestalThere, TInv, Scanned, Static
    <3>3. CASE \E c \in Channels(det) : OtherThread(c) BY <3>3, <2>1 DEF OtherThread, Scanned
    <3>4. CASE Publish BY <3>4 DEF Publish, Scanned
    <3> QED BY <1>4, <3>1, <3>2, <3>3, <3>4
  <2> QED BY <2>1, <2>2, <2>3 DEF FoundInv
<1>5. CASE Forget
  <2>1. pc' = "idle" BY <1>5 DEF Forget
  <2> QED BY <2>1 DEF FoundInv, Scanned
<1>6. CASE UNCHANGED vars
  BY <1>6 DEF vars, FoundInv, Clean, Open, Sound, Complete, PulseAt, Scanned
<1> QED BY <1>1, <1>2, <1>3, <1>4, <1>5, <1>6, Steps

ScanInv == TInv /\ CrossInv /\ FoundInv

\* The invariants of the scan hold.
LEMMA ScanHolds == Spec => []ScanInv
<1>1. Init => CrossInv /\ FoundInv
  BY DEF Init, CrossInv, FoundInv, Scanned
<1>2. TInv /\ CrossInv /\ FoundInv /\ [Next]_vars => (CrossInv /\ FoundInv)'
  BY CrossInvStep, FoundInvStep
<1> QED BY <1>1, <1>2, TypesHold, PTL DEF Spec, ScanInv

\* In the waveforms of the calorimeter and the internal veto the loop finds the
\* pulses, those cut by the window included, whatever their number and length.
THEOREM PulsesAreFound == Spec => []PulsesFound
<1>1. ScanInv => PulsesFound
  <2> SUFFICES ASSUME ScanInv, Scanned, Clean
               PROVE  /\ {crossings[k] : k \in DOMAIN crossings} =
                             {p \in Samples \X (1..Size) : p[1] < p[2] /\ PulseAt(p[1], p[2])}
                      /\ \A k, m \in DOMAIN crossings : k < m => crossings[k][2] < crossings[m][1]
    BY DEF PulsesFound, Clean
  <2> USE Constants
  <2>1. TInv /\ CrossInv /\ Sound(Size) /\ Complete(Size) /\ pc # "idle"
    BY DEF ScanInv, FoundInv, Scanned
  <2>2. \A k \in DOMAIN crossings :
           /\ crossings[k] = <<crossings[k][1], crossings[k][2]>>
           /\ crossings[k][1] \in Samples /\ crossings[k][2] \in 1..Size
           /\ crossings[k][1] < crossings[k][2] /\ PulseAt(crossings[k][1], crossings[k][2])
    <3> TAKE k \in DOMAIN crossings
    <3>1. /\ crossings[k] = <<crossings[k][1], crossings[k][2]>>
          /\ crossings[k][1] \in -1..Size - 1 /\ crossings[k][2] \in 1..Size
      BY <2>1, CrossingTypes
    <3>2. /\ 0 <= crossings[k][1] /\ crossings[k][1] < crossings[k][2]
          /\ PulseAt(crossings[k][1], crossings[k][2])
      BY <2>1 DEF Sound
    <3> QED BY <3>1, <3>2 DEF Samples
  <2>3. ASSUME NEW k \in DOMAIN crossings
        PROVE  crossings[k] \in {p \in Samples \X (1..Size) : p[1] < p[2] /\ PulseAt(p[1], p[2])}
    <3> DEFINE p == crossings[k]
    <3>1. p = <<p[1], p[2]>> /\ p[1] \in Samples /\ p[2] \in 1..Size
          /\ p[1] < p[2] /\ PulseAt(p[1], p[2])
      BY <2>2
    <3> HIDE DEF p
    <3>2. p \in Samples \X (1..Size) BY <3>1
    <3>3. p \in {q \in Samples \X (1..Size) : q[1] < q[2] /\ PulseAt(q[1], q[2])}
      BY <3>1, <3>2
    <3> QED BY <3>3 DEF p
  <2>4. ASSUME NEW p \in Samples \X (1..Size), p[1] < p[2], PulseAt(p[1], p[2])
        PROVE  \E k \in DOMAIN crossings : crossings[k] = p
    <3>1. p[1] \in Samples /\ p[2] \in 1..Size /\ p = <<p[1], p[2]>> OBVIOUS
    <3> QED BY <2>1, <2>4, <3>1 DEF Complete
  <2>5. ASSUME NEW k \in DOMAIN crossings, NEW m \in DOMAIN crossings, k < m
        PROVE  crossings[k][2] < crossings[m][1]
    <3>1. crossings[k][2] < Size /\ crossings[k][2] \in 1..Size /\ crossings[m][1] \in Samples
      BY <2>1, <2>2, <2>5 DEF CrossInv
    <3>2. crossings[k][2] <= crossings[m][1] BY <2>1, <2>5, <3>1 DEF CrossInv, Samples
    <3>3. wave[crossings[m][1]] > THR BY <2>1, <3>1 DEF CrossInv, Samples
    <3>4. wave[crossings[k][2]] <= THR BY <2>2, <3>1 DEF PulseAt
    <3>5. crossings[k][2] \in Samples BY <3>1 DEF Samples
    <3>6. wave[crossings[k][2]] \in Nat /\ wave[crossings[m][1]] \in Nat
      BY <2>1, <3>1, <3>5, WaveTypes
    <3>7. crossings[k][2] # crossings[m][1] BY <3>3, <3>4, <3>6
    <3> QED BY <3>1, <3>2, <3>7 DEF Samples
  <2> QED BY <2>3, <2>4, <2>5
<1> QED BY <1>1, ScanHolds, PTL

-----------------------------------------------------------------------------
(***************************************************************************)
(* Pedestals.  Whatever a thread keeps is kept under the channel it was    *)
(* measured in, and channels have different places.                        *)
(***************************************************************************)
Kept(s, p) ==
    \/ p = Unset
    \/ p = <<s, "data base">>
    \/ \E d \in Static : \E c \in Channels(d) : s = Slot(d, c) /\ p = <<s, "waveform", c>>

OfChannel(p, d, c) == p # Unset => p[1] = Slot(d, c) /\ (p[2] = "waveform" => p[3] = c)

PedInv ==
    /\ backup = [s \in Slots |-> backup[s]]
    /\ \A s \in Slots : Kept(s, backup[s])
    /\ PedestalOfItsChannel /\ PedestalBeforePulse

\* Every channel of the external veto and the paddles has its own place.
LEMMA OwnPlace ==
    ASSUME NEW d \in Static, NEW c \in Channels(d)
    PROVE  /\ Slot(d, c) \in Slots
           /\ \A e \in Static : \A b \in Channels(e) : Slot(d, c) = Slot(e, b) => d = e /\ c = b
<1>1. CASE d = "extveto"
  <2>1. c \in ExtChannels /\ Slot(d, c) = <<"extveto", ExtSlot(c)>> BY <1>1 DEF Channels, Slot
  <2>2. Slot(d, c) \in Slots BY <1>1, <2>1 DEF Slots
  <2>3. ASSUME NEW e \in Static, NEW b \in Channels(e), Slot(d, c) = Slot(e, b)
        PROVE  d = e /\ c = b
    <3>1. e = "extveto" BY <2>1, <2>3 DEF Slot, Static
    <3>2. b \in ExtChannels /\ ExtSlot(b) = ExtSlot(c) BY <2>1, <2>3, <3>1 DEF Channels, Slot
    <3> QED BY <1>1, <2>1, <3>1, <3>2, SlotAssumption
  <2> QED BY <2>2, <2>3
<1>2. CASE d = "paddles"
  <2>1. c \in PaddleIds /\ Slot(d, c) = <<"paddles", c>> BY <1>2 DEF Channels, Slot
  <2>2. Slot(d, c) \in Slots BY <1>2, <2>1 DEF Slots
  <2>3. ASSUME NEW e \in Static, NEW b \in Channels(e), Slot(d, c) = Slot(e, b)
        PROVE  d = e /\ c = b
    <3>1. e = "paddles" BY <2>1, <2>3 DEF Slot, Static
    <3>2. Slot(e, b) = <<"paddles", b>> BY <3>1 DEF Slot
    <3> QED BY <1>2, <2>1, <2>3, <3>1, <3>2
  <2> QED BY <2>2, <2>3
<1> QED BY <1>1, <1>2 DEF Static

\* So what is kept at the place of a channel is of that channel.
LEMMA KeptIsOfChannel ==
    ASSUME NEW d \in Static, NEW c \in Channels(d), NEW p, Kept(Slot(d, c), p)
    PROVE  OfChannel(p, d, c)
<1>1. CASE p = Unset BY <1>1 DEF OfChannel
<1>2. CASE p = <<Slot(d, c), "data base">> BY <1>2 DEF OfChannel
<1>3. ASSUME NEW e \in Static, NEW b \in Channels(e), Slot(d, c) = Slot(e, b),
             p = <<Slot(d, c), "waveform", b>>
      PROVE  OfChannel(p, d, c)
  <2>1. c = b BY <1>3, OwnPlace
  <2> QED BY <1>3, <2>1 DEF OfChannel
<1> QED BY <1>1, <1>2, <1>3 DEF Kept

\* A pedestal that a thread keeps,
LEMMA KeepOwn ==
    ASSUME backup = [s \in Slots |-> backup[s]], \A s \in Slots : Kept(s, backup[s]),
           det \in Static, NEW c \in Channels(det),
           backup' = [backup EXCEPT ![Slot(det, c)] = Own(c)]
    PROVE  /\ backup' = [s \in Slots |-> backup'[s]]
           /\ \A s \in Slots : Kept(s, backup'[s])
<1>1. Slot(det, c) \in Slots BY OwnPlace
<1>2. Kept(Slot(det, c), Own(c)) BY DEF Kept, Own
<1>3. DOMAIN backup = Slots
  <2>1. DOMAIN [s \in Slots |-> backup[s]] = Slots OBVIOUS
  <2> QED BY <2>1
<1> DEFINE v == Own(c)
           t == Slot(det, c)
<1>4. backup' = [backup EXCEPT ![t] = v] /\ t \in Slots /\ Kept(t, v) BY <1>1, <1>2
<1> HIDE DEF v, t
<1>5. \A s \in Slots : backup'[s] = IF s = t THEN v ELSE backup[s] BY <1>3, <1>4
<1>6. backup' = [s \in Slots |-> backup'[s]] BY <1>3, <1>4
<1> QED BY <1>4, <1>5, <1>6

\* and one that comes from the data base.
LEMMA KeepDataBase ==
    ASSUME \A s \in Slots : Kept(s, backup[s]), FillPedestal
    PROVE  /\ backup' = [s \in Slots |-> backup'[s]]
           /\ \A s \in Slots : Kept(s, backup'[s])
<1>1. backup' = [s \in Slots |->
                    IF s = Slot(det, chan) \/ (det = "paddles" /\ s[1] = "paddles")
                    THEN <<s, "data base">> ELSE backup[s]]
  BY DEF FillPedestal
<1>2. \A s \in Slots : backup'[s] \in {<<s, "data base">>, backup[s]} BY <1>1
<1>3. backup' = [s \in Slots |-> backup'[s]] BY <1>1
<1> QED BY <1>2, <1>3 DEF Kept

\* The samples before the first that reaches the threshold of the external veto
\* are below it.
LEMMA BelowBefore ==
    ASSUME TInv, pc = "convert", ExtOver # {}
    PROVE  /\ ExtBegin \in Samples
           /\ \A i \in ExtPedestal(ExtBegin) : i \in Samples /\ wave[i] < THR
<1> USE Constants
<1>1. ExtOver \in SUBSET Int /\ \A i \in ExtOver : 0 <= i BY DEF ExtOver, Samples
<1>2. ExtBegin \in ExtOver /\ \A m \in ExtOver : ExtBegin <= m
  BY <1>1, FirstIsLeast DEF ExtBegin
<1>3. ExtBegin \in Samples BY <1>2 DEF ExtOver
<1>4. ASSUME NEW i \in ExtPedestal(ExtBegin) PROVE i \in Samples /\ wave[i] < THR
  <2>1. i \in Samples /\ i < ExtBegin BY <1>3 DEF ExtPedestal, Samples
  <2>2. i \notin ExtOver BY <1>2, <1>3, <2>1 DEF Samples
  <2>3. wave[i] \in Nat BY <2>1, WaveTypes
  <2> QED BY <2>1, <2>2, <2>3 DEF ExtOver
<1> QED BY <1>3, <1>4

\* Every step preserves PedInv.
LEMMA PedInvStep == TInv /\ PedInv /\ [Next]_vars => PedInv'
<1> SUFFICES ASSUME TInv, PedInv, [Next]_vars PROVE PedInv' OBVIOUS
<1> USE Constants
<1>1. /\ backup = [s \in Slots |-> backup[s]] /\ \A s \in Slots : Kept(s, backup[s])
      /\ PedestalOfItsChannel /\ PedestalBeforePulse
  BY DEF PedInv
<1>2. ASSUME out'.ped = Unset, backup' = backup, pc' # "given" \/ det' # "extveto" \/ out'.kind # "pulse"
      PROVE  PedInv'
  BY <1>1, <1>2 DEF PedInv, PedestalOfItsChannel, PedestalBeforePulse
<1>3. NewHit.ped = Unset BY DEF NewHit
<1>4. ASSUME NEW c \in Channels(det), NEW w \in [Samples -> Levels[det]], NextHit(c, w)
      PROVE  PedInv'
  <2>1. out' = NewHit /\ backup' = backup /\ pc' # "given" BY <1>4 DEF NextHit
  <2> QED BY <1>2, <1>3, <2>1
<1>5. CASE ScanSample \/ EndScan
  <2>1. out' = out /\ backup' = backup /\ pc' # "given" /\ out = NewHit
    BY <1>5 DEF ScanSample, EndScan, TInv, Before
  <2> QED BY <1>2, <1>3, <2>1
<1>6. CASE Conversion
  <2>1. /\ pc = "convert" /\ out = NewHit
        /\ pc' = "given" /\ UNCHANGED <<det, chan, wave, ii, first, crossings>>
        /\ chan \in Channels(det)
    BY <1>6, ConversionKeeps DEF TInv, Before
  <2>2. CASE CaloNoise
    <3>1. out'.ped = Unset /\ backup' = backup /\ det' # "extveto"
      BY <2>1, <2>2, CaloNoiseGives DEF Hit
    <3> QED BY <1>2, <3>1
  <2>3. CASE CaloSignal
    <3>1. out'.ped = Unset /\ backup' = backup /\ det' # "extveto"
      BY <2>1, <2>3, CaloSignalGives DEF Hit
    <3> QED BY <1>2, <3>1
  <2>4. ASSUME NEW g \in Anything, CaloOnePhe(g) PROVE PedInv'
    <3>1. out'.ped = Unset /\ backup' = backup /\ det' # "extveto"
      BY <2>1, <2>4, CaloOnePheGives DEF Hit
    <3> QED BY <1>2, <3>1
  <2>5. ASSUME NEW g \in Anything, CaloManyPhe(g) PROVE PedInv'
    <3>1. out'.ped = Unset /\ backup' = backup /\ det' # "extveto"
      BY <2>1, <2>5, CaloManyPheGives DEF Hit
    <3> QED BY <1>2, <3>1
  <2>6. CASE IntNoise
    <3>1. out'.ped = Unset /\ backup' = backup /\ det' # "extveto"
      BY <2>1, <2>6, IntNoiseGives DEF Hit
    <3> QED BY <1>2, <3>1
  <2>7. CASE IntSignal
    <3>1. out'.ped = Unset /\ backup' = backup /\ det' # "extveto"
      BY <2>1, <2>7, IntSignalGives DEF Hit
    <3> QED BY <1>2, <3>1
  <2>8. CASE ExtNothing \/ PaddleNothing
    <3>1. out'.ped = Unset /\ backup' = backup /\ out'.kind # "pulse"
      BY <2>1, <2>8, NothingGives DEF Hit
    <3> QED BY <1>2, <3>1
  <2>9. ASSUME det \in Static, NEW q, NEW t, WithOwn(q, t) \/ WithOld(q, t),
               det = "extveto" => t = <<ExtBegin - 1, ExtBegin>> /\ ExtOver # {}
        PROVE  PedInv'
    <3>1. Kept(Slot(det, chan), backup[Slot(det, chan)]) BY <1>1, <2>1, <2>9, OwnPlace
    <3>2. OfChannel(backup[Slot(det, chan)], det, chan) BY <2>1, <2>9, <3>1, KeptIsOfChannel
    <3>3. OfChannel(Own(chan), det, chan) BY DEF OfChannel, Own
    <3>4. OfChannel(out'.ped, det, chan) BY <2>9, <3>2, <3>3 DEF WithOwn, WithOld, Hit
    <3>5. PedestalOfItsChannel'
      <4>1. Slot(det, chan)' = Slot(det, chan) BY <2>1
      <4> QED BY <2>1, <3>4, <4>1 DEF OfChannel, PedestalOfItsChannel
    <3>6. /\ backup' = [s \in Slots |-> backup'[s]]
          /\ \A s \in Slots : Kept(s, backup'[s])
      <4>1. CASE WithOwn(q, t) BY <1>1, <2>1, <2>9, <4>1, KeepOwn DEF WithOwn
      <4>2. CASE WithOld(q, t) BY <1>1, <4>2 DEF WithOld
      <4> QED BY <2>9, <4>1, <4>2
    <3>7. PedestalBeforePulse'
      <4>1. out'.T = t BY <2>9 DEF WithOwn, WithOld, Hit
      <4>2. det = "extveto" => out'.T[2] = ExtBegin BY <2>9, <4>1
      <4>3. det = "extveto" => \A i \in ExtPedestal(ExtBegin) : wave[i] < THR
        BY <2>1, <2>9, BelowBefore
      <4> QED BY <2>1, <4>2, <4>3 DEF PedestalBeforePulse, ExtPedestal
    <3> QED BY <3>5, <3>6, <3>7 DEF PedInv
  <2>10. CASE ExtPulse
    <3>1. /\ det = "extveto" /\ ExtOver # {}
          /\ \E q : \/ WithOwn(q, <<ExtBegin - 1, ExtBegin>>)
                    \/ WithOld(q, <<ExtBegin - 1, ExtBegin>>)
      BY <2>1, <2>10, ExtPulseGives
    <3> QED BY <2>9, <3>1 DEF Static
  <2>11. ASSUME NEW g \in Anything, PaddlePulse(g) PROVE PedInv'
    <3>1. /\ det = "paddles"
          /\ WithOwn(Samples, <<PaddleBegin>>) \/ WithOld(Samples, <<PaddleBegin>>)
      BY <2>1, <2>11, PaddlePulseGives
    <3> QED BY <2>9, <3>1 DEF Static
  <2> QED BY <1>6, <2>2, <2>3, <2>4, <2>5, <2>6, <2>7, <2>8, <2>10, <2>11 DEF Conversion
<1>7. CASE PedestalMissing \/ PedestalThere
  <2>1. out' = out /\ backup' = backup /\ pc' # "given" /\ out = NewHit
    BY <1>7 DEF PedestalMissing, PedestalThere, TInv, Before
  <2> QED BY <1>2, <1>3, <2>1
<1>8. CASE FillPedestal
  <2>1. out' = out /\ out = NewHit /\ pc' # "given" BY <1>8 DEF FillPedestal, TInv, Before
  <2>2. PedestalOfItsChannel' /\ PedestalBeforePulse'
    BY <1>3, <2>1 DEF PedestalOfItsChannel, PedestalBeforePulse
  <2> QED BY <1>1, <1>8, <2>2, KeepDataBase DEF PedInv
<1>9. ASSUME NEW c \in Channels(det), OtherThread(c) PROVE PedInv'
  <2>1. /\ det \in Static /\ backup' = [backup EXCEPT ![Slot(det, c)] = Own(c)]
        /\ UNCHANGED <<pc, det, chan, wave, out>>
    BY <1>9 DEF OtherThread, Static
  <2>2. PedestalOfItsChannel' /\ PedestalBeforePulse'
    BY <1>1, <2>1 DEF PedestalOfItsChannel, PedestalBeforePulse, Slot, ExtPedestal
  <2>3. /\ backup' = [s \in Slots |-> backup'[s]]
        /\ \A s \in Slots : Kept(s, backup'[s])
    BY <1>1, <2>1, KeepOwn
  <2> QED BY <2>2, <2>3 DEF PedInv
<1>10. CASE Publish
  <2>1. /\ out'.ped = out.ped /\ pc' = "published" /\ UNCHANGED <<det, chan, backup>>
    BY <1>10, PublishGives DEF TInv
  <2> QED BY <1>1, <2>1 DEF PedInv, PedestalOfItsChannel, PedestalBeforePulse
<1>11. CASE Forget
  <2>1. out' = NewHit /\ backup' = backup /\ pc' # "given" BY <1>11 DEF Forget
  <2> QED BY <1>2, <1>3, <2>1
<1>12. CASE UNCHANGED vars
  BY <1>1, <1>12 DEF vars, PedInv, PedestalOfItsChannel, PedestalBeforePulse
<1> QED BY <1>4, <1>5, <1>6, <1>7, <1>8, <1>9, <1>10, <1>11, <1>12, Steps

\* The pedestal subtracted from a pulse is that of the pulse's own channel and
\* was not measured under it, whatever the other threads keep meanwhile.
THEOREM PedestalIsSound == Spec => []PedestalSound
<1>1. Init => PedInv
  <2> SUFFICES ASSUME Init PROVE PedInv OBVIOUS
  <2>1. backup = [s \in Slots |-> backup[s]] /\ \A s \in Slots : backup[s] = Unset BY DEF Init
  <2>2. out.ped = Unset /\ pc = "idle" BY DEF Init, NewHit
  <2> QED BY <2>1, <2>2 DEF PedInv, Kept, PedestalOfItsChannel, PedestalBeforePulse
<1>2. TInv /\ PedInv => PedestalSound
  <2> SUFFICES ASSUME TInv, PedInv PROVE TypeOK
    BY DEF PedestalSound, PedInv
  <2>1. ASSUME NEW s \in Slots PROVE backup[s] = Unset \/ backup[s][1] = s
    <3>1. PICK p : p = backup[s] OBVIOUS
    <3>2. Kept(s, p) BY <3>1 DEF PedInv
    <3>3. p = Unset \/ p[1] = s
      <4>1. CASE p = <<s, "data base">> BY <4>1
      <4>2. ASSUME NEW c, p = <<s, "waveform", c>> PROVE p[1] = s BY <4>2
      <4> QED BY <3>2, <4>1, <4>2 DEF Kept
    <3> QED BY <3>1, <3>3
  <2>2. \A k \in DOMAIN crossings :
           crossings[k][1] \in -1..Size - 1 /\ crossings[k][2] \in 1..Size
    BY CrossingTypes
  <2> QED BY <2>1, <2>2 DEF TInv, TypeOK, Before
<1> QED BY <1>1, <1>2, PedInvStep, TypesHold, PTL DEF Spec

-----------------------------------------------------------------------------
(***************************************************************************)
(* Where the converters look.                                              *)
(***************************************************************************)

\* What is read is an integer.
LEMMA CellTypes ==
    ASSUME TInv, pc # "idle", NEW g \in Int, NEW i \in Int
    PROVE  Cell(i, g) \in Int
  BY WaveTypes DEF Cell

\* So is whatever lies outside of the samples.
LEMMA AnythingTypes == ASSUME TInv, NEW g \in Anything PROVE g \in Int
<1>1. Levels[det] \subseteq Nat BY Constants DEF TInv
<1> QED BY <1>1 DEF Anything

\* getMaximum finds a place of the greatest value.
LEMMA MaxAtIsHighest ==
    ASSUME TInv, pc # "idle", NEW g \in Int, NEW lo \in Int, NEW hi \in Int, lo <= hi
    PROVE  /\ MaxAt(lo, hi, g) \in lo..hi
           /\ \A k \in lo..hi : Cell(k, g) <= Cell(MaxAt(lo, hi, g), g)
<1> DEFINE F == [i \in lo..hi |-> Cell(i, g)]
           S == {i \in lo..hi : \A k \in lo..hi : Cell(k, g) <= Cell(i, g)}
<1>1. F \in [lo..hi -> Int] BY CellTypes
<1>2. \E i \in lo..hi : \A k \in lo..hi : F[k] <= F[i]
  <2> HIDE DEF F
  <2> QED BY <1>1, HighestExists
<1>3. S # {} BY <1>2
<1>4. S \in SUBSET Int /\ \A i \in S : lo <= i OBVIOUS
<1>5. MaxAt(lo, hi, g) = First(S) BY DEF MaxAt
<1>6. First(S) \in S
  <2> HIDE DEF S
  <2> QED BY <1>3, <1>4, FirstIsLeast
<1> QED BY <1>5, <1>6

\* The highest sample.
LEMMA HighestIsSample == ASSUME TInv, pc # "idle" PROVE Highest \in Samples
<1>1. 0 \in Int /\ Size - 1 \in Int /\ 0 <= Size - 1 BY Constants
<1>2. MaxAt(0, Size - 1, 0) \in 0..Size - 1 BY <1>1, MaxAtIsHighest, Zenon
<1> QED BY <1>2 DEF Samples, Highest

\* The ranges that are limited to the samples.
LEMMA Ranges ==
    ASSUME NEW f \in Int, NEW a \in Int, NEW b \in Int
    PROVE  /\ FixedRange \subseteq Samples
           /\ NoiseRange \subseteq Samples
           /\ Larger(a, 0)..Smaller(b, Size - 1) \subseteq Samples
  BY Constants DEF FixedRange, NoiseRange, Larger, Smaller, Samples

\* The signals and the singles are crossings; the first of them is one.
LEMMA PulsesAreCrossings ==
    ASSUME TInv
    PROVE  /\ Signals \subseteq DOMAIN crossings /\ Singles \subseteq DOMAIN crossings
           /\ Signals # {} => First(Signals) \in Signals
           /\ Singles # {} => First(Singles) \in Singles
           /\ Singles # {} => 1 \in DOMAIN crossings
<1>1. Signals \subseteq DOMAIN crossings /\ Singles \subseteq DOMAIN crossings
  BY DEF Signals, Singles
<1>2. DOMAIN crossings \subseteq Nat /\ \A k \in DOMAIN crossings : 1 <= k BY DEF TInv
<1>3. \A k \in DOMAIN crossings : 1 \in DOMAIN crossings BY DEF TInv
<1>4. Signals # {} => First(Signals) \in Signals BY <1>1, <1>2, FirstIsLeast
<1>5. Singles # {} => First(Singles) \in Singles BY <1>1, <1>2, FirstIsLeast
<1> QED BY <1>1, <1>3, <1>4, <1>5

\* The maximum of a pulse is one of its samples and as high as any of them.
LEMMA PulseMaxIsHighest ==
    ASSUME TInv, CrossInv, pc # "idle", NEW k \in DOMAIN crossings
    PROVE  /\ PulseMax(k) \in Samples
           /\ crossings[k][1] <= PulseMax(k) /\ PulseMax(k) <= crossings[k][2]
           /\ \A i \in Samples : crossings[k][1] <= i /\ i <= crossings[k][2] =>
                                  wave[i] <= wave[PulseMax(k)]
<1> USE Constants
<1> DEFINE f == crossings[k][1]
           s == crossings[k][2]
           lo == PulseSpan(k)[1]
           hi == PulseSpan(k)[2]
<1>1. f \in -1..Size - 1 /\ s \in 1..Size /\ f < s BY CrossingTypes DEF CrossInv
<1>2. lo = Larger(f, 0) /\ hi = Smaller(s, Size - 1) BY DEF PulseSpan
<1>3. PulseMax(k) = MaxAt(lo, hi, 0) BY DEF PulseMax
<1> HIDE DEF f, s, lo, hi
<1>4. /\ lo \in 0..Size - 1 /\ hi \in 0..Size - 1 /\ lo <= hi /\ f <= lo /\ hi <= s
      /\ \A i \in Samples : f <= i /\ i <= s => i \in lo..hi
  BY <1>1, <1>2 DEF Larger, Smaller, Samples
<1>5. /\ PulseMax(k) \in lo..hi
      /\ \A i \in lo..hi : Cell(i, 0) <= Cell(PulseMax(k), 0)
  BY <1>3, <1>4, MaxAtIsHighest
<1>6. PulseMax(k) \in Samples BY <1>4, <1>5 DEF Samples
<1>7. \A i \in Samples : f <= i /\ i <= s => wave[i] <= wave[PulseMax(k)]
  BY <1>4, <1>5, <1>6 DEF Cell
<1>8. f <= PulseMax(k) /\ PulseMax(k) <= s BY <1>1, <1>4, <1>5
<1> QED BY <1>6, <1>7, <1>8 DEF f, s

\* The pulse whose charge the internal veto takes is as high as any other.
LEMMA HighestPulseIsHighest ==
    ASSUME TInv, CrossInv, pc # "idle", Singles # {}
    PROVE  /\ HighestPulse \in Singles
           /\ \A m \in Singles : wave[PulseMax(m)] <= wave[PulseMax(HighestPulse)]
<1> USE Constants
<1> DEFINE n == Len(crossings)
           F == [k \in 1..n |-> IF k \in Singles THEN wave[PulseMax(k)] ELSE -1]
           S == {k \in Singles : \A m \in Singles : wave[PulseMax(m)] <= wave[PulseMax(k)]}
<1>1. n \in Nat /\ DOMAIN crossings = 1..n BY DEF TInv
<1>2. \A k \in Singles : k \in 1..n /\ wave[PulseMax(k)] \in Nat
  BY <1>1, PulsesAreCrossings, PulseMaxIsHighest, WaveTypes
<1>3. F \in [1..n -> Int] /\ 1 <= n
  <2>1. \A k \in 1..n : F[k] \in Int BY <1>2
  <2>2. PICK k \in Singles : TRUE OBVIOUS
  <2>3. 1 <= n BY <1>1, <1>2, <2>2
  <2> QED BY <2>1, <2>3
<1>4. \A k \in 1..n : F[k] = IF k \in Singles THEN wave[PulseMax(k)] ELSE -1 OBVIOUS
<1>5. PICK i \in 1..n : \A k \in 1..n : F[k] <= F[i]
  <2> DEFINE one == 1
  <2>1. one \in Int /\ n \in Int /\ one <= n /\ F \in [one..n -> Int] BY <1>1, <1>3
  <2> HIDE DEF F, n, one
  <2>2. \E i \in one..n : \A k \in one..n : F[k] <= F[i] BY <2>1, HighestExists
  <2> QED BY <2>2 DEF one
<1> HIDE DEF F
<1>6. i \in Singles
  <2>1. PICK k \in Singles : TRUE OBVIOUS
  <2>2. F[k] >= 0 /\ F[k] <= F[i] /\ F[k] \in Int /\ F[i] \in Int
    BY <1>2, <1>3, <1>4, <1>5, <2>1
  <2> QED BY <1>4, <2>2
<1>7. i \in S BY <1>2, <1>4, <1>5, <1>6
<1>8. S \in SUBSET Int /\ \A k \in S : 1 <= k BY <1>1, <1>2
<1>9. HighestPulse = First(S) BY DEF HighestPulse
<1>10. First(S) \in S
  <2> DEFINE one == 1
  <2>1. one \in Int /\ \A k \in S : one <= k BY <1>8
  <2> HIDE DEF S, one
  <2> QED BY <1>7, <1>8, <2>1, FirstIsLeast
<1> QED BY <1>9, <1>10

\* The range of a photoelectron ends at most one sample too far, and
\* only when its pulse comes within NSA of the end.
LEMMA PheRangeInside ==
    ASSUME TInv, CrossInv, pc # "idle", NEW g \in Int, NEW k \in DOMAIN crossings
    PROVE  /\ PheRange(k, g) \subseteq 0..Size
           /\ crossings[k][2] < Size - NSA => PheRange(k, g) \subseteq Samples
<1> USE Constants
<1> DEFINE f == crossings[k][1]
           s == crossings[k][2]
           t == MaxAt(f, s, g)
<1>1. f \in -1..Size - 1 /\ s \in 1..Size /\ f < s BY CrossingTypes DEF CrossInv
<1>2. t \in f..s
  <2> HIDE DEF f, s
  <2>1. f \in Int /\ s \in Int /\ f <= s BY <1>1
  <2> QED BY <2>1, MaxAtIsHighest, Zenon
<1>3. PheRange(k, g) = Larger(t - NSB, 0)..(IF t + NSA > Size THEN Size - 1 ELSE t + NSA)
  BY DEF PheRange
<1> HIDE DEF f, s, t
<1>4. PheRange(k, g) \subseteq 0..Size BY <1>1, <1>2, <1>3 DEF Larger
<1>5. s < Size - NSA => PheRange(k, g) \subseteq 0..Size - 1 BY <1>1, <1>2, <1>3 DEF Larger
<1> QED BY <1>4, <1>5 DEF s, Samples

\* The search of the paddles for the zero crossing ends at most three samples
\* after the highest.
LEMMA CFReadsInside ==
    ASSUME TInv, pc # "idle", NEW g
    PROVE  CFReads(g) \subseteq 1..Highest + 3
<1> USE Constants
<1>1. Highest \in 0..Size - 1 BY HighestIsSample DEF Samples
<1> DEFINE top == Highest + 2
           neg == {i \in 1..top : CFSum(i, g) < 0}
           stop == CHOOSE i \in neg : \A k \in neg : k <= i
<1>2. CFReads(g) = IF neg = {} THEN 1..top ELSE stop..top \cup {stop + 1} BY DEF CFReads
<1>3. top \in Nat /\ neg \in SUBSET Int /\ \A i \in neg : 1 <= i /\ i <= top BY <1>1
<1> HIDE DEF neg, top
<1>4. neg # {} => stop \in neg
  <2> SUFFICES ASSUME neg # {} PROVE stop \in neg OBVIOUS
  <2>1. top \in Int /\ neg \in SUBSET Int /\ \A i \in neg : i <= top BY <1>3
  <2>2. \E x \in neg : \A y \in neg : y <= x BY <2>1, GreatestExists, Zenon
  <2> QED BY <2>2
<1>5. neg # {} => stop \in 1..top
  <2> HIDE DEF stop
  <2>1. \A i \in neg : i \in 1..top BY <1>3
  <2> QED BY <1>4, <2>1
<1> HIDE DEF stop
<1>6. top + 1 = Highest + 3 BY <1>1 DEF top
<1> QED BY <1>2, <1>3, <1>5, <1>6

\* A check of the internal veto's pedestal that comes near the end of a window
\* shorter than INTVETO:NPED.
NearEnd(c) ==
    INT_NPED >= Size /\ \E icheck \in 0..NRMSCHECKS - 1 :
        icheck * (Size \div NRMSCHECKS) + c[1] >= Size

ReadInv ==
    /\ pc \in Before => reads \subseteq Samples \/ (det = "intveto" /\ NearEnd(chan))
    /\ pc = "given" /\ det = "intveto" /\ out.tot = Unset => Singles = {}
    /\ ReadsInside

\* What a conversion reads, and which of its hits are made from a value that
\* was never set.
Looked(r) == r \subseteq Outskirts /\ (~(r \subseteq Samples) => AtTheEdge)

\* Looking at samples is looking inside.
LEMMA LookedInside == ASSUME NEW r, r \subseteq Samples PROVE Looked(r)
<1>1. Samples \subseteq Outskirts BY Constants, CheckConstants DEF Outskirts, Samples, Smaller
<1> QED BY <1>1 DEF Looked

\* Looking twice.
LEMMA LookedTwice == ASSUME NEW r, NEW q, Looked(r), Looked(q) PROVE Looked(r \cup q)
  BY DEF Looked

\* The calorimeter looks at a pulse and the sample before it.
LEMMA LookedAtPulse ==
    ASSUME TInv, CrossInv, det = "calorimeter", NEW k \in DOMAIN crossings
    PROVE  /\ Looked(crossings[k][1]..crossings[k][2])
           /\ Looked({crossings[k][1] - 1, crossings[k][1]})
           /\ Looked(TimeReads(crossings[k][1]))
           /\ crossings[k][1] - 1 = 0 => wave[1] > THR
<1> USE Constants
<1> DEFINE f == crossings[k][1]
           s == crossings[k][2]
<1>1. f \in -1..Size - 1 /\ s \in 1..Size /\ f < s /\ (f >= 0 => wave[f] > THR)
  BY CrossingTypes DEF CrossInv
<1>2. f \in {-1, 0} \/ s >= Size - NSA => AtTheEdge BY DEF AtTheEdge
<1>7. Outskirts = -2..Size + 2 BY DEF Outskirts
<1> HIDE DEF f, s
<1>3. Looked(f..s)
  <2>1. f..s \subseteq -2..Size + 2 BY <1>1
  <2>2. f # -1 /\ s < Size - NSA => f..s \subseteq Samples BY <1>1 DEF Samples
  <2>3. s < Size - NSA \/ s >= Size - NSA BY <1>1
  <2> QED BY <1>2, <1>7, <2>1, <2>2, <2>3 DEF Looked
<1>4. Looked({f - 1, f})
  <2>1. {f - 1, f} \subseteq -2..Size + 2 BY <1>1
  <2>2. f \notin {-1, 0} => {f - 1, f} \subseteq Samples BY <1>1 DEF Samples
  <2> QED BY <1>2, <1>7, <2>1, <2>2 DEF Looked
<1>5. Looked(TimeReads(f))
  <2>1. Looked({}) BY LookedInside
  <2> QED BY <1>4, <2>1 DEF TimeReads
<1>6. f - 1 = 0 => wave[1] > THR BY <1>1
<1> QED BY <1>3, <1>4, <1>5, <1>6 DEF f, s

\* The photoelectrons that are added up.
LEMMA LookedAtSingles ==
    ASSUME TInv, CrossInv, pc # "idle", det = "calorimeter", NEW g \in Int
    PROVE  Looked(SinglesSeen) /\ Looked(PheRanges(g))
<1> USE Constants
<1>1. \A k \in Singles : Looked(crossings[k][1]..crossings[k][2])
  BY PulsesAreCrossings, LookedAtPulse
<1>2. \A k \in Singles : Looked(PheRange(k, g))
  <2> TAKE k \in Singles
  <2>1. k \in DOMAIN crossings BY PulsesAreCrossings
  <2>2. crossings[k][2] \in 1..Size BY <2>1, CrossingTypes
  <2>3. /\ PheRange(k, g) \subseteq 0..Size
        /\ crossings[k][2] < Size - NSA => PheRange(k, g) \subseteq Samples
    BY <2>1, PheRangeInside
  <2>4. crossings[k][2] >= Size - NSA => AtTheEdge BY <2>1 DEF AtTheEdge
  <2>5. PheRange(k, g) \subseteq Outskirts BY <2>3 DEF Outskirts
  <2>6. crossings[k][2] < Size - NSA \/ crossings[k][2] >= Size - NSA BY <2>2
  <2> QED BY <2>3, <2>4, <2>5, <2>6 DEF Looked
<1>3. Looked(SinglesSeen) BY <1>1 DEF SinglesSeen, Looked
<1> QED BY <1>2, <1>3 DEF PheRanges, Looked

\* The pedestal search of the internal veto.
LEMMA CheckReadsInside ==
    ASSUME NEW c \in Channels("intveto"), NEW n \in 1..NRMSCHECKS
    PROVE  /\ CheckReads(c, n) \subseteq Smaller(0, Size - INT_NPED - 1)..Size - 1
           /\ CheckReads(c, n) \subseteq Samples \/ NearEnd(c)
<1> USE Constants, CheckConstants
<1>1. PICK m \in IntNPEDs : c = <<m>> BY DEF Channels
<1>2. m \in Nat /\ m <= INT_NPED /\ c[1] = m BY <1>1
<1>3. PICK step \in Nat : step = Size \div NRMSCHECKS OBVIOUS
<1>4. ASSUME NEW k \in 0..n - 1, NEW i \in CheckBegin(c, k)..CheckBegin(c, k) + m - 1
      PROVE  /\ i \in Smaller(0, Size - INT_NPED - 1)..Size - 1
             /\ i \in Samples \/ NearEnd(c)
  <2>1. k \in 0..NRMSCHECKS - 1 /\ k \in Nat OBVIOUS
  <2>2. PICK istart \in Nat : istart = k * step BY <1>3, <2>1
  <2>3. CheckBegin(c, k) = IF istart + m >= Size THEN Size - INT_NPED - 1 ELSE istart
    BY <1>2, <1>3, <2>2 DEF CheckBegin
  <2>4. INT_NPED >= Size /\ istart + m >= Size => NearEnd(c)
    BY <1>2, <1>3, <2>1, <2>2 DEF NearEnd
  <2>5. CASE istart + m >= Size
    <3>1. i \in Size - INT_NPED - 1..Size - INT_NPED - 1 + m - 1 BY <1>4, <2>3, <2>5
    <3>2. i \in Int /\ i >= Size - INT_NPED - 1 /\ i <= Size - 1 BY <1>2, <3>1
    <3> QED BY <1>2, <2>4, <2>5, <3>2 DEF Smaller, Samples
  <2>6. CASE istart + m < Size
    <3>1. i \in istart..istart + m - 1 BY <1>4, <2>2, <2>3, <2>6
    <3> QED BY <1>2, <2>2, <2>6, <3>1 DEF Smaller, Samples
  <2> QED BY <1>2, <2>2, <2>5, <2>6
<1>5. \A i \in CheckReads(c, n) : \E k \in 0..n - 1 :
          i \in CheckBegin(c, k)..CheckBegin(c, k) + m - 1
  BY <1>2 DEF CheckReads
<1> QED BY <1>4, <1>5

\* What is to be shown of a conversion.
LEMMA ReadInvGiven ==
    ASSUME TInv, ReadInv, Conversion, NEW r, reads' = reads \cup r, Looked(r),
           out'.garbage => det = "calorimeter" /\ wave[1] > THR,
           det = "intveto" /\ out'.tot = Unset => Singles = {}
    PROVE  ReadInv'
<1>1. /\ pc = "convert" /\ pc' = "given" /\ UNCHANGED <<det, chan, wave, crossings>>
  BY ConversionKeeps
<1>2. Looked(reads) BY <1>1 DEF ReadInv, ReadsInside, Looked
<1>3. Looked(reads \cup r) BY <1>2, LookedTwice
<1>4. (AtTheEdge <=> AtTheEdge') /\ Singles' = Singles
  <2>1. Highest' = Highest BY <1>1 DEF Highest, MaxAt, Cell, First
  <2>2. Signals' = Signals BY <1>1 DEF Signals, ToT
  <2>3. Singles' = Singles BY <1>1, <2>2 DEF Singles, ToT
  <2> QED BY <1>1, <2>1, <2>3 DEF AtTheEdge
<1>6. Outskirts' = Outskirts BY <1>1 DEF Outskirts
<1>5. ReadsInside' BY <1>1, <1>3, <1>4, <1>6 DEF ReadsInside, Looked
<1> QED BY <1>1, <1>4, <1>5 DEF ReadInv, Before

\* Conversions of the calorimeter,
LEMMA CaloReads ==
    ASSUME TInv, CrossInv, ReadInv, out = NewHit, Conversion,
           \/ CaloNoise \/ CaloSignal
           \/ \E g \in Anything : CaloOnePhe(g) \/ CaloManyPhe(g)
    PROVE  ReadInv'
<1> USE Constants
<1>1. pc = "convert" BY ConversionKeeps
<1>2. CASE CaloNoise
  <2>1. /\ reads' = reads \cup FixedRange /\ ~out'.garbage /\ det = "calorimeter"
    BY <1>2, CaloNoiseGives DEF Hit
  <2>2. FixedRange \subseteq Samples BY Ranges
  <2>3. Looked(FixedRange) BY <2>2, LookedInside
  <2> QED BY <2>1, <2>3, ReadInvGiven
<1>3. CASE CaloSignal
  <2>1. /\ reads' = reads \cup (SignalRange \cup Samples \cup TimeReads(SignalBegin))
        /\ out'.garbage = (SignalBegin - 1 = 0) /\ det = "calorimeter" /\ Signals # {}
    BY <1>3, CaloSignalGives DEF Hit
  <2>2. PICK k \in DOMAIN crossings : SignalBegin = crossings[k][1]
    BY <2>1, PulsesAreCrossings DEF SignalBegin
  <2>3. Looked(TimeReads(SignalBegin)) /\ (SignalBegin - 1 = 0 => wave[1] > THR)
    BY <2>1, <2>2, LookedAtPulse
  <2>4. SignalBegin \in Int BY <2>2, CrossingTypes
  <2>5. SignalRange \subseteq Samples
    <3>1. SignalBegin - NSB \in Int /\ SignalBegin - NSB + NSAMPLES \in Int BY <2>4
    <3> QED BY <3>1, Ranges DEF SignalRange
  <2>6. Looked(SignalRange \cup Samples) BY <2>5, LookedInside
  <2>7. Looked((SignalRange \cup Samples) \cup TimeReads(SignalBegin))
    BY <2>3, <2>6, LookedTwice
  <2> QED BY <2>1, <2>3, <2>7, ReadInvGiven
<1>4. ASSUME NEW g \in Anything, CaloOnePhe(g) PROVE ReadInv'
  <2> DEFINE f == crossings[1][1]
             s == crossings[1][2]
  <2>1. /\ det = "calorimeter" /\ Cardinality(Singles) = 1 /\ ~out'.garbage
        /\ \/ reads' = reads \cup (f..s \cup FixedRange)
           \/ reads' = reads \cup (f..s \cup Samples \cup {f - 1, f})
    BY <1>4, CaloOnePheGives DEF Hit
  <2>2. Singles # {}
    <3>1. Cardinality({}) = 0 BY FS_EmptySet
    <3> QED BY <2>1, <3>1
  <2>3. 1 \in DOMAIN crossings BY <2>2, PulsesAreCrossings
  <2>4. Looked(f..s) /\ Looked({f - 1, f}) BY <2>1, <2>3, LookedAtPulse
  <2>5. Looked(FixedRange) /\ Looked(Samples) BY Ranges, LookedInside
  <2>6. Looked(f..s \cup FixedRange) BY <2>4, <2>5, LookedTwice
  <2>7. Looked((f..s \cup Samples) \cup {f - 1, f}) BY <2>4, <2>5, LookedTwice
  <2> QED BY <2>1, <2>6, <2>7, ReadInvGiven
<1>5. ASSUME NEW g \in Anything, CaloManyPhe(g) PROVE ReadInv'
  <2>1. /\ det = "calorimeter" /\ Cardinality(Singles) > 1
        /\ out'.garbage = (SinglesBegin - 1 = 0)
        /\ reads' = reads \cup (SinglesSeen \cup TimeReads(SinglesBegin) \cup PheRanges(g))
    <3>1. PICK best : out' = Hit("many_phe", best, [k \in Singles |-> PheRange(k, g)],
                   IF SinglesBegin - 1 = 0 THEN <<>> ELSE <<SinglesBegin - 1, SinglesBegin>>,
                   Unset, Unset, SinglesBegin - 1 = 0)
      BY <1>5, CaloManyPheGives
    <3>2. out'.garbage = (SinglesBegin - 1 = 0) BY <3>1 DEF Hit
    <3>3. /\ det = "calorimeter" /\ Cardinality(Singles) > 1
          /\ reads' = reads \cup (SinglesSeen \cup TimeReads(SinglesBegin) \cup PheRanges(g))
      BY <1>5, CaloManyPheGives
    <3> QED BY <3>2, <3>3
  <2>2. Singles # {}
    <3>1. Cardinality({}) = 0 BY FS_EmptySet
    <3> QED BY <2>1, <3>1
  <2>3. PICK k \in DOMAIN crossings : SinglesBegin = crossings[k][1]
    BY <2>2, PulsesAreCrossings DEF SinglesBegin
  <2>4. Looked(TimeReads(SinglesBegin)) /\ (SinglesBegin - 1 = 0 => wave[1] > THR)
    BY <2>1, <2>3, LookedAtPulse
  <2>5. Looked(SinglesSeen) /\ Looked(PheRanges(g)) BY <1>1, <2>1, AnythingTypes, LookedAtSingles
  <2>6. Looked((SinglesSeen \cup TimeReads(SinglesBegin)) \cup PheRanges(g)) BY <2>4, <2>5, LookedTwice
  <2> QED BY <2>1, <2>4, <2>6, ReadInvGiven
<1> QED BY <1>2, <1>3, <1>4, <1>5

\* the vetoes,
LEMMA VetoReads ==
    ASSUME TInv, CrossInv, ReadInv, out = NewHit, Conversion,
           IntNoise \/ IntSignal \/ ExtNothing \/ PaddleNothing \/ ExtPulse
    PROVE  ReadInv'
<1> USE Constants
<1>1. pc = "convert" BY ConversionKeeps
<1>2. CASE IntNoise
  <2>1. reads' = reads \cup (NoiseRange \cup Samples) /\ ~out'.garbage /\ Singles = {}
    BY <1>2, IntNoiseGives DEF Hit
  <2>2. NoiseRange \cup Samples \subseteq Samples BY Ranges
  <2>3. Looked(NoiseRange \cup Samples) BY <2>2, LookedInside
  <2> QED BY <2>1, <2>3, ReadInvGiven
<1>3. CASE IntSignal
  <2>1. /\ reads' = reads \cup (PulseRange \cup Samples \cup PulseSpans) /\ ~out'.garbage
        /\ out'.tot = TimeOverThreshold /\ Singles # {}
    BY <1>3, IntSignalGives DEF Hit
  <2>2. out'.tot # Unset BY <2>1 DEF TimeOverThreshold, Unset
  <2>3. \A k \in Singles : PulseSpan(k)[1]..PulseSpan(k)[2] \subseteq Samples
    <3> TAKE k \in Singles
    <3>1. crossings[k][1] \in Int /\ crossings[k][2] \in Int
      BY PulsesAreCrossings, CrossingTypes
    <3>2. /\ PulseSpan(k)[1] = Larger(crossings[k][1], 0)
          /\ PulseSpan(k)[2] = Smaller(crossings[k][2], Size - 1)
      BY DEF PulseSpan
    <3> QED BY <3>1, <3>2, Ranges
  <2>4. PulseSpans \subseteq Samples BY <2>3 DEF PulseSpans
  <2>5. PulseRange \subseteq Samples
    <3>1. PulseMax(HighestPulse) \in Samples
      BY <1>1, <2>1, HighestPulseIsHighest, PulseMaxIsHighest, PulsesAreCrossings
    <3>2. PulseMax(HighestPulse) - NSA \in Int /\ PulseMax(HighestPulse) + NSB \in Int
      BY <3>1 DEF Samples
    <3> QED BY <3>2, Ranges DEF PulseRange
  <2>6. Looked(PulseRange \cup Samples \cup PulseSpans) BY <2>4, <2>5, LookedInside
  <2> QED BY <2>1, <2>2, <2>6, ReadInvGiven
<1>4. CASE ExtNothing \/ PaddleNothing
  <2>1. reads' = reads \cup Samples /\ ~out'.garbage /\ det # "intveto"
    BY <1>4, NothingGives DEF Hit
  <2>2. Looked(Samples) BY LookedInside
  <2> QED BY <2>1, <2>2, ReadInvGiven
<1>5. CASE ExtPulse
  <2>1. PICK q : \/ /\ WithOwn(q, <<ExtBegin - 1, ExtBegin>>)
                    /\ ReadsAlso(ExtPedestal(ExtBegin) \cup Samples)
                 \/ /\ WithOld(q, <<ExtBegin - 1, ExtBegin>>)
                    /\ ReadsAlso(Samples)
    BY <1>5, ExtPulseGives
  <2>2. det = "extveto" /\ ExtOver # {} BY <1>5, ExtPulseGives
  <2>3. ~out'.garbage BY <2>1 DEF WithOwn, WithOld, Hit
  <2>4. ExtPedestal(ExtBegin) \subseteq Samples BY <1>1, <2>2, BelowBefore
  <2>5. Looked(ExtPedestal(ExtBegin) \cup Samples) /\ Looked(Samples) BY <2>4, LookedInside
  <2> QED BY <2>1, <2>2, <2>3, <2>5, ReadInvGiven DEF ReadsAlso
<1> QED BY <1>2, <1>3, <1>4, <1>5

\* and the paddles.
LEMMA PaddleReads ==
    ASSUME TInv, ReadInv, out = NewHit, Conversion, NEW g \in Anything, PaddlePulse(g)
    PROVE  ReadInv'
<1> USE Constants
<1>1. pc = "convert" BY ConversionKeeps
<1>2. /\ det = "paddles"
      /\ \/ ReadsAlso(Samples \cup PaddleCF(g))
         \/ ReadsAlso(0..Nsamples - 1 \cup (Samples \cup PaddleCF(g)))
  BY PaddlePulseGives
<1>3. ~out'.garbage
  <2>1. WithOwn(Samples, <<PaddleBegin>>) \/ WithOld(Samples, <<PaddleBegin>>)
    BY PaddlePulseGives
  <2> QED BY <2>1 DEF WithOwn, WithOld, Hit
<1>4. Looked(PaddleCF(g))
  <2>1. CFReads(g) \subseteq 1..Highest + 3 /\ Highest \in 0..Size - 1
    BY <1>1, CFReadsInside, HighestIsSample DEF Samples
  <2>2. PaddleCF(g) \subseteq 1..Highest + 3 BY <2>1 DEF PaddleCF
  <2>3. 1..Highest + 3 \subseteq Outskirts BY <1>2, <2>1 DEF Outskirts
  <2>4. ~(Highest >= Size - 3) => 1..Highest + 3 \subseteq Samples BY <2>1 DEF Samples
  <2>5. Highest >= Size - 3 => AtTheEdge BY <1>2 DEF AtTheEdge
  <2> QED BY <2>2, <2>3, <2>4, <2>5 DEF Looked
<1>5. Looked(Samples) /\ Looked(0..Nsamples - 1)
  <2>1. 0..Nsamples - 1 \subseteq Samples BY DEF Samples
  <2> QED BY <2>1, LookedInside
<1>6. Looked(Samples \cup PaddleCF(g)) BY <1>4, <1>5, LookedTwice
<1>7. Looked(0..Nsamples - 1 \cup (Samples \cup PaddleCF(g))) BY <1>5, <1>6, LookedTwice
<1> QED BY <1>2, <1>3, <1>6, <1>7, ReadInvGiven DEF ReadsAlso

\* Every step preserves ReadInv.
LEMMA ReadInvStep == TInv /\ CrossInv /\ ReadInv /\ [Next]_vars => ReadInv'
<1> SUFFICES ASSUME TInv, CrossInv, ReadInv, [Next]_vars PROVE ReadInv' OBVIOUS
<1> USE Constants
<1>1. ASSUME pc' \in Before, reads' \subseteq Samples, out' = NewHit PROVE ReadInv'
  <2>1. reads' \subseteq Outskirts' BY <1>1, CheckConstants DEF Samples, Outskirts, Smaller
  <2>2. ~out'.garbage BY <1>1 DEF NewHit
  <2> QED BY <1>1, <2>1, <2>2 DEF ReadInv, ReadsInside, Before
<1>10. ASSUME pc' \in Before, out' = NewHit, det' = "intveto", NearEnd(chan'),
              reads' \subseteq Smaller(0, Size - INT_NPED - 1)..Size - 1
       PROVE  ReadInv'
  <2>1. reads' \subseteq Outskirts' BY <1>10 DEF Outskirts
  <2>2. ~out'.garbage BY <1>10 DEF NewHit
  <2>3. AtTheEdge' BY <1>10 DEF AtTheEdge, NearEnd
  <2> QED BY <1>10, <2>1, <2>2, <2>3 DEF ReadInv, ReadsInside, Before, NearEnd
<1>11. ASSUME pc \in Before, pc' \in Before, out' = NewHit, UNCHANGED <<det, chan, reads>>
       PROVE  ReadInv'
  <2>1. CASE reads \subseteq Samples BY <1>1, <1>11, <2>1
  <2>2. CASE det = "intveto" /\ NearEnd(chan)
    <3>1. reads \subseteq Smaller(0, Size - INT_NPED - 1)..Size - 1
      BY <2>2 DEF ReadInv, ReadsInside, Outskirts
    <3> QED BY <1>10, <1>11, <2>2, <3>1
  <2> QED BY <1>11, <2>1, <2>2 DEF ReadInv
<1>2. ASSUME NEW c \in Channels(det), NEW w \in [Samples -> Levels[det]], NextHit(c, w)
      PROVE  ReadInv'
  <2>1. /\ pc' \in Before /\ out' = NewHit /\ det' = det /\ chan' = c
        /\ \/ reads' \in {0..NPED - 1, {}}
           \/ det = "intveto" /\ \E n \in 1..NRMSCHECKS : reads' = CheckReads(c, n)
    BY <1>2 DEF NextHit, Before
  <2>2. 0..NPED - 1 \subseteq Samples BY DEF Samples
  <2>3. ASSUME det = "intveto", NEW n \in 1..NRMSCHECKS, reads' = CheckReads(c, n)
        PROVE  ReadInv'
    <3>1. /\ reads' \subseteq Smaller(0, Size - INT_NPED - 1)..Size - 1
          /\ reads' \subseteq Samples \/ NearEnd(c)
      BY <2>3, CheckReadsInside
    <3> QED BY <1>1, <1>10, <2>1, <2>3, <3>1
  <2> QED BY <1>1, <2>1, <2>2, <2>3
<1>3. CASE ScanSample \/ EndScan
  <2>1. /\ pc \in Before /\ pc' \in Before /\ out' = NewHit
        /\ UNCHANGED <<det, chan, reads>>
    BY <1>3 DEF ScanSample, EndScan, Before, TInv
  <2> QED BY <1>11, <2>1
<1>4. CASE Conversion
  <2>1. out = NewHit BY <1>4, ConversionKeeps DEF TInv, Before
  <2>2. CASE \/ CaloNoise \/ CaloSignal
             \/ \E g \in Anything : CaloOnePhe(g) \/ CaloManyPhe(g)
    BY <1>4, <2>1, <2>2, CaloReads
  <2>3. CASE IntNoise \/ IntSignal \/ ExtNothing \/ PaddleNothing \/ ExtPulse
    BY <1>4, <2>1, <2>3, VetoReads
  <2>4. CASE \E g \in Anything : PaddlePulse(g) BY <1>4, <2>1, <2>4, PaddleReads
  <2> QED BY <1>4, <2>2, <2>3, <2>4 DEF Conversion
<1>5. CASE PedestalMissing \/ FillPedestal \/ PedestalThere
  <2>1. /\ pc \in Before /\ pc' \in Before /\ out' = NewHit
        /\ UNCHANGED <<det, chan, reads>>
    BY <1>5 DEF PedestalMissing, FillPedestal, PedestalThere, Before, TInv
  <2> QED BY <1>11, <2>1
<1>6. ASSUME NEW c \in Channels(det), OtherThread(c) PROVE ReadInv'
  <2>1. /\ pc \in Before /\ pc' \in Before /\ out' = NewHit
        /\ UNCHANGED <<det, chan, reads>>
    BY <1>6 DEF OtherThread, Before, TInv
  <2> QED BY <1>11, <2>1
<1>7. CASE Publish
  <2>1. /\ \/ out'.garbage = out.garbage
           \/ det = "intveto" /\ out.tot = Unset
        /\ pc = "given" /\ pc' = "published" /\ UNCHANGED <<det, chan, wave, crossings, reads>>
    BY <1>7, PublishGives DEF TInv
  <2>2. (AtTheEdge <=> AtTheEdge') /\ Singles' = Singles
    <3>1. Highest' = Highest BY <2>1 DEF Highest, MaxAt, Cell, First
    <3>2. Signals' = Signals BY <2>1 DEF Signals, ToT
    <3>3. Singles' = Singles BY <2>1, <3>2 DEF Singles, ToT
    <3> QED BY <2>1, <3>1, <3>3 DEF AtTheEdge
  <2>4. Outskirts' = Outskirts BY <2>1 DEF Outskirts
  <2>3. ReadsInside' BY <2>1, <2>2, <2>4 DEF ReadInv, ReadsInside
  <2> QED BY <2>1, <2>3 DEF ReadInv, Before
<1>8. CASE Forget
  <2>1. pc' \in Before /\ reads' = {} /\ out' = NewHit BY <1>8 DEF Forget, Before
  <2> QED BY <1>1, <2>1
<1>9. CASE UNCHANGED vars
  <2>1. /\ (AtTheEdge <=> AtTheEdge') /\ Singles' = Singles
        /\ UNCHANGED <<pc, det, chan, wave, crossings, out, reads>>
    BY <1>9 DEF vars, AtTheEdge, Singles, Signals, ToT, Highest, MaxAt, Cell, First
  <2> QED BY <2>1 DEF ReadInv, ReadsInside, Outskirts, NearEnd
<1> QED BY <1>2, <1>3, <1>4, <1>5, <1>6, <1>7, <1>8, <1>9, Steps

\* A converter looks outside of the samples only for pulses at the edge of the
\* window, and then at most two samples before and three after them, or in the
\* pedestal search of the internal veto when the window is shorter than
\* INTVETO:NPED; times that were never set come out only for the pulses named
\* in ReadsInside.
THEOREM ReadsAreInside == Spec => []ReadsInside
<1>1. Init => ReadInv
  <2> SUFFICES ASSUME Init PROVE ReadInv OBVIOUS
  <2>1. pc = "idle" /\ reads = {} /\ ~out.garbage BY DEF Init, NewHit
  <2> QED BY <2>1 DEF ReadInv, ReadsInside
<1>2. TInv /\ CrossInv /\ ReadInv /\ [Next]_vars => ReadInv' BY ReadInvStep
<1>3. ScanInv => TInv /\ CrossInv BY DEF ScanInv
<1>4. ReadInv => ReadsInside BY DEF ReadInv
<1> QED BY <1>1, <1>2, <1>3, <1>4, ScanHolds, PTL DEF Spec

-----------------------------------------------------------------------------
(***************************************************************************)
(* A hit and its pulse.                                                    *)
(***************************************************************************)
Rises == {i \in 1..Size - 1 : wave[i] >= TOTTHR /\ wave[i - 1] < TOTTHR}
Falls == {i \in 1..Size - 1 : wave[i] < TOTTHR /\ wave[i - 1] >= TOTTHR}

\* The last of a set of places, or 0.
Last(S) == IF S = {} THEN 0 ELSE CHOOSE i \in S : \A k \in S : k <= i

\* It is a place of the set, none of which comes later.
LEMMA LastPlace ==
    ASSUME NEW S \in SUBSET (1..Size - 1)
    PROVE  Last(S) \in 0..Size - 1 /\ (Last(S) > 0 => Last(S) \in S) /\ \A k \in S : k <= Last(S)
<1> USE Constants
<1>1. CASE S = {} BY <1>1 DEF Last
<1>2. CASE S # {}
  <2> DEFINE b == Size - 1
  <2>1. b \in Int /\ S \in SUBSET Int /\ \A i \in S : i <= b OBVIOUS
  <2>2. \E i \in S : \A k \in S : k <= i
    <3> HIDE DEF b
    <3> QED BY <1>2, <2>1, GreatestExists
  <2>3. Last(S) \in S /\ \A k \in S : k <= Last(S) BY <1>2, <2>2 DEF Last
  <2>4. \A i \in S : i \in 0..Size - 1 OBVIOUS
  <2>5. Last(S) \in 0..Size - 1 BY <2>3, <2>4
  <2> QED BY <2>3, <2>5, Zenon
<1> QED BY <1>1, <1>2

\* Between the last rise and the last fall the amplitude never falls below the
\* threshold: it would have to rise again before it falls for the last time.
LEMMA TotIsOfOnePulse ==
    ASSUME TInv, pc # "idle"
    PROVE  /\ \A i \in TimeOverThreshold[1]..TimeOverThreshold[2] - 1 : wave[i] >= TOTTHR
           /\ TimeOverThreshold[1] > TimeOverThreshold[2] =>
                 /\ TimeOverThreshold = <<1, 0>>
                 /\ \A i \in 1..Size - 1 : wave[i] >= TOTTHR
<1> USE Constants
<1> DEFINE a == LastRise
           b == LastFall
<1>1. a \in 0..Size - 1 /\ (a > 0 => a \in Rises) /\ \A k \in Rises : k <= a
  <2>1. Rises \in SUBSET (1..Size - 1) BY DEF Rises
  <2>2. a = Last(Rises) BY DEF LastRise, Rises, Last
  <2> HIDE DEF a
  <2> QED BY <2>1, <2>2, LastPlace
<1>2. b \in 0..Size - 1 /\ (b > 0 => b \in Falls) /\ \A k \in Falls : k <= b
  <2>1. Falls \in SUBSET (1..Size - 1) BY DEF Falls
  <2>2. b = Last(Falls) BY DEF LastFall, Falls, Last
  <2> HIDE DEF b
  <2> QED BY <2>1, <2>2, LastPlace
<1>3. \/ TimeOverThreshold = <<0, 0>>
      \/ TimeOverThreshold = <<a, b>> /\ a < b
      \/ TimeOverThreshold = <<a, b>> /\ a = 1 /\ b = 0
  <2>1. \/ TimeOverThreshold = <<0, 0>>
        \/ /\ TimeOverThreshold = <<a, b>>
           /\ \/ a > 0 /\ (b = a + 1 \/ b > a + 1)
              \/ a = 1 /\ b = 0
              \/ a = 0 /\ (b > 2 \/ b = 2)
    BY DEF TimeOverThreshold
  <2> HIDE DEF a, b
  <2> QED BY <1>1, <1>2, <2>1
<1> HIDE DEF a, b
<1>4. CASE TimeOverThreshold = <<0, 0>> BY <1>4
<1>5. ASSUME TimeOverThreshold = <<a, b>>, a < b, NEW i \in a..b - 1 PROVE wave[i] >= TOTTHR
  <2> SUFFICES ASSUME ~(wave[i] >= TOTTHR) PROVE FALSE OBVIOUS
  <2>1. b \in Falls /\ i \in Nat /\ i <= b - 1 /\ a <= i BY <1>1, <1>2, <1>5
  <2>2. b \in 1..Size - 1 /\ wave[b - 1] >= TOTTHR BY <2>1 DEF Falls
  <2> DEFINE T == {j \in Nat : i < j /\ j <= b - 1 /\ wave[j] >= TOTTHR}
  <2>3. b - 1 \in T
    <3>1. b - 1 # i BY <2>2
    <3> QED BY <2>1, <2>2, <3>1
  <2>4. PICK j \in T : \A m \in T : j <= m
    <3>1. T \in SUBSET Nat /\ T # {} BY <2>3
    <3> HIDE DEF T
    <3> QED BY <3>1, LeastExists
  <2>5. j \in Nat /\ i < j /\ j <= b - 1 /\ wave[j] >= TOTTHR BY <2>4
  <2>6. j \in 1..Size - 1 /\ j - 1 \in Samples /\ j - 1 >= i BY <2>1, <2>2, <2>5 DEF Samples
  <2>7. j - 1 \notin T
    <3>1. j - 1 \in T => j <= j - 1 BY <2>4
    <3> HIDE DEF T
    <3> QED BY <2>5, <3>1
  <2>8. wave[j - 1] < TOTTHR
    <3>1. wave[j - 1] \in Nat BY <2>6, WaveTypes
    <3>2. CASE j - 1 = i BY <3>1, <3>2
    <3>3. CASE j - 1 # i
      <4>1. j - 1 \in Nat /\ i < j - 1 /\ j - 1 <= b - 1 BY <2>1, <2>2, <2>5, <2>6, <3>3
      <4>2. ~(wave[j - 1] >= TOTTHR) BY <2>7, <4>1
      <4> QED BY <3>1, <4>2
    <3> QED BY <3>2, <3>3
  <2>9. j \in Rises BY <2>5, <2>6, <2>8 DEF Rises
  <2> QED BY <1>1, <2>1, <2>5, <2>9
<1>6. ASSUME a = 1, b = 0, NEW i \in 1..Size - 1 PROVE wave[i] >= TOTTHR
  <2> SUFFICES ASSUME ~(wave[i] >= TOTTHR) PROVE FALSE OBVIOUS
  <2>1. a \in Rises BY <1>1, <1>6
  <2>2. wave[1] >= TOTTHR BY <1>6, <2>1 DEF Rises
  <2> DEFINE T == {j \in Nat : 1 <= j /\ j <= i /\ wave[j] < TOTTHR}
  <2>3. i \in T BY <1>6, WaveTypes DEF Samples
  <2>4. PICK j \in T : \A m \in T : j <= m
    <3>1. T \in SUBSET Nat /\ T # {} BY <2>3
    <3> HIDE DEF T
    <3> QED BY <3>1, LeastExists
  <2>5. j \in Nat /\ 1 <= j /\ j <= i /\ wave[j] < TOTTHR BY <2>4
  <2>6. j # 1 /\ wave[1] \in Nat BY <2>2, <2>5, WaveTypes DEF Samples
  <2>7. j \in 1..Size - 1 /\ j - 1 \in Samples /\ j - 1 >= 1 BY <1>6, <2>5, <2>6 DEF Samples
  <2>8. j - 1 \notin T
    <3>1. j - 1 \in T => j <= j - 1 BY <2>4
    <3> HIDE DEF T
    <3> QED BY <2>5, <3>1
  <2>9. wave[j - 1] >= TOTTHR
    <3>1. wave[j - 1] \in Nat BY <2>7, WaveTypes
    <3>2. j - 1 \in Nat /\ j - 1 <= i BY <1>6, <2>5, <2>7
    <3>3. ~(wave[j - 1] < TOTTHR) BY <2>7, <2>8, <3>2
    <3> QED BY <3>1, <3>3
  <2>10. j \in Falls BY <2>5, <2>7, <2>9 DEF Falls
  <2> QED BY <1>2, <1>6, <2>5, <2>10
<1>7. CASE TimeOverThreshold = <<a, b>> /\ a < b BY <1>1, <1>2, <1>5, <1>7
<1>8. CASE TimeOverThreshold = <<a, b>> /\ a = 1 /\ b = 0 BY <1>6, <1>8
<1> QED BY <1>3, <1>4, <1>7, <1>8

\* The hit of the internal veto has the amplitude of the highest pulse, which is
\* among the samples summed.
LEMMA ChargeIsOfHighestPulse ==
    ASSUME TInv, CrossInv, pc # "idle", Singles # {}
    PROVE  /\ PulseMax(HighestPulse) \in PulseRange
           /\ \A k \in Singles : \A i \in Samples :
                 crossings[k][1] <= i /\ i < crossings[k][2] =>
                     wave[i] <= wave[PulseMax(HighestPulse)]
<1> USE Constants
<1>1. PulseMax(HighestPulse) \in Samples
  BY HighestPulseIsHighest, PulseMaxIsHighest, PulsesAreCrossings
<1>2. PulseMax(HighestPulse) \in PulseRange BY <1>1 DEF PulseRange, Larger, Smaller, Samples
<1>3. ASSUME NEW k \in Singles, NEW i \in Samples,
             crossings[k][1] <= i, i < crossings[k][2]
      PROVE  wave[i] <= wave[PulseMax(HighestPulse)]
  <2>1. k \in DOMAIN crossings /\ crossings[k][2] \in Int BY PulsesAreCrossings, CrossingTypes
  <2>2. i <= crossings[k][2] BY <1>3, <2>1 DEF Samples
  <2>3. PulseMax(k) \in Samples /\ wave[i] <= wave[PulseMax(k)]
    BY <1>3, <2>1, <2>2, PulseMaxIsHighest
  <2>4. wave[PulseMax(k)] <= wave[PulseMax(HighestPulse)] BY <1>3, HighestPulseIsHighest
  <2>5. /\ wave[i] \in Nat /\ wave[PulseMax(k)] \in Nat
        /\ wave[PulseMax(HighestPulse)] \in Nat
    BY <1>1, <2>3, WaveTypes
  <2> QED BY <2>3, <2>4, <2>5
<1> QED BY <1>2, <1>3

\* getMaximum finds the first of the places of the greatest value.
LEMMA MaxAtIsFirst ==
    ASSUME TInv, pc # "idle", NEW g \in Int, NEW lo \in Int, NEW hi \in Int,
           NEW i \in lo..hi, \A k \in lo..hi : Cell(k, g) <= Cell(i, g)
    PROVE  MaxAt(lo, hi, g) <= i
<1> DEFINE S == {j \in lo..hi : \A k \in lo..hi : Cell(k, g) <= Cell(j, g)}
<1>1. i \in S OBVIOUS
<1>2. S \in SUBSET Int /\ \A j \in S : lo <= j OBVIOUS
<1>3. MaxAt(lo, hi, g) = First(S) BY DEF MaxAt
<1>4. \A m \in S : First(S) <= m
  <2> HIDE DEF S
  <2> QED BY <1>1, <1>2, FirstIsLeast
<1> QED BY <1>1, <1>3, <1>4

PheMax(k, g) == MaxAt(crossings[k][1], crossings[k][2], g)

\* The maximum of a photoelectron is that of its pulse when nothing outside of
\* the samples is looked at.
LEMMA PheMaxOfPulse ==
    ASSUME TInv, CrossInv, pc # "idle", NEW g \in Int, NEW k \in DOMAIN crossings,
           crossings[k][2] < Size
    PROVE  PheMax(k, g) = PulseMax(k)
<1> USE Constants
<1> DEFINE f == crossings[k][1]
           s == crossings[k][2]
<1>1. f \in -1..Size - 1 /\ s \in 1..Size /\ f < s /\ s < Size /\ f >= 0
  BY CrossingTypes DEF CrossInv
<1>2. PheMax(k, g) = MaxAt(f, s, g) /\ PulseMax(k) = MaxAt(Larger(f, 0), Smaller(s, Size - 1), 0)
  BY DEF PheMax, PulseMax, PulseSpan
<1> HIDE DEF f, s
<1>3. Larger(f, 0) = f /\ Smaller(s, Size - 1) = s BY <1>1 DEF Larger, Smaller
<1>4. \A i \in f..s : Cell(i, g) = Cell(i, 0) BY <1>1 DEF Cell, Samples
<1>5. MaxAt(f, s, g) = MaxAt(f, s, 0)
  <2>1. {i \in f..s : \A n \in f..s : Cell(n, g) <= Cell(i, g)}
          = {i \in f..s : \A n \in f..s : Cell(n, 0) <= Cell(i, 0)}
    BY <1>4
  <2> QED BY <2>1 DEF MaxAt
<1> QED BY <1>2, <1>3, <1>5

\* Samples are summed for two photoelectrons exactly if they are near.
LEMMA PheRangesShared ==
    ASSUME TInv, CrossInv, pc # "idle", NEW g \in Int,
           NEW k \in DOMAIN crossings, NEW m \in DOMAIN crossings,
           crossings[k][2] < Size, crossings[m][2] < Size, PulseMax(k) < PulseMax(m)
    PROVE  PheRange(k, g) \cap PheRange(m, g) # {} <=> PulseMax(m) - PulseMax(k) <= NSB + NSA
<1> USE Constants
<1> DEFINE a == PulseMax(k)
           b == PulseMax(m)
<1>1. a \in 0..Size - 1 /\ b \in 0..Size - 1 /\ a < b
  BY PulseMaxIsHighest DEF Samples
<1>2. PheMax(k, g) = a /\ PheMax(m, g) = b BY PheMaxOfPulse
<1>3. /\ PheRange(k, g) = Larger(a - NSB, 0)..(IF a + NSA > Size THEN Size - 1 ELSE a + NSA)
      /\ PheRange(m, g) = Larger(b - NSB, 0)..(IF b + NSA > Size THEN Size - 1 ELSE b + NSA)
  BY <1>2 DEF PheRange, PheMax
<1> HIDE DEF a, b
<1>4. ASSUME b - a <= NSB + NSA PROVE Larger(b - NSB, 0) \in PheRange(k, g) \cap PheRange(m, g)
  BY <1>1, <1>3, <1>4 DEF Larger
<1>5. ASSUME b - a > NSB + NSA PROVE PheRange(k, g) \cap PheRange(m, g) = {}
  BY <1>1, <1>3, <1>5 DEF Larger
<1>6. b - a <= NSB + NSA \/ b - a > NSB + NSA BY <1>1
<1>7. b - a > NSB + NSA => ~(b - a <= NSB + NSA) BY <1>1
<1> QED BY <1>4, <1>5, <1>6, <1>7 DEF a, b

\* A conversion gives the hit of its pulses.
LEMMA ConversionOfItsPulse ==
    ASSUME TInv, CrossInv, Conversion
    PROVE  HitOfItsPulse'
<1> USE Constants
<1>1. /\ pc = "convert" /\ pc' = "given" /\ out = NewHit
      /\ UNCHANGED <<det, chan, wave, ii, first, crossings>>
  BY ConversionKeeps DEF TInv, Before
<1>2. ASSUME out'.tot = Unset, out'.kind \notin {"many_phe"}, det # "intveto" \/ out'.kind # "real_signal"
      PROVE  HitOfItsPulse'
  BY <1>1, <1>2 DEF HitOfItsPulse, ChargeOfHighestPulse, TotOfOnePulse, SharedIfNear
<1>3. Singles' = Singles
  <2>1. Signals' = Signals BY <1>1 DEF Signals, ToT
  <2> QED BY <1>1, <2>1 DEF Singles, ToT
<1>4. CASE CaloNoise
  <2>1. out'.tot = Unset /\ out'.kind = "noise" BY <1>1, <1>4, CaloNoiseGives DEF Hit
  <2> QED BY <1>2, <2>1
<1>5. CASE CaloSignal
  <2>1. out'.tot = Unset /\ out'.kind = "real_signal" /\ det = "calorimeter"
    BY <1>1, <1>5, CaloSignalGives DEF Hit
  <2> QED BY <1>2, <2>1
<1>6. ASSUME NEW g \in Anything, CaloOnePhe(g) PROVE HitOfItsPulse'
  <2>1. out'.tot = Unset /\ out'.kind \in {"one_phe", "good_one_phe"}
    BY <1>1, <1>6, CaloOnePheGives DEF Hit
  <2> QED BY <1>2, <2>1
<1>7. ASSUME NEW g \in Anything, CaloManyPhe(g) PROVE HitOfItsPulse'
  <2>1. PICK best : out' = Hit("many_phe", best, [k \in Singles |-> PheRange(k, g)],
                 IF SinglesBegin - 1 = 0 THEN <<>> ELSE <<SinglesBegin - 1, SinglesBegin>>,
                 Unset, Unset, SinglesBegin - 1 = 0)
    BY <1>1, <1>7, CaloManyPheGives
  <2>2. /\ out'.kind = "many_phe" /\ out'.tot = Unset
        /\ out'.Q = [k \in Singles |-> PheRange(k, g)]
    BY <2>1 DEF Hit
  <2>3. \A k \in DOMAIN crossings : PulseMax(k)' = PulseMax(k)
    BY <1>1 DEF PulseMax, PulseSpan, MaxAt, Cell, First
  <2>4. ASSUME NEW k \in Singles, NEW m \in Singles, crossings[k][2] < Size,
               crossings[m][2] < Size, PulseMax(k) < PulseMax(m)
        PROVE  out'.Q[k] \cap out'.Q[m] # {} <=> PulseMax(m) - PulseMax(k) <= NSB + NSA
    <3>1. g \in Int /\ k \in DOMAIN crossings /\ m \in DOMAIN crossings
      BY <1>1, AnythingTypes, PulsesAreCrossings
    <3>2. PheRange(k, g) \cap PheRange(m, g) # {} <=> PulseMax(m) - PulseMax(k) <= NSB + NSA
      BY <1>1, <2>4, <3>1, PheRangesShared
    <3>3. out'.Q[k] = PheRange(k, g) /\ out'.Q[m] = PheRange(m, g) BY <2>2
    <3> QED BY <3>2, <3>3
  <2>5. Singles \subseteq DOMAIN crossings BY PulsesAreCrossings
  <2>6. SharedIfNear' BY <1>1, <1>3, <2>3, <2>4, <2>5 DEF SharedIfNear
  <2>7. ChargeOfHighestPulse' /\ TotOfOnePulse' BY <2>2 DEF ChargeOfHighestPulse, TotOfOnePulse
  <2> QED BY <2>6, <2>7 DEF HitOfItsPulse
<1>8. CASE IntNoise
  <2>1. out'.tot = Unset /\ out'.kind = "noise" BY <1>1, <1>8, IntNoiseGives DEF Hit
  <2> QED BY <1>2, <2>1
<1>9. CASE IntSignal
  <2>1. out' = Hit("real_signal", wave[PulseMax(HighestPulse)], <<PulseRange>>, <<Highest>>,
                   TimeOverThreshold, Unset, FALSE) /\ Singles # {}
    BY <1>1, <1>9, IntSignalGives
  <2>2. /\ out'.kind = "real_signal" /\ out'.tot = TimeOverThreshold
        /\ out'.Q[1] = PulseRange /\ out'.A = wave[PulseMax(HighestPulse)]
    BY <2>1 DEF Hit
  <2>3. ChargeOfHighestPulse'
    BY <1>1, <1>3, <2>1, <2>2, ChargeIsOfHighestPulse DEF ChargeOfHighestPulse
  <2>4. TotOfOnePulse' BY <1>1, <2>2, TotIsOfOnePulse DEF TotOfOnePulse
  <2>5. SharedIfNear' BY <2>2 DEF SharedIfNear
  <2> QED BY <2>3, <2>4, <2>5 DEF HitOfItsPulse
<1>10. CASE ExtNothing \/ PaddleNothing
  <2>1. out'.tot = Unset /\ out'.kind = "nothing" BY <1>1, <1>10, NothingGives DEF Hit
  <2> QED BY <1>2, <2>1
<1>11. ASSUME NEW q, NEW t, WithOwn(q, t) \/ WithOld(q, t) PROVE HitOfItsPulse'
  <2>1. out'.tot = Unset /\ out'.kind = "pulse" BY <1>11 DEF WithOwn, WithOld, Hit
  <2> QED BY <1>2, <2>1
<1>12. CASE ExtPulse
  <2>1. \E q : \/ WithOwn(q, <<ExtBegin - 1, ExtBegin>>)
               \/ WithOld(q, <<ExtBegin - 1, ExtBegin>>)
    BY <1>1, <1>12, ExtPulseGives
  <2> QED BY <1>11, <2>1
<1>13. ASSUME NEW g \in Anything, PaddlePulse(g) PROVE HitOfItsPulse'
  <2>1. WithOwn(Samples, <<PaddleBegin>>) \/ WithOld(Samples, <<PaddleBegin>>)
    BY <1>1, <1>13, PaddlePulseGives
  <2> QED BY <1>11, <2>1
<1> QED BY <1>4, <1>5, <1>6, <1>7, <1>8, <1>9, <1>10, <1>12, <1>13 DEF Conversion

\* Every step preserves HitOfItsPulse.
LEMMA HitOfItsPulseStep == TInv /\ CrossInv /\ HitOfItsPulse /\ [Next]_vars => HitOfItsPulse'
<1> SUFFICES ASSUME TInv, CrossInv, HitOfItsPulse, [Next]_vars PROVE HitOfItsPulse' OBVIOUS
<1>1. ASSUME out' = NewHit PROVE HitOfItsPulse'
  BY <1>1 DEF HitOfItsPulse, ChargeOfHighestPulse, TotOfOnePulse, SharedIfNear, NewHit
<1>2. CASE \E c \in Channels(det), w \in [Samples -> Levels[det]] : NextHit(c, w)
  BY <1>1, <1>2 DEF NextHit
<1>3. CASE \/ ScanSample \/ EndScan \/ PedestalMissing \/ FillPedestal \/ PedestalThere
           \/ \E c \in Channels(det) : OtherThread(c)
  <2>1. out' = NewHit
    BY <1>3 DEF ScanSample, EndScan, PedestalMissing, FillPedestal, PedestalThere, OtherThread,
                TInv, Before
  <2> QED BY <1>1, <2>1
<1>4. CASE Conversion BY <1>4, ConversionOfItsPulse
<1>5. CASE Publish
  <2>1. out'.tot = out.tot /\ pc' = "published" /\ wave' = wave
    BY <1>5, PublishGives DEF TInv
  <2> QED BY <2>1 DEF HitOfItsPulse, ChargeOfHighestPulse, TotOfOnePulse, SharedIfNear
<1>6. CASE Forget BY <1>1, <1>6 DEF Forget
<1>7. CASE UNCHANGED vars
  <2>1. /\ Singles' = Singles /\ UNCHANGED <<pc, det, wave, crossings, out>>
        /\ \A k : PulseMax(k)' = PulseMax(k)
    BY <1>7 DEF vars, Singles, Signals, ToT, PulseMax, PulseSpan, MaxAt, Cell, First
  <2> QED BY <2>1 DEF HitOfItsPulse, ChargeOfHighestPulse, TotOfOnePulse, SharedIfNear
<1> QED BY <1>2, <1>3, <1>4, <1>5, <1>6, <1>7, Steps

\* Charge and amplitude of the internal veto's hit are those of the highest
\* accepted pulse, its time over threshold that of one interval in which the
\* amplitude never falls below the threshold, and samples are counted for two
\* photoelectrons of the calorimeter exactly if those are near.
THEOREM HitsAreOfTheirPulses == Spec => []HitOfItsPulse
<1>1. Init => HitOfItsPulse
  BY DEF Init, HitOfItsPulse, ChargeOfHighestPulse, TotOfOnePulse, SharedIfNear, NewHit
<1>2. ScanInv => TInv /\ CrossInv BY DEF ScanInv
<1> QED BY <1>1, <1>2, HitOfItsPulseStep, ScanHolds, PTL DEF Spec
=============================================================================
