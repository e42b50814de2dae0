---------------------------- MODULE Digitization ----------------------------
(***************************************************************************)
(* Simulated events: from the banks of GEMC to digitized hits, one event   *)
(* after the other in one thread.                                          *)
(*                                                                         *)
(*   JEventSourceEvioMC::GetObjects       banks -> CalorimeterMCHit,       *)
(*                                        IntVetoMCHit, ExtVetoMCHit,      *)
(*                                        PaddlesMCHit                     *)
(*   <Detector>DigiHit_factory_MC::evnt   MC hits -> digi hits             *)
(*                                                                         *)
(* Both are loops over the hits of an event; one step of the model is one  *)
(* pass of a loop.  A charge is not a number but the sequence of what was  *)
(* added up: <<n, a>> is ADC a of the n-th MC hit.  A time is <<n, a>> as  *)
(* well: TDC a of that hit.                                                *)
(***************************************************************************)
EXTENDS Integers, Sequences, FiniteSets

CONSTANTS Events      \* for each type of simulation its possible events: a record of
                      \* the banks of digitized hits, dgt, and of raw hits, raw

Detectors == {"calorimeter", "intveto", "extveto", "paddles"}
MCTypes   == {"CATANIA_V1", "CATANIA_V2", "FULL_V1", "FULL_V2", "JLAB_FLUX_V1", "BDXmini_V1"}
NoHit     == <<>>

\* A hit of a counter; x is the channel.  The factories number the counters as
\* the simulations do, channel 2 of the second prototype is not there.
VetoHit(m, h) ==
    /\ h.sector \in Int /\ h.y = 0
    /\ \/ /\ m \in {"CATANIA_V1", "CATANIA_V2"}
          /\ \/ h.system = "CATANIA_INTVETO" /\ h.x \in 1..6
             \/ /\ h.system = "CATANIA_EXTVETO"
                /\ h.x \in IF m = "CATANIA_V1" THEN 1..12 ELSE (1..14) \ {2}
             \/ h.system = "CATANIA_PADDLES" /\ h.x \in {1, 2} /\ h.sector = 0
       \/ /\ m \in {"FULL_V1", "FULL_V2"}
          /\ h.system \in {"FULL_INTVETO", "FULL_EXTVETO"} /\ h.x \in 1..6
       \/ m = "JLAB_FLUX_V1" /\ h.system = "JLAB_FLUX" /\ h.x \in 1..13
       \/ /\ m = "BDXmini_V1"
          /\ h.system \in {"BDXMINI_INTVETO", "BDXMINI_EXTVETO"} /\ h.x \in {1, 9, 10}

\* A hit of a crystal.  Where there is only one, sector, x and y are left 0.
CrystalHit(m, h) ==
    /\ h.system = "crs" /\ h.sector \in Int /\ h.x \in Int /\ h.y \in Int
    /\ m = "CATANIA_V1"   => h.sector = 100 /\ h.x = 0 /\ h.y = 0
    /\ m = "CATANIA_V2"   => h.sector = 1 \/ (h.sector = 100 /\ h.x = 0 /\ h.y = 0)
    /\ m = "JLAB_FLUX_V1" => h.sector = 0 /\ h.x = 0 /\ h.y = 0

IsSeq(s) == Len(s) \in Nat /\ s = [n \in 1..Len(s) |-> s[n]]

\* No two hits of a raw bank have the same number.  The sectors of BDX-MINI are
\* 402 and 400, or 502 and 500.
ASSUME EventsAssumption ==
    \A m \in MCTypes : \A e \in Events[m] :
        /\ \A b \in {"crs", "veto"} :
              /\ IsSeq(e.dgt[b]) /\ IsSeq(e.raw[b])
              /\ \A k, n \in DOMAIN e.raw[b] : e.raw[b][k].hitn = e.raw[b][n].hitn => k = n
              /\ \A k \in DOMAIN e.raw[b] : e.raw[b][k].deposit \in BOOLEAN
        /\ \A n \in DOMAIN e.dgt["veto"] : VetoHit(m, e.dgt["veto"][n])
        /\ \A n \in DOMAIN e.dgt["crs"] : CrystalHit(m, e.dgt["crs"][n])
        /\ m = "BDXmini_V1" =>
              \E s \in {400, 500} :
                \A n \in DOMAIN e.dgt["crs"] : e.dgt["crs"][n].sector \in {s, s + 2}

VARIABLES
    mc,        \* option MC: the type of the simulation
    det,       \* the detector whose factory is asked
    ev,        \* the event: its bank of digitized and its bank of raw hits
    ih,        \* the loops' index
    mchits,    \* MC hits made by GetObjects
    m_map,     \* m_map of the factory: channel -> sequence of digi hits
    last,      \* m_CalorimeterDigiHit: the key of the digi hit used last
    out,       \* _data
    pc

vars == <<mc, det, ev, ih, mchits, m_map, last, out, pc>>

-----------------------------------------------------------------------------
(***************************************************************************)
(* GetObjects.                                                             *)
(***************************************************************************)

\* The systems of the veto bank whose hits are made into hits of detector d.
Systems(d) ==
    CASE d = "intveto" -> {"CATANIA_INTVETO", "FULL_INTVETO", "JLAB_FLUX",
                           "BDXMINI_INTVETO", "BDXMINI_EXTVETO"}
      [] d = "extveto" -> {"CATANIA_EXTVETO", "FULL_EXTVETO"}
      [] d = "paddles" -> {"CATANIA_PADDLES"}
      [] d = "calorimeter" -> {"crs"}

\* The bank of detector d: all but the crystals share one.
Bank(d) == IF d = "calorimeter" THEN "crs" ELSE "veto"

Dgt == ev.dgt[Bank(det)]
Raw == ev.raw[Bank(det)]

\* The raw hits with the number of a digitized one: the first is taken.
Matching(h) == {k \in DOMAIN Raw : Raw[k].hitn = h.hitn}
FirstMatch(h) == CHOOSE k \in Matching(h) : \A m \in Matching(h) : k <= m

\* As Deposits, with the raw hit at the same place of its bank.
Deposits_SamePlace(n) == {Raw[n].deposit}

\* Whether a hit deposited energy.  Without a raw hit of its number totEdep is 0,
\* and in the calorimeter it has no value.
Deposits(n) ==
    IF Matching(Dgt[n]) # {} THEN {Raw[FirstMatch(Dgt[n])].deposit}
    ELSE IF det = "calorimeter" THEN BOOLEAN ELSE {FALSE}

\* One pass of the loop of GetObjects.  Only paddles keep hits without energy.
ReadHit ==
    /\ pc = "read" /\ ih <= Len(Dgt)
    /\ \/ /\ Dgt[ih].system \notin Systems(det) /\ UNCHANGED mchits
       \/ /\ Dgt[ih].system \in Systems(det)
          /\ \E deposit \in Deposits(ih) :
                mchits' = IF deposit \/ det = "paddles" THEN Append(mchits, Dgt[ih])
                          ELSE mchits
    /\ ih' = ih + 1
    /\ UNCHANGED <<mc, det, ev, m_map, last, out, pc>>

\* Banks of different sizes: VALUE_OUT_OF_RANGE, and the event has no MC hits.
BanksDiffer ==
    /\ pc = "asked" /\ Len(Dgt) # Len(Raw)
    /\ ih' = Len(Dgt) + 1 /\ pc' = "read"
    /\ UNCHANGED <<mc, det, ev, mchits, m_map, last, out>>

BanksAgree ==
    /\ pc = "asked" /\ Len(Dgt) = Len(Raw)
    /\ ih' = 1 /\ pc' = "read"
    /\ UNCHANGED <<mc, det, ev, mchits, m_map, last, out>>

\* CopyTo, and the beginning of evnt: m_map.clear().
Copied ==
    /\ pc = "read" /\ ih > Len(Dgt) /\ pc' = "digitize"
    /\ ih' = 1 /\ m_map' = <<>> /\ last' = NoHit
    /\ UNCHANGED <<mc, det, ev, mchits, out>>

-----------------------------------------------------------------------------
(***************************************************************************)
(* Channels.                                                               *)
(***************************************************************************)

\* Components of the internal veto for the MC channels 1, 2...: top, bottom,
\* upstream, downstream, right and left; in CATANIA_V2 left and right are
\* exchanged.  In BDXmini channel 9 is the top and 10 the bottom.
IntVetoComponent(channel) ==
    CASE mc = "CATANIA_V2"   -> IF channel \in 1..6 THEN <<0, 3, 4, 5, 1, 2>>[channel] ELSE -1
      [] mc = "JLAB_FLUX_V1" -> channel
      [] mc = "BDXmini_V1"   -> IF channel \in {9, 10} THEN 19 - channel
                                ELSE IF channel = 1 THEN 1 ELSE -1
      [] OTHER               -> IF channel \in 1..6 THEN <<0, 3, 4, 5, 2, 1>>[channel] ELSE -1

\* Components of the external veto.  There is no channel 2 in CATANIA_V2.
ExtVetoComponent(channel) ==
    CASE mc = "CATANIA_V1" -> <<7, 6, 8, 9, 11, 10, 2, 1, 0, 3, 4, 5>>[channel]
      [] mc = "CATANIA_V2" -> <<6, -1, 9, 8, 10, 11, 13, 12, 5, 4, 0, 1, 2, 3>>[channel]
      [] OTHER             -> <<0, 3, 2, 1, 5, 4>>[channel]

\* SetIndex of the calorimeter.
CaloIndex(h) ==
    CASE mc \in {"FULL_V1", "FULL_V2"} -> <<h.sector - 1, h.x - 1, h.y - 1>>
      [] mc = "JLAB_FLUX_V1" -> <<0, 0, 0>>
      [] mc = "BDXmini_V1"   -> <<IF h.sector \in {502, 402} THEN 0 ELSE 1, h.x, h.y>>
      [] mc = "CATANIA_V2" /\ h.sector = 1 -> <<0, h.y - 1, 4 - h.x>>
      [] OTHER               -> <<1, 0, 0>>

-----------------------------------------------------------------------------
(***************************************************************************)
(* The factories: one pass of the loop over the MC hits.                   *)
(***************************************************************************)

H == mchits[ih]

\* A new digi hit of channel c with ADC and TDC a of the hit at hand.
New(c, a) == [chan |-> c, q |-> <<<<ih, a>>>>, t |-> <<ih, a>>]

\* Digi hit d with ADC a of the hit at hand added.
Plus(d, a) == [chan |-> d.chan, q |-> Append(d.q, <<ih, a>>), t |-> d.t]

\* A map with value v at key k.
Put(map, k, v) == [x \in DOMAIN map \cup {k} |-> IF x = k THEN v ELSE map[x]]

\* The digi hits made for a new channel <<sector, layer, component>> of the
\* internal veto: component, readout and ADC of each.
IntVetoNew(c) ==
    CASE mc = "JLAB_FLUX_V1" -> <<<<c, 1, 1>>>>
      [] mc = "BDXmini_V1"   -> IF c \in {9, 10} THEN <<<<c, 0, 1>>>>
                                ELSE IF c = 1 THEN [k \in 1..8 |-> <<k, 0, k>>] ELSE <<>>
      [] OTHER ->
           CASE c \in {1, 2} -> [k \in 1..4 |-> <<c, k, 5 - k>>]
             [] c = 0        -> [k \in 1..4 |-> <<c, k, k>>]
             [] c = 3        -> IF mc = "CATANIA_V1"
                                THEN <<<<3, 1, 1>>, <<3, 2, 4>>, <<3, 3, 3>>, <<3, 4, 2>>>>
                                ELSE [k \in 1..4 |-> <<c, k, k>>]
             [] c \in {4, 5} -> <<<<c, 1, 1>>>>
             [] OTHER        -> <<>>

\* As IntVetoAdds, without the mirrored order of the left and right sides.
IntVetoAdds_NotMirrored(c) ==
    CASE mc = "JLAB_FLUX_V1" -> <<1>>
      [] mc = "BDXmini_V1"   -> IF c = 1 THEN [k \in 1..8 |-> k] ELSE <<1>>
      [] OTHER ->
           CASE c \in {4, 5}               -> <<1>>
             [] c = 3 /\ mc = "CATANIA_V1" -> <<1, 4, 3, 2>>
             [] OTHER                      -> <<1, 2, 3, 4>>

\* The ADCs added to the digi hits of a channel that is there already, in the
\* order in which these were made.
IntVetoAdds(c) ==
    CASE mc = "JLAB_FLUX_V1" -> <<1>>
      [] mc = "BDXmini_V1"   -> IF c = 1 THEN [k \in 1..8 |-> k] ELSE <<1>>
      [] OTHER ->
           CASE c \in {1, 2}               -> <<4, 3, 2, 1>>
             [] c \in {4, 5}               -> <<1>>
             [] c = 3 /\ mc = "CATANIA_V1" -> <<1, 4, 3, 2>>
             [] OTHER                      -> <<1, 2, 3, 4>>

DigitizeIntVeto ==
    /\ pc = "digitize" /\ det = "intveto" /\ ih <= Len(mchits) /\ ih' = ih + 1
    /\ LET c     == IntVetoComponent(H.x)
           layer == IF mc = "BDXmini_V1" /\ H.system = "BDXMINI_INTVETO" THEN 1 ELSE 0
           key   == <<H.sector, layer, c>>
           made  == IntVetoNew(c)
       IN \/ /\ key \notin DOMAIN m_map
             /\ m_map' = IF made = <<>> THEN m_map ELSE
                         Put(m_map, key, [k \in DOMAIN made |->
                             New(<<H.sector, layer, made[k][1], made[k][2]>>, made[k][3])])
          \/ /\ key \in DOMAIN m_map
             /\ m_map' = [m_map EXCEPT ![key] =
                             [k \in DOMAIN @ |-> Plus(@[k], IntVetoAdds(c)[k])]]
    /\ UNCHANGED <<mc, det, ev, mchits, last, out, pc>>

\* Only this channel of the external veto has a second readout.
TwoReadouts == mc = "CATANIA_V2" /\ H.x = 1

DigitizeExtVeto ==
    /\ pc = "digitize" /\ det = "extveto" /\ ih <= Len(mchits) /\ ih' = ih + 1
    /\ LET c   == ExtVetoComponent(H.x)
           key == <<H.sector, 0, c>>
           n   == IF TwoReadouts THEN 2 ELSE 1
       IN \/ /\ key \notin DOMAIN m_map
             /\ m_map' = Put(m_map, key, [r \in 1..n |-> New(<<H.sector, 0, c, r>>, r)])
          \/ /\ key \in DOMAIN m_map
             /\ m_map' = [m_map EXCEPT ![key] = [r \in DOMAIN @ |->
                             IF r <= n THEN Plus(@[r], r) ELSE @[r]]]
    /\ UNCHANGED <<mc, det, ev, mchits, last, out, pc>>

\* The ids of the two paddles.
PaddleId(channel) == IF channel = 1 THEN 1 ELSE 0

DigitizePaddles ==
    /\ pc = "digitize" /\ det = "paddles" /\ ih <= Len(mchits) /\ ih' = ih + 1
    /\ LET key == <<H.sector, H.x>>
       IN \/ /\ key \notin DOMAIN m_map
             /\ m_map' = Put(m_map, key, <<New(<<PaddleId(H.x)>>, 1)>>)
          \/ /\ key \in DOMAIN m_map
             /\ m_map' = [m_map EXCEPT ![key] = <<Plus(@[1], 1)>>]
    /\ UNCHANGED <<mc, det, ev, mchits, last, out, pc>>

\* The calorimeter: ADC 1 is adcr, of readout 1, and ADC 2 adcl, of readout 2,
\* which only CATANIA_V1 has.  When readout 1 is there already, adcr goes to the
\* digi hit used last, whichever that is.
DigitizeCalorimeter ==
    /\ pc = "digitize" /\ det = "calorimeter" /\ ih <= Len(mchits) /\ ih' = ih + 1
    /\ LET i     == CaloIndex(H)
           right == <<i[1], i[2], i[3], 1>>
           left  == <<i[1], i[2], i[3], 2>>
           to    == IF right \in DOMAIN m_map THEN last ELSE right
           one   == IF right \in DOMAIN m_map THEN [m_map EXCEPT ![last] = <<Plus(@[1], 1)>>]
                    ELSE Put(m_map, right, <<New(right, 1)>>)
           both  == IF left \in DOMAIN one THEN [one EXCEPT ![left] = <<Plus(@[1], 2)>>]
                    ELSE Put(one, left, <<New(left, 2)>>)
       IN /\ m_map' = IF mc = "CATANIA_V1" THEN both ELSE one
          /\ last' = IF mc = "CATANIA_V1" THEN left ELSE to
    /\ UNCHANGED <<mc, det, ev, mchits, out, pc>>

\* The end of evnt: everything in the map is published.
Publish ==
    /\ pc = "digitize" /\ ih > Len(mchits) /\ pc' = "done"
    /\ out' = UNION {{<<k, j, m_map[k][j]>> : j \in DOMAIN m_map[k]} : k \in DOMAIN m_map}
    /\ UNCHANGED <<mc, det, ev, ih, mchits, m_map, last>>

\* The next event.
NextEvent ==
    /\ pc = "done" /\ ev' \in Events[mc] /\ pc' = "asked"
    /\ ih' = 1 /\ mchits' = <<>> /\ out' = {}
    /\ UNCHANGED <<mc, det, m_map, last>>

Init ==
    /\ mc \in MCTypes /\ det \in Detectors /\ ev \in Events[mc]
    /\ ih = 1 /\ mchits = <<>> /\ m_map = <<>> /\ last = NoHit /\ out = {}
    /\ pc = "asked"

Next == BanksDiffer \/ BanksAgree \/ ReadHit \/ Copied \/ DigitizeIntVeto \/ DigitizeExtVeto
        \/ DigitizePaddles \/ DigitizeCalorimeter \/ Publish \/ NextEvent

Spec == Init /\ [][Next]_vars

-----------------------------------------------------------------------------
(***************************************************************************)
(* Properties.                                                             *)
(***************************************************************************)

\* All digi hits the factory holds.
Held == UNION {{m_map[k][j] : j \in DOMAIN m_map[k]} : k \in DOMAIN m_map}

\* Type invariant.  While an event is digitized the factory holds nothing of
\* another event: charges and times are of MC hits passed by the loop.
TypeOK ==
    /\ mc \in MCTypes /\ det \in Detectors /\ ev \in Events[mc]
    /\ pc \in {"asked", "read", "digitize", "done"}
    /\ ih \in 1..(Len(Dgt) + 1) /\ Len(mchits) <= Len(Dgt)
    /\ last # NoHit => last \in DOMAIN m_map
    /\ pc \in {"digitize", "done"} =>
         \A d \in Held : \A k \in DOMAIN d.q : d.q[k] \in (1..(ih - 1)) \X (1..8)

\* Whether the n-th digitized hit is to become an MC hit: the raw hit with
\* its number shows energy.
ToBeRead(n) ==
    /\ Dgt[n].system \in Systems(det)
    /\ det = "paddles" \/ \E r \in DOMAIN Raw : Raw[r].hitn = Dgt[n].hitn /\ Raw[r].deposit

\* GetObjects joins the two banks by the number of the hit and not by its place:
\* the MC hits of the event are those for which the raw hit with their number
\* shows energy, all of them in the order of the digitized bank.
MCHitsHaveTheirRawHit ==
    pc = "digitize" /\ Len(Dgt) = Len(Raw) /\ (\A n \in DOMAIN Dgt : Matching(Dgt[n]) # {}) =>
        \E from \in [1..Len(mchits) -> DOMAIN Dgt] :
            /\ \A i, j \in 1..Len(mchits) : i < j => from[i] < from[j]
            /\ \A n \in DOMAIN Dgt : ToBeRead(n) <=> \E i \in 1..Len(mchits) : from[i] = n
            /\ \A i \in 1..Len(mchits) : mchits[i] = Dgt[from[i]]

\* Two MC hits are of one channel of the simulated detector.
SameChannel(n, k) ==
    /\ mchits[n].system = mchits[k].system /\ mchits[n].sector = mchits[k].sector
    /\ mchits[n].x = mchits[k].x /\ mchits[n].y = mchits[k].y

\* Digi hit d has the charge of one ADC of all the hits of its channel, each
\* once and in their order, and the time of the first.
AddsUp(d) ==
    LET n == d.t[1]
    IN  /\ {d.q[i][1] : i \in DOMAIN d.q} = {k \in DOMAIN mchits : SameChannel(n, k)}
        /\ \A i, j \in DOMAIN d.q : i < j => d.q[i][1] < d.q[j][1]
        /\ \A i \in DOMAIN d.q : d.q[i][2] = d.t[2]
        /\ ~\E k \in 1..(n - 1) : SameChannel(n, k)

\* In no channel of the calorimeter hits come again after a hit of another one,
\* and there is only one readout.
NoReturn ==
    /\ mc # "CATANIA_V1"
    /\ \A n, k, m \in DOMAIN mchits : n < k /\ k < m /\ SameChannel(n, m) => SameChannel(n, k)

\* Every digi hit of the vetoes and the paddles adds up one photosensor over all
\* the MC hits of its channel, none of them twice, in whatever order they come
\* and however they are interleaved with others; in the calorimeter this holds
\* as long as the hits of a channel come together.
ChargesAddUp ==
    pc = "done" /\ (det = "calorimeter" => NoReturn) => \A p \in out : AddsUp(p[3])

\* And no MC hit is without its digi hits.
NoHitWithoutDigi ==
    pc = "done" /\ (det = "calorimeter" => NoReturn) =>
        \A n \in DOMAIN mchits : \E p \in out : SameChannel(p[3].t[1], n)

\* Hits are made from digi hits by channel: no channel is published twice, for
\* all the renumbering between the simulation and the reconstruction.
DistinctChannels == pc = "done" => \A p, r \in out : p[3].chan = r[3].chan => p = r

\* The digi hits are exactly the channels hit, each with the whole charge of one
\* of its sensors.
DigiHitsExact == TypeOK /\ ChargesAddUp /\ NoHitWithoutDigi /\ DistinctChannels

\* The charge of every channel of the calorimeter adds up in all cases.
CaloChargesAddUp == pc = "done" /\ det = "calorimeter" => \A p \in out : AddsUp(p[3])
=============================================================================
