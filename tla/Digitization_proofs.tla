------------------------ MODULE Digitization_proofs ------------------------
(***************************************************************************)
(* Theorems about simulated events, for events of any length in all six    *)
(* simulations and all detectors.                                          *)
(***************************************************************************)
EXTENDS Digitization, TLAPS

(***************************************************************************)
(* What the factories make of one hit: the key of its channel in m_map,    *)
(* and for each sensor of that channel the digi hit's channel and the ADC. *)
(***************************************************************************)

\* A hit that the factory of the detector may be given.
Valid(h) == IF det = "calorimeter" THEN CrystalHit(mc, h)
            ELSE VetoHit(mc, h) /\ h.system \in Systems(det)

\* The sectors of BDX-MINI are numbered in one of two ways, never in both.
Together(h, g) ==
    mc = "BDXmini_V1" /\ det = "calorimeter" =>
        \E s \in {400, 500} : h.sector \in {s, s + 2} /\ g.sector \in {s, s + 2}

\* Two hits of the same channel of the simulation.
Same(h, g) == h.system = g.system /\ h.sector = g.sector /\ h.x = g.x /\ h.y = g.y

Layer(h) == IF mc = "BDXmini_V1" /\ h.system = "BDXMINI_INTVETO" THEN 1 ELSE 0

Key(h) ==
    CASE det = "intveto"     -> <<h.sector, Layer(h), IntVetoComponent(h.x)>>
      [] det = "extveto"     -> <<h.sector, 0, ExtVetoComponent(h.x)>>
      [] det = "paddles"     -> <<h.sector, h.x>>
      [] det = "calorimeter" -> <<CaloIndex(h)[1], CaloIndex(h)[2], CaloIndex(h)[3], 1>>

Count(h) ==
    CASE det = "intveto" -> Len(IntVetoNew(IntVetoComponent(h.x)))
      [] det = "extveto" -> IF mc = "CATANIA_V2" /\ h.x = 1 THEN 2 ELSE 1
      [] OTHER           -> 1

Chan(h, j) ==
    CASE det = "intveto" -> <<h.sector, Layer(h), IntVetoNew(IntVetoComponent(h.x))[j][1],
                              IntVetoNew(IntVetoComponent(h.x))[j][2]>>
      [] det = "extveto" -> <<h.sector, 0, ExtVetoComponent(h.x), j>>
      [] det = "paddles" -> <<PaddleId(h.x)>>
      [] OTHER           -> Key(h)

Adc(h, j) ==
    CASE det = "intveto" -> IntVetoNew(IntVetoComponent(h.x))[j][3]
      [] det = "extveto" -> j
      [] OTHER           -> 1

\* The sensors of a channel of the internal veto are numbered in the same way
\* when their digi hits are made and when charges are added, and in no other
\* channel's way.
LEMMA IntVetoSensors ==
    ASSUME mc \in MCTypes, det = "intveto", NEW h, Valid(h),
           NEW c, c = IntVetoComponent(h.x)
    PROVE  /\ Len(IntVetoNew(c)) \in 1..8 /\ DOMAIN IntVetoNew(c) = 1..Len(IntVetoNew(c))
           /\ IntVetoNew(c) # <<>>
           /\ \A j \in 1..Len(IntVetoNew(c)) :
                 IntVetoNew(c)[j][3] \in 1..8 /\ IntVetoNew(c)[j][3] = IntVetoAdds(c)[j]
           /\ \/ /\ mc # "BDXmini_V1" \/ c \in {9, 10}
                 /\ \A j \in 1..Len(IntVetoNew(c)) : IntVetoNew(c)[j][1] = c
              \/ /\ mc = "BDXmini_V1" /\ c = 1
                 /\ \A j \in 1..Len(IntVetoNew(c)) : IntVetoNew(c)[j][1] = j
           /\ mc # "BDXmini_V1" => \A j \in 1..Len(IntVetoNew(c)) : IntVetoNew(c)[j][2] = j
           /\ mc = "BDXmini_V1" /\ c # 1 => Len(IntVetoNew(c)) = 1
           /\ mc = "BDXmini_V1" /\ c = 1 => Len(IntVetoNew(c)) = 8
<1>1. CASE mc = "JLAB_FLUX_V1"
  <2>1. IntVetoNew(c) = <<<<c, 1, 1>>>> /\ IntVetoAdds(c) = <<1>>
    BY <1>1 DEF IntVetoNew, IntVetoAdds
  <2> QED BY <1>1, <2>1
<1>2. CASE mc = "BDXmini_V1"
  <2>1. c \in {1, 9, 10} BY <1>2 DEF Valid, VetoHit, IntVetoComponent
  <2>2. CASE c \in {9, 10}
    <3>1. IntVetoNew(c) = <<<<c, 0, 1>>>> /\ IntVetoAdds(c) = <<1>>
      BY <1>2, <2>2 DEF IntVetoNew, IntVetoAdds
    <3> QED BY <1>2, <2>2, <3>1
  <2>3. CASE c = 1
    <3>1. IntVetoNew(c) = [k \in 1..8 |-> <<k, 0, k>>] /\ IntVetoAdds(c) = [k \in 1..8 |-> k]
      BY <1>2, <2>3 DEF IntVetoNew, IntVetoAdds
    <3>2. /\ Len(IntVetoNew(c)) = 8 /\ DOMAIN IntVetoNew(c) = 1..8
          /\ \A j \in 1..8 : IntVetoNew(c)[j] = <<j, 0, j>> /\ IntVetoAdds(c)[j] = j
      BY <3>1
    <3>3. \A j \in 1..8 : IntVetoNew(c)[j][1] = j /\ IntVetoNew(c)[j][3] = j BY <3>2
    <3>4. IntVetoNew(c) # <<>> BY <3>2
    <3>5. Len(IntVetoNew(c)) \in 1..8 /\ DOMAIN IntVetoNew(c) = 1..Len(IntVetoNew(c))
      BY <3>2
    <3>6. \A j \in 1..Len(IntVetoNew(c)) :
             /\ IntVetoNew(c)[j][1] = j /\ IntVetoNew(c)[j][3] = j /\ j \in 1..8
             /\ IntVetoAdds(c)[j] = j
      BY <3>2, <3>3
    <3> QED BY <1>2, <2>3, <3>2, <3>4, <3>5, <3>6, Zenon
  <2> QED BY <2>1, <2>2, <2>3
<1>3. CASE mc \notin {"JLAB_FLUX_V1", "BDXmini_V1"}
  <2>1. c \in 0..5 BY <1>3 DEF Valid, VetoHit, IntVetoComponent, MCTypes, Systems
  <2>2. CASE c \in {1, 2}
    <3>1. IntVetoNew(c) = [k \in 1..4 |-> <<c, k, 5 - k>>] /\ IntVetoAdds(c) = <<4, 3, 2, 1>>
      BY <1>3, <2>2 DEF IntVetoNew, IntVetoAdds
    <3> QED BY <1>3, <2>2, <3>1
  <2>3. CASE c = 3 /\ mc = "CATANIA_V1"
    <3>1. /\ IntVetoNew(c) = <<<<3, 1, 1>>, <<3, 2, 4>>, <<3, 3, 3>>, <<3, 4, 2>>>>
          /\ IntVetoAdds(c) = <<1, 4, 3, 2>>
      BY <1>3, <2>3 DEF IntVetoNew, IntVetoAdds
    <3>2. /\ Len(IntVetoNew(c)) = 4 /\ DOMAIN IntVetoNew(c) = 1..4
          /\ IntVetoNew(c) # <<>>
      BY <3>1
    <3>3. /\ IntVetoNew(c)[1] = <<3, 1, 1>> /\ IntVetoNew(c)[2] = <<3, 2, 4>>
          /\ IntVetoNew(c)[3] = <<3, 3, 3>> /\ IntVetoNew(c)[4] = <<3, 4, 2>>
          /\ IntVetoAdds(c)[1] = 1 /\ IntVetoAdds(c)[2] = 4
          /\ IntVetoAdds(c)[3] = 3 /\ IntVetoAdds(c)[4] = 2
      BY <3>1
    <3>4. \A j \in 1..4 : j \in {1, 2, 3, 4} OBVIOUS
    <3>5. ASSUME NEW j \in 1..4
          PROVE  /\ IntVetoNew(c)[j][1] = 3 /\ IntVetoNew(c)[j][2] = j
                 /\ IntVetoNew(c)[j][3] \in 1..8 /\ IntVetoNew(c)[j][3] = IntVetoAdds(c)[j]
      <4>1. CASE j = 1 BY <3>3, <4>1
      <4>2. CASE j = 2 BY <3>3, <4>2
      <4>3. CASE j = 3 BY <3>3, <4>3
      <4>4. CASE j = 4 BY <3>3, <4>4
      <4> QED BY <3>4, <4>1, <4>2, <4>3, <4>4
    <3> QED BY ONLY <1>3, <2>3, <3>2, <3>5
  <2>4. CASE c \in {0, 3} /\ ~(c = 3 /\ mc = "CATANIA_V1")
    <3>1. IntVetoNew(c) = [k \in 1..4 |-> <<c, k, k>>] /\ IntVetoAdds(c) = <<1, 2, 3, 4>>
      BY <1>3, <2>4 DEF IntVetoNew, IntVetoAdds
    <3> QED BY <1>3, <2>4, <3>1
  <2>5. CASE c \in {4, 5}
    <3>1. IntVetoNew(c) = <<<<c, 1, 1>>>> /\ IntVetoAdds(c) = <<1>>
      BY <1>3, <2>5 DEF IntVetoNew, IntVetoAdds
    <3> QED BY <1>3, <2>5, <3>1
  <2> QED BY <2>1, <2>2, <2>3, <2>4, <2>5
<1> QED BY <1>1, <1>2, <1>3

\* The keys of two hits are the same when they are hits of the same channel of
\* the simulated detector, and only then.
LEMMA KeyIsChannel ==
    ASSUME mc \in MCTypes, det \in Detectors, NEW h, NEW g, Valid(h), Valid(g), Together(h, g)
    PROVE  Key(h) = Key(g) <=> Same(h, g)
<1>1. CASE det = "intveto"
  <2>1. VetoHit(mc, h) /\ VetoHit(mc, g) /\ h.system \in Systems(det) /\ g.system \in Systems(det)
    BY <1>1 DEF Valid
  <2>2. Key(h) = Key(g) <=> /\ h.sector = g.sector /\ Layer(h) = Layer(g)
                            /\ IntVetoComponent(h.x) = IntVetoComponent(g.x)
    BY <1>1 DEF Key
  <2>3. IntVetoComponent(h.x) = IntVetoComponent(g.x) <=> h.x = g.x
    BY <1>1, <2>1 DEF VetoHit, Systems, IntVetoComponent, MCTypes
  <2>4. Layer(h) = Layer(g) <=> h.system = g.system
    BY <1>1, <2>1 DEF VetoHit, Systems, Layer, MCTypes
  <2>5. h.y = g.y BY <2>1 DEF VetoHit
  <2> QED BY <2>2, <2>3, <2>4, <2>5 DEF Same
<1>2. CASE det = "extveto"
  <2>1. VetoHit(mc, h) /\ VetoHit(mc, g) /\ h.system \in Systems(det) /\ g.system \in Systems(det)
    BY <1>2 DEF Valid
  <2>2. Key(h) = Key(g) <=> /\ h.sector = g.sector
                            /\ ExtVetoComponent(h.x) = ExtVetoComponent(g.x)
    BY <1>2 DEF Key
  <2>3. ExtVetoComponent(h.x) = ExtVetoComponent(g.x) <=> h.x = g.x
    BY <1>2, <2>1 DEF VetoHit, Systems, ExtVetoComponent, MCTypes
  <2>4. h.system = g.system /\ h.y = g.y
    BY <1>2, <2>1 DEF VetoHit, Systems, MCTypes
  <2> QED BY <2>2, <2>3, <2>4 DEF Same
<1>3. CASE det = "paddles"
  <2>1. h.system = g.system /\ h.y = g.y BY <1>3 DEF Valid, VetoHit, Systems
  <2>2. Key(h) = Key(g) <=> h.sector = g.sector /\ h.x = g.x BY <1>3 DEF Key
  <2> QED BY <2>1, <2>2 DEF Same
<1>4. CASE det = "calorimeter"
  <2>1. CrystalHit(mc, h) /\ CrystalHit(mc, g) BY <1>4 DEF Valid
  <2>2. Key(h) = Key(g) <=> /\ CaloIndex(h)[1] = CaloIndex(g)[1]
                            /\ CaloIndex(h)[2] = CaloIndex(g)[2]
                            /\ CaloIndex(h)[3] = CaloIndex(g)[3]
    BY <1>4 DEF Key
  <2>3. (/\ CaloIndex(h)[1] = CaloIndex(g)[1] /\ CaloIndex(h)[2] = CaloIndex(g)[2]
         /\ CaloIndex(h)[3] = CaloIndex(g)[3]) <=>
        h.sector = g.sector /\ h.x = g.x /\ h.y = g.y
    BY <1>4, <2>1 DEF CrystalHit, Together, CaloIndex, MCTypes
  <2>4. h.system = g.system BY <2>1 DEF CrystalHit
  <2> QED BY <2>2, <2>3, <2>4 DEF Same
<1> QED BY <1>1, <1>2, <1>3, <1>4 DEF Detectors

\* A channel has sensors, and each of them one of the ADCs.
LEMMA Sensors ==
    ASSUME mc \in MCTypes, det \in Detectors, NEW h, Valid(h)
    PROVE  Count(h) \in 1..8 /\ \A j \in 1..Count(h) : Adc(h, j) \in 1..8
<1>1. CASE det = "intveto" BY <1>1, IntVetoSensors DEF Count, Adc
<1>2. CASE det = "extveto" BY <1>2 DEF Count, Adc
<1>3. CASE det \notin {"intveto", "extveto"} BY <1>3 DEF Count, Adc
<1> QED BY <1>1, <1>2, <1>3

\* No two sensors of the vetoes or the paddles have the same channel.
LEMMA DistinctSensors ==
    ASSUME mc \in MCTypes, det \in Detectors, det # "calorimeter",
           NEW h, NEW g, Valid(h), Valid(g),
           NEW j \in 1..Count(h), NEW k \in 1..Count(g), Chan(h, j) = Chan(g, k)
    PROVE  Key(h) = Key(g) /\ j = k
<1>1. CASE det = "intveto"
  <2>1. PICK c : c = IntVetoComponent(h.x) OBVIOUS
  <2>2. PICK e : e = IntVetoComponent(g.x) OBVIOUS
  <2>3. j \in 1..Len(IntVetoNew(c)) /\ k \in 1..Len(IntVetoNew(e))
    BY <1>1, <2>1, <2>2 DEF Count
  <2>4. /\ h.sector = g.sector /\ Layer(h) = Layer(g)
        /\ IntVetoNew(c)[j][1] = IntVetoNew(e)[k][1] /\ IntVetoNew(c)[j][2] = IntVetoNew(e)[k][2]
    BY <1>1, <2>1, <2>2 DEF Chan
  <2>5. c = e /\ j = k
    <3>1. CASE mc # "BDXmini_V1"
      <4>1. IntVetoNew(c)[j][1] = c /\ IntVetoNew(c)[j][2] = j
        BY <1>1, <2>1, <2>3, <3>1, IntVetoSensors
      <4>2. IntVetoNew(e)[k][1] = e /\ IntVetoNew(e)[k][2] = k
        BY <1>1, <2>2, <2>3, <3>1, IntVetoSensors
      <4> QED BY <2>4, <4>1, <4>2
    <3>2. CASE mc = "BDXmini_V1"
      <4>1. \/ c \in {9, 10} /\ IntVetoNew(c)[j][1] = c /\ j = 1
            \/ c = 1 /\ IntVetoNew(c)[j][1] = j /\ j \in 1..8
        <5>1. /\ c \in {1, 9, 10}
              /\ c = 1 => Len(IntVetoNew(c)) = 8 /\ \A i \in 1..8 : IntVetoNew(c)[i][1] = i
              /\ c \in {9, 10} => /\ Len(IntVetoNew(c)) = 1
                                  /\ \A i \in 1..1 : IntVetoNew(c)[i][1] = c
          BY <1>1, <2>1, <3>2, IntVetoSensors
        <5>2. CASE c = 1
          <6>1. j \in 1..8 BY <2>3, <5>1, <5>2, Zenon
          <6> QED BY <5>1, <5>2, <6>1, Zenon
        <5>3. CASE c \in {9, 10}
          <6>1. j \in 1..1 BY <2>3, <5>1, <5>3, Zenon
          <6>2. j = 1 BY <6>1
          <6> QED BY <5>1, <5>3, <6>1, <6>2, Zenon
        <5> QED BY <5>1, <5>2, <5>3
      <4>2. \/ e \in {9, 10} /\ IntVetoNew(e)[k][1] = e /\ k = 1
            \/ e = 1 /\ IntVetoNew(e)[k][1] = k /\ k \in 1..8
        <5>1. /\ e \in {1, 9, 10}
              /\ e = 1 => Len(IntVetoNew(e)) = 8 /\ \A i \in 1..8 : IntVetoNew(e)[i][1] = i
              /\ e \in {9, 10} => /\ Len(IntVetoNew(e)) = 1
                                  /\ \A i \in 1..1 : IntVetoNew(e)[i][1] = e
          BY <1>1, <2>2, <3>2, IntVetoSensors
        <5>2. CASE e = 1
          <6>1. k \in 1..8 BY <2>3, <5>1, <5>2, Zenon
          <6> QED BY <5>1, <5>2, <6>1, Zenon
        <5>3. CASE e \in {9, 10}
          <6>1. k \in 1..1 BY <2>3, <5>1, <5>3, Zenon
          <6>2. k = 1 BY <6>1
          <6> QED BY <5>1, <5>3, <6>1, <6>2, Zenon
        <5> QED BY <5>1, <5>2, <5>3
      <4> QED BY ONLY <2>4, <4>1, <4>2
    <3> QED BY <3>1, <3>2
  <2> QED BY <1>1, <2>1, <2>2, <2>4, <2>5 DEF Key
<1>2. CASE det = "extveto" BY <1>2 DEF Chan, Key
<1>3. CASE det = "paddles"
  <2>1. /\ h.x \in {1, 2} /\ g.x \in {1, 2} /\ h.sector = 0 /\ g.sector = 0
    BY <1>3 DEF Valid, VetoHit, Systems
  <2>2. PaddleId(h.x) = PaddleId(g.x) BY <1>3 DEF Chan
  <2>3. h.x = g.x BY <2>1, <2>2 DEF PaddleId
  <2>4. Count(h) = 1 /\ Count(g) = 1 BY <1>3 DEF Count
  <2> QED BY <1>3, <2>1, <2>3, <2>4 DEF Key
<1> QED BY <1>1, <1>2, <1>3 DEF Detectors

\* Hits of the same channel go the same way.
LEMMA SameSensors ==
    ASSUME NEW h, NEW g, Same(h, g)
    PROVE  /\ Key(h) = Key(g) /\ Count(h) = Count(g)
           /\ \A j : Chan(h, j) = Chan(g, j) /\ Adc(h, j) = Adc(g, j)
<1>1. Layer(h) = Layer(g) BY Zenon DEF Same, Layer
<1>2. CaloIndex(h) = CaloIndex(g) BY DEF Same, CaloIndex
<1> QED BY <1>1, <1>2, Zenon DEF Same, Key, Count, Chan, Adc

-----------------------------------------------------------------------------
(***************************************************************************)
(* GetObjects: from the banks to the MC hits.                              *)
(***************************************************************************)

\* The hits of the bank that belong to the detector.
MyHits == {Dgt[n] : n \in {k \in DOMAIN Dgt : Dgt[k].system \in Systems(det)}}

AllMatch == \A n \in DOMAIN Dgt : Matching(Dgt[n]) # {}

\* The MC hits in hits are those that were to be made of the first m digitized
\* hits.
ReadUpTo(hits, m) ==
    \E from \in [1..Len(hits) -> 1..m] :
        /\ \A i, j \in 1..Len(hits) : i < j => from[i] < from[j]
        /\ \A n \in 1..m : ToBeRead(n) <=> \E i \in 1..Len(hits) : from[i] = n
        /\ \A i \in 1..Len(hits) : hits[i] = Dgt[from[i]]

ReadInv ==
    /\ mc \in MCTypes /\ det \in Detectors /\ ev \in Events[mc]
    /\ pc \in {"asked", "read", "digitize", "done"}
    /\ mchits \in Seq(MyHits)
    /\ pc = "asked" => ih = 1 /\ mchits = <<>>
    /\ pc = "read" =>
         /\ ih \in 1..(Len(Dgt) + 1) /\ Len(mchits) <= ih - 1
         /\ Len(Dgt) = Len(Raw) /\ AllMatch => ReadUpTo(mchits, ih - 1)
    /\ pc \in {"digitize", "done"} =>
         /\ ih \in 1..(Len(mchits) + 1) /\ Len(mchits) <= Len(Dgt)
         /\ Len(Dgt) = Len(Raw) /\ AllMatch => ReadUpTo(mchits, Len(Dgt))
    /\ pc = "done" => ih = Len(mchits) + 1

\* What is assumed of the banks of an event.
LEMMA Banks ==
    ASSUME mc \in MCTypes, det \in Detectors, ev \in Events[mc]
    PROVE  /\ Len(Dgt) \in Nat /\ DOMAIN Dgt = 1..Len(Dgt)
           /\ Len(Raw) \in Nat /\ DOMAIN Raw = 1..Len(Raw)
           /\ \A k, n \in DOMAIN Raw : Raw[k].hitn = Raw[n].hitn => k = n
           /\ \A k \in DOMAIN Raw : Raw[k].deposit \in BOOLEAN
           /\ \A h \in MyHits : Valid(h)
           /\ \A h, g \in MyHits : Together(h, g)
<1>1. PICK b \in {"crs", "veto"} : b = Bank(det) BY DEF Bank
<1>2. Dgt = ev.dgt[b] /\ Raw = ev.raw[b] BY <1>1 DEF Dgt, Raw
<1>3. /\ IsSeq(Dgt) /\ IsSeq(Raw)
      /\ \A k, n \in DOMAIN Raw : Raw[k].hitn = Raw[n].hitn => k = n
      /\ \A k \in DOMAIN Raw : Raw[k].deposit \in BOOLEAN
  <2> DEFINE B == {"crs", "veto"}
  <2>1. b \in B OBVIOUS
  <2>2. \A m \in MCTypes : \A e \in Events[m] : \A c \in B :
          /\ IsSeq(e.dgt[c]) /\ IsSeq(e.raw[c])
          /\ \A k, n \in DOMAIN e.raw[c] : e.raw[c][k].hitn = e.raw[c][n].hitn => k = n
          /\ \A k \in DOMAIN e.raw[c] : e.raw[c][k].deposit \in BOOLEAN
    BY EventsAssumption
  <2> HIDE DEF B
  <2> QED BY ONLY <1>2, <2>1, <2>2, mc \in MCTypes, ev \in Events[mc], Zenon
<1>4. DOMAIN Dgt = 1..Len(Dgt) /\ DOMAIN Raw = 1..Len(Raw)
      /\ Len(Dgt) \in Nat /\ Len(Raw) \in Nat
  <2>1. ASSUME NEW s, IsSeq(s) PROVE DOMAIN s = 1..Len(s) /\ Len(s) \in Nat
    <3>1. s = [n \in 1..Len(s) |-> s[n]] BY <2>1 DEF IsSeq
    <3>2. DOMAIN [n \in 1..Len(s) |-> s[n]] = 1..Len(s) OBVIOUS
    <3>3. Len(s) \in Nat BY <2>1 DEF IsSeq
    <3> QED BY ONLY <3>1, <3>2, <3>3, Zenon
  <2> QED BY <1>3, <2>1, Zenon
<1>5. CASE det = "calorimeter"
  <2>1. Dgt = ev.dgt["crs"] BY <1>5 DEF Dgt, Bank
  <2>2. \A n \in DOMAIN Dgt : CrystalHit(mc, Dgt[n])
    <3>1. \A m \in MCTypes : \A e \in Events[m] :
             \A n \in DOMAIN e.dgt["crs"] : CrystalHit(m, e.dgt["crs"][n])
      BY ONLY EventsAssumption
    <3> QED BY ONLY <2>1, <3>1, mc \in MCTypes, ev \in Events[mc], Zenon
  <2>3. mc = "BDXmini_V1" => \E s \in {400, 500} : \A n \in DOMAIN Dgt : Dgt[n].sector \in {s, s + 2}
    BY <2>1, EventsAssumption
  <2>4. \A h \in MyHits : \E n \in DOMAIN Dgt : h = Dgt[n] BY Zenon DEF MyHits
  <2>5. \A h \in MyHits : Valid(h) BY <1>5, <2>2, <2>4, Zenon DEF Valid
  <2>6. ASSUME NEW h \in MyHits, NEW g \in MyHits PROVE Together(h, g)
    <3> SUFFICES ASSUME mc = "BDXmini_V1"
                 PROVE  \E s \in {400, 500} : h.sector \in {s, s + 2} /\ g.sector \in {s, s + 2}
      BY DEF Together
    <3>1. PICK s \in {400, 500} : \A n \in DOMAIN Dgt : Dgt[n].sector \in {s, s + 2} BY <2>3
    <3>2. PICK n \in DOMAIN Dgt : h = Dgt[n] BY <2>4
    <3>3. PICK k \in DOMAIN Dgt : g = Dgt[k] BY <2>4
    <3>4. h.sector \in {s, s + 2} /\ g.sector \in {s, s + 2} BY <3>1, <3>2, <3>3
    <3> QED BY <3>4
  <2> QED BY <1>3, <1>4, <2>5, <2>6
<1>6. CASE det # "calorimeter"
  <2>1. Dgt = ev.dgt["veto"] BY <1>6 DEF Dgt, Bank
  <2>2. \A n \in DOMAIN Dgt : VetoHit(mc, Dgt[n])
    <3>1. \A m \in MCTypes : \A e \in Events[m] :
             \A n \in DOMAIN e.dgt["veto"] : VetoHit(m, e.dgt["veto"][n])
      BY ONLY EventsAssumption
    <3> QED BY ONLY <2>1, <3>1, mc \in MCTypes, ev \in Events[mc], Zenon
  <2>3. \A h \in MyHits : \E n \in DOMAIN Dgt : h = Dgt[n] /\ Dgt[n].system \in Systems(det)
    BY Zenon DEF MyHits
  <2>4. \A h \in MyHits : Valid(h) BY <1>6, <2>2, <2>3, Zenon DEF Valid
  <2>5. \A h, g \in MyHits : Together(h, g) BY <1>6, Zenon DEF Together
  <2> QED BY <1>3, <1>4, <2>4, <2>5
<1> QED BY <1>5, <1>6

\* The energy of a hit is that of the raw hit of its number.
LEMMA DepositIs ==
    ASSUME mc \in MCTypes, det \in Detectors, ev \in Events[mc], AllMatch,
           NEW n \in DOMAIN Dgt, NEW deposit \in Deposits(n)
    PROVE  /\ deposit \in BOOLEAN
           /\ deposit <=> \E r \in DOMAIN Raw : Raw[r].hitn = Dgt[n].hitn /\ Raw[r].deposit
<1>1. /\ \A k, m \in DOMAIN Raw : Raw[k].hitn = Raw[m].hitn => k = m
      /\ \A k \in DOMAIN Raw : Raw[k].deposit \in BOOLEAN
      /\ DOMAIN Raw = 1..Len(Raw) /\ Len(Raw) \in Nat
  BY Banks
<1>2. PICK r : r \in Matching(Dgt[n]) BY DEF AllMatch
<1>3. r \in DOMAIN Raw /\ Raw[r].hitn = Dgt[n].hitn BY <1>2 DEF Matching
<1>4. \A k \in Matching(Dgt[n]) : k = r BY <1>1, <1>3, Zenon DEF Matching
<1>5. r <= r BY <1>1, <1>3
<1>6. FirstMatch(Dgt[n]) = r BY <1>2, <1>4, <1>5, Zenon DEF FirstMatch
<1>7. Matching(Dgt[n]) # {} BY <1>2
<1>8. deposit = Raw[r].deposit BY <1>6, <1>7, Zenon DEF Deposits
<1>9. (\E k \in DOMAIN Raw : Raw[k].hitn = Dgt[n].hitn /\ Raw[k].deposit) <=> Raw[r].deposit
  BY <1>1, <1>3, Zenon
<1> QED BY <1>1, <1>3, <1>8, <1>9, Zenon

\* One digitized hit more is read.
LEMMA ReadNext ==
    ASSUME NEW S, NEW hits \in Seq(S), NEW m \in Nat, ReadUpTo(hits, m),
           NEW t \in S, t = Dgt[m + 1], NEW q,
           q = IF ToBeRead(m + 1) THEN Append(hits, t) ELSE hits
    PROVE  ReadUpTo(q, m + 1)
<1>1. PICK n0 \in Nat : n0 = Len(hits) OBVIOUS
<1>2. PICK from \in [1..n0 -> 1..m] :
        /\ \A i, j \in 1..n0 : i < j => from[i] < from[j]
        /\ \A p \in 1..m : ToBeRead(p) <=> \E i \in 1..n0 : from[i] = p
        /\ \A i \in 1..n0 : hits[i] = Dgt[from[i]]
  BY <1>1, Zenon DEF ReadUpTo
<1>3. CASE ~ToBeRead(m + 1)
  <2>1. q = hits BY <1>3, Zenon
  <2>2. from \in [1..n0 -> 1..(m + 1)] OBVIOUS
  <2>3. \A p \in 1..(m + 1) : ToBeRead(p) <=> \E i \in 1..n0 : from[i] = p
    <3> TAKE p \in 1..(m + 1)
    <3>1. CASE p = m + 1
      <4>1. \A i \in 1..n0 : from[i] # p BY <3>1
      <4> QED BY <1>3, <3>1, <4>1
    <3>2. CASE p # m + 1
      <4>1. p \in 1..m BY <3>2
      <4> QED BY <1>2, <4>1, Zenon
    <3> QED BY <3>1, <3>2
  <2>4. ReadUpTo(hits, m + 1) BY <1>1, <1>2, <2>2, <2>3, Zenon DEF ReadUpTo
  <2> QED BY <2>1, <2>4
<1>4. CASE ToBeRead(m + 1)
  <2>1. q = Append(hits, t) BY <1>4, Zenon
  <2>2. /\ Len(q) = n0 + 1 /\ q[n0 + 1] = t /\ \A i \in 1..n0 : q[i] = hits[i]
    BY <1>1, <2>1
  <2> DEFINE f == [i \in 1..(n0 + 1) |-> IF i = n0 + 1 THEN m + 1 ELSE from[i]]
  <2>3. f \in [1..(n0 + 1) -> 1..(m + 1)] OBVIOUS
  <2>4. f[n0 + 1] = m + 1 /\ \A i \in 1..n0 : f[i] = from[i] /\ from[i] \in 1..m OBVIOUS
  <2>5. \A i \in 1..(n0 + 1) : i = n0 + 1 \/ i \in 1..n0 OBVIOUS
  <2> HIDE DEF f
  <2>6. \A i, j \in 1..(n0 + 1) : i < j => f[i] < f[j]
    <3> TAKE i, j \in 1..(n0 + 1)
    <3> HAVE i < j
    <3>1. i \in 1..n0 OBVIOUS
    <3>2. CASE j = n0 + 1
      <4>1. f[i] \in 1..m /\ f[j] = m + 1 BY <2>4, <3>1, <3>2
      <4> QED BY <4>1
    <3>3. CASE j \in 1..n0 BY <1>2, <2>4, <3>1, <3>3
    <3> QED BY <2>5, <3>2, <3>3
  <2>7. \A p \in 1..(m + 1) : ToBeRead(p) <=> \E i \in 1..(n0 + 1) : f[i] = p
    <3> TAKE p \in 1..(m + 1)
    <3>1. CASE p = m + 1
      <4>1. n0 + 1 \in 1..(n0 + 1) OBVIOUS
      <4> QED BY <1>4, <2>4, <3>1, <4>1, Zenon
    <3>2. CASE p # m + 1
      <4>1. p \in 1..m BY <3>2
      <4>2. \A i \in 1..n0 : i \in 1..(n0 + 1) OBVIOUS
      <4> QED BY <1>2, <2>4, <2>5, <3>2, <4>1, <4>2, Zenon
    <3> QED BY <3>1, <3>2
  <2>8. \A i \in 1..(n0 + 1) : q[i] = Dgt[f[i]]
    BY <1>2, <2>2, <2>4, <2>5, Zenon
  <2>9. ReadUpTo(q, m + 1)
    <3> SUFFICES \E g \in [1..Len(q) -> 1..(m + 1)] :
                    /\ \A i, j \in 1..Len(q) : i < j => g[i] < g[j]
                    /\ \A p \in 1..(m + 1) : ToBeRead(p) <=> \E i \in 1..Len(q) : g[i] = p
                    /\ \A i \in 1..Len(q) : q[i] = Dgt[g[i]]
      BY Zenon DEF ReadUpTo
    <3>1. Len(q) = n0 + 1 BY <2>2
    <3>2. f \in [1..Len(q) -> 1..(m + 1)] BY <2>3, <3>1, Zenon
    <3>3. /\ \A i, j \in 1..Len(q) : i < j => f[i] < f[j]
          /\ \A p \in 1..(m + 1) : ToBeRead(p) <=> \E i \in 1..Len(q) : f[i] = p
          /\ \A i \in 1..Len(q) : q[i] = Dgt[f[i]]
      BY <2>6, <2>7, <2>8, <3>1, Zenon
    <3> QED BY ONLY <3>2, <3>3, Zenon
  <2> QED BY <2>9
<1> QED BY <1>3, <1>4

\* Within an event the banks stay what they are.
LEMMA SameBanks ==
    ASSUME det' = det, ev' = ev
    PROVE  /\ Dgt' = Dgt /\ Raw' = Raw /\ MyHits' = MyHits /\ (AllMatch' <=> AllMatch)
           /\ \A n : ToBeRead(n)' <=> ToBeRead(n)
<1>1. Dgt' = Dgt /\ Raw' = Raw BY Zenon DEF Dgt, Raw
<1>2. MyHits' = MyHits BY <1>1, Zenon DEF MyHits
<1>3. AllMatch' <=> AllMatch BY <1>1, Zenon DEF AllMatch, Matching
<1>4. ASSUME NEW n PROVE ToBeRead(n)' <=> ToBeRead(n) BY <1>1, Zenon DEF ToBeRead
<1> QED BY <1>1, <1>2, <1>3, <1>4

\* And so does what was read of them.
LEMMA SameRead ==
    ASSUME det' = det, ev' = ev, NEW hits, NEW m, ReadUpTo(hits, m)
    PROVE  ReadUpTo(hits, m)'
<1>1. PICK from \in [1..Len(hits) -> 1..m] :
        /\ \A i, j \in 1..Len(hits) : i < j => from[i] < from[j]
        /\ \A n \in 1..m : ToBeRead(n) <=> \E i \in 1..Len(hits) : from[i] = n
        /\ \A i \in 1..Len(hits) : hits[i] = Dgt[from[i]]
  BY Zenon DEF ReadUpTo
<1>2. Dgt' = Dgt /\ \A n : ToBeRead(n)' <=> ToBeRead(n) BY SameBanks
<1>3. \A n \in 1..m : ToBeRead(n)' <=> \E i \in 1..Len(hits) : from[i] = n BY <1>1, <1>2, Zenon
<1>4. \A i \in 1..Len(hits) : hits[i] = Dgt'[from[i]] BY <1>1, <1>2, Zenon
<1> QED BY <1>1, <1>3, <1>4, Zenon DEF ReadUpTo

\* Nothing is read before the first hit.
LEMMA ReadNothing == ASSUME NEW e, e = <<>> PROVE ReadUpTo(e, 0)
<1>1. PICK N : N = 1..Len(e) OBVIOUS
<1>2. N = {} /\ 1..0 = {} BY <1>1
<1>3. PICK f : f = [i \in N |-> i] OBVIOUS
<1>4. f \in [N -> 1..0] BY <1>2, <1>3
<1>5. /\ \A i, j \in N : i < j => f[i] < f[j]
      /\ \A n \in 1..0 : ToBeRead(n) <=> \E i \in N : f[i] = n
      /\ \A i \in N : e[i] = Dgt[f[i]]
  BY ONLY <1>2, Zenon
<1>6. \E from \in [N -> 1..0] :
        /\ \A i, j \in N : i < j => from[i] < from[j]
        /\ \A n \in 1..0 : ToBeRead(n) <=> \E i \in N : from[i] = n
        /\ \A i \in N : e[i] = Dgt[from[i]]
  BY ONLY <1>4, <1>5, Zenon
<1> QED BY ONLY <1>1, <1>6, Zenon DEF ReadUpTo

\* A step of GetObjects.
LEMMA HitRead == ASSUME ReadInv, ReadHit PROVE ReadInv'
<1>1. /\ pc = "read" /\ ih <= Len(Dgt) /\ ih' = ih + 1
      /\ mc' = mc /\ det' = det /\ ev' = ev /\ pc' = pc
  BY DEF ReadHit
<1>2. /\ mc \in MCTypes /\ det \in Detectors /\ ev \in Events[mc]
      /\ mchits \in Seq(MyHits) /\ ih \in 1..(Len(Dgt) + 1) /\ Len(mchits) <= ih - 1
      /\ Len(Dgt) = Len(Raw) /\ AllMatch => ReadUpTo(mchits, ih - 1)
  BY <1>1 DEF ReadInv
<1>3. Len(Dgt) \in Nat /\ DOMAIN Dgt = 1..Len(Dgt) BY <1>2, Banks
<1>4. PICK len \in Nat : len = Len(Dgt) BY <1>3
<1>5. PICK m \in Nat : m = ih - 1 BY <1>2, <1>4
<1>6. ih = m + 1 /\ m + 1 \in 1..len BY <1>1, <1>2, <1>4, <1>5
<1>7. Dgt' = Dgt /\ Raw' = Raw /\ MyHits' = MyHits /\ (AllMatch' <=> AllMatch)
  BY <1>1, SameBanks
<1>8. PICK n0 \in Nat : n0 = Len(mchits) BY <1>2
<1>9. n0 <= m BY <1>2, <1>5, <1>8
<1>10. PICK q : q = mchits' OBVIOUS
<1>11. \/ Dgt[ih].system \notin Systems(det) /\ q = mchits
       \/ /\ Dgt[ih].system \in Systems(det)
          /\ \E deposit \in Deposits(ih) :
                q = IF deposit \/ det = "paddles" THEN Append(mchits, Dgt[ih]) ELSE mchits
  BY <1>10 DEF ReadHit
<1> DEFINE d == Dgt[m + 1]
<1>12. ASSUME Dgt[ih].system \in Systems(det) PROVE d \in MyHits
  BY <1>3, <1>4, <1>6, <1>12, Zenon DEF MyHits
<1>13. q = mchits \/ (q = Append(mchits, d) /\ d \in MyHits)
  BY <1>6, <1>11, <1>12, Zenon
<1>14. q \in Seq(MyHits) /\ Len(q) <= m + 1
  <2> HIDE DEF d
  <2>1. CASE q = mchits BY <1>2, <1>8, <1>9, <2>1
  <2>2. CASE q = Append(mchits, d) /\ d \in MyHits BY <1>2, <1>8, <1>9, <2>2
  <2> QED BY <1>13, <2>1, <2>2
<1>15. AllMatch => q = IF ToBeRead(m + 1) THEN Append(mchits, d) ELSE mchits
  <2> SUFFICES ASSUME AllMatch PROVE q = IF ToBeRead(m + 1) THEN Append(mchits, d) ELSE mchits
    OBVIOUS
  <2>1. CASE Dgt[ih].system \notin Systems(det) /\ q = mchits
    <3>1. ~ToBeRead(m + 1) BY <1>6, <2>1, Zenon DEF ToBeRead
    <3> QED BY <2>1, <3>1, Zenon
  <2>2. ASSUME Dgt[ih].system \in Systems(det), NEW deposit \in Deposits(ih),
               q = IF deposit \/ det = "paddles" THEN Append(mchits, Dgt[ih]) ELSE mchits
        PROVE  q = IF ToBeRead(m + 1) THEN Append(mchits, d) ELSE mchits
    <3>1. ih \in DOMAIN Dgt BY <1>3, <1>4, <1>6, Zenon
    <3>2. deposit <=> \E r \in DOMAIN Raw : Raw[r].hitn = Dgt[ih].hitn /\ Raw[r].deposit
      BY <1>2, <2>2, <3>1, DepositIs
    <3>3. ToBeRead(m + 1) <=> (deposit \/ det = "paddles")
      BY <1>6, <2>2, <3>2, Zenon DEF ToBeRead
    <3> QED BY <1>6, <2>2, <3>3, Zenon
  <2> QED BY <1>11, <2>1, <2>2
<1>16. Len(Dgt) = Len(Raw) /\ AllMatch => ReadUpTo(q, m + 1)
  <2> SUFFICES ASSUME Len(Dgt) = Len(Raw), AllMatch PROVE ReadUpTo(q, m + 1) OBVIOUS
  <2>1. PICK S : S = MyHits \cup {d} OBVIOUS
  <2>2. PICK t \in S : t = d BY <2>1
  <2>3. mchits \in Seq(S)
    <3>1. MyHits \subseteq S BY <2>1
    <3> QED BY <1>2, <3>1
  <2>4. ReadUpTo(mchits, m) BY <1>2, <1>5, Zenon
  <2>5. q = IF ToBeRead(m + 1) THEN Append(mchits, t) ELSE mchits BY <1>15, <2>2, Zenon
  <2> QED BY <2>2, <2>3, <2>4, <2>5, ReadNext, Zenon
<1>17. Len(Dgt') = Len(Raw') /\ AllMatch' => ReadUpTo(q, m + 1)'
  BY <1>1, <1>7, <1>16, SameRead, Zenon
<1>18. ih' = m + 2 /\ ih' - 1 = m + 1 /\ m + 2 \in 1..(len + 1) BY <1>1, <1>6
<1>19. (Len(Dgt) = Len(Raw) /\ AllMatch => ReadUpTo(mchits, ih - 1))'
  BY <1>10, <1>17, <1>18, Zenon
<1>20. /\ ih' \in 1..(Len(Dgt') + 1) /\ Len(mchits') <= ih' - 1
  BY <1>4, <1>7, <1>10, <1>14, <1>18, Zenon
<1>21. mchits' \in Seq(MyHits') BY <1>7, <1>10, <1>14, Zenon
<1>22. pc' = "read" /\ mc' \in MCTypes /\ det' \in Detectors /\ ev' \in Events[mc']
  BY <1>1, <1>2, Zenon
<1> QED BY <1>19, <1>20, <1>21, <1>22 DEF ReadInv

\* The factory's loop over the MC hits goes on; what was read stays.
Digitized == /\ pc = "digitize" /\ pc' = "digitize" /\ ih <= Len(mchits) /\ ih' = ih + 1
             /\ UNCHANGED <<mc, det, ev, mchits, out>>

\* The passes of all four factories are of that form.
LEMMA AllDigitize ==
    ASSUME DigitizeIntVeto \/ DigitizeExtVeto \/ DigitizePaddles \/ DigitizeCalorimeter
    PROVE  Digitized
BY DEF DigitizeIntVeto, DigitizeExtVeto, DigitizePaddles, DigitizeCalorimeter, Digitized

\* Only the beginning of an event and GetObjects change what is read.
LEMMA ReadKept ==
    ASSUME ReadInv,
           BanksDiffer \/ BanksAgree \/ Copied \/ Digitized \/ Publish \/ UNCHANGED vars
    PROVE  ReadInv'
<1>1. mc' = mc /\ det' = det /\ ev' = ev /\ mchits' = mchits
  BY DEF BanksDiffer, BanksAgree, Copied, Digitized, Publish, vars
<1>2. mc \in MCTypes /\ det \in Detectors /\ ev \in Events[mc] /\ mchits \in Seq(MyHits)
  BY DEF ReadInv
<1>3. PICK len \in Nat : len = Len(Dgt) BY <1>2, Banks
<1>4. PICK n0 \in Nat : n0 = Len(mchits) BY <1>2
<1>5. Dgt' = Dgt /\ Raw' = Raw /\ MyHits' = MyHits /\ (AllMatch' <=> AllMatch)
  BY <1>1, SameBanks
<1>6. /\ mc' \in MCTypes /\ det' \in Detectors /\ ev' \in Events[mc'] /\ mchits' \in Seq(MyHits')
  BY <1>1, <1>2, <1>5, Zenon
<1>7. Len(Dgt') = len /\ Len(mchits') = n0 BY <1>1, <1>3, <1>4, <1>5, Zenon
<1>8. ASSUME NEW m, ReadUpTo(mchits, m) PROVE ReadUpTo(mchits, m)'
  BY <1>1, <1>8, SameRead, Zenon
<1>9. "asked" # "read" /\ "asked" # "digitize" /\ "asked" # "done" /\ "read" # "digitize"
      /\ "read" # "done" /\ "digitize" # "done"
  OBVIOUS
<1>10. CASE BanksDiffer \/ BanksAgree
  <2>1. /\ pc' = "read" /\ mchits = <<>>
        /\ \/ Len(Dgt) # Len(Raw) /\ ih' = Len(Dgt) + 1
           \/ Len(Dgt) = Len(Raw) /\ ih' = 1
    BY <1>10 DEF BanksDiffer, BanksAgree, ReadInv
  <2>2. ih' \in 1..(len + 1) /\ n0 <= ih' - 1 BY <1>3, <1>4, <2>1
  <2>3. ih' = 1 => ih' - 1 = 0 OBVIOUS
  <2>4. ReadUpTo(mchits, 0) BY <2>1, ReadNothing
  <2>5. ReadUpTo(mchits, 0)' BY <1>8, <2>4
  <2>6. Len(Dgt') = Len(Raw') => ReadUpTo(mchits, ih - 1)'
    BY <1>5, <2>1, <2>3, <2>5, Zenon
  <2> QED BY <1>6, <1>7, <1>9, <2>1, <2>2, <2>6, Zenon DEF ReadInv
<1>11. CASE Copied
  <2>1. pc = "read" /\ ih > Len(Dgt) /\ pc' = "digitize" /\ ih' = 1 BY <1>11 DEF Copied
  <2>2. /\ ih \in 1..(Len(Dgt) + 1) /\ Len(mchits) <= ih - 1
        /\ Len(Dgt) = Len(Raw) /\ AllMatch => ReadUpTo(mchits, ih - 1)
    BY <2>1 DEF ReadInv
  <2>3. ih - 1 = len /\ n0 <= len /\ ih' \in 1..(n0 + 1)
    BY <1>3, <1>4, <2>1, <2>2
  <2>4. Len(Dgt) = Len(Raw) /\ AllMatch => ReadUpTo(mchits, len) BY <2>2, <2>3, Zenon
  <2>5. Len(Dgt') = Len(Raw') /\ AllMatch' => ReadUpTo(mchits, Len(Dgt))'
    BY <1>3, <1>5, <1>8, <2>4, Zenon
  <2> QED BY <1>6, <1>7, <1>9, <2>1, <2>3, <2>5, Zenon DEF ReadInv
<1>12. CASE (pc \in {"digitize", "done"} /\ pc' \in {"digitize", "done"})
            /\ ih' \in 1..(n0 + 1) /\ (pc' = "done" => ih' = n0 + 1)
  <2>1. /\ Len(mchits) <= Len(Dgt)
        /\ Len(Dgt) = Len(Raw) /\ AllMatch => ReadUpTo(mchits, Len(Dgt))
    BY <1>12 DEF ReadInv
  <2>2. Len(Dgt') = Len(Raw') /\ AllMatch' => ReadUpTo(mchits, Len(Dgt))'
    BY <1>3, <1>5, <1>8, <2>1, Zenon
  <2>3. n0 <= len BY <1>3, <1>4, <2>1
  <2>4. pc' # "asked" /\ pc' # "read" /\ pc' \in {"asked", "read", "digitize", "done"} BY <1>12
  <2> QED BY <1>6, <1>7, <1>12, <2>2, <2>3, <2>4, Zenon DEF ReadInv
<1>13. CASE Digitized
  <2>1. ih \in 1..(Len(mchits) + 1) BY <1>13 DEF Digitized, ReadInv
  <2> QED BY <1>4, <1>12, <1>13, <2>1 DEF Digitized
<1>14. CASE Publish
  <2>1. pc = "digitize" /\ pc' = "done" /\ ih > Len(mchits) /\ ih' = ih BY <1>14 DEF Publish
  <2>2. ih \in 1..(Len(mchits) + 1) BY <2>1 DEF ReadInv
  <2> QED BY <1>4, <1>12, <2>1, <2>2
<1>15. CASE UNCHANGED vars
  <2>1. pc' = pc /\ ih' = ih BY <1>15 DEF vars
  <2> QED BY <1>1, <1>5, <1>6, <1>8, <2>1, Zenon DEF ReadInv
<1> QED BY <1>10, <1>11, <1>13, <1>14, <1>15

\* What is read of an event is as the banks say.
LEMMA ReadInvInvariant == Spec => []ReadInv
<1>1. Init => ReadInv BY DEF Init, ReadInv
<1>2. ReadInv /\ [Next]_vars => ReadInv'
  <2> SUFFICES ASSUME ReadInv, [Next]_vars PROVE ReadInv' OBVIOUS
  <2>1. CASE ReadHit BY <2>1, HitRead
  <2>2. CASE NextEvent
    <3>1. /\ pc' = "asked" /\ ih' = 1 /\ mchits' = <<>> /\ mc' = mc /\ det' = det
          /\ ev' \in Events[mc]
      BY <2>2 DEF NextEvent
    <3>2. mchits' \in Seq(MyHits') BY <3>1
    <3>3. mc \in MCTypes /\ det \in Detectors BY DEF ReadInv
    <3> QED BY <3>1, <3>2, <3>3 DEF ReadInv
  <2>3. CASE DigitizeIntVeto \/ DigitizeExtVeto \/ DigitizePaddles \/ DigitizeCalorimeter
    BY <2>3, AllDigitize, ReadKept
  <2>4. CASE BanksDiffer \/ BanksAgree \/ Copied \/ Publish \/ UNCHANGED vars
    BY <2>4, ReadKept
  <2> QED BY <2>1, <2>2, <2>3, <2>4 DEF Next
<1> QED BY <1>1, <1>2, PTL DEF Spec

\* The MC hits of an event are those for which the raw hit with their number
\* shows energy, in the order of the digitized bank: GetObjects joins the banks
\* by number, wherever in the raw bank the hit is.
THEOREM MCHitsAreJoined == Spec => []MCHitsHaveTheirRawHit
<1>1. ReadInv => MCHitsHaveTheirRawHit
  <2> SUFFICES ASSUME ReadInv, pc = "digitize", Len(Dgt) = Len(Raw), AllMatch
               PROVE  \E from \in [1..Len(mchits) -> DOMAIN Dgt] :
                        /\ \A i, j \in 1..Len(mchits) : i < j => from[i] < from[j]
                        /\ \A n \in DOMAIN Dgt :
                              ToBeRead(n) <=> \E i \in 1..Len(mchits) : from[i] = n
                        /\ \A i \in 1..Len(mchits) : mchits[i] = Dgt[from[i]]
    BY Zenon DEF MCHitsHaveTheirRawHit, AllMatch
  <2>1. mc \in MCTypes /\ det \in Detectors /\ ev \in Events[mc] BY DEF ReadInv
  <2>2. DOMAIN Dgt = 1..Len(Dgt) BY <2>1, Banks
  <2>3. ReadUpTo(mchits, Len(Dgt)) BY DEF ReadInv
  <2> QED BY ONLY <2>2, <2>3, Zenon DEF ReadUpTo
<1> QED BY <1>1, ReadInvInvariant, PTL

-----------------------------------------------------------------------------
(***************************************************************************)
(* The factories: from the MC hits to the digi hits.                       *)
(***************************************************************************)

\* q adds up ADC a of the hits whose numbers are in C, each once and in their
\* order.
Sums(q, C, a) ==
    /\ q \in Seq(C \X {a})
    /\ \A i, j \in 1..Len(q) : i < j => q[i][1] < q[j][1]
    /\ \A k \in C : \E i \in 1..Len(q) : q[i][1] = k

\* Those of the first m hits that have this key.
ChannelHits(key, m) == {k \in 1..m : Key(mchits[k]) = key}

\* These digi hits are of the channel of the n-th hit: one for each sensor, with
\* the time of that hit and the charge of the hits in C.
Digis(ds, n, C) ==
    /\ DOMAIN ds = 1..Count(mchits[n])
    /\ \A j \in 1..Count(mchits[n]) :
          /\ ds[j].chan = Chan(mchits[n], j) /\ ds[j].t = <<n, Adc(mchits[n], j)>>
          /\ Sums(ds[j].q, C, Adc(mchits[n], j))

\* The map is exactly what the first m hits make of it.
Exactly(map, m) ==
    /\ \A k \in 1..m : Key(mchits[k]) \in DOMAIN map
    /\ \A key \in DOMAIN map :
          \E n \in ChannelHits(key, m) :
             /\ \A k \in ChannelHits(key, m) : n <= k
             /\ Digis(map[key], n, ChannelHits(key, m))

\* What holds of the calorimeter's map even where charges go astray.
OnePerCrystal(map, m) ==
    \A key \in DOMAIN map :
        /\ DOMAIN map[key] = 1..1 /\ map[key][1].chan = key
        /\ map[key][1].q \in Seq((1..m) \X (1..8))

\* Everything in a map.
Published(map) == UNION {{<<k, j, map[k][j]>> : j \in DOMAIN map[k]} : k \in DOMAIN map}

DigiInv ==
    /\ last # NoHit => last \in DOMAIN m_map
    /\ det # "calorimeter" => last = NoHit
    /\ pc \in {"digitize", "done"} =>
         /\ (det = "calorimeter" => NoReturn) => Exactly(m_map, ih - 1)
         /\ det = "calorimeter" =>
              /\ OnePerCrystal(m_map, ih - 1)
              /\ DOMAIN m_map # {} => last \in DOMAIN m_map
              /\ NoReturn /\ ih > 1 => last = Key(mchits[ih - 1])
    /\ pc = "done" => out = Published(m_map)

\* The charge of one hit.
LEMMA SumsOne == ASSUME NEW n \in Nat, NEW a PROVE Sums(<<<<n, a>>>>, {n}, a)
<1>1. PICK p : p = <<n, a>> OBVIOUS
<1>2. p[1] = n /\ p \in {n} \X {a} BY <1>1
<1>3. PICK q : q = <<p>> OBVIOUS
<1>4. q \in Seq({n} \X {a}) /\ Len(q) = 1 /\ q[1] = p BY <1>2, <1>3
<1>5. \A i, j \in 1..Len(q) : ~(i < j) BY <1>4
<1>6. 1 \in 1..Len(q) BY <1>4
<1> QED BY <1>1, <1>2, <1>3, <1>4, <1>5, <1>6, Zenon DEF Sums

\* A later hit is added.
LEMMA SumsNext ==
    ASSUME NEW m \in Nat, NEW C, C \subseteq 1..m, NEW a, NEW q, Sums(q, C, a)
    PROVE  Sums(Append(q, <<m + 1, a>>), C \cup {m + 1}, a)
<1>1. PICK p : p = <<m + 1, a>> OBVIOUS
<1>2. PICK E : E = C \cup {m + 1} OBVIOUS
<1>3. p[1] = m + 1 /\ p \in E \X {a} BY <1>1, <1>2
<1>4. q \in Seq(E \X {a}) /\ \A i \in 1..Len(q) : q[i] \in C \X {a}
  <2>1. q \in Seq(C \X {a}) BY DEF Sums
  <2>2. (C \X {a}) \subseteq (E \X {a}) BY <1>2
  <2> QED BY <2>1, <2>2
<1>5. PICK n0 \in Nat : n0 = Len(q) BY <1>4
<1>6. PICK r : r = Append(q, p) OBVIOUS
<1>7. /\ r \in Seq(E \X {a}) /\ Len(r) = n0 + 1 /\ r[n0 + 1] = p
      /\ \A i \in 1..n0 : r[i] = q[i]
  BY <1>3, <1>4, <1>5, <1>6
<1>8. \A i \in 1..(n0 + 1) : i = n0 + 1 \/ i \in 1..n0 OBVIOUS
<1>9. \A i \in 1..n0 : i \in 1..(n0 + 1) OBVIOUS
<1>10. \A i \in 1..n0 : q[i][1] \in C
  <2>1. \A x \in C \X {a} : x[1] \in C OBVIOUS
  <2> QED BY <1>4, <1>5, <2>1, Zenon
<1>11. \A i, j \in 1..(n0 + 1) : i < j => r[i][1] < r[j][1]
  <2> TAKE i, j \in 1..(n0 + 1)
  <2> HAVE i < j
  <2>1. i \in 1..n0 OBVIOUS
  <2>2. CASE j = n0 + 1
    <3>1. r[i][1] \in C /\ r[j][1] = m + 1 BY <1>3, <1>7, <1>10, <2>1, <2>2, Zenon
    <3>2. \A x \in 1..m : x < m + 1 OBVIOUS
    <3> QED BY <3>1, <3>2, Zenon
  <2>3. CASE j \in 1..n0
    <3>1. q[i][1] < q[j][1] BY <1>5, <2>1, <2>3 DEF Sums
    <3> QED BY <1>7, <2>1, <2>3, <3>1, Zenon
  <2> QED BY <1>8, <2>2, <2>3
<1>12. \A k \in E : \E i \in 1..(n0 + 1) : r[i][1] = k
  <2> TAKE k \in E
  <2>1. CASE k = m + 1
    <3>1. n0 + 1 \in 1..(n0 + 1) OBVIOUS
    <3> QED BY <1>3, <1>7, <2>1, <3>1, Zenon
  <2>2. CASE k \in C
    <3>1. PICK i \in 1..n0 : q[i][1] = k BY <1>5, <2>2, Zenon DEF Sums
    <3> QED BY <1>7, <1>9, <3>1, Zenon
  <2> QED BY <1>2, <2>1, <2>2
<1> QED BY <1>1, <1>2, <1>6, <1>7, <1>11, <1>12, Zenon DEF Sums

\* The hit at hand belongs to its own channel and to no other.
LEMMA ChannelHitsNext ==
    ASSUME NEW m \in Nat, NEW key
    PROVE  /\ ChannelHits(key, m) \subseteq 1..m
           /\ key = Key(mchits[m + 1]) => ChannelHits(key, m + 1) = ChannelHits(key, m) \cup {m + 1}
           /\ key # Key(mchits[m + 1]) => ChannelHits(key, m + 1) = ChannelHits(key, m)
<1>1. \A k : k \in 1..(m + 1) <=> k \in 1..m \/ k = m + 1 OBVIOUS
<1>2. \A k : k \in ChannelHits(key, m + 1) <=>
             k \in ChannelHits(key, m) \/ (k = m + 1 /\ Key(mchits[m + 1]) = key)
  BY <1>1, Zenon DEF ChannelHits
<1>3. ChannelHits(key, m) \subseteq 1..m BY Zenon DEF ChannelHits
<1>4. CASE key = Key(mchits[m + 1]) BY <1>2, <1>3, <1>4, Zenon
<1>5. CASE key # Key(mchits[m + 1]) BY <1>2, <1>3, <1>5, Zenon
<1> QED BY <1>3, <1>4, <1>5

\* The MC hits are hits of the detector.
LEMMA MCHitsValid ==
    ASSUME ReadInv
    PROVE  /\ mc \in MCTypes /\ det \in Detectors
           /\ \A n \in 1..Len(mchits) : Valid(mchits[n])
           /\ \A n, k \in 1..Len(mchits) :
                Key(mchits[n]) = Key(mchits[k]) <=> Same(mchits[n], mchits[k])
<1>1. mc \in MCTypes /\ det \in Detectors /\ ev \in Events[mc] /\ mchits \in Seq(MyHits)
  BY DEF ReadInv
<1>2. \A n \in 1..Len(mchits) : mchits[n] \in MyHits BY <1>1
<1>3. (\A h \in MyHits : Valid(h)) /\ (\A h, g \in MyHits : Together(h, g)) BY <1>1, Banks
<1>4. ASSUME NEW h \in MyHits, NEW g \in MyHits PROVE Key(h) = Key(g) <=> Same(h, g)
  BY <1>1, <1>3, KeyIsChannel
<1> QED BY <1>1, <1>2, <1>3, <1>4, Zenon

\* The map after a pass for the hit at hand: digi hits were made for all the
\* sensors of a new channel, or the charges were added to those that are there.
Stepped(map, new) ==
    LET h   == mchits[ih]
        key == Key(h)
    IN  /\ DOMAIN new = DOMAIN map \cup {key}
        /\ \A k \in DOMAIN map : k # key => new[k] = map[k]
        /\ DOMAIN new[key] = 1..Count(h)
        /\ \A j \in 1..Count(h) :
              new[key][j] = IF key \in DOMAIN map THEN Plus(map[key][j], Adc(h, j))
                            ELSE New(Chan(h, j), Adc(h, j))

\* A pass keeps the map exact.
LEMMA ExactStep ==
    ASSUME ReadInv, NEW m \in Nat, ih = m + 1, ih <= Len(mchits), NEW map, NEW new,
           Exactly(map, m), Stepped(map, new)
    PROVE  Exactly(new, m + 1)
<1>1. PICK h : h = mchits[m + 1] OBVIOUS
<1>2. PICK key : key = Key(h) OBVIOUS
<1>3. /\ DOMAIN new = DOMAIN map \cup {key}
      /\ \A k \in DOMAIN map : k # key => new[k] = map[k]
      /\ DOMAIN new[key] = 1..Count(h)
      /\ \A j \in 1..Count(h) :
            new[key][j] = IF key \in DOMAIN map THEN Plus(map[key][j], Adc(h, j))
                          ELSE New(Chan(h, j), Adc(h, j))
  BY <1>1, <1>2, Zenon DEF Stepped
<1>4. PICK len \in Nat : len = Len(mchits) BY DEF ReadInv
<1>5. m + 1 \in 1..len /\ \A k \in 1..m : k \in 1..len BY <1>4
<1>6. \A k \in 1..(m + 1) : k = m + 1 \/ k \in 1..m OBVIOUS
<1>7. \A k \in 1..(m + 1) : Key(mchits[k]) \in DOMAIN new
  BY <1>1, <1>2, <1>3, <1>6, Zenon DEF Exactly
<1>8. ASSUME NEW k0 \in DOMAIN new, k0 # key
      PROVE  \E n \in ChannelHits(k0, m + 1) :
                /\ \A k \in ChannelHits(k0, m + 1) : n <= k
                /\ Digis(new[k0], n, ChannelHits(k0, m + 1))
  <2>1. k0 \in DOMAIN map /\ new[k0] = map[k0] BY <1>3, <1>8, Zenon
  <2>2. ChannelHits(k0, m + 1) = ChannelHits(k0, m) BY <1>1, <1>2, <1>8, ChannelHitsNext
  <2> QED BY <2>1, <2>2, Zenon DEF Exactly
<1>9. PICK C : C = ChannelHits(key, m) OBVIOUS
<1>10. C \subseteq 1..m /\ ChannelHits(key, m + 1) = C \cup {m + 1}
  BY <1>1, <1>2, <1>9, ChannelHitsNext
<1>11. \E n \in C \cup {m + 1} :
           (\A k \in C \cup {m + 1} : n <= k) /\ Digis(new[key], n, C \cup {m + 1})
  <2>1. CASE key \in DOMAIN map
    <3>1. PICK n \in C : (\A k \in C : n <= k) /\ Digis(map[key], n, C)
      BY <1>9, <2>1, Zenon DEF Exactly
    <3>2. n \in 1..m /\ Key(mchits[n]) = key BY <1>9, <1>10, <3>1, Zenon DEF ChannelHits
    <3>3. Same(mchits[n], h) BY <1>1, <1>2, <1>4, <1>5, <3>2, MCHitsValid, Zenon
    <3>4. /\ Count(mchits[n]) = Count(h)
          /\ \A j : Chan(mchits[n], j) = Chan(h, j) /\ Adc(mchits[n], j) = Adc(h, j)
      BY <3>3, SameSensors
    <3>5. \A k \in C \cup {m + 1} : n <= k BY <1>10, <3>1, <3>2
    <3>6. ASSUME NEW j \in 1..Count(h)
          PROVE  /\ new[key][j].chan = Chan(h, j) /\ new[key][j].t = <<n, Adc(h, j)>>
                 /\ Sums(new[key][j].q, C \cup {m + 1}, Adc(h, j))
      <4>1. PICK d : d = map[key][j] OBVIOUS
      <4>2. d.chan = Chan(h, j) /\ d.t = <<n, Adc(h, j)>> /\ Sums(d.q, C, Adc(h, j))
        BY <3>1, <3>4, <3>6, <4>1, Zenon DEF Digis
      <4>3. new[key][j] = Plus(d, Adc(h, j)) BY <1>3, <2>1, <3>6, <4>1, Zenon
      <4>4. /\ new[key][j].chan = d.chan /\ new[key][j].t = d.t
            /\ new[key][j].q = Append(d.q, <<m + 1, Adc(h, j)>>)
        BY <4>3 DEF Plus
      <4>5. Sums(Append(d.q, <<m + 1, Adc(h, j)>>), C \cup {m + 1}, Adc(h, j))
        BY <1>10, <4>2, SumsNext
      <4> QED BY <4>2, <4>4, <4>5, Zenon
    <3>7. Digis(new[key], n, C \cup {m + 1}) BY <1>3, <3>4, <3>6, Zenon DEF Digis
    <3> QED BY <3>1, <3>5, <3>7, Zenon
  <2>2. CASE key \notin DOMAIN map
    <3>1. C = {}
      <4> SUFFICES ASSUME NEW x \in C PROVE FALSE BY Zenon
      <4>1. x \in 1..m /\ Key(mchits[x]) = key BY <1>9, Zenon DEF ChannelHits
      <4> QED BY <2>2, <4>1, Zenon DEF Exactly
    <3>2. C \cup {m + 1} = {m + 1} BY <3>1
    <3>3. ASSUME NEW j \in 1..Count(h)
          PROVE  /\ new[key][j].chan = Chan(h, j) /\ new[key][j].t = <<m + 1, Adc(h, j)>>
                 /\ Sums(new[key][j].q, {m + 1}, Adc(h, j))
      <4>1. new[key][j] = New(Chan(h, j), Adc(h, j)) BY <1>3, <2>2, <3>3, Zenon
      <4>2. /\ new[key][j].chan = Chan(h, j) /\ new[key][j].t = <<m + 1, Adc(h, j)>>
            /\ new[key][j].q = <<<<m + 1, Adc(h, j)>>>>
        BY <4>1 DEF New
      <4>3. m + 1 \in Nat OBVIOUS
      <4>4. Sums(<<<<m + 1, Adc(h, j)>>>>, {m + 1}, Adc(h, j)) BY <4>3, SumsOne
      <4> QED BY <4>2, <4>4, Zenon
    <3>4. Digis(new[key], m + 1, {m + 1}) BY <1>1, <1>3, <3>3, Zenon DEF Digis
    <3>5. m + 1 <= m + 1 OBVIOUS
    <3> QED BY <3>2, <3>4, <3>5, Zenon
  <2> QED BY <2>1, <2>2
<1>12. ASSUME NEW k0 \in DOMAIN new
       PROVE  \E n \in ChannelHits(k0, m + 1) :
                /\ \A k \in ChannelHits(k0, m + 1) : n <= k
                /\ Digis(new[k0], n, ChannelHits(k0, m + 1))
  BY <1>8, <1>10, <1>11, Zenon
<1> QED BY <1>7, <1>12, Zenon DEF Exactly

\* In an exact map the digi hits of the hit's channel are as many as it has
\* sensors.
LEMMA ExactCount ==
    ASSUME ReadInv, NEW m \in Nat, m < Len(mchits), NEW map, Exactly(map, m),
           NEW h, h = mchits[m + 1], Key(h) \in DOMAIN map
    PROVE  /\ DOMAIN map[Key(h)] = 1..Count(h)
           /\ \E n \in 1..m : Same(mchits[n], h)
<1>1. PICK len \in Nat : len = Len(mchits) BY DEF ReadInv
<1>2. m + 1 \in 1..len /\ \A k \in 1..m : k \in 1..len BY <1>1
<1>3. PICK n \in 1..m : Key(mchits[n]) = Key(h) /\ DOMAIN map[Key(h)] = 1..Count(mchits[n])
  BY Zenon DEF Exactly, ChannelHits, Digis
<1>4. Same(mchits[n], h) BY <1>1, <1>2, <1>3, MCHitsValid, Zenon
<1>5. Count(mchits[n]) = Count(h) BY <1>4, SameSensors
<1> QED BY <1>3, <1>4, <1>5, Zenon

\* A map with a value replaced.
LEMMA ReplacedIs ==
    ASSUME NEW map, NEW k \in DOMAIN map, NEW v, NEW new, new = [map EXCEPT ![k] = v]
    PROVE  /\ DOMAIN new = DOMAIN map \cup {k} /\ new[k] = v
           /\ \A x \in DOMAIN map : x # k => new[x] = map[x]
OBVIOUS

\* Each factory's pass is such a step: the internal veto.
LEMMA IntVetoSteps ==
    ASSUME ReadInv, DigitizeIntVeto, NEW m \in Nat, ih = m + 1, Exactly(m_map, m),
           NEW new, new = m_map'
    PROVE  Stepped(m_map, new)
<1>1. det = "intveto" /\ ih <= Len(mchits) BY DEF DigitizeIntVeto
<1>2. PICK h : h = mchits[m + 1] OBVIOUS
<1>3. PICK c : c = IntVetoComponent(h.x) OBVIOUS
<1>4. PICK key : key = Key(h) OBVIOUS
<1>5. key = <<h.sector, Layer(h), c>> BY <1>1, <1>3, <1>4 DEF Key
<1>6. PICK made : made = IntVetoNew(c) OBVIOUS
<1>7. PICK len \in Nat : len = Len(mchits) BY DEF ReadInv
<1>8. m + 1 \in 1..len /\ m < len BY <1>1, <1>7
<1>9. mc \in MCTypes /\ Valid(h) BY <1>2, <1>7, <1>8, MCHitsValid, Zenon
<1>10. /\ DOMAIN made = 1..Len(made) /\ made # <<>>
       /\ \A j \in 1..Len(made) : made[j][3] = IntVetoAdds(c)[j]
  BY <1>1, <1>3, <1>6, <1>9, IntVetoSensors
<1>11. /\ Count(h) = Len(made) /\ \A j : Adc(h, j) = made[j][3]
       /\ \A j : Chan(h, j) = <<h.sector, Layer(h), made[j][1], made[j][2]>>
  BY <1>1, <1>3, <1>6 DEF Count, Adc, Chan
<1>12. \/ /\ key \notin DOMAIN m_map
          /\ new = Put(m_map, key, [k \in DOMAIN made |->
                       New(<<h.sector, Layer(h), made[k][1], made[k][2]>>, made[k][3])])
       \/ /\ key \in DOMAIN m_map
          /\ new = [m_map EXCEPT ![key] =
                       [k \in DOMAIN m_map[key] |-> Plus(m_map[key][k], IntVetoAdds(c)[k])]]
  <2>1. h = H BY <1>2, Zenon DEF H
  <2>2. Layer(h) = IF mc = "BDXmini_V1" /\ H.system = "BDXMINI_INTVETO" THEN 1 ELSE 0
    BY <2>1, Zenon DEF Layer
  <2>3. key = <<H.sector, IF mc = "BDXmini_V1" /\ H.system = "BDXMINI_INTVETO" THEN 1 ELSE 0,
                IntVetoComponent(H.x)>>
    BY <1>3, <1>5, <2>1, <2>2, Zenon
  <2>4. c = IntVetoComponent(H.x) /\ made = IntVetoNew(IntVetoComponent(H.x))
    BY <1>3, <1>6, <2>1, Zenon
  <2>5. \/ /\ key \notin DOMAIN m_map
           /\ new = IF made = <<>> THEN m_map ELSE
                    Put(m_map, key, [k \in DOMAIN made |->
                        New(<<H.sector, Layer(h), made[k][1], made[k][2]>>, made[k][3])])
        \/ /\ key \in DOMAIN m_map
           /\ new = [m_map EXCEPT ![key] =
                        [k \in DOMAIN m_map[key] |-> Plus(m_map[key][k], IntVetoAdds(c)[k])]]
    BY <2>2, <2>3, <2>4, Zenon DEF DigitizeIntVeto
  <2> QED BY <1>10, <2>1, <2>5, Zenon
<1>13. CASE key \notin DOMAIN m_map
  <2>1. PICK v : v = [k \in DOMAIN made |->
                       New(<<h.sector, Layer(h), made[k][1], made[k][2]>>, made[k][3])]
    OBVIOUS
  <2>2. /\ DOMAIN v = 1..Count(h) /\ \A j \in 1..Count(h) : v[j] = New(Chan(h, j), Adc(h, j))
    BY <1>10, <1>11, <2>1, Zenon
  <2>3. new = Put(m_map, key, v) BY <1>12, <1>13, <2>1, Zenon
  <2>4. /\ DOMAIN new = DOMAIN m_map \cup {key} /\ new[key] = v
        /\ \A x \in DOMAIN m_map : x # key => new[x] = m_map[x]
    BY ONLY <2>3 DEF Put
  <2> QED BY <1>2, <1>4, <1>13, <2>2, <2>4, Zenon DEF Stepped
<1>14. CASE key \in DOMAIN m_map
  <2>1. PICK v : v = [k \in DOMAIN m_map[key] |-> Plus(m_map[key][k], IntVetoAdds(c)[k])]
    OBVIOUS
  <2>2. DOMAIN m_map[key] = 1..Count(h) BY <1>2, <1>4, <1>7, <1>8, <1>14, ExactCount
  <2>3. /\ DOMAIN v = 1..Count(h) /\ \A j \in 1..Count(h) : v[j] = Plus(m_map[key][j], Adc(h, j))
    BY <1>10, <1>11, <2>1, <2>2, Zenon
  <2>4. new = [m_map EXCEPT ![key] = v] BY <1>12, <1>14, <2>1, Zenon
  <2>5. /\ DOMAIN new = DOMAIN m_map \cup {key} /\ new[key] = v
        /\ \A x \in DOMAIN m_map : x # key => new[x] = m_map[x]
    BY <1>14, <2>4, ReplacedIs
  <2> QED BY <1>2, <1>4, <1>14, <2>3, <2>5, Zenon DEF Stepped
<1> QED BY <1>13, <1>14

\* The external veto.
LEMMA ExtVetoSteps ==
    ASSUME ReadInv, DigitizeExtVeto, NEW m \in Nat, ih = m + 1, Exactly(m_map, m),
           NEW new, new = m_map'
    PROVE  Stepped(m_map, new)
<1>1. det = "extveto" /\ ih <= Len(mchits) BY DEF DigitizeExtVeto
<1>2. PICK h : h = mchits[m + 1] OBVIOUS
<1>3. PICK c : c = ExtVetoComponent(h.x) OBVIOUS
<1>4. PICK key : key = Key(h) OBVIOUS
<1>5. key = <<h.sector, 0, c>> BY <1>1, <1>3, <1>4 DEF Key
<1>6. /\ Count(h) = (IF mc = "CATANIA_V2" /\ h.x = 1 THEN 2 ELSE 1)
      /\ \A j : Adc(h, j) = j /\ Chan(h, j) = <<h.sector, 0, c, j>>
  BY <1>1, <1>3 DEF Count, Adc, Chan
<1>7. PICK len \in Nat : len = Len(mchits) BY DEF ReadInv
<1>8. m < len BY <1>1, <1>7
<1>9. \/ /\ key \notin DOMAIN m_map
         /\ new = Put(m_map, key, [r \in 1..Count(h) |-> New(<<h.sector, 0, c, r>>, r)])
      \/ /\ key \in DOMAIN m_map
         /\ new = [m_map EXCEPT ![key] = [r \in DOMAIN m_map[key] |->
                       IF r <= Count(h) THEN Plus(m_map[key][r], r) ELSE m_map[key][r]]]
  <2>1. h = H BY <1>2, Zenon DEF H
  <2>2. Count(h) = IF TwoReadouts THEN 2 ELSE 1 BY <1>6, <2>1, Zenon DEF TwoReadouts
  <2>3. key = <<H.sector, 0, ExtVetoComponent(H.x)>> BY <1>3, <1>5, <2>1, Zenon
  <2>4. c = ExtVetoComponent(H.x) BY <1>3, <2>1, Zenon
  <2>5. \/ /\ key \notin DOMAIN m_map
           /\ new = Put(m_map, key, [r \in 1..Count(h) |-> New(<<H.sector, 0, c, r>>, r)])
        \/ /\ key \in DOMAIN m_map
           /\ new = [m_map EXCEPT ![key] = [r \in DOMAIN m_map[key] |->
                         IF r <= Count(h) THEN Plus(m_map[key][r], r) ELSE m_map[key][r]]]
    BY <2>2, <2>3, <2>4, Zenon DEF DigitizeExtVeto
  <2> QED BY <2>1, <2>5, Zenon
<1>10. CASE key \notin DOMAIN m_map
  <2>1. PICK v : v = [r \in 1..Count(h) |-> New(<<h.sector, 0, c, r>>, r)] OBVIOUS
  <2>2. /\ DOMAIN v = 1..Count(h) /\ \A j \in 1..Count(h) : v[j] = New(Chan(h, j), Adc(h, j))
    BY <1>6, <2>1, Zenon
  <2>3. new = Put(m_map, key, v) BY <1>9, <1>10, <2>1, Zenon
  <2>4. /\ DOMAIN new = DOMAIN m_map \cup {key} /\ new[key] = v
        /\ \A x \in DOMAIN m_map : x # key => new[x] = m_map[x]
    BY ONLY <2>3 DEF Put
  <2> QED BY <1>2, <1>4, <1>10, <2>2, <2>4, Zenon DEF Stepped
<1>11. CASE key \in DOMAIN m_map
  <2>1. PICK v : v = [r \in DOMAIN m_map[key] |->
                        IF r <= Count(h) THEN Plus(m_map[key][r], r) ELSE m_map[key][r]]
    OBVIOUS
  <2>2. DOMAIN m_map[key] = 1..Count(h) BY <1>2, <1>4, <1>7, <1>8, <1>11, ExactCount
  <2>3. Count(h) \in Nat BY <1>6
  <2>4. \A r \in 1..Count(h) : r <= Count(h) BY <2>3
  <2>5. /\ DOMAIN v = 1..Count(h) /\ \A j \in 1..Count(h) : v[j] = Plus(m_map[key][j], Adc(h, j))
    BY <1>6, <2>1, <2>2, <2>4, Zenon
  <2>6. new = [m_map EXCEPT ![key] = v] BY <1>9, <1>11, <2>1, Zenon
  <2>7. /\ DOMAIN new = DOMAIN m_map \cup {key} /\ new[key] = v
        /\ \A x \in DOMAIN m_map : x # key => new[x] = m_map[x]
    BY <1>11, <2>6, ReplacedIs
  <2> QED BY <1>2, <1>4, <1>11, <2>5, <2>7, Zenon DEF Stepped
<1> QED BY <1>10, <1>11

\* The paddles.
LEMMA PaddlesStep ==
    ASSUME ReadInv, DigitizePaddles, NEW m \in Nat, ih = m + 1, Exactly(m_map, m),
           NEW new, new = m_map'
    PROVE  Stepped(m_map, new)
<1>1. det = "paddles" BY DEF DigitizePaddles
<1>2. PICK h : h = mchits[m + 1] OBVIOUS
<1>3. PICK key : key = Key(h) OBVIOUS
<1>4. key = <<h.sector, h.x>> BY <1>1, <1>3 DEF Key
<1>5. /\ Count(h) = 1 /\ \A j : Adc(h, j) = 1 /\ Chan(h, j) = <<PaddleId(h.x)>>
  BY <1>1 DEF Count, Adc, Chan
<1>6. \/ key \notin DOMAIN m_map /\ new = Put(m_map, key, <<New(<<PaddleId(h.x)>>, 1)>>)
      \/ key \in DOMAIN m_map /\ new = [m_map EXCEPT ![key] = <<Plus(m_map[key][1], 1)>>]
  BY <1>2, <1>4, Zenon DEF DigitizePaddles, H
<1>7. \A x : DOMAIN <<x>> = 1..1 /\ <<x>>[1] = x OBVIOUS
<1>8. \A j \in 1..1 : j = 1 OBVIOUS
<1>9. CASE key \notin DOMAIN m_map
  <2>1. PICK v : v = <<New(<<PaddleId(h.x)>>, 1)>> OBVIOUS
  <2>2. DOMAIN v = 1..1 /\ \A j \in 1..1 : v[j] = New(Chan(h, j), Adc(h, j))
    BY <1>5, <1>7, <1>8, <2>1, Zenon
  <2>3. new = Put(m_map, key, v) BY <1>6, <1>9, <2>1, Zenon
  <2>4. /\ DOMAIN new = DOMAIN m_map \cup {key} /\ new[key] = v
        /\ \A x \in DOMAIN m_map : x # key => new[x] = m_map[x]
    BY ONLY <2>3 DEF Put
  <2> QED BY <1>2, <1>3, <1>5, <1>9, <2>2, <2>4, Zenon DEF Stepped
<1>10. CASE key \in DOMAIN m_map
  <2>1. PICK v : v = <<Plus(m_map[key][1], 1)>> OBVIOUS
  <2>2. DOMAIN v = 1..1 /\ \A j \in 1..1 : v[j] = Plus(m_map[key][j], Adc(h, j))
    BY <1>5, <1>7, <1>8, <2>1, Zenon
  <2>3. new = [m_map EXCEPT ![key] = v] BY <1>6, <1>10, <2>1, Zenon
  <2>4. /\ DOMAIN new = DOMAIN m_map \cup {key} /\ new[key] = v
        /\ \A x \in DOMAIN m_map : x # key => new[x] = m_map[x]
    BY <1>10, <2>3, ReplacedIs
  <2> QED BY <1>2, <1>3, <1>5, <1>10, <2>2, <2>4, Zenon DEF Stepped
<1> QED BY <1>9, <1>10

\* The calorimeter, when the digi hit used last is that of the hit's crystal.
LEMMA CalorimeterSteps ==
    ASSUME DigitizeCalorimeter, mc # "CATANIA_V1", NEW h, h = mchits[ih],
           Key(h) \in DOMAIN m_map => last = Key(h) /\ DOMAIN m_map[Key(h)] = 1..Count(h),
           NEW new, new = m_map'
    PROVE  Stepped(m_map, new) /\ last' = Key(h)
<1>1. det = "calorimeter" BY DEF DigitizeCalorimeter
<1>2. PICK key : key = Key(h) OBVIOUS
<1>3. key = <<CaloIndex(h)[1], CaloIndex(h)[2], CaloIndex(h)[3], 1>> BY <1>1, <1>2 DEF Key
<1>4. Count(h) = 1 /\ \A j : Adc(h, j) = 1 /\ Chan(h, j) = key
  BY <1>1, <1>2 DEF Count, Adc, Chan
<1>5. h = H BY DEF H
<1>6. key = <<CaloIndex(H)[1], CaloIndex(H)[2], CaloIndex(H)[3], 1>> BY <1>3, <1>5, Zenon
<1>7. /\ new = IF key \in DOMAIN m_map THEN [m_map EXCEPT ![last] = <<Plus(m_map[last][1], 1)>>]
               ELSE Put(m_map, key, <<New(key, 1)>>)
      /\ last' = IF key \in DOMAIN m_map THEN last ELSE key
  BY <1>6, Zenon DEF DigitizeCalorimeter
<1>8. last' = key BY <1>2, <1>7, Zenon
<1>9. \A x : DOMAIN <<x>> = 1..1 /\ <<x>>[1] = x OBVIOUS
<1>10. \A j \in 1..1 : j = 1 OBVIOUS
<1>11. CASE key \notin DOMAIN m_map
  <2>1. PICK v : v = <<New(key, 1)>> OBVIOUS
  <2>2. DOMAIN v = 1..1 /\ \A j \in 1..1 : v[j] = New(Chan(h, j), Adc(h, j))
    BY <1>4, <1>9, <1>10, <2>1, Zenon
  <2>3. new = Put(m_map, key, v) BY <1>7, <1>11, <2>1, Zenon
  <2>4. /\ DOMAIN new = DOMAIN m_map \cup {key} /\ new[key] = v
        /\ \A x \in DOMAIN m_map : x # key => new[x] = m_map[x]
    BY ONLY <2>3 DEF Put
  <2>5. Stepped(m_map, new) BY <1>2, <1>4, <1>11, <2>2, <2>4, Zenon DEF Stepped
  <2> QED BY <1>2, <1>8, <2>5
<1>12. CASE key \in DOMAIN m_map
  <2>1. PICK v : v = <<Plus(m_map[key][1], 1)>> OBVIOUS
  <2>2. DOMAIN v = 1..1 /\ \A j \in 1..1 : v[j] = Plus(m_map[key][j], Adc(h, j))
    BY <1>4, <1>9, <1>10, <2>1, Zenon
  <2>3. new = [m_map EXCEPT ![key] = v] BY <1>2, <1>7, <1>12, <2>1, Zenon
  <2>4. /\ DOMAIN new = DOMAIN m_map \cup {key} /\ new[key] = v
        /\ \A x \in DOMAIN m_map : x # key => new[x] = m_map[x]
    BY <1>12, <2>3, ReplacedIs
  <2>5. Stepped(m_map, new) BY <1>2, <1>4, <1>12, <2>2, <2>4, Zenon DEF Stepped
  <2> QED BY <1>2, <1>8, <2>5
<1> QED BY <1>11, <1>12

\* Wherever the calorimeter's charges go, there is one digi hit to a crystal.
LEMMA CrystalPlus ==
    ASSUME NEW map, NEW m \in Nat, ih = m + 1, OnePerCrystal(map, m + 1),
           NEW key \in DOMAIN map, NEW a \in 1..8, NEW new,
           new = [map EXCEPT ![key] = <<Plus(map[key][1], a)>>]
    PROVE  OnePerCrystal(new, m + 1) /\ DOMAIN new = DOMAIN map
<1>1. PICK S : S = (1..(m + 1)) \X (1..8) OBVIOUS
<1>2. PICK d : d = map[key][1] OBVIOUS
<1>3. d.chan = key /\ d.q \in Seq(S) BY <1>1, <1>2, Zenon DEF OnePerCrystal
<1>4. PICK p : p = <<m + 1, a>> OBVIOUS
<1>5. p \in S BY <1>1, <1>4
<1>6. PICK v : v = <<Plus(d, a)>> OBVIOUS
<1>7. DOMAIN v = 1..1 /\ v[1] = Plus(d, a) BY <1>6
<1>8. v[1].chan = d.chan /\ v[1].q = Append(d.q, p) BY <1>4, <1>7 DEF Plus
<1>9. Append(d.q, p) \in Seq(S) BY <1>3, <1>5
<1>10. new = [map EXCEPT ![key] = v] BY <1>2, <1>6, Zenon
<1>11. DOMAIN new = DOMAIN map /\ new[key] = v /\ \A x \in DOMAIN map : x # key => new[x] = map[x]
  BY ONLY <1>10, key \in DOMAIN map
<1> QED BY <1>1, <1>3, <1>7, <1>8, <1>9, <1>11, Zenon DEF OnePerCrystal

\* And so when it is made.
LEMMA CrystalNew ==
    ASSUME NEW map, NEW m \in Nat, ih = m + 1, OnePerCrystal(map, m + 1),
           NEW key, NEW a \in 1..8, NEW new, new = Put(map, key, <<New(key, a)>>)
    PROVE  OnePerCrystal(new, m + 1) /\ DOMAIN new = DOMAIN map \cup {key}
<1>1. PICK S : S = (1..(m + 1)) \X (1..8) OBVIOUS
<1>2. PICK p : p = <<m + 1, a>> OBVIOUS
<1>3. p \in S BY <1>1, <1>2
<1>4. PICK v : v = <<New(key, a)>> OBVIOUS
<1>5. DOMAIN v = 1..1 /\ v[1] = New(key, a) BY <1>4
<1>6. v[1].chan = key /\ v[1].q = <<p>> BY <1>2, <1>5 DEF New
<1>7. <<p>> \in Seq(S) BY <1>3
<1>8. new = Put(map, key, v) BY <1>4, Zenon
<1>9. /\ DOMAIN new = DOMAIN map \cup {key} /\ new[key] = v
      /\ \A x \in DOMAIN map : x # key => new[x] = map[x]
  BY ONLY <1>8 DEF Put
<1>10. ASSUME NEW x \in DOMAIN new
       PROVE  /\ DOMAIN new[x] = 1..1 /\ new[x][1].chan = x /\ new[x][1].q \in Seq(S)
  <2>1. CASE x = key BY <1>5, <1>6, <1>7, <1>9, <2>1, Zenon
  <2>2. CASE x # key
    <3>1. x \in DOMAIN map /\ new[x] = map[x] BY <1>9, <1>10, <2>2, Zenon
    <3> QED BY <1>1, <3>1, Zenon DEF OnePerCrystal
  <2> QED BY <2>1, <2>2
<1> QED BY <1>1, <1>9, <1>10, Zenon DEF OnePerCrystal

\* The calorimeter's pass in all cases.
LEMMA CalorimeterPass ==
    ASSUME DigitizeCalorimeter, NEW m \in Nat, ih = m + 1, OnePerCrystal(m_map, m),
           DOMAIN m_map # {} => last \in DOMAIN m_map,
           NEW new, new = m_map'
    PROVE  OnePerCrystal(new, m + 1) /\ last' \in DOMAIN new
<1>1. OnePerCrystal(m_map, m + 1)
  <2>1. (1..m) \X (1..8) \subseteq (1..(m + 1)) \X (1..8) OBVIOUS
  <2>2. Seq((1..m) \X (1..8)) \subseteq Seq((1..(m + 1)) \X (1..8)) BY <2>1
  <2> QED BY <2>2, Zenon DEF OnePerCrystal
<1>2. PICK right : right = <<CaloIndex(H)[1], CaloIndex(H)[2], CaloIndex(H)[3], 1>> OBVIOUS
<1>3. PICK left : left = <<CaloIndex(H)[1], CaloIndex(H)[2], CaloIndex(H)[3], 2>> OBVIOUS
<1>4. PICK one : one = IF right \in DOMAIN m_map
                       THEN [m_map EXCEPT ![last] = <<Plus(m_map[last][1], 1)>>]
                       ELSE Put(m_map, right, <<New(right, 1)>>)
  OBVIOUS
<1>5. PICK both : both = IF left \in DOMAIN one
                         THEN [one EXCEPT ![left] = <<Plus(one[left][1], 2)>>]
                         ELSE Put(one, left, <<New(left, 2)>>)
  OBVIOUS
<1>6. /\ new = IF mc = "CATANIA_V1" THEN both ELSE one
      /\ last' = IF mc = "CATANIA_V1" THEN left
                 ELSE IF right \in DOMAIN m_map THEN last ELSE right
  BY <1>2, <1>3, <1>4, <1>5, Zenon DEF DigitizeCalorimeter
<1>7. 1 \in 1..8 /\ 2 \in 1..8 OBVIOUS
<1>8. /\ OnePerCrystal(one, m + 1)
      /\ (IF right \in DOMAIN m_map THEN last ELSE right) \in DOMAIN one
  <2>1. CASE right \in DOMAIN m_map
    <3>1. last \in DOMAIN m_map BY <2>1
    <3>2. one = [m_map EXCEPT ![last] = <<Plus(m_map[last][1], 1)>>] BY <1>4, <2>1, Zenon
    <3>3. OnePerCrystal(one, m + 1) /\ DOMAIN one = DOMAIN m_map
      BY <1>1, <1>7, <3>1, <3>2, CrystalPlus
    <3> QED BY <2>1, <3>1, <3>3, Zenon
  <2>2. CASE right \notin DOMAIN m_map
    <3>1. one = Put(m_map, right, <<New(right, 1)>>) BY <1>4, <2>2, Zenon
    <3>2. OnePerCrystal(one, m + 1) /\ DOMAIN one = DOMAIN m_map \cup {right}
      BY <1>1, <1>7, <3>1, CrystalNew
    <3> QED BY <2>2, <3>2, Zenon
  <2> QED BY <2>1, <2>2
<1>9. OnePerCrystal(both, m + 1) /\ left \in DOMAIN both
  <2>1. CASE left \in DOMAIN one
    <3>1. both = [one EXCEPT ![left] = <<Plus(one[left][1], 2)>>] BY <1>5, <2>1, Zenon
    <3>2. OnePerCrystal(both, m + 1) /\ DOMAIN both = DOMAIN one
      BY <1>7, <1>8, <2>1, <3>1, CrystalPlus
    <3> QED BY <2>1, <3>2, Zenon
  <2>2. CASE left \notin DOMAIN one
    <3>1. both = Put(one, left, <<New(left, 2)>>) BY <1>5, <2>2, Zenon
    <3>2. OnePerCrystal(both, m + 1) /\ DOMAIN both = DOMAIN one \cup {left}
      BY <1>7, <1>8, <3>1, CrystalNew
    <3> QED BY <2>2, <3>2, Zenon
  <2> QED BY <2>1, <2>2
<1> QED BY <1>6, <1>8, <1>9, Zenon

\* Where the hits of a crystal come together, the digi hit used last is the one
\* a charge belongs to.
LEMMA LastIsRight ==
    ASSUME ReadInv, DigiInv, DigitizeCalorimeter, NoReturn, NEW m \in Nat, ih = m + 1,
           NEW h, h = mchits[ih], Key(h) \in DOMAIN m_map
    PROVE  last = Key(h) /\ DOMAIN m_map[Key(h)] = 1..Count(h)
<1>1. pc = "digitize" /\ det = "calorimeter" /\ ih <= Len(mchits) BY DEF DigitizeCalorimeter
<1>2. mchits \in Seq(MyHits) BY DEF ReadInv
<1>3. PICK len \in Nat : len = Len(mchits) /\ DOMAIN mchits = 1..len BY <1>2
<1>4. m + 1 - 1 = m /\ m < len /\ m + 1 \in 1..len /\ \A k \in 1..m : k \in 1..len
  BY <1>1, <1>3
<1>5. pc \in {"digitize", "done"} BY <1>1
<1>6. Exactly(m_map, m) /\ (ih > 1 => last = Key(mchits[m]))
  <2>1. ih - 1 = m OBVIOUS
  <2> QED BY <1>1, <1>5, <2>1, Zenon DEF DigiInv
<1>7. DOMAIN m_map[Key(h)] = 1..Count(h) /\ \E n \in 1..m : Same(mchits[n], h)
  BY <1>3, <1>4, <1>6, ExactCount
<1>8. PICK n \in 1..m : Same(mchits[n], h) BY <1>7
<1>9. m \in 1..m /\ ih > 1 /\ (n = m \/ (n < m /\ m < m + 1)) BY <1>8
<1>10. last = Key(mchits[m]) BY <1>6, <1>9
<1>11. Same(mchits[m], h)
  <2>1. CASE n = m BY <1>8, <2>1
  <2>2. CASE n < m /\ m < m + 1
    <3>1. SameChannel(n, m + 1) BY <1>8, Zenon DEF SameChannel, Same
    <3>2. SameChannel(n, m) BY <1>3, <1>4, <1>9, <2>2, <3>1, Zenon DEF NoReturn
    <3> QED BY <1>8, <3>2, Zenon DEF SameChannel, Same
  <2> QED BY <1>9, <2>1, <2>2
<1>12. Key(mchits[m]) = Key(h) BY <1>11, SameSensors
<1> QED BY <1>7, <1>10, <1>12

\* While an event is digitized the hits' channels stay what they are.
LEMMA ExactSame ==
    ASSUME mc' = mc, det' = det, mchits' = mchits
    PROVE  /\ \A map, m : Exactly(map, m) => Exactly(map, m)'
           /\ \A h : Key(h)' = Key(h)
           /\ NoReturn' <=> NoReturn
           /\ \A map, m : OnePerCrystal(map, m) => OnePerCrystal(map, m)'
<1>1. ASSUME NEW h PROVE Key(h)' = Key(h)
  <2>1. \A x : IntVetoComponent(x)' = IntVetoComponent(x) BY Zenon DEF IntVetoComponent
  <2>2. \A x : ExtVetoComponent(x)' = ExtVetoComponent(x) BY Zenon DEF ExtVetoComponent
  <2>3. CaloIndex(h)' = CaloIndex(h) BY Zenon DEF CaloIndex
  <2>4. Layer(h)' = Layer(h) BY Zenon DEF Layer
  <2> QED BY <2>1, <2>2, <2>3, <2>4, Zenon DEF Key
<1>2. ASSUME NEW h
      PROVE  Count(h)' = Count(h) /\ \A j : Chan(h, j)' = Chan(h, j) /\ Adc(h, j)' = Adc(h, j)
  <2>1. \A x : IntVetoComponent(x)' = IntVetoComponent(x) BY Zenon DEF IntVetoComponent
  <2>2. \A x : IntVetoNew(x)' = IntVetoNew(x) BY Zenon DEF IntVetoNew
  <2>3. \A x : ExtVetoComponent(x)' = ExtVetoComponent(x) BY Zenon DEF ExtVetoComponent
  <2>4. Layer(h)' = Layer(h) BY Zenon DEF Layer
  <2> QED BY <1>1, <2>1, <2>2, <2>3, <2>4, Zenon DEF Count, Chan, Adc
<1>3. ASSUME NEW key, NEW m PROVE ChannelHits(key, m)' = ChannelHits(key, m)
  BY <1>1, Zenon DEF ChannelHits
<1>4. ASSUME NEW ds, NEW n, NEW C, Digis(ds, n, C) PROVE Digis(ds, n, C)'
  <2>1. PICK h : h = mchits[n] OBVIOUS
  <2>2. Count(h)' = Count(h) /\ \A j : Chan(h, j)' = Chan(h, j) /\ Adc(h, j)' = Adc(h, j)
    BY <1>2
  <2>3. /\ DOMAIN ds = 1..Count(h)'
        /\ \A j \in 1..Count(h)' : /\ ds[j].chan = Chan(h, j)' /\ ds[j].t = <<n, Adc(h, j)'>>
                                   /\ Sums(ds[j].q, C, Adc(h, j)')
    BY <1>4, <2>1, <2>2, Zenon DEF Digis
  <2>4. mchits'[n] = h BY <2>1
  <2> QED BY <2>3, <2>4, Zenon DEF Digis, Sums
<1>5. ASSUME NEW map, NEW m, Exactly(map, m) PROVE Exactly(map, m)'
  <2>1. \A k \in 1..m : Key(mchits[k])' \in DOMAIN map
    <3> TAKE k \in 1..m
    <3>1. PICK h : h = mchits[k] OBVIOUS
    <3>2. Key(h)' = Key(h) BY <1>1
    <3> QED BY <1>5, <3>1, <3>2, Zenon DEF Exactly
  <2>2. ASSUME NEW key \in DOMAIN map
        PROVE  \E n \in ChannelHits(key, m)' :
                  /\ \A k \in ChannelHits(key, m)' : n <= k
                  /\ Digis(map[key], n, ChannelHits(key, m))'
    <3>1. PICK C : C = ChannelHits(key, m) OBVIOUS
    <3>2. ChannelHits(key, m)' = C BY <1>3, <3>1, Zenon
    <3>3. PICK n \in C : (\A k \in C : n <= k) /\ Digis(map[key], n, C)
      BY <1>5, <3>1, Zenon DEF Exactly
    <3>4. Digis(map[key], n, C)' BY <1>4, <3>3, Zenon
    <3> QED BY <3>2, <3>3, <3>4, Zenon
  <2> QED BY <2>1, <2>2, Zenon DEF Exactly
<1>6. NoReturn' <=> NoReturn
  <2>1. \A n, k : SameChannel(n, k)' <=> SameChannel(n, k) BY Zenon DEF SameChannel
  <2>2. DOMAIN mchits' = DOMAIN mchits OBVIOUS
  <2> QED BY <2>1, <2>2, Zenon DEF NoReturn
<1>7. ASSUME NEW map, NEW m, OnePerCrystal(map, m) PROVE OnePerCrystal(map, m)'
  BY <1>7, Zenon DEF OnePerCrystal
<1> QED BY <1>1, <1>5, <1>6, <1>7, Zenon

\* A pass of a factory.
LEMMA DigiStep ==
    ASSUME ReadInv, DigiInv,
           DigitizeIntVeto \/ DigitizeExtVeto \/ DigitizePaddles \/ DigitizeCalorimeter
    PROVE  DigiInv'
<1>1. Digitized BY AllDigitize
<1>2. /\ pc = "digitize" /\ pc' = "digitize" /\ ih <= Len(mchits) /\ ih' = ih + 1
      /\ mc' = mc /\ det' = det /\ mchits' = mchits
  BY <1>1 DEF Digitized
<1>3. ih \in 1..(Len(mchits) + 1) /\ mchits \in Seq(MyHits) BY <1>2 DEF ReadInv
<1>4. PICK m \in Nat : ih = m + 1 BY <1>3
<1>5. ih - 1 = m /\ ih' - 1 = m + 1 /\ ih' > 1 BY <1>2, <1>4
<1>6. pc \in {"digitize", "done"} /\ pc' \in {"digitize", "done"} /\ pc' # "done" BY <1>2
<1>7. PICK new : new = m_map' OBVIOUS
<1>8. PICK lst : lst = last' OBVIOUS
<1>9. /\ (det = "calorimeter" => NoReturn) => Exactly(m_map, m)
      /\ det = "calorimeter" =>
              /\ OnePerCrystal(m_map, m) /\ (DOMAIN m_map # {} => last \in DOMAIN m_map)
      /\ det # "calorimeter" => last = NoHit
  BY <1>5, <1>6, Zenon DEF DigiInv
<1>10. CASE det # "calorimeter"
  <2>1. DigitizeIntVeto \/ DigitizeExtVeto \/ DigitizePaddles BY <1>10 DEF DigitizeCalorimeter
  <2>2. lst = NoHit BY <1>8, <1>9, <1>10, <2>1 DEF DigitizeIntVeto, DigitizeExtVeto, DigitizePaddles
  <2>3. Exactly(m_map, m) BY <1>9, <1>10
  <2>4. Stepped(m_map, new)
    <3>1. CASE DigitizeIntVeto BY <1>4, <1>7, <2>3, <3>1, IntVetoSteps
    <3>2. CASE DigitizeExtVeto BY <1>4, <1>7, <2>3, <3>2, ExtVetoSteps
    <3>3. CASE DigitizePaddles BY <1>4, <1>7, <2>3, <3>3, PaddlesStep
    <3> QED BY <2>1, <3>1, <3>2, <3>3
  <2>5. Exactly(new, m + 1) BY <1>2, <1>4, <2>3, <2>4, ExactStep
  <2>6. Exactly(new, m + 1)' BY <1>2, <2>5, ExactSame, Zenon
  <2>7. Exactly(m_map, ih - 1)' BY <1>5, <1>7, <2>6, Zenon
  <2> QED BY <1>2, <1>6, <1>8, <1>10, <2>2, <2>7, Zenon DEF DigiInv
<1>11. CASE det = "calorimeter"
  <2>1. DigitizeCalorimeter BY <1>11 DEF DigitizeIntVeto, DigitizeExtVeto, DigitizePaddles
  <2>2. OnePerCrystal(m_map, m) /\ (DOMAIN m_map # {} => last \in DOMAIN m_map) BY <1>9, <1>11
  <2>3. OnePerCrystal(new, m + 1) /\ lst \in DOMAIN new
    BY <1>4, <1>7, <1>8, <2>1, <2>2, CalorimeterPass
  <2>4. PICK h : h = mchits[ih] OBVIOUS
  <2>5. NoReturn => Exactly(new, m + 1) /\ lst = Key(h)
    <3> SUFFICES ASSUME NoReturn PROVE Exactly(new, m + 1) /\ lst = Key(h) OBVIOUS
    <3>1. Key(h) \in DOMAIN m_map => last = Key(h) /\ DOMAIN m_map[Key(h)] = 1..Count(h)
      BY <1>4, <2>1, <2>4, LastIsRight
    <3>2. mc # "CATANIA_V1" BY DEF NoReturn
    <3>3. Stepped(m_map, new) /\ lst = Key(h)
      BY <1>7, <1>8, <2>1, <2>4, <3>1, <3>2, CalorimeterSteps
    <3>4. Exactly(m_map, m) BY <1>9
    <3> QED BY <1>2, <1>4, <3>3, <3>4, ExactStep
  <2>6. OnePerCrystal(new, m + 1)' /\ (NoReturn' => Exactly(new, m + 1)')
    BY <1>2, <2>3, <2>5, ExactSame, Zenon
  <2>7. OnePerCrystal(m_map, ih - 1)' /\ (NoReturn' => Exactly(m_map, ih - 1)')
    BY <1>5, <1>7, <2>6, Zenon
  <2>8. NoReturn' => lst = Key(mchits[ih - 1])'
    <3>1. Key(h)' = Key(h) /\ (NoReturn' <=> NoReturn) BY <1>2, ExactSame
    <3>2. mchits'[ih' - 1] = h BY <1>2, <1>4, <1>5, <2>4
    <3> QED BY <2>5, <3>1, <3>2, Zenon
  <2>9. last' \in DOMAIN m_map' BY <1>7, <1>8, <2>3
  <2> QED BY <1>2, <1>6, <1>8, <1>11, <2>7, <2>8, <2>9, Zenon DEF DigiInv
<1> QED BY <1>10, <1>11

\* The digi hits are what the MC hits up to here make of them.
LEMMA DigiInvInvariant == Spec => []DigiInv
<1>1. Init => DigiInv BY DEF Init, DigiInv
<1>2. ReadInv /\ DigiInv /\ [Next]_vars => DigiInv'
  <2> SUFFICES ASSUME ReadInv, DigiInv, [Next]_vars PROVE DigiInv' OBVIOUS
  <2>1. CASE DigitizeIntVeto \/ DigitizeExtVeto \/ DigitizePaddles \/ DigitizeCalorimeter
    BY <2>1, DigiStep
  <2>2. CASE BanksDiffer \/ BanksAgree \/ ReadHit \/ NextEvent
    <3>1. /\ pc' \in {"asked", "read"} /\ det' = det /\ m_map' = m_map /\ last' = last
      BY <2>2 DEF BanksDiffer, BanksAgree, ReadHit, NextEvent
    <3>2. pc' \notin {"digitize", "done"} /\ pc' # "done" BY <3>1
    <3> QED BY <3>1, <3>2, Zenon DEF DigiInv
  <2>3. CASE Copied
    <3>1. pc' = "digitize" /\ ih' = 1 /\ m_map' = <<>> /\ last' = NoHit BY <2>3 DEF Copied
    <3>2. DOMAIN m_map' = {} /\ ih' - 1 = 0 /\ 1..0 = {} /\ ~(ih' > 1) /\ pc' # "done" BY <3>1
    <3>3. Exactly(m_map, ih - 1)' /\ OnePerCrystal(m_map, ih - 1)'
      BY <3>2, Zenon DEF Exactly, OnePerCrystal
    <3> QED BY <3>1, <3>2, <3>3, Zenon DEF DigiInv
  <2>4. CASE Publish \/ UNCHANGED vars
    <3>1. /\ mc' = mc /\ det' = det /\ mchits' = mchits /\ ih' = ih /\ m_map' = m_map
          /\ last' = last
      BY <2>4 DEF Publish, vars
    <3>2. (pc' \in {"digitize", "done"} => pc \in {"digitize", "done"})
      BY <2>4 DEF Publish, vars
    <3>3. pc' = "done" => out' = Published(m_map)
      <4>1. CASE Publish BY <4>1, Zenon DEF Publish, Published
      <4>2. CASE UNCHANGED vars
        <5>1. pc' = pc /\ out' = out BY <4>2 DEF vars
        <5> QED BY <5>1, Zenon DEF DigiInv
      <4> QED BY <2>4, <4>1, <4>2
    <3>4. pc' = "done" => out' = Published(m_map') BY <3>1, <3>3, Zenon
    <3>5. NoReturn' <=> NoReturn BY <3>1, ExactSame
    <3>6. Exactly(m_map, ih - 1) => Exactly(m_map, ih - 1)'
      <4>1. PICK map : map = m_map OBVIOUS
      <4>2. PICK m : m = ih - 1 OBVIOUS
      <4>3. Exactly(map, m) => Exactly(map, m)' BY <3>1, ExactSame
      <4> QED BY <3>1, <4>1, <4>2, <4>3, Zenon
    <3>7. OnePerCrystal(m_map, ih - 1) => OnePerCrystal(m_map, ih - 1)'
      BY <3>1, Zenon DEF OnePerCrystal
    <3>8. Key(mchits[ih - 1])' = Key(mchits[ih - 1])
      <4>1. PICK h : h = mchits[ih - 1] OBVIOUS
      <4>2. Key(h)' = Key(h) BY <3>1, ExactSame
      <4> QED BY <3>1, <4>1, <4>2, Zenon
    <3> QED BY <3>1, <3>2, <3>4, <3>5, <3>6, <3>7, <3>8, Zenon DEF DigiInv
  <2> QED BY <2>1, <2>2, <2>3, <2>4 DEF Next
<1> QED BY <1>1, <1>2, ReadInvInvariant, PTL DEF Spec

\* A published digi hit is one in the map.
LEMMA InPublished ==
    ASSUME NEW map, NEW p
    PROVE  p \in Published(map) <=>
               \E k \in DOMAIN map : \E j \in DOMAIN map[k] : p = <<k, j, map[k][j]>>
BY DEF Published

\* The digi hits of an exact map: each is of the channel of some first hit.
LEMMA ExactDigi ==
    ASSUME ReadInv, Exactly(m_map, ih - 1), ih - 1 <= Len(mchits), ih - 1 \in Nat,
           NEW key \in DOMAIN m_map, NEW j \in DOMAIN m_map[key], NEW d, d = m_map[key][j]
    PROVE  \E n \in 1..(ih - 1), a \in 1..8 :
               /\ n \in 1..Len(mchits) /\ Key(mchits[n]) = key
               /\ \A k \in ChannelHits(key, ih - 1) : n <= k
               /\ j \in 1..Count(mchits[n]) /\ d.chan = Chan(mchits[n], j)
               /\ d.t = <<n, a>> /\ Sums(d.q, ChannelHits(key, ih - 1), a)
<1>1. PICK m \in Nat : m = ih - 1 OBVIOUS
<1>2. PICK len \in Nat : len = Len(mchits) BY DEF ReadInv
<1>3. \A k \in 1..m : k \in 1..len BY <1>1, <1>2
<1>4. PICK n \in ChannelHits(key, m) : /\ \A k \in ChannelHits(key, m) : n <= k
                                       /\ Digis(m_map[key], n, ChannelHits(key, m))
  BY <1>1, Zenon DEF Exactly
<1>5. n \in 1..m /\ Key(mchits[n]) = key BY <1>4, Zenon DEF ChannelHits
<1>6. n \in 1..Len(mchits) BY <1>2, <1>3, <1>5, Zenon
<1>7. j \in 1..Count(mchits[n]) BY <1>4, Zenon DEF Digis
<1>8. PICK h : h = mchits[n] OBVIOUS
<1>9. mc \in MCTypes /\ det \in Detectors /\ Valid(h) BY <1>6, <1>8, MCHitsValid, Zenon
<1>10. \A i \in 1..Count(h) : Adc(h, i) \in 1..8 BY <1>9, Sensors
<1>11. PICK a \in 1..8 : a = Adc(mchits[n], j) BY <1>7, <1>8, <1>10, Zenon
<1>12. /\ d.chan = Chan(mchits[n], j) /\ d.t = <<n, a>> /\ Sums(d.q, ChannelHits(key, m), a)
  BY <1>4, <1>7, <1>11, Zenon DEF Digis
<1> QED BY <1>1, <1>4, <1>5, <1>6, <1>7, <1>12, Zenon

\* The hits of a key are those of the channel.
LEMMA ChannelHitsAre ==
    ASSUME ReadInv, NEW len \in Nat, len = Len(mchits), NEW n \in 1..len
    PROVE  \A k \in 1..len : k \in ChannelHits(Key(mchits[n]), len) <=> SameChannel(n, k)
<1> TAKE k \in 1..len
<1>1. Key(mchits[n]) = Key(mchits[k]) <=> Same(mchits[n], mchits[k]) BY MCHitsValid, Zenon
<1>2. Same(mchits[n], mchits[k]) <=> SameChannel(n, k) BY Zenon DEF Same, SameChannel
<1> QED BY <1>1, <1>2, Zenon DEF ChannelHits

\* The charges of an exact digi hit add up.
LEMMA ExactAddsUp ==
    ASSUME ReadInv, NEW len \in Nat, len = Len(mchits), NEW n \in 1..len, NEW d, NEW a \in 1..8,
           \A k \in ChannelHits(Key(mchits[n]), len) : n <= k,
           d.t = <<n, a>>, Sums(d.q, ChannelHits(Key(mchits[n]), len), a)
    PROVE  AddsUp(d)
<1>1. PICK C : C = ChannelHits(Key(mchits[n]), len) OBVIOUS
<1>2. \A k \in 1..len : k \in C <=> SameChannel(n, k) BY <1>1, ChannelHitsAre
<1>3. C \subseteq 1..len BY <1>1, Zenon DEF ChannelHits
<1>4. DOMAIN mchits = 1..len BY DEF ReadInv
<1>5. C = {k \in DOMAIN mchits : SameChannel(n, k)} BY <1>2, <1>3, <1>4, Zenon
<1>6. d.t[1] = n /\ d.t[2] = a OBVIOUS
<1>7. /\ d.q \in Seq(C \X {a})
      /\ \A i, j \in 1..Len(d.q) : i < j => d.q[i][1] < d.q[j][1]
      /\ \A k \in C : \E i \in 1..Len(d.q) : d.q[i][1] = k
  BY <1>1, Zenon DEF Sums
<1>8. DOMAIN d.q = 1..Len(d.q) /\ \A i \in 1..Len(d.q) : d.q[i] \in C \X {a} BY ONLY <1>7
<1>9. \A x \in C \X {a} : x[1] \in C /\ x[2] = a OBVIOUS
<1>10. \A i \in DOMAIN d.q : d.q[i][1] \in C /\ d.q[i][2] = a BY <1>8, <1>9, Zenon
<1>11. {d.q[i][1] : i \in DOMAIN d.q} = C
  <2>1. PICK D : D = {d.q[i][1] : i \in DOMAIN d.q} OBVIOUS
  <2>2. \A x : x \in D <=> \E i \in DOMAIN d.q : x = d.q[i][1] BY <2>1
  <2>3. ASSUME NEW x \in D PROVE x \in C
    <3>1. PICK i \in DOMAIN d.q : x = d.q[i][1] BY <2>2, Zenon
    <3>2. d.q[i][1] \in C BY <1>10, Zenon
    <3> QED BY <3>1, <3>2, Zenon
  <2>4. ASSUME NEW x \in C PROVE x \in D
    <3>1. PICK i \in 1..Len(d.q) : d.q[i][1] = x BY <1>7, Zenon
    <3> QED BY <1>8, <2>2, <3>1, Zenon
  <2>5. D = C BY ONLY <2>3, <2>4
  <2> QED BY <2>1, <2>5, Zenon
<1>12. \A i, j \in DOMAIN d.q : i < j => d.q[i][1] < d.q[j][1] BY <1>7, <1>8, Zenon
<1>13. ~\E k \in 1..(n - 1) : SameChannel(n, k)
  <2> SUFFICES ASSUME NEW k \in 1..(n - 1), SameChannel(n, k) PROVE FALSE OBVIOUS
  <2>1. k \in 1..len /\ ~(n <= k) OBVIOUS
  <2> QED BY <1>1, <1>2, <2>1, Zenon
<1>14. {k \in DOMAIN mchits : SameChannel(d.t[1], k)} = C BY <1>5, <1>6, Zenon
<1>15. ~\E k \in 1..(d.t[1] - 1) : SameChannel(d.t[1], k) BY <1>6, <1>13, Zenon
<1> QED BY <1>6, <1>10, <1>11, <1>12, <1>14, <1>15, Zenon DEF AddsUp

\* The charges and times the factory holds are of hits passed by the loop.
LEMMA Types == ASSUME ReadInv, DigiInv PROVE TypeOK
<1>1. /\ mc \in MCTypes /\ det \in Detectors /\ ev \in Events[mc]
      /\ pc \in {"asked", "read", "digitize", "done"} /\ mchits \in Seq(MyHits)
  BY DEF ReadInv
<1>2. PICK len \in Nat : len = Len(Dgt) BY <1>1, Banks
<1>3. PICK n0 \in Nat : n0 = Len(mchits) BY <1>1
<1>4. ih \in 1..(len + 1) /\ n0 <= len
  <2>1. CASE pc = "asked"
    <3>1. ih = 1 /\ mchits = <<>> BY <2>1 DEF ReadInv
    <3> QED BY <1>3, <3>1
  <2>2. CASE pc = "read"
    <3>1. ih \in 1..(len + 1) /\ n0 <= ih - 1 BY <1>2, <1>3, <2>2, Zenon DEF ReadInv
    <3> QED BY <3>1
  <2>3. CASE pc \in {"digitize", "done"}
    <3>1. ih \in 1..(n0 + 1) /\ n0 <= len BY <1>2, <1>3, <2>3, Zenon DEF ReadInv
    <3> QED BY <3>1
  <2> QED BY <1>1, <2>1, <2>2, <2>3
<1>5. ASSUME pc \in {"digitize", "done"}, NEW d \in Held, NEW k \in DOMAIN d.q
      PROVE  d.q[k] \in (1..(ih - 1)) \X (1..8)
  <2>1. PICK key, j : key \in DOMAIN m_map /\ j \in DOMAIN m_map[key] /\ d = m_map[key][j]
    BY <1>5 DEF Held
  <2>2. ih \in 1..(n0 + 1) BY <1>3, <1>5, Zenon DEF ReadInv
  <2>3. PICK m \in Nat : m = ih - 1 BY <2>2
  <2>4. m <= n0 BY <2>2, <2>3
  <2>5. d.q \in Seq((1..m) \X (1..8))
    <3>1. CASE det = "calorimeter"
      <4>1. OnePerCrystal(m_map, m) BY <1>5, <2>3, <3>1, Zenon DEF DigiInv
      <4>2. DOMAIN m_map[key] = 1..1 /\ m_map[key][1].q \in Seq((1..m) \X (1..8))
        BY <2>1, <4>1, Zenon DEF OnePerCrystal
      <4>3. \A i \in 1..1 : i = 1 OBVIOUS
      <4> QED BY <2>1, <4>2, <4>3, Zenon
    <3>2. CASE det # "calorimeter"
      <4>1. Exactly(m_map, ih - 1) BY <1>5, <3>2, Zenon DEF DigiInv
      <4>2. ih - 1 <= Len(mchits) /\ ih - 1 \in Nat BY <1>3, <2>3, <2>4
      <4>3. PICK a \in 1..8 : Sums(d.q, ChannelHits(key, ih - 1), a)
        BY <2>1, <4>1, <4>2, ExactDigi
      <4>4. PICK C : C = ChannelHits(key, m) OBVIOUS
      <4>5. C \subseteq 1..m BY <4>4, Zenon DEF ChannelHits
      <4>6. d.q \in Seq(C \X {a}) BY <2>3, <4>3, <4>4, Zenon DEF Sums
      <4>7. (C \X {a}) \subseteq ((1..m) \X (1..8)) BY <4>5
      <4>8. Seq(C \X {a}) \subseteq Seq((1..m) \X (1..8)) BY <4>7
      <4> QED BY <4>6, <4>8, Zenon
    <3> QED BY <3>1, <3>2
  <2>6. PICK S : S = (1..m) \X (1..8) OBVIOUS
  <2>7. PICK q : q = d.q OBVIOUS
  <2>8. q \in Seq(S) /\ k \in DOMAIN q BY <1>5, <2>5, <2>6, <2>7, Zenon
  <2>9. q[k] \in S BY ONLY <2>8
  <2> QED BY <2>3, <2>6, <2>7, <2>9, Zenon
<1>6. last # NoHit => last \in DOMAIN m_map BY DEF DigiInv
<1> QED BY <1>1, <1>2, <1>3, <1>4, <1>5, <1>6, Zenon DEF TypeOK

\* What holds when an event is done.
LEMMA DoneExact ==
    ASSUME ReadInv, DigiInv, pc = "done"
    PROVE  /\ ih - 1 = Len(mchits) /\ Len(mchits) \in Nat /\ DOMAIN mchits = 1..Len(mchits)
           /\ out = Published(m_map)
           /\ (det = "calorimeter" => NoReturn) => Exactly(m_map, ih - 1)
           /\ det = "calorimeter" => OnePerCrystal(m_map, ih - 1)
<1>1. ih = Len(mchits) + 1 /\ mchits \in Seq(MyHits) BY DEF ReadInv
<1>2. PICK len \in Nat : len = Len(mchits) /\ DOMAIN mchits = 1..len BY <1>1
<1>3. ih - 1 = len BY <1>1, <1>2
<1>4. pc \in {"digitize", "done"} OBVIOUS
<1> QED BY <1>2, <1>3, <1>4, Zenon DEF DigiInv

\* The digi hits published for an event add up.
LEMMA AllAddUp == ASSUME ReadInv, DigiInv PROVE ChargesAddUp
<1> SUFFICES ASSUME pc = "done", det = "calorimeter" => NoReturn, NEW p \in out
             PROVE  AddsUp(p[3])
  BY Zenon DEF ChargesAddUp
<1>1. PICK len \in Nat : len = ih - 1 /\ len = Len(mchits) BY DoneExact
<1>2. Exactly(m_map, ih - 1) /\ p \in Published(m_map) BY DoneExact
<1>3. PICK key, j : key \in DOMAIN m_map /\ j \in DOMAIN m_map[key] /\ p = <<key, j, m_map[key][j]>>
  BY <1>2, InPublished
<1>4. PICK d : d = m_map[key][j] OBVIOUS
<1>5. p[3] = d BY <1>3, <1>4
<1>6. ih - 1 <= Len(mchits) /\ ih - 1 \in Nat BY <1>1
<1>7. PICK n \in 1..(ih - 1), a \in 1..8 :
        /\ Key(mchits[n]) = key /\ \A k \in ChannelHits(key, ih - 1) : n <= k
        /\ d.t = <<n, a>> /\ Sums(d.q, ChannelHits(key, ih - 1), a)
  BY <1>2, <1>3, <1>4, <1>6, ExactDigi, Zenon
<1>8. /\ n \in 1..len /\ \A k \in ChannelHits(Key(mchits[n]), len) : n <= k
      /\ d.t = <<n, a>> /\ Sums(d.q, ChannelHits(Key(mchits[n]), len), a)
  BY <1>1, <1>7, Zenon
<1>9. AddsUp(d) BY <1>1, <1>7, <1>8, ExactAddsUp, Zenon
<1> QED BY <1>5, <1>9, Zenon

\* Every hit has its digi hits.
LEMMA AllDigitized == ASSUME ReadInv, DigiInv PROVE NoHitWithoutDigi
<1> SUFFICES ASSUME pc = "done", det = "calorimeter" => NoReturn, NEW n \in DOMAIN mchits
             PROVE  \E p \in out : SameChannel(p[3].t[1], n)
  BY Zenon DEF NoHitWithoutDigi
<1>1. PICK len \in Nat : len = ih - 1 /\ len = Len(mchits) /\ DOMAIN mchits = 1..len BY DoneExact
<1>2. Exactly(m_map, len) /\ out = Published(m_map) BY <1>1, DoneExact, Zenon
<1>3. PICK key \in DOMAIN m_map : key = Key(mchits[n]) BY <1>1, <1>2, Zenon DEF Exactly
<1>4. PICK k \in ChannelHits(key, len) : Digis(m_map[key], k, ChannelHits(key, len))
  BY <1>2, Zenon DEF Exactly
<1>5. k \in 1..len /\ Key(mchits[k]) = key BY <1>4, Zenon DEF ChannelHits
<1>6. Same(mchits[k], mchits[n]) BY <1>1, <1>3, <1>5, MCHitsValid, Zenon
<1>7. SameChannel(k, n) BY <1>6, Zenon DEF Same, SameChannel
<1>8. PICK h : h = mchits[k] OBVIOUS
<1>9. mc \in MCTypes /\ det \in Detectors /\ Valid(h) BY <1>1, <1>5, <1>8, MCHitsValid, Zenon
<1>10. 1 \in 1..Count(h)
  <2>1. Count(h) \in 1..8 BY <1>9, Sensors
  <2> QED BY <2>1
<1>11. 1 \in DOMAIN m_map[key] /\ m_map[key][1].t = <<k, Adc(h, 1)>>
  BY <1>4, <1>8, <1>10, Zenon DEF Digis
<1>12. PICK p : p = <<key, 1, m_map[key][1]>> OBVIOUS
<1>13. p \in out BY <1>2, <1>11, <1>12, InPublished, Zenon
<1>14. p[3] = m_map[key][1] BY <1>12
<1>15. p[3].t[1] = k BY <1>11, <1>14
<1> QED BY <1>7, <1>13, <1>15, Zenon

\* No channel is published twice.
LEMMA AllDistinct == ASSUME ReadInv, DigiInv PROVE DistinctChannels
<1> SUFFICES ASSUME pc = "done", NEW p \in out, NEW r \in out, p[3].chan = r[3].chan PROVE p = r
  BY Zenon DEF DistinctChannels
<1>1. PICK len \in Nat : len = ih - 1 /\ len = Len(mchits) BY DoneExact
<1>2. p \in Published(m_map) /\ r \in Published(m_map) BY DoneExact
<1>3. PICK kp, jp : kp \in DOMAIN m_map /\ jp \in DOMAIN m_map[kp] /\ p = <<kp, jp, m_map[kp][jp]>>
  BY <1>2, InPublished
<1>4. PICK kr, jr : kr \in DOMAIN m_map /\ jr \in DOMAIN m_map[kr] /\ r = <<kr, jr, m_map[kr][jr]>>
  BY <1>2, InPublished
<1>5. p[3] = m_map[kp][jp] /\ r[3] = m_map[kr][jr] BY <1>3, <1>4
<1>6. m_map[kp][jp].chan = m_map[kr][jr].chan BY <1>5
<1>7. CASE det = "calorimeter"
  <2>1. OnePerCrystal(m_map, ih - 1) BY <1>7, DoneExact
  <2>2. /\ DOMAIN m_map[kp] = 1..1 /\ m_map[kp][1].chan = kp
        /\ DOMAIN m_map[kr] = 1..1 /\ m_map[kr][1].chan = kr
    BY <1>3, <1>4, <2>1, Zenon DEF OnePerCrystal
  <2>3. jp = 1 /\ jr = 1 BY <1>3, <1>4, <2>2
  <2> QED BY <1>3, <1>4, <1>6, <2>2, <2>3, Zenon
<1>8. CASE det # "calorimeter"
  <2>1. Exactly(m_map, ih - 1) BY <1>8, DoneExact
  <2>2. ih - 1 <= Len(mchits) /\ ih - 1 \in Nat BY <1>1
  <2>3. PICK n \in 1..Len(mchits) :
          /\ Key(mchits[n]) = kp /\ jp \in 1..Count(mchits[n])
          /\ m_map[kp][jp].chan = Chan(mchits[n], jp)
    <3>1. PICK d : d = m_map[kp][jp] OBVIOUS
    <3>2. PICK n \in 1..(ih - 1), a \in 1..8 :
            /\ n \in 1..Len(mchits) /\ Key(mchits[n]) = kp
            /\ jp \in 1..Count(mchits[n]) /\ d.chan = Chan(mchits[n], jp)
      BY <1>3, <2>1, <2>2, <3>1, ExactDigi
    <3> QED BY <3>1, <3>2, Zenon
  <2>4. PICK k \in 1..Len(mchits) :
          /\ Key(mchits[k]) = kr /\ jr \in 1..Count(mchits[k])
          /\ m_map[kr][jr].chan = Chan(mchits[k], jr)
    <3>1. PICK d : d = m_map[kr][jr] OBVIOUS
    <3>2. PICK k \in 1..(ih - 1), a \in 1..8 :
            /\ k \in 1..Len(mchits) /\ Key(mchits[k]) = kr
            /\ jr \in 1..Count(mchits[k]) /\ d.chan = Chan(mchits[k], jr)
      BY <1>4, <2>1, <2>2, <3>1, ExactDigi
    <3> QED BY <3>1, <3>2, Zenon
  <2>5. PICK h : h = mchits[n] OBVIOUS
  <2>6. PICK g : g = mchits[k] OBVIOUS
  <2>7. mc \in MCTypes /\ det \in Detectors /\ Valid(h) /\ Valid(g)
    BY <2>3, <2>4, <2>5, <2>6, MCHitsValid, Zenon
  <2>8. jp \in 1..Count(h) /\ jr \in 1..Count(g) /\ Chan(h, jp) = Chan(g, jr)
    BY <1>6, <2>3, <2>4, <2>5, <2>6, Zenon
  <2>9. Key(h) = Key(g) /\ jp = jr BY <1>8, <2>7, <2>8, DistinctSensors
  <2>10. kp = kr BY <2>3, <2>4, <2>5, <2>6, <2>9, Zenon
  <2> QED BY <1>3, <1>4, <2>9, <2>10, Zenon
<1> QED BY <1>7, <1>8

\* The digi hits published for an event are exactly the channels hit, each with
\* the whole charge of one of its sensors, none published twice and none left
\* out: for the vetoes and the paddles always, for the calorimeter as long as
\* the hits of a crystal come together.
THEOREM DigiHitsAreExact == Spec => []DigiHitsExact
<1>1. ReadInv /\ DigiInv => DigiHitsExact
  BY Types, AllAddUp, AllDigitized, AllDistinct DEF DigiHitsExact
<1> QED BY <1>1, ReadInvInvariant, DigiInvInvariant, PTL
=============================================================================
