--------------------------- MODULE MCEventBuilder ---------------------------
(***************************************************************************)
(* A small instance of EventBuilder for TLC.  The digi hits of an event    *)
(* are those of up to two or three sensors, with charges on both sides of  *)
(* and at the thresholds, and times of which the first and the last are    *)
(* not in coincidence while both are with the one between.  One crystal    *)
(* has a pedestal larger than some of its charges; OV3 and IV3 are there.  *)
(***************************************************************************)
EXTENDS EventBuilder

Channel(s, l, c, r) == [sector |-> s, layer |-> l, component |-> c, readout |-> r]

Crystals == {Channel(0, 0, 0, 0), Channel(0, 0, 1, 0), Channel(1, 0, 0, 0)}
Gains    == [c \in Crystals |-> IF c.sector = 1 THEN 0 ELSE 2]
Peds     == [c \in Crystals |-> IF c.component = 1 THEN 42 ELSE 0]

Digi(c, q, t) == [ch |-> c, Q |-> q, T |-> t]

\* Sequences of up to one digi hit, and of two of different channels.
Lists(chs, qs, ts) ==
    {<< >>} \cup {<<Digi(c, q, t)>> : c \in chs, q \in qs, t \in ts}

Pairs(chs, qs, ts) ==
    {<<Digi(c, q, t), Digi(d, r, u)>> : c \in chs, d \in chs, q \in qs,
                                        r \in qs, t \in ts, u \in ts}
Apart(s) == \A i, k \in DOMAIN s : s[i].ch = s[k].ch => i = k

AllCalo ==
    LET chs == {Channel(0, 0, 0, 1), Channel(0, 0, 1, 1), Channel(1, 0, 0, 1),
                Channel(0, 0, 0, 2)}
    IN  Lists(chs, {5, 42, 122, 222}, {0}) \cup
        {s \in Pairs(chs, {22, 108, 122}, {0}) : Apart(s)}

Triple(q, r, s, t, u, v) ==
    <<Digi(Channel(0, 0, 0, 1), q, t), Digi(Channel(0, 0, 0, 2), r, u),
      Digi(Channel(0, 0, 0, 3), s, v)>>
AllInt ==
    LET chs == {Channel(0, 0, 0, 1), Channel(0, 0, 0, 2), Channel(0, 0, 3, 1),
                Channel(0, 1, 3, 1)}
    IN  Lists(chs, {3, 5, 6}, {60}) \cup
        {s \in Pairs(chs, {3, 4}, {0, 120}) : Apart(s)} \cup
        {Triple(q, r, s, t, u, v) : q \in {4, 6}, r \in {4, 6}, s \in {4, 6},
                                    t \in {0}, u \in {60, 120}, v \in {0, 120}} \cup
        {<<Digi(Channel(0, 0, 3, 1), q, 0), Digi(Channel(0, 0, 3, 2), r, 60)>> :
            q \in {4, 6}, r \in {4, 6}} \cup
        {<<Digi(c, 6, 0), Digi(Channel(0, l, 3, 1), 6, 60)>> :
            c \in {Channel(0, 0, 0, 1), Channel(0, 1, 0, 1)}, l \in 0..1}

AllExt ==
    LET chs == {Channel(0, 0, 0, 1), Channel(0, 0, 0, 2)}
    IN  Lists(chs, {4}, {-1, 60}) \cup
        {s \in Pairs(chs, {4, 6}, {-1, 0}) : Apart(s)}

MCTimeMin == -16

\* Words of 3 bits; the window of times is the code's.
Block(lo, hi, time) ==
    <<lo, hi, time % 8, (IF time < 0 THEN 64 + time ELSE time) \div 8>>
MCSent ==
    LET ps == {<< >>, << <<5, 1>> >>, << <<5, 1>>, <<1, 2>> >>,
               << <<6, 2>>, <<1, 6>> >>}
        bs == {<< >>, <<Block(1, 4, 16)>>, <<Block(2, 2, 17)>>,
               <<Block(1, 1, -16), Block(2, 0, -17)>>,
               <<Block(4, 4, -1), Block(4, 4, 30)>>}
        rs == {<< >>, <<7>>, <<6, 6, 1>>}
    IN  [pairs : ps, magic : BOOLEAN, blocks : bs, rest : rs]

AllUser ==
    LET us == {[N |-> k, data |-> d] : k \in {1, 2, 10}, d \in {0, 3}}
    IN  {<< >>} \cup {<<u>> : u \in us} \cup {<<u, v>> : u \in us, v \in us}

MCInputs == [calo |-> AllCalo, int |-> AllInt, ext |-> AllExt, user |-> AllUser,
             words |-> MCSent,
             cross |-> [sine : Level, signal : Level]]
MCFew ==
    [calo |-> {<< >>, <<Digi(Channel(0, 0, 0, 1), 122, 0)>>,
               <<Digi(Channel(0, 0, 0, 1), 122, 0), Digi(Channel(1, 0, 0, 1), 122, 0)>>},
     int  |-> {<< >>, <<Digi(Channel(0, 0, 0, 1), 6, 60)>>,
               <<Digi(Channel(0, 0, 3, 1), 6, 60)>>, <<Digi(Channel(0, 1, 3, 1), 6, 60)>>},
     ext  |-> {<< >>},
     user |-> {<< >>},
     words |-> {Nothing},
     cross |-> {NoCross, [sine |-> "in", signal |-> "low"]}]
=============================================================================
