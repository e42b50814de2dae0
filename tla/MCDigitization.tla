--------------------------- MODULE MCDigitization ---------------------------
(***************************************************************************)
(* Digitization for TLC: events with up to three hits in two channels of   *)
(* every detector and simulation, the raw bank in the same or the opposite *)
(* order, with and without hits that left no energy, with a raw hit        *)
(* missing and with a raw hit of another number.                           *)
(***************************************************************************)
EXTENDS Digitization, TLC

Hit(system, sector, x, y) == [system |-> system, sector |-> sector, x |-> x, y |-> y]
Pair(system, sector, x1, x2) == <<Hit(system, sector, x1, 0), Hit(system, sector, x2, 0)>>

\* Pairs of channels of the calorimeter and of the vetoes, for each simulation.
Crystals(m) ==
    CASE m = "CATANIA_V1"   -> <<Hit("crs", 100, 0, 0), Hit("crs", 100, 0, 0)>>
      [] m = "CATANIA_V2"   -> <<Hit("crs", 1, 2, 3), Hit("crs", 100, 0, 0)>>
      [] m = "JLAB_FLUX_V1" -> <<Hit("crs", 0, 0, 0), Hit("crs", 0, 0, 0)>>
      [] m = "BDXmini_V1"   -> <<Hit("crs", 502, 0, 1), Hit("crs", 500, 0, 1)>>
      [] OTHER              -> <<Hit("crs", 1, 1, 2), Hit("crs", 2, 1, 2)>>

Counters(m) ==
    CASE m = "CATANIA_V1"   -> {Pair("CATANIA_INTVETO", 0, 2, 5), Pair("CATANIA_INTVETO", 0, 3, 6),
                                Pair("CATANIA_EXTVETO", 0, 1, 12), Pair("CATANIA_PADDLES", 0, 1, 2)}
      [] m = "CATANIA_V2"   -> {Pair("CATANIA_INTVETO", 0, 5, 6), Pair("CATANIA_INTVETO", 0, 2, 1),
                                Pair("CATANIA_EXTVETO", 0, 1, 3), Pair("CATANIA_PADDLES", 0, 2, 1)}
      [] m = "JLAB_FLUX_V1" -> {Pair("JLAB_FLUX", 0, 1, 13)}
      [] m = "BDXmini_V1"   -> {<<Hit("BDXMINI_INTVETO", 0, 1, 0), Hit("BDXMINI_EXTVETO", 0, 1, 0)>>,
                                Pair("BDXMINI_INTVETO", 0, 9, 10), Pair("BDXMINI_EXTVETO", 0, 1, 10)}
      [] OTHER              -> {Pair("FULL_INTVETO", 1, 5, 2), Pair("FULL_EXTVETO", 1, 6, 4),
                                <<Hit("FULL_INTVETO", 1, 4, 0), Hit("FULL_EXTVETO", 1, 4, 0)>>}

\* Which of its two channels each hit is in.
Shapes == {<<1>>, <<1, 2, 1>>, <<1, 1, 2>>, <<2, 1, 1>>}

Numbered(shape, pair) ==
    [n \in DOMAIN shape |-> pair[shape[n]] @@ [hitn |-> n]]

\* The raw bank: in the same order or reversed, with energy in all hits but
\* those in none, and the hit number shifted by s.
RawOf(dgt, reversed, none, s) ==
    LET at(n) == IF reversed THEN Len(dgt) + 1 - n ELSE n
    IN [n \in DOMAIN dgt |-> [system |-> dgt[n].system, hitn |-> at(n) + s,
                              deposit |-> at(n) \notin none]]

Event(dgt, crs, reversed, none, s) ==
    [dgt |-> [veto |-> dgt, crs |-> crs],
     raw |-> [veto |-> RawOf(dgt, reversed, none, s), crs |-> RawOf(crs, reversed, none, s)]]

EventsOf(m) ==
    UNION {
        LET dgt == Numbered(shape, pair)
            crs == Numbered(shape, Crystals(m))
        IN {Event(dgt, crs, FALSE, {}, 0), Event(dgt, crs, TRUE, {1}, 0),
            Event(dgt, crs, TRUE, {}, 1)}
           \cup {[dgt |-> [veto |-> dgt, crs |-> crs], raw |-> [veto |-> <<>>, crs |-> <<>>]]}
        : shape \in Shapes, pair \in Counters(m)}

MCEvents == [m \in MCTypes |-> EventsOf(m)]
=============================================================================
