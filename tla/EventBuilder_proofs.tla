------------------------- MODULE EventBuilder_proofs ------------------------
(***************************************************************************)
(* Theorems about the building of events, for any number of events and any *)
(* digi hits, trigger words and other objects in them.  Nothing is assumed *)
(* about how many hits and clusters the other factories make of them.  The *)
(* decoding of the trigger words, at the end, is for words of any width    *)
(* and rests on SentAssumption: what the DAQ sends can be told apart.      *)
(***************************************************************************)
EXTENDS EventBuilder, TLAPS

BuilderNames == {"BDXmini", "CataniaProto2", "JLabFlux", "FullMC"}

\* A sequence of lists with none of them twice.
NoneTwice(p) ==
    /\ Len(p) \in Nat
    /\ \A i \in 1..Len(p) : p[i] \in ListNames
    /\ \A i, k \in 1..Len(p) : p[i] = p[k] => i = k

\* No builder fills a list twice.
LEMMA ProgramTypes ==
    ASSUME builder \in BuilderNames, isMC \in BOOLEAN
    PROVE  NoneTwice(Program)
<1> DEFINE A == <<"calo", "int", "gen", "real">>
           B == <<"calo", "int", "waves">>
           C == <<"caloDigi", "intDigi", "extDigi", "clusters", "calo", "int", "ext", "real">>
           D == <<"caloDigi", "intDigi", "extDigi", "clusters", "calo", "int", "ext">>
           E == <<"calo", "int">>
           F == <<"gen", "calo", "clusters", "int", "ext">>
<1>1. NoneTwice(A) BY DEF NoneTwice, ListNames
<1>2. NoneTwice(B) BY DEF NoneTwice, ListNames
<1>3. NoneTwice(C) BY DEF NoneTwice, ListNames
<1>4. NoneTwice(D) BY DEF NoneTwice, ListNames
<1>5. NoneTwice(E) BY DEF NoneTwice, ListNames
<1>6. NoneTwice(F) BY DEF NoneTwice, ListNames
<1>7. Program \in {A, B, C, D, E, F} BY DEF Program, BuilderNames
<1> HIDE DEF A, B, C, D, E, F
<1> QED BY <1>1, <1>2, <1>3, <1>4, <1>5, <1>6, <1>7

-----------------------------------------------------------------------------
(***************************************************************************)
(* The lists of an event.  Those the event points to were filled in steps  *)
(* that are over, from objects that are there (Ready) and stay as they are *)
(* until the event is done.                                                *)
(***************************************************************************)
IsFunction(f, S) == f = [x \in S |-> f[x]]

TInv ==
    /\ builder \in BuilderNames /\ isMC \in BOOLEAN
    /\ pc \in {"idle", "header", "words", "fill", "built"}
    /\ step \in 1..Len(Program) + 1
    /\ IsFunction(made, Detectors) /\ IsFunction(digis, Detectors)
    /\ IsFunction(lists, ListNames)
    /\ event = [lists |-> event.lists, weight |-> event.weight, number |-> event.number]

\* The objects that are copied into list l have been made, or need no factory.
Ready(l) == DetectorOf(l) \in called \cup {"none"}

Filled(l) == l \in ListNames /\ Ready(l) /\ lists[l] = Copied(l)

ListsInv ==
    /\ event.lists \in Seq(ListNames)
    /\ \A k \in DOMAIN event.lists :
          /\ Filled(event.lists[k])
          /\ \E j \in 1..step - 1 : event.lists[k] = Program[j]
    /\ \A k, m \in DOMAIN event.lists : event.lists[k] = event.lists[m] => k = m

BInv ==
    /\ TInv
    /\ pc \in {"header", "words"} => event = NewEvent /\ step = 1
    /\ pc \in {"fill", "built"} => ListsInv /\ event.weight # 0 /\ event.number = n

\* The steps that leave the lists of the event, and what was copied into them,
\* alone.
LEMMA ListsKept ==
    ASSUME ListsInv, TInv, called \subseteq called', event'.lists = event.lists,
           UNCHANGED <<builder, isMC, n, step, lists, other>>,
           \A d \in called : made'[d] = made[d] /\ digis'[d] = digis[d]
    PROVE  ListsInv'
<1>1. Program' = Program BY DEF Program
<1>2. ASSUME NEW l \in ListNames, Filled(l) PROVE Filled(l)'
  <2>1. DetectorOf(l)' = DetectorOf(l) BY DEF DetectorOf
  <2>2. Objects(l)' = Objects(l)
    <3>1. CASE l = "clusters"
      <4>1. "calo" \in called BY <1>2, <3>1 DEF Filled, Ready, DetectorOf
      <4>2. Objects(l) = Len(CalorimeterClusters(made["calo"])) BY <3>1 DEF Objects, Detectors
      <4>3. Objects(l)' = Len(CalorimeterClusters(made["calo"]))'
        BY <3>1 DEF Objects, Detectors
      <4>4. CalorimeterClusters(made["calo"])' = CalorimeterClusters(made["calo"]) BY <4>1
      <4> QED BY <4>2, <4>3, <4>4
    <3>2. CASE l \in {"caloDigi", "intDigi", "extDigi"}
      BY <1>2, <3>2 DEF Filled, Ready, DetectorOf, Objects, Detectors
    <3>3. CASE l \in Detectors
      BY <1>2, <3>3 DEF Filled, Ready, DetectorOf, Objects, Detectors
    <3>4. CASE l \in {"gen", "real", "waves"} BY <3>4 DEF Objects, Detectors
    <3> QED BY <3>1, <3>2, <3>3, <3>4 DEF ListNames, Detectors
  <2> QED BY <1>2, <2>1, <2>2 DEF Filled, Ready, Copied
<1>3. \A k \in DOMAIN event.lists : event.lists[k] \in ListNames BY DEF ListsInv
<1> QED BY <1>1, <1>2, <1>3 DEF ListsInv

\* One list is filled and the event points to it.
LEMMA ListFilled ==
    ASSUME TInv, ListsInv, event.weight # 0, FillList
    PROVE  ListsInv' /\ event'.weight # 0 /\ event'.number = event.number
<1> DEFINE l == Program[step]
           wanted == l = "waves" => KeepWaveforms
<1>1. /\ step \in 1..Len(Program) /\ step' = step + 1
      /\ Ready(l)
      /\ lists' = [lists EXCEPT ![l] = IF wanted THEN Copied(l) ELSE << >>]
      /\ event' = IF wanted THEN [event EXCEPT !.lists = Append(@, l)] ELSE event
      /\ UNCHANGED <<builder, isMC, n, digis, called, made, other>>
  BY DEF FillList, TInv, jobVars, Ready
<1>2. NoneTwice(Program) /\ Program' = Program BY <1>1, ProgramTypes DEF TInv, Program
<1>3. l \in ListNames BY <1>1, <1>2 DEF NoneTwice
<1>4. \A m : Objects(m)' = Objects(m) /\ Ready(m)' = Ready(m) /\ Copied(m)' = Copied(m)
  BY <1>1 DEF Objects, Ready, DetectorOf, Copied
<1>5. ASSUME NEW k \in DOMAIN event.lists, NEW m, m = event.lists[k]
      PROVE  m # l /\ Filled(m)'
  <2>1. PICK j \in 1..step - 1 : m = Program[j] BY <1>5 DEF ListsInv
  <2>2. j \in 1..Len(Program) /\ j # step BY <1>1, <1>2 DEF NoneTwice
  <2>3. m # l BY <1>1, <1>2, <2>1, <2>2 DEF NoneTwice
  <2>4. Filled(m) BY <1>5 DEF ListsInv
  <2>5. lists'[m] = lists[m] BY <1>1, <2>3, <2>4 DEF Filled
  <2> QED BY <1>4, <2>3, <2>4, <2>5 DEF Filled
<1> HIDE DEF l
<1>6. \A k \in DOMAIN event.lists :
         /\ event.lists[k] \in ListNames
         /\ \E j \in 1..step' - 1 : event.lists[k] = Program[j]
  <2> TAKE k \in DOMAIN event.lists
  <2>1. PICK j \in 1..step - 1 : event.lists[k] = Program[j] BY DEF ListsInv
  <2>2. j \in 1..step' - 1 BY <1>1
  <2> QED BY <2>1, <2>2 DEF ListsInv, Filled
<1>7. \A k, m \in DOMAIN event.lists : event.lists[k] = event.lists[m] => k = m
  BY DEF ListsInv
<1>8. event.lists \in Seq(ListNames) BY DEF ListsInv
<1>9. CASE ~wanted
  <2>1. event' = event BY <1>1, <1>9
  <2>2. \A k \in DOMAIN event'.lists : Filled(event.lists[k])' BY <1>5, <2>1
  <2> QED BY <1>2, <1>6, <1>7, <1>8, <2>1, <2>2 DEF ListsInv
<1>10. CASE wanted
  <2>1. /\ lists'[l] = Copied(l)
        /\ event'.lists = Append(event.lists, l) /\ event'.weight = event.weight
        /\ event'.number = event.number
    BY <1>1, <1>3, <1>10 DEF TInv, IsFunction
  <2>2. ASSUME NEW m, m = l PROVE Filled(m)' BY <1>1, <1>3, <1>4, <2>1, <2>2 DEF Filled
  <2> DEFINE q == Append(event.lists, l)
  <2>3. /\ q \in Seq(ListNames)
        /\ DOMAIN q = 1..Len(event.lists) + 1 /\ DOMAIN event.lists = 1..Len(event.lists)
        /\ Len(event.lists) \in Nat
        /\ \A k \in DOMAIN event.lists : q[k] = event.lists[k]
        /\ q[Len(event.lists) + 1] = l
    BY <1>3, <1>8
  <2> HIDE DEF q
  <2>4. \A k \in DOMAIN q : k \in DOMAIN event.lists \/ k = Len(event.lists) + 1 BY <2>3
  <2>5. ASSUME NEW k \in DOMAIN q, NEW m, m = q[k]
        PROVE  Filled(m)' /\ \E j \in 1..step' - 1 : m = Program[j]
    <3>1. CASE k \in DOMAIN event.lists BY <1>5, <1>6, <2>3, <2>5, <3>1
    <3>2. CASE k = Len(event.lists) + 1
      <4>1. step \in 1..step' - 1 /\ m = l BY <1>1, <2>3, <2>5, <3>2
      <4> QED BY <2>2, <4>1 DEF l
    <3> QED BY <2>4, <3>1, <3>2
  <2>6. ASSUME NEW k \in DOMAIN q, NEW m \in DOMAIN q, q[k] = q[m] PROVE k = m
    BY <1>5, <1>7, <2>3, <2>4, <2>6
  <2>7. event'.lists = q BY <2>1 DEF q
  <2> QED BY <1>2, <2>1, <2>3, <2>5, <2>6, <2>7 DEF ListsInv
<1> QED BY <1>9, <1>10

\* Every step preserves the types.
LEMMA TInvStep == TInv /\ [Next]_vars => TInv'
<1> SUFFICES ASSUME TInv, [Next]_vars PROVE TInv' OBVIOUS
<1>1. Len(Program) \in Nat BY ProgramTypes DEF TInv, NoneTwice
<1>2. ASSUME UNCHANGED <<builder, isMC>> PROVE Program' = Program BY <1>2 DEF Program
<1>3. IsFunction(NoDigis, Detectors) BY DEF IsFunction, NoDigis
<1>4. CASE StartEvent
  <2>1. /\ UNCHANGED <<builder, isMC, lists>> /\ step' = 1 /\ digis' = NoDigis
        /\ made' = NoDigis /\ event' \in {NewEvent, event}
        /\ pc' \in {"words", "idle", "header"}
    BY <1>4 DEF StartEvent, jobVars
  <2>2. event' = [lists |-> event'.lists, weight |-> event'.weight,
                   number |-> event'.number]
    BY <2>1 DEF NewEvent, TInv
  <2> QED BY <1>1, <1>2, <1>3, <2>1, <2>2 DEF TInv
<1>5. CASE Header
  <2>1. /\ UNCHANGED <<builder, isMC, lists, step, digis, made>>
        /\ pc' = "fill" /\ event' = [event EXCEPT !.number = n]
    BY <1>5 DEF Header, jobVars
  <2>2. event' = [lists |-> event'.lists, weight |-> event'.weight,
                   number |-> event'.number]
    BY <2>1 DEF TInv
  <2> QED BY <1>2, <2>1, <2>2 DEF TInv
<1>12. CASE Words
  <2>1. UNCHANGED <<builder, isMC, lists, step, digis, made, event, pc>>
    BY <1>12 DEF Words, jobVars, eventVars
  <2> QED BY <1>2, <2>1 DEF TInv
<1>6. CASE GetCross
  <2>1. /\ UNCHANGED <<builder, isMC, lists, step, digis, made>>
        /\ event' \in {NoEvent, event} /\ pc' \in {"idle", "header"}
    BY <1>6 DEF GetCross, jobVars
  <2>2. event' = [lists |-> event'.lists, weight |-> event'.weight,
                   number |-> event'.number]
    BY <2>1 DEF NoEvent, TInv
  <2> QED BY <1>2, <2>1, <2>2 DEF TInv
<1>7. ASSUME NEW d \in Detectors, MakeHits(d) PROVE TInv'
  <2>1. /\ UNCHANGED <<builder, isMC, lists, step, pc, event>>
        /\ \E x : digis' = [digis EXCEPT ![d] = x]
        /\ \E x : made' = [made EXCEPT ![d] = x]
    BY <1>7 DEF MakeHits, jobVars
  <2>2. IsFunction(digis', Detectors) /\ IsFunction(made', Detectors)
    BY <2>1 DEF IsFunction, TInv
  <2> QED BY <1>2, <2>1, <2>2 DEF TInv
<1>8. CASE FillList
  <2>1. /\ UNCHANGED <<builder, isMC, pc, digis, made>> /\ step <= Len(Program)
        /\ step' = step + 1
        /\ \E x : lists' = [lists EXCEPT ![Program[step]] = x]
        /\ \/ event' = event
           \/ event' = [event EXCEPT !.lists = Append(@, Program[step])]
    BY <1>8 DEF FillList, jobVars
  <2>2. IsFunction(lists', ListNames) BY <2>1 DEF IsFunction, TInv
  <2>3. step' \in 1..Len(Program) + 1 BY <1>1, <2>1 DEF TInv
  <2>4. event' = [lists |-> event'.lists, weight |-> event'.weight,
                   number |-> event'.number] BY <2>1 DEF TInv
  <2> QED BY <1>2, <2>1, <2>2, <2>3, <2>4 DEF TInv
<1>9. CASE Publish
  <2>1. /\ UNCHANGED <<builder, isMC, step, digis, made, lists>> /\ pc' = "built"
        /\ \/ event' = event
           \/ \E x : event' = [event EXCEPT !.weight = x]
    BY <1>9 DEF Publish, jobVars
  <2>2. event' = [lists |-> event'.lists, weight |-> event'.weight,
                   number |-> event'.number] BY <2>1 DEF TInv
  <2> QED BY <1>2, <2>1, <2>2 DEF TInv
<1>10. CASE EndEvent
  <2>1. /\ UNCHANGED <<builder, isMC, lists>> /\ step' = 1 /\ digis' = NoDigis
        /\ made' = NoDigis /\ event' = NoEvent /\ pc' = "idle"
    BY <1>10 DEF EndEvent, jobVars
  <2>2. event' = [lists |-> event'.lists, weight |-> event'.weight,
                   number |-> event'.number] BY <2>1 DEF NoEvent
  <2> QED BY <1>1, <1>2, <1>3, <2>1, <2>2 DEF TInv
<1>11. CASE UNCHANGED vars \/ Done
  <2>1. UNCHANGED <<builder, isMC, lists, step, pc, event, digis, made>>
    BY <1>11 DEF Done, vars, jobVars, eventVars
  <2> QED BY <1>2, <2>1 DEF TInv
<1> QED BY <1>4, <1>5, <1>6, <1>7, <1>8, <1>9, <1>10, <1>11, <1>12 DEF Next

\* Every step preserves BInv.
LEMMA BInvStep == BInv /\ [Next]_vars => BInv'
<1> SUFFICES ASSUME BInv, [Next]_vars PROVE BInv' OBVIOUS
<1>0. TInv' /\ TInv BY TInvStep DEF BInv
<1>1. CASE StartEvent
  <2>1. \/ pc' = "idle"
        \/ pc' \in {"words", "header"} /\ event' = NewEvent /\ step' = 1
    BY <1>1 DEF StartEvent
  <2> QED BY <1>0, <2>1 DEF BInv
<1>2. CASE Header
  <2>1. /\ pc = "header" /\ pc' = "fill" /\ UNCHANGED n
        /\ event' = [event EXCEPT !.number = n]
    BY <1>2 DEF Header
  <2>2. event = NewEvent BY <2>1 DEF BInv
  <2>3. event'.lists = << >> /\ event'.weight # 0 /\ event'.number = n'
    BY <2>1, <2>2 DEF NewEvent
  <2>4. ListsInv' BY <2>3 DEF ListsInv
  <2> QED BY <1>0, <2>1, <2>3, <2>4 DEF BInv
<1>3. CASE Words
  <2>1. pc = "words" /\ UNCHANGED <<pc, event, step>> BY <1>3 DEF Words, eventVars
  <2> QED BY <1>0, <2>1 DEF BInv
<1>4. CASE GetCross
  <2>1. pc = "words" /\ (pc' = "idle" \/ (pc' = "header" /\ UNCHANGED <<event, step>>))
    BY <1>4 DEF GetCross
  <2> QED BY <1>0, <2>1 DEF BInv
<1>5. ASSUME NEW d \in Detectors, MakeHits(d) PROVE BInv'
  <2>1. /\ pc = "fill" /\ d \notin called /\ called' = called \cup {d}
        /\ UNCHANGED <<builder, isMC, n, pc, step, lists, other, event>>
        /\ \E x : digis' = [digis EXCEPT ![d] = x]
        /\ \E x : made' = [made EXCEPT ![d] = x]
    BY <1>5 DEF MakeHits, jobVars
  <2>2. \A e \in called : made'[e] = made[e] /\ digis'[e] = digis[e]
    BY <1>0, <2>1 DEF TInv, IsFunction
  <2>3. ListsInv /\ event.weight # 0 /\ event.number = n BY <2>1 DEF BInv
  <2>4. ListsInv' BY <1>0, <2>1, <2>2, <2>3, ListsKept
  <2> QED BY <1>0, <2>1, <2>3, <2>4 DEF BInv
<1>6. CASE FillList
  <2>1. pc = "fill" /\ pc' = pc /\ n' = n BY <1>6 DEF FillList
  <2>2. ListsInv' /\ event'.weight # 0 /\ event'.number = n'
    BY <1>0, <1>6, <2>1, ListFilled DEF BInv
  <2> QED BY <1>0, <2>1, <2>2 DEF BInv
<1>7. CASE Publish
  <2>1. /\ pc = "fill" /\ pc' = "built"
        /\ UNCHANGED <<builder, isMC, n, step, digis, called, made, other, lists>>
        /\ \/ event' = event
           \/ \E u : event' = [event EXCEPT !.weight = Weight(u)]
    BY <1>7 DEF Publish, jobVars
  <2>2. \A u : Weight(u) # 0
    <3>1. 1 # 0 OBVIOUS
    <3> QED BY <3>1, Zenon DEF Weight
  <2>3. ListsInv /\ event.weight # 0 /\ event.number = n BY <2>1 DEF BInv
  <2>4. event'.lists = event.lists /\ event'.weight # 0 /\ event'.number = n'
    BY <1>0, <2>1, <2>2, <2>3 DEF TInv
  <2>5. ListsInv' BY <1>0, <2>1, <2>3, <2>4, ListsKept
  <2> QED BY <1>0, <2>1, <2>4, <2>5 DEF BInv
<1>8. CASE EndEvent
  <2>1. pc' = "idle" BY <1>8 DEF EndEvent
  <2> QED BY <1>0, <2>1 DEF BInv
<1>9. CASE UNCHANGED vars \/ Done
  <2>1. UNCHANGED <<builder, isMC, n, pc, step, digis, called, made, other, event, lists>>
    BY <1>9 DEF Done, vars, jobVars, eventVars
  <2>2. ListsInv => ListsInv' BY <1>0, <2>1, ListsKept
  <2> QED BY <1>0, <2>1, <2>2 DEF BInv
<1> QED BY <1>1, <1>2, <1>3, <1>4, <1>5, <1>6, <1>7, <1>8, <1>9 DEF Next

\* The first states.
LEMMA BInvInit == Init => BInv
<1> SUFFICES ASSUME Init PROVE BInv OBVIOUS
<1>1. /\ builder \in BuilderNames /\ isMC \in BOOLEAN /\ pc = "idle" /\ step = 1
      /\ digis = NoDigis /\ made = NoDigis /\ lists = [l \in ListNames |-> << >>]
      /\ event = NoEvent
  BY EventBuilderAssumption DEF Init, BuilderNames
<1>2. Len(Program) \in Nat BY <1>1, ProgramTypes DEF NoneTwice
<1>3. event = [lists |-> event.lists, weight |-> event.weight,
                  number |-> event.number] BY <1>1 DEF NoEvent
<1>4. IsFunction(NoDigis, Detectors) BY DEF IsFunction, NoDigis
<1>5. IsFunction(lists, ListNames) BY <1>1 DEF IsFunction
<1> QED BY <1>1, <1>2, <1>3, <1>4, <1>5 DEF BInv, TInv

\* The event that is written has the number of its own event and exactly the
\* objects of its own event in every list it points to, no list twice, and a
\* weight that is not 0.
THEOREM EventsAreWhole == Spec => []EventIsWhole
<1>1. Init => BInv BY BInvInit
<1>2. BInv => EventIsWhole
  <2> SUFFICES ASSUME BInv, pc = "built" PROVE EventIsWhole BY DEF EventIsWhole
  <2>1. ListsInv /\ event.weight # 0 /\ event.number = n BY DEF BInv
  <2>2. ASSUME NEW k \in DOMAIN event.lists, NEW l, l = event.lists[k]
        PROVE  /\ DOMAIN lists[l] = 1..Objects(l)
               /\ \A i \in DOMAIN lists[l] : lists[l][i] = [ev |-> n, i |-> i]
    <3>1. lists[l] = Copied(l) BY <2>1, <2>2 DEF ListsInv, Filled
    <3> QED BY <3>1 DEF Copied
  <2> QED BY <2>1, <2>2 DEF EventIsWhole, ListsInv
<1> QED BY <1>1, <1>2, BInvStep, PTL DEF Spec

-----------------------------------------------------------------------------
(***************************************************************************)
(* The waveforms.  The list for them is the last one of a real event of    *)
(* BDX-MINI, so that the decision is taken when all that it depends on has *)
(* been made.                                                              *)
(***************************************************************************)
Real == builder = "BDXmini" /\ ~isMC

WithWaves == \E k \in DOMAIN event.lists : event.lists[k] = "waves"

\* The decision has been taken: nothing is left of the waveforms of an earlier
\* event where those of this one are not kept.
Decided ==
    /\ WithWaves <=> KeepWaveforms
    /\ ~KeepWaveforms => lists["waves"] = << >>

WaveInv ==
    /\ pc \in {"idle", "header", "words", "fill", "built"}
    /\ Real /\ pc \in {"header", "fill", "built"} => other > 0
    /\ Real /\ pc = "fill" /\ step <= 3 => ~WithWaves
    /\ Real /\ pc = "fill" /\ step > 3 => Decided
    /\ Real /\ pc = "built" => Decided

\* The decision depends on nothing but these.
LEMMA DecisionKept ==
    ASSUME UNCHANGED <<made, cross>> PROVE KeepWaveforms' = KeepWaveforms
<1>1. FlagVeto' = FlagVeto BY Zenon DEF FlagVeto
<1>2. FlagCalo' = FlagCalo BY Zenon DEF FlagCalo, Etot
<1>3. FlagCross' = FlagCross BY Zenon DEF FlagCross
<1> QED BY <1>1, <1>2, <1>3 DEF KeepWaveforms

\* The list of the waveforms is the last of three.
LEMMA RealProgram ==
    ASSUME Real
    PROVE  /\ Program = <<"calo", "int", "waves">> /\ Len(Program) = 3
           /\ Program[1] # "waves" /\ Program[2] # "waves" /\ Program[3] = "waves"
BY DEF Real, Program

\* A list is appended to those of the event.
LEMMA WithAppended ==
    ASSUME NEW q \in Seq(ListNames), NEW l \in ListNames, NEW r, r = Append(q, l)
    PROVE  (\E k \in DOMAIN r : r[k] = "waves")
           <=> (l = "waves" \/ \E k \in DOMAIN q : q[k] = "waves")
<1>1. /\ DOMAIN r = 1..Len(q) + 1 /\ DOMAIN q = 1..Len(q) /\ Len(q) \in Nat
      /\ \A k \in DOMAIN q : r[k] = q[k]
      /\ r[Len(q) + 1] = l
  OBVIOUS
<1> QED BY ONLY <1>1

\* Every step preserves WaveInv.
LEMMA WaveInvStep ==
    ASSUME BInv, WaveInv, other \in Nat, [Next]_vars PROVE WaveInv'
<1>0. UNCHANGED <<builder, isMC>> /\ (Real' <=> Real)
  BY DEF Next, vars, jobVars, StartEvent, Header, Words, GetCross, MakeHits, FillList,
         Publish, EndEvent, Done, Real
<1>1. CASE StartEvent
  <2>1. /\ pc' \in {"idle", "header", "words"}
        /\ pc' = "header" => ~Real
    BY <1>1 DEF StartEvent, Real
  <2> QED BY <1>0, <2>1 DEF WaveInv
<1>2. CASE Header
  <2>1. /\ pc = "header" /\ pc' = "fill" /\ UNCHANGED <<step, other>>
        /\ event' = [event EXCEPT !.number = n]
    BY <1>2 DEF Header
  <2>2. event = NewEvent /\ step = 1 BY <2>1 DEF BInv
  <2>3. event'.lists = << >> BY <2>1, <2>2 DEF NewEvent
  <2>4. ~WithWaves' BY <2>3 DEF WithWaves
  <2> QED BY <1>0, <2>1, <2>2, <2>4 DEF WaveInv
<1>3. CASE Words
  <2>1. pc' = "words" BY <1>3 DEF Words, eventVars
  <2> QED BY <2>1 DEF WaveInv
<1>4. CASE GetCross
  <2>1. UNCHANGED other /\ (pc' = "idle" \/ (pc' = "header" /\ other # 0))
    BY <1>4 DEF GetCross
  <2>2. pc' = "header" => other' > 0 BY <2>1
  <2> QED BY <2>1, <2>2 DEF WaveInv
<1>5. ASSUME NEW d \in Detectors, MakeHits(d) PROVE WaveInv'
  <2>1. pc = "fill" /\ step <= Len(Program) /\ UNCHANGED <<pc, step, other, event>>
    BY <1>5 DEF MakeHits
  <2>2. WithWaves' <=> WithWaves BY <2>1 DEF WithWaves
  <2>3. Real => ~(step > 3)
    <3> SUFFICES ASSUME Real PROVE ~(step > 3) OBVIOUS
    <3>1. Len(Program) = 3 BY RealProgram
    <3>2. step \in Int BY <3>1 DEF BInv, TInv
    <3> QED BY <2>1, <3>1, <3>2
  <2> QED BY <1>0, <2>1, <2>2, <2>3 DEF WaveInv
<1>6. CASE FillList
  <2> DEFINE l == Program[step]
             wanted == l = "waves" => KeepWaveforms
  <2>1. /\ pc = "fill" /\ step <= Len(Program) /\ step' = step + 1
        /\ UNCHANGED <<pc, made, cross, other>>
        /\ event' = IF wanted THEN [event EXCEPT !.lists = Append(@, l)] ELSE event
        /\ lists' = [lists EXCEPT ![l] = IF wanted THEN Copied(l) ELSE << >>]
    BY <1>6 DEF FillList
  <2>2. KeepWaveforms' = KeepWaveforms BY <2>1, DecisionKept
  <2>3. event.lists \in Seq(ListNames) /\ event = [lists |-> event.lists, weight |-> event.weight,
                  number |-> event.number]
    BY <2>1 DEF BInv, ListsInv, TInv
  <2>4. ASSUME Real PROVE step \in 1..3 /\ l \in ListNames /\ (l = "waves" <=> step = 3)
    <3>1. step \in 1..3
      <4>1. step \in 1..(Len(Program) + 1) BY DEF BInv, TInv
      <4>2. Len(Program) = 3 BY <2>4, RealProgram
      <4> QED BY ONLY <2>1, <4>1, <4>2
    <3> QED BY <2>4, <3>1, RealProgram DEF ListNames
  <2>5. ASSUME Real PROVE WithWaves' <=> (step = 3 /\ KeepWaveforms)
    <3>1. ~WithWaves BY <2>1, <2>4, <2>5 DEF WaveInv
    <3>2. CASE wanted
      <4>1. event'.lists = Append(event.lists, l) BY <2>1, <2>3, <3>2
      <4>2. l \in ListNames BY <2>4, <2>5, Zenon
      <4>3. (\E k \in DOMAIN event'.lists : event'.lists[k] = "waves")
            <=> (l = "waves" \/ \E k \in DOMAIN event.lists : event.lists[k] = "waves")
        BY ONLY <2>3, <4>1, <4>2, WithAppended, Zenon
      <4>4. WithWaves' <=> (l = "waves" \/ WithWaves) BY <4>3, Zenon DEF WithWaves
      <4> QED BY <2>4, <2>5, <3>1, <3>2, <4>4
    <3>3. CASE ~wanted
      <4>1. event' = event BY <2>1, <3>3
      <4>2. WithWaves' <=> WithWaves BY <4>1 DEF WithWaves
      <4> QED BY <2>4, <2>5, <3>1, <3>3, <4>2
    <3> QED BY <3>2, <3>3
  <2>7. ASSUME Real, step = 3 PROVE Decided'
    <3>1. l = "waves" BY <2>4, <2>7
    <3>2. ~KeepWaveforms => lists'["waves"] = << >>
      BY <2>1, <3>1 DEF BInv, TInv, IsFunction, ListNames
    <3> QED BY <2>2, <2>5, <2>7, <3>2 DEF Decided
  <2> HIDE DEF l, wanted
  <2>6. Real => (step' > 3 <=> step = 3) /\ (step' <= 3 <=> step # 3) BY <2>1, <2>4
  <2> QED BY <1>0, <2>1, <2>5, <2>6, <2>7 DEF WaveInv
<1>7. CASE Publish
  <2>1. /\ pc = "fill" /\ pc' = "built" /\ step > Len(Program)
        /\ UNCHANGED <<made, cross, other, lists>>
        /\ \/ event' = event
           \/ \E u : event' = [event EXCEPT !.weight = Weight(u)]
    BY <1>7 DEF Publish
  <2>2. event'.lists = event.lists BY <2>1 DEF BInv, TInv
  <2>3. WithWaves' <=> WithWaves BY <2>2 DEF WithWaves
  <2>4. KeepWaveforms' = KeepWaveforms BY <2>1, DecisionKept
  <2>5. Real => step > 3 BY <2>1, RealProgram
  <2>6. Decided' <=> Decided BY <2>1, <2>3, <2>4 DEF Decided
  <2> QED BY <1>0, <2>1, <2>5, <2>6 DEF WaveInv
<1>8. CASE EndEvent
  <2>1. pc' = "idle" BY <1>8 DEF EndEvent
  <2> QED BY <2>1 DEF WaveInv
<1>9. CASE UNCHANGED vars \/ Done
  <2>1. UNCHANGED <<pc, step, other, event, made, cross, lists>>
    BY <1>9 DEF Done, vars, eventVars
  <2>2. KeepWaveforms' = KeepWaveforms BY <2>1, DecisionKept
  <2>3. WithWaves' <=> WithWaves BY <2>1 DEF WithWaves
  <2>4. Decided' <=> Decided BY <2>1, <2>2, <2>3 DEF Decided
  <2> QED BY <1>0, <2>1, <2>3, <2>4 DEF WaveInv
<1> QED BY <1>1, <1>2, <1>3, <1>4, <1>5, <1>6, <1>7, <1>8, <1>9 DEF Next

\* The number of the other objects is a number.
LEMMA OtherStep == ASSUME other \in Nat, [Next]_vars PROVE other' \in Nat
<1>1. CASE StartEvent
  <2>1. \E k \in 0..MaxOther : other' = k BY <1>1 DEF StartEvent
  <2> QED BY <2>1, EventBuilderAssumption
<1>2. CASE EndEvent BY <1>2 DEF EndEvent
<1>3. CASE UNCHANGED vars \/ Header \/ Words \/ GetCross \/ FillList \/ Publish \/ Done
  BY <1>3 DEF vars, eventVars, Header, Words, GetCross, FillList, Publish, Done
<1>4. ASSUME NEW d \in Detectors, MakeHits(d) PROVE other' \in Nat BY <1>4 DEF MakeHits
<1> QED BY <1>1, <1>2, <1>3, <1>4 DEF Next

\* A real event of BDX-MINI is written with its waveforms exactly if its hits
\* have more energy than thrEneTot and no veto counter but OV3 and IV3 is over
\* threshold, or if the cross-correlations say so; never with an empty list of
\* them, and when they are not kept the list has none of an earlier event.
THEOREM WaveformsAreDecided == Spec => []WaveformsDecided
<1>1. Init => BInv /\ WaveInv /\ other \in Nat
  <2> SUFFICES ASSUME Init PROVE BInv /\ WaveInv /\ other \in Nat OBVIOUS
  <2>1. pc = "idle" /\ other = 0 BY DEF Init
  <2> QED BY <2>1, BInvInit DEF WaveInv
<1>2. BInv /\ WaveInv /\ other \in Nat /\ [Next]_vars => (BInv /\ WaveInv /\ other \in Nat)'
  BY BInvStep, WaveInvStep, OtherStep
<1>3. WaveInv => WaveformsDecided
  <2> SUFFICES ASSUME WaveInv, RealBDXmini PROVE WaveformsDecided
    BY DEF WaveformsDecided
  <2> DEFINE kept  == "waves" \in ToSet(event.lists)
             hot   == {h \in ToSet(made["int"]) : h.Q > thrNpheVeto}
             quiet == \A h \in hot : Skipped(h.ch)
             noise == {cross.sine, cross.signal}
  <2>1. Decided /\ other > 0 BY DEF WaveInv, RealBDXmini, Real
  <2>2. kept <=> KeepWaveforms
    <3>1. kept <=> WithWaves BY DEF ToSet, WithWaves
    <3> QED BY <2>1, <3>1 DEF Decided
  <2>3. FlagVeto <=> quiet BY Zenon DEF FlagVeto, ToSet, Skipped
  <2>4. FlagCalo <=> Etot > thrEneTot BY DEF FlagCalo
  <2>5. FlagCross <=> "in" \in noise /\ "high" \notin noise BY DEF FlagCross
  <2>6. IF kept THEN other > 0 ELSE lists["waves"] = << >> BY <2>1, <2>2 DEF Decided
  <2>7. kept <=> \/ Etot > thrEneTot /\ quiet
                 \/ "in" \in noise /\ "high" \notin noise
    BY <2>2, <2>3, <2>4, <2>5, Zenon DEF KeepWaveforms
  <2> HIDE DEF kept, quiet, noise
  <2> QED BY <2>6, <2>7, Zenon DEF WaveformsDecided, kept, hot, quiet, noise
<1> QED BY <1>1, <1>2, <1>3, PTL DEF Spec

-----------------------------------------------------------------------------
(***************************************************************************)
(* The trigger words.  What is read of the words of an event, pair after   *)
(* pair and block after block, is compared with what the DAQ has sent.     *)
(***************************************************************************)

\* Where in the words w the parts of s are.
IsFormat(s, w) ==
    /\ w \in Seq(Word)
    /\ Len(w) = 2 * Len(s.pairs) + (IF s.magic THEN 2 ELSE 0)
                + 4 * Len(s.blocks) + Len(s.rest)
    /\ \A p \in DOMAIN s.pairs : w[2 * p - 1] = s.pairs[p][1] /\ w[2 * p] = s.pairs[p][2]
    /\ s.magic => /\ w[2 * Len(s.pairs) + 1] = MAGIC_TRG_WORD
                  /\ w[2 * Len(s.pairs) + 2] = MAGIC_TRG_WORD
    /\ s.magic => \A b \in DOMAIN s.blocks : \A k \in 1..4 :
                     w[2 * Len(s.pairs) + 2 + 4 * (b - 1) + k] = s.blocks[b][k]

\* The types of what the DAQ may send.
LEMMA SentTypes ==
    ASSUME NEW s \in Sent
    PROVE  /\ s.pairs \in Seq(Word \X Word) /\ s.magic \in BOOLEAN
           /\ s.blocks \in Seq(Word \X Word \X Word \X Word)
           /\ s.rest \in Seq(Word) /\ Len(s.rest) <= 3
           /\ Len(s.pairs) \in Nat /\ Len(s.blocks) \in Nat /\ Len(s.rest) \in Nat
           /\ DOMAIN s.pairs = 1..Len(s.pairs) /\ DOMAIN s.blocks = 1..Len(s.blocks)
           /\ \A b \in DOMAIN s.blocks : \A k \in 1..4 : s.blocks[b][k] \in Word
           /\ \A p \in DOMAIN s.pairs : s.pairs[p][1] \in Word /\ s.pairs[p][2] \in Word
<1>1. /\ s.pairs \in Seq(Word \X Word) /\ s.magic \in BOOLEAN
      /\ s.blocks \in Seq(Word \X Word \X Word \X Word)
      /\ s.rest \in Seq(Word) /\ Len(s.rest) <= 3
  BY SentAssumption
<1>2. /\ Len(s.pairs) \in Nat /\ Len(s.blocks) \in Nat /\ Len(s.rest) \in Nat
      /\ DOMAIN s.pairs = 1..Len(s.pairs) /\ DOMAIN s.blocks = 1..Len(s.blocks)
  BY <1>1
<1>3. \A b \in DOMAIN s.blocks : s.blocks[b] \in Word \X Word \X Word \X Word BY <1>1
<1>4. \A t \in Word \X Word \X Word \X Word : \A k \in 1..4 : t[k] \in Word
  <2> TAKE t \in Word \X Word \X Word \X Word
  <2>1. t[1] \in Word /\ t[2] \in Word /\ t[3] \in Word /\ t[4] \in Word OBVIOUS
  <2> TAKE k \in 1..4
  <2>2. k \in {1, 2, 3, 4} OBVIOUS
  <2> QED BY ONLY <2>1, <2>2
<1>5. \A p \in DOMAIN s.pairs : s.pairs[p] \in Word \X Word BY <1>1
<1>6. \A t \in Word \X Word : t[1] \in Word /\ t[2] \in Word OBVIOUS
<1> QED BY ONLY <1>1, <1>2, <1>3, <1>4, <1>5, <1>6

\* The words are made as IsFormat says.
LEMMA FormatIs == ASSUME NEW s \in Sent PROVE IsFormat(s, Format(s))
<1>1. /\ Len(s.pairs) \in Nat /\ Len(s.blocks) \in Nat /\ Len(s.rest) \in Nat
      /\ DOMAIN s.pairs = 1..Len(s.pairs) /\ DOMAIN s.blocks = 1..Len(s.blocks)
      /\ s.rest \in Seq(Word) /\ s.magic \in BOOLEAN
      /\ \A b \in DOMAIN s.blocks : \A k \in 1..4 : s.blocks[b][k] \in Word
      /\ \A p \in DOMAIN s.pairs : s.pairs[p][1] \in Word /\ s.pairs[p][2] \in Word
  BY SentTypes
<1>a. PICK np \in Nat : np = Len(s.pairs) BY <1>1
<1>b. PICK nb \in Nat : nb = Len(s.blocks) BY <1>1
<1>c. PICK nr \in Nat : nr = Len(s.rest) BY <1>1
<1>d. PICK pairs \in Nat : pairs = 2 * np OBVIOUS
<1>e. PICK magic \in Nat : magic = IF s.magic THEN pairs + 2 ELSE pairs BY <1>1
<1>f. PICK blocks \in Nat : blocks = magic + 4 * nb OBVIOUS
<1>g. PICK last \in Nat : last = blocks + nr OBVIOUS
<1> DEFINE F(i) == IF i <= pairs  THEN s.pairs[(i + 1) \div 2][2 - (i % 2)] ELSE
                   IF i <= magic  THEN MAGIC_TRG_WORD ELSE
                   IF i <= blocks THEN s.blocks[(i - magic + 3) \div 4][((i - magic - 1) % 4) + 1]
                                  ELSE s.rest[i - blocks]
           w == [i \in 1..last |-> F(i)]
<1>3. Format(s) = w BY <1>a, <1>b, <1>c, <1>d, <1>e, <1>f, <1>g, Zenon DEF Format
<1>4. pairs <= magic /\ magic <= blocks /\ blocks <= last /\ (s.magic => magic = pairs + 2)
  <2>1. CASE s.magic
    <3>1. magic = pairs + 2 BY <1>e, <2>1
    <3> QED BY <1>f, <1>g, <3>1
  <2>2. CASE ~s.magic
    <3>1. magic = pairs BY <1>e, <2>2
    <3> QED BY <1>f, <1>g, <2>2, <3>1
  <2> QED BY <2>1, <2>2
<1>h. pairs <= magic /\ magic <= blocks /\ blocks <= last BY <1>4
<1>5. DOMAIN s.pairs = 1..np /\ DOMAIN s.blocks = 1..nb BY <1>1, <1>a, <1>b
<1>6. ASSUME NEW i \in 1..last PROVE F(i) \in Word
  <2>1. CASE i <= pairs
    <3> PICK p \in 1..np : p = (i + 1) \div 2 BY <1>d, <2>1
    <3> PICK k \in {1, 2} : k = 2 - (i % 2) OBVIOUS
    <3>1. F(i) = s.pairs[p][k] BY <2>1, Zenon
    <3> QED BY <1>1, <1>5, <3>1, Zenon
  <2>2. CASE i > pairs /\ i <= magic
    <3>1. ~(i <= pairs) BY <2>2
    <3>2. F(i) = MAGIC_TRG_WORD BY <2>2, <3>1, Zenon
    <3> QED BY <3>2, TriggerWordsAssumption
  <2>3. CASE i > magic /\ i <= blocks
    <3> PICK b \in 1..nb : b = (i - magic + 3) \div 4 BY <1>f, <2>3
    <3>1. i - magic - 1 \in Nat BY <2>3
    <3> PICK k \in 1..4 : k = ((i - magic - 1) % 4) + 1 BY <3>1
    <3>2. ~(i <= pairs) /\ ~(i <= magic) BY <1>h, <2>3
    <3>3. F(i) = s.blocks[b][k] BY <2>3, <3>2, Zenon
    <3> QED BY <1>1, <1>5, <3>3, Zenon
  <2>4. CASE i > blocks
    <3>1. ~(i <= pairs) /\ ~(i <= magic) /\ ~(i <= blocks) BY <1>h, <2>4
    <3>2. F(i) = s.rest[i - blocks] BY <3>1, Zenon
    <3> PICK r \in 1..nr : r = i - blocks BY <1>g, <2>4
    <3>3. s.rest[r] \in Word BY <1>1, <1>c
    <3> QED BY <3>2, <3>3, Zenon
  <2> QED BY <2>1, <2>2, <2>3, <2>4
<1> HIDE DEF F
<1>7. w \in Seq(Word) /\ Len(w) = last /\ \A i \in 1..last : w[i] = F(i) BY <1>6
<1> HIDE DEF w
<1>8. ASSUME NEW p \in 1..np
      PROVE  w[2 * p - 1] = s.pairs[p][1] /\ w[2 * p] = s.pairs[p][2]
  <2> PICK i \in 1..last : i = 2 * p - 1 BY <1>d, <1>h
  <2> PICK j \in 1..last : j = 2 * p BY <1>d, <1>h
  <2>1. i <= pairs /\ (i + 1) \div 2 = p /\ 2 - (i % 2) = 1 BY <1>d
  <2>2. j <= pairs /\ (j + 1) \div 2 = p /\ 2 - (j % 2) = 2 BY <1>d
  <2>3. F(i) = s.pairs[p][1] BY ONLY <2>1, Zenon DEF F
  <2>4. F(j) = s.pairs[p][2] BY ONLY <2>2, Zenon DEF F
  <2> QED BY <1>7, <2>3, <2>4, Zenon
<1>9. ASSUME s.magic
      PROVE  w[2 * np + 1] = MAGIC_TRG_WORD /\ w[2 * np + 2] = MAGIC_TRG_WORD
  <2>0. magic = pairs + 2 BY <1>4, <1>9
  <2> PICK i \in 1..last : i = 2 * np + 1 BY <1>d, <1>h, <2>0
  <2> PICK j \in 1..last : j = 2 * np + 2 BY <1>d, <1>h, <2>0
  <2>1. ~(i <= pairs) /\ i <= magic /\ ~(j <= pairs) /\ j <= magic BY <1>d, <2>0
  <2>2. F(i) = MAGIC_TRG_WORD /\ F(j) = MAGIC_TRG_WORD BY ONLY <2>1, Zenon DEF F
  <2> QED BY <1>7, <2>2, Zenon
<1>10. ASSUME s.magic, NEW b \in 1..nb, NEW k \in 1..4
      PROVE  w[2 * np + 2 + 4 * (b - 1) + k] = s.blocks[b][k]
  <2>0. magic = pairs + 2 BY <1>4, <1>10
  <2> PICK i \in 1..last : i = 2 * np + 2 + 4 * (b - 1) + k
    BY <1>d, <1>f, <1>h, <2>0
  <2>1. ~(i <= pairs) /\ ~(i <= magic) /\ i <= blocks /\ i - magic = 4 * (b - 1) + k
    BY <1>d, <1>f, <1>h, <2>0
  <2>2. (i - magic + 3) \div 4 = b /\ ((i - magic - 1) % 4) + 1 = k
    <3> PICK x \in Nat : x = i - magic BY <2>1
    <3>1. k \in {1, 2, 3, 4} /\ x = 4 * (b - 1) + k BY <2>1
    <3>2. CASE k = 1 BY <3>1, <3>2
    <3>3. CASE k = 2 BY <3>1, <3>3
    <3>4. CASE k = 3 BY <3>1, <3>4
    <3>5. CASE k = 4 BY <3>1, <3>5
    <3> QED BY <3>1, <3>2, <3>3, <3>4, <3>5
  <2>3. F(i) = s.blocks[b][k] BY ONLY <2>1, <2>2, Zenon DEF F
  <2> QED BY <1>7, <2>3, Zenon
<1>11. Len(w) = 2 * np + (IF s.magic THEN 2 ELSE 0) + 4 * nb + nr
  <2>1. CASE s.magic
    <3>1. magic = pairs + 2 BY <1>e, <2>1
    <3>2. last = 2 * np + 2 + 4 * nb + nr BY <1>d, <1>f, <1>g, <3>1
    <3> QED BY <1>7, <2>1, <3>2, Zenon
  <2>2. CASE ~s.magic
    <3>1. magic = pairs BY <1>e, <2>2
    <3>2. last = 2 * np + 0 + 4 * nb + nr BY <1>d, <1>f, <1>g, <3>1
    <3> QED BY <1>7, <2>2, <3>2, Zenon
  <2> QED BY <2>1, <2>2
<1>12. IsFormat(s, w)
  BY <1>a, <1>b, <1>c, <1>5, <1>7, <1>8, <1>9, <1>10, <1>11, Zenon DEF IsFormat
<1> QED BY ONLY <1>3, <1>12, Zenon

\* The time of a block is read as it was meant: its sign is that of the upper
\* word.
LEMMA SignedTime ==
    ASSUME NEW b, b[3] \in Word, b[4] \in Word
    PROVE  ChanTime(b[3], b[4]) = TimeSent(b) /\ ChanTime(b[3], b[4]) \in Int
<1> PICK R \in Nat \ {0} : R = Radix BY TriggerWordsAssumption
<1> PICK half \in Nat : half = R \div 2 OBVIOUS
<1>1. PICK lo \in 0..(R - 1) : lo = b[3] BY DEF Word
<1>2. PICK hi \in 0..(R - 1) : hi = b[4] BY DEF Word
<1>3. \A x, y, z \in Nat : x >= y => x * z >= y * z
  <2> SUFFICES ASSUME NEW x \in Nat, NEW y \in Nat, NEW z \in Nat, x >= y
               PROVE  x * z >= y * z
    OBVIOUS
  <2>1. PICK d \in Nat : d = x - y OBVIOUS
  <2>2. x = y + d BY <2>1
  <2>3. d * z \in Nat /\ y * z \in Nat /\ (y + d) * z = y * z + d * z OBVIOUS
  <2> QED BY <2>2, <2>3
<1>4. hi * R \in Nat /\ half * R \in Nat /\ R * half = half * R /\ R * hi = hi * R
      /\ R * (R - hi) = R * R - hi * R /\ R * R \in Nat
  OBVIOUS
<1>5. CASE hi >= half
  <2>1. hi * R >= half * R BY <1>3, <1>5
  <2>2. hi * R + lo >= R * half BY <1>4, <2>1
  <2>3. (hi * R + lo) - R * R = lo - R * (R - hi) BY <1>4
  <2>4. ChanTime(lo, hi) = (hi * R + lo) - R * R BY <2>2 DEF ChanTime
  <2>5. TimeSent(b) = lo - R * (R - hi) BY <1>1, <1>2, <1>5, Zenon DEF TimeSent
  <2> QED BY <1>1, <1>2, <2>3, <2>4, <2>5
<1>6. CASE hi < half
  <2>1. half >= hi + 1 /\ hi + 1 \in Nat BY <1>6
  <2>2. half * R >= (hi + 1) * R BY <1>3, <2>1
  <2>3. (hi + 1) * R = hi * R + R OBVIOUS
  <2>4. ~(hi * R + lo >= R * half) BY <1>4, <2>2, <2>3
  <2>5. ChanTime(lo, hi) = hi * R + lo BY <2>4, Zenon DEF ChanTime
  <2>6. ~(hi >= half) BY <1>6
  <2>7. TimeSent(b) = lo + R * hi BY <1>1, <1>2, <2>6, Zenon DEF TimeSent
  <2>8. hi * R + lo = lo + R * hi /\ hi * R + lo \in Int BY <1>4
  <2> QED BY <1>1, <1>2, <2>5, <2>7, <2>8
<1> QED BY <1>5, <1>6

\* What was read of the first m pairs for trigger k: the times of those with
\* its bit, in their order.
TimesUpTo(times, k, m) ==
    \E from \in [1..Len(times) -> 1..m] :
        /\ \A i, j \in 1..Len(times) : i < j => from[i] < from[j]
        /\ \A p \in 1..m : Bit(sent.pairs[p][1], k) <=> \E i \in 1..Len(times) : from[i] = p
        /\ \A i \in 1..Len(times) : times[i] = AsInt(sent.pairs[from[i]][2])

\* The channels of the first m blocks, and of those of them in time.
ChannelsUpTo(m) == UNION {Fired(sent.blocks[b][1], sent.blocks[b][2]) : b \in 1..m}
InTime(b) == TimeSent(sent.blocks[b]) >= chanTimeMin /\ TimeSent(sent.blocks[b]) <= chanTimeMax
InTimeUpTo(m) ==
    UNION {Fired(sent.blocks[b][1], sent.blocks[b][2]) : b \in {c \in 1..m : InTime(c)}}

\* The words belong to what was sent, and what was read so far is what was
\* sent so far.  Without the MAGIC words the pairs end with the words, or with
\* two that look like them and have no block behind them.
WordsInv ==
    /\ stage \in {"off", "pairs", "blocks", "decoded"}
    /\ trgTimes \in [0..(nTriggersMAX - 1) -> Seq(Int)]
    /\ stage # "off" => sent \in Sent /\ triggerWords = Format(sent)
    /\ stage = "pairs" =>
         /\ ii \in Nat /\ 2 * ii <= Len(triggerWords)
         /\ jj = 0 /\ channels = {} /\ channelsTRG = {}
         /\ sent.magic => ii <= Len(sent.pairs)
         /\ sent.magic => \A k \in DOMAIN trgTimes : TimesUpTo(trgTimes[k], k, ii)
    /\ stage \in {"blocks", "decoded"} =>
         /\ ii \in Nat /\ jj \in Nat
         /\ channels = ChannelsUpTo(jj) /\ channelsTRG = InTimeUpTo(jj)
         /\ sent.magic => ii = Len(sent.pairs) + 1 /\ jj <= Len(sent.blocks)
         /\ sent.magic => \A k \in DOMAIN trgTimes : TimesUpTo(trgTimes[k], k, ii - 1)
         /\ ~sent.magic => /\ Len(triggerWords) - 2 * ii \in -2..3 /\ jj = 0
         /\ stage = "decoded" /\ sent.magic => jj = Len(sent.blocks)

\* The types of the words of an event, and of its number of pairs.
LEMMA WordsLength ==
    ASSUME sent \in Sent, triggerWords = Format(sent)
    PROVE  /\ triggerWords \in Seq(Word) /\ Len(triggerWords) \in Nat
           /\ Len(sent.pairs) \in Nat /\ Len(sent.blocks) \in Nat /\ Len(sent.rest) \in 0..3
           /\ DOMAIN sent.pairs = 1..Len(sent.pairs)
           /\ DOMAIN sent.blocks = 1..Len(sent.blocks)
           /\ sent.magic \in BOOLEAN
           /\ sent.magic => Len(triggerWords) = 2 * Len(sent.pairs) + 2 + 4 * Len(sent.blocks)
                                                + Len(sent.rest)
           /\ ~sent.magic => Len(triggerWords) = 2 * Len(sent.pairs) + 4 * Len(sent.blocks)
                                                 + Len(sent.rest)
           /\ IsFormat(sent, triggerWords)
<1>1. IsFormat(sent, triggerWords) BY FormatIs
<1>2. /\ Len(sent.pairs) \in Nat /\ Len(sent.blocks) \in Nat /\ Len(sent.rest) \in Nat
      /\ DOMAIN sent.pairs = 1..Len(sent.pairs) /\ DOMAIN sent.blocks = 1..Len(sent.blocks)
      /\ sent.magic \in BOOLEAN /\ Len(sent.rest) <= 3
  BY SentTypes
<1>3. triggerWords \in Seq(Word) BY <1>1 DEF IsFormat
<1>4. Len(triggerWords) \in Nat BY <1>3
<1>5. Len(sent.rest) \in 0..3
  <2>1. \A x \in Nat : x <= 3 => x \in 0..3 OBVIOUS
  <2> QED BY <1>2, <2>1, Zenon
<1>6. Len(triggerWords) = 2 * Len(sent.pairs) + (IF sent.magic THEN 2 ELSE 0)
                          + 4 * Len(sent.blocks) + Len(sent.rest)
  BY <1>1 DEF IsFormat
<1>7. sent.magic => Len(triggerWords) = 2 * Len(sent.pairs) + 2 + 4 * Len(sent.blocks)
                                        + Len(sent.rest)
  BY <1>6, Zenon
<1>8. ~sent.magic => Len(triggerWords) = 2 * Len(sent.pairs) + 4 * Len(sent.blocks)
                                         + Len(sent.rest)
  <2> SUFFICES ASSUME ~sent.magic
               PROVE  Len(triggerWords) = 2 * Len(sent.pairs) + 4 * Len(sent.blocks)
                                          + Len(sent.rest)
    OBVIOUS
  <2>1. Len(triggerWords) = 2 * Len(sent.pairs) + 0 + 4 * Len(sent.blocks) + Len(sent.rest)
    BY <1>6, Zenon
  <2>2. \A x \in Nat : 2 * x + 0 = 2 * x OBVIOUS
  <2>3. 2 * Len(sent.pairs) + 0 = 2 * Len(sent.pairs) BY <1>2, <2>2, Zenon
  <2> QED BY <2>1, <2>3, Zenon
<1> QED BY <1>1, <1>2, <1>3, <1>4, <1>5, <1>7, <1>8

\* The loop over the pairs reads the pairs that were sent and no other, and
\* ends at the MAGIC words.
LEMMA PairsRead ==
    ASSUME WordsInv, stage = "pairs"
    PROVE  /\ MorePairs /\ sent.magic =>
                /\ ii < Len(sent.pairs)
                /\ At(2 * ii) = sent.pairs[ii + 1][1] /\ At(2 * ii + 1) = sent.pairs[ii + 1][2]
           /\ MorePairs => 2 * (ii + 1) <= Len(triggerWords)
           /\ ~MorePairs /\ sent.magic => ii = Len(sent.pairs)
           /\ ~MorePairs /\ ~sent.magic => Len(triggerWords) - 2 * (ii + 1) \in -2..3
<1>1. sent \in Sent /\ triggerWords = Format(sent) /\ ii \in Nat
      /\ 2 * ii <= Len(triggerWords) /\ (sent.magic => ii <= Len(sent.pairs))
  BY DEF WordsInv
<1>2. /\ Len(triggerWords) \in Nat
      /\ Len(sent.pairs) \in Nat /\ Len(sent.blocks) \in Nat /\ Len(sent.rest) \in 0..3
      /\ DOMAIN sent.pairs = 1..Len(sent.pairs)
      /\ sent.magic \in BOOLEAN
      /\ sent.magic => Len(triggerWords) = 2 * Len(sent.pairs) + 2 + 4 * Len(sent.blocks)
                                           + Len(sent.rest)
      /\ IsFormat(sent, triggerWords)
  BY <1>1, WordsLength
<1>3. PICK i \in Nat : i = ii BY <1>1
<1>4. PICK len \in Nat : len = Len(triggerWords) BY <1>2
<1>5. PICK np \in Nat : np = Len(sent.pairs) BY <1>2
<1>6. 2 * i <= len BY <1>1, <1>3, <1>4
<1>7. /\ At(2 * ii) = triggerWords[2 * i + 1] /\ At(2 * ii + 1) = triggerWords[2 * i + 2]
  <2>1. 2 * i + 1 + 1 = 2 * i + 2 OBVIOUS
  <2> QED BY <1>3, <2>1 DEF At
<1>8. MorePairs <=> /\ i < len \div 2
                    /\ ~(/\ triggerWords[2 * i + 1] = MAGIC_TRG_WORD
                         /\ triggerWords[2 * i + 2] = MAGIC_TRG_WORD)
  BY <1>3, <1>4, <1>7, Zenon DEF MorePairs, MagicPair
<1>9. ASSUME NEW p \in 1..np
      PROVE  triggerWords[2 * p - 1] = sent.pairs[p][1] /\ triggerWords[2 * p] = sent.pairs[p][2]
  BY <1>2, <1>5, <1>9, Zenon DEF IsFormat
<1>10. MorePairs => 2 * (ii + 1) <= Len(triggerWords)
  <2>1. i < len \div 2 => 2 * (i + 1) <= len OBVIOUS
  <2> QED BY <1>3, <1>4, <1>8, <2>1, Zenon
<1>11. ASSUME sent.magic
       PROVE  /\ i <= np /\ len >= 2 * np + 2
              /\ triggerWords[2 * np + 1] = MAGIC_TRG_WORD
              /\ triggerWords[2 * np + 2] = MAGIC_TRG_WORD
  <2>1. i <= np BY <1>1, <1>3, <1>5, <1>11, Zenon
  <2>2. PICK nb \in Nat : nb = Len(sent.blocks) BY <1>2
  <2>3. PICK nr \in 0..3 : nr = Len(sent.rest) BY <1>2
  <2>4. len = 2 * np + 2 + 4 * nb + nr BY <1>2, <1>4, <1>5, <1>11, <2>2, <2>3, Zenon
  <2>5. len >= 2 * np + 2 BY <2>4
  <2> QED BY <1>2, <1>5, <1>11, <2>1, <2>5, Zenon DEF IsFormat
<1>12. ASSUME MorePairs, sent.magic
       PROVE  /\ ii < Len(sent.pairs)
              /\ At(2 * ii) = sent.pairs[ii + 1][1] /\ At(2 * ii + 1) = sent.pairs[ii + 1][2]
  <2>1. i # np BY <1>8, <1>11, <1>12, Zenon
  <2>2. i < np BY <1>11, <1>12, <2>1
  <2>3. PICK p \in 1..np : p = i + 1 BY <2>2
  <2>4. 2 * p - 1 = 2 * i + 1 /\ 2 * p = 2 * i + 2 BY <2>3
  <2>5. /\ triggerWords[2 * i + 1] = sent.pairs[p][1]
        /\ triggerWords[2 * i + 2] = sent.pairs[p][2]
    BY <1>9, <2>4, Zenon
  <2> QED BY <1>3, <1>5, <1>7, <2>2, <2>3, <2>5, Zenon
<1>13. ASSUME ~MorePairs PROVE i >= len \div 2 \/
             /\ i \in 0..(len \div 2 - 1)
             /\ triggerWords[2 * i + 1] = MAGIC_TRG_WORD
             /\ triggerWords[2 * i + 2] = MAGIC_TRG_WORD
  <2>1. ~(i < len \div 2) => i >= len \div 2 OBVIOUS
  <2>2. i < len \div 2 => i \in 0..(len \div 2 - 1) OBVIOUS
  <2> QED BY <1>8, <1>13, <2>1, <2>2, Zenon
<1>14. ASSUME i \in 0..(len \div 2 - 1), triggerWords[2 * i + 1] = MAGIC_TRG_WORD,
              triggerWords[2 * i + 2] = MAGIC_TRG_WORD
       PROVE  i >= np /\ (sent.magic \/ len - 2 * (i + 1) < 4)
  BY <1>1, <1>4, <1>5, <1>14, SentAssumption, Zenon
<1>15. ASSUME ~MorePairs, sent.magic PROVE ii = Len(sent.pairs)
  <2>1. i <= np /\ len >= 2 * np + 2 BY <1>11, <1>15
  <2>2. i >= len \div 2 => i >= np + 1 BY <2>1
  <2>3. i >= np BY <1>13, <1>14, <1>15, <2>1, <2>2
  <2>4. i = np BY <2>1, <2>3
  <2> QED BY <1>3, <1>5, <2>4, Zenon
<1>16. ASSUME ~MorePairs, ~sent.magic PROVE Len(triggerWords) - 2 * (ii + 1) \in -2..3
  <2>1. i >= len \div 2 => len - 2 * (i + 1) \in -2..3 BY <1>6
  <2>2. i < len \div 2 /\ len - 2 * (i + 1) < 4 => len - 2 * (i + 1) \in -2..3 OBVIOUS
  <2>3. i \in 0..(len \div 2 - 1) => i < len \div 2 OBVIOUS
  <2>4. len - 2 * (i + 1) \in -2..3 BY <1>13, <1>14, <1>16, <2>1, <2>2, <2>3, Zenon
  <2> QED BY <1>3, <1>4, <2>4, Zenon
<1> QED BY <1>10, <1>12, <1>15, <1>16

\* One pair more is read.
LEMMA TimesNext ==
    ASSUME NEW times \in Seq(Int), NEW k, NEW m \in Nat, TimesUpTo(times, k, m),
           NEW t \in Int, t = AsInt(sent.pairs[m + 1][2]), NEW q,
           q = IF Bit(sent.pairs[m + 1][1], k) THEN Append(times, t) ELSE times
    PROVE  q \in Seq(Int) /\ TimesUpTo(q, k, m + 1)
<1> DEFINE B(p) == Bit(sent.pairs[p][1], k)
           A(p) == AsInt(sent.pairs[p][2])
<1>1. PICK n0 \in Nat : n0 = Len(times) OBVIOUS
<1>2. PICK from \in [1..n0 -> 1..m] :
        /\ \A i, j \in 1..n0 : i < j => from[i] < from[j]
        /\ \A p \in 1..m : B(p) <=> \E i \in 1..n0 : from[i] = p
        /\ \A i \in 1..n0 : times[i] = A(from[i])
  BY <1>1, Zenon DEF TimesUpTo
<1> HIDE DEF A
<1>3. CASE ~B(m + 1)
  <2>1. q = times BY <1>3, Zenon
  <2> HIDE DEF B
  <2>2. from \in [1..n0 -> 1..(m + 1)] OBVIOUS
  <2>3. \A p \in 1..(m + 1) : B(p) <=> \E i \in 1..n0 : from[i] = p
    <3> TAKE p \in 1..(m + 1)
    <3>1. CASE p = m + 1
      <4>1. \A i \in 1..n0 : from[i] # p BY <3>1
      <4> QED BY <1>3, <3>1, <4>1
    <3>2. CASE p # m + 1
      <4>1. p \in 1..m BY <3>2
      <4> QED BY <1>2, <4>1, Zenon
    <3> QED BY <3>1, <3>2
  <2>4. TimesUpTo(times, k, m + 1) BY <1>1, <1>2, <2>2, <2>3, Zenon DEF TimesUpTo, A, B
  <2> QED BY <2>1, <2>4
<1>4. CASE B(m + 1)
  <2>1. q = Append(times, t) BY <1>4, Zenon
  <2>2. A(m + 1) = t BY DEF A
  <2> HIDE DEF B
  <2>3. /\ q \in Seq(Int) /\ Len(q) = n0 + 1 /\ q[n0 + 1] = t
        /\ \A i \in 1..n0 : q[i] = times[i]
    BY <1>1, <2>1
  <2> DEFINE f == [i \in 1..(n0 + 1) |-> IF i = n0 + 1 THEN m + 1 ELSE from[i]]
  <2>4. f \in [1..(n0 + 1) -> 1..(m + 1)] OBVIOUS
  <2>5. f[n0 + 1] = m + 1 /\ \A i \in 1..n0 : f[i] = from[i] /\ from[i] \in 1..m OBVIOUS
  <2>6. \A i \in 1..(n0 + 1) : i = n0 + 1 \/ i \in 1..n0 OBVIOUS
  <2> HIDE DEF f
  <2>7. \A i, j \in 1..(n0 + 1) : i < j => f[i] < f[j]
    <3> TAKE i, j \in 1..(n0 + 1)
    <3> HAVE i < j
    <3>1. i \in 1..n0 OBVIOUS
    <3>2. CASE j = n0 + 1
      <4>1. f[i] \in 1..m /\ f[j] = m + 1 BY <2>5, <3>1, <3>2
      <4> QED BY <4>1
    <3>3. CASE j \in 1..n0 BY <1>2, <2>5, <3>1, <3>3
    <3> QED BY <2>6, <3>2, <3>3
  <2>8. \A p \in 1..(m + 1) : B(p) <=> \E i \in 1..(n0 + 1) : f[i] = p
    <3> TAKE p \in 1..(m + 1)
    <3>1. CASE p = m + 1
      <4>1. n0 + 1 \in 1..(n0 + 1) OBVIOUS
      <4> QED BY <1>4, <2>5, <3>1, <4>1, Zenon
    <3>2. CASE p # m + 1
      <4>1. p \in 1..m BY <3>2
      <4>2. \A i \in 1..n0 : i \in 1..(n0 + 1) OBVIOUS
      <4> QED BY <1>2, <2>5, <2>6, <3>2, <4>1, <4>2, Zenon
    <3> QED BY <3>1, <3>2
  <2>9. \A i \in 1..(n0 + 1) : q[i] = A(f[i])
    BY <1>2, <2>2, <2>3, <2>5, <2>6, Zenon
  <2>10. TimesUpTo(q, k, m + 1)
    <3> SUFFICES \E g \in [1..Len(q) -> 1..(m + 1)] :
                    /\ \A i, j \in 1..Len(q) : i < j => g[i] < g[j]
                    /\ \A p \in 1..(m + 1) : B(p) <=> \E i \in 1..Len(q) : g[i] = p
                    /\ \A i \in 1..Len(q) : q[i] = A(g[i])
      BY Zenon DEF TimesUpTo, A, B
    <3>1. Len(q) = n0 + 1 BY <2>3
    <3>2. f \in [1..Len(q) -> 1..(m + 1)] BY <2>4, <3>1
    <3>3. /\ \A i, j \in 1..Len(q) : i < j => f[i] < f[j]
          /\ \A p \in 1..(m + 1) : B(p) <=> \E i \in 1..Len(q) : f[i] = p
          /\ \A i \in 1..Len(q) : q[i] = A(f[i])
      BY <2>7, <2>8, <2>9, <3>1, Zenon
    <3> QED BY ONLY <3>2, <3>3, Zenon
  <2> QED BY <2>3, <2>10
<1> QED BY <1>3, <1>4

\* A pair is decoded.
LEMMA PairDecoded == ASSUME WordsInv, DecodePair PROVE WordsInv'
<1>1. /\ stage = "pairs" /\ MorePairs /\ ii' = ii + 1
      /\ trgTimes' = [k \in DOMAIN trgTimes |->
                       IF Bit(At(2 * ii), k) THEN Append(trgTimes[k], AsInt(At(2 * ii + 1)))
                       ELSE trgTimes[k]]
      /\ UNCHANGED <<sent, triggerWords, stage, jj, channels, channelsTRG>>
  BY DEF DecodePair
<1>2. /\ sent \in Sent /\ triggerWords = Format(sent) /\ ii \in Nat
      /\ jj = 0 /\ channels = {} /\ channelsTRG = {}
      /\ trgTimes \in [0..(nTriggersMAX - 1) -> Seq(Int)]
      /\ sent.magic => \A k \in DOMAIN trgTimes : TimesUpTo(trgTimes[k], k, ii)
      /\ MorePairs => 2 * (ii + 1) <= Len(triggerWords)
      /\ MorePairs /\ sent.magic =>
           /\ ii < Len(sent.pairs)
           /\ At(2 * ii) = sent.pairs[ii + 1][1] /\ At(2 * ii + 1) = sent.pairs[ii + 1][2]
  BY <1>1, PairsRead DEF WordsInv
<1>3. triggerWords \in Seq(Word) /\ Len(triggerWords) \in Nat /\ Len(sent.pairs) \in Nat
  BY <1>2, WordsLength
<1>4. PICK i \in Nat : i = ii BY <1>2
<1>5. PICK len \in Nat : len = Len(triggerWords) BY <1>3
<1>6. PICK np \in Nat : np = Len(sent.pairs) BY <1>3
<1>7. PICK t \in Int : t = AsInt(At(2 * ii + 1))
  <2>1. 2 * (i + 1) <= len BY <1>1, <1>2, <1>4, <1>5, Zenon
  <2>2. PICK j \in 1..len : j = 2 * i + 1 + 1 BY <2>1
  <2>3. triggerWords[j] \in Word BY <1>3, <1>5
  <2>4. At(2 * ii + 1) = triggerWords[j] BY <1>4, <2>2, Zenon DEF At
  <2>5. Radix \in Nat \ {0} /\ \A w \in Word : w \in Int /\ w - Radix \in Int
    BY TriggerWordsAssumption DEF Word
  <2>6. AsInt(triggerWords[j]) \in Int BY <2>3, <2>5, Zenon DEF AsInt
  <2> QED BY <2>4, <2>6, Zenon
<1> DEFINE q(k) == IF Bit(At(2 * ii), k) THEN Append(trgTimes[k], t) ELSE trgTimes[k]
<1>8. ASSUME NEW k \in DOMAIN trgTimes PROVE q(k) \in Seq(Int) BY <1>2
<1>9. trgTimes' = [k \in DOMAIN trgTimes |-> q(k)] BY <1>1, <1>7, Zenon
<1>10. ASSUME sent.magic, NEW k \in DOMAIN trgTimes PROVE TimesUpTo(q(k), k, i + 1)
  <2>1. TimesUpTo(trgTimes[k], k, i) /\ trgTimes[k] \in Seq(Int) BY <1>2, <1>4, <1>10
  <2>2. /\ At(2 * ii) = sent.pairs[i + 1][1] /\ At(2 * ii + 1) = sent.pairs[i + 1][2]
    BY <1>1, <1>2, <1>4, <1>10, Zenon
  <2>3. t = AsInt(sent.pairs[i + 1][2]) BY <1>7, <2>2, Zenon
  <2>4. q(k) = IF Bit(sent.pairs[i + 1][1], k) THEN Append(trgTimes[k], t) ELSE trgTimes[k]
    BY <2>2, Zenon
  <2> HIDE DEF q
  <2> QED BY ONLY <2>1, <2>3, <2>4, TimesNext, Zenon
<1> HIDE DEF q
<1>11. /\ DOMAIN trgTimes = 0..(nTriggersMAX - 1) /\ DOMAIN trgTimes' = DOMAIN trgTimes
       /\ trgTimes' \in [0..(nTriggersMAX - 1) -> Seq(Int)]
       /\ \A k \in DOMAIN trgTimes : trgTimes'[k] = q(k)
  BY <1>2, <1>8, <1>9, Zenon
<1>12. /\ sent' = sent /\ triggerWords' = triggerWords /\ stage' = stage /\ jj' = jj
       /\ channels' = channels /\ channelsTRG' = channelsTRG /\ ii' = i + 1
  BY <1>1, <1>4
<1>13. ASSUME sent.magic, NEW k \in DOMAIN trgTimes, NEW tt, tt = trgTimes'[k]
       PROVE  TimesUpTo(tt, k, i + 1)'
  <2>1. TimesUpTo(q(k), k, i + 1) /\ tt = q(k) BY <1>10, <1>11, <1>13, Zenon
  <2> QED BY <1>12, <2>1, Zenon DEF TimesUpTo
<1>14. 2 * (i + 1) <= len BY <1>1, <1>2, <1>4, <1>5, Zenon
<1>15. sent.magic => i + 1 <= np
  <2> SUFFICES ASSUME sent.magic PROVE i + 1 <= np OBVIOUS
  <2>1. i < np BY <1>1, <1>2, <1>4, <1>6, Zenon
  <2> QED BY <2>1
<1>16. i + 1 \in Nat OBVIOUS
<1>17. sent'.magic => (\A k \in DOMAIN trgTimes : TimesUpTo(trgTimes[k], k, ii))'
  <2> SUFFICES ASSUME sent.magic, NEW k \in DOMAIN trgTimes
               PROVE  TimesUpTo(trgTimes[k], k, ii)'
    BY <1>11, <1>12
  <2>1. PICK tt : tt = trgTimes'[k] OBVIOUS
  <2>2. TimesUpTo(tt, k, i + 1)' BY <1>13, <2>1
  <2> QED BY <1>12, <2>1, <2>2
<1>18. 2 * ii' <= Len(triggerWords') /\ (sent'.magic => ii' <= Len(sent'.pairs))
  BY <1>5, <1>6, <1>12, <1>14, <1>15, Zenon
<1>19. ii' \in Nat /\ stage' = "pairs" BY <1>1, <1>12, <1>16
<1> QED BY <1>2, <1>11, <1>12, <1>17, <1>18, <1>19 DEF WordsInv

\* The same sent and the same times: TimesUpTo says the same.
LEMMA TimesSame ==
    ASSUME sent' = sent, NEW times, NEW k, NEW m, TimesUpTo(times, k, m)
    PROVE  TimesUpTo(times, k, m)'
BY Zenon DEF TimesUpTo

\* The loop over the pairs ends.
LEMMA PairsEnded == ASSUME WordsInv, EndPairs PROVE WordsInv'
<1>1. /\ stage = "pairs" /\ ~MorePairs /\ ii' = ii + 1 /\ stage' = "blocks"
      /\ sent' = sent /\ triggerWords' = triggerWords /\ jj' = jj /\ trgTimes' = trgTimes
      /\ channels' = channels /\ channelsTRG' = channelsTRG
  BY DEF EndPairs
<1>2. /\ sent \in Sent /\ triggerWords = Format(sent) /\ ii \in Nat
      /\ jj = 0 /\ channels = {} /\ channelsTRG = {}
      /\ trgTimes \in [0..(nTriggersMAX - 1) -> Seq(Int)]
      /\ sent.magic => \A k \in DOMAIN trgTimes : TimesUpTo(trgTimes[k], k, ii)
      /\ sent.magic => ii = Len(sent.pairs)
      /\ ~sent.magic => Len(triggerWords) - 2 * (ii + 1) \in -2..3
  BY <1>1, PairsRead DEF WordsInv
<1>3. Len(sent.blocks) \in Nat BY <1>2, WordsLength
<1>4. PICK i \in Nat : i = ii BY <1>2
<1>5. i + 1 \in Nat /\ i = i + 1 - 1 /\ 0 \in Nat OBVIOUS
<1>6. (ChannelsUpTo(0))' = {} /\ (InTimeUpTo(0))' = {}
  <2>1. 1..0 = {} OBVIOUS
  <2>2. UNION {} = {} OBVIOUS
  <2>3. (ChannelsUpTo(0))' = {} BY <2>1 DEF ChannelsUpTo
  <2>4. (InTimeUpTo(0))' = {}
    <3>1. {c \in 1..0 : InTime(c)'} = {} BY <2>1
    <3> QED BY <3>1 DEF InTimeUpTo
  <2> QED BY <2>3, <2>4
<1>7. /\ (channels = ChannelsUpTo(jj))' /\ (channelsTRG = InTimeUpTo(jj))'
  BY <1>1, <1>2, <1>6, Zenon
<1>8. sent'.magic => ii' = Len(sent'.pairs) + 1 /\ jj' <= Len(sent'.blocks)
  <2>1. 0 <= Len(sent.blocks)
    <3>1. PICK nb \in Nat : nb = Len(sent.blocks) BY <1>3
    <3>2. 0 <= nb OBVIOUS
    <3> QED BY <3>1, <3>2, Zenon
  <2> QED BY <1>1, <1>2, <2>1, Zenon
<1>9. sent'.magic => (\A k \in DOMAIN trgTimes : TimesUpTo(trgTimes[k], k, ii - 1))'
  <2> SUFFICES ASSUME sent.magic, NEW k \in DOMAIN trgTimes
               PROVE  TimesUpTo(trgTimes[k], k, ii - 1)'
    BY <1>1
  <2>1. PICK tt : tt = trgTimes[k] OBVIOUS
  <2>2. TimesUpTo(tt, k, i) BY <1>2, <1>4, <2>1, Zenon
  <2>3. TimesUpTo(tt, k, i)' BY <1>1, <2>2, TimesSame, Zenon
  <2>4. ii' - 1 = i BY <1>1, <1>4
  <2> QED BY <1>1, <2>1, <2>3, <2>4, Zenon
<1>10. ~sent'.magic => Len(triggerWords') - 2 * ii' \in -2..3 /\ jj' = 0
  BY <1>1, <1>2, Zenon
<1>11. ii' \in Nat /\ jj' \in Nat BY <1>1, <1>2
<1> QED BY <1>1, <1>2, <1>7, <1>8, <1>9, <1>10, <1>11, Zenon DEF WordsInv

\* nwords is the number of blocks that were sent behind the MAGIC words, and 0
\* without them.
LEMMA BlocksLeft ==
    ASSUME WordsInv, stage = "blocks"
    PROVE  nwords = IF sent.magic THEN Len(sent.blocks) ELSE 0
<1>1. /\ sent \in Sent /\ triggerWords = Format(sent) /\ ii \in Nat
      /\ sent.magic => ii = Len(sent.pairs) + 1
      /\ ~sent.magic => Len(triggerWords) - 2 * ii \in -2..3
  BY DEF WordsInv
<1>2. /\ Len(triggerWords) \in Nat
      /\ Len(sent.pairs) \in Nat /\ Len(sent.blocks) \in Nat /\ Len(sent.rest) \in 0..3
      /\ sent.magic \in BOOLEAN
      /\ sent.magic => Len(triggerWords) = 2 * Len(sent.pairs) + 2 + 4 * Len(sent.blocks)
                                           + Len(sent.rest)
  BY <1>1, WordsLength
<1>3. PICK len \in Nat : len = Len(triggerWords) BY <1>2
<1>4. PICK i \in Nat : i = ii BY <1>1
<1>5. PICK left \in Int : left = len - 2 * i OBVIOUS
<1>6. nwords = IF left < 0 THEN -((-left) \div 4) ELSE left \div 4
  BY <1>3, <1>4, <1>5, Zenon DEF nwords
<1>7. CASE sent.magic
  <2>1. PICK np \in Nat : np = Len(sent.pairs) BY <1>2
  <2>2. PICK nb \in Nat : nb = Len(sent.blocks) BY <1>2
  <2>3. PICK nr \in 0..3 : nr = Len(sent.rest) BY <1>2
  <2>4. len = 2 * np + 2 + 4 * nb + nr BY <1>2, <1>3, <1>7, <2>1, <2>2, <2>3, Zenon
  <2>5. i = np + 1 BY <1>1, <1>4, <1>7, <2>1, Zenon
  <2>6. left = 4 * nb + nr BY <1>5, <2>4, <2>5
  <2>7. ~(left < 0) /\ left \div 4 = nb BY <2>6
  <2> QED BY <1>6, <1>7, <2>2, <2>7, Zenon
<1>8. CASE ~sent.magic
  <2>1. left \in -2..3 BY <1>1, <1>3, <1>4, <1>5, <1>8, Zenon
  <2>2. left \in {-2, -1, 0, 1, 2, 3} BY <2>1
  <2>3. (IF left < 0 THEN -((-left) \div 4) ELSE left \div 4) = 0 BY <2>2
  <2> QED BY <1>6, <1>8, <2>3, Zenon
<1> QED BY <1>2, <1>7, <1>8

\* The channels of one block more.
LEMMA ChannelsNext ==
    ASSUME NEW m \in Nat
    PROVE  /\ ChannelsUpTo(m + 1) = ChannelsUpTo(m) \cup
                 Fired(sent.blocks[m + 1][1], sent.blocks[m + 1][2])
           /\ InTimeUpTo(m + 1) = IF InTime(m + 1)
                 THEN InTimeUpTo(m) \cup Fired(sent.blocks[m + 1][1], sent.blocks[m + 1][2])
                 ELSE InTimeUpTo(m)
<1> DEFINE G(b) == Fired(sent.blocks[b][1], sent.blocks[b][2])
<1>1. \A b : b \in 1..(m + 1) <=> (b \in 1..m \/ b = m + 1) OBVIOUS
<1>2. \A y, S : y \in UNION {G(b) : b \in S} <=> \E b \in S : y \in G(b) OBVIOUS
<1>3. ASSUME NEW y, NEW k
      PROVE  /\ y \in ChannelsUpTo(k) <=> \E b \in 1..k : y \in G(b)
             /\ y \in InTimeUpTo(k) <=> \E b \in 1..k : InTime(b) /\ y \in G(b)
  <2>1. y \in ChannelsUpTo(k) <=> \E b \in 1..k : y \in G(b) BY <1>2, Zenon DEF ChannelsUpTo
  <2>2. y \in InTimeUpTo(k) <=> \E b \in {c \in 1..k : InTime(c)} : y \in G(b)
    BY <1>2, Zenon DEF InTimeUpTo
  <2> QED BY <2>1, <2>2, Zenon
<1> HIDE DEF G
<1>4. ChannelsUpTo(m + 1) = ChannelsUpTo(m) \cup G(m + 1)
  <2>1. \A y : y \in ChannelsUpTo(m + 1) <=> (y \in ChannelsUpTo(m) \/ y \in G(m + 1))
    BY ONLY <1>1, <1>3, Zenon
  <2> QED BY ONLY <2>1, Zenon
<1>5. CASE InTime(m + 1)
  <2>1. \A y : y \in InTimeUpTo(m + 1) <=> (y \in InTimeUpTo(m) \/ y \in G(m + 1))
    BY ONLY <1>1, <1>3, <1>5, Zenon
  <2>2. InTimeUpTo(m + 1) = InTimeUpTo(m) \cup G(m + 1) BY ONLY <2>1, Zenon
  <2> QED BY <1>4, <1>5, <2>2, Zenon DEF G
<1>6. CASE ~InTime(m + 1)
  <2>1. \A y : y \in InTimeUpTo(m + 1) <=> y \in InTimeUpTo(m)
    BY ONLY <1>1, <1>3, <1>6, Zenon
  <2>2. InTimeUpTo(m + 1) = InTimeUpTo(m) BY ONLY <2>1, Zenon
  <2> QED BY <1>4, <1>6, <2>2, Zenon DEF G
<1> QED BY <1>5, <1>6

\* The words of a block are read where they are.
LEMMA BlockRead ==
    ASSUME sent \in Sent, triggerWords = Format(sent), sent.magic, ii = Len(sent.pairs) + 1,
           jj \in Nat, jj < Len(sent.blocks), NEW at, at = 2 * ii + 4 * jj
    PROVE  /\ At(at) = sent.blocks[jj + 1][1] /\ At(at + 1) = sent.blocks[jj + 1][2]
           /\ At(at + 2) = sent.blocks[jj + 1][3] /\ At(at + 3) = sent.blocks[jj + 1][4]
           /\ sent.blocks[jj + 1][3] \in Word /\ sent.blocks[jj + 1][4] \in Word
<1>1. /\ Len(sent.pairs) \in Nat /\ Len(sent.blocks) \in Nat
      /\ DOMAIN sent.blocks = 1..Len(sent.blocks)
      /\ IsFormat(sent, triggerWords)
  BY WordsLength
<1>2. PICK np \in Nat : np = Len(sent.pairs) BY <1>1
<1>3. PICK nb \in Nat : nb = Len(sent.blocks) BY <1>1
<1>4. PICK j \in Nat : j = jj OBVIOUS
<1>5. j < nb BY <1>3, <1>4, Zenon
<1>6. PICK b \in 1..nb : b = j + 1 BY <1>5
<1>7. \A k \in 1..4 : triggerWords[2 * np + 2 + 4 * (b - 1) + k] = sent.blocks[b][k]
  BY <1>1, <1>2, <1>3, Zenon DEF IsFormat
<1>8. at = 2 * (np + 1) + 4 * j BY <1>2, <1>4, Zenon
<1>9. PICK a \in Nat : a = 2 * np + 2 + 4 * (b - 1) BY <1>6
<1>10. 2 * (np + 1) + 4 * j = a BY <1>6, <1>9
<1>11. at + 1 = a + 1 /\ at + 1 + 1 = a + 2 /\ at + 2 + 1 = a + 3 /\ at + 3 + 1 = a + 4
  <2>1. a + 1 + 1 = a + 2 /\ a + 2 + 1 = a + 3 /\ a + 3 + 1 = a + 4 OBVIOUS
  <2> QED BY <1>8, <1>10, <2>1, Zenon
<1>12. 1 \in 1..4 /\ 2 \in 1..4 /\ 3 \in 1..4 /\ 4 \in 1..4 OBVIOUS
<1>13. /\ triggerWords[a + 1] = sent.blocks[b][1] /\ triggerWords[a + 2] = sent.blocks[b][2]
       /\ triggerWords[a + 3] = sent.blocks[b][3] /\ triggerWords[a + 4] = sent.blocks[b][4]
  BY <1>7, <1>9, <1>12, Zenon
<1>14. /\ At(at) = sent.blocks[b][1] /\ At(at + 1) = sent.blocks[b][2]
       /\ At(at + 2) = sent.blocks[b][3] /\ At(at + 3) = sent.blocks[b][4]
  BY <1>11, <1>13, Zenon DEF At
<1>15. sent.blocks[b][3] \in Word /\ sent.blocks[b][4] \in Word
  BY <1>1, <1>3, <1>12, SentTypes, Zenon
<1>16. b = jj + 1 BY <1>4, <1>6
<1> QED BY <1>14, <1>15, <1>16, Zenon

\* A block is decoded.
LEMMA BlockDecoded == ASSUME WordsInv, DecodeBlock PROVE WordsInv'
<1>1. PICK at : at = 2 * ii + 4 * jj OBVIOUS
<1>2. PICK fired : fired = Fired(At(at), At(at + 1)) OBVIOUS
<1>3. PICK time : time = ChanTime(At(at + 2), At(at + 3)) OBVIOUS
<1>4. /\ stage = "blocks" /\ jj < nwords /\ jj' = jj + 1
      /\ channels' = channels \cup fired
      /\ channelsTRG' = IF time >= chanTimeMin /\ time <= chanTimeMax
                        THEN channelsTRG \cup fired ELSE channelsTRG
      /\ sent' = sent /\ triggerWords' = triggerWords /\ stage' = stage /\ ii' = ii
      /\ trgTimes' = trgTimes
  BY <1>1, <1>2, <1>3, Zenon DEF DecodeBlock
<1>5. /\ sent \in Sent /\ triggerWords = Format(sent) /\ ii \in Nat /\ jj \in Nat
      /\ channels = ChannelsUpTo(jj) /\ channelsTRG = InTimeUpTo(jj)
      /\ trgTimes \in [0..(nTriggersMAX - 1) -> Seq(Int)]
      /\ sent.magic => ii = Len(sent.pairs) + 1
      /\ sent.magic => \A k \in DOMAIN trgTimes : TimesUpTo(trgTimes[k], k, ii - 1)
      /\ nwords = IF sent.magic THEN Len(sent.blocks) ELSE 0
  BY <1>4, BlocksLeft DEF WordsInv
<1>6. sent.magic
  <2> SUFFICES ASSUME ~sent.magic PROVE FALSE OBVIOUS
  <2>1. jj < 0 BY <1>4, <1>5, Zenon
  <2> QED BY <1>5, <2>1
<1>7. jj < Len(sent.blocks) BY <1>4, <1>5, <1>6, Zenon
<1>8. Len(sent.blocks) \in Nat BY <1>5, WordsLength
<1>9. PICK b \in Nat : b = jj + 1 BY <1>5
<1>10. /\ At(at) = sent.blocks[b][1] /\ At(at + 1) = sent.blocks[b][2]
       /\ At(at + 2) = sent.blocks[b][3] /\ At(at + 3) = sent.blocks[b][4]
       /\ sent.blocks[b][3] \in Word /\ sent.blocks[b][4] \in Word
  BY <1>1, <1>5, <1>6, <1>7, <1>9, BlockRead, Zenon
<1>11. fired = Fired(sent.blocks[b][1], sent.blocks[b][2]) BY <1>2, <1>10, Zenon
<1>12. time = TimeSent(sent.blocks[b]) BY <1>3, <1>10, SignedTime, Zenon
<1>13. (time >= chanTimeMin /\ time <= chanTimeMax) <=> InTime(b) BY <1>12, Zenon DEF InTime
<1>14. channels' = ChannelsUpTo(b) /\ channelsTRG' = InTimeUpTo(b)
  <2>1. /\ ChannelsUpTo(b) = ChannelsUpTo(jj) \cup fired
        /\ InTimeUpTo(b) = IF InTime(b) THEN InTimeUpTo(jj) \cup fired ELSE InTimeUpTo(jj)
    BY <1>5, <1>9, <1>11, ChannelsNext, Zenon
  <2>2. channelsTRG' = IF InTime(b) THEN channelsTRG \cup fired ELSE channelsTRG
    BY <1>4, <1>13, Zenon
  <2> QED BY <1>4, <1>5, <2>1, <2>2, Zenon
<1>15. (ChannelsUpTo(b))' = ChannelsUpTo(b) /\ (InTimeUpTo(b))' = InTimeUpTo(b)
  BY <1>4, Zenon DEF ChannelsUpTo, InTimeUpTo, InTime
<1>16. (channels = ChannelsUpTo(jj))' /\ (channelsTRG = InTimeUpTo(jj))'
  BY <1>4, <1>9, <1>14, <1>15, Zenon
<1>17. jj' <= Len(sent'.blocks) /\ jj' \in Nat
  <2>1. PICK nb \in Nat : nb = Len(sent.blocks) BY <1>8
  <2>2. PICK j \in Nat : j = jj BY <1>5
  <2>3. j < nb BY <1>7, <2>1, <2>2, Zenon
  <2>4. j + 1 <= nb /\ j + 1 \in Nat BY <2>3
  <2> QED BY <1>4, <2>1, <2>2, <2>4, Zenon
<1>18. (\A k \in DOMAIN trgTimes : TimesUpTo(trgTimes[k], k, ii - 1))'
  <2> SUFFICES ASSUME NEW k \in DOMAIN trgTimes PROVE TimesUpTo(trgTimes[k], k, ii - 1)'
    BY <1>4
  <2>1. PICK tt : tt = trgTimes[k] OBVIOUS
  <2>2. PICK m : m = ii - 1 OBVIOUS
  <2>3. TimesUpTo(tt, k, m)' BY <1>4, <1>5, <1>6, <2>1, <2>2, TimesSame, Zenon
  <2> QED BY <1>4, <2>1, <2>2, <2>3, Zenon
<1>19. "blocks" # "decoded" OBVIOUS
<1> QED BY <1>4, <1>5, <1>6, <1>16, <1>17, <1>18, <1>19, Zenon DEF WordsInv

\* The loop over the blocks ends.
LEMMA BlocksEnded == ASSUME WordsInv, EndBlocks PROVE WordsInv'
<1>1. /\ stage = "blocks" /\ jj >= nwords /\ stage' = "decoded"
      /\ sent' = sent /\ triggerWords' = triggerWords /\ ii' = ii /\ jj' = jj
      /\ trgTimes' = trgTimes /\ channels' = channels /\ channelsTRG' = channelsTRG
  BY DEF EndBlocks
<1>2. /\ sent \in Sent /\ triggerWords = Format(sent) /\ jj \in Nat
      /\ sent.magic => jj <= Len(sent.blocks)
      /\ nwords = IF sent.magic THEN Len(sent.blocks) ELSE 0
  BY <1>1, BlocksLeft DEF WordsInv
<1>3. sent.magic => jj = Len(sent.blocks)
  <2>1. PICK nb \in Nat : nb = Len(sent.blocks) BY <1>2, WordsLength
  <2>2. PICK j \in Nat : j = jj BY <1>2
  <2> SUFFICES ASSUME sent.magic PROVE j = nb BY <2>1, <2>2, Zenon
  <2>3. j <= nb /\ j >= nb BY <1>1, <1>2, <2>1, <2>2, Zenon
  <2> QED BY <2>3
<1>4. (channels = ChannelsUpTo(jj))' /\ (channelsTRG = InTimeUpTo(jj))'
  <2>1. channels = ChannelsUpTo(jj) /\ channelsTRG = InTimeUpTo(jj) BY <1>1 DEF WordsInv
  <2>2. (ChannelsUpTo(jj))' = ChannelsUpTo(jj) BY ONLY <1>1, Zenon DEF ChannelsUpTo
  <2>3. (InTimeUpTo(jj))' = InTimeUpTo(jj) BY ONLY <1>1, Zenon DEF InTimeUpTo, InTime
  <2> QED BY ONLY <1>1, <2>1, <2>2, <2>3, Zenon
<1>5. sent'.magic => (\A k \in DOMAIN trgTimes : TimesUpTo(trgTimes[k], k, ii - 1))'
  <2> SUFFICES ASSUME sent.magic, NEW k \in DOMAIN trgTimes
               PROVE  TimesUpTo(trgTimes[k], k, ii - 1)'
    BY <1>1
  <2>1. PICK tt : tt = trgTimes[k] OBVIOUS
  <2>2. PICK m : m = ii - 1 OBVIOUS
  <2>3. TimesUpTo(tt, k, m)' BY <1>1, <2>1, <2>2, TimesSame, Zenon DEF WordsInv
  <2> QED BY <1>1, <2>1, <2>2, <2>3, Zenon
<1>6. "decoded" # "off" /\ "decoded" # "pairs" OBVIOUS
<1>7. WordsInv /\ stage \in {"blocks", "decoded"} BY <1>1
<1> QED BY <1>1, <1>3, <1>4, <1>5, <1>6, <1>7, Zenon DEF WordsInv

\* The decoding of the words of an event begins.
LEMMA DecodingStarted == ASSUME StartDecoding PROVE WordsInv'
<1>1. PICK s \in Sent : sent' = s /\ triggerWords' = Format(s) BY DEF StartDecoding
<1>2. /\ stage' = "pairs" /\ ii' = 0 /\ jj' = 0 /\ trgTimes' = NoTimes
      /\ channels' = {} /\ channelsTRG' = {}
  BY DEF StartDecoding
<1>3. Format(s) \in Seq(Word) BY FormatIs DEF IsFormat
<1>4. PICK len \in Nat : len = Len(Format(s)) BY <1>3
<1>5. PICK np \in Nat : np = Len(s.pairs) BY SentTypes
<1>6. 2 * 0 <= len /\ 0 <= np /\ 0 \in Nat OBVIOUS
<1>7. NoTimes \in [0..(nTriggersMAX - 1) -> Seq(Int)] /\ \A k \in DOMAIN NoTimes : NoTimes[k] = << >>
  BY DEF NoTimes
<1>8. ASSUME NEW k, NEW e, e = << >> PROVE TimesUpTo(e, k, 0)'
  <2>1. PICK N : N = 1..Len(e) OBVIOUS
  <2>2. N = {} /\ 1..0 = {} BY <1>8, <2>1
  <2>3. PICK f : f = [i \in N |-> i] OBVIOUS
  <2>4. f \in [N -> 1..0] BY <2>2, <2>3
  <2>5. /\ \A i, j \in N : i < j => f[i] < f[j]
        /\ \A p \in 1..0 : Bit(sent'.pairs[p][1], k) <=> \E i \in N : f[i] = p
        /\ \A i \in N : e[i] = AsInt(sent'.pairs[f[i]][2])
    BY ONLY <2>2, Zenon
  <2>6. \E from \in [N -> 1..0] :
            /\ \A i, j \in N : i < j => from[i] < from[j]
            /\ \A p \in 1..0 : Bit(sent'.pairs[p][1], k) <=> \E i \in N : from[i] = p
            /\ \A i \in N : e[i] = AsInt(sent'.pairs[from[i]][2])
    BY ONLY <2>4, <2>5, Zenon
  <2> QED BY ONLY <2>1, <2>6, Zenon DEF TimesUpTo
<1>9. (\A k \in DOMAIN trgTimes : TimesUpTo(trgTimes[k], k, ii))'
  <2> SUFFICES ASSUME NEW k \in DOMAIN NoTimes PROVE TimesUpTo(trgTimes[k], k, ii)'
    BY <1>2
  <2> QED BY <1>2, <1>7, <1>8, Zenon
<1>10. 2 * ii' <= Len(triggerWords') /\ ii' <= Len(sent'.pairs)
  BY <1>1, <1>2, <1>4, <1>5, <1>6, Zenon
<1>11. "pairs" # "off" /\ "pairs" # "blocks" /\ "pairs" # "decoded" OBVIOUS
<1> QED BY <1>1, <1>2, <1>6, <1>7, <1>9, <1>10, <1>11, Zenon DEF WordsInv

\* Nothing is decoded between the events.
LEMMA WordsOff ==
    ASSUME stage = "off", trgTimes = NoTimes
    PROVE  WordsInv
<1>1. NoTimes \in [0..(nTriggersMAX - 1) -> Seq(Int)] BY DEF NoTimes
<1>2. "off" # "pairs" /\ "off" # "blocks" /\ "off" # "decoded" OBVIOUS
<1> QED BY <1>1, <1>2, Zenon DEF WordsInv

\* A step that leaves the words alone.
LEMMA WordsSame == ASSUME WordsInv, UNCHANGED wordVars PROVE WordsInv'
<1>1. /\ sent' = sent /\ triggerWords' = triggerWords /\ stage' = stage /\ ii' = ii /\ jj' = jj
      /\ trgTimes' = trgTimes /\ channels' = channels /\ channelsTRG' = channelsTRG
  BY DEF wordVars
<1>2. /\ (ChannelsUpTo(jj))' = ChannelsUpTo(jj) /\ (InTimeUpTo(jj))' = InTimeUpTo(jj)
  BY <1>1, Zenon DEF ChannelsUpTo, InTimeUpTo, InTime
<1>3. (\A k \in DOMAIN trgTimes : TimesUpTo(trgTimes[k], k, ii)) =>
         (\A k \in DOMAIN trgTimes : TimesUpTo(trgTimes[k], k, ii))'
  <2> SUFFICES ASSUME NEW k \in DOMAIN trgTimes, TimesUpTo(trgTimes[k], k, ii)
               PROVE  TimesUpTo(trgTimes[k], k, ii)'
    BY <1>1
  <2>1. PICK tt, m : tt = trgTimes[k] /\ m = ii OBVIOUS
  <2>2. TimesUpTo(tt, k, m)' BY <1>1, <2>1, TimesSame, Zenon
  <2> QED BY <1>1, <2>1, <2>2, Zenon
<1>4. (\A k \in DOMAIN trgTimes : TimesUpTo(trgTimes[k], k, ii - 1)) =>
         (\A k \in DOMAIN trgTimes : TimesUpTo(trgTimes[k], k, ii - 1))'
  <2> SUFFICES ASSUME NEW k \in DOMAIN trgTimes, TimesUpTo(trgTimes[k], k, ii - 1)
               PROVE  TimesUpTo(trgTimes[k], k, ii - 1)'
    BY <1>1
  <2>1. PICK tt, m : tt = trgTimes[k] /\ m = ii - 1 OBVIOUS
  <2>2. TimesUpTo(tt, k, m)' BY <1>1, <2>1, TimesSame, Zenon
  <2> QED BY <1>1, <2>1, <2>2, Zenon
<1> QED BY <1>1, <1>2, <1>3, <1>4, Zenon DEF WordsInv

\* Every step of the builder keeps what was read of the words right.
LEMMA WordsNext == ASSUME WordsInv, [Next]_vars PROVE WordsInv'
<1>1. CASE Words
  <2>1. CASE StartDecoding BY <2>1, DecodingStarted
  <2>2. CASE DecodeStep
    BY <2>2, PairDecoded, PairsEnded, BlockDecoded, BlocksEnded DEF DecodeStep
  <2> QED BY <1>1, <2>1, <2>2 DEF Words
<1>2. CASE GetCross
  <2>1. stage' = "off" /\ trgTimes' = NoTimes BY <1>2 DEF GetCross, ForgetWords
  <2>2. NoTimes \in [0..(nTriggersMAX - 1) -> Seq(Int)] BY DEF NoTimes
  <2>3. "off" # "pairs" /\ "off" # "blocks" /\ "off" # "decoded" OBVIOUS
  <2> QED BY <2>1, <2>2, <2>3, Zenon DEF WordsInv
<1>3. CASE ~Words /\ ~GetCross
  <2>1. UNCHANGED wordVars
    BY <1>3 DEF Next, StartEvent, Header, MakeHits, FillList, Publish, EndEvent, Done, vars
  <2> QED BY <2>1, WordsSame
<1> QED BY <1>1, <1>2, <1>3

\* When all is read, what was read is what was sent.
LEMMA AllRead == WordsInv => WordsDecoded
<1> SUFFICES ASSUME WordsInv, stage = "decoded"
             PROVE  /\ sent.magic => \A k \in DOMAIN trgTimes : TimesSent(trgTimes[k], k)
                    /\ channels = UNION {Fired(b[1], b[2]) : b \in BlocksSent}
                    /\ channelsTRG = UNION {Fired(b[1], b[2]) : b \in
                          {c \in BlocksSent : TimeSent(c) \in chanTimeMin..chanTimeMax}}
  BY Zenon DEF WordsDecoded
<1>1. /\ sent \in Sent /\ triggerWords = Format(sent) /\ ii \in Nat /\ jj \in Nat
      /\ channels = ChannelsUpTo(jj) /\ channelsTRG = InTimeUpTo(jj)
      /\ sent.magic => ii = Len(sent.pairs) + 1 /\ jj = Len(sent.blocks)
      /\ sent.magic => \A k \in DOMAIN trgTimes : TimesUpTo(trgTimes[k], k, ii - 1)
      /\ ~sent.magic => jj = 0
  BY DEF WordsInv
<1>2. /\ Len(sent.pairs) \in Nat /\ DOMAIN sent.pairs = 1..Len(sent.pairs)
      /\ DOMAIN sent.blocks = 1..Len(sent.blocks) /\ sent.magic \in BOOLEAN
      /\ \A b \in DOMAIN sent.blocks : sent.blocks[b][3] \in Word /\ sent.blocks[b][4] \in Word
  <2>1. 3 \in 1..4 /\ 4 \in 1..4 OBVIOUS
  <2> QED BY <1>1, <2>1, SentTypes, Zenon
<1>3. sent.magic => \A k \in DOMAIN trgTimes : TimesSent(trgTimes[k], k)
  <2> SUFFICES ASSUME sent.magic, NEW k \in DOMAIN trgTimes PROVE TimesSent(trgTimes[k], k)
    OBVIOUS
  <2>1. PICK np \in Nat : np = Len(sent.pairs) BY <1>2
  <2>2. ii = np + 1 BY <1>1, <2>1, Zenon
  <2>3. ii - 1 = np BY <2>2
  <2>4. TimesUpTo(trgTimes[k], k, np) BY <1>1, <2>3, Zenon
  <2>5. DOMAIN sent.pairs = 1..np BY <1>2, <2>1, Zenon
  <2> QED BY <2>4, <2>5, Zenon DEF TimesUpTo, TimesSent
<1>4. ASSUME NEW c PROVE c \in BlocksSent <=> \E b \in 1..jj : c = sent.blocks[b]
  <2>1. CASE sent.magic
    <3>1. BlocksSent = ToSet(sent.blocks) BY <2>1, Zenon DEF BlocksSent
    <3>2. c \in ToSet(sent.blocks) <=> \E b \in DOMAIN sent.blocks : c = sent.blocks[b]
      BY Zenon DEF ToSet
    <3>3. DOMAIN sent.blocks = 1..jj BY <1>1, <1>2, <2>1, Zenon
    <3> QED BY <3>1, <3>2, <3>3, Zenon
  <2>2. CASE ~sent.magic
    <3>1. BlocksSent = {} BY <2>2, Zenon DEF BlocksSent
    <3>2. jj = 0 BY <1>1, <2>2, Zenon
    <3>3. 1..0 = {} OBVIOUS
    <3> QED BY ONLY <3>1, <3>2, <3>3, Zenon
  <2> QED BY <2>1, <2>2
<1>5. ASSUME NEW b \in 1..jj
      PROVE  InTime(b) <=> TimeSent(sent.blocks[b]) \in chanTimeMin..chanTimeMax
  <2>1. sent.magic
    <3> SUFFICES ASSUME ~sent.magic PROVE FALSE OBVIOUS
    <3>1. jj = 0 BY <1>1, Zenon
    <3> QED BY <3>1
  <2>2. b \in DOMAIN sent.blocks BY <1>1, <1>2, <2>1, Zenon
  <2>3. TimeSent(sent.blocks[b]) \in Int BY <1>2, <2>2, SignedTime, Zenon
  <2>4. PICK t \in Int : t = TimeSent(sent.blocks[b]) BY <2>3
  <2>5. t \in chanTimeMin..chanTimeMax <=> t >= chanTimeMin /\ t <= chanTimeMax
    BY TriggerWordsAssumption
  <2> QED BY <2>4, <2>5, Zenon DEF InTime
<1> DEFINE G(b) == Fired(sent.blocks[b][1], sent.blocks[b][2])
<1>6. \A y, S : y \in UNION {Fired(c[1], c[2]) : c \in S} <=> \E c \in S : y \in Fired(c[1], c[2])
  OBVIOUS
<1>7. ASSUME NEW y
      PROVE  /\ y \in ChannelsUpTo(jj) <=> \E b \in 1..jj : y \in G(b)
             /\ y \in InTimeUpTo(jj) <=> \E b \in 1..jj : InTime(b) /\ y \in G(b)
  <2>1. \A S : y \in UNION {G(b) : b \in S} <=> \E b \in S : y \in G(b) OBVIOUS
  <2>2. y \in ChannelsUpTo(jj) <=> \E b \in 1..jj : y \in G(b) BY <2>1, Zenon DEF ChannelsUpTo
  <2>3. y \in InTimeUpTo(jj) <=> \E b \in {c \in 1..jj : InTime(c)} : y \in G(b)
    BY <2>1, Zenon DEF InTimeUpTo
  <2> QED BY <2>2, <2>3, Zenon
<1>8. channels = UNION {Fired(b[1], b[2]) : b \in BlocksSent}
  <2>1. \A y : y \in channels <=> \E c \in BlocksSent : y \in Fired(c[1], c[2])
    BY <1>1, <1>4, <1>7, Zenon
  <2>2. \A y : y \in channels <=> y \in UNION {Fired(b[1], b[2]) : b \in BlocksSent}
    BY <1>6, <2>1, Zenon
  <2> QED BY <2>2, Zenon
<1>9. channelsTRG = UNION {Fired(b[1], b[2]) : b \in
                      {c \in BlocksSent : TimeSent(c) \in chanTimeMin..chanTimeMax}}
  <2> DEFINE S == {c \in BlocksSent : TimeSent(c) \in chanTimeMin..chanTimeMax}
  <2>1. \A y : y \in channelsTRG <=> \E c \in S : y \in Fired(c[1], c[2])
    BY <1>1, <1>4, <1>5, <1>7, Zenon
  <2> HIDE DEF S
  <2>2. \A y : y \in channelsTRG <=> y \in UNION {Fired(b[1], b[2]) : b \in S}
    BY <1>6, <2>1, Zenon
  <2>3. channelsTRG = UNION {Fired(b[1], b[2]) : b \in S} BY <2>2, Zenon
  <2> QED BY <2>3, Zenon DEF S
<1> QED BY <1>3, <1>8, <1>9

\* triggerDataBDXmini_factory says what the DAQ has sent, for words of any
\* width and events of any length that have the MAGIC words: for each trigger
\* its times in their order; the channels of all blocks, and as those in time
\* with the trigger the channels of the blocks whose signed time is in the
\* window.  Without the MAGIC words there are no channels; the times, for which
\* blocks are then taken for pairs, are not claimed.
THEOREM WordsAreDecoded == Spec => []WordsDecoded
<1>1. Init => WordsInv BY WordsOff DEF Init, InitWords
<1>2. WordsInv /\ [Next]_vars => WordsInv' BY WordsNext
<1>3. WordsInv => WordsDecoded BY AllRead
<1> QED BY <1>1, <1>2, <1>3, PTL DEF Spec


-----------------------------------------------------------------------------
(***************************************************************************)
(* Types.                                                                  *)
(***************************************************************************)

\* Before the words are asked for nothing is there of an earlier event.
OffInv ==
    stage = "off" => /\ triggerWords = << >> /\ ii = 0 /\ jj = 0
                     /\ channels = {} /\ channelsTRG = {}

\* Every step preserves OffInv.
LEMMA OffStep == ASSUME OffInv, [Next]_vars PROVE OffInv'
<1>1. CASE UNCHANGED wordVars BY <1>1 DEF OffInv, wordVars
<1>2. CASE Words
  <2>1. StartDecoding \/ DecodeStep BY <1>2 DEF Words
  <2>2. CASE StartDecoding
    <3>1. stage' = "pairs" BY <2>2 DEF StartDecoding
    <3> QED BY <3>1 DEF OffInv
  <2>3. CASE DecodeStep
    <3>1. stage' # "off"
      BY <2>3 DEF DecodeStep, DecodePair, EndPairs, DecodeBlock, EndBlocks
    <3> QED BY <3>1 DEF OffInv
  <2> QED BY <2>1, <2>2, <2>3
<1>3. CASE GetCross BY <1>3 DEF GetCross, ForgetWords, OffInv
<1>4. CASE StartEvent \/ Header \/ FillList \/ Publish \/ EndEvent \/ Done \/ UNCHANGED vars
  <2>1. UNCHANGED wordVars
    BY <1>4 DEF StartEvent, Header, FillList, Publish, EndEvent, Done, vars
  <2> QED BY <1>1, <2>1
<1>5. ASSUME NEW d \in Detectors, MakeHits(d) PROVE OffInv'
  <2>1. UNCHANGED wordVars BY <1>5 DEF MakeHits
  <2> QED BY <1>1, <2>1
<1> QED BY <1>2, <1>3, <1>4, <1>5 DEF Next

\* The places in the words are within them, and the channels are channels.
LEMMA WordsTyped == ASSUME WordsInv, OffInv PROVE WordsTypeOK
<1>1. stage \in {"off", "pairs", "blocks", "decoded"}
      /\ trgTimes \in [0..(nTriggersMAX - 1) -> Seq(Int)]
  BY DEF WordsInv
<1>2. CASE stage = "off"
  <2>1. triggerWords = << >> /\ ii = 0 /\ jj = 0 /\ channels = {} /\ channelsTRG = {}
    BY <1>2 DEF OffInv
  <2>2. Len(triggerWords) = 0 /\ triggerWords \in Seq(Word) BY <2>1
  <2> QED BY <1>1, <2>1, <2>2 DEF WordsTypeOK
<1>3. CASE stage # "off"
  <2>1. sent \in Sent /\ triggerWords = Format(sent) BY <1>3 DEF WordsInv
  <2>2. IsFormat(sent, triggerWords) BY <2>1, FormatIs, Zenon
  <2>3. Len(sent.pairs) \in Nat /\ Len(sent.blocks) \in Nat /\ Len(sent.rest) \in Nat
        /\ sent.magic \in BOOLEAN
    BY <2>1, SentTypes
  <2>a. PICK np \in Nat : np = Len(sent.pairs) BY <2>3
  <2>b. PICK nb \in Nat : nb = Len(sent.blocks) BY <2>3
  <2>c. PICK nr \in Nat : nr = Len(sent.rest) BY <2>3
  <2>4. triggerWords \in Seq(Word) /\ Len(triggerWords) \in Nat
    <3>1. triggerWords \in Seq(Word) BY <2>2, Zenon DEF IsFormat
    <3> QED BY ONLY <3>1
  <2>d. PICK len \in Nat : len = Len(triggerWords) BY <2>4
  <2>5. len = 2 * np + (IF sent.magic THEN 2 ELSE 0) + 4 * nb + nr
    BY <2>2, <2>a, <2>b, <2>c, <2>d, Zenon DEF IsFormat
  <2>6. ii \in Nat /\ jj \in Nat /\ ii <= len \div 2 + 1 /\ jj <= len \div 4
    <3>1. CASE stage = "pairs"
      <4>1. ii \in Nat /\ 2 * ii <= len /\ jj = 0 BY <2>d, <3>1 DEF WordsInv
      <4> QED BY <4>1
    <3>2. CASE stage \in {"blocks", "decoded"} /\ sent.magic
      <4>1. ii \in Nat /\ jj \in Nat /\ ii = np + 1 /\ jj <= nb
        BY <2>a, <2>b, <3>2, Zenon DEF WordsInv
      <4>2. len = 2 * np + 2 + 4 * nb + nr BY <2>5, <3>2
      <4> QED BY <4>1, <4>2
    <3>3. CASE stage \in {"blocks", "decoded"} /\ ~sent.magic
      <4>1. ii \in Nat /\ jj = 0 /\ len - 2 * ii \in -2..3
        BY <2>d, <3>3, Zenon DEF WordsInv
      <4> QED BY <4>1
    <3> QED BY <1>1, <1>3, <2>3, <3>1, <3>2, <3>3
  <2>7. channels \in SUBSET (0..(nChansMAX - 1)) /\ channelsTRG \in SUBSET channels
    <3>1. CASE stage = "pairs"
      <4>1. channels = {} /\ channelsTRG = {} BY <3>1 DEF WordsInv
      <4> QED BY <4>1, Zenon
    <3>2. CASE stage \in {"blocks", "decoded"}
      <4>1. channels = ChannelsUpTo(jj) /\ channelsTRG = InTimeUpTo(jj)
        BY <3>2, Zenon DEF WordsInv
      <4>2. \A lo, hi : Fired(lo, hi) \subseteq 0..(nChansMAX - 1) BY Zenon DEF Fired
      <4>3. ChannelsUpTo(jj) \subseteq 0..(nChansMAX - 1) BY <4>2, Zenon DEF ChannelsUpTo
      <4>4. InTimeUpTo(jj) \subseteq ChannelsUpTo(jj) BY Zenon DEF ChannelsUpTo, InTimeUpTo
      <4> QED BY <4>1, <4>3, <4>4, Zenon
    <3> QED BY <1>1, <1>3, <3>1, <3>2
  <2>8. ii \in 0..(Len(triggerWords) \div 2 + 1) /\ jj \in 0..(Len(triggerWords) \div 4)
    BY <2>d, <2>6
  <2> QED BY <1>1, <2>4, <2>7, <2>8, Zenon DEF WordsTypeOK
<1> QED BY <1>2, <1>3

\* What an entry of a list says of its event.
EntriesOf(q, m) == \A i \in DOMAIN q : q[i].ev \in 1..m /\ q[i].i = i

KindInv ==
    /\ n \in 0..MaxEvents /\ (pc # "idle" => n # 0)
    /\ vary \in DOMAIN Inputs /\ other \in 0..MaxOther
    /\ cross \in [sine : Level, signal : Level]
    /\ \A l \in ListNames : EntriesOf(lists[l], n)

\* Every step preserves KindInv: a list is filled with entries of the event at
\* hand, and keeps those of an earlier event otherwise.
LEMMA KindStep == ASSUME TInv, KindInv, [Next]_vars PROVE KindInv'
<1>0. NoCross \in [sine : Level, signal : Level] BY DEF NoCross, Level
<1>1. CASE StartEvent
  <2>1. /\ n < MaxEvents /\ n' = n + 1 /\ lists' = lists /\ cross' = NoCross
        /\ other' \in 0..MaxOther /\ vary' \in DOMAIN Inputs
    BY <1>1 DEF StartEvent
  <2>2. n' \in 0..MaxEvents /\ n' # 0 BY <2>1, EventBuilderAssumption DEF KindInv
  <2>3. \A l \in ListNames : EntriesOf(lists[l], n')
    <3> TAKE l \in ListNames
    <3>1. EntriesOf(lists[l], n) BY DEF KindInv
    <3>2. \A x \in 1..n : x \in 1..n' BY <2>1 DEF KindInv
    <3> QED BY <3>1, <3>2, Zenon DEF EntriesOf
  <2> QED BY <1>0, <2>1, <2>2, <2>3, Zenon DEF KindInv
<1>2. CASE FillList
  <2>1. /\ UNCHANGED <<n, pc, vary, other, cross>>
        /\ \E x \in {Copied(Program[step]), << >>} :
              lists' = [lists EXCEPT ![Program[step]] = x]
        /\ pc = "fill"
    BY <1>2 DEF FillList
  <2>2. n \in 1..n BY <2>1 DEF KindInv
  <2>3. \A l : EntriesOf(Copied(l), n)
    <3> TAKE l
    <3>1. PICK q : q = Copied(l) OBVIOUS
    <3>2. \A i \in DOMAIN q : q[i] = [ev |-> n, i |-> i] BY <3>1 DEF Copied
    <3>3. EntriesOf(q, n) BY <2>2, <3>2 DEF EntriesOf
    <3> QED BY <3>1, <3>3, Zenon
  <2>4. EntriesOf(<< >>, n) BY DEF EntriesOf
  <2>5. \A l \in ListNames : EntriesOf(lists'[l], n)
    <3> TAKE l \in ListNames
    <3>1. PICK x \in {Copied(Program[step]), << >>} :
            lists' = [lists EXCEPT ![Program[step]] = x]
      BY <2>1
    <3>2. lists'[l] = x \/ lists'[l] = lists[l] BY <3>1 DEF TInv, IsFunction
    <3> QED BY <2>3, <2>4, <3>2 DEF KindInv
  <2> QED BY <2>1, <2>5, Zenon DEF KindInv
<1>3. CASE GetCross
  <2>1. /\ UNCHANGED <<n, vary, other, lists>> /\ pc = "words"
        /\ cross' = cross \/ cross' \in InputOf("cross")
    BY <1>3 DEF GetCross
  <2>2. InputOf("cross") \subseteq [sine : Level, signal : Level]
    BY EventBuilderAssumption DEF InputOf
  <2> QED BY <2>1, <2>2 DEF KindInv
<1>4. CASE EndEvent
  <2>1. /\ UNCHANGED <<n, lists>> /\ pc' = "idle" /\ vary' = "calo" /\ other' = 0
        /\ cross' = NoCross
    BY <1>4 DEF EndEvent
  <2>2. "calo" \in DOMAIN Inputs /\ 0 \in 0..MaxOther BY EventBuilderAssumption
  <2> QED BY <1>0, <2>1, <2>2 DEF KindInv
<1>5. CASE Header \/ Words \/ Publish \/ Done \/ UNCHANGED vars
  <2>1. UNCHANGED <<n, vary, other, cross, lists>> /\ (pc = "idle" => pc' = "idle")
    BY <1>5 DEF Header, Words, Publish, Done, vars, eventVars
  <2> QED BY <2>1 DEF KindInv
<1>6. ASSUME NEW d \in Detectors, MakeHits(d) PROVE KindInv'
  <2>1. UNCHANGED <<n, pc, vary, other, cross, lists>> BY <1>6 DEF MakeHits
  <2> QED BY <2>1 DEF KindInv
<1> QED BY <1>1, <1>2, <1>3, <1>4, <1>5, <1>6 DEF Next

\* All variables of the builder and of the decoder have their types; what a
\* list holds is of an event that was read, and at its place.
THEOREM TypeCorrect == Spec => []TypeOK
<1> DEFINE Inv == TInv /\ KindInv /\ WordsInv /\ OffInv
<1>1. Init => Inv
  <2> SUFFICES ASSUME Init PROVE Inv OBVIOUS
  <2>1. TInv BY BInvInit DEF BInv
  <2>2. WordsInv BY WordsOff DEF Init, InitWords
  <2>3. OffInv BY DEF Init, InitWords, OffInv
  <2>4. /\ n = 0 /\ pc = "idle" /\ vary = "calo" /\ other = 0 /\ cross = NoCross
        /\ lists = [l \in ListNames |-> << >>]
    BY DEF Init
  <2>5. NoCross \in [sine : Level, signal : Level] BY DEF NoCross, Level
  <2>6. "calo" \in DOMAIN Inputs /\ 0 \in 0..MaxOther /\ 0 \in 0..MaxEvents
    BY EventBuilderAssumption
  <2>7. \A l \in ListNames : lists[l] = << >> BY <2>4
  <2>8. EntriesOf(<< >>, n) BY DEF EntriesOf
  <2>9. KindInv BY <2>4, <2>5, <2>6, <2>7, <2>8 DEF KindInv
  <2> QED BY <2>1, <2>2, <2>3, <2>9
<1>2. Inv /\ [Next]_vars => Inv' BY TInvStep, KindStep, WordsNext, OffStep
<1>3. Inv => TypeOK
  <2> SUFFICES ASSUME Inv PROVE TypeOK OBVIOUS
  <2>1. WordsTypeOK BY WordsTyped
  <2>2. step \in 1..(Len(Program) + 1) /\ pc \in {"idle", "header", "words", "fill", "built"}
    BY DEF TInv
  <2>3. \A l \in ListNames : \A i \in DOMAIN lists[l] :
           lists[l][i].ev \in 1..n /\ lists[l][i].i = i
    BY DEF KindInv, EntriesOf
  <2> QED BY <2>1, <2>2, <2>3 DEF KindInv, TypeOK
<1> QED BY <1>1, <1>2, <1>3, PTL DEF Spec
=============================================================================
