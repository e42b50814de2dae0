------------------------- MODULE EventSource_proofs -------------------------
(***************************************************************************)
(* Theorems: for any command line, whatever the sources hold, the events   *)
(* come in order and none twice, no file is left before its end or an      *)
(* event that cannot be read, every event has the run its own source       *)
(* names, and ids, trees and ET events are accounted for.                  *)
(*                                                                         *)
(* The argument has four parts.  Where the reader is: its place is inside  *)
(* the current source, and between the steps of GetEvent of an ET source   *)
(* it holds the last item taken (BaseInv).  What a step does to that       *)
(* place: it delivers the next event, leaves the source, opens the next    *)
(* one or does nothing (StepKinds), so that the events delivered are those *)
(* before the place, in order (ReadInv), and curRunNumber is the run of    *)
(* the items before it (RunsInv).  What the calls note: an id belongs to   *)
(* one event in use, or to the last call of a source that brought none     *)
(* (BookInv, CallInv).  And who owns a tree or an ET event (TreesInv,      *)
(* KeptInv).                                                               *)
(***************************************************************************)
EXTENDS EventSource, FiniteSetTheorems, TLAPS

\* The events a source can deliver.
EventSet == [src : Nat, id : Nat, item : Nat, sub : Nat, run : {NoRun} \cup Runs,
             sequential : BOOLEAN]

SourceKinds == {"file", "ET", "mc", "tridas"}

\* Types, beside TypeOK.
MoreTypes ==
    /\ srcs \in SourceLists
    /\ delivered \in Seq(EventSet) /\ pending \subseteq EventSet
    /\ DOMAIN inProgress = Sources /\ DOMAIN kept = Sources

\* Where the reader is in the current source.
PlaceInv ==
    /\ cur \in {0, opened}
    /\ cur # 0 => Kind \in SourceKinds
    /\ pc \in {"et", "wait", "check", "parse"} => cur # 0 /\ Kind = "ET"
    /\ pc = "check" => pe \in DOMAIN Items /\ item = pe + 1
    /\ pc = "parse" => /\ ref = [src |-> cur, item |-> item - 1, sub |-> 0]
                       /\ item - 1 \in DOMAIN Items /\ Items[item - 1].what # "corrupt"
    /\ undef => cur # 0 /\ Kind = "tridas"
    /\ cur # 0 /\ Kind = "tridas" /\ ~undef =>
          item \in DOMAIN Items /\ sub <= Items[item].n
    /\ cur # 0 /\ Kind # "tridas" => item <= Len(Items) + 1 /\ sub = 0

\* The first item of the current source that has not been delivered, or in
\* part only.
Front == IF pc \in {"check", "parse"} THEN item - 1 ELSE item

\* Event s of item i of the current source has been delivered.
Passed(i, s) == i < Front \/ (Kind = "tridas" /\ i = item /\ s <= sub)

\* What was delivered is in the sources opened, and before the reader's place.
PassedInv ==
    \A k \in DOMAIN delivered :
        LET e == delivered[k]
        IN  /\ e.src \in 1..opened
            /\ Tree(e) \in Holds(e.src)
            /\ e.src = cur => Passed(e.item, e.sub)

\* Of the current source all that is before the reader's place was delivered.
NoneLeftOut ==
    cur # 0 /\ ~undef /\ Kind # "ET" =>
        \A t \in Holds(cur) : Passed(t.item, t.sub) => t \in DeliveredOf(cur)

\* The run that items 1 to n name is r.
Named(items, n) == {j \in 1..n : items[j].what \in {"physics", "prestart"}}
RunSays(items, n, r) ==
    \/ Named(items, n) = {} /\ r = NoRun
    \/ \E j \in Named(items, n) :
          (\A m \in Named(items, n) : m <= j) /\ r = items[j].run

CurRunInv ==
    cur # 0 /\ overwrite = NoRun /\ Kind \in {"file", "ET"} =>
        RunSays(Items, Front - 1, curRun)

\* The run of a delivered event.
RunInv ==
    \A k \in DOMAIN delivered :
        LET e == delivered[k] IN
        /\ overwrite # NoRun /\ KindOf(e.src) # "tridas" => e.run = overwrite
        /\ KindOf(e.src) = "tridas" => e.run = srcs[e.src].items[e.item].run
        /\ overwrite = NoRun /\ KindOf(e.src) \in {"file", "ET"} =>
              RunSays(srcs[e.src].items, e.item, e.run)

\* An event in use has the id of one call, and no other event has it.
IdInv ==
    /\ \A e \in pending : /\ e.src \in 1..opened /\ e.id \in 1..calls[e.src]
                          /\ AskedInVain(e.src) => e.id # calls[e.src]
    /\ \A e, f \in pending : e.src = f.src /\ e.id = f.id => e = f
    /\ \A i \in Sources : i > opened => calls[i] = 0

\* A source keeps an ET event only when it is left.
KeptInv ==
    \A i \in Sources : /\ kept[i] = {} \/ \E x : kept[i] = {x}
                       /\ kept[i] # {} => i # cur /\ i <= opened

-----------------------------------------------------------------------------
(***************************************************************************)
(* What stays the same, and what the definitions say element by element.   *)
(***************************************************************************)

\* A reference to an event is not None.
LEMMA RefNotNone == \A a, b, c : [src |-> a, item |-> b, sub |-> c] # None
BY DEF None

\* The command line is a sequence of sources with sequences of items.
LEMMA SourceTypes ==
    ASSUME MoreTypes
    PROVE  /\ Sources = 1..Len(srcs) /\ Len(srcs) \in Nat
           /\ \A i \in Sources :
                 /\ srcs[i].items \in Seq(ItemSet)
                 /\ DOMAIN srcs[i].items = 1..Len(srcs[i].items)
                 /\ Len(srcs[i].items) \in Nat
                 /\ \A k \in DOMAIN srcs[i].items :
                       /\ srcs[i].items[k].run \in {NoRun} \cup Runs
                       /\ srcs[i].items[k].n \in Nat
<1>1. srcs \in Seq(SourceSet) BY SourceAssumption DEF MoreTypes
<1>2. \A i \in Sources : srcs[i] \in SourceSet BY <1>1 DEF Sources
<1>3. \A i \in Sources : srcs[i].items \in Seq(ItemSet) BY <1>2 DEF SourceSet
<1>4. \A i \in Sources : \A k \in DOMAIN srcs[i].items : srcs[i].items[k] \in ItemSet
  BY <1>3
<1>5. \A i \in Sources : \A k \in DOMAIN srcs[i].items :
         srcs[i].items[k].run \in {NoRun} \cup Runs /\ srcs[i].items[k].n \in Nat
  BY <1>4 DEF ItemSet
<1>6. \A i \in Sources : /\ DOMAIN srcs[i].items = 1..Len(srcs[i].items)
                         /\ Len(srcs[i].items) \in Nat
  BY <1>3
<1> QED BY <1>1, <1>3, <1>5, <1>6 DEF Sources

\* The kind of a source.
LEMMA KindRange == \A s : MakeJEventSource(s) \in SourceKinds \cup {"null", "throws"}
BY DEF MakeJEventSource, Generator, MakeEvioDAQ, MakeTridas, SourceKinds

\* No step changes the command line.
LEMMA OptionsSame ==
    ASSUME UNCHANGED options
    PROVE  /\ srcs' = srcs /\ isMC' = isMC /\ overwrite' = overwrite
           /\ Sources' = Sources
           /\ \A i : KindOf(i)' = KindOf(i) /\ Holds(i)' = Holds(i)
           /\ \A i : CanBeRead(i)' = CanBeRead(i)
           /\ \A i, n : Readable(i, n)' <=> Readable(i, n)
<1>1. srcs' = srcs /\ isMC' = isMC /\ overwrite' = overwrite BY DEF options
<1>2. \A i : KindOf(i)' = KindOf(i) 
  BY <1>1 DEF KindOf, MakeJEventSource, MakeEvioDAQ, MakeTridas, ConnectToET
<1>3. \A i : Holds(i)' = Holds(i) BY <1>1, <1>2 DEF Holds
<1>4. \A i, n : Readable(i, n)' <=> Readable(i, n) BY <1>1 DEF Readable
<1>5. \A i : CanBeRead(i)' = CanBeRead(i) BY <1>3, <1>4 DEF CanBeRead
<1> QED BY <1>1, <1>2, <1>3, <1>4, <1>5 DEF Sources

\* No step changes the options.
LEMMA OptionsKept ==
    ASSUME [Next]_vars
    PROVE  UNCHANGED options
BY DEF Next, Reader, OpenNext, GetThrows, GetFile, GetMC, GetTridas, EtBegin, EtWait, EtGet, EtCheck,
   EtParse, StopReading, Quit, FreeEvent, vars

\* The events source i holds.
LEMMA HoldsElements ==
    ASSUME MoreTypes, NEW i \in Sources
    PROVE  /\ \A t \in Holds(i) : t = [src |-> i, item |-> t.item, sub |-> t.sub]
           /\ \A k, n : [src |-> i, item |-> k, sub |-> n] \in Holds(i) <=>
                 /\ k \in DOMAIN srcs[i].items
                 /\ IF KindOf(i) = "tridas" THEN n \in 1..srcs[i].items[k].n ELSE n = 0
<1> DEFINE its == srcs[i].items
           T(k, n) == [src |-> i, item |-> k, sub |-> n]
<1>0. /\ \A k, n : T(k, n).src = i /\ T(k, n).item = k /\ T(k, n).sub = n
      /\ \A k, n, m, j : T(k, n) = T(m, j) => k = m /\ n = j
  <2>1. \A k, n : T(k, n).src = i /\ T(k, n).item = k /\ T(k, n).sub = n OBVIOUS
  <2> HIDE DEF T
  <2> QED BY <2>1
<1>1. CASE KindOf(i) = "tridas"
  <2>1. Holds(i) = UNION {{T(k, n) : n \in 1..its[k].n} : k \in DOMAIN its}
    BY <1>1 DEF Holds
  <2> HIDE DEF T, its
  <2>2. \A t : t \in Holds(i) <=> \E k \in DOMAIN its : \E n \in 1..its[k].n : t = T(k, n)
    BY <2>1
  <2>3. \A t \in Holds(i) : t = T(t.item, t.sub) BY <1>0, <2>2
  <2>4. \A k, n : T(k, n) \in Holds(i) <=> k \in DOMAIN its /\ n \in 1..its[k].n
    BY <1>0, <2>2
  <2> QED BY <1>1, <2>3, <2>4 DEF T, its
<1>2. CASE KindOf(i) # "tridas"
  <2>1. Holds(i) = {T(k, 0) : k \in DOMAIN its} BY <1>2 DEF Holds
  <2> HIDE DEF T, its
  <2>2. \A t : t \in Holds(i) <=> \E k \in DOMAIN its : t = T(k, 0) BY <2>1
  <2>3. \A t \in Holds(i) : t = T(t.item, t.sub) BY <1>0, <2>2
  <2>4. \A k, n : T(k, n) \in Holds(i) <=> k \in DOMAIN its /\ n = 0 BY <1>0, <2>2
  <2> QED BY <1>2, <2>3, <2>4 DEF T, its
<1> QED BY <1>1, <1>2

-----------------------------------------------------------------------------
(***************************************************************************)
(* Types and the reader's place.                                           *)
(***************************************************************************)

BaseInv == TypeOK /\ MoreTypes /\ PlaceInv

\* What is known of the current source.
LEMMA CurrentSource ==
    ASSUME BaseInv, cur # 0
    PROVE  /\ cur \in Sources /\ cur = opened /\ KindOf(cur) = Kind
           /\ Kind \in SourceKinds /\ Items = srcs[cur].items
           /\ DOMAIN Items = 1..Len(Items) /\ Len(Items) \in Nat
           /\ \A k \in DOMAIN Items :
                 Items[k].run \in {NoRun} \cup Runs /\ Items[k].n \in Nat
<1>1. cur \in Sources /\ cur = opened
  BY SourceTypes DEF BaseInv, TypeOK, PlaceInv
<1> QED BY <1>1, SourceTypes DEF BaseInv, PlaceInv, Kind, KindOf, Items

\* A step that leaves the current source where it is.
LEMMA PlaceKept ==
    ASSUME UNCHANGED <<options, cur>>
    PROVE  Kind' = Kind /\ Items' = Items /\ Sources' = Sources
BY OptionsSame DEF Kind, Items, KindOf

\* The books after a call is noted.
LEMMA NoteTypes ==
    ASSUME BaseInv, cur # 0, NoteCall
    PROVE  /\ calls' \in [Sources -> Nat] /\ DOMAIN inProgress' = Sources
           /\ calls'[cur] = calls[cur] + 1
           /\ \A i \in Sources : i # cur => calls'[i] = calls[i] /\ inProgress'[i] = inProgress[i]
           /\ inProgress'[cur] = inProgress[cur] \cup {calls[cur] + 1}
           /\ \A i \in Sources : inProgress'[i] \subseteq 1..calls'[i]
<1>1. cur \in Sources BY CurrentSource
<1>2. calls \in [Sources -> Nat] /\ DOMAIN inProgress = Sources
  BY DEF BaseInv, TypeOK, MoreTypes
<1>3. /\ calls' \in [Sources -> Nat] /\ DOMAIN inProgress' = Sources
      /\ calls'[cur] = calls[cur] + 1
      /\ \A i \in Sources : i # cur => calls'[i] = calls[i] /\ inProgress'[i] = inProgress[i]
      /\ inProgress'[cur] = inProgress[cur] \cup {calls[cur] + 1}
  BY <1>1, <1>2 DEF NoteCall
<1>4. \A i \in Sources : inProgress[i] \subseteq 1..calls[i] BY DEF BaseInv, TypeOK
<1>5. inProgress'[cur] \subseteq 1..calls'[cur] BY <1>1, <1>2, <1>3, <1>4
<1> QED BY <1>3, <1>4, <1>5

\* A delivered event is an event.
LEMMA NewEventType ==
    ASSUME BaseInv, cur # 0, calls' \in [Sources -> Nat], NEW i \in Nat, NEW s \in Nat,
           NEW run \in {NoRun} \cup Runs
    PROVE  /\ NewEvent(i, s, run) \in EventSet
           /\ NewEvent(i, s, run).src = cur /\ NewEvent(i, s, run).id = calls'[cur]
           /\ NewEvent(i, s, run).item = i /\ NewEvent(i, s, run).sub = s
           /\ NewEvent(i, s, run).run =
                 IF overwrite = NoRun \/ Kind = "tridas" THEN run ELSE overwrite
           /\ Tree(NewEvent(i, s, run)) = [src |-> cur, item |-> i, sub |-> s]
<1>1. cur \in Nat /\ calls'[cur] \in Nat /\ overwrite \in {NoRun} \cup Runs
  BY CurrentSource, SourceTypes DEF BaseInv, TypeOK
<1>2. (Items[i].what = "epics" /\ ~isMC) \in BOOLEAN OBVIOUS
<1>3. (IF overwrite = NoRun \/ Kind = "tridas" THEN run ELSE overwrite) \in {NoRun} \cup Runs
  BY <1>1
<1> DEFINE r == IF overwrite = NoRun \/ Kind = "tridas" THEN run ELSE overwrite
           q == Items[i].what = "epics" /\ ~isMC
<1>4. NewEvent(i, s, run) = [src |-> cur, id |-> calls'[cur], item |-> i, sub |-> s,
                             run |-> r, sequential |-> q]
  BY DEF NewEvent
<1>5. r \in {NoRun} \cup Runs /\ q \in BOOLEAN BY <1>2, <1>3
<1> HIDE DEF r, q
<1>6. /\ NewEvent(i, s, run) \in EventSet
      /\ NewEvent(i, s, run).src = cur /\ NewEvent(i, s, run).id = calls'[cur]
      /\ NewEvent(i, s, run).item = i /\ NewEvent(i, s, run).sub = s
      /\ NewEvent(i, s, run).run = r
  BY <1>1, <1>4, <1>5 DEF EventSet
<1> QED BY <1>6 DEF Tree, r

\* What was delivered after a delivery.
LEMMA DeliverTypes ==
    ASSUME BaseInv, cur # 0, calls' \in [Sources -> Nat], NEW i \in Nat, NEW s \in Nat,
           NEW run \in {NoRun} \cup Runs, Deliver(i, s, run)
    PROVE  /\ delivered' \in Seq(EventSet) /\ pending' \subseteq EventSet
           /\ Len(delivered) \in Nat /\ DOMAIN delivered = 1..Len(delivered)
           /\ DOMAIN delivered' = 1..(Len(delivered) + 1)
           /\ \A k \in DOMAIN delivered : delivered'[k] = delivered[k]
           /\ delivered'[Len(delivered) + 1] = NewEvent(i, s, run)
<1>1. delivered \in Seq(EventSet) /\ pending \subseteq EventSet BY DEF BaseInv, MoreTypes
<1>2. NewEvent(i, s, run) \in EventSet BY NewEventType
<1> QED BY <1>1, <1>2 DEF Deliver

\* An exception keeps types and place.
LEMMA BaseThrows ==
    ASSUME BaseInv, GetThrows
    PROVE  BaseInv'
<1>0. /\ pc = "read" /\ cur # 0 /\ ~undef /\ NoteCall /\ cur' = 0 /\ pc' = "read"
      /\ UNCHANGED <<options, opened, item, sub, curRun, pe, ref, kept, pending, delivered,
                     quitting, undef>>
  BY DEF GetThrows, NoMore
<1>1. Sources' = Sources /\ srcs' = srcs /\ isMC' = isMC /\ overwrite' = overwrite
  BY <1>0, OptionsSame
<1>2. 0 \in 0..opened' BY <1>0 DEF BaseInv, TypeOK
<1>3. TypeOK' BY <1>0, <1>1, <1>2, NoteTypes DEF BaseInv, TypeOK
<1>4. MoreTypes' BY <1>0, <1>1, NoteTypes DEF BaseInv, MoreTypes
<1>5. PlaceInv' BY <1>0 DEF PlaceInv
<1> QED BY <1>3, <1>4, <1>5 DEF BaseInv

\* GetEvent of an EVIO or simulated file keeps types and place.
LEMMA BaseFile ==
    ASSUME BaseInv, GetFile \/ GetMC
    PROVE  BaseInv'
<1>0. /\ pc = "read" /\ cur # 0 /\ Kind \in {"file", "mc"} /\ NoteCall
      /\ UNCHANGED <<options, opened, sub, pe, kept, quitting, undef>>
  BY DEF GetFile, GetMC
<1>1. /\ Kind # "tridas" /\ Kind # "ET" /\ ~undef /\ item <= Len(Items) + 1
      /\ item \in Nat \ {0} /\ ref = None /\ pe = NoET
  BY <1>0 DEF BaseInv, TypeOK, PlaceInv
<1>2. /\ Sources' = Sources /\ srcs' = srcs /\ isMC' = isMC /\ overwrite' = overwrite
  BY <1>0, OptionsSame
<1>3. CASE item <= Len(Items) /\ item' = item + 1 /\ UNCHANGED <<cur, pc>>
           /\ \E run : Deliver(item, 0, run) /\ run \in {NoRun} \cup Runs
  <2>1. PICK run \in {NoRun} \cup Runs : Deliver(item, 0, run) BY <1>3
  <2>2. delivered' \in Seq(EventSet) /\ pending' \subseteq EventSet
    BY <1>0, <1>1, <2>1, NoteTypes, DeliverTypes
  <2>3. ref' = None /\ curRun' = run BY <2>1 DEF Deliver
  <2>4. Kind' = Kind /\ Items' = Items BY <1>0, <1>3, PlaceKept
  <2>5. TypeOK' BY <1>0, <1>1, <1>2, <1>3, <2>3, NoteTypes DEF BaseInv, TypeOK
  <2>6. MoreTypes' BY <1>0, <1>2, <2>2, NoteTypes DEF BaseInv, MoreTypes
  <2>7. PlaceInv'
    <3>1. Len(Items) \in Nat BY <1>0, CurrentSource
    <3> QED BY <1>0, <1>1, <1>3, <2>4, <3>1 DEF BaseInv, PlaceInv
  <2> QED BY <2>5, <2>6, <2>7 DEF BaseInv
<1>4. CASE NoMore /\ UNCHANGED <<item, curRun, delivered, pending, trees, ref>>
  <2>1. cur' = 0 /\ pc' = "read" BY <1>4 DEF NoMore
  <2>2. 0 \in 0..opened' BY <1>0 DEF BaseInv, TypeOK
  <2>5. TypeOK' BY <1>0, <1>1, <1>2, <1>4, <2>1, <2>2, NoteTypes DEF BaseInv, TypeOK
  <2>6. MoreTypes' BY <1>0, <1>2, <1>4, NoteTypes DEF BaseInv, MoreTypes
  <2>7. PlaceInv' BY <1>0, <1>1, <2>1 DEF PlaceInv
  <2> QED BY <2>5, <2>6, <2>7 DEF BaseInv
<1>5. item <= Len(Items) => /\ RunAfter(Items[item]) \in {NoRun} \cup Runs
                            /\ Items[item].run \in {NoRun} \cup Runs
  <2>1. item <= Len(Items) => Items[item].run \in {NoRun} \cup Runs
    BY <1>0, <1>1, CurrentSource
  <2> QED BY <2>1 DEF RunAfter, BaseInv, TypeOK
<1> QED BY <1>3, <1>4, <1>5 DEF GetFile, GetMC

\* GetEvent of a TRIDAS file does: the iterator stays inside the time slice.
LEMMA BaseTridas ==
    ASSUME BaseInv, GetTridas
    PROVE  BaseInv'
<1> DEFINE i == IF sub = Items[item].n THEN item + 1 ELSE item
           s == IF sub = Items[item].n THEN 1 ELSE sub + 1
<1>0. /\ pc = "read" /\ cur # 0 /\ Kind = "tridas" /\ ~undef /\ NoteCall
      /\ UNCHANGED <<options, opened, pe, kept, quitting>>
  BY DEF GetTridas
<1>1. /\ item \in DOMAIN Items /\ sub <= Items[item].n /\ sub \in Nat
      /\ item \in Nat \ {0} /\ ref = None /\ pe = NoET
      /\ DOMAIN Items = 1..Len(Items) /\ Len(Items) \in Nat /\ Items[item].n \in Nat
  BY <1>0, CurrentSource DEF BaseInv, TypeOK, PlaceInv
<1>2. Sources' = Sources /\ srcs' = srcs /\ isMC' = isMC /\ overwrite' = overwrite
  BY <1>0, OptionsSame
<1>3. i \in Nat \ {0} /\ s \in Nat \ {0} BY <1>1
<1>4. \/ /\ i <= Len(Items) /\ Items[i].n > 0
         /\ Deliver(i, s, Items[i].run)
         /\ item' = i /\ sub' = s /\ UNCHANGED <<cur, pc, undef>>
      \/ /\ i <= Len(Items) /\ Items[i].n = 0 /\ undef' = TRUE
         /\ UNCHANGED <<cur, pc, item, sub, curRun, delivered, pending, trees, ref>>
      \/ /\ i > Len(Items) /\ NoMore
         /\ UNCHANGED <<item, sub, curRun, delivered, pending, trees, ref, undef>>
  BY DEF GetTridas
<1>5. i <= Len(Items) => /\ i \in DOMAIN Items /\ Items[i].run \in {NoRun} \cup Runs
                         /\ Items[i].n \in Nat
  BY <1>0, <1>1, <1>3, CurrentSource
<1>6. i <= Len(Items) /\ Items[i].n > 0 => s <= Items[i].n
  BY <1>1, <1>5
<1> HIDE DEF i, s
<1>7. CASE /\ i <= Len(Items) /\ Items[i].n > 0
           /\ Deliver(i, s, Items[i].run)
           /\ item' = i /\ sub' = s /\ UNCHANGED <<cur, pc, undef>>
  <2>2. delivered' \in Seq(EventSet) /\ pending' \subseteq EventSet
    BY <1>0, <1>3, <1>5, <1>7, NoteTypes, DeliverTypes
  <2>3. ref' = None /\ curRun' = Items[i].run BY <1>7 DEF Deliver
  <2>4. Kind' = Kind /\ Items' = Items BY <1>0, <1>7, PlaceKept
  <2>5. TypeOK' BY <1>0, <1>1, <1>2, <1>3, <1>5, <1>7, <2>3, NoteTypes DEF BaseInv, TypeOK
  <2>6. MoreTypes' BY <1>0, <1>2, <2>2, NoteTypes DEF BaseInv, MoreTypes
  <2>7. PlaceInv' BY <1>0, <1>5, <1>6, <1>7, <2>4 DEF BaseInv, PlaceInv
  <2> QED BY <2>5, <2>6, <2>7 DEF BaseInv
<1>8. CASE /\ undef' = TRUE
           /\ UNCHANGED <<cur, pc, item, sub, curRun, delivered, pending, trees, ref>>
  <2>4. Kind' = Kind /\ Items' = Items BY <1>0, <1>8, PlaceKept
  <2>5. TypeOK' BY <1>0, <1>1, <1>2, <1>8, NoteTypes DEF BaseInv, TypeOK
  <2>6. MoreTypes' BY <1>0, <1>2, <1>8, NoteTypes DEF BaseInv, MoreTypes
  <2>7. PlaceInv' BY <1>0, <1>8, <2>4 DEF BaseInv, PlaceInv
  <2> QED BY <2>5, <2>6, <2>7 DEF BaseInv
<1>9. CASE NoMore /\ UNCHANGED <<item, sub, curRun, delivered, pending, trees, ref, undef>>
  <2>1. cur' = 0 /\ pc' = "read" BY <1>9 DEF NoMore
  <2>2. 0 \in 0..opened' BY <1>0 DEF BaseInv, TypeOK
  <2>5. TypeOK' BY <1>0, <1>1, <1>2, <1>9, <2>1, <2>2, NoteTypes DEF BaseInv, TypeOK
  <2>6. MoreTypes' BY <1>0, <1>2, <1>9, NoteTypes DEF BaseInv, MoreTypes
  <2>7. PlaceInv' BY <1>0, <1>9, <2>1 DEF PlaceInv
  <2> QED BY <2>5, <2>6, <2>7 DEF BaseInv
<1> QED BY <1>4, <1>7, <1>8, <1>9

\* The steps of GetEvent of an ET source do: what the reader holds is the last
\* item taken from the system.
LEMMA BaseEt ==
    ASSUME BaseInv, EtBegin \/ EtWait \/ EtGet \/ EtCheck \/ EtParse
    PROVE  BaseInv'
<1>0. /\ UNCHANGED <<options, opened, sub, quitting, undef>>
      /\ cur # 0 /\ Kind = "ET" /\ pc \in {"read", "et", "wait", "check", "parse"}
      /\ 0 \in 0..opened' /\ ~undef
  BY DEF EtBegin, EtWait, EtGet, EtCheck, EtParse, BaseInv, PlaceInv, TypeOK, place
<1>1. /\ item \in Nat \ {0} /\ item <= Len(Items) + 1 /\ sub = 0
      /\ DOMAIN Items = 1..Len(Items) /\ Len(Items) \in Nat
      /\ cur \in Sources
  BY <1>0, CurrentSource DEF BaseInv, PlaceInv, TypeOK
<1>2. /\ Sources' = Sources /\ srcs' = srcs /\ isMC' = isMC /\ overwrite' = overwrite
  BY <1>0, OptionsSame
<1>3. cur' = cur => Kind' = Kind /\ Items' = Items BY <1>0, PlaceKept
<1>4. CASE EtBegin
  <2>1. /\ pc = "read" /\ NoteCall /\ pc' = "et"
        /\ UNCHANGED <<options, place, memory, delivered, quitting, undef>>
    BY <1>4 DEF EtBegin
  <2>2. TypeOK' BY <1>0, <1>2, <2>1, NoteTypes DEF BaseInv, TypeOK, place, memory
  <2>3. MoreTypes' BY <1>0, <1>2, <2>1, NoteTypes DEF BaseInv, MoreTypes, memory
  <2>4. PlaceInv' BY <1>0, <1>3, <2>1 DEF BaseInv, PlaceInv, place, memory
  <2> QED BY <2>2, <2>3, <2>4 DEF BaseInv
<1>5. CASE EtWait
  <2>1. /\ pc = "et" /\ UNCHANGED <<item, curRun, books, memory, delivered>>
        /\ (pc' = "wait" /\ cur' = cur) \/ (cur' = 0 /\ pc' = "read")
    BY <1>5 DEF EtWait, NoMore
  <2>2. TypeOK' BY <1>0, <1>2, <2>1 DEF BaseInv, TypeOK, books, memory
  <2>3. MoreTypes' BY <1>0, <1>2, <2>1 DEF BaseInv, MoreTypes, books, memory
  <2>4. PlaceInv' BY <1>0, <1>3, <2>1 DEF BaseInv, PlaceInv, memory
  <2> QED BY <2>2, <2>3, <2>4 DEF BaseInv
<1>6. CASE EtGet
  <2>1. /\ pc = "wait"
        /\ UNCHANGED <<curRun, books, ref, trees, kept, pending, delivered>>
        /\ \/ /\ item <= Len(Items) /\ pe' = item /\ item' = item + 1
              /\ pc' = "check" /\ cur' = cur
           \/ pc' = "et" /\ UNCHANGED <<cur, pe, item>>
           \/ cur' = 0 /\ pc' = "read" /\ UNCHANGED <<pe, item>>
    BY <1>6 DEF EtGet, NoMore
  <2>2. TypeOK' BY <1>0, <1>1, <1>2, <2>1 DEF BaseInv, TypeOK, books, NoET
  <2>3. MoreTypes' BY <1>0, <1>2, <2>1 DEF BaseInv, MoreTypes, books
  <2>4. PlaceInv' BY <1>0, <1>1, <1>3, <2>1 DEF BaseInv, PlaceInv
  <2> QED BY <2>2, <2>3, <2>4 DEF BaseInv
<1>7. CASE EtCheck
  <2>1. /\ pc = "check" /\ pe' = NoET
        /\ UNCHANGED <<item, curRun, books, pending, delivered>>
        /\ \/ /\ cur' = 0 /\ pc' = "read" /\ ref' = ref
              /\ kept' \in {kept, [kept EXCEPT ![cur] = @ \cup {pe}]}
           \/ /\ ref' = [src |-> cur, item |-> pe, sub |-> 0]
              /\ pc' = "parse" /\ Items[pe].what # "corrupt" /\ UNCHANGED <<cur, kept>>
    BY <1>7 DEF EtCheck, NoMore
  <2>2. pe \in DOMAIN Items /\ item = pe + 1 /\ item - 1 = pe
    BY <1>1, <2>1 DEF BaseInv, PlaceInv
  <2>3. pc' = "parse" => ref' # None BY <2>1, RefNotNone
  <2>4. pc' # "parse" => ref' = None BY <2>1 DEF BaseInv, TypeOK
  <2>5. TypeOK' BY <1>0, <1>1, <1>2, <2>1, <2>3, <2>4 DEF BaseInv, TypeOK, books, NoET
  <2>6. MoreTypes' BY <1>0, <1>2, <2>1 DEF BaseInv, MoreTypes, books
  <2>7. PlaceInv' BY <1>0, <1>1, <1>3, <2>1, <2>2 DEF BaseInv, PlaceInv
  <2> QED BY <2>5, <2>6, <2>7 DEF BaseInv
<1>8. CASE EtParse
  <2>0. pc = "parse" /\ UNCHANGED <<books, item, pe, kept>> BY <1>8 DEF EtParse
  <2>1. /\ ref = [src |-> cur, item |-> item - 1, sub |-> 0] /\ item - 1 \in DOMAIN Items
        /\ ref.item = item - 1
    BY <2>0 DEF BaseInv, PlaceInv
  <2>2. CASE cur' = 0 /\ pc' = "read" /\ ref' = None /\ UNCHANGED <<curRun, delivered, pending, trees>>
    <3>1. TypeOK' BY <1>0, <1>2, <2>0, <2>2 DEF BaseInv, TypeOK, books
    <3>2. MoreTypes' BY <1>0, <1>2, <2>0, <2>2 DEF BaseInv, MoreTypes, books
    <3>3. PlaceInv' BY <1>0, <2>2 DEF BaseInv, PlaceInv
    <3> QED BY <3>1, <3>2, <3>3 DEF BaseInv
  <2>3. CASE pc' = "read" /\ cur' = cur /\ Deliver(ref.item, 0, RunAfter(Items[ref.item]))
    <3>1. RunAfter(Items[ref.item]) \in {NoRun} \cup Runs
      <4>1. Items[ref.item].run \in {NoRun} \cup Runs BY <1>0, <2>1, CurrentSource
      <4> QED BY <4>1 DEF RunAfter, BaseInv, TypeOK
    <3>2. calls' \in [Sources -> Nat] /\ ref.item \in Nat
      BY <1>1, <2>0, <2>1 DEF books, BaseInv, TypeOK
    <3>3. delivered' \in Seq(EventSet) /\ pending' \subseteq EventSet
      BY <1>0, <2>3, <3>1, <3>2, DeliverTypes
    <3>4. ref' = None /\ curRun' = RunAfter(Items[ref.item]) BY <2>3 DEF Deliver
    <3>5. TypeOK' BY <1>0, <1>2, <2>0, <2>3, <3>1, <3>4 DEF BaseInv, TypeOK, books
    <3>6. MoreTypes' BY <1>0, <1>2, <2>0, <3>3 DEF BaseInv, MoreTypes, books
    <3>7. PlaceInv' BY <1>0, <1>3, <2>0, <2>3 DEF BaseInv, PlaceInv
    <3> QED BY <3>5, <3>6, <3>7 DEF BaseInv
  <2> QED BY <1>8, <2>2, <2>3 DEF EtParse, NoMore
<1> QED BY <1>4, <1>5, <1>6, <1>7, <1>8

\* OpenNext does: a source is current only when it was made.
LEMMA BaseOpen == ASSUME BaseInv, OpenNext PROVE BaseInv'
<1>0. /\ pc = "read" /\ cur = 0 /\ UNCHANGED <<options, books, memory, delivered>>
  BY DEF OpenNext
<1>1. /\ Sources' = Sources /\ srcs' = srcs /\ isMC' = isMC /\ overwrite' = overwrite
      /\ \A i : KindOf(i)' = KindOf(i)
  BY <1>0, OptionsSame
<1>2. MoreTypes' BY <1>0, <1>1 DEF BaseInv, MoreTypes, books, memory
<1>3. CASE opened = Len(srcs) /\ pc' = "end" /\ UNCHANGED <<place, quitting, undef>>
  <2>1. TypeOK' BY <1>0, <1>1, <1>3 DEF BaseInv, TypeOK, books, memory, place
  <2>2. PlaceInv' BY <1>0, <1>3 DEF BaseInv, PlaceInv, place
  <2> QED BY <1>2, <2>1, <2>2 DEF BaseInv
<1>4. CASE opened < Len(srcs) /\ ~(opened = Len(srcs))
  <2> DEFINE n == opened + 1
             kind == KindOf(n)
  <2>1. /\ opened' = n /\ cur' = (IF kind \in {"null", "throws"} THEN 0 ELSE n)
        /\ pc' \in {"crashed", "end", "read"}
        /\ kind \notin {"null", "throws"} => undef' = (undef \/ (kind = "tridas" /\ srcs[n].items = <<>>))
        /\ kind \in {"null", "throws"} => undef' = undef
        /\ undef' \in BOOLEAN /\ quitting' \in BOOLEAN
        /\ item' = 1 /\ sub' = 0 /\ curRun' = NoRun
    BY <1>4 DEF OpenNext, KindOf, BaseInv, TypeOK
  <2>2. n \in Sources /\ n \in 1..Len(srcs) /\ opened \in Nat /\ ~undef
    BY <1>0, <1>4, SourceTypes DEF BaseInv, TypeOK, PlaceInv
  <2>3. kind \in SourceKinds \cup {"null", "throws"} BY KindRange DEF KindOf
  <2>4. Kind' = KindOf(cur') /\ Items' = srcs[cur'].items
    BY <1>1 DEF Kind, Items, KindOf
  <2>5. TypeOK'
    BY <1>0, <1>1, <2>1, <2>2 DEF BaseInv, TypeOK, books, memory
  <2>6. srcs[n].items # <<>> => 1 \in DOMAIN srcs[n].items /\ 0 <= srcs[n].items[1].n
    <3>1. /\ srcs[n].items \in Seq(ItemSet)
          /\ \A k \in DOMAIN srcs[n].items : srcs[n].items[k].n \in Nat
      BY <2>2, SourceTypes DEF BaseInv
    <3> QED BY <3>1
  <2>7. Len(srcs[n].items) \in Nat BY <2>2, SourceTypes DEF BaseInv
  <2> HIDE DEF n
  <2>8. PlaceInv'
    <3>1. CASE kind \in {"null", "throws"} BY <2>1, <2>2, <3>1 DEF PlaceInv
    <3>2. CASE kind \in SourceKinds
      BY <2>1, <2>2, <2>4, <2>6, <2>7, <3>2 DEF PlaceInv, SourceKinds
    <3> QED BY <2>3, <3>1, <3>2
  <2> QED BY <1>2, <2>5, <2>8 DEF BaseInv
<1> QED BY <1>3, <1>4 DEF OpenNext, BaseInv, TypeOK

\* Quitting and freeing leave the reader's place alone.
LEMMA BaseOthers ==
    ASSUME BaseInv, StopReading \/ Quit \/ UNCHANGED vars \/ \E e \in pending : FreeEvent(e)
    PROVE  BaseInv'
<1>0. /\ UNCHANGED <<options, place, calls, pe, ref, kept, delivered, undef>>
      /\ pending' \subseteq pending
      /\ quitting' \in BOOLEAN
      /\ pc' = pc \/ (pc = "read" /\ pc' = "end")
  BY DEF StopReading, Quit, FreeEvent, vars, books, memory, BaseInv, TypeOK
<1>1. /\ Sources' = Sources /\ srcs' = srcs /\ isMC' = isMC /\ overwrite' = overwrite
  BY <1>0, OptionsSame
<1>2. Kind' = Kind /\ Items' = Items BY <1>0, PlaceKept DEF place
<1>3. /\ DOMAIN inProgress' = DOMAIN inProgress
      /\ \A i \in Sources : inProgress'[i] \subseteq inProgress[i]
  BY DEF StopReading, Quit, FreeEvent, vars, books, BaseInv, MoreTypes
<1>4. TypeOK' BY <1>0, <1>1, <1>3 DEF BaseInv, TypeOK, place
<1>5. MoreTypes' BY <1>0, <1>1, <1>3 DEF BaseInv, MoreTypes
<1>6. PlaceInv' BY <1>0, <1>2 DEF BaseInv, PlaceInv, place
<1> QED BY <1>4, <1>5, <1>6 DEF BaseInv

\* Every step keeps types and place.
LEMMA BaseStep == ASSUME BaseInv, [Next]_vars PROVE BaseInv'
BY BaseThrows, BaseFile, BaseTridas, BaseEt, BaseOpen, BaseOthers DEF Next, Reader

-----------------------------------------------------------------------------
(***************************************************************************)
(* The steps, by what they do to the reader's place: deliver the next      *)
(* event, leave the source, open one, or nothing.                          *)
(***************************************************************************)

\* Event n of item j of the current source is passed after the step.
PassedNext(j, n) == j < Front' \/ (Kind' = "tridas" /\ j = item' /\ n <= sub')

\* Event s of item i is the next after those passed.
Advance(i, s) ==
    /\ [src |-> cur, item |-> i, sub |-> s] \in Holds(cur)
    /\ \A t \in Holds(cur) :
          /\ Passed(t.item, t.sub) => t.item < i \/ (t.item = i /\ t.sub < s)
          /\ PassedNext(t.item, t.sub) <=> Passed(t.item, t.sub) \/ (t.item = i /\ t.sub = s)

\* The run the event is given.
RunGiven(i, run) ==
    /\ Kind = "tridas" => run = Items[i].run
    /\ Kind \in {"file", "ET"} => i = Front /\ Front' = i + 1 /\ run = RunAfter(Items[i])

\* The last item looked at, which is the next one or the same as before.
Seen == IF Kind = "tridas" THEN item ELSE Front - 1
Looks(i) == Items[i].what # "corrupt" /\ Seen' = i /\ i <= Seen + 1 /\ Seen \in Nat

Delivery(i, s, run) ==
    /\ cur # 0 /\ ~undef /\ i \in DOMAIN Items /\ i \in Nat /\ s \in Nat
    /\ run \in {NoRun} \cup Runs
    /\ calls' \in [Sources -> Nat]
    /\ Deliver(i, s, run) /\ UNCHANGED <<options, cur, opened, quitting, undef>>
    /\ pc' = "read" /\ Advance(i, s) /\ RunGiven(i, run) /\ Looks(i)

Leave ==
    /\ cur # 0 /\ cur' = 0 /\ pc' = "read"
    /\ UNCHANGED <<options, opened, delivered, quitting, undef>>
    /\ Kind # "ET" => \A t \in CanBeRead(cur) : Passed(t.item, t.sub)

Quiet ==
    /\ UNCHANGED <<options, opened, cur, delivered>>
    /\ (undef => undef') /\ (quitting => quitting')
    /\ cur # 0 => /\ Front' = Front /\ curRun' = curRun
                  /\ Kind = "tridas" => item' = item /\ sub' = sub
    /\ pc' = "end" => pc = "end" \/ quitting \/ opened = Len(srcs)

Opens ==
    /\ UNCHANGED <<options, delivered>> /\ cur = 0 /\ ~undef
    /\ opened' = opened + 1 /\ opened' \in Sources /\ opened \in Nat
    /\ cur' = IF KindOf(opened') \in {"null", "throws"} THEN 0 ELSE opened'
    /\ pc' \notin {"check", "parse"} /\ item' = 1 /\ sub' = 0 /\ curRun' = NoRun
    /\ pc' = "end" => opened' = Len(srcs)
    /\ quitting => quitting'

\* An exception is met after all that can be read was passed.
LEMMA ThrowsKinds == ASSUME BaseInv, GetThrows PROVE Leave
<1>0. /\ pc = "read" /\ cur # 0 /\ Kind # "ET" /\ ~undef /\ cur' = 0 /\ pc' = "read" /\ Throws
      /\ UNCHANGED <<options, opened, delivered, quitting, undef>>
  BY DEF GetThrows, NoMore
<1>1. /\ item \in Nat \ {0} /\ Front = item /\ Kind = KindOf(cur) /\ sub \in Nat
      /\ cur \in Sources /\ Items = srcs[cur].items
      /\ DOMAIN Items = 1..Len(Items) /\ Len(Items) \in Nat
      /\ \A k \in DOMAIN Items : Items[k].n \in Nat
  BY <1>0, CurrentSource DEF BaseInv, TypeOK, Front
<1>2. /\ NextItem \in 1..Len(Items) /\ Items[NextItem].what = "corrupt"
      /\ NextItem = IF Kind = "tridas" /\ sub = Items[item].n THEN item + 1 ELSE item
  BY <1>0, <1>1 DEF Throws, NextItem
<1>3. ASSUME NEW t \in CanBeRead(cur) PROVE Passed(t.item, t.sub)
  <2>1. t \in Holds(cur) /\ Readable(cur, t.item) BY DEF CanBeRead
  <2>2. /\ t.item \in 1..Len(Items)
        /\ Kind = "tridas" => t.sub \in 1..Items[t.item].n
    BY <1>1, <2>1, HoldsElements DEF BaseInv
  <2>3. t.item < NextItem BY <1>1, <1>2, <2>1, <2>2 DEF Readable
  <2>4. CASE Kind = "tridas" /\ sub = Items[item].n
    <3>1. t.item < item \/ (t.item = item /\ t.sub <= sub) BY <1>1, <1>2, <2>2, <2>3, <2>4
    <3> QED BY <1>1, <2>4, <3>1 DEF Passed
  <2>5. CASE ~(Kind = "tridas" /\ sub = Items[item].n)
    BY <1>1, <1>2, <2>3, <2>5 DEF Passed
  <2> QED BY <2>4, <2>5
<1> QED BY <1>0, <1>3 DEF Leave

\* A file is left after its last event, or the next event is delivered.
LEMMA FileKinds ==
    ASSUME BaseInv, GetFile \/ GetMC
    PROVE  Leave \/ \E i, s, run : Delivery(i, s, run)
<1>0. /\ pc = "read" /\ cur # 0 /\ Kind \in {"file", "mc"} /\ NoteCall
      /\ UNCHANGED <<options, opened, sub, pe, kept, quitting, undef>>
  BY DEF GetFile, GetMC
<1>1. /\ ~undef /\ item <= Len(Items) + 1 /\ item \in Nat \ {0} /\ Front = item
      /\ cur \in Sources /\ KindOf(cur) # "tridas" /\ Items = srcs[cur].items
      /\ DOMAIN Items = 1..Len(Items) /\ Len(Items) \in Nat
  BY <1>0, CurrentSource DEF BaseInv, TypeOK, PlaceInv, Front
<1>2. \A t \in Holds(cur) : t.item \in 1..Len(Items) /\ t.sub = 0
  BY <1>0, <1>1, HoldsElements DEF BaseInv
<1>3. \A j, n : Passed(j, n) <=> j < item BY <1>0, <1>1 DEF Passed
<1>4. CASE item > Len(Items) /\ NoMore
           /\ UNCHANGED <<item, curRun, delivered, pending, trees, ref>>
  <2>1. \A t \in CanBeRead(cur) : Passed(t.item, t.sub)
    BY <1>1, <1>2, <1>3, <1>4 DEF CanBeRead
  <2> QED BY <1>0, <1>4, <2>1 DEF Leave, NoMore
<1>5. ASSUME NEW run \in {NoRun} \cup Runs, item <= Len(Items), Deliver(item, 0, run),
             item' = item + 1, UNCHANGED <<cur, pc>>,
             Kind = "file" => run = RunAfter(Items[item])
      PROVE  Delivery(item, 0, run)
  <2>1. item \in DOMAIN Items /\ calls' \in [Sources -> Nat]
    BY <1>0, <1>1, <1>5, NoteTypes
  <2>2. Kind' = Kind /\ Items' = Items BY <1>0, <1>5, PlaceKept
  <2>3. Front' = item + 1 BY <1>0, <1>5 DEF Front
  <2>4. \A j, n : PassedNext(j, n) <=> j < item + 1
    BY <1>0, <2>2, <2>3 DEF PassedNext
  <2>5. Advance(item, 0)
    <3>1. [src |-> cur, item |-> item, sub |-> 0] \in Holds(cur)
      BY <1>1, <2>1, HoldsElements DEF BaseInv
    <3> QED BY <1>1, <1>2, <1>3, <2>4, <3>1 DEF Advance
  <2>6. RunGiven(item, run) BY <1>0, <1>1, <1>5, <2>3 DEF RunGiven
  <2>7. Looks(item)
    <3>1. Items[item].what # "corrupt"
      <4>1. ~Throws BY DEF GetFile, GetMC
      <4>2. NextItem = item BY <1>0 DEF NextItem
      <4> QED BY <1>5, <4>1, <4>2 DEF Throws
    <3>2. Seen = item - 1 BY <1>0, <1>1 DEF Seen
    <3>3. Seen' = item BY <1>0, <1>1, <2>2, <2>3 DEF Seen
    <3> QED BY <1>1, <3>1, <3>2, <3>3 DEF Looks
  <2> QED BY <1>0, <1>1, <1>5, <2>1, <2>5, <2>6, <2>7 DEF Delivery
<1>6. item <= Len(Items) => /\ RunAfter(Items[item]) \in {NoRun} \cup Runs
                            /\ Items[item].run \in {NoRun} \cup Runs
  <2>1. item <= Len(Items) => Items[item].run \in {NoRun} \cup Runs
    BY <1>0, <1>1, CurrentSource
  <2> QED BY <2>1 DEF RunAfter, BaseInv, TypeOK
<1>7. CASE GetFile
  BY <1>4, <1>5, <1>6, <1>7 DEF GetFile
<1>8. CASE GetMC
  BY <1>4, <1>5, <1>6, <1>8 DEF GetMC
<1> QED BY <1>7, <1>8

\* So is a TRIDAS file; an empty time slice stops it.
LEMMA TridasKinds ==
    ASSUME BaseInv, GetTridas
    PROVE  Leave \/ Quiet \/ \E i, s, run : Delivery(i, s, run)
<1> DEFINE i == IF sub = Items[item].n THEN item + 1 ELSE item
           s == IF sub = Items[item].n THEN 1 ELSE sub + 1
<1>0. /\ pc = "read" /\ cur # 0 /\ Kind = "tridas" /\ ~undef /\ NoteCall
      /\ UNCHANGED <<options, opened, pe, kept, quitting>>
  BY DEF GetTridas
<1>1. /\ item \in DOMAIN Items /\ sub <= Items[item].n /\ sub \in Nat
      /\ item \in Nat \ {0} /\ Front = item /\ KindOf(cur) = "tridas"
      /\ cur \in Sources /\ Items = srcs[cur].items
      /\ DOMAIN Items = 1..Len(Items) /\ Len(Items) \in Nat
      /\ \A k \in DOMAIN Items : Items[k].n \in Nat
  BY <1>0, CurrentSource DEF BaseInv, TypeOK, PlaceInv, Front
<1>2. \/ /\ i <= Len(Items) /\ Items[i].n > 0
         /\ Deliver(i, s, Items[i].run)
         /\ item' = i /\ sub' = s /\ UNCHANGED <<cur, pc, undef>>
      \/ /\ i <= Len(Items) /\ Items[i].n = 0 /\ undef' = TRUE
         /\ UNCHANGED <<cur, pc, item, sub, curRun, delivered, pending, trees, ref>>
      \/ /\ i > Len(Items) /\ NoMore
         /\ UNCHANGED <<item, sub, curRun, delivered, pending, trees, ref, undef>>
  BY DEF GetTridas
<1>3. \A t \in Holds(cur) : /\ t.item \in 1..Len(Items) /\ t.sub \in 1..Items[t.item].n
                            /\ Items[t.item].n \in Nat
  BY <1>0, <1>1, HoldsElements DEF BaseInv
<1>4. \A j, n : Passed(j, n) <=> j < item \/ (j = item /\ n <= sub)
  BY <1>0, <1>1 DEF Passed
<1>5. CASE /\ i <= Len(Items) /\ Items[i].n > 0
           /\ Deliver(i, s, Items[i].run)
           /\ item' = i /\ sub' = s /\ UNCHANGED <<cur, pc, undef>>
  <2>1. /\ i \in DOMAIN Items /\ calls' \in [Sources -> Nat] /\ s \in 1..Items[i].n
        /\ Items[i].run \in {NoRun} \cup Runs
    <3>1. i \in DOMAIN Items
      <4>1. i \in Nat \ {0} BY ONLY <1>1
      <4>2. i <= Len(Items) BY ONLY <1>5
      <4> HIDE DEF i
      <4> QED BY ONLY <1>1, <4>1, <4>2
    <3>2. calls' \in [Sources -> Nat] BY <1>0, NoteTypes
    <3>3. Items[i].run \in {NoRun} \cup Runs BY <1>0, <3>1, CurrentSource
    <3>4. Items[i].n \in Nat BY <1>1, <3>1
    <3>5. s \in 1..Items[i].n
      <4>1. CASE sub = Items[item].n
        <5>1. s = 1 BY <4>1
        <5> QED BY <1>5, <3>4, <5>1
      <4>2. CASE sub # Items[item].n
        <5>1. s = sub + 1 /\ i = item BY <4>2
        <5>2. Items[item].n \in Nat BY <1>1
        <5> QED BY <1>1, <4>2, <5>1, <5>2
      <4> QED BY <4>1, <4>2
    <3> QED BY <3>1, <3>2, <3>3, <3>5
  <2>2. Kind' = Kind BY <1>0, <1>5, PlaceKept
  <2>3. \A j, n : PassedNext(j, n) <=> j < i \/ (j = i /\ n <= s)
    BY <1>0, <1>5, <2>2 DEF PassedNext, Front
  <2>4. [src |-> cur, item |-> i, sub |-> s] \in Holds(cur)
    BY <1>1, <2>1, HoldsElements DEF BaseInv
  <2>5. Advance(i, s)
    <3>1. ASSUME NEW t \in Holds(cur), Passed(t.item, t.sub)
          PROVE  t.item < i \/ (t.item = i /\ t.sub < s)
      BY <1>1, <1>3, <1>4, <3>1
    <3>2. ASSUME NEW t \in Holds(cur)
          PROVE  PassedNext(t.item, t.sub) <=> Passed(t.item, t.sub) \/ (t.item = i /\ t.sub = s)
      <4>1. PassedNext(t.item, t.sub) <=> t.item < i \/ (t.item = i /\ t.sub <= s) BY <2>3
      <4>2. Passed(t.item, t.sub) <=> t.item < item \/ (t.item = item /\ t.sub <= sub)
        BY <1>4
      <4>3. t.item \in 1..Len(Items) /\ t.sub \in 1..Items[t.item].n /\ Items[t.item].n \in Nat
        BY <1>3
      <4> QED BY <1>1, <4>1, <4>2, <4>3
    <3> QED BY <2>4, <3>1, <3>2 DEF Advance
  <2>6. RunGiven(i, Items[i].run) BY <1>0 DEF RunGiven
  <2>7. i \in Nat /\ s \in Nat /\ i <= item + 1 BY <1>1
  <2>8. Items[i].what # "corrupt"
    <3>1. ~Throws /\ NextItem = i BY <1>0 DEF GetTridas, NextItem
    <3> QED BY <1>5, <3>1 DEF Throws
  <2> HIDE DEF i, s
  <2>9. Looks(i) BY <1>0, <1>1, <1>5, <2>2, <2>7, <2>8 DEF Looks, Seen
  <2>10. Delivery(i, s, Items[i].run)
    BY <1>0, <1>5, <2>1, <2>5, <2>6, <2>7, <2>9 DEF Delivery
  <2> QED BY <2>10
<1>6. CASE /\ undef' = TRUE
           /\ UNCHANGED <<cur, pc, item, sub, curRun, delivered, pending, trees, ref>>
  BY <1>0, <1>6 DEF Quiet, Front
<1>7. CASE /\ i > Len(Items) /\ NoMore
           /\ UNCHANGED <<item, sub, curRun, delivered, pending, trees, ref, undef>>
  <2>1. item = Len(Items) /\ sub = Items[item].n BY <1>1, <1>7
  <2>2. \A t \in Holds(cur) : Passed(t.item, t.sub)
    <3> TAKE t \in Holds(cur)
    <3>1. t.item \in 1..Len(Items) /\ t.sub \in 1..Items[t.item].n BY <1>3
    <3> QED BY <1>1, <1>4, <2>1, <3>1
  <2> QED BY <1>0, <1>7, <2>2 DEF Leave, NoMore, CanBeRead
<1> QED BY <1>2, <1>5, <1>6, <1>7

\* An ET source delivers the item taken, or passes over nothing else.
LEMMA EtKinds ==
    ASSUME BaseInv, EtBegin \/ EtWait \/ EtGet \/ EtCheck \/ EtParse
    PROVE  Leave \/ Quiet \/ \E i, s, run : Delivery(i, s, run)
<1>0. /\ UNCHANGED <<options, opened, sub, quitting, undef>>
      /\ cur # 0 /\ Kind = "ET" /\ ~undef
  BY DEF EtBegin, EtWait, EtGet, EtCheck, EtParse, BaseInv, PlaceInv, TypeOK, place
<1>1. /\ item \in Nat \ {0} /\ cur \in Sources /\ Items = srcs[cur].items
      /\ DOMAIN Items = 1..Len(Items) /\ Len(Items) \in Nat /\ KindOf(cur) = "ET"
  BY <1>0, CurrentSource DEF BaseInv, TypeOK
<1>2. CASE EtBegin \/ EtWait \/ EtGet \/ EtCheck
  <2>1. delivered' = delivered /\ curRun' = curRun
    BY <1>2 DEF EtBegin, EtWait, EtGet, EtCheck, place
  <2>2. CASE cur' = 0 /\ pc' = "read" BY <1>0, <2>1, <2>2 DEF Leave
  <2>3. CASE cur' = cur /\ pc' # "end" /\ Front' = Front
    BY <1>0, <2>1, <2>3 DEF Quiet
  <2>4. \/ cur' = 0 /\ pc' = "read"
        \/ cur' = cur /\ pc' # "end" /\ Front' = Front
    BY <1>1, <1>2 DEF EtBegin, EtWait, EtGet, EtCheck, NoMore, Front, place
  <2> QED BY <2>2, <2>3, <2>4
<1>3. CASE EtParse
  <2>0. pc = "parse" /\ UNCHANGED <<books, item>> BY <1>3 DEF EtParse
  <2>1. /\ ref = [src |-> cur, item |-> item - 1, sub |-> 0] /\ item - 1 \in DOMAIN Items
        /\ ref.item = item - 1 /\ Front = item - 1
        /\ Items[item - 1].what # "corrupt"
    BY <2>0 DEF BaseInv, PlaceInv, Front
  <2>2. CASE cur' = 0 /\ pc' = "read" /\ ref' = None /\ UNCHANGED <<curRun, delivered, pending, trees>>
    BY <1>0, <2>2 DEF Leave
  <2>3. CASE pc' = "read" /\ cur' = cur /\ Deliver(ref.item, 0, RunAfter(Items[ref.item]))
    <3> DEFINE i == ref.item
    <3>1. RunAfter(Items[i]) \in {NoRun} \cup Runs
      <4>1. Items[ref.item].run \in {NoRun} \cup Runs BY <1>0, <2>1, CurrentSource
      <4> QED BY <4>1 DEF RunAfter, BaseInv, TypeOK
    <3>2. /\ calls' \in [Sources -> Nat] /\ i \in Nat /\ i \in DOMAIN Items
          /\ i = Front /\ Front' = i + 1
      BY <1>1, <2>0, <2>1, <2>3 DEF books, BaseInv, TypeOK, Front
    <3>3. Kind' = Kind BY <1>0, <2>3, PlaceKept
    <3>4. \A j, n : (Passed(j, n) <=> j < i) /\ (PassedNext(j, n) <=> j < i + 1)
      BY <1>0, <3>2, <3>3 DEF Passed, PassedNext
    <3>5. \A t \in Holds(cur) : t.item \in 1..Len(Items) /\ t.sub = 0
      BY <1>0, <1>1, HoldsElements DEF BaseInv
    <3>6. [src |-> cur, item |-> i, sub |-> 0] \in Holds(cur)
      BY <1>0, <1>1, <3>2, HoldsElements DEF BaseInv
    <3> HIDE DEF i
    <3>7. Advance(i, 0) BY <3>2, <3>4, <3>5, <3>6 DEF Advance
    <3>8. RunGiven(i, RunAfter(Items[i])) BY <1>0, <3>2 DEF RunGiven
    <3>9. Looks(i) BY <1>0, <1>1, <2>1, <3>2, <3>3 DEF Looks, Seen, i
    <3>10. Delivery(i, 0, RunAfter(Items[i]))
      BY <1>0, <2>3, <3>1, <3>2, <3>7, <3>8, <3>9 DEF Delivery, i
    <3> QED BY <3>10
  <2> QED BY <1>3, <2>2, <2>3 DEF EtParse, NoMore
<1> QED BY <1>2, <1>3

\* OpenNext opens a source, or ends the reading after the last.
LEMMA OpenKinds == ASSUME BaseInv, OpenNext PROVE Opens \/ Quiet
<1>0. /\ pc = "read" /\ cur = 0 /\ UNCHANGED <<options, books, memory, delivered>>
      /\ ~undef
  BY DEF OpenNext, BaseInv, PlaceInv
<1>1. CASE opened = Len(srcs) /\ pc' = "end" /\ UNCHANGED <<place, quitting, undef>>
  BY <1>0, <1>1 DEF Quiet, place
<1>2. CASE opened < Len(srcs) /\ ~(opened = Len(srcs))
  <2>1. opened \in Nat /\ opened + 1 \in Sources
    BY <1>2, SourceTypes DEF BaseInv, TypeOK
  <2>2. \A i : KindOf(i)' = KindOf(i) BY <1>0, OptionsSame
  <2>3. /\ opened' = opened + 1
        /\ cur' = IF KindOf(opened + 1) \in {"null", "throws"} THEN 0 ELSE opened + 1
        /\ pc' \in {"crashed", "end", "read"}
        /\ pc' = "end" => opened + 1 = Len(srcs)
        /\ item' = 1 /\ sub' = 0 /\ curRun' = NoRun
        /\ quitting => quitting'
    BY <1>2 DEF OpenNext, KindOf
  <2> QED BY <1>0, <2>1, <2>2, <2>3 DEF Opens
<1> QED BY <1>1, <1>2 DEF OpenNext, BaseInv, TypeOK

\* Every step is of one of these kinds.
LEMMA StepKinds ==
    ASSUME BaseInv, [Next]_vars
    PROVE  Opens \/ Leave \/ Quiet \/ \E i, s, run : Delivery(i, s, run)
<1>1. CASE StopReading \/ Quit \/ UNCHANGED vars \/ \E e \in pending : FreeEvent(e)
  BY <1>1 DEF StopReading, Quit, FreeEvent, vars, place, Quiet, Front
<1> QED BY <1>1, ThrowsKinds, FileKinds, TridasKinds, EtKinds, OpenKinds DEF Next, Reader

-----------------------------------------------------------------------------
(***************************************************************************)
(* Order and completeness.                                                 *)
(***************************************************************************)

\* What was looked at, and what was delivered, could be read.
SeenInv ==
    /\ cur # 0 /\ ~undef => Readable(cur, Seen)
    /\ \A k \in DOMAIN delivered : Readable(delivered[k].src, delivered[k].item)

\* Every step keeps that.
LEMMA SeenStep == ASSUME BaseInv, SeenInv, [Next]_vars PROVE SeenInv'
<1>0. UNCHANGED options /\ \A i, n : Readable(i, n)' <=> Readable(i, n)
  BY OptionsKept, OptionsSame
<1>00. srcs' = srcs /\ \A i : KindOf(i)' = KindOf(i) BY <1>0, OptionsSame
<1>1. ASSUME UNCHANGED delivered, cur' # 0 /\ ~undef' => Readable(cur', Seen')
      PROVE  SeenInv'
  BY <1>00, <1>1 DEF SeenInv, Readable
<1>2. CASE Leave BY <1>1, <1>2 DEF Leave
<1>3. CASE Quiet
  <2>1. Kind' = Kind BY <1>3, PlaceKept DEF Quiet
  <2>2. cur # 0 => Seen' = Seen BY <1>3, <2>1 DEF Quiet, Seen
  <2> QED BY <1>1, <1>3, <2>2 DEF Quiet, SeenInv
<1>4. CASE Opens
  <2>1. cur' # 0 => Kind' = KindOf(cur') BY <1>00 DEF Kind, KindOf
  <2>2. Front' = 1 /\ item' = 1 BY <1>4 DEF Opens, Front
  <2>3. ASSUME cur' # 0 PROVE Readable(cur', Seen')
    <3>1. cur' \in Sources BY <1>4, <2>3 DEF Opens
    <3>2. /\ DOMAIN srcs[cur'].items = 1..Len(srcs[cur'].items)
          /\ Len(srcs[cur'].items) \in Nat /\ srcs[cur'].items \in Seq(ItemSet)
      BY <3>1, SourceTypes DEF BaseInv
    <3>3. CASE KindOf(cur') = "tridas"
      <4>1. Seen' = 1 BY <2>1, <2>2, <2>3, <3>3 DEF Seen
      <4>2. srcs[cur'].items = <<>> \/ srcs[cur'].items[1].what # "corrupt"
        BY <3>3 DEF KindOf, MakeJEventSource, MakeTridas, MakeEvioDAQ, Generator
      <4> QED BY <3>2, <4>1, <4>2 DEF Readable
    <3>4. CASE KindOf(cur') # "tridas"
      <4>1. Seen' = 0 BY <2>1, <2>2, <2>3, <3>4 DEF Seen
      <4> QED BY <3>2, <4>1 DEF Readable
    <3> QED BY <3>3, <3>4
  <2> QED BY <1>1, <1>4, <2>3 DEF Opens
<1>5. ASSUME NEW i, NEW s, NEW run, Delivery(i, s, run) PROVE SeenInv'
  <2> DEFINE new == NewEvent(i, s, run)
             L == Len(delivered)
  <2>0. /\ cur # 0 /\ ~undef /\ i \in DOMAIN Items /\ i \in Nat /\ s \in Nat
        /\ run \in {NoRun} \cup Runs /\ calls' \in [Sources -> Nat] /\ Deliver(i, s, run)
        /\ UNCHANGED <<cur, undef>> /\ Looks(i)
    BY <1>5 DEF Delivery
  <2>1. new.src = cur /\ new.item = i BY <2>0, NewEventType
  <2>2. /\ L \in Nat /\ DOMAIN delivered = 1..L /\ DOMAIN delivered' = 1..(L + 1)
        /\ \A k \in DOMAIN delivered : delivered'[k] = delivered[k]
        /\ delivered'[L + 1] = new
    BY <2>0, DeliverTypes
  <2> HIDE DEF new, L
  <2>3. Readable(cur, i) /\ Seen' = i
    <3>1. Items = srcs[cur].items /\ DOMAIN Items = 1..Len(Items) /\ Len(Items) \in Nat
      BY <2>0, CurrentSource
    <3>2. Readable(cur, Seen) BY <2>0 DEF SeenInv
    <3>3. Seen \in Nat /\ i <= Seen + 1 /\ Seen' = i /\ Items[i].what # "corrupt"
      BY <2>0 DEF Looks
    <3> QED BY <2>0, <3>1, <3>2, <3>3 DEF Readable
  <2>4. \A k \in DOMAIN delivered' : Readable(delivered'[k].src, delivered'[k].item)
    BY <2>1, <2>2, <2>3 DEF SeenInv
  <2> QED BY <1>00, <2>0, <2>3, <2>4 DEF SeenInv, Readable
<1> QED BY <1>2, <1>3, <1>4, <1>5, StepKinds

ReadInv == PassedInv /\ DeliveredInOrder /\ NoneLeftOut /\ SourcesReadOut

\* What is delivered of source i, one by one.
LEMMA DeliveredElements ==
    ASSUME NEW i, NEW t
    PROVE  t \in DeliveredOf(i) <=>
              \E k \in DOMAIN delivered : delivered[k].src = i /\ t = Tree(delivered[k])
BY DEF DeliveredOf

\* A step that delivers nothing.
LEMMA SameDelivered ==
    ASSUME UNCHANGED <<options, delivered>>
    PROVE  /\ \A i : DeliveredOf(i)' = DeliveredOf(i)
           /\ DeliveredInOrder => DeliveredInOrder'
BY DEF DeliveredOf, Tree, DeliveredInOrder, InOrder

\* A quiet step keeps order and completeness.
LEMMA ReadQuiet == ASSUME BaseInv, ReadInv, Quiet PROVE ReadInv'
<1>0. /\ UNCHANGED <<options, opened, cur, delivered>>
      /\ (undef => undef') /\ (quitting => quitting')
      /\ pc' = "end" => pc = "end" \/ quitting \/ opened = Len(srcs)
  BY DEF Quiet
<1>1. /\ \A i : KindOf(i)' = KindOf(i) /\ Holds(i)' = Holds(i) /\ DeliveredOf(i)' = DeliveredOf(i)
      /\ \A i : CanBeRead(i)' = CanBeRead(i)
      /\ srcs' = srcs /\ Kind' = Kind
  BY <1>0, OptionsSame, SameDelivered, PlaceKept
<1>2. cur # 0 => \A j, n : PassedNext(j, n) <=> Passed(j, n)
  BY <1>1 DEF Quiet, Passed, PassedNext
<1>3. \A e : Tree(e)' = Tree(e) BY DEF Tree
<1>4. PassedInv'
  <2>1. ASSUME NEW k \in DOMAIN delivered
        PROVE  /\ delivered[k].src \in 1..opened
               /\ Tree(delivered[k]) \in Holds(delivered[k].src)
               /\ delivered[k].src = cur => PassedNext(delivered[k].item, delivered[k].sub)
    <3>1. /\ delivered[k].src \in 1..opened
          /\ Tree(delivered[k]) \in Holds(delivered[k].src)
          /\ delivered[k].src = cur => Passed(delivered[k].item, delivered[k].sub)
      BY <2>1 DEF ReadInv, PassedInv
    <3>2. delivered[k].src # 0 BY <3>1 DEF BaseInv, TypeOK
    <3> QED BY <1>2, <3>1, <3>2
  <2> QED BY <1>0, <1>1, <1>3, <2>1 DEF PassedInv, Passed, PassedNext
<1>5. DeliveredInOrder' BY <1>0, SameDelivered DEF ReadInv
<1>6. NoneLeftOut'
  <2>1. cur # 0 => \A j, n : Passed(j, n)' <=> Passed(j, n)
    BY <1>2 DEF Passed, PassedNext
  <2> QED BY <1>0, <1>1, <2>1 DEF ReadInv, NoneLeftOut
<1>7. SourcesReadOut'
  BY <1>0, <1>1 DEF ReadInv, SourcesReadOut, EachReadOut, AllSourcesOpened
<1> QED BY <1>4, <1>5, <1>6, <1>7 DEF ReadInv

\* So does opening a source: nothing of it was delivered before.
LEMMA ReadOpens == ASSUME BaseInv, BaseInv', ReadInv, Opens PROVE ReadInv'
<1>0. /\ UNCHANGED <<options, delivered>> /\ cur = 0 /\ ~undef
      /\ opened' = opened + 1 /\ opened' \in Sources /\ opened \in Nat
      /\ cur' = IF KindOf(opened') \in {"null", "throws"} THEN 0 ELSE opened'
      /\ pc' \notin {"check", "parse"} /\ item' = 1 /\ sub' = 0
      /\ pc' = "end" => opened' = Len(srcs)
      /\ quitting => quitting'
  BY DEF Opens
<1>1. /\ \A i : KindOf(i)' = KindOf(i) /\ Holds(i)' = Holds(i) /\ DeliveredOf(i)' = DeliveredOf(i)
      /\ \A i : CanBeRead(i)' = CanBeRead(i)
      /\ srcs' = srcs /\ Sources' = Sources
  BY <1>0, OptionsSame, SameDelivered
<1>2. \A e : Tree(e)' = Tree(e) BY DEF Tree
<1>3. PassedInv'
  <2>1. ASSUME NEW k \in DOMAIN delivered
        PROVE  /\ delivered[k].src \in 1..opened' /\ delivered[k].src # cur'
               /\ Tree(delivered[k]) \in Holds(delivered[k].src)
    <3>1. /\ delivered[k].src \in 1..opened
          /\ Tree(delivered[k]) \in Holds(delivered[k].src)
      BY <2>1 DEF ReadInv, PassedInv
    <3> QED BY <1>0, <3>1
  <2> QED BY <1>0, <1>1, <1>2, <2>1 DEF PassedInv
<1>4. DeliveredInOrder' BY <1>0, SameDelivered DEF ReadInv
<1>5. NoneLeftOut'
  <2> SUFFICES ASSUME cur' # 0, NEW t \in Holds(cur'), Passed(t.item, t.sub)' PROVE FALSE
    BY <1>1 DEF NoneLeftOut
  <2>1. cur' = opened' /\ cur' \in Sources /\ Kind' = KindOf(cur')
    BY <1>0, <1>1 DEF Kind, KindOf
  <2>2. t.item < 1 \/ (KindOf(cur') = "tridas" /\ t.item = 1 /\ t.sub <= 0)
    BY <1>0, <2>1 DEF Passed, Front
  <2>3. /\ t.item \in DOMAIN srcs[cur'].items
        /\ KindOf(cur') = "tridas" => t.sub \in 1..srcs[cur'].items[t.item].n
    BY <2>1, HoldsElements DEF BaseInv
  <2>4. /\ t.item \in 1..Len(srcs[cur'].items) /\ Len(srcs[cur'].items) \in Nat
        /\ srcs[cur'].items[t.item].n \in Nat
    BY <2>1, <2>3, SourceTypes DEF BaseInv
  <2> QED BY <2>2, <2>3, <2>4
<1>6. EachReadOut'
  <2> SUFFICES ASSUME NEW i \in 1..opened', i # cur', ~quitting', ~undef',
                      KindOf(i) \in {"file", "mc", "tridas"}
               PROVE  DeliveredOf(i) = CanBeRead(i)
    BY <1>1 DEF EachReadOut
  <2>1. i # opened' BY <1>0
  <2>2. i \in 1..opened /\ i # cur BY <1>0, <2>1
  <2> QED BY <1>0, <2>2 DEF ReadInv, SourcesReadOut, EachReadOut
<1>7. AllSourcesOpened' BY <1>0, <1>1 DEF AllSourcesOpened
<1> QED BY <1>3, <1>4, <1>5, <1>6, <1>7 DEF ReadInv, SourcesReadOut

\* So does leaving one: all of a file was passed, hence delivered.
LEMMA ReadLeave == ASSUME BaseInv, SeenInv, ReadInv, Leave PROVE ReadInv'
<1>0. /\ cur # 0 /\ cur' = 0 /\ pc' = "read"
      /\ UNCHANGED <<options, opened, delivered, quitting, undef>>
      /\ Kind # "ET" => \A t \in CanBeRead(cur) : Passed(t.item, t.sub)
  BY DEF Leave
<1>1. /\ \A i : KindOf(i)' = KindOf(i) /\ Holds(i)' = Holds(i) /\ DeliveredOf(i)' = DeliveredOf(i)
      /\ \A i : CanBeRead(i)' = CanBeRead(i)
      /\ srcs' = srcs /\ Sources' = Sources
  BY <1>0, OptionsSame, SameDelivered
<1>2. \A e : Tree(e)' = Tree(e) BY DEF Tree
<1>3. PassedInv'
  <2>1. ASSUME NEW k \in DOMAIN delivered
        PROVE  /\ delivered[k].src \in 1..opened /\ delivered[k].src # cur'
               /\ Tree(delivered[k]) \in Holds(delivered[k].src)
    <3>1. /\ delivered[k].src \in 1..opened
          /\ Tree(delivered[k]) \in Holds(delivered[k].src)
      BY <2>1 DEF ReadInv, PassedInv
    <3> QED BY <1>0, <3>1 DEF BaseInv, TypeOK
  <2> QED BY <1>0, <1>1, <1>2, <2>1 DEF PassedInv
<1>4. DeliveredInOrder' BY <1>0, SameDelivered DEF ReadInv
<1>5. NoneLeftOut' BY <1>0 DEF NoneLeftOut
<1>6. EachReadOut'
  <2> SUFFICES ASSUME NEW i \in 1..opened, ~quitting, ~undef,
                      KindOf(i) \in {"file", "mc", "tridas"}
               PROVE  DeliveredOf(i) = CanBeRead(i)
    BY <1>0, <1>1 DEF EachReadOut
  <2>1. CASE i # cur BY <2>1 DEF ReadInv, SourcesReadOut, EachReadOut
  <2>2. CASE i = cur
    <3>1. Kind = KindOf(cur) BY <1>0, CurrentSource
    <3>2. \A t \in CanBeRead(cur) : t \in DeliveredOf(cur)
      BY <1>0, <2>2, <3>1 DEF ReadInv, NoneLeftOut, CanBeRead
    <3>3. \A t \in DeliveredOf(cur) : t \in CanBeRead(cur)
      <4> TAKE t \in DeliveredOf(cur)
      <4>1. PICK k \in DOMAIN delivered : delivered[k].src = cur /\ t = Tree(delivered[k])
        BY DeliveredElements
      <4>2. t \in Holds(cur) /\ t.item = delivered[k].item
        BY <4>1 DEF ReadInv, PassedInv, Tree
      <4>3. Readable(cur, delivered[k].item) BY <4>1 DEF SeenInv
      <4> QED BY <4>2, <4>3 DEF CanBeRead
    <3> QED BY <2>2, <3>2, <3>3
  <2> QED BY <2>1, <2>2
<1>7. AllSourcesOpened' BY <1>0 DEF AllSourcesOpened
<1> QED BY <1>3, <1>4, <1>5, <1>6, <1>7 DEF ReadInv, SourcesReadOut

\* So does a delivery: the event comes after all those passed, and is the only
\* one passed by the step.
LEMMA ReadDelivery ==
    ASSUME BaseInv, ReadInv, NEW i, NEW s, NEW run, Delivery(i, s, run)
    PROVE  ReadInv'
<1> DEFINE new == NewEvent(i, s, run)
           L == Len(delivered)
<1>0. /\ cur # 0 /\ ~undef /\ i \in Nat /\ s \in Nat /\ run \in {NoRun} \cup Runs
      /\ calls' \in [Sources -> Nat]
      /\ Deliver(i, s, run) /\ UNCHANGED <<options, cur, opened, quitting, undef>>
      /\ pc' = "read" /\ Advance(i, s)
  BY DEF Delivery
<1>1. /\ \A j : KindOf(j)' = KindOf(j) /\ Holds(j)' = Holds(j)
      /\ \A j : CanBeRead(j)' = CanBeRead(j)
      /\ srcs' = srcs /\ Sources' = Sources
  BY <1>0, OptionsSame
<1>2. /\ new.src = cur /\ new.item = i /\ new.sub = s
      /\ Tree(new) = [src |-> cur, item |-> i, sub |-> s]
  BY <1>0, NewEventType
<1>3. /\ L \in Nat /\ DOMAIN delivered = 1..L /\ DOMAIN delivered' = 1..(L + 1)
      /\ \A k \in DOMAIN delivered : delivered'[k] = delivered[k]
      /\ delivered'[L + 1] = new
  BY <1>0, DeliverTypes
<1>4. cur \in 1..opened /\ opened \in Nat
  <2>1. cur \in Sources /\ cur = opened /\ opened \in Nat
    BY <1>0, CurrentSource DEF BaseInv, TypeOK
  <2> QED BY <1>0, <2>1
<1>5. \A e : Tree(e) = [src |-> e.src, item |-> e.item, sub |-> e.sub] BY DEF Tree
<1>6. \A e : Tree(e).item = e.item /\ Tree(e).sub = e.sub BY <1>5
<1> HIDE DEF new, L
<1>7. \A k \in DOMAIN delivered : /\ delivered[k].src \in 1..opened
                                  /\ Tree(delivered[k]) \in Holds(delivered[k].src)
                                  /\ delivered[k].src = cur => Passed(delivered[k].item, delivered[k].sub)
  BY DEF ReadInv, PassedInv
<1>8. /\ Tree(new) \in Holds(cur)
      /\ \A t \in Holds(cur) :
          /\ Passed(t.item, t.sub) => t.item < i \/ (t.item = i /\ t.sub < s)
          /\ PassedNext(t.item, t.sub) <=> Passed(t.item, t.sub) \/ (t.item = i /\ t.sub = s)
  BY <1>0, <1>2 DEF Advance
<1>9. PassedInv'
  <2>1. ASSUME NEW k \in DOMAIN delivered'
        PROVE  /\ delivered'[k].src \in 1..opened
               /\ Tree(delivered'[k]) \in Holds(delivered'[k].src)
               /\ delivered'[k].src = cur => PassedNext(delivered'[k].item, delivered'[k].sub)
    <3>1. CASE k \in DOMAIN delivered
      <4>1. delivered'[k] = delivered[k] BY <1>3, <3>1
      <4>2. delivered[k].src = cur => PassedNext(delivered[k].item, delivered[k].sub)
        <5> SUFFICES ASSUME delivered[k].src = cur
                     PROVE  PassedNext(Tree(delivered[k]).item, Tree(delivered[k]).sub)
          BY <1>6
        <5>1. /\ Passed(Tree(delivered[k]).item, Tree(delivered[k]).sub)
              /\ Tree(delivered[k]) \in Holds(cur)
          BY <1>6, <1>7, <3>1
        <5> QED BY <1>8, <5>1
      <4> QED BY <1>7, <3>1, <4>1, <4>2
    <3>2. CASE k = L + 1
      <4>1. delivered'[k] = new BY <1>3, <3>2
      <4>2. PassedNext(Tree(new).item, Tree(new).sub) BY <1>2, <1>6, <1>8
      <4> QED BY <1>2, <1>4, <1>6, <1>8, <4>1, <4>2
    <3> QED BY <1>3, <3>1, <3>2
  <2>2. \A e : Tree(e)' = Tree(e) BY DEF Tree
  <2> QED BY <1>0, <1>1, <2>1, <2>2 DEF PassedInv, Passed, PassedNext, Tree
<1>10. DeliveredInOrder'
  <2> SUFFICES ASSUME NEW k \in DOMAIN delivered', NEW m \in DOMAIN delivered', k < m
               PROVE  \/ delivered'[k].src < delivered'[m].src
                      \/ /\ delivered'[k].src = delivered'[m].src
                         /\ InOrder(delivered'[k], delivered'[m])
    BY DEF DeliveredInOrder, InOrder
  <2>1. CASE m \in DOMAIN delivered
    <3>1. k \in DOMAIN delivered BY <1>3, <2>1
    <3> QED BY <1>3, <2>1, <3>1 DEF ReadInv, DeliveredInOrder
  <2>2. CASE m = L + 1
    <3>1. k \in DOMAIN delivered BY <1>3, <2>2
    <3>2. delivered'[k] = delivered[k] /\ delivered'[m] = new BY <1>3, <2>2, <3>1
    <3>3. CASE delivered[k].src # cur
      <4>1. delivered[k].src \in 1..opened /\ cur = opened BY <1>0, <1>7, <3>1, CurrentSource
      <4> QED BY <1>2, <1>4, <3>2, <3>3, <4>1
    <3>4. CASE delivered[k].src = cur
      <4>1. /\ Passed(Tree(delivered[k]).item, Tree(delivered[k]).sub)
            /\ Tree(delivered[k]) \in Holds(cur)
        BY <1>6, <1>7, <3>1, <3>4
      <4>2. delivered[k].item < i \/ (delivered[k].item = i /\ delivered[k].sub < s)
        BY <1>6, <1>8, <4>1
      <4> QED BY <1>2, <3>2, <3>4, <4>2 DEF InOrder
    <3> QED BY <3>3, <3>4
  <2> QED BY <1>3, <2>1, <2>2
<1>11. \A j : j # cur => DeliveredOf(j)' = DeliveredOf(j)
  <2> SUFFICES ASSUME NEW j, j # cur, NEW t PROVE t \in DeliveredOf(j)' <=> t \in DeliveredOf(j)
    OBVIOUS
  <2>1. t \in DeliveredOf(j)' <=>
           \E k \in DOMAIN delivered' : delivered'[k].src = j /\ t = Tree(delivered'[k])
    BY DEF DeliveredOf, Tree
  <2>2. \A k \in DOMAIN delivered' : delivered'[k].src = j =>
           k \in DOMAIN delivered /\ delivered'[k] = delivered[k]
    BY <1>2, <1>3
  <2>3. \A k \in DOMAIN delivered : k \in DOMAIN delivered' /\ delivered'[k] = delivered[k]
    BY <1>3
  <2> QED BY <2>1, <2>2, <2>3, DeliveredElements
<1>12. NoneLeftOut'
  <2> SUFFICES ASSUME NEW t \in Holds(cur), PassedNext(t.item, t.sub), Kind # "ET"
               PROVE  t \in DeliveredOf(cur)'
    <3>1. Kind' = Kind BY <1>0, PlaceKept
    <3> QED BY <1>0, <1>1, <3>1 DEF NoneLeftOut, Passed, PassedNext
  <2>1. t \in DeliveredOf(cur)' <=>
           \E k \in DOMAIN delivered' : delivered'[k].src = cur /\ t = Tree(delivered'[k])
    BY <1>0 DEF DeliveredOf, Tree
  <2>2. CASE Passed(t.item, t.sub)
    <3>1. t \in DeliveredOf(cur) BY <1>0, <2>2 DEF ReadInv, NoneLeftOut
    <3>2. PICK k \in DOMAIN delivered : delivered[k].src = cur /\ t = Tree(delivered[k])
      BY <3>1, DeliveredElements
    <3>3. k \in DOMAIN delivered' /\ delivered'[k] = delivered[k] BY <1>3, <3>2
    <3> QED BY <2>1, <3>2, <3>3
  <2>3. CASE t.item = i /\ t.sub = s
    <3>1. t = [src |-> cur, item |-> t.item, sub |-> t.sub]
      BY <1>0, CurrentSource, HoldsElements DEF BaseInv
    <3>2. t = Tree(new) BY <1>2, <2>3, <3>1
    <3>3. L + 1 \in DOMAIN delivered' BY <1>3
    <3> QED BY <1>2, <1>3, <2>1, <3>2, <3>3
  <2> QED BY <1>8, <2>2, <2>3
<1>13. SourcesReadOut'
  BY <1>0, <1>1, <1>11 DEF ReadInv, SourcesReadOut, EachReadOut, AllSourcesOpened
<1> QED BY <1>9, <1>10, <1>12, <1>13 DEF ReadInv

-----------------------------------------------------------------------------
(***************************************************************************)
(* The run of an event.                                                    *)
(***************************************************************************)

RunsInv == CurRunInv /\ RunInv

\* The item after those looked at names the run, or it does not.
LEMMA NextRun ==
    ASSUME NEW items, NEW n \in Nat, NEW r, NEW q, RunSays(items, n, r),
           q = IF items[n + 1].what \in {"physics", "prestart"}
               THEN items[n + 1].run ELSE r
    PROVE  RunSays(items, n + 1, q)
<1>1. CASE items[n + 1].what \in {"physics", "prestart"}
  <2>1. n + 1 \in Named(items, n + 1) BY <1>1 DEF Named
  <2>2. \A m \in Named(items, n + 1) : m <= n + 1 BY DEF Named
  <2> QED BY <1>1, <2>1, <2>2 DEF RunSays
<1>2. CASE items[n + 1].what \notin {"physics", "prestart"}
  <2>1. \A j : j \in Named(items, n + 1) <=> j \in Named(items, n)
    BY <1>2 DEF Named
  <2>2. Named(items, n + 1) = Named(items, n) BY <2>1
  <2> QED BY <1>2, <2>2 DEF RunSays
<1> QED BY <1>1, <1>2

\* Looking at no item.
LEMMA NoRunYet == \A items : RunSays(items, 0, NoRun)
BY DEF RunSays, Named

\* A step that delivers nothing keeps the runs of the events.
LEMMA RunsSame == ASSUME RunInv, UNCHANGED <<options, delivered>> PROVE RunInv'
<1>1. \A i : KindOf(i)' = KindOf(i) BY OptionsSame
<1>2. srcs' = srcs /\ overwrite' = overwrite /\ delivered' = delivered BY OptionsSame
<1> QED BY <1>1, <1>2 DEF RunInv, RunSays, Named

\* Every step keeps the runs: a delivered event has the run of the items up to
\* its own.
LEMMA RunsStep == ASSUME BaseInv, RunsInv, [Next]_vars PROVE RunsInv'
<1>1. CASE Opens
  <2>1. RunInv' BY <1>1, RunsSame DEF Opens, RunsInv
  <2>2. CurRunInv'
    <3>1. Front' - 1 = 0 /\ curRun' = NoRun BY <1>1 DEF Opens, Front
    <3> QED BY <3>1, NoRunYet DEF CurRunInv
  <2> QED BY <2>1, <2>2 DEF RunsInv
<1>2. CASE Leave
  <2>1. RunInv' BY <1>2, RunsSame DEF Leave, RunsInv
  <2>2. CurRunInv' BY <1>2 DEF Leave, CurRunInv
  <2> QED BY <2>1, <2>2 DEF RunsInv
<1>3. CASE Quiet
  <2>1. RunInv' BY <1>3, RunsSame DEF Quiet, RunsInv
  <2>2. Kind' = Kind /\ Items' = Items BY <1>3, PlaceKept DEF Quiet
  <2>3. overwrite' = overwrite BY <1>3, OptionsSame DEF Quiet
  <2>4. CurRunInv' BY <1>3, <2>2, <2>3 DEF Quiet, RunsInv, CurRunInv, RunSays, Named
  <2> QED BY <2>1, <2>4 DEF RunsInv
<1>4. ASSUME NEW i, NEW s, NEW run, Delivery(i, s, run) PROVE RunsInv'
  <2> DEFINE new == NewEvent(i, s, run)
             L == Len(delivered)
  <2>0. /\ cur # 0 /\ i \in DOMAIN Items /\ i \in Nat /\ s \in Nat /\ run \in {NoRun} \cup Runs
        /\ calls' \in [Sources -> Nat] /\ Deliver(i, s, run)
        /\ UNCHANGED <<options, cur>> /\ RunGiven(i, run)
    BY <1>4 DEF Delivery
  <2>1. /\ new.src = cur /\ new.item = i
        /\ new.run = IF overwrite = NoRun \/ Kind = "tridas" THEN run ELSE overwrite
    BY <2>0, NewEventType
  <2>2. /\ L \in Nat /\ DOMAIN delivered = 1..L /\ DOMAIN delivered' = 1..(L + 1)
        /\ \A k \in DOMAIN delivered : delivered'[k] = delivered[k]
        /\ delivered'[L + 1] = new
    BY <2>0, DeliverTypes
  <2>3. /\ srcs' = srcs /\ overwrite' = overwrite /\ \A j : KindOf(j)' = KindOf(j)
        /\ Kind' = Kind /\ Items' = Items
    BY <2>0, OptionsSame, PlaceKept
  <2>4. Kind = KindOf(cur) /\ Items = srcs[cur].items BY <2>0, CurrentSource
  <2> HIDE DEF new, L
  <2>5. overwrite = NoRun /\ Kind \in {"file", "ET"} =>
           /\ RunSays(Items, i, run) /\ Front' - 1 = i /\ curRun' = run
    <3> SUFFICES ASSUME overwrite = NoRun, Kind \in {"file", "ET"}
                 PROVE  RunSays(Items, i, run) /\ Front' - 1 = i /\ curRun' = run
      OBVIOUS
    <3>1. /\ i = Front /\ Front' = i + 1 /\ run = RunAfter(Items[i]) /\ curRun' = run
      BY <2>0 DEF RunGiven, Deliver
    <3>2. RunSays(Items, i - 1, curRun) BY <2>0, <3>1 DEF RunsInv, CurRunInv
    <3>3. i - 1 \in Nat /\ (i - 1) + 1 = i BY <2>0, CurrentSource
    <3>4. run = IF Items[i].what \in {"physics", "prestart"} THEN Items[i].run ELSE curRun
      BY <3>1 DEF RunAfter
    <3>5. RunSays(Items, i, run) BY <3>2, <3>3, <3>4, NextRun
    <3> QED BY <3>1, <3>3, <3>5
  <2>6. CurRunInv'
    BY <2>0, <2>3, <2>5 DEF CurRunInv, RunSays, Named
  <2>7. ASSUME NEW k \in DOMAIN delivered'
        PROVE  /\ overwrite # NoRun /\ KindOf(delivered'[k].src) # "tridas" =>
                     delivered'[k].run = overwrite
               /\ KindOf(delivered'[k].src) = "tridas" =>
                     delivered'[k].run = srcs[delivered'[k].src].items[delivered'[k].item].run
               /\ overwrite = NoRun /\ KindOf(delivered'[k].src) \in {"file", "ET"} =>
                     RunSays(srcs[delivered'[k].src].items, delivered'[k].item, delivered'[k].run)
    <3>1. CASE k \in DOMAIN delivered
      <4>1. delivered'[k] = delivered[k] BY <2>2, <3>1
      <4> QED BY <3>1, <4>1 DEF RunsInv, RunInv
    <3>2. CASE k = L + 1
      <4>1. delivered'[k] = new BY <2>2, <3>2
      <4>2. Kind = "tridas" => run = Items[i].run BY <2>0 DEF RunGiven
      <4>3. overwrite = NoRun /\ Kind \in {"file", "ET"} => RunSays(Items, i, new.run)
        BY <2>1, <2>5
      <4> QED BY <2>1, <2>4, <4>1, <4>2, <4>3
    <3> QED BY <2>2, <3>1, <3>2
  <2>8. RunInv' BY <2>3, <2>7 DEF RunInv, RunSays, Named
  <2> QED BY <2>6, <2>8 DEF RunsInv
<1> QED BY <1>1, <1>2, <1>3, <1>4, StepKinds

-----------------------------------------------------------------------------
(***************************************************************************)
(* The books: calls and ids in progress.                                   *)
(***************************************************************************)

\* In GetEvent of an ET source a call was noted.
CallInv == pc \in {"et", "wait", "check", "parse"} => calls[cur] # 0

BookInv == IdInv /\ InProgressExact

\* A call of source i has brought no event so far, after the step.
AskedNext(i) == calls'[i] # 0 /\ (i # cur' \/ pc' \notin {"read", "end"} \/ undef')

\* The ids in progress after a step, one by one.
LEMMA ExactNext ==
    ASSUME \A i \in Sources' : \A n : n \in inProgress'[i] <=>
              \/ \E e \in pending' : e.src = i /\ e.id = n
              \/ n = calls'[i] /\ AskedNext(i)
    PROVE  InProgressExact'
BY DEF InProgressExact, AskedInVain, AskedNext

\* The books, and what they say of the sources.
LEMMA BookFacts ==
    ASSUME BaseInv, BookInv
    PROVE  /\ opened \in Nat /\ opened <= Len(srcs) /\ Sources = 1..Len(srcs)
           /\ Len(srcs) \in Nat /\ cur \in 0..opened /\ calls \in [Sources -> Nat]
           /\ DOMAIN inProgress = Sources
           /\ \A e \in pending : e.src \in Sources /\ e.src \in 1..opened
           /\ \A i \in Sources : \A n : n \in inProgress[i] <=>
                 \/ \E e \in pending : e.src = i /\ e.id = n
                 \/ n = calls[i] /\ AskedInVain(i)
<1>1. /\ opened \in Nat /\ opened <= Len(srcs) /\ Sources = 1..Len(srcs)
      /\ Len(srcs) \in Nat /\ cur \in 0..opened /\ calls \in [Sources -> Nat]
      /\ DOMAIN inProgress = Sources
  BY SourceTypes DEF BaseInv, TypeOK, MoreTypes
<1>2. \A e \in pending : e.src \in Sources /\ e.src \in 1..opened
  BY <1>1 DEF BookInv, IdInv
<1> QED BY <1>1, <1>2 DEF BookInv, InProgressExact

\* A step that leaves the books alone.
LEMMA BooksSame ==
    ASSUME BaseInv, BookInv, UNCHANGED <<options, calls, inProgress, pending>>,
           opened' \in Nat, opened' >= opened,
           \A i \in Sources : AskedNext(i) <=> AskedInVain(i)
    PROVE  BookInv'
<1>0. Sources' = Sources BY OptionsSame
<1>1. IdInv'
  <2>1. \A i : AskedInVain(i)' <=> AskedNext(i) BY DEF AskedInVain, AskedNext
  <2> QED BY <1>0, <2>1, BookFacts DEF BookInv, IdInv
<1>2. InProgressExact' BY <1>0, BookFacts, ExactNext
<1> QED BY <1>1, <1>2 DEF BookInv

\* A call of the current source that has brought no event so far.
LEMMA BooksAsk ==
    ASSUME BaseInv, BookInv, cur # 0, NoteCall, UNCHANGED <<options, pending, opened>>,
           ~AskedInVain(cur), AskedNext(cur),
           \A i \in Sources : i # cur => (AskedNext(i) <=> AskedInVain(i))
    PROVE  BookInv'
<1>0. Sources' = Sources BY OptionsSame
<1>1. cur \in Sources /\ cur = opened BY CurrentSource
<1>2. \A e \in pending : e.src = cur => e.id <= calls[cur] /\ e.id \in Nat
  BY <1>1, BookFacts DEF BookInv, IdInv
<1>3. IdInv'
  <2>1. \A e \in pending : /\ e.id \in 1..calls'[e.src]
                           /\ AskedNext(e.src) => e.id # calls'[e.src]
    <3> TAKE e \in pending
    <3>1. CASE e.src = cur BY <1>1, <1>2, <3>1, NoteTypes, BookFacts DEF BookInv, IdInv
    <3>2. CASE e.src # cur BY <3>2, NoteTypes, BookFacts DEF BookInv, IdInv
    <3> QED BY <3>1, <3>2
  <2>2. \A i \in Sources : i > opened => calls'[i] = 0
    BY <1>1, NoteTypes, BookFacts DEF BookInv, IdInv
  <2>3. /\ \A e \in pending : e.src \in 1..opened
        /\ \A e, f \in pending : e.src = f.src /\ e.id = f.id => e = f
    BY DEF BookInv, IdInv
  <2>4. \A i : AskedInVain(i)' <=> AskedNext(i) BY DEF AskedInVain, AskedNext
  <2> QED BY <1>0, <2>1, <2>2, <2>3, <2>4 DEF IdInv
<1>4. InProgressExact'
  <2>1. ASSUME NEW i \in Sources, NEW n
        PROVE  n \in inProgress'[i] <=> \/ \E e \in pending : e.src = i /\ e.id = n
                                        \/ n = calls'[i] /\ AskedNext(i)
    <3>1. CASE i = cur
      <4>1. n \in inProgress[cur] <=> \E e \in pending : e.src = cur /\ e.id = n
        BY <1>1, BookFacts
      <4>2. n \in inProgress'[cur] <=> n \in inProgress[cur] \/ n = calls'[cur]
        BY NoteTypes
      <4> QED BY <3>1, <4>1, <4>2
    <3>2. CASE i # cur BY <3>2, NoteTypes, BookFacts
    <3> QED BY <3>1, <3>2
  <2> QED BY <1>0, <2>1, ExactNext
<1> QED BY <1>3, <1>4 DEF BookInv

\* The current call, of number n, brings an event.
LEMMA BooksDeliver ==
    ASSUME BaseInv, BookInv, cur # 0, UNCHANGED <<options, opened>>,
           calls' \in [Sources -> Nat], NEW ev, ev.src = cur, ev.id = calls'[cur],
           pending' = pending \cup {ev}, calls'[cur] # 0,
           \A i \in Sources : i # cur =>
              /\ calls'[i] = calls[i] /\ inProgress'[i] = inProgress[i]
              /\ (AskedNext(i) <=> AskedInVain(i)),
           calls'[cur] >= calls[cur],
           calls'[cur] = calls[cur] => AskedInVain(cur),
           ~AskedNext(cur),
           \A n : n \in inProgress'[cur] <=>
              n = calls'[cur] \/ \E e \in pending : e.src = cur /\ e.id = n
    PROVE  BookInv'
<1>0. Sources' = Sources BY OptionsSame
<1>1. cur \in Sources /\ cur = opened BY CurrentSource
<1>2. \A e \in pending : e.src = cur => /\ e.id \in 1..calls'[cur]
                                       /\ e.id # calls'[cur]
  <2> SUFFICES ASSUME NEW e \in pending, e.src = cur
               PROVE  e.id \in 1..calls'[cur] /\ e.id # calls'[cur]
    OBVIOUS
  <2>1. e.id \in 1..calls[cur] /\ (AskedInVain(cur) => e.id # calls[cur])
    BY DEF BookInv, IdInv
  <2>2. calls[cur] \in Nat /\ calls'[cur] \in Nat BY <1>1, BookFacts
  <2> QED BY <2>1, <2>2
<1>3. IdInv'
  <2>1. ASSUME NEW e \in pending' 
        PROVE  /\ e.src \in 1..opened /\ e.id \in 1..calls'[e.src]
               /\ AskedNext(e.src) => e.id # calls'[e.src]
    <3>1. CASE e = ev
      BY <1>1, <3>1, BookFacts
    <3>2. CASE e \in pending /\ e.src = cur
      BY <1>1, <1>2, <3>2, BookFacts
    <3>3. CASE e \in pending /\ e.src # cur
      BY <3>3, BookFacts DEF BookInv, IdInv
    <3> QED BY <3>1, <3>2, <3>3
  <2>2. \A i \in Sources : i > opened => calls'[i] = 0
    BY <1>1, BookFacts DEF BookInv, IdInv
  <2>3. \A e, f \in pending' : e.src = f.src /\ e.id = f.id => e = f
    BY <1>2 DEF BookInv, IdInv
  <2>4. \A i : AskedInVain(i)' <=> AskedNext(i) BY DEF AskedInVain, AskedNext
  <2> QED BY <1>0, <2>1, <2>2, <2>3, <2>4 DEF IdInv
<1>4. InProgressExact'
  <2>1. ASSUME NEW i \in Sources, NEW n
        PROVE  n \in inProgress'[i] <=> \/ \E e \in pending' : e.src = i /\ e.id = n
                                        \/ n = calls'[i] /\ AskedNext(i)
    <3>1. CASE i = cur BY <3>1
    <3>2. CASE i # cur BY <3>2, BookFacts
    <3> QED BY <3>1, <3>2
  <2> QED BY <1>0, <2>1, ExactNext
<1> QED BY <1>3, <1>4 DEF BookInv

\* A thread frees an event.
LEMMA BooksFree ==
    ASSUME BaseInv, BookInv, NEW ev \in pending, FreeEvent(ev)
    PROVE  BookInv'
<1>0. /\ UNCHANGED <<options, opened, calls, cur, pc, undef>>
      /\ pending' = pending \ {ev}
      /\ inProgress' = [inProgress EXCEPT ![ev.src] = @ \ {ev.id}]
  BY DEF FreeEvent, place
<1>1. Sources' = Sources BY <1>0, OptionsSame
<1>2. \A i : AskedNext(i) <=> AskedInVain(i) BY <1>0 DEF AskedInVain, AskedNext
<1>3. ev.src \in Sources BY BookFacts
<1>4. /\ inProgress'[ev.src] = inProgress[ev.src] \ {ev.id}
      /\ \A i \in Sources : i # ev.src => inProgress'[i] = inProgress[i]
  BY <1>0, <1>3, BookFacts
<1>5. IdInv'
  <2>1. \A i : AskedInVain(i)' <=> AskedInVain(i)
    BY <1>2 DEF AskedInVain, AskedNext
  <2> QED BY <1>0, <1>1, <2>1 DEF BookInv, IdInv
<1>6. InProgressExact'
  <2>1. ASSUME NEW i \in Sources, NEW n
        PROVE  n \in inProgress'[i] <=> \/ \E e \in pending' : e.src = i /\ e.id = n
                                        \/ n = calls'[i] /\ AskedNext(i)
    <3>1. CASE i = ev.src
      <4>1. n = calls[i] /\ AskedInVain(i) => n # ev.id BY <3>1 DEF BookInv, IdInv
      <4>2. \A e \in pending : e.src = i /\ e.id = n =>
               (n # ev.id <=> e \in pending')
        BY <1>0, <3>1 DEF BookInv, IdInv
      <4>3. n \in inProgress[i] <=> \/ \E e \in pending : e.src = i /\ e.id = n
                                    \/ n = calls[i] /\ AskedInVain(i)
        BY BookFacts
      <4>4. n \in inProgress'[i] <=> n \in inProgress[i] /\ n # ev.id BY <1>4, <3>1
      <4> QED BY <1>0, <1>2, <4>1, <4>2, <4>3, <4>4
    <3>2. CASE i # ev.src
      BY <1>0, <1>2, <1>4, <3>2, BookFacts
    <3> QED BY <3>1, <3>2
  <2> QED BY <1>1, <2>1, ExactNext
<1> QED BY <1>5, <1>6 DEF BookInv

\* GetEvent of a file: a call that delivers or a last one that does not.
LEMMA BooksFile == ASSUME BaseInv, BookInv, GetFile \/ GetMC PROVE BookInv'
<1>0. /\ pc = "read" /\ cur # 0 /\ Kind # "tridas" /\ NoteCall
      /\ UNCHANGED <<options, opened, undef>> /\ ~undef
      /\ cur \in Sources /\ calls \in [Sources -> Nat]
  BY CurrentSource DEF GetFile, GetMC, BaseInv, PlaceInv, TypeOK
<1>1. ~AskedInVain(cur) BY <1>0 DEF AskedInVain
<1>2. CASE NoMore /\ UNCHANGED <<item, curRun, delivered, pending, trees, ref>>
  <2>1. AskedNext(cur) BY <1>0, <1>2, NoteTypes, SourceTypes DEF AskedNext, NoMore, BaseInv
  <2>2. \A i \in Sources : i # cur => (AskedNext(i) <=> AskedInVain(i))
    BY <1>0, <1>2, NoteTypes, SourceTypes DEF AskedNext, AskedInVain, NoMore, BaseInv
  <2> QED BY <1>0, <1>1, <1>2, <2>1, <2>2, BooksAsk
<1>3. ASSUME NEW run \in {NoRun} \cup Runs, Deliver(item, 0, run), UNCHANGED <<cur, pc>>
      PROVE  BookInv'
  <2>1. item \in Nat /\ 0 \in Nat /\ calls' \in [Sources -> Nat]
    BY <1>0, NoteTypes DEF BaseInv, TypeOK
  <2>2. NewEvent(item, 0, run).src = cur /\ NewEvent(item, 0, run).id = calls'[cur]
    BY <1>0, <2>1, NewEventType
  <2>3. ~AskedNext(cur) BY <1>0, <1>3 DEF AskedNext
  <2>4. \A i \in Sources : i # cur => (AskedNext(i) <=> AskedInVain(i))
    BY <1>0, <1>3, NoteTypes DEF AskedNext, AskedInVain
  <2>5. \A n : n \in inProgress'[cur] <=>
              n = calls'[cur] \/ \E e \in pending : e.src = cur /\ e.id = n
    BY <1>0, <1>1, NoteTypes, BookFacts
  <2>6. pending' = pending \cup {NewEvent(item, 0, run)} BY <1>3 DEF Deliver
  <2> HIDE DEF NoteCall
  <2>7. /\ calls' \in [Sources -> Nat] /\ calls'[cur] = calls[cur] + 1
        /\ \A i \in Sources : i # cur => calls'[i] = calls[i] /\ inProgress'[i] = inProgress[i]
        /\ calls'[cur] # 0 /\ calls'[cur] >= calls[cur] /\ calls'[cur] # calls[cur]
    BY <1>0, NoteTypes
  <2> QED BY <1>0, <2>2, <2>3, <2>4, <2>5, <2>6, <2>7, BooksDeliver
<1>4. item <= Len(Items) => /\ RunAfter(Items[item]) \in {NoRun} \cup Runs
                            /\ Items[item].run \in {NoRun} \cup Runs
  <2>1. item <= Len(Items) => item \in DOMAIN Items
    BY <1>0, CurrentSource DEF BaseInv, TypeOK
  <2>2. item <= Len(Items) => Items[item].run \in {NoRun} \cup Runs
    BY <1>0, <2>1, CurrentSource
  <2> QED BY <2>2 DEF RunAfter, BaseInv, TypeOK
<1> QED BY <1>2, <1>3, <1>4 DEF GetFile, GetMC

\* A call that throws.
LEMMA BooksThrows == ASSUME BaseInv, BookInv, GetThrows PROVE BookInv'
<1>0. /\ pc = "read" /\ cur # 0 /\ NoteCall /\ cur' = 0
      /\ UNCHANGED <<options, opened, pending, undef>> /\ ~undef
      /\ cur \in Sources /\ calls \in [Sources -> Nat]
  BY CurrentSource DEF GetThrows, NoMore, BaseInv, TypeOK
<1>1. ~AskedInVain(cur) BY <1>0 DEF AskedInVain
<1>2. AskedNext(cur) BY <1>0, NoteTypes, SourceTypes DEF AskedNext, BaseInv
<1>3. \A i \in Sources : i # cur => (AskedNext(i) <=> AskedInVain(i))
  BY <1>0, NoteTypes, SourceTypes DEF AskedNext, AskedInVain, BaseInv
<1> QED BY <1>0, <1>1, <1>2, <1>3, BooksAsk

\* GetEvent of a TRIDAS file.
LEMMA BooksTridas == ASSUME BaseInv, BookInv, GetTridas PROVE BookInv'
<1>0. /\ pc = "read" /\ cur # 0 /\ Kind = "tridas" /\ NoteCall
      /\ UNCHANGED <<options, opened>> /\ ~undef
      /\ cur \in Sources /\ calls \in [Sources -> Nat]
  BY CurrentSource DEF GetTridas, BaseInv, TypeOK
<1>1. ~AskedInVain(cur) BY <1>0 DEF AskedInVain
<1>2. CASE UNCHANGED pending /\ (cur' = 0 \/ (cur' = cur /\ undef' = TRUE))
  <2>1. AskedNext(cur) BY <1>0, <1>2, NoteTypes, SourceTypes DEF AskedNext, BaseInv
  <2>2. \A i \in Sources : i # cur => (AskedNext(i) <=> AskedInVain(i))
    BY <1>0, <1>2, NoteTypes, SourceTypes DEF AskedNext, AskedInVain, BaseInv
  <2> QED BY <1>0, <1>1, <1>2, <2>1, <2>2, BooksAsk
<1>3. ASSUME NEW i \in Nat, NEW s \in Nat, NEW run \in {NoRun} \cup Runs,
             Deliver(i, s, run), UNCHANGED <<cur, pc, undef>>
      PROVE  BookInv'
  <2>2. NewEvent(i, s, run).src = cur /\ NewEvent(i, s, run).id = calls'[cur]
    BY <1>0, NoteTypes, NewEventType
  <2>3. ~AskedNext(cur) BY <1>0, <1>3 DEF AskedNext
  <2>4. \A j \in Sources : j # cur => (AskedNext(j) <=> AskedInVain(j))
    BY <1>0, <1>3, NoteTypes DEF AskedNext, AskedInVain
  <2>5. \A n : n \in inProgress'[cur] <=>
              n = calls'[cur] \/ \E e \in pending : e.src = cur /\ e.id = n
    BY <1>0, <1>1, NoteTypes, BookFacts
  <2>6. pending' = pending \cup {NewEvent(i, s, run)} BY <1>3 DEF Deliver
  <2>7. /\ calls' \in [Sources -> Nat] /\ calls'[cur] = calls[cur] + 1
        /\ \A j \in Sources : j # cur => calls'[j] = calls[j] /\ inProgress'[j] = inProgress[j]
        /\ calls'[cur] # 0 /\ calls'[cur] >= calls[cur] /\ calls'[cur] # calls[cur]
    BY <1>0, NoteTypes
  <2> QED BY <1>0, <2>2, <2>3, <2>4, <2>5, <2>6, <2>7, BooksDeliver
<1>4. \/ UNCHANGED pending /\ (cur' = 0 \/ (cur' = cur /\ undef' = TRUE))
      \/ \E i \in Nat, s \in Nat, run \in {NoRun} \cup Runs :
            Deliver(i, s, run) /\ UNCHANGED <<cur, pc, undef>>
  <2> DEFINE i == IF sub = Items[item].n THEN item + 1 ELSE item
             s == IF sub = Items[item].n THEN 1 ELSE sub + 1
  <2>1. i \in Nat \ {0} /\ s \in Nat BY DEF BaseInv, TypeOK
  <2>2. i <= Len(Items) => Items[i].run \in {NoRun} \cup Runs BY <1>0, <2>1, CurrentSource
  <2>3. \/ i <= Len(Items) /\ Deliver(i, s, Items[i].run) /\ UNCHANGED <<cur, pc, undef>>
        \/ UNCHANGED pending /\ (cur' = 0 \/ (cur' = cur /\ undef' = TRUE))
    BY DEF GetTridas, NoMore
  <2> HIDE DEF i, s
  <2> QED BY <2>1, <2>2, <2>3
<1> QED BY <1>2, <1>3, <1>4

\* GetEvent of an ET source: its one call stays open until the event is parsed.
LEMMA BooksEt ==
    ASSUME BaseInv, BookInv, CallInv, EtBegin \/ EtWait \/ EtGet \/ EtCheck \/ EtParse
    PROVE  BookInv'
<1>0. /\ UNCHANGED <<options, opened, undef>> /\ cur # 0 /\ Kind = "ET" /\ ~undef
      /\ opened \in Nat /\ cur \in Sources /\ 0 \notin Sources
  BY CurrentSource, SourceTypes
  DEF EtBegin, EtWait, EtGet, EtCheck, EtParse, BaseInv, PlaceInv, TypeOK, place
<1>1. CASE EtBegin
  <2>1. pc = "read" /\ pc' = "et" /\ NoteCall /\ UNCHANGED <<cur, pending>>
    BY <1>1 DEF EtBegin, place, memory
  <2>2. ~AskedInVain(cur) BY <1>0, <2>1 DEF AskedInVain
  <2>3. AskedNext(cur)
    <3>1. calls[cur] \in Nat BY <1>0 DEF BaseInv, TypeOK
    <3> QED BY <1>0, <2>1, <3>1, NoteTypes DEF AskedNext
  <2>4. \A i \in Sources : i # cur => (AskedNext(i) <=> AskedInVain(i))
    BY <1>0, <2>1, NoteTypes DEF AskedNext, AskedInVain
  <2> QED BY <1>0, <2>1, <2>2, <2>3, <2>4, BooksAsk
<1>2. ASSUME pc \in {"et", "wait", "check", "parse"}, UNCHANGED <<calls, inProgress, pending>>,
             cur' = 0 \/ (cur' = cur /\ pc' \in {"et", "wait", "check", "parse"})
      PROVE  BookInv'
  <2>1. \A i \in Sources : AskedNext(i) <=> AskedInVain(i)
    BY <1>0, <1>2 DEF AskedNext, AskedInVain
  <2> QED BY <1>0, <1>2, <2>1, BooksSame
<1>3. CASE EtWait \/ EtGet \/ EtCheck
  BY <1>2, <1>3 DEF EtWait, EtGet, EtCheck, NoMore, books, memory
<1>4. CASE EtParse
  <2>0. pc = "parse" /\ UNCHANGED <<calls, inProgress>> BY <1>4 DEF EtParse, books
  <2>1. CASE cur' = 0 /\ pending' = pending BY <1>2, <2>0, <2>1
  <2>2. CASE pc' = "read" /\ cur' = cur /\ Deliver(ref.item, 0, RunAfter(Items[ref.item]))
    <3> DEFINE i == ref.item
               ev == NewEvent(i, 0, RunAfter(Items[i]))
    <3>1. item - 1 \in DOMAIN Items /\ i = item - 1 BY <2>0 DEF BaseInv, PlaceInv
    <3>2. i \in Nat /\ calls \in [Sources -> Nat]
      BY <1>0, <3>1, CurrentSource DEF BaseInv, TypeOK
    <3>3. RunAfter(Items[i]) \in {NoRun} \cup Runs
      <4>1. Items[i].run \in {NoRun} \cup Runs BY <1>0, <3>1, CurrentSource
      <4> QED BY <4>1 DEF RunAfter, BaseInv, TypeOK
    <3>4. ev.src = cur /\ ev.id = calls'[cur] BY <1>0, <2>0, <3>2, <3>3, NewEventType
    <3>5. pending' = pending \cup {ev} BY <2>2 DEF Deliver
    <3> HIDE DEF ev
    <3>6. ~AskedNext(cur) BY <1>0, <2>2 DEF AskedNext
    <3>7. \A j \in Sources : j # cur => (AskedNext(j) <=> AskedInVain(j))
      BY <1>0, <2>0, <2>2 DEF AskedNext, AskedInVain
    <3>8. calls[cur] # 0 /\ AskedInVain(cur)
      <4>1. calls[cur] # 0
        BY <2>0 DEF CallInv
      <4> QED BY <2>0, <4>1 DEF AskedInVain
    <3>9. \A n : n \in inProgress'[cur] <=>
              n = calls'[cur] \/ \E e \in pending : e.src = cur /\ e.id = n
      BY <1>0, <2>0, <3>8, BookFacts
    <3>10. calls[cur] >= calls[cur] BY <1>0, <3>2
    <3> QED BY <1>0, <2>0, <3>2, <3>4, <3>5, <3>6, <3>7, <3>8, <3>9, <3>10, BooksDeliver
  <2> QED BY <1>4, <2>1, <2>2 DEF EtParse, NoMore
<1> QED BY <1>1, <1>3, <1>4

\* A source that is opened has not been asked yet.
LEMMA BooksOpen == ASSUME BaseInv, BookInv, OpenNext PROVE BookInv'
<1>0. /\ pc = "read" /\ cur = 0 /\ UNCHANGED <<options, calls, inProgress, pending>>
      /\ opened \in Nat /\ 0 \notin Sources
  BY BookFacts DEF OpenNext, books, memory
<1>1. CASE UNCHANGED place
  <2>1. \A i \in Sources : AskedNext(i) <=> AskedInVain(i)
    BY <1>0, <1>1 DEF AskedNext, AskedInVain, place
  <2> QED BY <1>0, <1>1, <2>1, BooksSame DEF place
<1>2. CASE opened' = opened + 1 /\ cur' \in {0, opened + 1}
  <2>1. opened + 1 \in Sources => calls[opened + 1] = 0
    BY <1>0, <1>2 DEF BookInv, IdInv
  <2>2. \A i \in Sources : AskedNext(i) <=> AskedInVain(i)
    BY <1>0, <1>2, <2>1 DEF AskedNext, AskedInVain
  <2> QED BY <1>0, <1>2, <2>2, BooksSame
<1> QED BY <1>1, <1>2 DEF OpenNext

\* Every step keeps the books.
LEMMA BooksStep == ASSUME BaseInv, BookInv, CallInv, [Next]_vars PROVE BookInv'
<1>1. CASE StopReading \/ Quit \/ UNCHANGED vars
  <2>1. /\ UNCHANGED <<options, opened, cur, calls, inProgress, pending, undef>>
        /\ pc' = pc \/ (pc = "read" /\ pc' = "end")
    BY <1>1 DEF StopReading, Quit, vars, place, books, memory
  <2>2. \A i \in Sources : AskedNext(i) <=> AskedInVain(i)
    BY <2>1 DEF AskedNext, AskedInVain
  <2>3. opened \in Nat BY BookFacts
  <2> QED BY <2>1, <2>2, <2>3, BooksSame
<1> QED BY <1>1, BooksThrows, BooksFile, BooksTridas, BooksEt, BooksOpen, BooksFree DEF Next, Reader

\* Every step keeps the call of the ET source noted.
LEMMA CallStep == ASSUME BaseInv, CallInv, [Next]_vars PROVE CallInv'
<1>1. CASE EtBegin
  <2>1. /\ pc = "read" /\ cur # 0 /\ NoteCall /\ UNCHANGED cur
    BY <1>1 DEF EtBegin, place
  <2>2. calls'[cur] = calls[cur] + 1 /\ calls[cur] \in Nat
    BY <2>1, NoteTypes, CurrentSource DEF BaseInv, TypeOK
  <2> QED BY <2>1, <2>2 DEF CallInv
<1>2. CASE EtWait \/ EtGet \/ EtCheck \/ EtParse
  <2>1. /\ pc \in {"et", "wait", "check", "parse"} /\ UNCHANGED calls
        /\ cur' = cur \/ pc' = "read"
    BY <1>2 DEF EtWait, EtGet, EtCheck, EtParse, NoMore, books
  <2> QED BY <2>1 DEF CallInv
<1>3. CASE OpenNext \/ GetThrows \/ GetFile \/ GetMC \/ GetTridas
  <2>1. pc' \in {"read", "end", "crashed"}
    BY <1>3 DEF OpenNext, GetThrows, GetFile, GetMC, GetTridas, NoMore
  <2> QED BY <2>1 DEF CallInv
<1>4. CASE StopReading \/ Quit \/ UNCHANGED vars \/ \E e \in pending : FreeEvent(e)
  <2>1. UNCHANGED <<cur, calls>> /\ (pc' = pc \/ pc' = "end")
    BY <1>4 DEF StopReading, Quit, FreeEvent, vars, place, books
  <2> QED BY <2>1 DEF CallInv
<1> QED BY <1>1, <1>2, <1>3, <1>4 DEF Next, Reader

-----------------------------------------------------------------------------
(***************************************************************************)
(* The trees, and the events of the ET system.                             *)
(***************************************************************************)

\* The trees of the events that end a run in an ET system, or whose reading
\* throws in a simulated file.
RunEnds ==
    {t \in UNION {Holds(i) : i \in Sources} :
        <<KindOf(t.src), srcs[t.src].items[t.item].what>>
           \in {<<"ET", "end">>, <<"mc", "corrupt">>}}

\* TreesAccounted, tree by tree.
TreesInv ==
    \A t \in trees :
        t # None /\ (t = ref \/ (\E e \in pending : t = Tree(e)) \/ t \in RunEnds)

\* The command line stays, and so does what it says of the ends of runs.
LEMMA RunEndsSame == ASSUME UNCHANGED options PROVE RunEnds' = RunEnds
BY OptionsSame DEF RunEnds

\* The reader delivers an event, and what it refers to is the event's tree.
LEMMA TreesDeliver ==
    ASSUME BaseInv, TreesInv, cur # 0, calls' \in [Sources -> Nat], UNCHANGED options,
           NEW i \in Nat, NEW s \in Nat, NEW run \in {NoRun} \cup Runs,
           ref \in {None, [src |-> cur, item |-> i, sub |-> s]}, Deliver(i, s, run)
    PROVE  TreesInv'
<1> DEFINE new == NewEvent(i, s, run)
           tr  == [src |-> cur, item |-> i, sub |-> s]
<1>1. Tree(new) = tr BY NewEventType
<1>2. tr # None BY RefNotNone
<1>3. ref \in {None, tr} /\ trees' = trees \cup {tr} /\ pending' = pending \cup {new}
  BY DEF Deliver
<1>4. RunEnds' = RunEnds BY RunEndsSame
<1> HIDE DEF new, tr
<1>5. ASSUME NEW t \in trees'
      PROVE  t # None /\ ((\E e \in pending' : t = Tree(e)) \/ t \in RunEnds)
  <2>1. CASE t = tr BY <1>1, <1>2, <1>3, <2>1
  <2>2. CASE t \in trees /\ t # tr BY <1>3, <2>2 DEF TreesInv
  <2> QED BY <1>3, <2>1, <2>2
<1> QED BY <1>4, <1>5 DEF TreesInv, Tree

\* Every step keeps account of the trees.
LEMMA TreesStep == ASSUME BaseInv, TreesInv, [Next]_vars PROVE TreesInv'
<1>0. UNCHANGED options /\ RunEnds' = RunEnds BY OptionsKept, RunEndsSame
<1>1. CASE UNCHANGED <<ref, trees, pending>>
  BY <1>0, <1>1 DEF TreesInv, Tree
<1>2. CASE GetFile \/ GetMC \/ GetTridas
  <2>0. pc = "read" /\ cur # 0 /\ NoteCall BY <1>2 DEF GetFile, GetMC, GetTridas
  <2>1. ref = None /\ calls' \in [Sources -> Nat] BY <2>0, NoteTypes DEF BaseInv, TypeOK
  <2>2. \/ UNCHANGED <<ref, trees, pending>>
        \/ \E i \in Nat, s \in Nat, run \in {NoRun} \cup Runs : Deliver(i, s, run)
    <3>1. \/ UNCHANGED <<ref, trees, pending>>
          \/ cur' = cur /\ \E i, s, run : delivered' = Append(delivered, NewEvent(i, s, run))
      BY <1>2 DEF GetFile, GetMC, GetTridas, Deliver
    <3>2. \A x : Append(delivered, x) # delivered
      <4>1. delivered \in Seq(EventSet) BY DEF BaseInv, MoreTypes
      <4> TAKE x
      <4>2. Len(Append(delivered, x)) = Len(delivered) + 1 /\ Len(delivered) \in Nat BY <4>1
      <4> QED BY <4>2
    <3>3. Leave \/ Quiet \/ \E i, s, run : Delivery(i, s, run)
      BY <1>2, FileKinds, TridasKinds
    <3>4. Leave => cur' # cur BY <2>0 DEF Leave
    <3>5. Quiet => delivered' = delivered BY DEF Quiet
    <3>6. (\E i, s, run : Delivery(i, s, run)) =>
             \E i \in Nat, s \in Nat, run \in {NoRun} \cup Runs : Deliver(i, s, run)
      BY DEF Delivery
    <3> QED BY <3>1, <3>2, <3>3, <3>4, <3>5, <3>6
  <2> QED BY <1>0, <1>1, <2>0, <2>1, <2>2, TreesDeliver
<1>20. CASE GetThrows
  <2>0. /\ cur # 0 /\ Kind # "ET" /\ Throws /\ UNCHANGED <<ref, pending>>
        /\ \/ UNCHANGED trees
           \/ Kind = "mc" /\ trees' = trees \cup {[src |-> cur, item |-> item, sub |-> 0]}
    BY <1>20 DEF GetThrows
  <2>1. CASE UNCHANGED trees BY <1>1, <2>0, <2>1
  <2>2. CASE Kind = "mc" /\ trees' = trees \cup {[src |-> cur, item |-> item, sub |-> 0]}
    <3> DEFINE tr == [src |-> cur, item |-> item, sub |-> 0]
    <3>1. /\ cur \in Sources /\ Items = srcs[cur].items /\ KindOf(cur) = "mc"
          /\ item \in Nat \ {0} /\ DOMAIN Items = 1..Len(Items) /\ Len(Items) \in Nat
      BY <2>0, <2>2, CurrentSource DEF BaseInv, TypeOK
    <3>2. item \in DOMAIN Items /\ Items[item].what = "corrupt"
      BY <2>0, <2>2, <3>1 DEF Throws, NextItem
    <3>3. tr \in Holds(cur) BY <3>1, <3>2, HoldsElements DEF BaseInv
    <3>4. tr.src = cur /\ tr.item = item /\ tr # None BY RefNotNone
    <3> HIDE DEF tr
    <3>5. tr \in RunEnds BY <3>1, <3>2, <3>3, <3>4 DEF RunEnds
    <3>6. trees' = trees \cup {tr} BY <2>2 DEF tr
    <3> QED BY <1>0, <2>0, <3>4, <3>5, <3>6 DEF TreesInv, Tree
  <2> QED BY <2>0, <2>1, <2>2
<1>3. CASE EtCheck
  <2>0. pc = "check" /\ cur # 0 /\ ref = None
    BY <1>3 DEF EtCheck, BaseInv, PlaceInv, TypeOK
  <2>1. \/ UNCHANGED <<ref, trees, pending>>
        \/ /\ ref' = [src |-> cur, item |-> pe, sub |-> 0]
           /\ trees' = trees \cup {ref'} /\ UNCHANGED pending
    BY <1>3 DEF EtCheck
  <2>2. [src |-> cur, item |-> pe, sub |-> 0] # None BY RefNotNone
  <2> QED BY <1>0, <1>1, <2>0, <2>1, <2>2 DEF TreesInv, Tree
<1>4. CASE EtParse
  <2>0. /\ pc = "parse" /\ cur # 0 /\ Kind = "ET" /\ UNCHANGED calls
        /\ ref = [src |-> cur, item |-> item - 1, sub |-> 0]
        /\ item - 1 \in DOMAIN Items
    BY <1>4 DEF EtParse, BaseInv, PlaceInv, books
  <2>1. ref.item = item - 1 /\ ref.src = cur BY <2>0
  <2>2. item - 1 \in Nat /\ calls \in [Sources -> Nat] /\ cur \in Sources
    BY <2>0, CurrentSource DEF BaseInv, TypeOK
  <2>3. CASE /\ Items[ref.item].what = "end" /\ ref' = None
             /\ UNCHANGED <<pending, trees>>
    <3>1. ref \in Holds(cur) BY <2>0, <2>2, CurrentSource, HoldsElements DEF BaseInv
    <3>2. ref \in RunEnds
      BY <2>0, <2>1, <2>2, <2>3, <3>1, CurrentSource DEF RunEnds
    <3> QED BY <1>0, <2>3, <3>2 DEF TreesInv, Tree
  <2>4. CASE Deliver(ref.item, 0, RunAfter(Items[ref.item]))
    <3>1. RunAfter(Items[ref.item]) \in {NoRun} \cup Runs
      <4>1. Items[ref.item].run \in {NoRun} \cup Runs BY <2>0, <2>1, CurrentSource
      <4> QED BY <4>1 DEF RunAfter, BaseInv, TypeOK
    <3> QED BY <1>0, <2>0, <2>1, <2>2, <2>4, <3>1, TreesDeliver
  <2> QED BY <1>4, <2>3, <2>4 DEF EtParse
<1>5. ASSUME NEW ev \in pending, FreeEvent(ev) PROVE TreesInv'
  <2>1. /\ pending' = pending \ {ev} /\ trees' = trees \ {Tree(ev)} /\ UNCHANGED ref
    BY <1>5 DEF FreeEvent, Tree
  <2>2. ASSUME NEW t \in trees'
        PROVE  t # None /\ (t = ref \/ (\E e \in pending' : t = Tree(e)) \/ t \in RunEnds)
    BY <2>1 DEF TreesInv
  <2> QED BY <1>0, <2>1, <2>2 DEF TreesInv, Tree
<1>6. CASE OpenNext \/ EtBegin \/ EtWait \/ EtGet \/ StopReading \/ Quit \/ UNCHANGED vars
  BY <1>1, <1>6 DEF OpenNext, EtBegin, EtWait, EtGet, StopReading, Quit, vars, memory
<1> QED BY <1>2, <1>20, <1>3, <1>4, <1>5, <1>6 DEF Next, Reader

\* A bad ET event is kept, and the source left.
LEMMA KeptStep == ASSUME BaseInv, KeptInv, [Next]_vars PROVE KeptInv'
<1>0. /\ Sources' = Sources /\ Sources = 1..Len(srcs) /\ Len(srcs) \in Nat
      /\ opened \in Nat /\ cur \in 0..opened /\ DOMAIN kept = Sources
  BY OptionsKept, OptionsSame, SourceTypes DEF BaseInv, TypeOK, MoreTypes
<1>1. CASE UNCHANGED <<kept, opened>> /\ cur' \in {0, cur}
  BY <1>0, <1>1 DEF KeptInv
<1>2. CASE UNCHANGED kept /\ opened' = opened + 1 /\ cur' \in {0, opened + 1}
  <2>1. \A i \in Sources : kept[i] # {} => i # cur' /\ i <= opened'
    BY <1>0, <1>2 DEF KeptInv
  <2> QED BY <1>0, <1>2, <2>1 DEF KeptInv
<1>3. CASE EtCheck
  <2>0. pc = "check" /\ cur # 0 /\ UNCHANGED opened
    BY <1>3 DEF EtCheck, BaseInv, PlaceInv
  <2>1. cur \in Sources /\ cur = opened BY <2>0, CurrentSource
  <2>2. CASE cur' = 0 /\ kept' = [kept EXCEPT ![cur] = @ \cup {pe}]
    <3>1. kept[cur] = {} BY <2>1 DEF KeptInv
    <3>2. kept'[cur] = {pe} /\ \A i \in Sources : i # cur => kept'[i] = kept[i]
      BY <1>0, <2>1, <2>2, <3>1
    <3>3. \A i \in Sources : kept'[i] # {} => i # cur' /\ i <= opened'
      BY <1>0, <2>0, <2>1, <2>2, <3>2 DEF KeptInv
    <3>4. \A i \in Sources : kept'[i] = {} \/ \E x : kept'[i] = {x}
      BY <3>2 DEF KeptInv
    <3> QED BY <1>0, <3>3, <3>4 DEF KeptInv
  <2>3. CASE UNCHANGED kept /\ cur' \in {0, cur} BY <1>1, <2>0, <2>3
  <2> QED BY <1>3, <2>2, <2>3 DEF EtCheck, NoMore
<1>4. CASE OpenNext
  BY <1>0, <1>1, <1>2, <1>4 DEF OpenNext, place, memory
<1>5. CASE \/ GetThrows \/ GetFile \/ GetMC \/ GetTridas \/ EtBegin \/ EtWait \/ EtGet
           \/ EtParse \/ StopReading \/ Quit \/ UNCHANGED vars \/ \E e \in pending : FreeEvent(e)
  BY <1>1, <1>5 DEF GetThrows, GetFile, GetMC, GetTridas, EtBegin, EtWait, EtGet, EtParse,
     StopReading, Quit, FreeEvent, vars, place, memory, NoMore
<1> QED BY <1>3, <1>4, <1>5 DEF Next, Reader

-----------------------------------------------------------------------------
(***************************************************************************)
(* The theorems.                                                           *)
(***************************************************************************)

\* The inductive invariant.
SrcInv == BaseInv /\ SeenInv /\ ReadInv /\ RunsInv /\ BookInv /\ CallInv /\ TreesInv /\ KeptInv

\* Order and completeness after a step.
LEMMA ReadStep == ASSUME BaseInv, SeenInv, ReadInv, [Next]_vars PROVE ReadInv'
BY BaseStep, StepKinds, ReadQuiet, ReadOpens, ReadLeave, ReadDelivery

\* The invariant holds at first.
LEMMA SrcInit == ASSUME Init PROVE SrcInv
<1>0. /\ srcs \in SourceLists /\ isMC \in BOOLEAN /\ overwrite \in {NoRun} \cup Runs
      /\ opened = 0 /\ cur = 0 /\ item = 1 /\ sub = 0 /\ curRun = NoRun
      /\ calls = [i \in Sources |-> 0] /\ inProgress = [i \in Sources |-> {}]
      /\ pc = "read" /\ pe = NoET /\ ref = None /\ trees = {}
      /\ kept = [i \in Sources |-> {}]
      /\ pending = {} /\ delivered = <<>>
      /\ quitting = FALSE /\ undef = FALSE
  BY DEF Init, Sources
<1>1. MoreTypes BY <1>0 DEF MoreTypes
<1>2. Len(srcs) \in Nat BY <1>1, SourceTypes
<1>3. TypeOK
  <2>1. calls \in [Sources -> Nat] /\ \A i \in Sources : inProgress[i] \subseteq 1..calls[i]
    BY <1>0
  <2>2. opened \in 0..Len(srcs) /\ cur \in 0..opened BY <1>0, <1>2
  <2>3. /\ item \in Nat \ {0} /\ sub \in Nat /\ curRun \in {NoRun} \cup Runs
        /\ (pe # NoET <=> pc = "check") /\ (ref # None <=> pc = "parse")
    BY <1>0
  <2> QED BY <1>0, <2>1, <2>2, <2>3, Zenon DEF TypeOK
<1>4. PlaceInv BY <1>0 DEF PlaceInv
<1>5. DOMAIN delivered = {} BY <1>0
<1>6. ReadInv
  BY <1>0, <1>5 DEF ReadInv, PassedInv, DeliveredInOrder, NoneLeftOut, SourcesReadOut,
     EachReadOut, AllSourcesOpened
<1>7. RunsInv BY <1>0, <1>5 DEF RunsInv, CurRunInv, RunInv
<1>8. \A i \in Sources : ~AskedInVain(i) BY <1>0 DEF AskedInVain
<1>9. BookInv BY <1>0, <1>8 DEF BookInv, IdInv, InProgressExact
<1>10. CallInv /\ TreesInv /\ KeptInv BY <1>0 DEF CallInv, TreesInv, KeptInv
<1>11. SeenInv BY <1>0, <1>5 DEF SeenInv
<1> QED BY <1>1, <1>3, <1>4, <1>6, <1>7, <1>9, <1>10, <1>11 DEF SrcInv, BaseInv

\* The invariant holds always.
LEMMA SrcAlways == Spec => []SrcInv
<1>1. SrcInv /\ [Next]_vars => SrcInv'
  BY BaseStep, SeenStep, ReadStep, RunsStep, BooksStep, CallStep, TreesStep, KeptStep DEF SrcInv
<1> QED BY <1>1, SrcInit, PTL DEF Spec

\* Events come in the order of the command line, and of each source in its
\* own, whatever the sources hold, wherever calls fail, time out or are given
\* up: none is delivered twice, none before another that precedes it.
THEOREM SourceEventsInOrder == Spec => []DeliveredInOrder
BY SrcAlways, PTL DEF SrcInv, ReadInv

\* A file that the reader leaves was read to its last event or time slice, or up
\* to the first one whose reading throws; the source after it is opened all the
\* same, and the reader ends only after the last one, unless it quits.
THEOREM SourcesAreReadOut == Spec => []SourcesReadOut
BY SrcAlways, PTL DEF SrcInv, ReadInv

\* The run of every delivered event is that of the last item before it in its
\* own source that names one.
THEOREM RunsAreThoseOfTheSource == Spec => []RunOfItsSource
<1>1. ASSUME RunInv PROVE RunOfItsSource
  <2> SUFFICES ASSUME NEW k \in DOMAIN delivered
               PROVE  LET e     == delivered[k]
                          items == srcs[e.src].items
                          named == {j \in 1..e.item : items[j].what \in {"physics", "prestart"}}
                          last  == CHOOSE j \in named : \A m \in named : m <= j
                      IN /\ overwrite # NoRun /\ KindOf(e.src) # "tridas" => e.run = overwrite
                         /\ KindOf(e.src) = "tridas" => e.run = items[e.item].run
                         /\ overwrite = NoRun /\ KindOf(e.src) \in {"file", "ET"} =>
                               e.run = IF named = {} THEN NoRun ELSE items[last].run
    BY DEF RunOfItsSource
  <2> DEFINE e     == delivered[k]
             items == srcs[e.src].items
             named == Named(items, e.item)
             last  == CHOOSE j \in named : \A m \in named : m <= j
  <2>1. /\ overwrite # NoRun /\ KindOf(e.src) # "tridas" => e.run = overwrite
        /\ KindOf(e.src) = "tridas" => e.run = items[e.item].run
        /\ overwrite = NoRun /\ KindOf(e.src) \in {"file", "ET"} =>
              RunSays(items, e.item, e.run)
    BY <1>1 DEF RunInv
  <2>2. ASSUME RunSays(items, e.item, e.run)
        PROVE  e.run = IF named = {} THEN NoRun ELSE items[last].run
    <3>1. CASE named = {} BY <2>2, <3>1 DEF RunSays
    <3>2. CASE named # {}
      <4>1. PICK j \in named : (\A m \in named : m <= j) /\ e.run = items[j].run
        BY <2>2, <3>2 DEF RunSays
      <4>2. last \in named /\ \A m \in named : m <= last BY <4>1
      <4>3. \A m \in named : m \in Int BY DEF Named
      <4>4. last = j BY <4>1, <4>2, <4>3
      <4> QED BY <3>2, <4>1, <4>4
    <3> QED BY <3>1, <3>2
  <2> QED BY <2>1, <2>2 DEF Named
<1> QED BY <1>1, SrcAlways, PTL DEF SrcInv, RunsInv

\* The books balance at every moment: the ids in progress are those of the
\* events in use and of the calls that brought none, every tree has an owner
\* but for one that ends a run in an ET system or cannot be read in a simulated
\* file, and a source keeps at most
\* one ET event and is not asked again then.
THEOREM BooksAreBalanced == Spec => []BooksBalance
<1>1. ASSUME SrcInv PROVE BooksBalance
  <2>1. TypeOK /\ InProgressExact BY <1>1 DEF SrcInv, BaseInv, BookInv
  <2>2. TreesAccounted
    BY <1>1 DEF SrcInv, TreesInv, TreesAccounted, RunEnds
  <2>3. EtEventsGivenBack
    <3> SUFFICES ASSUME NEW i \in Sources
                 PROVE  Cardinality(kept[i]) <= 1 /\ (kept[i] # {} => cur # i)
      BY DEF EtEventsGivenBack
    <3>1. /\ kept[i] = {} \/ \E x : kept[i] = {x}
          /\ kept[i] # {} => i # cur
      BY <1>1 DEF SrcInv, KeptInv
    <3>2. Cardinality({}) = 0 BY FS_EmptySet
    <3>3. \A x : Cardinality({x}) = 1 BY FS_Singleton
    <3>4. Cardinality(kept[i]) \in {0, 1} BY <3>1, <3>2, <3>3
    <3> QED BY <3>1, <3>4
  <2> QED BY <2>1, <2>2, <2>3 DEF BooksBalance
<1> QED BY <1>1, SrcAlways, PTL
=============================================================================
