---------------------------- MODULE EventSource ----------------------------
(***************************************************************************)
(* The event sources of bdxReco, as JApplication::ReadEvent drives them:   *)
(* EVIO files and ET systems (JEventSourceEvioDAQ), TRIDAS files           *)
(* (JEventSourceTRIDASDAQ) and simulated EVIO files (JEventSourceEvioMC).  *)
(* One reader opens the sources in the order of the command line and gets  *)
(* events; the processing threads free them, in any order and much later.  *)
(*                                                                         *)
(* A source is a record: name, the set of patterns its name contains;      *)
(* opens, whether the file can be opened or the ET system connected;       *)
(* items, what it holds.  An item of an EVIO source is an event, of which  *)
(* what is                                                                 *)
(*   "physics"   an event with a header bank, which names the run          *)
(*   "epics"     an EPICS event, without a header bank                     *)
(*   "prestart"  a prestart event, which names the run                     *)
(*   "end"       the end of a run                                          *)
(*   "bad"       (ET) no data, a wrong magic word or an event too large    *)
(*   "corrupt"   the libraries throw an exception when it is read          *)
(* an item of a TRIDAS source is a time slice of n events, or corrupt.     *)
(* What counts is what is in GetEvent's buffer: when a wrong word count    *)
(* makes GetEvent stop copying an ET event whose bytes it swaps, it goes   *)
(* on with whatever the buffer holds, so that such an item can be of any   *)
(* of these kinds.                                                         *)
(***************************************************************************)
EXTENDS Naturals, Sequences, FiniteSets

CONSTANTS SourceLists,   \* the possible command lines: sequences of sources
          Runs           \* run numbers

NoRun == 0
None  == [none |-> TRUE]
NoET  == 0

\* What a source can hold, and what a source is.
ItemSet == [what : {"physics", "epics", "prestart", "end", "bad", "corrupt", "slice"},
            run : {NoRun} \cup Runs, n : Nat]
SourceSet == [name : SUBSET {"evio", "EVIO", "ET:", "pt"}, opens : BOOLEAN,
              items : Seq(ItemSet)]

ASSUME SourceAssumption ==
    Runs \subseteq Nat \ {NoRun} /\ SourceLists \subseteq Seq(SourceSet)

VARIABLES
    srcs, isMC, overwrite,  \* command line, options MC and DAQ: or MC:RUN_NUMBER
    opened,      \* sources opened, or found to be without a generator
    cur,         \* current_source, 0 for NULL
    item, sub,   \* the current source's place: item, events used of a time slice
    curRun,      \* curRunNumber of the current source
    calls,       \* Ncalls_to_GetEvent of each source
    inProgress,  \* in_progess_events of each source
    pc,          \* place of the reader
    pe,          \* item of the ET event the reader holds
    ref,         \* what the reader's JEvent refers to
    trees,       \* DOM trees and TRIDAS events allocated
    kept,        \* ET events that were not given back, by source
    pending,     \* events delivered and not freed
    delivered,   \* history: what was delivered
    quitting,    \* JApplication::quitting
    undef        \* an iterator at its end was dereferenced

options == <<srcs, isMC, overwrite>>
place   == <<opened, cur, item, sub, curRun>>
books   == <<calls, inProgress>>
memory  == <<pe, ref, trees, kept, pending>>
vars    == <<options, place, books, memory, pc, delivered, quitting, undef>>

-----------------------------------------------------------------------------
(***************************************************************************)
(* Opening a source.                                                       *)
(***************************************************************************)

\* CheckOpenable of the two generators.
EvioOpenable(name)   == name \cap {"evio", "EVIO", "ET:"} # {}
TridasOpenable(name) == "pt" \in name

\* OpenNext takes the first generator of the greatest likelihood; bdxReco
\* registers the EVIO generator first.
Generator(name) ==
    IF EvioOpenable(name) THEN "EVIO"
    ELSE IF TridasOpenable(name) THEN "TRIDAS" ELSE "none"

\* ConnectToET leaves et_connected false when any of its steps fails.
ConnectToET(s) == s.opens

\* The constructor of JEventSourceEvioDAQ: a file, else an ET system.
MakeEvioDAQ(s) ==
    IF "ET:" \notin s.name THEN (IF s.opens THEN "file" ELSE "throws")
    ELSE IF ConnectToET(s) THEN "ET" ELSE "throws"

\* The constructor of JEventSourceTRIDASDAQ reads the first time slice.
MakeTridas(s) ==
    IF s.opens /\ (s.items = <<>> \/ s.items[1].what # "corrupt")
    THEN "tridas" ELSE "throws"

\* Both MakeJEventSource: the kind of source made, "null" or an exception.
MakeJEventSource(s) ==
    CASE Generator(s.name) = "none"   -> "null"
      [] Generator(s.name) = "EVIO"   ->
           IF ~isMC THEN MakeEvioDAQ(s) ELSE IF s.opens THEN "mc" ELSE "throws"
      [] Generator(s.name) = "TRIDAS" ->
           IF ~isMC THEN MakeTridas(s) ELSE "throws"

Kind  == MakeJEventSource(srcs[cur])
Items == srcs[cur].items

Init ==
    /\ srcs \in SourceLists /\ isMC \in BOOLEAN /\ overwrite \in {NoRun} \cup Runs
    /\ opened = 0 /\ cur = 0 /\ item = 1 /\ sub = 0 /\ curRun = NoRun
    /\ calls = [i \in DOMAIN srcs |-> 0] /\ inProgress = [i \in DOMAIN srcs |-> {}]
    /\ pc = "read" /\ pe = NoET /\ ref = None /\ trees = {}
    /\ kept = [i \in DOMAIN srcs |-> {}]
    /\ pending = {} /\ delivered = <<>>
    /\ quitting = FALSE /\ undef = FALSE

\* OpenNext.  A constructor that throws ends the program: nobody catches it in
\* the reader's thread.  A name without a generator counts as a NULL source,
\* and the program quits when there was no other.
OpenNext ==
    /\ pc = "read" /\ cur = 0
    /\ \/ /\ opened = Len(srcs) /\ pc' = "end"
          /\ UNCHANGED <<place, quitting, undef>>
       \/ /\ opened < Len(srcs)
          /\ LET n    == opened + 1
                 kind == MakeJEventSource(srcs[n])
                 none == \A i \in 1..n : MakeJEventSource(srcs[i]) = "null"
             IN /\ opened' = n
                /\ cur' = IF kind \in {"null", "throws"} THEN 0 ELSE n
                /\ quitting' = (quitting \/ (n = Len(srcs) /\ none))
                /\ pc' = IF kind = "throws" THEN "crashed"
                         ELSE IF n = Len(srcs) /\ none THEN "end" ELSE "read"
                /\ undef' = (undef \/ (kind = "tridas" /\ srcs[n].items = <<>>))
          /\ item' = 1 /\ sub' = 0 /\ curRun' = NoRun
    /\ UNCHANGED <<options, books, memory, delivered>>

-----------------------------------------------------------------------------
(***************************************************************************)
(* Getting an event.                                                       *)
(***************************************************************************)

\* JEventSource::GetEvent notes the call before the source is asked.
NoteCall ==
    /\ calls' = [calls EXCEPT ![cur] = @ + 1]
    /\ inProgress' = [inProgress EXCEPT ![cur] = @ \cup {calls[cur] + 1}]

\* The JEvent made of event s of item i.  The option for the run number is for
\* the EVIO sources only.
NewEvent(i, s, run) ==
    [src |-> cur, id |-> calls'[cur], item |-> i, sub |-> s,
     run |-> IF overwrite = NoRun \/ Kind = "tridas" THEN run ELSE overwrite,
     sequential |-> Items[i].what = "epics" /\ ~isMC]

\* The reader's event is delivered, its tree, if any, with it.
Deliver(i, s, run) ==
    /\ delivered' = Append(delivered, NewEvent(i, s, run))
    /\ pending' = pending \cup {NewEvent(i, s, run)}
    /\ trees' = trees \cup {[src |-> cur, item |-> i, sub |-> s]}
    /\ ref' = None /\ curRun' = run

\* NO_MORE_EVENTS_IN_SOURCE: ReadEvent goes on with the next source.
NoMore == cur' = 0 /\ pc' = "read"

\* The item the next call of a file looks at, and whether reading it throws.
NextItem == IF Kind = "tridas" /\ sub = Items[item].n THEN item + 1 ELSE item
Throws   == NextItem <= Len(Items) /\ Items[NextItem].what = "corrupt"

\* As GetThrows, for the end of all sources.
GetThrows_EndsAll ==
    /\ pc = "read" /\ cur # 0 /\ Kind # "ET" /\ ~undef /\ NoteCall /\ Throws
    /\ cur' = 0 /\ pc' = "end"
    /\ UNCHANGED <<options, opened, item, sub, curRun, memory, delivered, quitting, undef>>

\* GetEvent throws, and ReadEvent takes any exception for the end of the source.
\* A simulated event's tree is made before the part that may throw.
GetThrows ==
    /\ pc = "read" /\ cur # 0 /\ Kind # "ET" /\ ~undef /\ NoteCall /\ Throws /\ NoMore
    /\ \/ UNCHANGED trees
       \/ Kind = "mc" /\ trees' = trees \cup {[src |-> cur, item |-> item, sub |-> 0]}
    /\ UNCHANGED <<options, opened, item, sub, curRun, pe, ref, kept, pending, delivered,
                   quitting, undef>>

\* As RunAfter, looking at header banks only.
RunAfter_HeadersOnly(it) == IF it.what = "physics" THEN it.run ELSE curRun

\* The run after the banks of an EVIO event were looked at.
RunAfter(it) ==
    IF it.what = "physics" THEN it.run
    ELSE IF it.what = "prestart" /\ overwrite = NoRun THEN it.run ELSE curRun

\* GetEvent of an EVIO file; the end of a run is an event like others.
GetFile ==
    /\ pc = "read" /\ cur # 0 /\ Kind = "file" /\ ~Throws /\ NoteCall
    /\ \/ /\ item <= Len(Items) /\ Deliver(item, 0, RunAfter(Items[item]))
          /\ item' = item + 1 /\ UNCHANGED <<cur, pc>>
       \/ /\ item > Len(Items) /\ NoMore
          /\ UNCHANGED <<item, curRun, delivered, pending, trees, ref>>
    /\ UNCHANGED <<options, opened, sub, pe, kept, quitting, undef>>

\* GetEvent of a simulated file: the run is in every header.
GetMC ==
    /\ pc = "read" /\ cur # 0 /\ Kind = "mc" /\ ~Throws /\ NoteCall
    /\ \/ /\ item <= Len(Items) /\ Deliver(item, 0, Items[item].run)
          /\ item' = item + 1 /\ UNCHANGED <<cur, pc>>
       \/ /\ item > Len(Items) /\ NoMore
          /\ UNCHANGED <<item, curRun, delivered, pending, trees, ref>>
    /\ UNCHANGED <<options, opened, sub, pe, kept, quitting, undef>>

\* As GetTridas, with the iterator of a new time slice left at its first event.
GetTridas_Rereads ==
    /\ pc = "read" /\ cur # 0 /\ Kind = "tridas" /\ ~undef /\ ~Throws /\ NoteCall
    /\ LET i == IF sub = Items[item].n THEN item + 1 ELSE item
           s == IF sub = Items[item].n THEN 1 ELSE sub + 1
       IN \/ /\ i <= Len(Items) /\ Items[i].n > 0
             /\ Deliver(i, s, Items[i].run)
             /\ item' = i /\ sub' = (IF i = item THEN s ELSE 0) /\ UNCHANGED <<cur, pc>>
          \/ /\ i > Len(Items) /\ NoMore
             /\ UNCHANGED <<item, sub, curRun, delivered, pending, trees, ref>>
    /\ UNCHANGED <<options, opened, pe, kept, quitting, undef>>

\* GetEvent of a TRIDAS file.  When the time slice is used up the next one is
\* taken, once: if that one is empty its end is dereferenced.
GetTridas ==
    /\ pc = "read" /\ cur # 0 /\ Kind = "tridas" /\ ~undef /\ ~Throws /\ NoteCall
    /\ LET i == IF sub = Items[item].n THEN item + 1 ELSE item
           s == IF sub = Items[item].n THEN 1 ELSE sub + 1
       IN \/ /\ i <= Len(Items) /\ Items[i].n > 0
             /\ Deliver(i, s, Items[i].run)
             /\ item' = i /\ sub' = s /\ UNCHANGED <<cur, pc, undef>>
          \/ /\ i <= Len(Items) /\ Items[i].n = 0 /\ undef' = TRUE
             /\ UNCHANGED <<cur, pc, item, sub, curRun, delivered, pending, trees, ref>>
          \/ /\ i > Len(Items) /\ NoMore
             /\ UNCHANGED <<item, sub, curRun, delivered, pending, trees, ref, undef>>
    /\ UNCHANGED <<options, opened, pe, kept, quitting>>

\* GetEvent of an ET source: the call, and the loop that waits for an event.
EtBegin ==
    /\ pc = "read" /\ cur # 0 /\ Kind = "ET" /\ NoteCall /\ pc' = "et"
    /\ UNCHANGED <<options, place, memory, delivered, quitting, undef>>

\* As EtWait, without a look at quitting.
EtWait_Always ==
    /\ pc = "et" /\ pc' = "wait" /\ cur' = cur
    /\ UNCHANGED <<options, opened, item, sub, curRun, books, memory, delivered,
                   quitting, undef>>

\* The loop waits again, unless the program is quitting.
EtWait ==
    /\ pc = "et"
    /\ \/ ~quitting /\ pc' = "wait" /\ UNCHANGED cur
       \/ quitting /\ NoMore
    /\ UNCHANGED <<options, opened, item, sub, curRun, books, memory, delivered,
                   quitting, undef>>

\* et_event_get gives an event, runs into its timeout, or fails for good (an
\* error, or success without an event).
EtGet ==
    /\ pc = "wait"
    /\ \/ /\ item <= Len(Items) /\ pe' = item /\ item' = item + 1
          /\ pc' = "check" /\ UNCHANGED cur
       \/ pc' = "et" /\ UNCHANGED <<cur, pe, item>>
       \/ NoMore /\ UNCHANGED <<pe, item>>
    /\ UNCHANGED <<options, opened, sub, curRun, books, ref, trees, kept, pending,
                   delivered, quitting, undef>>

\* The event is checked, copied (with its bytes swapped where needed) and given
\* back, and its DOM tree made.  A bad one ends the source and is not given back;
\* one whose tree cannot be made ends it as well, and was given back.
EtCheck ==
    /\ pc = "check"
    /\ \/ /\ Items[pe].what = "bad" /\ NoMore
          /\ kept' = [kept EXCEPT ![cur] = @ \cup {pe}]
          /\ UNCHANGED <<ref, trees>>
       \/ /\ Items[pe].what = "corrupt" /\ NoMore /\ UNCHANGED <<ref, trees, kept>>
       \/ /\ Items[pe].what \notin {"bad", "corrupt"}
          /\ ref' = [src |-> cur, item |-> pe, sub |-> 0]
          /\ trees' = trees \cup {ref'} /\ pc' = "parse"
          /\ UNCHANGED <<cur, kept>>
    /\ pe' = NoET
    /\ UNCHANGED <<options, opened, item, sub, curRun, books, pending, delivered,
                   quitting, undef>>

\* The banks are looked at.  The end of a run ends the source: nobody frees the
\* tree of that event.
EtParse ==
    /\ pc = "parse" /\ UNCHANGED books
    /\ LET it == Items[ref.item] IN
       \/ /\ it.what = "end" /\ NoMore /\ ref' = None
          /\ UNCHANGED <<curRun, delivered, pending, trees>>
       \/ /\ it.what # "end" /\ pc' = "read"
          /\ Deliver(ref.item, 0, RunAfter(it))
          /\ UNCHANGED cur
    /\ UNCHANGED <<options, opened, item, sub, pe, kept, quitting, undef>>

-----------------------------------------------------------------------------
(***************************************************************************)
(* The others.                                                             *)
(***************************************************************************)

\* As FreeEvent, without the source's own FreeEvent.
FreeEvent_BooksOnly(e) ==
    /\ pc # "crashed" /\ pending' = pending \ {e}
    /\ inProgress' = [inProgress EXCEPT ![e.src] = @ \ {e.id}]
    /\ UNCHANGED <<options, place, calls, pe, ref, trees, kept, pc, delivered, quitting, undef>>

\* A thread is done with event e.
FreeEvent(e) ==
    /\ pc # "crashed" /\ pending' = pending \ {e}
    /\ inProgress' = [inProgress EXCEPT ![e.src] = @ \ {e.id}]
    /\ trees' = trees \ {[src |-> e.src, item |-> e.item, sub |-> e.sub]}
    /\ UNCHANGED <<options, place, calls, pe, ref, kept, pc, delivered, quitting, undef>>

\* Ctrl-C, and the end of the reader's loop after it.
Quit ==
    /\ ~quitting /\ pc # "crashed" /\ quitting' = TRUE
    /\ UNCHANGED <<options, place, books, memory, pc, delivered, undef>>

StopReading ==
    /\ quitting /\ pc = "read" /\ pc' = "end"
    /\ UNCHANGED <<options, place, books, memory, delivered, quitting, undef>>

Reader == OpenNext \/ GetThrows \/ GetFile \/ GetMC \/ GetTridas
          \/ EtBegin \/ EtWait \/ EtGet \/ EtCheck \/ EtParse

Next == Reader \/ StopReading \/ Quit \/ \E e \in pending : FreeEvent(e)

\* The reader's thread runs, and every event is freed in the end.
Fairness == WF_vars(Reader \/ StopReading) /\ WF_vars(\E e \in pending : FreeEvent(e))

Spec == Init /\ [][Next]_vars /\ Fairness

-----------------------------------------------------------------------------
(***************************************************************************)
(* Properties.                                                             *)
(***************************************************************************)

Sources == DOMAIN srcs
KindOf(i) == MakeJEventSource(srcs[i])
Tree(e) == [src |-> e.src, item |-> e.item, sub |-> e.sub]

\* Type invariant.
TypeOK ==
    /\ isMC \in BOOLEAN /\ overwrite \in {NoRun} \cup Runs
    /\ opened \in 0..Len(srcs) /\ cur \in 0..opened
    /\ item \in Nat \ {0} /\ sub \in Nat /\ curRun \in {NoRun} \cup Runs
    /\ calls \in [Sources -> Nat]
    /\ \A i \in Sources : inProgress[i] \subseteq 1..calls[i]
    /\ pc \in {"read", "et", "wait", "check", "parse", "end", "crashed"}
    /\ pe # NoET <=> pc = "check"
    /\ ref # None <=> pc = "parse"
    /\ quitting \in BOOLEAN /\ undef \in BOOLEAN

\* The events of source i that were delivered.
DeliveredOf(i) ==
    {Tree(delivered[k]) : k \in {m \in DOMAIN delivered : delivered[m].src = i}}

InOrder(e, f) == e.item < f.item \/ (e.item = f.item /\ e.sub < f.sub)

\* The events source i holds.
Holds(i) ==
    IF KindOf(i) = "tridas"
    THEN UNION {{[src |-> i, item |-> k, sub |-> n] : n \in 1..srcs[i].items[k].n} :
                k \in DOMAIN srcs[i].items}
    ELSE {[src |-> i, item |-> k, sub |-> 0] : k \in DOMAIN srcs[i].items}

\* Events come in the order of the sources, and of each source in its own, and
\* none comes twice.
DeliveredInOrder ==
    \A k, m \in DOMAIN delivered : k < m =>
        \/ delivered[k].src < delivered[m].src
        \/ delivered[k].src = delivered[m].src /\ InOrder(delivered[k], delivered[m])

\* The first n items of source i can be read.
Readable(i, n) ==
    \A j \in DOMAIN srcs[i].items : j <= n => srcs[i].items[j].what # "corrupt"

\* The events of source i before the first item that cannot be read.
CanBeRead(i) == {t \in Holds(i) : Readable(i, t.item)}

\* A file that is left behind, while nobody quits, was read to its last event or
\* time slice, or up to the first one that cannot be read: what follows that one
\* is lost, although it could be read.
EachReadOut ==
    \A i \in 1..opened :
        i # cur /\ ~quitting /\ ~undef /\ KindOf(i) \in {"file", "mc", "tridas"}
        => DeliveredOf(i) = CanBeRead(i)

\* And the reader ends only when every source was opened.
AllSourcesOpened == pc = "end" /\ ~quitting => opened = Len(srcs)

\* No source of the command line is left out, also after one whose reading threw
\* an exception, and of no file is an event left out that comes before the
\* exception.  (Of an ET system nobody knows what else it would have sent.)
SourcesReadOut == EachReadOut /\ AllSourcesOpened

\* The run of an event is that of its own header or, without one, that of the
\* last header or prestart before it in the same source; before the first one of
\* a source it is unknown, whatever the source before was.  The option for the
\* run number goes before all of them, but in a TRIDAS source.
RunOfItsSource ==
    \A k \in DOMAIN delivered :
        LET e     == delivered[k]
            items == srcs[e.src].items
            named == {j \in 1..e.item : items[j].what \in {"physics", "prestart"}}
            last  == CHOOSE j \in named : \A m \in named : m <= j
        IN /\ overwrite # NoRun /\ KindOf(e.src) # "tridas" => e.run = overwrite
           /\ KindOf(e.src) = "tridas" => e.run = items[e.item].run
           /\ overwrite = NoRun /\ KindOf(e.src) \in {"file", "ET"} =>
                 e.run = IF named = {} THEN NoRun ELSE items[last].run

\* Some call of source i brought no event so far: the one the reader is in, or
\* the last call of a source it left.
AskedInVain(i) == calls[i] # 0 /\ (i # cur \/ pc \notin {"read", "end"} \/ undef)

\* The ids in progress are those of the events not yet freed, of the reader's
\* call and of the last call of a source, which found no event and which nobody
\* removes.
InProgressExact ==
    \A i \in Sources : inProgress[i] =
        {e.id : e \in {f \in pending : f.src = i}}
        \cup {n \in {calls[i]} : AskedInVain(i)}

\* Every tree belongs to an event that is not yet freed or to the reader's, but
\* for the event that ended a run in an ET system and the simulated event whose
\* reading threw: one for each such source.
TreesAccounted ==
    trees \ ({Tree(e) : e \in pending} \cup {ref})
    \subseteq {t \in UNION {Holds(i) : i \in Sources} :
                  <<KindOf(t.src), srcs[t.src].items[t.item].what>>
                     \in {<<"ET", "end">>, <<"mc", "corrupt">>}}

\* A source keeps at most one event of the ET system for itself, and is never
\* asked again then: the system is not drained of its events.
EtEventsGivenBack ==
    \A i \in Sources : Cardinality(kept[i]) <= 1 /\ (kept[i] # {} => cur # i)

\* What the source and the ET system keep account of balances: ids, memory and
\* the system's events.
BooksBalance == TypeOK /\ InProgressExact /\ TreesAccounted /\ EtEventsGivenBack

\* Whoever quits is not kept by an ET system without events: GetEvent returns
\* after the next timeout, and the reader ends.
QuitEndsReading == quitting ~> (pc \in {"end", "crashed"} \/ undef)
=============================================================================
