----------------------------- MODULE RunOutput -----------------------------
(***************************************************************************)
(* The output of bdxReco: BDXEventProcessor, the one event processor that  *)
(* all threads share, and its JROOTOutput.  A thread with an event calls   *)
(* erun and brun of the processor, when the run number has changed, under  *)
(* the processor's state mutex, and then evnt without it                   *)
(* (JEventLoop::OneEvent).  erun, brun and each of the two fills in evnt   *)
(* are sections under the ROOT lock.  At the end the main thread calls     *)
(* erun, if it is due, and fini (JApplication::Fini).                      *)
(*                                                                         *)
(* An event is its number, and its time is its number.  A row of a tree is *)
(* the event it was filled for.  Trees are numbered in the order brun      *)
(* makes them.  What ROOT does is modelled from its use here: a tree made  *)
(* while a file is open belongs to the file, and closing the file deletes  *)
(* it; opening a file with "RECREATE" empties it.                          *)
(***************************************************************************)
EXTENDS Integers, Sequences, FiniteSets

CONSTANTS
    Threads,     \* the processing threads
    NEvents,     \* number of events
    RunOf        \* run number of each event

Event == 1..NEvents

ASSUME RunOutputAssumption ==
    /\ IsFiniteSet(Threads)
    /\ NEvents \in Nat
    /\ RunOf \in [Event -> Nat \ {0}]

Nobody == "nobody"
ASSUME RONobodyAssumption == Nobody \notin Threads

VARIABLES
    isMC,        \* option: simulated data, no header, no check for DAQ events
    DObuildDST,  \* option: SYSTEM:BUILD_DST is set
    isET,        \* option: output type root_et, one file for each run
    hasOutput,   \* option: SYSTEM:OUTPUT is one that makes a JROOTOutput
    daq,         \* input: the events from the DAQ (the others are EPICS)
    built,       \* input: the events the builder makes one TEvent of
    next,        \* next event to be taken
    pc, ev,      \* where each thread is, and with which event
    state,       \* holder of the processor's state mutex
    brunCalled, erunCalled, brunRun,  \* JEventProcessor's record of calls
    isOpen,      \* m_isOpen
    fname,       \* name of m_file: a run number, 0 for the name in the option
    objects,     \* the EventDST trees in m_objects (the other trees are too)
    tree,        \* m_eventDST, 0 for none
    dead,        \* trees that ROOT has deleted
    rows,        \* rows of each EventDST tree
    header,      \* rows of m_eventHeader
    runInfo,     \* rows of m_runInfo
    startTime, stopTime, runN,
    disk,        \* what the files hold
    overlap,     \* history: events of two runs were in process together
    bruns,       \* history: the runs brun was called for
    fin,         \* how far Fini is: "no", "erun", "done"
    undef        \* a deleted tree was used

inputs     == <<isMC, DObuildDST, isET, hasOutput, daq, built>>
threadVars == <<next, pc, ev, state>>
callVars   == <<brunCalled, erunCalled, brunRun, bruns>>
outVars    == <<isOpen, fname, objects, tree, dead, disk>>
treeVars   == <<rows, header, runInfo, startTime, stopTime, runN>>
vars == <<inputs, threadVars, callVars, outVars, treeVars, fin, overlap, undef>>

\* Times earlier and later than that of any event.
Never == NEvents + 1

EmptyFile == [dst |-> {}, header |-> <<>>, runInfo |-> <<>>]
FileNames == {0} \cup {RunOf[e] : e \in Event}

Init ==
    /\ isMC \in BOOLEAN /\ DObuildDST \in BOOLEAN /\ hasOutput \in BOOLEAN
    /\ isET \in BOOLEAN /\ (isET => hasOutput)
    /\ daq \in SUBSET Event /\ built \in SUBSET daq
    /\ next = 1
    /\ pc = [t \in Threads |-> "idle"] /\ ev = [t \in Threads |-> 0]
    /\ state = Nobody
    /\ brunCalled = FALSE /\ erunCalled = FALSE /\ brunRun = -1
    /\ isOpen = FALSE /\ fname = 0 /\ objects = {} /\ tree = 0 /\ dead = {}
    /\ rows = <<>> /\ header = <<>> /\ runInfo = <<>>
    /\ startTime = Never /\ stopTime = -Never /\ runN = 0
    /\ disk = [f \in FileNames |-> EmptyFile]
    /\ overlap = FALSE /\ bruns = <<>> /\ fin = "no" /\ undef = FALSE

-----------------------------------------------------------------------------
(***************************************************************************)
(* JROOTOutput.                                                            *)
(***************************************************************************)

\* OpenOutput(f): nothing is done when a file is open already.
OpenOutput(f) ==
    /\ isOpen' = TRUE
    /\ IF isOpen THEN UNCHANGED <<fname, disk>>
       ELSE fname' = f /\ disk' = [disk EXCEPT ![f] = EmptyFile]

\* CloseOutput: save all objects, write and close the file; nothing is done
\* when it is closed already.  infos are the rows of m_runInfo by now.
CloseOutput(infos) ==
    IF ~isOpen THEN UNCHANGED outVars
    ELSE /\ isOpen' = FALSE
         /\ disk' = [disk EXCEPT ![fname] =
                       [dst |-> {rows[i] : i \in objects},
                        header |-> header, runInfo |-> infos]]
         /\ dead' = DOMAIN rows
         /\ UNCHANGED <<fname, objects, tree>>

-----------------------------------------------------------------------------
(***************************************************************************)
(* BDXEventProcessor and OneEvent.                                         *)
(***************************************************************************)

\* As ErunCall, closing the output whatever its kind.
ErunCall_AlwaysCloses ==
    /\ runInfo' = Append(runInfo, [run |-> runN, start |-> startTime,
                                   stop |-> stopTime])
    /\ erunCalled' = TRUE
    /\ IF hasOutput THEN CloseOutput(runInfo') ELSE UNCHANGED outVars
    /\ UNCHANGED <<rows, header, startTime, stopTime, runN>>

\* erun.
ErunCall ==
    /\ runInfo' = Append(runInfo, [run |-> runN, start |-> startTime,
                                   stop |-> stopTime])
    /\ erunCalled' = TRUE
    /\ IF hasOutput /\ isET THEN CloseOutput(runInfo') ELSE UNCHANGED outVars
    /\ UNCHANGED <<rows, header, startTime, stopTime, runN>>

\* As MakeDST, for the first call only.
MakeDST_Once(kept) ==
    IF rows = <<>> THEN tree' = 1 /\ rows' = << <<>> >> /\ objects' = {1}
                   ELSE objects' = kept /\ UNCHANGED <<tree, rows>>

\* A new EventDST tree, added to those the file has.
MakeDST(kept) ==
    /\ tree' = Len(rows) + 1
    /\ rows' = Append(rows, <<>>)
    /\ objects' = kept \cup {tree'}

\* OneEvent's record of a call of brun.
BrunCalled(r) ==
    /\ brunCalled' = TRUE /\ erunCalled' = FALSE /\ brunRun' = r
    /\ bruns' = Append(bruns, r)

\* brun: isFirstCallToBrun is never cleared, so that every call comes here.
BrunCall(r) ==
    /\ IF ~hasOutput THEN UNCHANGED <<outVars, rows>>
       ELSE /\ OpenOutput(IF isET THEN r ELSE 0)
            /\ LET kept == IF isOpen THEN objects ELSE {}
               IN  IF DObuildDST THEN MakeDST(kept)
                   ELSE objects' = kept /\ UNCHANGED <<tree, rows>>
            /\ UNCHANGED dead
    /\ BrunCalled(r)

TakeEvent(t) ==
    /\ pc[t] = "idle" /\ next <= NEvents
    /\ ev' = [ev EXCEPT ![t] = next]
    /\ next' = next + 1
    /\ pc' = [pc EXCEPT ![t] = "lock"]
    /\ overlap' = (overlap \/ \E u \in Threads :
                      pc[u] # "idle" /\ RunOf[ev[u]] # RunOf[next])
    /\ UNCHANGED <<inputs, state, callVars, outVars, treeVars, fin, undef>>

\* LockState, and see what is due.
LockState(t) ==
    /\ pc[t] = "lock" /\ state = Nobody
    /\ LET changed == RunOf[ev[t]] # brunRun
       IN  /\ pc' = [pc EXCEPT ![t] =
                       IF changed /\ brunCalled /\ ~erunCalled THEN "erun"
                       ELSE IF changed \/ ~brunCalled THEN "brun"
                       ELSE "evnt"]
           /\ state' = IF changed \/ ~brunCalled THEN t ELSE Nobody
           /\ brunCalled' = (brunCalled /\ ~changed)
    /\ UNCHANGED <<inputs, next, ev, erunCalled, brunRun, bruns, outVars,
                   treeVars, fin, overlap, undef>>

Erun(t) ==
    /\ pc[t] = "erun"
    /\ ErunCall
    /\ pc' = [pc EXCEPT ![t] = "brun"]
    /\ UNCHANGED <<inputs, next, ev, state, brunCalled, brunRun, bruns,
                   fin, overlap, undef>>

\* brun, and UnlockState.
Brun(t) ==
    /\ pc[t] = "brun"
    /\ BrunCall(RunOf[ev[t]])
    /\ state' = Nobody
    /\ pc' = [pc EXCEPT ![t] = "evnt"]
    /\ UNCHANGED <<inputs, next, ev, header, runInfo, startTime, stopTime,
                   runN, fin, overlap, undef>>

\* As Evnt, filling the header of an event the builder made nothing of.
Evnt_HeaderAnyway(t) ==
    /\ pc[t] = "evnt"
    /\ LET e == ev[t]
           skipped == (~isMC /\ e \notin daq) \/ ~hasOutput
       IN  pc' = [pc EXCEPT ![t] = IF skipped THEN "idle"
                                   ELSE IF DObuildDST /\ e \in built THEN "dst"
                                   ELSE IF isMC THEN "idle" ELSE "header"]
    /\ UNCHANGED <<inputs, next, ev, state, callVars, outVars, treeVars,
                   fin, overlap, undef>>

\* evnt up to the first fill: the early returns.
Evnt(t) ==
    /\ pc[t] = "evnt"
    /\ LET e == ev[t]
           skipped == \/ ~isMC /\ e \notin daq
                      \/ DObuildDST /\ e \notin built
                      \/ ~hasOutput
       IN  pc' = [pc EXCEPT ![t] = IF skipped THEN "idle"
                                   ELSE IF DObuildDST THEN "dst"
                                   ELSE IF isMC THEN "idle" ELSE "header"]
    /\ UNCHANGED <<inputs, next, ev, state, callVars, outVars, treeVars,
                   fin, overlap, undef>>

\* m_event and m_eventDST->Fill().
FillDST(t) ==
    /\ pc[t] = "dst"
    /\ IF tree \in dead \cup {0}
       THEN undef' = TRUE /\ UNCHANGED rows
       ELSE rows' = [rows EXCEPT ![tree] = Append(@, ev[t])] /\ UNCHANGED undef
    /\ pc' = [pc EXCEPT ![t] = IF isMC THEN "idle" ELSE "header"]
    /\ UNCHANGED <<inputs, next, ev, state, callVars, outVars, header,
                   runInfo, startTime, stopTime, runN, fin, overlap>>

\* As FillHeader, comparing the time with one bound only.
FillHeader_OneBound(t) ==
    /\ pc[t] = "header"
    /\ LET e == ev[t]
       IN  /\ header' = Append(header, e)
           /\ IF e < startTime THEN startTime' = e /\ UNCHANGED stopTime
              ELSE stopTime' = e /\ UNCHANGED startTime
           /\ runN' = RunOf[e]
    /\ pc' = [pc EXCEPT ![t] = "idle"]
    /\ UNCHANGED <<inputs, next, ev, state, callVars, outVars, rows,
                   runInfo, fin, overlap, undef>>

\* m_eventHeader->Fill(), and the times.
FillHeader(t) ==
    /\ pc[t] = "header"
    /\ LET e == ev[t]
       IN  /\ header' = Append(header, e)
           /\ startTime' = IF e < startTime THEN e ELSE startTime
           /\ stopTime' = IF e > stopTime THEN e ELSE stopTime
           /\ runN' = RunOf[e]
    /\ pc' = [pc EXCEPT ![t] = "idle"]
    /\ UNCHANGED <<inputs, next, ev, state, callVars, outVars, rows,
                   runInfo, fin, overlap, undef>>

\* All threads have ended: JApplication::Fini makes sure erun is called ...
FiniErun ==
    /\ fin = "no" /\ next > NEvents /\ \A t \in Threads : pc[t] = "idle"
    /\ fin' = "erun"
    /\ IF brunCalled /\ ~erunCalled THEN ErunCall
       ELSE UNCHANGED <<erunCalled, outVars, treeVars>>
    /\ UNCHANGED <<inputs, threadVars, brunCalled, brunRun, bruns, overlap,
                   undef>>

\* ... and calls fini.
Fini ==
    /\ fin = "erun"
    /\ fin' = "done"
    /\ IF hasOutput THEN CloseOutput(runInfo) ELSE UNCHANGED outVars
    /\ UNCHANGED <<inputs, threadVars, callVars, treeVars, overlap, undef>>

Ended == (undef \/ fin = "done") /\ UNCHANGED vars

ThreadStep(t) ==
    \/ TakeEvent(t) \/ LockState(t) \/ Erun(t) \/ Brun(t) \/ Evnt(t)
    \/ FillDST(t) \/ FillHeader(t)

Next ==
    \/ ~undef /\ ((\E t \in Threads : ThreadStep(t)) \/ FiniErun \/ Fini)
    \/ Ended

Spec == Init /\ [][Next]_vars

-----------------------------------------------------------------------------
(***************************************************************************)
(* Properties.                                                             *)
(***************************************************************************)

PC == {"idle", "lock", "erun", "brun", "evnt", "dst", "header"}

\* Type correctness.
TypeOK ==
    /\ isMC \in BOOLEAN /\ DObuildDST \in BOOLEAN /\ hasOutput \in BOOLEAN
    /\ isET \in BOOLEAN /\ overlap \in BOOLEAN
    /\ daq \in SUBSET Event /\ built \in SUBSET Event
    /\ next \in 1..(NEvents + 1)
    /\ pc \in [Threads -> PC] /\ ev \in [Threads -> Event \cup {0}]
    /\ state \in Threads \cup {Nobody}
    /\ brunCalled \in BOOLEAN /\ erunCalled \in BOOLEAN
    /\ brunRun \in Nat \cup {-1} /\ bruns \in Seq(Nat)
    /\ isOpen \in BOOLEAN /\ fname \in FileNames
    /\ tree \in 0..Len(rows)
    /\ objects \subseteq DOMAIN rows /\ dead \subseteq DOMAIN rows
    /\ rows \in Seq(Seq(Event)) /\ header \in Seq(Event)
    /\ runInfo \in Seq([run : Nat, start : Int, stop : Int])
    /\ startTime \in Int /\ stopTime \in Int /\ runN \in Nat
    /\ DOMAIN disk = FileNames
    /\ fin \in {"no", "erun", "done"} /\ undef \in BOOLEAN

\* The events evnt does not skip.
Wanted == {e \in Event : (isMC \/ e \in daq) /\ (DObuildDST => e \in built)}

\* How often event e is in the EventDST trees, and in the EventHeader tree,
\* of file f.
DSTRows(f, e) ==
    Cardinality(UNION {{<<s, i>> : i \in {j \in DOMAIN s : s[j] = e}} : s \in disk[f].dst})
HeaderRows(f, e) ==
    Cardinality({i \in DOMAIN disk[f].header : disk[f].header[i] = e})

\* When a job with one output file ends, the file has every wanted event in
\* exactly one EventDST row and one EventHeader row (each if it is written at
\* all) and nothing else, whatever the order of the threads' erun, brun and
\* fills around a change of run.
OneFileComplete ==
    (fin = "done" /\ hasOutput /\ ~isET) =>
        \A e \in Event :
            /\ DSTRows(0, e) = IF DObuildDST /\ e \in Wanted THEN 1 ELSE 0
            /\ HeaderRows(0, e) = IF ~isMC /\ e \in Wanted THEN 1 ELSE 0

\* Every brun of the shared processor is followed by one erun before the next
\* brun and before the job ends ("Make sure erun is called"), so that RunInfo
\* has one row for each.
BrunErunPaired ==
    /\ Len(runInfo) \in {Len(bruns), Len(bruns) - 1}
    /\ fin # "no" => Len(runInfo) = Len(bruns)

\* When the job ends, the last RunInfo row spans the times of all events in
\* EventHeader, those too that a thread filled in after another had called
\* erun of their run.
RunInfoSpansEvents ==
    (fin = "done" /\ hasOutput /\ header # <<>>) =>
        LET last == runInfo[Len(runInfo)]
        IN  \A i \in DOMAIN header : last.start <= header[i] /\ header[i] <= last.stop

\* erun closes the file of a run (and with it deletes its tree) for all
\* threads: a deleted tree is filled only if events of two runs were in
\* process at the same time.
NoDeletedTreeFilled == undef => overlap

\* No run comes back after another: the file of a run that does is emptied
\* when it is opened again.
RunsContiguous ==
    \A d, e, f \in Event : d <= e /\ e <= f /\ RunOf[d] = RunOf[f] => RunOf[e] = RunOf[d]

\* With one file for each run, and unless events of two runs were in process
\* at the same time, each file ends up with the wanted events of its run,
\* whichever thread has filled them in.
FileOfEachRun ==
    (fin = "done" /\ hasOutput /\ isET /\ DObuildDST /\ ~overlap /\ RunsContiguous) =>
        \A e \in Event : \A f \in FileNames :
            DSTRows(f, e) = IF e \in Wanted /\ f = RunOf[e] THEN 1 ELSE 0

\* The threads between their two fills.
BetweenFills == {t \in Threads : pc[t] = "header"}

\* EventHeader is a friend of EventDST, that is, ROOT reads row i of the one
\* with row i of the other; but the two are filled in separate locked
\* sections.  Whatever the threads do between, the header lacks exactly the
\* rows of the threads that are there, and an event's header is ahead of its
\* row by less than the number of threads (with one thread it is row i for
\* row i).  It may be behind by any number of rows.  From the second brun on,
\* when a new EventDST tree has the same header tree for a friend, the rows
\* of the two have nothing to do with each other.
FriendRowsNear ==
    (~undef /\ ~isMC /\ DObuildDST /\ Len(rows) = 1) =>
        /\ Len(rows[1]) = Len(header) + Cardinality(BetweenFills)
        /\ \A i \in DOMAIN rows[1], j \in DOMAIN header :
               rows[1][i] = header[j] => i - j < Cardinality(Threads)

\* The output of a job is complete, in one file or in one for each run.
OutputComplete == OneFileComplete /\ FileOfEachRun

\* What is recorded about runs is right: one brun and one erun each, and times
\* around those of the events.
RunInfoSound == TypeOK /\ BrunErunPaired /\ RunInfoSpansEvents
=============================================================================
