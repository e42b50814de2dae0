-------------------------- MODULE RunOutput_proofs --------------------------
(***************************************************************************)
(* Theorems: the output of a job is complete, what is recorded about runs  *)
(* is right, no deleted tree is filled unless events of two runs overlap,  *)
(* and the rows of friend trees are out of step by less than the number of *)
(* threads in the one direction; for any number of threads and events and  *)
(* any run numbers.                                                        *)
(*                                                                         *)
(* The argument has four parts.  What the state mutex protects: between   *)
(* two threads that hold it a run has begun and not ended, so that brun    *)
(* and erun alternate and the file is open (CallInv, FileInv).  What it    *)
(* does not protect: evnt fills without it, so that a thread may fill      *)
(* while another ends the run; without events of two runs in process at    *)
(* the same time this does not happen, because the thread that ends a run  *)
(* has an event of another one (OverlapInv).  What the fills do: an event  *)
(* is in one thread's hands, and in a tree from when that thread has       *)
(* filled it in (RowsInv, HeaderInv); with one file for each run it is in  *)
(* a tree of that file, for runs come one after the other (PerRunInv).     *)
(* And what the two fills of an event do together: the header is behind    *)
(* the tree by one row for each thread between its two (FriendInv).        *)
(***************************************************************************)
EXTENDS RunOutput, FiniteSetTheorems, TLAPS

InCall == {"erun", "brun"}            \* with the state mutex
Past   == {"evnt", "dst", "header"}   \* in evnt, without it
NotIn  == {"lock", "erun", "brun"}    \* not in evnt yet

\* Events are handed out one by one, each to one thread.
EventInv ==
    /\ isET => hasOutput
    /\ \A t \in Threads : ev[t] < next /\ (pc[t] # "idle" => ev[t] \in Event)
    /\ \A t, u \in Threads : ev[t] = ev[u] /\ ev[t] # 0 => t = u
    /\ \A t \in Threads : pc[t] \in InCall <=> state = t
    /\ \A t \in Threads : pc[t] \in {"dst", "header"} => hasOutput /\ ev[t] \in Wanted
    /\ \A t \in Threads : pc[t] = "dst" => DObuildDST
    /\ \A t \in Threads : pc[t] = "header" => ~isMC
    /\ fin # "no" => ~undef /\ next > NEvents /\ \A t \in Threads : pc[t] = "idle"

\* brun and erun alternate.
NoRun   == brunRun = -1 /\ ~brunCalled /\ ~erunCalled /\ Len(bruns) = 0 /\ Len(runInfo) = 0
InRun   == Len(bruns) > 0 /\ Len(runInfo) = Len(bruns) - 1

CallInv ==
    /\ fin = "no" /\ state = Nobody => NoRun \/ (InRun /\ brunCalled /\ ~erunCalled)
    /\ \A t \in Threads : pc[t] = "erun" => InRun /\ ~brunCalled /\ ~erunCalled
    /\ \A t \in Threads : pc[t] = "brun" => Len(runInfo) = Len(bruns) /\ ~brunCalled
    /\ \A t \in Threads : pc[t] \in InCall => RunOf[ev[t]] # brunRun
    /\ fin # "no" => Len(runInfo) = Len(bruns)
    /\ header # <<>> \/ (\E t \in Threads : pc[t] \in Past) => Len(bruns) > 0
    /\ next > 1 => Len(bruns) > 0 \/ \E t \in Threads : pc[t] \in {"lock", "brun"}

\* The times bound those of the events, and Fini's erun records them.
TimeInv ==
    /\ \A i \in DOMAIN header : startTime <= header[i] /\ header[i] <= stopTime
    /\ (fin # "no" /\ header # <<>>) =>
           LET last == runInfo[Len(runInfo)]
           IN  last.start = startTime /\ last.stop = stopTime

\* The file is open in a run, and has a tree then; a single file stays open
\* and has all trees.
FileInv ==
    /\ isOpen => hasOutput /\ Len(bruns) > 0
    /\ hasOutput /\ fin = "no" /\ state = Nobody /\ Len(bruns) > 0 => isOpen
    /\ isOpen /\ DObuildDST => tree \in DOMAIN rows \ dead
    /\ ~DObuildDST \/ Len(bruns) = 0 => DOMAIN rows = {}
    /\ ~isET =>
         /\ fname = 0
         /\ fin # "done" => objects = DOMAIN rows
         /\ fin # "done" /\ hasOutput /\ Len(bruns) > 0 => isOpen
         /\ fin = "done" /\ hasOutput /\ Len(bruns) > 0 =>
              /\ disk[0].dst = {rows[i] : i \in DOMAIN rows}
              /\ disk[0].header = header
    /\ isET => /\ fin # "no" => ~isOpen
               /\ \A t \in Threads : pc[t] = "brun" => ~isOpen

\* Unless events of two runs were in process together, all events in process
\* are of one run, and those in evnt of the run that brun was called for,
\* whose file is open.
OverlapInv ==
    /\ undef => overlap /\ isET
    /\ ~overlap =>
         /\ \A t \in Threads : pc[t] # "idle" =>
              \A e \in Event : ev[t] <= e /\ e < next => RunOf[e] = RunOf[ev[t]]
         /\ \A t \in Threads : pc[t] \in Past =>
              RunOf[ev[t]] = brunRun /\ (hasOutput => isOpen)

\* The events that have been filled into an EventDST tree, and those filled
\* into EventHeader.
Filled  == {e \in Wanted : e < next /\
               \A t \in Threads : ev[t] = e => pc[t] \in {"idle", "header"}}
HFilled == {e \in Wanted : e < next /\ \A t \in Threads : ev[t] = e => pc[t] = "idle"}

\* Every such event is in one row of one tree, and nothing else is.
RowsInv ==
    (hasOutput /\ DObuildDST /\ ~undef) =>
        /\ \A k \in DOMAIN rows : \A i \in DOMAIN rows[k] : rows[k][i] \in Filled
        /\ \A e \in Filled : \E k \in DOMAIN rows : \E i \in DOMAIN rows[k] : rows[k][i] = e
        /\ \A k, l \in DOMAIN rows : \A i \in DOMAIN rows[k], j \in DOMAIN rows[l] :
               rows[k][i] = rows[l][j] => k = l /\ i = j

\* The same for EventHeader.
HeaderInv ==
    IF hasOutput /\ ~isMC
    THEN /\ \A i \in DOMAIN header : header[i] \in HFilled
         /\ \A e \in HFilled : \E i \in DOMAIN header : header[i] = e
         /\ \A i, j \in DOMAIN header : header[i] = header[j] => i = j
    ELSE header = <<>>

\* The events that have come to evnt.
Passed == {e \in Event : e < next /\
              \A t \in Threads : ev[t] = e => pc[t] \notin NotIn}

\* Runs come one after the other: whatever has come to evnt is of the run of
\* the last brun, or is from before some event of that run.
RunOrderInv ==
    /\ brunRun = -1 => Len(bruns) = 0
    /\ ~overlap /\ brunRun # -1 =>
         \E d \in Event : /\ d < next /\ RunOf[d] = brunRun
                          /\ \A e \in Passed : e <= d \/ RunOf[e] = brunRun

\* The trees that are still filled.
OpenTrees == IF isOpen THEN {tree} ELSE {}

\* One file for each run: the tree of the open file has events of its run
\* only, and any other that has events is in the file of their run.
PerRunInv ==
    (isET /\ DObuildDST /\ ~overlap /\ RunsContiguous) =>
        /\ isOpen => /\ objects = {tree} /\ fname = brunRun /\ disk[fname].dst = {}
                     /\ \A i \in DOMAIN rows[tree] : RunOf[rows[tree][i]] = brunRun
        /\ \A k \in DOMAIN rows \ OpenTrees : \A i \in DOMAIN rows[k] :
               rows[k] \in disk[RunOf[rows[k][i]]].dst
        /\ \A f \in FileNames : \A s \in disk[f].dst :
               /\ \E k \in DOMAIN rows \ OpenTrees : s = rows[k]
               /\ \A i \in DOMAIN s : RunOf[s[i]] = f

\* As long as there is one EventDST tree, EventHeader is behind it by the rows
\* of the threads between their two fills, and an event's header is ahead of
\* its row by less than the number of threads.
Near(r, h) == \A i \in DOMAIN r, j \in DOMAIN h : r[i] = h[j] => i - j < Cardinality(Threads)

FriendInv ==
    (~undef /\ ~isMC /\ DObuildDST) =>
        /\ Len(rows) = 0 => Len(header) = 0 /\ BetweenFills = {}
        /\ Len(rows) = 1 => /\ Len(rows[1]) = Len(header) + Cardinality(BetweenFills)
                            /\ Near(rows[1], header)

ROInv ==
    /\ TypeOK /\ EventInv /\ CallInv /\ TimeInv /\ FileInv /\ OverlapInv
    /\ RowsInv /\ HeaderInv /\ RunOrderInv /\ PerRunInv /\ FriendInv

-----------------------------------------------------------------------------
(***************************************************************************)
(* The initial states, and the types.                                      *)
(***************************************************************************)

\* Run numbers are not the -1 that brunRun has at first, and files have
\* names of runs.
LEMMA RunNumbers ==
    \A e \in Event : /\ RunOf[e] \in Nat \ {0} /\ RunOf[e] # -1
                     /\ RunOf[e] \in FileNames /\ RunOf[e] # 0
BY RunOutputAssumption DEF FileNames

\* Nothing has been taken and nothing filled at first.
LEMMA InitROInv == Init => ROInv
<1> SUFFICES ASSUME Init PROVE ROInv OBVIOUS
<1> USE RunOutputAssumption, RONobodyAssumption DEF Init
<1>1. TypeOK
  <2>1. next \in 1..(NEvents + 1) /\ Never \in Int /\ -Never \in Int BY DEF Never
  <2>2. pc \in [Threads -> PC] /\ ev \in [Threads -> Event \cup {0}] BY DEF PC
  <2>3. rows \in Seq(Seq(Event)) /\ header \in Seq(Event) /\ bruns \in Seq(Nat)
        /\ runInfo \in Seq([run : Nat, start : Int, stop : Int]) /\ Len(rows) = 0
    OBVIOUS
  <2>4. fname \in FileNames /\ DOMAIN disk = FileNames BY DEF FileNames
  <2>5. tree \in 0..Len(rows) /\ objects \subseteq DOMAIN rows /\ dead \subseteq DOMAIN rows
    BY <2>3
  <2>6. daq \in SUBSET Event /\ built \in SUBSET Event OBVIOUS
  <2>7. brunRun \in Nat \cup {-1} /\ runN \in Nat OBVIOUS
  <2> HIDE DEF Init
  <2>8. Init OBVIOUS
  <2> QED BY <2>1, <2>2, <2>3, <2>4, <2>5, <2>6, <2>7, <2>8 DEF TypeOK, Init
<1>2. EventInv BY DEF EventInv, InCall
<1>3. CallInv BY DEF CallInv, NoRun, InCall, Past
<1>4. TimeInv BY DEF TimeInv
<1>5. FileInv BY DEF FileInv
<1>6. OverlapInv BY DEF OverlapInv, Past
<1>7. RowsInv
  <2>1. Filled = {} BY DEF Filled, Wanted, Event
  <2>2. DOMAIN rows = {} OBVIOUS
  <2> QED BY <2>1, <2>2 DEF RowsInv
<1>8. HeaderInv
  <2>1. HFilled = {} BY DEF HFilled, Wanted, Event
  <2>2. DOMAIN header = {} OBVIOUS
  <2> QED BY <2>1, <2>2 DEF HeaderInv
<1>9. RunOrderInv BY DEF RunOrderInv
<1>10. PerRunInv BY DEF PerRunInv, OpenTrees, EmptyFile
<1>11. FriendInv
  <2>1. Len(rows) = 0 /\ Len(header) = 0 /\ BetweenFills = {} BY DEF BetweenFills
  <2> QED BY <2>1 DEF FriendInv
<1> QED BY <1>1, <1>2, <1>3, <1>4, <1>5, <1>6, <1>7, <1>8, <1>9, <1>10, <1>11 DEF ROInv

\* Closing the file keeps the types of what belongs to it.
LEMMA CloseOutputTypes ==
    ASSUME TypeOK, NEW infos, CloseOutput(infos)
    PROVE  /\ isOpen' \in BOOLEAN /\ fname' \in FileNames /\ DOMAIN disk' = FileNames
           /\ objects' = objects /\ tree' = tree
           /\ dead' \subseteq DOMAIN rows
BY DEF CloseOutput, TypeOK, outVars

\* So does erun, which adds a row to RunInfo.
LEMMA ErunCallTypes ==
    ASSUME TypeOK, ErunCall
    PROVE  /\ isOpen' \in BOOLEAN /\ fname' \in FileNames /\ DOMAIN disk' = FileNames
           /\ objects' = objects /\ tree' = tree
           /\ dead' \subseteq DOMAIN rows
           /\ erunCalled' = TRUE
           /\ runInfo' \in Seq([run : Nat, start : Int, stop : Int])
           /\ Len(runInfo') = Len(runInfo) + 1
           /\ runInfo'[Len(runInfo')].start = startTime
           /\ runInfo'[Len(runInfo')].stop = stopTime
           /\ UNCHANGED <<rows, header, startTime, stopTime, runN>>
<1> DEFINE R == [run |-> runN, start |-> startTime, stop |-> stopTime]
<1>1. R \in [run : Nat, start : Int, stop : Int] BY DEF TypeOK
<1>2. /\ runInfo' = Append(runInfo, R) /\ erunCalled' = TRUE
      /\ UNCHANGED <<rows, header, startTime, stopTime, runN>>
  BY DEF ErunCall
<1>3. R.start = startTime /\ R.stop = stopTime OBVIOUS
<1>4. /\ isOpen' \in BOOLEAN /\ fname' \in FileNames /\ DOMAIN disk' = FileNames
      /\ objects' = objects /\ tree' = tree
      /\ dead' \subseteq DOMAIN rows
  BY CloseOutputTypes DEF ErunCall, TypeOK, outVars
<1> HIDE DEF R
<1>5. runInfo' \in Seq([run : Nat, start : Int, stop : Int])
      /\ Len(runInfo') = Len(runInfo) + 1 /\ runInfo'[Len(runInfo')] = R
  BY <1>1, <1>2 DEF TypeOK
<1> QED BY <1>2, <1>3, <1>4, <1>5

\* brun opens a file and makes a tree, if there is an output.
LEMMA BrunCallTypes ==
    ASSUME TypeOK, NEW r \in FileNames, r \in Nat, BrunCall(r)
    PROVE  /\ isOpen' \in BOOLEAN /\ fname' \in FileNames /\ DOMAIN disk' = FileNames
           /\ rows' \in Seq(Seq(Event))
           /\ Len(rows') \in {Len(rows), Len(rows) + 1}
           /\ tree' \in 0..Len(rows')
           /\ objects' \subseteq DOMAIN rows' /\ dead' \subseteq DOMAIN rows'
           /\ brunCalled' = TRUE /\ erunCalled' = FALSE /\ brunRun' = r
           /\ bruns' \in Seq(Nat) /\ Len(bruns') = Len(bruns) + 1
<1>1. /\ brunCalled' = TRUE /\ erunCalled' = FALSE /\ brunRun' = r
      /\ bruns' \in Seq(Nat) /\ Len(bruns') = Len(bruns) + 1
  BY DEF BrunCall, BrunCalled, TypeOK
<1>2. CASE ~hasOutput BY <1>1, <1>2 DEF BrunCall, TypeOK, outVars
<1>3. CASE hasOutput
  <2>1. isOpen' \in BOOLEAN /\ fname' \in FileNames /\ DOMAIN disk' = FileNames
    BY <1>3 DEF BrunCall, OpenOutput, TypeOK, FileNames
  <2> DEFINE kept == IF isOpen THEN objects ELSE {}
  <2>2. CASE DObuildDST
    <3>1. /\ tree' = Len(rows) + 1 /\ rows' = Append(rows, <<>>)
          /\ objects' = kept \cup {tree'} /\ UNCHANGED dead
      BY <1>3, <2>2 DEF BrunCall, MakeDST
    <3>2. rows' \in Seq(Seq(Event)) /\ Len(rows') = Len(rows) + 1
      BY <3>1 DEF TypeOK
    <3>3. /\ tree' \in 0..Len(rows') /\ tree' \in DOMAIN rows'
          /\ DOMAIN rows \subseteq DOMAIN rows'
      BY <3>1, <3>2 DEF TypeOK
    <3>4. objects' \subseteq DOMAIN rows' /\ dead' \subseteq DOMAIN rows'
      BY <3>1, <3>3 DEF TypeOK
    <3> QED BY <1>1, <2>1, <3>2, <3>3, <3>4
  <2>3. CASE ~DObuildDST
    BY <1>1, <1>3, <2>1, <2>3 DEF BrunCall, TypeOK
  <2> QED BY <2>2, <2>3
<1> QED BY <1>2, <1>3

\* Every step of a thread keeps the types.
LEMMA ThreadTypeOK ==
    ASSUME TypeOK, EventInv, NEW t \in Threads, ThreadStep(t) PROVE TypeOK'
<1> USE RunOutputAssumption, RONobodyAssumption
    DEF TypeOK, inputs, callVars, outVars, treeVars, threadVars
<1>1. CASE TakeEvent(t)
  <2>1. next \in Event BY <1>1 DEF TakeEvent, Event
  <2> QED BY <1>1, <2>1 DEF TakeEvent, PC
<1>2. CASE LockState(t) BY <1>2 DEF LockState, PC
<1>3. CASE Erun(t)
  <2>1. /\ isOpen' \in BOOLEAN /\ fname' \in FileNames /\ DOMAIN disk' = FileNames
        /\ objects' = objects /\ tree' = tree
        /\ dead' \subseteq DOMAIN rows
        /\ erunCalled' = TRUE
        /\ runInfo' \in Seq([run : Nat, start : Int, stop : Int])
        /\ UNCHANGED <<rows, header, startTime, stopTime, runN>>
    BY <1>3, ErunCallTypes DEF Erun
  <2> QED BY <1>3, <2>1 DEF Erun, PC
<1>4. CASE Brun(t)
  <2>1. ev[t] \in Event BY <1>4 DEF Brun, EventInv
  <2>2. RunOf[ev[t]] \in FileNames /\ RunOf[ev[t]] \in Nat BY <2>1, RunNumbers
  <2>3. /\ isOpen' \in BOOLEAN /\ fname' \in FileNames /\ DOMAIN disk' = FileNames
        /\ rows' \in Seq(Seq(Event))
        /\ tree' \in 0..Len(rows')
        /\ objects' \subseteq DOMAIN rows' /\ dead' \subseteq DOMAIN rows'
        /\ brunCalled' = TRUE /\ erunCalled' = FALSE /\ brunRun' = RunOf[ev[t]]
        /\ bruns' \in Seq(Nat)
    BY <1>4, <2>2, BrunCallTypes DEF Brun
  <2> QED BY <1>4, <2>2, <2>3 DEF Brun, PC
<1>5. CASE Evnt(t) BY <1>5 DEF Evnt, PC
<1>6. CASE FillDST(t)
  <2>1. ev[t] \in Event BY <1>6 DEF FillDST, EventInv
  <2>2. rows' \in Seq(Seq(Event)) /\ Len(rows') = Len(rows) /\ undef' \in BOOLEAN
    <3>1. CASE tree \in dead \cup {0} BY <1>6, <3>1 DEF FillDST
    <3>2. CASE tree \notin dead \cup {0}
      <4>1. tree \in DOMAIN rows /\ rows[tree] \in Seq(Event) BY <3>2
      <4>2. Append(rows[tree], ev[t]) \in Seq(Event) BY <2>1, <4>1
      <4>3. rows' = [rows EXCEPT ![tree] = Append(rows[tree], ev[t])] /\ UNCHANGED undef
        BY <1>6, <3>2 DEF FillDST
      <4> DEFINE q == Append(rows[tree], ev[t])
      <4> HIDE DEF q
      <4>4. rows' = [rows EXCEPT ![tree] = q] /\ q \in Seq(Event) BY <4>2, <4>3 DEF q
      <4>5. rows' \in Seq(Seq(Event)) /\ Len(rows') = Len(rows) BY <4>1, <4>4
      <4> QED BY <4>3, <4>5
    <3> QED BY <3>1, <3>2
  <2>3. /\ pc' = [pc EXCEPT ![t] = IF isMC THEN "idle" ELSE "header"]
        /\ UNCHANGED <<inputs, next, ev, state, callVars, outVars, header,
                       runInfo, startTime, stopTime, runN, fin, overlap>>
    BY <1>6, Zenon DEF FillDST
  <2>4. pc' \in [Threads -> PC]
    <3>1. "idle" \in PC /\ "header" \in PC BY DEF PC
    <3> QED BY <2>3, <3>1
  <2>6. /\ tree' \in 0..Len(rows') /\ objects' \subseteq DOMAIN rows'
        /\ dead' \subseteq DOMAIN rows'
    <3>1. DOMAIN rows' = DOMAIN rows BY <2>2
    <3>2. UNCHANGED <<tree, objects, dead>> BY <2>3
    <3> QED BY <2>2, <3>1, <3>2
  <2>7. /\ UNCHANGED <<isMC, DObuildDST, hasOutput, isET, overlap, daq, built, next, ev,
                       state, brunCalled, erunCalled, brunRun, bruns, isOpen, fname, disk>>
        /\ UNCHANGED <<header, runInfo, startTime, stopTime, runN, fin>>
    BY <2>3
  <2> QED BY <2>2, <2>4, <2>6, <2>7
<1>7. CASE FillHeader(t)
  <2>1. ev[t] \in Event /\ RunOf[ev[t]] \in Nat
    BY <1>7, RunNumbers DEF FillHeader, EventInv
  <2>2. ev[t] \in Int BY <2>1 DEF Event
  <2>3. header' \in Seq(Event) BY <1>7, <2>1 DEF FillHeader
  <2>4. startTime' \in Int /\ stopTime' \in Int /\ runN' \in Nat
    BY <1>7, <2>1, <2>2 DEF FillHeader
  <2> QED BY <1>7, <2>3, <2>4 DEF FillHeader, PC
<1> QED BY <1>1, <1>2, <1>3, <1>4, <1>5, <1>6, <1>7 DEF ThreadStep

\* Every step keeps the types.
LEMMA NextTypeOK == ASSUME TypeOK, EventInv, [Next]_vars PROVE TypeOK'
<1>1. CASE FiniErun
  <2> USE DEF TypeOK, inputs, callVars, outVars, treeVars, threadVars
  <2>1. CASE ErunCall
    <3>1. /\ isOpen' \in BOOLEAN /\ fname' \in FileNames /\ DOMAIN disk' = FileNames
          /\ objects' = objects /\ tree' = tree
          /\ dead' \subseteq DOMAIN rows
          /\ erunCalled' = TRUE
          /\ runInfo' \in Seq([run : Nat, start : Int, stop : Int])
          /\ UNCHANGED <<rows, header, startTime, stopTime, runN>>
      BY <2>1, ErunCallTypes
    <3> QED BY <1>1, <3>1 DEF FiniErun
  <2>2. CASE UNCHANGED <<erunCalled, outVars, treeVars>> BY <1>1, <2>2 DEF FiniErun
  <2> QED BY <1>1, <2>1, <2>2 DEF FiniErun
<1>2. CASE Fini
  <2> USE DEF TypeOK, inputs, callVars, outVars, treeVars, threadVars
  <2>1. /\ isOpen' \in BOOLEAN /\ fname' \in FileNames /\ DOMAIN disk' = FileNames
        /\ objects' = objects /\ tree' = tree
        /\ dead' \subseteq DOMAIN rows
    BY <1>2, CloseOutputTypes DEF Fini
  <2> QED BY <1>2, <2>1 DEF Fini
<1>3. CASE UNCHANGED vars
  BY <1>3 DEF vars, TypeOK, inputs, callVars, outVars, treeVars, threadVars
<1> QED BY <1>1, <1>2, <1>3, ThreadTypeOK DEF Next, Ended

-----------------------------------------------------------------------------
(***************************************************************************)
(* Events, threads and the state mutex.                                    *)
(***************************************************************************)

\* The options and the input do not change, and so the wanted events do not.
LEMMA InputsUnchanged ==
    ASSUME [Next]_vars PROVE UNCHANGED <<inputs, Wanted>>
<1>1. UNCHANGED inputs
  BY DEF Next, vars, ThreadStep, TakeEvent, LockState, Erun, Brun, Evnt, FillDST, FillHeader,
     FiniErun, Fini, Ended
<1> QED BY <1>1 DEF inputs, Wanted

\* Every step of a thread keeps the events apart.
LEMMA ThreadEventInv ==
    ASSUME TypeOK, EventInv, CallInv, ~undef, NEW t \in Threads, ThreadStep(t),
           UNCHANGED <<inputs, Wanted>>
    PROVE  EventInv'
<1> USE RunOutputAssumption, RONobodyAssumption DEF EventInv, inputs, InCall
<1>1. CASE TakeEvent(t)
  <2>1. next \in Event /\ fin = "no" BY <1>1 DEF TakeEvent, Event, TypeOK
  <2>2. /\ ev' = [ev EXCEPT ![t] = next] /\ next' = next + 1
        /\ pc' = [pc EXCEPT ![t] = "lock"] /\ UNCHANGED <<state, fin, undef>>
        /\ pc[t] = "idle"
    BY <1>1 DEF TakeEvent
  <2>3. \A u \in Threads : ev'[u] < next' /\ (pc'[u] # "idle" => ev'[u] \in Event)
    BY <2>1, <2>2 DEF TypeOK, Event
  <2>4. \A u, v \in Threads : ev'[u] = ev'[v] /\ ev'[u] # 0 => u = v
    BY <2>1, <2>2 DEF TypeOK, Event
  <2>5. /\ \A u \in Threads : pc'[u] \in InCall <=> state' = u
        /\ \A u \in Threads : pc'[u] \in {"dst", "header"} => hasOutput /\ ev'[u] \in Wanted
        /\ \A u \in Threads : pc'[u] = "dst" => DObuildDST
        /\ \A u \in Threads : pc'[u] = "header" => ~isMC
    BY <2>2 DEF TypeOK
  <2> QED BY <2>1, <2>2, <2>3, <2>4, <2>5
<1>2. CASE LockState(t)
  <2>1. /\ pc[t] = "lock" /\ state = Nobody /\ UNCHANGED <<ev, next, fin, undef>>
        /\ \/ pc' = [pc EXCEPT ![t] = "erun"] /\ state' = t
           \/ pc' = [pc EXCEPT ![t] = "brun"] /\ state' = t
           \/ pc' = [pc EXCEPT ![t] = "evnt"] /\ state' = Nobody
    BY <1>2 DEF LockState
  <2> QED BY <2>1 DEF TypeOK
<1>3. CASE Erun(t)
  <2>1. /\ pc[t] = "erun" /\ pc' = [pc EXCEPT ![t] = "brun"]
        /\ UNCHANGED <<ev, next, fin, undef, state>>
    BY <1>3 DEF Erun
  <2> QED BY <2>1 DEF TypeOK
<1>4. CASE Brun(t)
  <2>1. /\ pc[t] = "brun" /\ pc' = [pc EXCEPT ![t] = "evnt"] /\ state' = Nobody
        /\ UNCHANGED <<ev, next, fin, undef>>
    BY <1>4 DEF Brun
  <2> QED BY <2>1 DEF TypeOK
<1>5. CASE Evnt(t)
  <2>1. /\ pc[t] = "evnt" /\ UNCHANGED <<ev, next, fin, undef, state>>
        /\ \/ pc' = [pc EXCEPT ![t] = "idle"]
           \/ pc' = [pc EXCEPT ![t] = "dst"] /\ DObuildDST /\ hasOutput /\ ev[t] \in Wanted
           \/ /\ pc' = [pc EXCEPT ![t] = "header"]
              /\ ~isMC /\ hasOutput /\ ev[t] \in Wanted
    BY <1>5 DEF Evnt, Wanted
  <2> QED BY <2>1 DEF TypeOK
<1>6. CASE FillDST(t)
  <2>1. /\ pc[t] = "dst" /\ UNCHANGED <<ev, next, fin, state>>
        /\ \/ pc' = [pc EXCEPT ![t] = "idle"]
           \/ pc' = [pc EXCEPT ![t] = "header"] /\ ~isMC
    BY <1>6 DEF FillDST
  <2> QED BY <2>1 DEF TypeOK
<1>7. CASE FillHeader(t)
  <2>1. /\ pc[t] = "header" /\ UNCHANGED <<ev, next, fin, undef, state>>
        /\ pc' = [pc EXCEPT ![t] = "idle"]
    BY <1>7 DEF FillHeader
  <2> QED BY <2>1 DEF TypeOK
<1> QED BY <1>1, <1>2, <1>3, <1>4, <1>5, <1>6, <1>7 DEF ThreadStep

\* Every step does.
LEMMA NextEventInv == ASSUME TypeOK, EventInv, CallInv, [Next]_vars PROVE EventInv'
<1>1. UNCHANGED <<inputs, Wanted>> BY InputsUnchanged
<1>2. CASE ~undef /\ FiniErun
  BY <1>1, <1>2 DEF EventInv, FiniErun, inputs, threadVars, TypeOK
<1>3. CASE ~undef /\ Fini
  BY <1>1, <1>3 DEF EventInv, Fini, inputs, threadVars, TypeOK
<1>4. CASE UNCHANGED vars
  BY <1>1, <1>4 DEF EventInv, vars, inputs, threadVars
<1> QED BY <1>1, <1>2, <1>3, <1>4, ThreadEventInv DEF Next, Ended

\* Every step of a thread keeps brun and erun in turn.
LEMMA ThreadCallInv ==
    ASSUME TypeOK, EventInv, CallInv, NEW t \in Threads, ThreadStep(t)
    PROVE  CallInv'
<1> USE RunOutputAssumption, RONobodyAssumption DEF CallInv, NoRun, InRun, Past, InCall
<1>1. CASE TakeEvent(t)
  <2>1. /\ ev' = [ev EXCEPT ![t] = next] /\ next' = next + 1
        /\ pc' = [pc EXCEPT ![t] = "lock"] /\ pc[t] = "idle"
        /\ UNCHANGED <<state, fin, callVars, runInfo, header>>
    BY <1>1 DEF TakeEvent, treeVars
  <2> QED BY <2>1 DEF TypeOK, callVars
<1>2. CASE LockState(t)
  <2>1. /\ pc[t] = "lock" /\ state = Nobody
        /\ UNCHANGED <<ev, next, fin, runInfo, header, bruns, brunRun, erunCalled>>
        /\ \/ /\ pc' = [pc EXCEPT ![t] = "erun"] /\ state' = t
              /\ brunCalled /\ ~erunCalled /\ ~brunCalled' /\ RunOf[ev[t]] # brunRun
           \/ /\ pc' = [pc EXCEPT ![t] = "brun"] /\ state' = t
              /\ ~brunCalled' /\ (~brunCalled \/ (erunCalled /\ RunOf[ev[t]] # brunRun))
           \/ /\ pc' = [pc EXCEPT ![t] = "evnt"] /\ state' = Nobody
              /\ brunCalled /\ brunCalled' /\ RunOf[ev[t]] = brunRun
    BY <1>2 DEF LockState, treeVars, TypeOK
  <2>2. fin = "no" BY <2>1 DEF EventInv
  <2>3. ev[t] \in Event /\ RunOf[ev[t]] # -1 BY <2>1, RunNumbers DEF EventInv
  <2>4. \A u \in Threads : pc[u] \notin InCall BY <2>1 DEF EventInv
  <2>5. CASE pc' = [pc EXCEPT ![t] = "erun"] BY <2>1, <2>2, <2>4, <2>5 DEF TypeOK
  <2>6. CASE pc' = [pc EXCEPT ![t] = "brun"] BY <2>1, <2>2, <2>3, <2>4, <2>6 DEF TypeOK
  <2>7. CASE pc' = [pc EXCEPT ![t] = "evnt"] BY <2>1, <2>2, <2>4, <2>7 DEF TypeOK
  <2> QED BY <2>1, <2>5, <2>6, <2>7
<1>3. CASE Erun(t)
  <2>1. /\ pc[t] = "erun" /\ pc' = [pc EXCEPT ![t] = "brun"]
        /\ UNCHANGED <<ev, next, fin, state, bruns, brunRun, brunCalled>>
        /\ Len(runInfo') = Len(runInfo) + 1 /\ UNCHANGED header
    BY <1>3, ErunCallTypes DEF Erun
  <2>2. fin = "no" /\ state = t /\ \A u \in Threads : u # t => pc[u] \notin InCall
    BY <2>1 DEF EventInv
  <2>3. Len(runInfo) \in Nat /\ Len(bruns) \in Nat BY DEF TypeOK
  <2> QED BY <2>1, <2>2, <2>3 DEF TypeOK
<1>4. CASE Brun(t)
  <2>1. ev[t] \in Event BY <1>4 DEF Brun, EventInv
  <2>2. RunOf[ev[t]] \in FileNames /\ RunOf[ev[t]] \in Nat BY <2>1, RunNumbers
  <2>3. /\ pc[t] = "brun" /\ pc' = [pc EXCEPT ![t] = "evnt"] /\ state' = Nobody
        /\ brunCalled' = TRUE /\ erunCalled' = FALSE
        /\ Len(bruns') = Len(bruns) + 1
        /\ UNCHANGED <<ev, next, fin, runInfo, header>>
    BY <1>4, <2>2, BrunCallTypes DEF Brun
  <2>4. fin = "no" /\ \A u \in Threads : u # t => pc[u] \notin InCall
    BY <2>3 DEF EventInv
  <2>5. Len(runInfo) \in Nat /\ Len(bruns) \in Nat BY DEF TypeOK
  <2> QED BY <2>3, <2>4, <2>5 DEF TypeOK
<1>5. CASE Evnt(t) \/ FillDST(t) \/ FillHeader(t)
  <2>1. /\ pc[t] \in Past
        /\ pc' \in {[pc EXCEPT ![t] = a] : a \in {"idle", "dst", "header"}}
        /\ UNCHANGED <<ev, next, fin, state, callVars, runInfo>>
    BY <1>5 DEF Evnt, FillDST, FillHeader, treeVars
  <2>2. Len(bruns) > 0 BY <2>1
  <2>3. \A u \in Threads : pc'[u] \in InCall => pc[u] = pc'[u]
    BY <2>1 DEF TypeOK
  <2>4. bruns' = bruns /\ brunCalled' = brunCalled /\ erunCalled' = erunCalled /\ brunRun' = brunRun
    BY <2>1 DEF callVars
  <2> QED BY <2>1, <2>2, <2>3, <2>4
<1> QED BY <1>1, <1>2, <1>3, <1>4, <1>5 DEF ThreadStep

\* Every step does: Fini's erun ends the last run.
LEMMA NextCallInv == ASSUME TypeOK, EventInv, CallInv, [Next]_vars PROVE CallInv'
<1> USE DEF CallInv, NoRun, InRun, Past, InCall
<1>1. CASE FiniErun
  <2>1. /\ fin = "no" /\ fin' = "erun" /\ \A t \in Threads : pc[t] = "idle"
        /\ UNCHANGED <<pc, ev, next, state, brunCalled, brunRun, bruns>>
    BY <1>1 DEF FiniErun, threadVars
  <2>2. state = Nobody BY <2>1 DEF TypeOK, EventInv
  <2>3. CASE brunCalled /\ ~erunCalled
    <3>1. Len(runInfo') = Len(runInfo) + 1 /\ UNCHANGED header
      BY <1>1, <2>3, ErunCallTypes DEF FiniErun
    <3>2. Len(runInfo) \in Nat /\ Len(bruns) \in Nat BY DEF TypeOK
    <3> QED BY <2>1, <2>2, <2>3, <3>1, <3>2
  <2>4. CASE ~(brunCalled /\ ~erunCalled)
    <3>1. UNCHANGED <<runInfo, header>> BY <1>1, <2>4 DEF FiniErun, treeVars
    <3> QED BY <2>1, <2>2, <2>4, <3>1
  <2> QED BY <2>3, <2>4
<1>2. CASE Fini
  BY <1>2 DEF Fini, threadVars, callVars, treeVars
<1>3. CASE UNCHANGED vars
  BY <1>3 DEF vars, threadVars, callVars, treeVars
<1> QED BY <1>1, <1>2, <1>3, ThreadCallInv DEF Next, Ended

\* Every step keeps the times around those of the events.
LEMMA NextTimeInv ==
    ASSUME TypeOK, EventInv, CallInv, TimeInv, [Next]_vars PROVE TimeInv'
<1>1. ASSUME NEW t \in Threads, FillHeader(t) PROVE TimeInv'
  <2> DEFINE e == ev[t]
  <2>1. /\ header' = Append(header, e)
        /\ startTime' = (IF e < startTime THEN e ELSE startTime)
        /\ stopTime' = (IF e > stopTime THEN e ELSE stopTime)
        /\ UNCHANGED fin
        /\ pc[t] = "header"
    BY <1>1 DEF FillHeader
  <2>2. e \in Int /\ fin = "no" BY <2>1 DEF EventInv, Event
  <2>3. startTime \in Int /\ stopTime \in Int /\ header \in Seq(Event) BY DEF TypeOK
  <2>4. e \in Event /\ \A i \in DOMAIN header : header[i] \in Int
    <3>1. e \in Event BY <2>1 DEF EventInv
    <3>2. \A i \in DOMAIN header : header[i] \in Event BY <2>3
    <3>3. Event \subseteq Int BY DEF Event
    <3> QED BY <3>1, <3>2, <3>3
  <2> HIDE DEF e
  <2>5. \A i \in DOMAIN header' : startTime' <= header'[i] /\ header'[i] <= stopTime'
    <3> SUFFICES ASSUME NEW i \in DOMAIN header'
                 PROVE  startTime' <= header'[i] /\ header'[i] <= stopTime'
      OBVIOUS
    <3>1. CASE i = Len(header) + 1 BY <2>1, <2>2, <2>3, <2>4, <3>1
    <3>2. CASE i # Len(header) + 1
      <4>1. i \in DOMAIN header /\ header'[i] = header[i] BY <2>1, <2>3, <2>4, <3>2
      <4> QED BY <2>1, <2>2, <2>3, <2>4, <4>1 DEF TimeInv
    <3> QED BY <3>1, <3>2
  <2> QED BY <2>1, <2>2, <2>5 DEF TimeInv
<1>2. CASE FiniErun
  <2>1. /\ fin = "no" /\ \A t \in Threads : pc[t] = "idle"
    BY <1>2 DEF FiniErun
  <2>2. state = Nobody BY <2>1 DEF TypeOK, EventInv, InCall
  <2>3. CASE brunCalled /\ ~erunCalled
    BY <1>2, <2>3, ErunCallTypes DEF FiniErun, TimeInv
  <2>4. CASE ~(brunCalled /\ ~erunCalled)
    <3>1. UNCHANGED <<runInfo, header, startTime, stopTime>>
      BY <1>2, <2>4 DEF FiniErun, treeVars
    <3>2. header = <<>> BY <2>1, <2>2, <2>4 DEF CallInv, NoRun, InRun
    <3> QED BY <3>1, <3>2 DEF TimeInv
  <2> QED BY <2>3, <2>4
<1>3. ASSUME NEW t \in Threads, Erun(t) PROVE TimeInv'
  <2>1. UNCHANGED <<header, startTime, stopTime, fin>> /\ pc[t] = "erun"
    BY <1>3, ErunCallTypes DEF Erun
  <2>2. fin = "no" BY <2>1 DEF EventInv
  <2> QED BY <2>1, <2>2 DEF TimeInv
<1>4. CASE Fini BY <1>4 DEF Fini, treeVars, TimeInv
<1>5. CASE UNCHANGED vars BY <1>5 DEF vars, treeVars, TimeInv
<1>6. ASSUME NEW t \in Threads, \/ TakeEvent(t) \/ LockState(t) \/ Brun(t) \/ Evnt(t)
                                \/ FillDST(t)
      PROVE  TimeInv'
  <2>1. UNCHANGED <<header, startTime, stopTime, runInfo, fin>>
    BY <1>6 DEF TakeEvent, LockState, Brun, Evnt, FillDST, treeVars
  <2> QED BY <2>1 DEF TimeInv
<1> QED BY <1>1, <1>2, <1>3, <1>4, <1>5, <1>6 DEF Next, Ended, ThreadStep

-----------------------------------------------------------------------------
(***************************************************************************)
(* The file and its trees.                                                 *)
(***************************************************************************)

\* What erun does to the output: with one file for each run it closes it.
LEMMA ErunCallOutput ==
    ASSUME TypeOK, ErunCall
    PROVE  \/ UNCHANGED outVars /\ (isET /\ hasOutput => ~isOpen)
           \/ /\ isET /\ hasOutput /\ isOpen /\ ~isOpen'
              /\ disk' = [disk EXCEPT ![fname] =
                            [dst |-> {rows[i] : i \in objects},
                             header |-> header, runInfo |-> runInfo']]
              /\ dead' = DOMAIN rows
              /\ UNCHANGED <<fname, objects, tree>>
BY DEF ErunCall, CloseOutput, TypeOK

\* What brun does to the output.
LEMMA BrunCallOutput ==
    ASSUME TypeOK, NEW r \in FileNames, r \in Nat, BrunCall(r), hasOutput
    PROVE  /\ isOpen' = TRUE
           /\ isOpen => UNCHANGED <<fname, disk>>
           /\ ~isOpen => /\ fname' = (IF isET THEN r ELSE 0)
                         /\ disk' = [disk EXCEPT ![fname'] = EmptyFile]
           /\ DObuildDST => /\ tree' = Len(rows) + 1 /\ tree' \notin DOMAIN rows
                            /\ rows' = Append(rows, <<>>)
                            /\ DOMAIN rows' = DOMAIN rows \cup {tree'}
                            /\ \A k \in DOMAIN rows : rows'[k] = rows[k]
                            /\ rows'[tree'] = <<>>
                            /\ objects' = (IF isOpen THEN objects ELSE {}) \cup {tree'}
           /\ ~DObuildDST => /\ objects' = (IF isOpen THEN objects ELSE {})
                             /\ UNCHANGED <<tree, rows>>
           /\ UNCHANGED dead
<1>1. /\ isOpen' = TRUE
      /\ isOpen => UNCHANGED <<fname, disk>>
      /\ ~isOpen => /\ fname' = (IF isET THEN r ELSE 0)
                    /\ disk' = [disk EXCEPT ![fname'] = EmptyFile]
      /\ UNCHANGED dead
  BY DEF BrunCall, OpenOutput
<1>2. CASE DObuildDST
  <2>1. /\ tree' = Len(rows) + 1 /\ rows' = Append(rows, <<>>)
        /\ objects' = (IF isOpen THEN objects ELSE {}) \cup {tree'}
    BY <1>2 DEF BrunCall, MakeDST
  <2>2. rows \in Seq(Seq(Event)) BY DEF TypeOK
  <2>3. /\ tree' \notin DOMAIN rows /\ DOMAIN rows' = DOMAIN rows \cup {tree'}
        /\ \A k \in DOMAIN rows : rows'[k] = rows[k]
        /\ rows'[tree'] = <<>>
    BY <2>1, <2>2
  <2> QED BY <1>1, <1>2, <2>1, <2>3
<1>3. CASE ~DObuildDST BY <1>1, <1>3 DEF BrunCall
<1> QED BY <1>2, <1>3

\* What a fill of the tree does to the rows.
LEMMA FillDSTRows ==
    ASSUME TypeOK, NEW t \in Threads, FillDST(t), ev[t] \in Event, tree \notin dead \cup {0}
    PROVE  /\ tree \in DOMAIN rows /\ DOMAIN rows' = DOMAIN rows /\ UNCHANGED undef
           /\ rows[tree] \in Seq(Event) /\ rows'[tree] = Append(rows[tree], ev[t])
           /\ \A k \in DOMAIN rows : k # tree => rows'[k] = rows[k]
<1>1. rows' = [rows EXCEPT ![tree] = Append(rows[tree], ev[t])] /\ UNCHANGED undef
  BY DEF FillDST
<1>2. tree \in DOMAIN rows /\ rows \in Seq(Seq(Event)) BY DEF TypeOK
<1>3. rows[tree] \in Seq(Event) BY <1>2
<1> DEFINE q == Append(rows[tree], ev[t])
<1> HIDE DEF q
<1>4. rows' = [rows EXCEPT ![tree] = q] BY <1>1 DEF q
<1>5. DOMAIN rows' = DOMAIN rows /\ rows'[tree] = q
      /\ \A k \in DOMAIN rows : k # tree => rows'[k] = rows[k]
  BY <1>2, <1>4
<1> QED BY <1>1, <1>2, <1>3, <1>5 DEF q

\* Every step of a thread keeps the file open in a run.
LEMMA ThreadFileInv ==
    ASSUME TypeOK, EventInv, CallInv, FileInv, NEW t \in Threads, ThreadStep(t),
           UNCHANGED <<inputs, Wanted>>
    PROVE  FileInv'
<1> USE RONobodyAssumption DEF FileInv, inputs
<1>1. CASE TakeEvent(t)
  <2>1. /\ pc' = [pc EXCEPT ![t] = "lock"] /\ pc[t] = "idle"
        /\ UNCHANGED <<state, fin, bruns, outVars, rows, header>>
    BY <1>1 DEF TakeEvent, treeVars, callVars
  <2> QED BY <2>1 DEF TypeOK, outVars
<1>2. CASE LockState(t)
  <2>1. /\ pc[t] = "lock" /\ state = Nobody
        /\ UNCHANGED <<fin, bruns, outVars, rows, header>>
        /\ \/ pc' = [pc EXCEPT ![t] = "erun"] /\ state' = t
           \/ pc' = [pc EXCEPT ![t] = "brun"] /\ state' = t /\ (~brunCalled \/ erunCalled)
           \/ pc' = [pc EXCEPT ![t] = "evnt"] /\ state' = Nobody
    BY <1>2 DEF LockState, treeVars, TypeOK
  <2>2. fin = "no" BY <2>1 DEF EventInv
  <2>3. (~brunCalled \/ erunCalled) => ~isOpen
    BY <2>1, <2>2 DEF CallInv, NoRun
  <2> QED BY <2>1, <2>2, <2>3 DEF TypeOK, outVars
<1>3. CASE Erun(t)
  <2>1. /\ pc[t] = "erun" /\ pc' = [pc EXCEPT ![t] = "brun"]
        /\ UNCHANGED <<fin, bruns, state, rows, header>> /\ ErunCall
    BY <1>3, ErunCallTypes DEF Erun
  <2>2. fin = "no" /\ state = t BY <2>1 DEF EventInv, InCall
  <2>3. CASE UNCHANGED outVars /\ (isET /\ hasOutput => ~isOpen)
    BY <2>1, <2>2, <2>3 DEF TypeOK, outVars, EventInv
  <2>4. CASE isET /\ ~isOpen'
    BY <2>1, <2>2, <2>4 DEF TypeOK
  <2> QED BY <2>1, <2>3, <2>4, ErunCallOutput
<1>4. CASE Brun(t)
  <2> DEFINE r == RunOf[ev[t]]
  <2>1. ev[t] \in Event BY <1>4 DEF Brun, EventInv
  <2>2. r \in FileNames /\ r \in Nat BY <2>1, RunNumbers
  <2>3. /\ pc[t] = "brun" /\ pc' = [pc EXCEPT ![t] = "evnt"] /\ state' = Nobody
        /\ BrunCall(r) /\ UNCHANGED <<fin, header>>
        /\ Len(bruns') = Len(bruns) + 1
    BY <1>4, <2>2, BrunCallTypes DEF Brun
  <2>4. fin = "no" /\ \A u \in Threads : u # t => pc[u] \notin InCall
    BY <2>3 DEF EventInv, InCall
  <2>5. Len(bruns) \in Nat BY DEF TypeOK
  <2>6. \A u \in Threads : pc'[u] # "brun" BY <2>3, <2>4 DEF InCall, TypeOK
  <2> HIDE DEF r
  <2>7. CASE ~hasOutput
    <3>1. UNCHANGED <<outVars, rows>> BY <2>3, <2>7 DEF BrunCall
    <3> QED BY <2>3, <2>4, <2>5, <2>6, <2>7, <3>1 DEF outVars, EventInv
  <2>8. CASE hasOutput /\ DObuildDST
    <3>1. /\ isOpen' = TRUE
          /\ isOpen => UNCHANGED <<fname, disk>>
          /\ ~isOpen => fname' = (IF isET THEN r ELSE 0)
          /\ tree' \notin DOMAIN rows
          /\ DOMAIN rows' = DOMAIN rows \cup {tree'}
          /\ objects' = (IF isOpen THEN objects ELSE {}) \cup {tree'}
          /\ UNCHANGED dead
      BY <2>2, <2>3, <2>8, BrunCallOutput
    <3>2. dead \subseteq DOMAIN rows BY DEF TypeOK
    <3>3. ~isET => objects' = DOMAIN rows' BY <2>4, <2>5, <2>8, <3>1
    <3> QED BY <2>3, <2>4, <2>5, <2>6, <2>8, <3>1, <3>2, <3>3
  <2>9. CASE hasOutput /\ ~DObuildDST
    <3>1. /\ isOpen' = TRUE
          /\ isOpen => UNCHANGED <<fname, disk>>
          /\ ~isOpen => fname' = (IF isET THEN r ELSE 0)
          /\ objects' = (IF isOpen THEN objects ELSE {})
          /\ UNCHANGED rows
      BY <2>2, <2>3, <2>9, BrunCallOutput
    <3> QED BY <2>3, <2>4, <2>5, <2>6, <2>9, <3>1
  <2> QED BY <2>7, <2>8, <2>9
<1>5. CASE Evnt(t) \/ FillHeader(t)
  <2>1. /\ pc[t] \in Past
        /\ pc' \in {[pc EXCEPT ![t] = a] : a \in {"idle", "dst", "header"}}
        /\ UNCHANGED <<fin, bruns, state, outVars, rows>>
    BY <1>5 DEF Evnt, FillHeader, treeVars, callVars, Past
  <2>2. fin = "no" BY <2>1 DEF EventInv, Past
  <2> QED BY <2>1, <2>2 DEF TypeOK, outVars
<1>6. CASE FillDST(t)
  <2>1. /\ pc[t] = "dst"
        /\ pc' \in {[pc EXCEPT ![t] = a] : a \in {"idle", "header"}}
        /\ UNCHANGED <<fin, bruns, state, outVars, header>>
    BY <1>6 DEF FillDST, callVars
  <2>2. fin = "no" /\ ev[t] \in Event BY <2>1 DEF EventInv
  <2>3. DOMAIN rows' = DOMAIN rows
    <3>1. CASE tree \in dead \cup {0} BY <1>6, <3>1 DEF FillDST
    <3>2. CASE tree \notin dead \cup {0} BY <1>6, <2>2, <3>2, FillDSTRows
    <3> QED BY <3>1, <3>2
  <2> QED BY <2>1, <2>2, <2>3 DEF TypeOK, outVars
<1> QED BY <1>1, <1>2, <1>3, <1>4, <1>5, <1>6 DEF ThreadStep

\* Every step does; Fini closes a single file.
LEMMA NextFileInv ==
    ASSUME TypeOK, EventInv, CallInv, FileInv, [Next]_vars PROVE FileInv'
<1> USE DEF FileInv, inputs
<1>1. UNCHANGED <<inputs, Wanted>> BY InputsUnchanged
<1>2. CASE FiniErun
  <2>1. /\ fin = "no" /\ fin' = "erun" /\ \A t \in Threads : pc[t] = "idle"
        /\ UNCHANGED <<pc, state, bruns>>
    BY <1>2 DEF FiniErun, threadVars
  <2>2. state = Nobody BY <2>1 DEF TypeOK, EventInv, InCall
  <2>3. CASE brunCalled /\ ~erunCalled
    <3>1. ErunCall /\ UNCHANGED <<rows, header>> BY <1>2, <2>3, ErunCallTypes DEF FiniErun
    <3>2. CASE UNCHANGED outVars /\ (isET /\ hasOutput => ~isOpen)
      BY <1>1, <2>1, <3>1, <3>2 DEF outVars, EventInv
    <3>3. CASE isET /\ ~isOpen' BY <1>1, <2>1, <3>1, <3>3
    <3> QED BY <3>1, <3>2, <3>3, ErunCallOutput
  <2>4. CASE ~(brunCalled /\ ~erunCalled)
    <3>1. UNCHANGED <<outVars, rows, header>> BY <1>2, <2>4 DEF FiniErun, treeVars
    <3>2. Len(bruns) = 0 BY <2>1, <2>2, <2>4 DEF CallInv, NoRun
    <3> QED BY <1>1, <2>1, <3>1, <3>2 DEF outVars
  <2> QED BY <2>3, <2>4
<1>3. CASE Fini
  <2>1. /\ fin = "erun" /\ fin' = "done" /\ UNCHANGED <<pc, state, bruns, rows, header>>
        /\ IF hasOutput THEN CloseOutput(runInfo) ELSE UNCHANGED outVars
    BY <1>3 DEF Fini, threadVars, callVars, treeVars
  <2>2. \A t \in Threads : pc[t] = "idle" BY <2>1 DEF EventInv
  <2>3. CASE ~hasOutput \/ ~isOpen
    <3>1. UNCHANGED outVars BY <2>1, <2>3 DEF CloseOutput
    <3> QED BY <1>1, <2>1, <2>2, <2>3, <3>1 DEF outVars
  <2>4. CASE hasOutput /\ isOpen
    <3>1. /\ ~isOpen' /\ UNCHANGED fname
          /\ disk' = [disk EXCEPT ![fname] = [dst |-> {rows[i] : i \in objects},
                                              header |-> header, runInfo |-> runInfo]]
      BY <2>1, <2>4 DEF CloseOutput
    <3>2. ~isET BY <2>1, <2>4
    <3>3. fname = 0 /\ objects = DOMAIN rows BY <2>1, <3>2
    <3>4. 0 \in DOMAIN disk BY DEF TypeOK, FileNames
    <3>5. /\ disk'[0].dst = {rows[i] : i \in DOMAIN rows}
          /\ disk'[0].header = header
      BY <3>1, <3>3, <3>4
    <3> QED BY <1>1, <2>1, <2>2, <3>1, <3>2, <3>3, <3>5
  <2> QED BY <2>3, <2>4
<1>4. CASE UNCHANGED vars
  BY <1>4 DEF vars, threadVars, callVars, treeVars, outVars
<1> QED BY <1>1, <1>2, <1>3, <1>4, ThreadFileInv DEF Next, Ended

-----------------------------------------------------------------------------
(***************************************************************************)
(* Events of two runs in process together.                                 *)
(***************************************************************************)

\* Without an overlap the events in process are of one run.
LEMMA SameRun ==
    ASSUME TypeOK, EventInv, OverlapInv, ~overlap,
           NEW t \in Threads, NEW u \in Threads, pc[t] # "idle", pc[u] # "idle"
    PROVE  RunOf[ev[t]] = RunOf[ev[u]]
<1>1. ev[t] \in Event /\ ev[u] \in Event /\ ev[t] < next /\ ev[u] < next
  BY DEF EventInv
<1>2. ev[t] <= ev[u] \/ ev[u] <= ev[t] BY <1>1 DEF Event
<1> QED BY <1>1, <1>2 DEF OverlapInv

\* So a thread that calls erun or brun is alone: nobody is in evnt.
LEMMA AloneInCall ==
    ASSUME TypeOK, EventInv, CallInv, OverlapInv, ~overlap,
           NEW t \in Threads, pc[t] \in InCall
    PROVE  \A u \in Threads : pc[u] \notin Past
<1> SUFFICES ASSUME NEW u \in Threads, pc[u] \in Past PROVE FALSE OBVIOUS
<1>1. RunOf[ev[t]] = RunOf[ev[u]] BY SameRun DEF InCall, Past
<1> QED BY <1>1 DEF CallInv, OverlapInv

\* Whoever fills the tree finds it there, unless runs overlap.
LEMMA TreeAlive ==
    ASSUME TypeOK, EventInv, CallInv, FileInv, OverlapInv, NEW t \in Threads,
           pc[t] = "dst", ~overlap \/ ~isET
    PROVE  tree \notin dead \cup {0}
<1>1. hasOutput /\ DObuildDST /\ fin = "no" BY DEF EventInv
<1>2. Len(bruns) > 0 BY DEF CallInv, Past
<1>3. isOpen
  <2>1. CASE ~overlap BY <1>1, <2>1 DEF OverlapInv, Past
  <2>2. CASE ~isET BY <1>1, <1>2, <2>2 DEF FileInv
  <2> QED BY <2>1, <2>2
<1>4. tree \in DOMAIN rows \ dead BY <1>1, <1>3 DEF FileInv
<1>5. 0 \notin DOMAIN rows BY DEF TypeOK
<1> QED BY <1>4, <1>5

\* Every step of a thread keeps that.
LEMMA ThreadOverlapInv ==
    ASSUME TypeOK, EventInv, CallInv, FileInv, OverlapInv, ~undef,
           NEW t \in Threads, ThreadStep(t), UNCHANGED <<inputs, Wanted>>
    PROVE  OverlapInv'
<1> USE RONobodyAssumption DEF OverlapInv, inputs
<1>1. CASE TakeEvent(t)
  <2>1. /\ ev' = [ev EXCEPT ![t] = next] /\ next' = next + 1
        /\ pc' = [pc EXCEPT ![t] = "lock"] /\ pc[t] = "idle"
        /\ UNCHANGED <<brunRun, isOpen, undef>>
        /\ ~overlap' => ~overlap /\ \A u \in Threads :
                           pc[u] = "idle" \/ RunOf[ev[u]] = RunOf[next]
    BY <1>1 DEF TakeEvent, callVars, outVars, TypeOK
  <2>2. next \in Nat BY RunOutputAssumption DEF TypeOK
  <2> SUFFICES ASSUME ~overlap' PROVE OverlapInv!2!2' BY <2>1
  <2>3. ASSUME NEW u \in Threads, pc'[u] # "idle",
               NEW e \in Event, ev'[u] <= e, e < next'
        PROVE  RunOf[e] = RunOf[ev'[u]]
    <3>1. e \in Nat BY DEF Event
    <3>2. CASE u = t
      <4>1. ev'[u] = next BY <2>1, <3>2 DEF TypeOK
      <4> QED BY <2>1, <2>2, <2>3, <3>1, <4>1
    <3>3. CASE u # t
      <4>1. ev'[u] = ev[u] /\ pc[u] # "idle" BY <2>1, <2>3, <3>3 DEF TypeOK
      <4> QED BY <2>1, <2>2, <2>3, <3>1, <4>1
    <3> QED BY <3>2, <3>3
  <2>4. ASSUME NEW u \in Threads, pc'[u] \in Past
        PROVE  RunOf[ev'[u]] = brunRun' /\ (hasOutput => isOpen')
    BY <2>1, <2>4 DEF Past, TypeOK
  <2> QED BY <2>3, <2>4
<1>2. CASE LockState(t)
  <2>1. /\ pc[t] = "lock" /\ state = Nobody
        /\ UNCHANGED <<ev, next, fin, bruns, brunRun, isOpen, undef, overlap>>
        /\ \/ pc' = [pc EXCEPT ![t] = "erun"]
           \/ pc' = [pc EXCEPT ![t] = "brun"]
           \/ pc' = [pc EXCEPT ![t] = "evnt"] /\ brunCalled /\ RunOf[ev[t]] = brunRun
    BY <1>2 DEF LockState, TypeOK, outVars
  <2>2. fin = "no" BY <2>1 DEF EventInv
  <2>3. brunCalled /\ hasOutput => isOpen
    BY <2>1, <2>2 DEF CallInv, NoRun, InRun, FileInv
  <2> QED BY <2>1, <2>3 DEF TypeOK, Past
<1>3. CASE Erun(t)
  <2>1. /\ pc[t] = "erun" /\ pc' = [pc EXCEPT ![t] = "brun"]
        /\ UNCHANGED <<ev, next, brunRun, undef, overlap>>
    BY <1>3 DEF Erun
  <2>2. ~overlap => \A u \in Threads : pc'[u] \notin Past
    BY <2>1, AloneInCall DEF InCall, Past, TypeOK
  <2> QED BY <2>1, <2>2 DEF TypeOK
<1>4. CASE Brun(t)
  <2> DEFINE r == RunOf[ev[t]]
  <2>1. ev[t] \in Event BY <1>4 DEF Brun, EventInv
  <2>2. r \in FileNames /\ r \in Nat BY <2>1, RunNumbers
  <2>3. /\ pc[t] = "brun" /\ pc' = [pc EXCEPT ![t] = "evnt"]
        /\ BrunCall(r) /\ UNCHANGED <<ev, next, undef, overlap>>
        /\ brunRun' = r
    BY <1>4, <2>2, BrunCallTypes DEF Brun
  <2>4. ~overlap => \A u \in Threads : u # t => pc'[u] \notin Past
    BY <2>3, AloneInCall DEF InCall, TypeOK
  <2>5. hasOutput => isOpen' BY <2>2, <2>3, BrunCallOutput
  <2>6. \A u \in Threads : pc'[u] # "idle" <=> pc[u] # "idle" BY <2>3 DEF TypeOK
  <2> QED BY <2>3, <2>4, <2>5, <2>6
<1>5. CASE Evnt(t) \/ FillHeader(t)
  <2>1. /\ pc[t] \in Past
        /\ pc' \in {[pc EXCEPT ![t] = a] : a \in {"idle", "dst", "header"}}
        /\ UNCHANGED <<ev, next, brunRun, isOpen, undef, overlap>>
    BY <1>5 DEF Evnt, FillHeader, callVars, outVars, Past
  <2> QED BY <2>1 DEF TypeOK, Past
<1>6. CASE FillDST(t)
  <2>1. /\ pc[t] = "dst"
        /\ pc' \in {[pc EXCEPT ![t] = a] : a \in {"idle", "header"}}
        /\ UNCHANGED <<ev, next, brunRun, isOpen, overlap>>
        /\ undef' => tree \in dead \cup {0}
    BY <1>6 DEF FillDST, callVars, outVars
  <2>2. undef' => overlap /\ isET BY <2>1, TreeAlive DEF TypeOK
  <2> QED BY <2>1, <2>2 DEF TypeOK, Past
<1> QED BY <1>1, <1>2, <1>3, <1>4, <1>5, <1>6 DEF ThreadStep

\* Every step does: at the end no event is in process.
LEMMA NextOverlapInv ==
    ASSUME TypeOK, EventInv, CallInv, FileInv, OverlapInv, [Next]_vars PROVE OverlapInv'
<1>1. UNCHANGED <<inputs, Wanted>> BY InputsUnchanged
<1>2. CASE FiniErun \/ Fini
  <2>1. /\ \A t \in Threads : pc[t] = "idle"
        /\ UNCHANGED <<inputs, pc, undef, overlap>>
    BY <1>2 DEF FiniErun, Fini, threadVars, EventInv
  <2> QED BY <2>1 DEF OverlapInv, Past, inputs
<1>3. CASE UNCHANGED vars
  BY <1>3 DEF vars, OverlapInv, inputs, threadVars, callVars, outVars
<1> QED BY <1>1, <1>2, <1>3, ThreadOverlapInv DEF Next, Ended

-----------------------------------------------------------------------------
(***************************************************************************)
(* The rows of the trees.                                                  *)
(***************************************************************************)

\* Taking an event fills none.
LEMMA TakeFills ==
    ASSUME TypeOK, EventInv, NEW t \in Threads, TakeEvent(t), UNCHANGED Wanted
    PROVE  UNCHANGED <<Filled, HFilled>>
<1>1. /\ ev' = [ev EXCEPT ![t] = next] /\ next' = next + 1
      /\ pc' = [pc EXCEPT ![t] = "lock"] /\ pc[t] = "idle"
  BY DEF TakeEvent
<1>2. next \in Nat BY RunOutputAssumption DEF TypeOK
<1>3. \A u \in Threads : ev[u] # next BY <1>2 DEF EventInv, TypeOK, Event
<1>4. ev'[t] = next /\ pc'[t] = "lock" /\ \A u \in Threads : u # t =>
         ev'[u] = ev[u] /\ pc'[u] = pc[u]
  BY <1>1 DEF TypeOK
<1>5. Wanted \subseteq Nat BY DEF Wanted, Event
<1>6. \A e \in Wanted :
         /\ e \in Filled' <=> e \in Filled
         /\ e \in HFilled' <=> e \in HFilled
  <2> SUFFICES ASSUME NEW e \in Wanted PROVE /\ e \in Filled' <=> e \in Filled
                                             /\ e \in HFilled' <=> e \in HFilled
    OBVIOUS
  <2>1. e \in Nat BY <1>5
  <2>2. CASE e < next
    <3>1. e # next /\ e < next' BY <1>1, <1>2, <2>1, <2>2
    <3> QED BY <1>1, <1>4, <2>2, <3>1 DEF Filled, HFilled
  <2>3. CASE e = next
    <3>1. ~(e < next) BY <1>2, <2>3
    <3> QED BY <1>4, <2>3, <3>1 DEF Filled, HFilled
  <2>4. CASE e > next
    <3>1. ~(e < next) /\ ~(e < next') BY <1>1, <1>2, <2>1, <2>4
    <3> QED BY <3>1 DEF Filled, HFilled
  <2> QED BY <1>2, <2>1, <2>2, <2>3, <2>4
<1> QED BY <1>6 DEF Filled, HFilled

\* What one thread's going on does to the filled events, if it keeps its
\* event: that one may be filled now, or may have been.
LEMMA StepFills ==
    ASSUME TypeOK, EventInv, NEW t \in Threads, pc[t] # "idle",
           NEW a \in PC, pc' = [pc EXCEPT ![t] = a],
           UNCHANGED <<ev, next, Wanted>>
    PROVE  /\ \A e : e # ev[t] => (e \in Filled' <=> e \in Filled)
           /\ \A e : e # ev[t] => (e \in HFilled' <=> e \in HFilled)
           /\ ev[t] \in Filled <=> ev[t] \in Wanted /\ pc[t] = "header"
           /\ ev[t] \in Filled' <=> ev[t] \in Wanted /\ a \in {"idle", "header"}
           /\ ev[t] \notin HFilled
           /\ ev[t] \in HFilled' <=> ev[t] \in Wanted /\ a = "idle"
<1>1. pc'[t] = a /\ \A u \in Threads : u # t => pc'[u] = pc[u] BY DEF TypeOK
<1>2. ev[t] < next /\ \A u \in Threads : u # t => ev[u] # ev[t]
  BY DEF EventInv, Event
<1> QED BY <1>1, <1>2 DEF Filled, HFilled

\* The steps that fill nothing.
LEMMA NoFill ==
    ASSUME TypeOK, EventInv, [Next]_vars,
           \A t \in Threads : ~FillDST(t)
    PROVE  hasOutput /\ DObuildDST => UNCHANGED Filled
<1>1. UNCHANGED <<inputs, Wanted>> BY InputsUnchanged
<1>2. ASSUME NEW t \in Threads, LockState(t) \/ Erun(t) \/ Brun(t) \/ Evnt(t) \/ FillHeader(t),
             hasOutput, DObuildDST
      PROVE  UNCHANGED Filled
  <2>1. \E a \in PC :
          /\ pc' = [pc EXCEPT ![t] = a] /\ pc[t] # "idle" /\ UNCHANGED <<ev, next>>
          /\ (ev[t] \in Wanted /\ pc[t] = "header") <=> (ev[t] \in Wanted /\ a \in {"idle", "header"})
    <3>1. CASE LockState(t) \/ Erun(t) \/ Brun(t)
      <4>1. \E a \in {"erun", "brun", "evnt"} :
               /\ pc' = [pc EXCEPT ![t] = a] /\ pc[t] \in {"lock", "erun", "brun"}
               /\ UNCHANGED <<ev, next>>
        BY <3>1 DEF LockState, Erun, Brun
      <4> QED BY <4>1 DEF PC
    <3>2. CASE Evnt(t)
      <4>1. /\ pc[t] = "evnt" /\ UNCHANGED <<ev, next>>
            /\ \/ pc' = [pc EXCEPT ![t] = "idle"] /\ ev[t] \notin Wanted
               \/ pc' = [pc EXCEPT ![t] = "dst"]
        BY <1>2, <3>2 DEF Evnt, Wanted
      <4> QED BY <4>1 DEF PC
    <3>3. CASE FillHeader(t)
      <4>1. pc[t] = "header" /\ pc' = [pc EXCEPT ![t] = "idle"] /\ UNCHANGED <<ev, next>>
        BY <3>3 DEF FillHeader
      <4> QED BY <4>1 DEF PC
    <3> QED BY <1>2, <3>1, <3>2, <3>3
  <2>2. PICK a \in PC :
          /\ pc' = [pc EXCEPT ![t] = a] /\ pc[t] # "idle" /\ UNCHANGED <<ev, next>>
          /\ (ev[t] \in Wanted /\ pc[t] = "header") <=> (ev[t] \in Wanted /\ a \in {"idle", "header"})
    BY <2>1
  <2>3. \A e : e \in Filled' <=> e \in Filled BY <1>1, <2>2, StepFills
  <2> QED BY <2>3 DEF Filled
<1>3. CASE FiniErun \/ Fini \/ UNCHANGED vars
  <2>1. UNCHANGED <<pc, ev, next>> BY <1>3 DEF FiniErun, Fini, vars, threadVars
  <2> QED BY <1>1, <2>1 DEF Filled
<1> QED BY <1>1, <1>2, <1>3, TakeFills DEF Next, Ended, ThreadStep

\* The same for EventHeader.
LEMMA NoHFill ==
    ASSUME TypeOK, EventInv, [Next]_vars,
           \A t \in Threads : ~FillHeader(t)
    PROVE  hasOutput /\ ~isMC => UNCHANGED HFilled
<1>1. UNCHANGED <<inputs, Wanted>> BY InputsUnchanged
<1>2. ASSUME NEW t \in Threads, LockState(t) \/ Erun(t) \/ Brun(t) \/ Evnt(t) \/ FillDST(t),
             hasOutput, ~isMC
      PROVE  UNCHANGED HFilled
  <2>1. \E a \in PC :
          /\ pc' = [pc EXCEPT ![t] = a] /\ pc[t] # "idle" /\ UNCHANGED <<ev, next>>
          /\ a # "idle" \/ ev[t] \notin Wanted
    <3>1. CASE LockState(t) \/ Erun(t) \/ Brun(t)
      <4>1. \E a \in {"erun", "brun", "evnt"} :
               /\ pc' = [pc EXCEPT ![t] = a] /\ pc[t] \in {"lock", "erun", "brun"}
               /\ UNCHANGED <<ev, next>>
        BY <3>1 DEF LockState, Erun, Brun
      <4> QED BY <4>1 DEF PC
    <3>2. CASE Evnt(t)
      <4>1. /\ pc[t] = "evnt" /\ UNCHANGED <<ev, next>>
            /\ \/ pc' = [pc EXCEPT ![t] = "idle"] /\ ev[t] \notin Wanted
               \/ pc' = [pc EXCEPT ![t] = "dst"]
               \/ pc' = [pc EXCEPT ![t] = "header"]
        BY <1>2, <3>2 DEF Evnt, Wanted
      <4> QED BY <4>1 DEF PC
    <3>3. CASE FillDST(t)
      <4>1. pc[t] = "dst" /\ pc' = [pc EXCEPT ![t] = "header"] /\ UNCHANGED <<ev, next>>
        BY <1>2, <3>3 DEF FillDST
      <4> QED BY <4>1 DEF PC
    <3> QED BY <1>2, <3>1, <3>2, <3>3
  <2>2. PICK a \in PC :
          /\ pc' = [pc EXCEPT ![t] = a] /\ pc[t] # "idle" /\ UNCHANGED <<ev, next>>
          /\ a # "idle" \/ ev[t] \notin Wanted
    BY <2>1
  <2>3. \A e : e \in HFilled' <=> e \in HFilled BY <1>1, <2>2, StepFills
  <2> QED BY <2>3 DEF HFilled
<1>3. CASE FiniErun \/ Fini \/ UNCHANGED vars
  <2>1. UNCHANGED <<pc, ev, next>> BY <1>3 DEF FiniErun, Fini, vars, threadVars
  <2> QED BY <1>1, <2>1 DEF HFilled
<1> QED BY <1>1, <1>2, <1>3, TakeFills DEF Next, Ended, ThreadStep

\* A fill of the tree adds the thread's event to the filled ones.
LEMMA RowsAfterFill ==
    ASSUME TypeOK, EventInv, CallInv, FileInv, OverlapInv, RowsInv, [Next]_vars, ~undef,
           NEW t \in Threads, FillDST(t)
    PROVE  RowsInv'
<1>1. UNCHANGED <<inputs, Wanted>> BY InputsUnchanged
<1> SUFFICES ASSUME hasOutput, DObuildDST, ~undef' PROVE RowsInv!2'
  BY <1>1 DEF RowsInv, inputs
<1>2. /\ pc[t] = "dst" /\ UNCHANGED <<ev, next>>
      /\ \E a \in {"idle", "header"} : pc' = [pc EXCEPT ![t] = a]
      /\ tree \notin dead \cup {0}
  BY DEF FillDST
<1>3. ev[t] \in Event /\ ev[t] \in Wanted BY <1>2 DEF EventInv
<1>4. /\ \A e : e # ev[t] => (e \in Filled' <=> e \in Filled)
      /\ ev[t] \notin Filled /\ ev[t] \in Filled'
  BY <1>1, <1>2, <1>3, StepFills DEF PC
<1>5. /\ tree \in DOMAIN rows /\ DOMAIN rows' = DOMAIN rows
      /\ rows[tree] \in Seq(Event) /\ rows'[tree] = Append(rows[tree], ev[t])
      /\ \A k \in DOMAIN rows : k # tree => rows'[k] = rows[k]
  BY <1>2, <1>3, FillDSTRows
<1> DEFINE n == Len(rows[tree]) + 1
<1>6. /\ n \in DOMAIN rows'[tree] /\ rows'[tree][n] = ev[t] /\ n \notin DOMAIN rows[tree]
      /\ DOMAIN rows'[tree] = DOMAIN rows[tree] \cup {n}
      /\ \A i \in DOMAIN rows[tree] : rows'[tree][i] = rows[tree][i]
  BY <1>3, <1>5
<1> HIDE DEF n
<1>7. RowsInv!2 BY DEF RowsInv
<1>8. \A k \in DOMAIN rows' : \A i \in DOMAIN rows'[k] :
         \/ k = tree /\ i = n
         \/ i \in DOMAIN rows[k] /\ rows'[k][i] = rows[k][i] /\ rows[k][i] # ev[t]
  BY <1>4, <1>5, <1>6, <1>7
<1>9. \A k \in DOMAIN rows' : \A i \in DOMAIN rows'[k] : rows'[k][i] \in Filled'
  BY <1>4, <1>5, <1>6, <1>7, <1>8
<1>10. \A e \in Filled' : \E k \in DOMAIN rows' : \E i \in DOMAIN rows'[k] : rows'[k][i] = e
  <2> SUFFICES ASSUME NEW e \in Filled'
               PROVE  \E k \in DOMAIN rows' : \E i \in DOMAIN rows'[k] : rows'[k][i] = e
    OBVIOUS
  <2>1. CASE e = ev[t] BY <1>5, <1>6, <2>1
  <2>2. CASE e # ev[t]
    <3>1. PICK k \in DOMAIN rows : \E i \in DOMAIN rows[k] : rows[k][i] = e
      BY <1>4, <1>7, <2>2
    <3>2. PICK i \in DOMAIN rows[k] : rows[k][i] = e BY <3>1
    <3>3. i \in DOMAIN rows'[k] /\ rows'[k][i] = e BY <1>5, <1>6, <3>2
    <3> QED BY <1>5, <3>3
  <2> QED BY <2>1, <2>2
<1>11. \A k, l \in DOMAIN rows' : \A i \in DOMAIN rows'[k], j \in DOMAIN rows'[l] :
          rows'[k][i] = rows'[l][j] => k = l /\ i = j
  BY <1>5, <1>6, <1>7, <1>8
<1> QED BY <1>9, <1>10, <1>11

\* Every step keeps each filled event in one row.
LEMMA NextRowsInv ==
    ASSUME TypeOK, EventInv, CallInv, FileInv, OverlapInv, RowsInv, [Next]_vars
    PROVE  RowsInv'
<1>1. UNCHANGED <<inputs, Wanted>> BY InputsUnchanged
<1>2. ASSUME NEW t \in Threads, FillDST(t), ~undef PROVE RowsInv'
  BY <1>2, RowsAfterFill
<1>3. CASE \A t \in Threads : ~FillDST(t)
  <2> SUFFICES ASSUME hasOutput, DObuildDST, ~undef' PROVE RowsInv!2'
    BY <1>1 DEF RowsInv, inputs
  <2>1. UNCHANGED Filled BY <1>3, NoFill
  <2>2. ASSUME NEW t \in Threads, Brun(t) PROVE RowsInv!2'
    <3> DEFINE r == RunOf[ev[t]]
    <3>1. ev[t] \in Event BY <2>2 DEF Brun, EventInv
    <3>2. r \in FileNames /\ r \in Nat BY <3>1, RunNumbers
    <3>3. BrunCall(r) /\ UNCHANGED undef BY <2>2 DEF Brun
    <3>4. /\ tree' \notin DOMAIN rows
          /\ DOMAIN rows' = DOMAIN rows \cup {tree'}
          /\ \A k \in DOMAIN rows : rows'[k] = rows[k]
          /\ rows'[tree'] = <<>>
      BY <3>2, <3>3, BrunCallOutput
    <3>5. DOMAIN rows'[tree'] = {} BY <3>4
    <3>6. RowsInv!2 BY <3>3 DEF RowsInv
    <3>7. \A k \in DOMAIN rows' : \A i \in DOMAIN rows'[k] :
             k \in DOMAIN rows /\ rows'[k] = rows[k]
      BY <3>4, <3>5
    <3> QED BY <2>1, <3>4, <3>6, <3>7
  <2>3. CASE UNCHANGED <<rows, undef>> BY <2>1, <2>3 DEF RowsInv
  <2>4. \/ UNCHANGED <<rows, undef>> \/ \E t \in Threads : Brun(t)
    BY <1>3, ErunCallTypes DEF Next, vars, Ended, ThreadStep, TakeEvent, LockState, Erun, Evnt,
       FillHeader, FiniErun, Fini, treeVars
  <2> QED BY <2>2, <2>3, <2>4
<1>4. undef => UNCHANGED vars BY DEF Next, Ended
<1>5. undef => RowsInv' BY <1>4 DEF RowsInv, vars
<1> QED BY <1>2, <1>3, <1>5

\* Every step keeps each event of EventHeader in one row.
LEMMA NextHeaderInv ==
    ASSUME TypeOK, EventInv, HeaderInv, [Next]_vars PROVE HeaderInv'
<1>1. UNCHANGED <<inputs, Wanted>> BY InputsUnchanged
<1>2. ASSUME NEW t \in Threads, FillHeader(t) PROVE HeaderInv'
  <2>1. /\ pc[t] = "header" /\ UNCHANGED <<ev, next>> /\ pc' = [pc EXCEPT ![t] = "idle"]
        /\ header' = Append(header, ev[t])
    BY <1>2 DEF FillHeader
  <2>2. ev[t] \in Event /\ ev[t] \in Wanted /\ hasOutput /\ ~isMC BY <2>1 DEF EventInv
  <2>3. /\ \A e : e # ev[t] => (e \in HFilled' <=> e \in HFilled)
        /\ ev[t] \notin HFilled /\ ev[t] \in HFilled'
    BY <1>1, <2>1, <2>2, StepFills DEF PC
  <2> DEFINE n == Len(header) + 1
  <2>4. /\ n \in DOMAIN header' /\ header'[n] = ev[t] /\ n \notin DOMAIN header
        /\ DOMAIN header' = DOMAIN header \cup {n}
        /\ \A i \in DOMAIN header : header'[i] = header[i]
    BY <2>1, <2>2 DEF TypeOK
  <2> HIDE DEF n
  <2>6. /\ \A i \in DOMAIN header : header[i] \in HFilled
        /\ \A e \in HFilled : \E i \in DOMAIN header : header[i] = e
        /\ \A i, j \in DOMAIN header : header[i] = header[j] => i = j
    BY <2>2 DEF HeaderInv
  <2>7. \A e \in HFilled' : \E i \in DOMAIN header' : header'[i] = e
    BY <2>3, <2>4, <2>6
  <2>8. \A i \in DOMAIN header' : header'[i] \in HFilled' BY <2>3, <2>4, <2>6
  <2>9. \A i, j \in DOMAIN header' : header'[i] = header'[j] => i = j
    BY <2>3, <2>4, <2>6
  <2> QED BY <1>1, <2>2, <2>7, <2>8, <2>9 DEF HeaderInv, inputs
<1>3. CASE \A t \in Threads : ~FillHeader(t)
  <2>1. UNCHANGED header
    BY <1>3, ErunCallTypes DEF Next, vars, Ended, ThreadStep, TakeEvent, LockState, Erun, Brun,
       Evnt, FillDST, FiniErun, Fini, treeVars
  <2>2. hasOutput /\ ~isMC => UNCHANGED HFilled BY <1>3, NoHFill
  <2> QED BY <1>1, <2>1, <2>2 DEF HeaderInv, inputs
<1> QED BY <1>2, <1>3

-----------------------------------------------------------------------------
(***************************************************************************)
(* The order of the runs, and one file for each.                           *)
(***************************************************************************)

\* What one thread's going on does to the events that have come to evnt.
LEMMA StepPassed ==
    ASSUME TypeOK, EventInv, NEW t \in Threads, pc[t] # "idle",
           NEW a \in PC, pc' = [pc EXCEPT ![t] = a],
           UNCHANGED <<ev, next>>
    PROVE  /\ \A e : e # ev[t] => (e \in Passed' <=> e \in Passed)
           /\ ev[t] \in Passed <=> pc[t] \notin NotIn
           /\ ev[t] \in Passed' <=> a \notin NotIn
<1>1. pc'[t] = a /\ \A u \in Threads : u # t => pc'[u] = pc[u] BY DEF TypeOK
<1>2. ev[t] \in Event /\ ev[t] < next /\ \A u \in Threads : u # t => ev[u] # ev[t]
  BY DEF EventInv, Event
<1> QED BY <1>1, <1>2 DEF Passed

\* Taking an event brings none to evnt.
LEMMA TakePassed ==
    ASSUME TypeOK, EventInv, NEW t \in Threads, TakeEvent(t) PROVE Passed' \subseteq Passed
<1>1. /\ ev' = [ev EXCEPT ![t] = next] /\ next' = next + 1
      /\ pc' = [pc EXCEPT ![t] = "lock"] /\ pc[t] = "idle"
  BY DEF TakeEvent
<1>2. next \in Nat BY RunOutputAssumption DEF TypeOK
<1>3. ev'[t] = next /\ pc'[t] = "lock" /\ \A u \in Threads : u # t =>
         ev'[u] = ev[u] /\ pc'[u] = pc[u]
  BY <1>1 DEF TypeOK
<1> SUFFICES ASSUME NEW e \in Passed' PROVE e \in Passed OBVIOUS
<1>4. e \in Event /\ e \in Nat /\ e < next' BY DEF Passed, Event
<1>5. e # next BY <1>3 DEF Passed, NotIn
<1>6. e < next BY <1>1, <1>2, <1>4, <1>5
<1> QED BY <1>1, <1>3, <1>4, <1>6 DEF Passed, NotIn

\* Every step keeps runs in order: when brun is called for a run, all that
\* has come to evnt is from before the event at hand, or of its run.
LEMMA NextRunOrderInv ==
    ASSUME TypeOK, EventInv, CallInv, OverlapInv, RunOrderInv, [Next]_vars
    PROVE  RunOrderInv'
<1>1. ASSUME NEW t \in Threads, TakeEvent(t) PROVE RunOrderInv'
  <2>1. Passed' \subseteq Passed BY <1>1, TakePassed
  <2>2. /\ next' = next + 1 /\ UNCHANGED <<brunRun, bruns>> /\ (~overlap' => ~overlap)
    BY <1>1 DEF TakeEvent, callVars
  <2>3. \A d \in Event : d < next => d < next'
    BY <2>2, RunOutputAssumption DEF TypeOK, Event
  <2> QED BY <2>1, <2>2, <2>3 DEF RunOrderInv
<1>2. ASSUME NEW t \in Threads, Brun(t) PROVE RunOrderInv'
  <2> DEFINE r == RunOf[ev[t]]
  <2>1. ev[t] \in Event /\ ev[t] < next BY <1>2 DEF Brun, EventInv
  <2>2. r \in FileNames /\ r \in Nat BY <2>1, RunNumbers
  <2>3. /\ pc[t] = "brun" /\ pc' = [pc EXCEPT ![t] = "evnt"]
        /\ UNCHANGED <<ev, next, overlap>> /\ brunRun' = r
    BY <1>2, <2>2, BrunCallTypes DEF Brun
  <2>4. \A e \in Passed' : e = ev[t] \/ e \in Passed BY <2>3, StepPassed DEF PC
  <2>5. ASSUME ~overlap, NEW e \in Passed' PROVE e <= ev[t] \/ RunOf[e] = r
    <3>1. e \in Event /\ e < next BY <2>3 DEF Passed
    <3>2. e <= ev[t] \/ ev[t] <= e BY <2>1, <3>1 DEF Event
    <3> QED BY <2>3, <2>5, <3>1, <3>2 DEF OverlapInv
  <2> QED BY <2>1, <2>2, <2>3, <2>5 DEF RunOrderInv
<1>3. ASSUME NEW t \in Threads,
             LockState(t) \/ Erun(t) \/ Evnt(t) \/ FillDST(t) \/ FillHeader(t)
      PROVE  RunOrderInv'
  <2>1. \E a \in PC :
          /\ pc' = [pc EXCEPT ![t] = a] /\ pc[t] # "idle"
          /\ UNCHANGED <<ev, next, brunRun, bruns, overlap>>
          /\ pc[t] \in NotIn /\ a \notin NotIn => RunOf[ev[t]] = brunRun
    <3>1. CASE LockState(t)
      <4>1. /\ pc[t] = "lock" /\ UNCHANGED <<ev, next, brunRun, bruns, overlap>>
            /\ \/ pc' = [pc EXCEPT ![t] = "erun"]
               \/ pc' = [pc EXCEPT ![t] = "brun"]
               \/ pc' = [pc EXCEPT ![t] = "evnt"] /\ RunOf[ev[t]] = brunRun
        BY <3>1 DEF LockState
      <4> QED BY <4>1 DEF PC, NotIn
    <3>2. CASE Erun(t) BY <3>2 DEF Erun, PC, NotIn
    <3>3. CASE Evnt(t) \/ FillDST(t) \/ FillHeader(t)
      <4>1. \E a \in {"idle", "dst", "header"} :
              /\ pc' = [pc EXCEPT ![t] = a] /\ pc[t] \in Past
              /\ UNCHANGED <<ev, next, brunRun, bruns, overlap>>
        BY <3>3 DEF Evnt, FillDST, FillHeader, Past, callVars
      <4> QED BY <4>1 DEF PC, NotIn, Past
    <3> QED BY <1>3, <3>1, <3>2, <3>3
  <2>2. PICK a \in PC :
          /\ pc' = [pc EXCEPT ![t] = a] /\ pc[t] # "idle"
          /\ UNCHANGED <<ev, next, brunRun, bruns, overlap>>
          /\ pc[t] \in NotIn /\ a \notin NotIn => RunOf[ev[t]] = brunRun
    BY <2>1
  <2>3. \A e \in Passed' : e \in Passed \/ RunOf[e] = brunRun BY <2>2, StepPassed
  <2> QED BY <2>2, <2>3 DEF RunOrderInv
<1>4. CASE FiniErun \/ Fini \/ UNCHANGED vars
  <2>1. UNCHANGED <<pc, ev, next, brunRun, bruns, overlap>>
    BY <1>4 DEF FiniErun, Fini, vars, threadVars, callVars
  <2> QED BY <2>1 DEF RunOrderInv, Passed
<1> QED BY <1>1, <1>2, <1>3, <1>4 DEF Next, Ended, ThreadStep

\* A run whose brun is called has no event in a tree yet.
LEMMA NewRun ==
    ASSUME TypeOK, EventInv, CallInv, OverlapInv, RunOrderInv, ~overlap, RunsContiguous,
           NEW t \in Threads, pc[t] = "brun", brunRun # -1
    PROVE  \A e \in Passed : RunOf[e] # RunOf[ev[t]]
<1> SUFFICES ASSUME NEW e \in Passed, RunOf[e] = RunOf[ev[t]] PROVE FALSE OBVIOUS
<1>1. ev[t] \in Event /\ e \in Event /\ RunOf[ev[t]] # brunRun
  BY DEF EventInv, CallInv, InCall, Passed
<1>2. PICK d \in Event : /\ d < next /\ RunOf[d] = brunRun
                         /\ \A c \in Passed : c <= d \/ RunOf[c] = brunRun
  BY DEF RunOrderInv
<1>3. e <= d BY <1>1, <1>2
<1>4. ~(ev[t] <= d) BY <1>1, <1>2 DEF OverlapInv
<1>5. d <= ev[t] BY <1>1, <1>2, <1>4 DEF Event
<1>6. RunOf[d] = RunOf[e] BY <1>1, <1>2, <1>3, <1>5 DEF RunsContiguous
<1> QED BY <1>1, <1>2, <1>6

\* Closing the file of a run leaves its tree in it.
LEMMA ErunPerRun ==
    ASSUME TypeOK, EventInv, FileInv, PerRunInv, ErunCall, UNCHANGED <<inputs, brunRun>>,
           overlap' = overlap
    PROVE  PerRunInv'
<1> SUFFICES ASSUME isET, DObuildDST, ~overlap, RunsContiguous PROVE PerRunInv!2'
  BY DEF PerRunInv, inputs
<1>1. UNCHANGED rows BY ErunCallTypes
<1>2. PerRunInv!2 BY DEF PerRunInv
<1>3. CASE UNCHANGED outVars BY <1>1, <1>2, <1>3 DEF outVars, OpenTrees
<1>4. CASE /\ isOpen /\ ~isOpen'
           /\ disk' = [disk EXCEPT ![fname] =
                         [dst |-> {rows[i] : i \in objects},
                          header |-> header, runInfo |-> runInfo']]
           /\ UNCHANGED <<fname, objects, tree>>
  <2>1. /\ objects = {tree} /\ fname = brunRun /\ disk[fname].dst = {}
        /\ \A i \in DOMAIN rows[tree] : RunOf[rows[tree][i]] = brunRun
        /\ tree \in DOMAIN rows
    BY <1>2, <1>4 DEF FileInv
  <2>2. fname \in FileNames /\ DOMAIN disk = FileNames BY DEF TypeOK
  <2>3. disk'[fname].dst = {rows[tree]} BY <1>4, <2>1, <2>2
  <2>4. \A f \in FileNames : f # fname => disk'[f] = disk[f] BY <1>4, <2>2
  <2>5. OpenTrees' = {} /\ OpenTrees = {tree} BY <1>4 DEF OpenTrees
  <2>6. ASSUME NEW k \in DOMAIN rows, NEW i \in DOMAIN rows[k]
        PROVE  rows[k] \in disk'[RunOf[rows[k][i]]].dst
    <3>1. CASE k = tree BY <2>1, <2>3, <3>1
    <3>2. CASE k # tree
      <4>1. rows[k] \in disk[RunOf[rows[k][i]]].dst BY <1>2, <2>5, <3>2
      <4>2. RunOf[rows[k][i]] # fname BY <2>1, <4>1
      <4>3. rows[k][i] \in Event BY DEF TypeOK
      <4>4. RunOf[rows[k][i]] \in FileNames BY <4>3, RunNumbers
      <4> QED BY <2>4, <4>1, <4>2, <4>4
    <3> QED BY <3>1, <3>2
  <2>7. ASSUME NEW f \in FileNames, NEW s \in disk'[f].dst
        PROVE  /\ \E k \in DOMAIN rows : s = rows[k]
               /\ \A i \in DOMAIN s : RunOf[s[i]] = f
    <3>1. CASE f = fname BY <2>1, <2>3, <2>7, <3>1
    <3>2. CASE f # fname BY <1>2, <2>4, <2>7, <3>2
    <3> QED BY <3>1, <3>2
  <2> QED BY <1>1, <1>4, <2>5, <2>6, <2>7
<1> QED BY <1>3, <1>4, ErunCallOutput

\* Opening the file of a run: it is a new one, with a new tree.
LEMMA BrunPerRun ==
    ASSUME TypeOK, EventInv, CallInv, FileInv, OverlapInv, RowsInv, RunOrderInv, PerRunInv,
           ~undef, NEW t \in Threads, Brun(t), UNCHANGED inputs
    PROVE  PerRunInv'
<1> DEFINE r == RunOf[ev[t]]
<1>1. ev[t] \in Event BY DEF Brun, EventInv
<1>2. r \in FileNames /\ r \in Nat BY <1>1, RunNumbers
<1>3. /\ pc[t] = "brun" /\ BrunCall(r) /\ UNCHANGED overlap /\ brunRun' = r
  BY <1>2, BrunCallTypes DEF Brun
<1> SUFFICES ASSUME isET, DObuildDST, ~overlap, RunsContiguous PROVE PerRunInv!2'
  BY <1>3 DEF PerRunInv, inputs
<1>4. hasOutput /\ ~isOpen BY <1>3 DEF EventInv, FileInv
<1>5. /\ isOpen' = TRUE /\ fname' = r
      /\ disk' = [disk EXCEPT ![r] = EmptyFile]
      /\ tree' \notin DOMAIN rows
      /\ DOMAIN rows' = DOMAIN rows \cup {tree'}
      /\ \A k \in DOMAIN rows : rows'[k] = rows[k]
      /\ rows'[tree'] = <<>>
      /\ objects' = {tree'}
  BY <1>2, <1>3, <1>4, BrunCallOutput
<1>6. disk'[r].dst = {} /\ \A f \in FileNames : f # r => disk'[f] = disk[f]
  BY <1>2, <1>5 DEF TypeOK, EmptyFile
<1>7. PerRunInv!2 BY DEF PerRunInv
<1>8. OpenTrees = {} /\ OpenTrees' = {tree'} BY <1>4, <1>5 DEF OpenTrees
<1>9. DOMAIN rows' \ OpenTrees' = DOMAIN rows BY <1>5, <1>8
<1>10. ASSUME NEW k \in DOMAIN rows, NEW i \in DOMAIN rows[k] PROVE RunOf[rows[k][i]] # r
  <2>1. rows[k][i] \in Filled BY <1>4 DEF RowsInv
  <2>2. rows[k][i] \in Passed BY <2>1 DEF Filled, Passed, Wanted, NotIn
  <2>3. brunRun # -1 BY <1>10 DEF RunOrderInv, FileInv
  <2> QED BY <1>3, <2>2, <2>3, NewRun
<1>11. ASSUME NEW k \in DOMAIN rows, NEW i \in DOMAIN rows'[k]
       PROVE  rows'[k] \in disk'[RunOf[rows'[k][i]]].dst
  <2>1. rows'[k] = rows[k] /\ i \in DOMAIN rows[k] BY <1>5
  <2>2. rows[k][i] \in Event BY <2>1 DEF TypeOK
  <2>3. RunOf[rows[k][i]] \in FileNames BY <2>2, RunNumbers
  <2>4. RunOf[rows[k][i]] # r BY <1>10, <2>1
  <2>5. rows[k] \in disk[RunOf[rows[k][i]]].dst BY <1>7, <1>8, <2>1
  <2> QED BY <1>6, <2>1, <2>3, <2>4, <2>5
<1>12. ASSUME NEW f \in FileNames, NEW s \in disk'[f].dst
       PROVE  /\ \E k \in DOMAIN rows : s = rows'[k]
              /\ \A i \in DOMAIN s : RunOf[s[i]] = f
  <2>1. f # r /\ s \in disk[f].dst BY <1>6, <1>12
  <2>2. PICK k \in DOMAIN rows : s = rows[k] BY <1>7, <2>1
  <2> QED BY <1>5, <1>7, <2>1, <2>2
<1>13. DOMAIN rows'[tree'] = {} BY <1>5
<1> HIDE DEF r
<1> QED BY <1>3, <1>5, <1>6, <1>9, <1>11, <1>12, <1>13

\* Every step keeps each tree in the file of its run.
LEMMA NextPerRunInv ==
    ASSUME TypeOK, EventInv, CallInv, FileInv, OverlapInv, RowsInv, RunOrderInv, PerRunInv,
           [Next]_vars
    PROVE  PerRunInv'
<1>1. UNCHANGED <<inputs, Wanted>> BY InputsUnchanged
<1>2. ASSUME NEW t \in Threads, Erun(t) PROVE PerRunInv'
  BY <1>1, <1>2, ErunPerRun DEF Erun
<1>3. ASSUME NEW t \in Threads, Brun(t), ~undef PROVE PerRunInv'
  BY <1>1, <1>3, BrunPerRun
<1>4. ASSUME NEW t \in Threads, FillDST(t) PROVE PerRunInv'
  <2>1. pc[t] = "dst" /\ UNCHANGED <<outVars, brunRun, overlap>>
    BY <1>4 DEF FillDST, callVars
  <2> SUFFICES ASSUME isET, DObuildDST, ~overlap, RunsContiguous PROVE PerRunInv!2'
    BY <1>1, <2>1 DEF PerRunInv, inputs
  <2>2. ev[t] \in Event /\ hasOutput BY <2>1 DEF EventInv
  <2>3. tree \notin dead \cup {0} BY <2>1, TreeAlive
  <2>4. /\ tree \in DOMAIN rows /\ DOMAIN rows' = DOMAIN rows
        /\ rows[tree] \in Seq(Event) /\ rows'[tree] = Append(rows[tree], ev[t])
        /\ \A k \in DOMAIN rows : k # tree => rows'[k] = rows[k]
    BY <1>4, <2>2, <2>3, FillDSTRows
  <2>5. isOpen /\ RunOf[ev[t]] = brunRun BY <2>1, <2>2 DEF OverlapInv, Past
  <2>6. OpenTrees = {tree} /\ OpenTrees' = {tree} BY <2>1, <2>5 DEF OpenTrees, outVars
  <2>7. PerRunInv!2 BY DEF PerRunInv
  <2>8. \A i \in DOMAIN rows'[tree] : RunOf[rows'[tree][i]] = brunRun
    BY <2>2, <2>4, <2>5, <2>7
  <2> QED BY <2>1, <2>4, <2>5, <2>6, <2>7, <2>8 DEF outVars
<1>5. CASE FiniErun
  <2>1. CASE brunCalled /\ ~erunCalled
    BY <1>1, <1>5, <2>1, ErunPerRun DEF FiniErun
  <2>2. CASE ~(brunCalled /\ ~erunCalled)
    <3>1. UNCHANGED <<outVars, rows, brunRun, overlap>>
      BY <1>5, <2>2 DEF FiniErun, treeVars
    <3> QED BY <1>1, <3>1 DEF PerRunInv, OpenTrees, outVars, inputs
  <2> QED BY <2>1, <2>2
<1>6. CASE Fini
  <2>1. UNCHANGED <<rows, brunRun, overlap>> /\ fin = "erun"
    BY <1>6 DEF Fini, treeVars, callVars
  <2>2. isET => UNCHANGED outVars
    BY <1>6, <2>1 DEF Fini, FileInv, CloseOutput
  <2> QED BY <1>1, <2>1, <2>2 DEF PerRunInv, OpenTrees, outVars, inputs
<1>7. ASSUME \/ UNCHANGED vars
             \/ \E t \in Threads : TakeEvent(t) \/ LockState(t) \/ Evnt(t) \/ FillHeader(t)
      PROVE  PerRunInv'
  <2>1. UNCHANGED <<outVars, rows, brunRun>> /\ (~overlap' => ~overlap)
    <3>1. CASE UNCHANGED vars BY <3>1 DEF vars, treeVars, callVars
    <3>2. ASSUME NEW t \in Threads, TakeEvent(t) PROVE <2>1
      BY <3>2 DEF TakeEvent, treeVars, callVars
    <3>3. ASSUME NEW t \in Threads, LockState(t) PROVE <2>1
      BY <3>3 DEF LockState, treeVars
    <3>4. ASSUME NEW t \in Threads, Evnt(t) PROVE <2>1
      BY <3>4 DEF Evnt, treeVars, callVars
    <3>5. ASSUME NEW t \in Threads, FillHeader(t) PROVE <2>1
      BY <3>5 DEF FillHeader, callVars
    <3> QED BY <1>7, <3>1, <3>2, <3>3, <3>4, <3>5
  <2> QED BY <1>1, <2>1 DEF PerRunInv, OpenTrees, outVars, inputs
<1> QED BY <1>2, <1>3, <1>4, <1>5, <1>6, <1>7 DEF Next, Ended, ThreadStep

-----------------------------------------------------------------------------
(***************************************************************************)
(* Friends.                                                                *)
(***************************************************************************)

\* There are no more threads between their fills than threads.
LEMMA BetweenFinite ==
    /\ IsFiniteSet(BetweenFills) /\ Cardinality(BetweenFills) \in Nat
    /\ Cardinality(Threads) \in Nat
    /\ Cardinality(BetweenFills) <= Cardinality(Threads)
BY RunOutputAssumption, FS_Subset, FS_CardinalityType DEF BetweenFills

\* The first fill brings a thread there, and its row has no header yet.
LEMMA FillDSTFriendInv ==
    ASSUME TypeOK, EventInv, HeaderInv, FriendInv, NEW t \in Threads, FillDST(t),
           UNCHANGED inputs, TypeOK'
    PROVE  FriendInv'
<1> SUFFICES ASSUME ~undef', ~isMC', DObuildDST' PROVE FriendInv' BY DEF FriendInv
<1>1. /\ pc[t] = "dst" /\ pc' = [pc EXCEPT ![t] = "header"] /\ ~isMC /\ DObuildDST
      /\ tree \notin dead \cup {0}
      /\ UNCHANGED <<ev, header, tree>>
  BY DEF FillDST, outVars, inputs
<1>2. ev[t] \in Event /\ hasOutput BY <1>1 DEF EventInv
<1>3. /\ tree \in DOMAIN rows /\ DOMAIN rows' = DOMAIN rows /\ UNCHANGED undef
      /\ rows[tree] \in Seq(Event) /\ rows'[tree] = Append(rows[tree], ev[t])
  BY <1>1, <1>2, FillDSTRows
<1>4. /\ rows \in Seq(Seq(Event)) /\ rows' \in Seq(Seq(Event)) /\ header \in Seq(Event)
      /\ pc \in [Threads -> PC]
  BY DEF TypeOK
<1>5. Len(rows') = Len(rows) /\ Len(rows) # 0 BY <1>3, <1>4
<1>6. \A j \in DOMAIN header : header[j] # ev[t]
  BY <1>1, <1>2 DEF HeaderInv, HFilled
<1>7. ASSUME Len(rows') = 1
      PROVE  /\ Len(rows'[1]) = Len(header') + Cardinality(BetweenFills')
             /\ Near(rows'[1], header')
  <2>1. tree = 1 BY <1>3, <1>4, <1>5, <1>7
  <2>2. /\ Len(rows[1]) = Len(header) + Cardinality(BetweenFills) /\ Near(rows[1], header)
    BY <1>1, <1>3, <1>5, <1>7 DEF FriendInv
  <2>3. BetweenFills' = BetweenFills \cup {t} /\ t \notin BetweenFills
    BY <1>1, <1>4 DEF BetweenFills
  <2>4. Cardinality(BetweenFills') = Cardinality(BetweenFills) + 1
    BY <2>3, BetweenFinite, FS_AddElement
  <2> DEFINE r == rows[1]
             e == ev[t]
  <2>5. r \in Seq(Event) /\ rows'[1] = Append(r, e) BY <1>3, <2>1
  <2> HIDE DEF r, e
  <2>6. Len(rows'[1]) = Len(r) + 1 BY <2>5
  <2>7. Near(r, header) /\ Len(r) = Len(header) + Cardinality(BetweenFills)
    BY <2>2 DEF r
  <2>8. ASSUME NEW i \in DOMAIN Append(r, e), NEW j \in DOMAIN header, Append(r, e)[i] = header[j]
        PROVE  i - j < Cardinality(Threads)
    <3>1. CASE i \in DOMAIN r
      <4>1. Append(r, e)[i] = r[i] BY <2>5, <3>1
      <4> QED BY <2>7, <2>8, <3>1, <4>1 DEF Near
    <3>2. CASE i \notin DOMAIN r
      <4>1. Append(r, e)[i] = e BY <2>5, <3>2
      <4> QED BY <1>6, <2>8, <4>1 DEF e
    <3> QED BY <3>1, <3>2
  <2>9. Near(Append(r, e), header) BY <2>8 DEF Near
  <2>10. Len(header) \in Nat /\ Cardinality(BetweenFills) \in Nat
    <3>1. Len(header) \in Nat BY <1>4
    <3> QED BY ONLY <3>1, BetweenFinite
  <2>11. Len(rows'[1]) = Len(header) + (Cardinality(BetweenFills) + 1)
    BY <2>6, <2>7, <2>10
  <2>12. header' = header BY <1>1
  <2>13. Near(rows'[1], header') BY ONLY <2>5, <2>9, <2>12
  <2> QED BY <2>4, <2>11, <2>12, <2>13
<1> QED BY <1>5, <1>7 DEF FriendInv

\* The second fill takes it away: the header it appends is ahead of its row by
\* less than the threads there were.
LEMMA FillHeaderFriendInv ==
    ASSUME TypeOK, EventInv, FriendInv, NEW t \in Threads, FillHeader(t), UNCHANGED inputs
    PROVE  FriendInv'
<1> SUFFICES ASSUME ~undef', ~isMC', DObuildDST' PROVE FriendInv' BY DEF FriendInv
<1>1. /\ pc[t] = "header" /\ pc' = [pc EXCEPT ![t] = "idle"] /\ ~isMC /\ DObuildDST
      /\ ~undef /\ header' = Append(header, ev[t]) /\ UNCHANGED <<rows, undef>>
  BY DEF FillHeader, inputs
<1>2. header \in Seq(Event) /\ pc \in [Threads -> PC] /\ rows \in Seq(Seq(Event)) BY DEF TypeOK
<1>3. t \in BetweenFills /\ BetweenFills' = BetweenFills \ {t} BY <1>1, <1>2 DEF BetweenFills
<1>4. Len(rows) # 0 BY <1>1, <1>3 DEF FriendInv
<1>5. ASSUME Len(rows) = 1
      PROVE  /\ Len(rows[1]) = Len(header') + Cardinality(BetweenFills')
             /\ Near(rows[1], header')
  <2>1. /\ Len(rows[1]) = Len(header) + Cardinality(BetweenFills) /\ Near(rows[1], header)
    BY <1>1, <1>5 DEF FriendInv
  <2>2. Cardinality(BetweenFills') = Cardinality(BetweenFills) - 1
    BY <1>3, BetweenFinite, FS_RemoveElement
  <2> DEFINE r == rows[1]
             e == ev[t]
  <2>3. r \in Seq(Event) /\ header' = Append(header, e)
    <3>1. 1 \in DOMAIN rows BY <1>2, <1>5
    <3>2. rows[1] \in Seq(Event) BY <1>2, <3>1
    <3> QED BY ONLY <1>1, <3>2
  <2>4. Near(r, header) /\ Len(r) = Len(header) + Cardinality(BetweenFills) BY <2>1
  <2> HIDE DEF r, e
  <2>5. /\ Len(header) \in Nat /\ Cardinality(BetweenFills) \in Nat /\ Cardinality(Threads) \in Nat
        /\ Cardinality(BetweenFills) <= Cardinality(Threads)
    <3>1. Len(header) \in Nat BY <1>2
    <3> QED BY ONLY <3>1, BetweenFinite
  <2>6. Len(Append(header, e)) = Len(header) + 1 BY <1>2
  <2>7. ASSUME NEW i \in DOMAIN r, NEW j \in DOMAIN Append(header, e), r[i] = Append(header, e)[j]
        PROVE  i - j < Cardinality(Threads)
    <3>1. CASE j \in DOMAIN header
      <4>1. Append(header, e)[j] = header[j] BY <1>2, <3>1
      <4> QED BY <2>4, <2>7, <3>1, <4>1 DEF Near
    <3>2. CASE j \notin DOMAIN header
      <4>1. j = Len(header) + 1 BY <1>2, <2>6, <3>2
      <4>2. i \in 1..Len(r) BY <2>3
      <4>3. i <= Len(header) + Cardinality(BetweenFills) /\ i \in Int BY <2>4, <2>5, <4>2
      <4> QED BY <2>5, <4>1, <4>3
    <3> QED BY <3>1, <3>2
  <2>8. Near(r, Append(header, e)) BY <2>7 DEF Near
  <2>9. Len(r) = (Len(header) + 1) + (Cardinality(BetweenFills) - 1) BY <2>4, <2>5
  <2> QED BY <2>2, <2>3, <2>6, <2>8, <2>9 DEF r
<1>6. rows' = rows BY <1>1
<1> QED BY <1>4, <1>5, <1>6 DEF FriendInv

\* brun makes a new tree; the first is empty, with nothing in the header.
LEMMA BrunFriendInv ==
    ASSUME TypeOK, EventInv, FriendInv, NEW t \in Threads, Brun(t), UNCHANGED inputs
    PROVE  FriendInv'
<1> SUFFICES ASSUME ~undef', ~isMC', DObuildDST' PROVE FriendInv' BY DEF FriendInv
<1>1. /\ pc[t] = "brun" /\ BrunCall(RunOf[ev[t]]) /\ pc' = [pc EXCEPT ![t] = "evnt"]
      /\ UNCHANGED <<ev, header, undef>> /\ ~undef /\ ~isMC /\ DObuildDST
  BY DEF Brun, inputs
<1>2. BetweenFills' = BetweenFills BY <1>1 DEF BetweenFills, TypeOK
<1>3. CASE ~hasOutput
  <2>1. UNCHANGED rows BY <1>1, <1>3 DEF BrunCall
  <2> QED BY <1>1, <1>2, <2>1 DEF FriendInv
<1>4. CASE hasOutput
  <2>1. ev[t] \in Event /\ RunOf[ev[t]] \in FileNames /\ RunOf[ev[t]] \in Nat
    BY <1>1, RunNumbers DEF EventInv
  <2>2. rows' = Append(rows, <<>>) BY <1>1, <1>4, <2>1, BrunCallOutput
  <2>3. rows \in Seq(Seq(Event)) BY DEF TypeOK
  <2>4. Len(rows') = Len(rows) + 1 /\ Len(rows) \in Nat BY <2>2, <2>3
  <2>5. ASSUME Len(rows') = 1
        PROVE  /\ Len(rows'[1]) = Len(header') + Cardinality(BetweenFills')
               /\ Near(rows'[1], header')
    <3>1. Len(rows) = 0
      <4>1. PICK n \in Nat : n = Len(rows) BY <2>4
      <4>2. n + 1 = 1 BY ONLY <2>4, <2>5, <4>1, Zenon
      <4>3. n = 0 BY ONLY <4>2, n \in Nat
      <4> QED BY ONLY <4>1, <4>3, Zenon
    <3>2. Len(header) = 0 /\ BetweenFills = {} BY <1>1, <3>1 DEF FriendInv
    <3>3. rows'[1] = <<>> BY <2>2, <2>3, <3>1
    <3>4. Cardinality(BetweenFills') = 0 BY <1>2, <3>2, FS_EmptySet
    <3>5. header' = header BY <1>1
    <3>6. Near(<<>>, header') BY DEF Near
    <3> QED BY <3>2, <3>3, <3>4, <3>5, <3>6
  <2> QED BY <2>4, <2>5 DEF FriendInv
<1> QED BY <1>3, <1>4

\* Every step keeps the distance of the rows.
LEMMA NextFriendInv ==
    ASSUME TypeOK, EventInv, HeaderInv, FriendInv, [Next]_vars, TypeOK' PROVE FriendInv'
<1>1. UNCHANGED inputs BY InputsUnchanged
<1>2. ASSUME NEW t \in Threads, Brun(t) PROVE FriendInv' BY <1>1, <1>2, BrunFriendInv
<1>3. ASSUME NEW t \in Threads, FillDST(t) PROVE FriendInv'
  BY <1>1, <1>3, FillDSTFriendInv
<1>4. ASSUME NEW t \in Threads, FillHeader(t) PROVE FriendInv'
  BY <1>1, <1>4, FillHeaderFriendInv
<1>5. ASSUME \/ UNCHANGED vars \/ FiniErun \/ Fini
             \/ \E t \in Threads : TakeEvent(t) \/ LockState(t) \/ Erun(t) \/ Evnt(t)
      PROVE  FriendInv'
  <2>1. /\ UNCHANGED <<rows, header, undef>>
        /\ ~isMC /\ DObuildDST =>
              \A u \in Threads : pc'[u] = "header" <=> pc[u] = "header"
    <3> USE DEF TypeOK
    <3>1. CASE UNCHANGED vars
      BY <3>1 DEF vars, treeVars, outVars, threadVars
    <3>2. CASE FiniErun
      <4>1. UNCHANGED <<rows, header>>
        BY <3>2, ErunCallTypes DEF FiniErun, outVars, treeVars
      <4> QED BY <3>2, <4>1 DEF FiniErun, threadVars
    <3>3. CASE Fini
      <4>1. UNCHANGED <<rows, header>> BY <3>3 DEF Fini, treeVars
      <4> QED BY <3>3, <4>1 DEF Fini, threadVars
    <3>4. ASSUME NEW t \in Threads, TakeEvent(t) PROVE <2>1
      BY <3>4 DEF TakeEvent, treeVars, outVars
    <3>5. ASSUME NEW t \in Threads, LockState(t) PROVE <2>1
      BY <3>5 DEF LockState, treeVars, outVars
    <3>6. ASSUME NEW t \in Threads, Erun(t) PROVE <2>1
      <4>1. UNCHANGED <<rows, header>> BY <3>6, ErunCallTypes DEF Erun
      <4> QED BY <3>6, <4>1 DEF Erun
    <3>7. ASSUME NEW t \in Threads, Evnt(t) PROVE <2>1
      BY <3>7 DEF Evnt, treeVars, outVars
    <3> QED BY <1>5, <3>1, <3>2, <3>3, <3>4, <3>5, <3>6, <3>7
  <2>2. ~isMC /\ DObuildDST => BetweenFills' = BetweenFills BY <2>1 DEF BetweenFills
  <2> QED BY <1>1, <2>1, <2>2 DEF FriendInv, inputs
<1> QED BY <1>2, <1>3, <1>4, <1>5 DEF Next, Ended, ThreadStep

\* The invariant is kept for ever.
LEMMA ROInvHolds == Spec => []ROInv
<1>1. ROInv /\ [Next]_vars => ROInv'
  BY NextTypeOK, NextEventInv, NextCallInv, NextTimeInv, NextFileInv, NextOverlapInv,
     NextRowsInv, NextHeaderInv, NextRunOrderInv, NextPerRunInv, NextFriendInv DEF ROInv
<1> QED BY InitROInv, <1>1, PTL DEF Spec

-----------------------------------------------------------------------------
(***************************************************************************)
(* The theorems.                                                           *)
(***************************************************************************)

\* The rows of a set of trees that hold event e.
Occurrences(D, e) == UNION {{<<s, i>> : i \in {j \in DOMAIN s : s[j] = e}} : s \in D}

\* An event in one row of one tree is counted once.
LEMMA CountOne ==
    ASSUME NEW D, NEW e, NEW s \in D, NEW i \in DOMAIN s, s[i] = e,
           \A u \in D : \A j \in DOMAIN u : u[j] = e => u = s /\ j = i
    PROVE  Cardinality(Occurrences(D, e)) = 1
<1>1. Occurrences(D, e) = {<<s, i>>} BY DEF Occurrences
<1> QED BY <1>1, FS_Singleton

\* One that is in no row is not counted.
LEMMA CountNone ==
    ASSUME NEW D, NEW e, \A u \in D : \A j \in DOMAIN u : u[j] # e
    PROVE  Cardinality(Occurrences(D, e)) = 0
<1>1. Occurrences(D, e) = {} BY DEF Occurrences
<1> QED BY <1>1, FS_EmptySet

\* At the end all wanted events have been filled.
LEMMA AllFilled ==
    ASSUME TypeOK, EventInv, fin # "no" PROVE Filled = Wanted /\ HFilled = Wanted
<1>1. next > NEvents /\ \A t \in Threads : pc[t] = "idle" BY DEF EventInv
<1>2. \A e \in Wanted : e < next
  BY <1>1, RunOutputAssumption DEF Wanted, Event, TypeOK
<1> QED BY <1>1, <1>2 DEF Filled, HFilled

\* One file has them all.
LEMMA OneFileHasAll == ROInv => OneFileComplete
<1> SUFFICES ASSUME ROInv, fin = "done", hasOutput, ~isET, NEW e \in Event
             PROVE  /\ DSTRows(0, e) = IF DObuildDST /\ e \in Wanted THEN 1 ELSE 0
                    /\ HeaderRows(0, e) = IF ~isMC /\ e \in Wanted THEN 1 ELSE 0
  BY DEF OneFileComplete
<1> USE DEF ROInv
<1>1. Filled = Wanted /\ HFilled = Wanted BY AllFilled
<1>2. Len(bruns) > 0 /\ ~undef
  <2>1. next > NEvents /\ \A t \in Threads : pc[t] = "idle" BY DEF EventInv
  <2>2. next > 1 BY <2>1, RunOutputAssumption DEF Event, TypeOK
  <2> QED BY <2>1, <2>2 DEF CallInv, EventInv
<1> DEFINE D == {rows[i] : i \in DOMAIN rows}
<1>3. disk[0].dst = D /\ disk[0].header = header BY <1>2 DEF FileInv
<1>4. DSTRows(0, e) = Cardinality(Occurrences(D, e)) BY <1>3 DEF DSTRows, Occurrences
<1>5. DSTRows(0, e) = IF DObuildDST /\ e \in Wanted THEN 1 ELSE 0
  <2>1. CASE ~DObuildDST
    <3>1. D = {} BY <2>1 DEF FileInv
    <3>2. Cardinality(Occurrences(D, e)) = 0 BY <3>1, CountNone
    <3> QED BY <1>4, <2>1, <3>2
  <2>2. CASE DObuildDST /\ e \notin Wanted
    <3>1. \A u \in D : \A j \in DOMAIN u : u[j] # e BY <1>1, <1>2, <2>2 DEF RowsInv
    <3>2. Cardinality(Occurrences(D, e)) = 0 BY <3>1, CountNone
    <3> QED BY <1>4, <2>2, <3>2
  <2>3. CASE DObuildDST /\ e \in Wanted
    <3>1. RowsInv!2 BY <1>2, <2>3 DEF RowsInv
    <3>2. PICK k \in DOMAIN rows : \E i \in DOMAIN rows[k] : rows[k][i] = e
      BY <1>1, <2>3, <3>1
    <3>3. PICK i \in DOMAIN rows[k] : rows[k][i] = e BY <3>2
    <3>4. rows[k] \in D OBVIOUS
    <3>5. \A u \in D : \A j \in DOMAIN u : u[j] = e => u = rows[k] /\ j = i
      BY <3>1, <3>3
    <3> HIDE DEF D
    <3>6. Cardinality(Occurrences(D, e)) = 1 BY <3>3, <3>4, <3>5, CountOne
    <3> QED BY <1>4, <2>3, <3>6
  <2> QED BY <2>1, <2>2, <2>3
<1>6. HeaderRows(0, e) = IF ~isMC /\ e \in Wanted THEN 1 ELSE 0
  <2> DEFINE H == {i \in DOMAIN header : header[i] = e}
  <2>1. HeaderRows(0, e) = Cardinality(H) BY <1>3 DEF HeaderRows
  <2>2. CASE isMC \/ e \notin Wanted
    <3>1. H = {} BY <1>1, <2>2 DEF HeaderInv
    <3> QED BY <2>1, <2>2, <3>1, FS_EmptySet
  <2>3. CASE ~isMC /\ e \in Wanted
    <3>1. /\ \E i \in DOMAIN header : header[i] = e
          /\ \A i, j \in DOMAIN header : header[i] = header[j] => i = j
      BY <1>1, <2>3 DEF HeaderInv
    <3>2. PICK i \in DOMAIN header : header[i] = e BY <3>1
    <3>3. H = {i} BY <3>1, <3>2
    <3> QED BY <2>1, <2>3, <3>3, FS_Singleton
  <2> QED BY <2>2, <2>3
<1> QED BY <1>5, <1>6

\* The files of the runs have those of their runs.
LEMMA EachFileHasItsRun == ROInv => FileOfEachRun
<1> SUFFICES ASSUME ROInv, fin = "done", hasOutput, isET, DObuildDST, ~overlap,
                    RunsContiguous, NEW e \in Event, NEW f \in FileNames
             PROVE  DSTRows(f, e) = IF e \in Wanted /\ f = RunOf[e] THEN 1 ELSE 0
  BY DEF FileOfEachRun
<1> USE DEF ROInv
<1>1. Filled = Wanted /\ ~undef BY AllFilled DEF EventInv
<1>2. OpenTrees = {} BY DEF FileInv, OpenTrees
<1>3. /\ \A k \in DOMAIN rows : \A i \in DOMAIN rows[k] :
            rows[k] \in disk[RunOf[rows[k][i]]].dst
      /\ \A s \in disk[f].dst : /\ \E k \in DOMAIN rows : s = rows[k]
                                /\ \A i \in DOMAIN s : RunOf[s[i]] = f
  BY <1>2 DEF PerRunInv
<1>4. RowsInv!2 BY <1>1 DEF RowsInv
<1> DEFINE D == disk[f].dst
<1>5. DSTRows(f, e) = Cardinality(Occurrences(D, e)) BY DEF DSTRows, Occurrences
<1>6. CASE e \in Wanted /\ f = RunOf[e]
  <2>1. PICK k \in DOMAIN rows : \E i \in DOMAIN rows[k] : rows[k][i] = e
    BY <1>1, <1>4, <1>6
  <2>2. PICK i \in DOMAIN rows[k] : rows[k][i] = e BY <2>1
  <2>3. rows[k] \in D BY <1>3, <1>6, <2>2
  <2>4. \A u \in D : \A j \in DOMAIN u : u[j] = e => u = rows[k] /\ j = i
    BY <1>3, <1>4, <2>2
  <2> HIDE DEF D
  <2>5. Cardinality(Occurrences(D, e)) = 1 BY <2>2, <2>3, <2>4, CountOne
  <2> QED BY <1>5, <1>6, <2>5
<1>7. CASE ~(e \in Wanted /\ f = RunOf[e])
  <2>1. \A u \in D : \A j \in DOMAIN u : u[j] # e BY <1>1, <1>3, <1>4, <1>7
  <2> HIDE DEF D
  <2>2. Cardinality(Occurrences(D, e)) = 0 BY <2>1, CountNone
  <2> QED BY <1>5, <1>7, <2>2
<1> QED BY <1>6, <1>7

\* Theorem: when a job with one output file ends, every wanted event is in
\* exactly one EventDST row and one EventHeader row of it, and nothing else
\* is; with one file for each run, every wanted event is in exactly one row
\* of the file of its run, if the runs of the job come one after the other
\* and events of two were not in process together.
THEOREM OutputIsComplete == Spec => []OutputComplete
<1>1. ROInv => OutputComplete BY OneFileHasAll, EachFileHasItsRun DEF OutputComplete
<1> QED BY <1>1, ROInvHolds, PTL

\* Theorem: every brun of the shared processor has its erun, and the last row
\* of RunInfo spans the times of all events in EventHeader, those too that
\* were filled in after their run had ended for another thread.
THEOREM RunInfoIsSound == Spec => []RunInfoSound
<1>1. ROInv => RunInfoSound
  <2> SUFFICES ASSUME ROInv PROVE RunInfoSound OBVIOUS
  <2> USE DEF ROInv
  <2>1. Len(runInfo) \in Nat /\ Len(bruns) \in Nat BY DEF TypeOK
  <2>2. BrunErunPaired
    <3>1. CASE fin # "no" BY <3>1, <2>1 DEF CallInv, BrunErunPaired
    <3>2. CASE fin = "no" /\ state = Nobody
      BY <3>2, <2>1 DEF CallInv, NoRun, InRun, BrunErunPaired
    <3>3. CASE fin = "no" /\ state # Nobody
      <4>1. PICK t \in Threads : pc[t] \in InCall BY <3>3 DEF EventInv, TypeOK
      <4> QED BY <3>3, <4>1, <2>1 DEF CallInv, InRun, InCall, BrunErunPaired
    <3> QED BY <3>1, <3>2, <3>3
  <2>3. RunInfoSpansEvents BY DEF TimeInv, RunInfoSpansEvents
  <2> QED BY <2>2, <2>3 DEF RunInfoSound
<1> QED BY <1>1, ROInvHolds, PTL

\* Theorem: a tree that ROOT has deleted is filled only if events of two runs
\* were in process at the same time.
THEOREM DeletedTreeUntouched == Spec => []NoDeletedTreeFilled
<1>1. ROInv => NoDeletedTreeFilled BY DEF ROInv, OverlapInv, NoDeletedTreeFilled
<1> QED BY <1>1, ROInvHolds, PTL

\* EventHeader and EventDST are filled in two locked sections of evnt.  As long
\* as there is one EventDST tree, whatever threads fill in between: the header
\* lacks the rows of the threads between the two, and no event's header is
\* ahead of its row by as many rows as there are threads.
THEOREM FriendsAreNear == Spec => []FriendRowsNear
<1>1. ROInv => FriendRowsNear
  BY DEF ROInv, FriendInv, Near, FriendRowsNear
<1> QED BY ROInvHolds, <1>1, PTL
=============================================================================
