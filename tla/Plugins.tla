------------------------------ MODULE Plugins ------------------------------
(***************************************************************************)
(* A job with one plugin: the main thread calls init of the processors,    *)
(* the threads call their erun, brun and evnt (JEventLoop::OneEvent), and  *)
(* the main thread ends with erun, where it is due, and fini               *)
(* (JApplication::Fini).  Processor 1 is BDXEventProcessor, which owns the *)
(* output; processor 2 is the plugin, which JANA appends to the list.      *)
(* What a callback does is a path of its program, a sequence of operations *)
(* on the ROOT lock, the plugin's members and the output, which the        *)
(* threads interleave operation by operation.                              *)
(***************************************************************************)
EXTENDS Naturals, Sequences, FiniteSets

CONSTANTS
    Threads,   \* the processing threads
    NEvents,   \* number of events
    RunOf,     \* run number of each event
    Output,    \* the program of BDXEventProcessor
    Plugins,   \* the programs of the plugins, one of which is attached
    Leaky,     \* plugins that return, or throw, with the ROOT lock
    Losing,    \* plugins that call loop->Get with it, which may give it back
    Unlocked,  \* plugins that use their members without it
    Mixed,     \* plugins whose rows keep values of earlier events
    Resetting, \* plugins that use them without it in brun only
    Blind      \* plugins that leave a member uninitialised

Main   == "main"
Nobody == "nobody"
Actors == Threads \cup {Main}
Event  == 1..NEvents
Procs  == 1..2

Callback == {"init", "first", "brun", "evnt", "erun", "fini"}
Op == {"lock", "unlock", "book", "makeOnce", "set", "row", "hist",
       "find", "add", "addBlind", "throw", "open", "closeET", "close"}
ASSUME PluginsAssumption ==
    /\ Main \notin Threads /\ Nobody \notin Actors
    /\ NEvents \in Nat /\ RunOf \in [Event -> Nat \ {0}]
    /\ \A p \in Plugins \cup {Output} : \A c \in Callback : p[c] \subseteq Seq(Op)
    /\ \A p \in Plugins : p.new.first \subseteq BOOLEAN
                       /\ p.new.out \subseteq {"null", "garbage", "set"}

VARIABLES
    plugin,      \* the program of the plugin
    isET,        \* output type root_et, one file for each run
    hasOutput,   \* SYSTEM:OUTPUT is one that makes a JROOTOutput
    next,        \* next event to be taken
    ev,          \* the event of each thread, 0 for none
    proc, call,  \* processor and callback an actor is in
    path, pos,   \* path through the callback, and place on it
    state,       \* holder of each processor's state mutex
    brunCalled, erunCalled, brunRun,  \* JEventProcessor's record of calls
    first,       \* m_isFirstCallToBrun of the plugin
    root,        \* holder of the ROOT lock
    out,         \* m_ROOTOutput of the plugin: "null", "set" or "garbage"
    made,        \* entries in the histograms of a makeOnce, <<>> before it
    isOpen,      \* the output file is open
    listed,      \* the plugin's objects are in m_objects
    entries,     \* what was filled into the plugin's objects
    files,       \* for each file closed: the entries of the objects in it, if any
    buf,         \* event whose values the members hold
    torn,        \* a row was filled with members of another event
    overlap,     \* history: events of two runs were in process together
    undef        \* AddObject was called through a pointer never set

options == <<plugin, isET, hasOutput>>
calls   == <<state, brunCalled, erunCalled, brunRun>>
members == <<first, out, made, entries, buf, torn, undef>>
output  == <<isOpen, listed, files>>
where   == <<next, ev, proc, call, path, pos, overlap>>
vars    == <<options, where, calls, members, root, output>>

Code(i) == IF i = 1 THEN Output ELSE plugin

Init ==
    /\ plugin \in Plugins /\ isET \in BOOLEAN /\ hasOutput \in BOOLEAN
    /\ (isET => hasOutput)
    /\ next = 1 /\ ev = [t \in Actors |-> 0]
    /\ proc = [t \in Actors |-> 1]
    /\ call = [t \in Actors |-> IF t = Main THEN "start" ELSE "idle"]
    /\ path = [t \in Actors |-> <<>>] /\ pos = [t \in Actors |-> 1]
    /\ state = [i \in Procs |-> Nobody]
    /\ brunCalled = [i \in Procs |-> FALSE] /\ erunCalled = [i \in Procs |-> FALSE]
    /\ brunRun = [i \in Procs |-> 0]
    /\ first \in plugin.new.first /\ out \in plugin.new.out
    /\ root = Nobody /\ made = <<>>
    /\ isOpen = FALSE /\ listed = FALSE /\ files = <<>>
    /\ entries = 0 /\ buf = 0 /\ torn = FALSE /\ overlap = FALSE /\ undef = FALSE

-----------------------------------------------------------------------------
(***************************************************************************)
(* The calls.                                                              *)
(***************************************************************************)

AtEnd(t)  == pos[t] > Len(path[t])
At(t, op) == ~AtEnd(t) /\ path[t][pos[t]] = op

\* The paths through callback c of processor i.
Paths(i, c) ==
    IF c = "brun"
    THEN {f \o b : f \in (IF i = 2 /\ first THEN plugin.first ELSE {<<>>}),
                   b \in Code(i).brun}
    ELSE Code(i)[c]

\* Actor t calls c of processor i.
Call(t, i, c) ==
    /\ proc' = [proc EXCEPT ![t] = i] /\ call' = [call EXCEPT ![t] = c]
    /\ \E p \in Paths(i, c) : path' = [path EXCEPT ![t] = p]
    /\ pos' = [pos EXCEPT ![t] = 1]
    /\ first' = (first /\ ~(i = 2 /\ c = "brun"))

\* Actor t is between callbacks, at place c of processor i.
Move(t, i, c) ==
    /\ proc' = [proc EXCEPT ![t] = i] /\ call' = [call EXCEPT ![t] = c]
    /\ path' = [path EXCEPT ![t] = <<>>] /\ pos' = [pos EXCEPT ![t] = 1]
    /\ UNCHANGED first

heap == <<options, root, out, made, entries, buf, torn, undef, output>>

\* A thread takes the next event.
Take(t) ==
    /\ call[t] = "idle" /\ call[Main] = "run" /\ next \in Event
    /\ ev' = [ev EXCEPT ![t] = next] /\ next' = next + 1
    /\ overlap' = (overlap \/ \E u \in Threads :
                      ev[u] # 0 /\ RunOf[ev[u]] # RunOf[next])
    /\ Move(t, 1, "enter")
    /\ UNCHANGED <<heap, calls>>

\* LockState, and erun when the run number has changed.
CallErun(t) ==
    LET i == proc[t] IN
    /\ call[t] = "enter" /\ state[i] = Nobody
    /\ RunOf[ev[t]] # brunRun[i] /\ brunCalled[i] /\ ~erunCalled[i]
    /\ state' = [state EXCEPT ![i] = t]
    /\ Call(t, i, "erun")
    /\ UNCHANGED <<heap, next, ev, overlap, brunCalled, erunCalled, brunRun>>

\* As CallBrun, without LockState.
CallBrun_NoLock(t) ==
    LET i == proc[t] IN
    /\ call[t] = "enter"
    /\ RunOf[ev[t]] # brunRun[i] \/ ~brunCalled[i]
    /\ ~(RunOf[ev[t]] # brunRun[i] /\ brunCalled[i] /\ ~erunCalled[i])
    /\ brunCalled' = [brunCalled EXCEPT ![i] = FALSE]
    /\ Call(t, i, "brun")
    /\ UNCHANGED <<heap, next, ev, overlap, erunCalled, brunRun, state>>

\* LockState, and brun when erun is not due.
CallBrun(t) ==
    LET i == proc[t] IN
    /\ call[t] = "enter" /\ state[i] = Nobody
    /\ RunOf[ev[t]] # brunRun[i] \/ ~brunCalled[i]
    /\ ~(RunOf[ev[t]] # brunRun[i] /\ brunCalled[i] /\ ~erunCalled[i])
    /\ state' = [state EXCEPT ![i] = t]
    /\ brunCalled' = [brunCalled EXCEPT ![i] = FALSE]
    /\ Call(t, i, "brun")
    /\ UNCHANGED <<heap, next, ev, overlap, erunCalled, brunRun>>

\* erun returns, and brun is called under the same LockState.
BrunAfterErun(t) ==
    LET i == proc[t] IN
    /\ call[t] = "erun" /\ t \in Threads /\ AtEnd(t)
    /\ erunCalled' = [erunCalled EXCEPT ![i] = TRUE]
    /\ brunCalled' = [brunCalled EXCEPT ![i] = FALSE]
    /\ Call(t, i, "brun")
    /\ UNCHANGED <<heap, next, ev, overlap, state, brunRun>>

\* As EvntAfterBrun, without UnlockState.
EvntAfterBrun_KeepsState(t) ==
    LET i == proc[t] IN
    /\ call[t] = "brun" /\ AtEnd(t)
    /\ brunCalled' = [brunCalled EXCEPT ![i] = TRUE]
    /\ erunCalled' = [erunCalled EXCEPT ![i] = FALSE]
    /\ brunRun' = [brunRun EXCEPT ![i] = RunOf[ev[t]]]
    /\ Call(t, i, "evnt")
    /\ UNCHANGED <<heap, next, ev, overlap, state>>

\* brun returns; UnlockState and evnt.
EvntAfterBrun(t) ==
    LET i == proc[t] IN
    /\ call[t] = "brun" /\ AtEnd(t)
    /\ brunCalled' = [brunCalled EXCEPT ![i] = TRUE]
    /\ erunCalled' = [erunCalled EXCEPT ![i] = FALSE]
    /\ brunRun' = [brunRun EXCEPT ![i] = RunOf[ev[t]]]
    /\ state' = [state EXCEPT ![i] = Nobody]
    /\ Call(t, i, "evnt")
    /\ UNCHANGED <<heap, next, ev, overlap>>

\* LockState and UnlockState with nothing due, and evnt.
CallEvnt(t) ==
    LET i == proc[t] IN
    /\ call[t] = "enter" /\ state[i] = Nobody
    /\ RunOf[ev[t]] = brunRun[i] /\ brunCalled[i]
    /\ Call(t, i, "evnt")
    /\ UNCHANGED <<heap, next, ev, overlap, calls>>

\* evnt returns: the next processor, or the next event.
EvntReturns(t) ==
    /\ call[t] = "evnt" /\ AtEnd(t)
    /\ IF proc[t] = 1 THEN Move(t, 2, "enter") /\ UNCHANGED ev
       ELSE Move(t, 1, "idle") /\ ev' = [ev EXCEPT ![t] = 0]
    /\ UNCHANGED <<heap, next, overlap, calls>>

\* An exception from evnt ends the thread (LaunchThread).
Throw(t) ==
    /\ At(t, "throw")
    /\ Move(t, 1, "dead") /\ ev' = [ev EXCEPT ![t] = 0]
    /\ UNCHANGED <<heap, next, overlap, calls>>

\* The main thread calls init of the processors, in the order of the list, and
\* starts the threads.
MainInit ==
    /\ AtEnd(Main)
    /\ \/ call[Main] = "start" /\ Call(Main, 1, "init")
       \/ call[Main] = "init" /\ proc[Main] = 1 /\ Call(Main, 2, "init")
       \/ call[Main] = "init" /\ proc[Main] = 2 /\ Move(Main, 1, "run")
    /\ UNCHANGED <<heap, next, ev, overlap, calls>>

ThreadsOut == \A t \in Threads :
    call[t] = "dead" \/ (call[t] = "idle" /\ next \notin Event)

\* Fini, first part: erun of processor i where it is due.
FiniErun(i) ==
    /\ \/ brunCalled[i] /\ ~erunCalled[i] /\ Call(Main, i, "erun")
       \/ ~(brunCalled[i] /\ ~erunCalled[i]) /\ Move(Main, i, "erun")
    /\ erunCalled' = [erunCalled EXCEPT ![i] = brunCalled[i] \/ erunCalled[i]]
    /\ UNCHANGED <<state, brunCalled, brunRun>>

\* Fini, when the threads are gone: erun of all processors, then fini of all.
MainFini ==
    /\ AtEnd(Main)
    /\ \/ call[Main] = "run" /\ ThreadsOut /\ FiniErun(1)
       \/ call[Main] = "erun" /\ proc[Main] = 1 /\ FiniErun(2)
       \/ call[Main] = "erun" /\ proc[Main] = 2 /\ Call(Main, 1, "fini")
          /\ UNCHANGED calls
       \/ call[Main] = "fini" /\ proc[Main] = 1 /\ Call(Main, 2, "fini")
          /\ UNCHANGED calls
       \/ call[Main] = "fini" /\ proc[Main] = 2 /\ Move(Main, 1, "done")
          /\ UNCHANGED calls
    /\ UNCHANGED <<heap, next, ev, overlap>>

-----------------------------------------------------------------------------
(***************************************************************************)
(* The operations.                                                         *)
(***************************************************************************)

Advance(t) ==
    /\ pos' = [pos EXCEPT ![t] = pos[t] + 1]
    /\ UNCHANGED <<options, next, ev, proc, call, path, overlap, calls, first>>

\* As Lock, for a lock that any number of actors may hold.
Lock_Shared(t) ==
    /\ At(t, "lock") /\ root' = t /\ Advance(t)
    /\ UNCHANGED <<out, made, entries, buf, torn, undef, output>>

\* RootWriteLock.  When the holder asks again, pthread_rwlock_wrlock returns an
\* error code, which is not looked at.
Lock(t) ==
    /\ At(t, "lock") /\ root \in {Nobody, t}
    /\ root' = t /\ Advance(t)
    /\ UNCHANGED <<out, made, entries, buf, torn, undef, output>>

\* As Unlock, with another lock of JApplication unlocked.
Unlock_Other(t) ==
    /\ At(t, "unlock") /\ Advance(t)
    /\ UNCHANGED <<root, out, made, entries, buf, torn, undef, output>>

\* RootUnLock.  What it does to another's lock is undefined.
Unlock(t) ==
    /\ At(t, "unlock") /\ Advance(t)
    /\ root' = Nobody \/ (root # t /\ root' = root)
    /\ UNCHANGED <<out, made, entries, buf, torn, undef, output>>

\* Histograms and trees are made.
Book(t) ==
    /\ At(t, "book") /\ Advance(t)
    /\ UNCHANGED <<root, out, made, entries, buf, torn, undef, output>>

\* Members are given the values of the event.
Assign(t) ==
    /\ At(t, "set") /\ buf' = ev[t] /\ Advance(t)
    /\ UNCHANGED <<root, out, made, entries, torn, undef, output>>

\* t->Fill() and histogram fills.
Fill(t) ==
    /\ \/ At(t, "row") /\ torn' = (torn \/ buf # ev[t])
       \/ At(t, "hist") /\ UNCHANGED torn
    /\ entries' = entries + 1 /\ Advance(t)
    /\ UNCHANGED <<root, out, made, buf, undef, output>>

\* Histograms made by the first erun; a later one unlocks and returns.
MakeOnce(t) ==
    /\ At(t, "makeOnce")
    /\ IF made # <<>>
       THEN /\ root' = Nobody /\ pos' = [pos EXCEPT ![t] = Len(path[t]) + 1]
            /\ UNCHANGED made
       ELSE /\ made' = <<entries>> /\ pos' = [pos EXCEPT ![t] = pos[t] + 1]
            /\ UNCHANGED root
    /\ UNCHANGED <<options, next, ev, proc, call, path, overlap, calls, first,
                   out, entries, buf, torn, undef, output>>

FindOutput(t) ==
    /\ At(t, "find") /\ out' = (IF hasOutput THEN "set" ELSE out) /\ Advance(t)
    /\ UNCHANGED <<root, made, entries, buf, torn, undef, output>>

\* AddObject, of every object of the plugin.  The list is made by the first open.
AddObjects(t) ==
    /\ \/ At(t, "add") /\ undef' = (undef \/ out = "garbage")
       \/ At(t, "addBlind") /\ undef' = (undef \/ out # "set")
    /\ listed' = (listed \/ (out = "set" /\ (isOpen \/ files # <<>>)))
    /\ Advance(t)
    /\ UNCHANGED <<root, out, made, entries, buf, torn, isOpen, files>>

\* As OpenOutput, with a new list although the file is open.
OpenOutput_NewList(t) ==
    /\ At(t, "open") /\ isOpen' = hasOutput
    /\ listed' = FALSE /\ Advance(t)
    /\ UNCHANGED <<root, out, made, entries, buf, torn, undef, files>>

\* JROOTOutput::OpenOutput starts a new list when no file is open.
OpenOutput(t) ==
    /\ At(t, "open") /\ isOpen' = hasOutput
    /\ listed' = (listed /\ isOpen) /\ Advance(t)
    /\ UNCHANGED <<root, out, made, entries, buf, torn, undef, files>>

\* CloseOutput saves the objects in the list; in erun for root_et only.
CloseOutput(t) ==
    /\ At(t, "close") \/ At(t, "closeET")
    /\ IF isOpen /\ (isET \/ At(t, "close"))
       THEN /\ isOpen' = FALSE
            /\ files' = Append(files, IF ~listed THEN <<>>
                                   ELSE IF made # <<>> THEN made ELSE <<entries>>)
       ELSE UNCHANGED <<isOpen, files>>
    /\ Advance(t)
    /\ UNCHANGED <<root, out, made, entries, buf, torn, undef, listed>>

Step(t) ==
    \/ Lock(t) \/ Unlock(t) \/ Book(t) \/ Assign(t) \/ Fill(t) \/ MakeOnce(t)
    \/ FindOutput(t) \/ AddObjects(t) \/ OpenOutput(t) \/ CloseOutput(t)

OneEvent(t) ==
    \/ Take(t) \/ CallErun(t) \/ CallBrun(t) \/ BrunAfterErun(t)
    \/ EvntAfterBrun(t) \/ CallEvnt(t) \/ EvntReturns(t) \/ Throw(t)

Done == call[Main] = "done" /\ UNCHANGED vars

Next ==
    \/ \E t \in Actors : Step(t)
    \/ \E t \in Threads : OneEvent(t)
    \/ MainInit \/ MainFini
    \/ Done

Fairness ==
    /\ \A t \in Actors : WF_vars(Step(t))
    /\ \A t \in Threads : WF_vars(OneEvent(t))
    /\ WF_vars(MainInit) /\ WF_vars(MainFini)

Spec == Init /\ [][Next]_vars /\ Fairness

-----------------------------------------------------------------------------
(***************************************************************************)
(* Properties.                                                             *)
(***************************************************************************)

\* Type invariant: every actor is on a path of its callback, and locks are held
\* by actors.
TypeOK ==
    /\ plugin \in Plugins /\ isET \in BOOLEAN /\ hasOutput \in BOOLEAN
    /\ next \in 1..(NEvents + 1) /\ ev \in [Actors -> 0..NEvents]
    /\ proc \in [Actors -> Procs]
    /\ call \in [Actors -> Callback \cup {"start", "run", "done", "idle", "enter", "dead"}]
    /\ path \in [Actors -> Seq(Op)]
    /\ pos \in [Actors -> Nat \ {0}]
    /\ state \in [Procs -> Threads \cup {Nobody}]
    /\ brunCalled \in [Procs -> BOOLEAN] /\ erunCalled \in [Procs -> BOOLEAN]
    /\ brunRun \in [Procs -> Nat]
    /\ first \in BOOLEAN /\ out \in {"null", "garbage", "set"}
    /\ root \in Actors \cup {Nobody}
    /\ isOpen \in BOOLEAN /\ listed \in BOOLEAN /\ entries \in Nat
    /\ buf \in 0..NEvents /\ torn \in BOOLEAN /\ overlap \in BOOLEAN

\* Place k of a path is between a lock and the next unlock.
Held(s, k) == \E j \in 1..(k - 1) :
    s[j] = "lock" /\ \A i \in (j + 1)..(k - 1) : s[i] # "unlock"

\* The members were given the values of the event since the last unlock.
Assigned(s, k) == \E j \in 1..(k - 1) :
    s[j] = "set" /\ \A i \in (j + 1)..(k - 1) : s[i] # "unlock"

UnlocksOwn(s) == \A k \in 1..Len(s) :
    /\ s[k] = "unlock" => Held(s, k)
    /\ s[k] = "makeOnce" => Held(s, k) /\ ~Held(s, Len(s) + 1)

GivesBack(s) == /\ ~Held(s, Len(s) + 1)
                /\ \A k \in 1..Len(s) : s[k] = "throw" => ~Held(s, k)

Guarded(s) == \A k \in 1..Len(s) : s[k] \in {"set", "row", "hist"} => Held(s, k)

OwnRows(s) == \A k \in 1..Len(s) :
    /\ s[k] \in {"set", "row"} => Held(s, k)
    /\ s[k] = "row" => Assigned(s, k)

NoRow(s)  == \A k \in 1..Len(s) : s[k] # "row"
NoUse(s)  == \A k \in 1..Len(s) : s[k] \notin {"set", "row", "hist"}
NoList(s) == \A k \in 1..Len(s) : s[k] \notin {"add", "addBlind", "open", "close", "closeET"}

\* The paths through the first call of brun, and through all callbacks.
FirstPaths(p) == UNION {{f \o b : b \in p.brun} : f \in p.first}
PathsOf(p) == (UNION {p[c] : c \in Callback}) \cup FirstPaths(p)

\* What the code of the processors keeps to, path by path: RootUnLock only where
\* the lock is held, no return and no exception with it, members, trees and
\* histograms used under it only, and a row filled in the locked section that set
\* all its values.  The plugins named in Leaky, Losing, Unlocked, Mixed and
\* Resetting are those that do not; one in Resetting fills no row, and keeps to
\* it in evnt.  No evnt uses the list of the output.
Discipline ==
    /\ \A s \in PathsOf(Output) : UnlocksOwn(s) /\ GivesBack(s) /\ NoUse(s)
    /\ \A p \in Plugins : \A s \in PathsOf(p) :
          /\ p \notin Losing => UnlocksOwn(s)
          /\ p \notin Leaky => GivesBack(s)
          /\ p \notin Unlocked \cup Resetting => Guarded(s)
          /\ p \notin Mixed \cup Resetting => OwnRows(s)
          /\ p \in Resetting => NoRow(s)
    /\ \A p \in Plugins \cup {Output} : \A s \in p.evnt : NoList(s)
    /\ \A p \in Plugins \cap Resetting : \A s \in p.evnt : Guarded(s)

\* A callback that has returned has given the ROOT lock back, on whatever path
\* it returned, and a thread that died of an exception did not have it:
\* otherwise every other thread waits for it in vain.
LockGivenBack == plugin \notin Leaky => \A t \in Actors : AtEnd(t) => root # t

Uses(t) == At(t, "set") \/ At(t, "row") \/ At(t, "hist")

\* No two threads are about to use the members, trees or histograms of the
\* plugin at the same time, if it uses them under the lock and keeps the lock
\* until it gives it back itself.
RaceFree ==
    plugin \notin Unlocked \cup Resetting \cup Losing
    => \A t, u \in Actors : Uses(t) /\ Uses(u) => t = u

\* A plugin that resets its members in brun, without the lock, is alone with
\* them too as long as events of different runs are not in process together.
ResetsAlone ==
    plugin \in Resetting \ Losing /\ ~overlap
    => \A t, u \in Actors : Uses(t) /\ Uses(u) => t = u

\* A row of a tree holds the values of one event, that of the thread filling it,
\* whatever the other threads assign meanwhile.
RowsOfOneEvent == plugin \notin Mixed \cup Losing => ~torn

UsesList(t) == \/ At(t, "add") \/ At(t, "addBlind") \/ At(t, "open")
               \/ At(t, "close") \/ At(t, "closeET")

\* AddObject is called without the ROOT lock.  The list of the output still has
\* one user at a time, by the state mutexes and the order of the processors, as
\* long as events of different runs do not overlap.
OneUserOfList ==
    ~overlap => \A t, u \in Actors : UsesList(t) /\ UsesList(u) => t = u

\* What is used without the ROOT lock has one user at a time all the same.
AloneWithoutLock == TypeOK /\ ResetsAlone /\ OneUserOfList

Adds(p) == \E c \in {"first", "erun"} : \E s \in p[c] : \E k \in 1..Len(s) :
               s[k] \in {"add", "addBlind"}
OneRun == \A e \in Event : RunOf[e] = RunOf[1]

Lacks(s, ops) == \A k \in 1..Len(s) : s[k] \notin ops
Has(s, op)    == \E k \in 1..Len(s) : s[k] = op
\* Operation a, and b after it.
HasBoth(s, a, b) == \E j, k \in 1..Len(s) : j < k /\ s[j] = a /\ s[k] = b
Once(s, op) == \A j, k \in 1..Len(s) : s[j] = op /\ s[k] = op => j = k

\* A plugin hands its objects to the output: it finds the output in its first
\* brun, adds the objects there or in every erun, fills nothing from erun on,
\* and makes histograms in erun, before it adds them, or not at all.
HandsOver(p) ==
    /\ p.new.first \subseteq {TRUE}
    /\ \A s \in PathsOf(p) : Lacks(s, {"open", "close", "closeET"})
    /\ \A s \in p.erun \cup p.fini : Lacks(s, {"row", "hist"})
    /\ \A s \in p.erun \cup FirstPaths(p) : Lacks(s, {"throw"})
    /\ \A s \in FirstPaths(p) : Has(s, "find")
    /\ \/ \A s \in FirstPaths(p) : HasBoth(s, "find", "add")
       \/ \A s \in p.erun : Has(s, "add")
    /\ \A s \in FirstPaths(p) \cup UNION {p[c] : c \in Callback \ {"erun"}} :
          Lacks(s, {"makeOnce"})
    /\ \A s \in p.erun : IF p \in Resetting
                         THEN HasBoth(s, "makeOnce", "add") /\ Once(s, "makeOnce")
                         ELSE Lacks(s, {"makeOnce"})

\* What the code keeps to for the sake of the output: BDXEventProcessor opens
\* it in brun and closes it in fini and nowhere else, and the plugins, but for
\* those in Blind, set the pointer before they use it and hand over what they
\* add.
Saving ==
    /\ \A s \in Output.brun : Has(s, "open")
    /\ \A s \in Output.fini : Has(s, "close")
    /\ \A c \in Callback : \A s \in Output[c] :
          /\ Lacks(s, {"find", "add", "addBlind", "makeOnce"})
          /\ c # "brun" => Lacks(s, {"open"})
          /\ c # "fini" => Lacks(s, {"close"})
    /\ \A p \in Plugins \ Blind :
          /\ "garbage" \notin p.new.out
          /\ \A s \in PathsOf(p) : Lacks(s, {"addBlind"})
          /\ Adds(p) => HandsOver(p)

\* At the end of a job with one output file, the file holds the objects of the
\* plugin, with everything that was filled into them.  Histograms made by the
\* first erun hold the first run only.
FilledIsSaved ==
    call[Main] = "done" /\ hasOutput /\ ~isET /\ brunCalled[2]
    /\ Adds(plugin) /\ plugin \notin Blind
    => files = << IF plugin \in Resetting /\ ~OneRun THEN made ELSE <<entries>> >>

\* No object is added through a pointer that was never set.
NoGarbagePointer == plugin \notin Blind => ~undef

\* What the plugins hand to the output is theirs to hand, and is saved.
OutputSaved == FilledIsSaved /\ NoGarbagePointer

\* The job ends: no thread waits for ever for a lock.
JobEnds == plugin \notin Leaky \cup Losing => <>(call[Main] = "done")
=============================================================================
