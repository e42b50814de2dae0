---------------------------- MODULE Calibration ----------------------------
(***************************************************************************)
(* Calibration constants in a multi-threaded job.  Every thread has its    *)
(* own factories, each factory its own calibration handler, and all        *)
(* handlers are registered, under the name of their table, with the one    *)
(* BDXEventProcessor.  The first thread to ask for a table reads it from   *)
(* the data base for all the others (addCalibration, updateCalibration and *)
(* clearCalibration, each under the ROOT lock).  JANA calls a factory's    *)
(* init once, erun and brun when the run number changes and evnt for every *)
(* event (JFactory::Get).                                                  *)
(*                                                                         *)
(* Constants are abstracted to the run they belong to, 0 meaning none.  A  *)
(* "factory" here is a factory with one of its handlers.  A handler has    *)
(* one index; what it has given out for that index is kept in the          *)
(* handler's cache.                                                        *)
(*                                                                         *)
(* The holder of the ROOT lock fills handlers, of other threads too, one   *)
(* after the other, and each in steps: m_calib is emptied and then filled. *)
(* getCalib takes no lock and may look in between.                         *)
(***************************************************************************)
EXTENDS Job

CONSTANTS
    Factories,   \* the factories of each thread that use constants
    Table,       \* the table of each factory
    Clears,      \* the factories whose erun calls clearCalibrationHandler
    Persistent,  \* the factories that set the PERSISTANT flag
    RunKind,     \* the factories with a RunCalibrationHandler (no index)
    Malformed,   \* <<table, run>> pairs whose rows fillCalib refuses
    Missing      \* <<table, run>> pairs the data base has no rows for

ASSUME CalibrationAssumption ==
    /\ Clears \subseteq Factories /\ Persistent \subseteq Factories
    /\ RunKind \subseteq Factories
    /\ DOMAIN Table = Factories
    /\ \A f, g \in Factories : Table[f] = Table[g] => (f \in RunKind <=> g \in RunKind)

VARIABLES
    runs,    \* input: the run numbers in the data
    taken,   \* number of events taken by the threads
    pc,      \* where each thread is: "idle", "event", inside a factory, "exit"
    fac,     \* the factory the thread is in
    run,     \* run number of the thread's event
    life,    \* JFactory's record of the calls made, per thread and factory
    reg,     \* m_calibrations: the registered handlers
    loaded,  \* m_hasLoadedCurrentRun
    raw,     \* m_rawCalibData
    calib,   \* m_calib
    cached,  \* m_actualCalib
    unfilled, \* the handlers the updateCalibration under way has still to fill
    rows,    \* the rows it fills them with
    filling, \* the handler it is filling: emptied and not yet done
    used,    \* history: constants last used, with the run of the event
    raced,   \* history: the handlers looked up while another thread filled them
    dbReads  \* history: how often each table was read from the data base

\* The registry, as the ROOT lock protects it.
regVars == <<reg, loaded, raw, calib, unfilled, rows, filling, dbReads>>

vars == <<runs, taken, pc, fac, run, life, reg, loaded, raw, calib, cached, unfilled,
          rows, filling, used, raced, dbReads>>

Handlers == Threads \X Factories
Tables   == {Table[f] : f \in Factories}

\* init_called is not kept: the factories whose init was called are those
\* whose handler is registered.
NewFactory == [brun |-> FALSE, erun |-> FALSE, brunRun |-> 0, evnt |-> FALSE]

Init ==
    /\ runs \in (SUBSET Runs) \ {{}}
    /\ taken = 0
    /\ pc = [t \in Threads |-> "idle"]
    /\ fac \in [Threads -> Factories] /\ \A t, u \in Threads : fac[t] = fac[u]
    /\ run = [t \in Threads |-> 0]
    /\ life = [h \in Handlers |-> NewFactory]
    /\ reg = {}
    /\ loaded = [h \in Handlers |-> FALSE]
    /\ raw = [h \in Handlers |-> 0]
    /\ calib = [h \in Handlers |-> 0]
    /\ cached = [h \in Handlers |-> 0]
    /\ unfilled = {} /\ rows = 0 /\ filling = {}
    /\ used = [h \in Handlers |-> <<0, 0>>]
    /\ raced = {}
    /\ dbReads = [b \in Tables |-> 0]

-----------------------------------------------------------------------------
(***************************************************************************)
(* The handlers and the registry.                                          *)
(***************************************************************************)

\* The registered handlers of the table that handler h uses.
SameTable(h) == {g \in reg : Table[g[2]] = Table[h[2]]}

\* What GetCalib reads for run r: its rows, or none.  Its result is not
\* looked at.
Rows(h, r) == IF <<Table[h[2]], r>> \in Missing THEN 0 ELSE r

\* Would fillCalib refuse the rows of run r (0: no rows)?
Refused(h, r) == r = 0 \/ <<Table[h[2]], r>> \in Malformed

\* Nobody is inside updateCalibration: the ROOT lock can be had.
RootLockFree == \A t \in Threads : pc[t] # "fill"

\* As CopyRows, reading the data base again.
CopyRows_Rereads(h, g) ==
    /\ rows' = Rows(h, run[h[1]])
    /\ dbReads' = [dbReads EXCEPT ![Table[h[2]]] = @ + 1]

\* The rows of handler g are to be copied.
CopyRows(h, g) == rows' = raw[g] /\ UNCHANGED dbReads

\* The table of handler h is read from the data base, for the run of the
\* calling thread's event.  The result is not looked at.
ReadTable(h) ==
    /\ rows' = Rows(h, run[h[1]])
    /\ dbReads' = [dbReads EXCEPT ![Table[h[2]]] = @ + 1]

\* As AllLoaded, content with one.
AllLoaded_One(h) == \E g \in SameTable(h) : loaded[g]

\* flagAll: have all handlers of the table been loaded?
AllLoaded(h) == \A g \in SameTable(h) : loaded[g]

\* As UpdateCalibration, filling the handlers that are loaded as well.
UpdateCalibration_FillsAll(h) ==
    LET all  == SameTable(h)
        done == {g \in all : loaded[g]}
    IN  /\ ~AllLoaded(h)
        /\ \/ done # {} /\ \E g \in done : CopyRows(h, g)
           \/ done = {} /\ ReadTable(h)
        /\ unfilled' = all

\* updateCalibration, up to the filling.  1A: all handlers of the table are
\* loaded.  1C: some are; the rows of one of them (the code takes the one
\* registered last, the order is left out here) go to the others.  1B: none
\* is; read the table and fill all.
UpdateCalibration(h) ==
    LET all  == SameTable(h)
        done == {g \in all : loaded[g]}
    IN  /\ ~AllLoaded(h)
        /\ \/ done # {} /\ \E g \in done : CopyRows(h, g)
           \/ done = {} /\ ReadTable(h)
        /\ unfilled' = all \ done

\* fillCalib begins: m_calib is emptied, the rows are kept.  A
\* RunCalibrationHandler refuses rows before that and keeps what it had; the
\* handler is marked all the same, the result of fillCalib is not looked at.
EmptyHandler(t) ==
    /\ pc[t] = "fill" /\ filling = {}
    /\ \E h \in unfilled :
          \/ /\ h[2] \in RunKind /\ Refused(h, rows)
             /\ loaded' = [loaded EXCEPT ![h] = TRUE]
             /\ unfilled' = unfilled \ {h}
             /\ UNCHANGED <<raw, calib, filling>>
          \/ /\ ~(h[2] \in RunKind /\ Refused(h, rows))
             /\ calib' = [calib EXCEPT ![h] = 0]
             /\ raw' = [raw EXCEPT ![h] = rows]
             /\ filling' = {h}
             /\ UNCHANGED <<loaded, unfilled>>
    /\ UNCHANGED <<runs, taken, pc, fac, run, life, reg, cached, rows, used, raced,
                   dbReads>>

\* The row of the handler's index goes into m_calib.
InsertRow(t) ==
    /\ pc[t] = "fill" /\ rows # 0
    /\ \E h \in filling :
          /\ calib[h] = 0
          /\ calib' = [calib EXCEPT ![h] = rows]
    /\ UNCHANGED <<runs, taken, pc, fac, run, life, reg, loaded, raw, cached, unfilled,
                   rows, filling, used, raced, dbReads>>

\* fillCalib ends, its rows inserted; on a bad row, which may come before or
\* after the one of the handler's index, m_calib is emptied again.
EndFill(t) ==
    /\ pc[t] = "fill"
    /\ \E h \in filling :
          /\ ~Refused(h, rows) => calib[h] = rows
          /\ calib' = [calib EXCEPT ![h] = IF Refused(h, rows) THEN 0 ELSE @]
          /\ loaded' = [loaded EXCEPT ![h] = TRUE]
          /\ unfilled' = unfilled \ {h}
    /\ filling' = {}
    /\ UNCHANGED <<runs, taken, pc, fac, run, life, reg, raw, cached, rows, used, raced,
                   dbReads>>

\* clearCalibration marks every handler of the table; the constants stay.
ClearCalibration(h) ==
    loaded' = [k \in Handlers |-> loaded[k] /\ k \notin SameTable(h)]

\* Constants read from a map that another thread is changing.
Torn == -1

\* getCalib: the cache first, then m_calib, which fills the cache unless
\* there is nothing.  In a map that another thread is filling it finds
\* nothing, the constants, or what is neither.
GetCalib(h) ==
    LET hit == h[2] \notin RunKind /\ cached[h] # 0
    IN  \E c \in IF hit THEN {cached[h]}
                 ELSE {calib[h]} \cup (IF h \in filling THEN {0, Torn} ELSE {}) :
          /\ used' = [used EXCEPT ![h] = <<run[h[1]], c>>]
          /\ cached' = IF h[2] \in RunKind THEN cached
                       ELSE [cached EXCEPT ![h] = c]
          /\ raced' = IF ~hit /\ h \in filling THEN raced \cup {h} ELSE raced

-----------------------------------------------------------------------------
(***************************************************************************)
(* A thread.                                                               *)
(***************************************************************************)

\* OneEvent: reset the factories that are not persistent, take an event.
TakeEvent(t) ==
    /\ pc[t] = "idle"
    /\ taken < MaxEvents
    /\ taken' = taken + 1
    /\ \E r \in runs : run' = [run EXCEPT ![t] = r]
    /\ life' = [h \in Handlers |->
                  IF h[1] = t /\ h[2] \notin Persistent
                  THEN [life[h] EXCEPT !.evnt = FALSE] ELSE life[h]]
    /\ pc' = [pc EXCEPT ![t] = "event"]
    /\ UNCHANGED <<runs, fac, cached, used, raced, regVars>>

\* Something asks for the data of factory f.  A factory that has produced
\* its data for this event, or is persistent and has ever produced any, is
\* not run again.  On the first call init registers the handler.
Get(t, f) ==
    LET h == <<t, f>> IN
    /\ pc[t] = "event"
    /\ fac' = [fac EXCEPT ![t] = f]
    /\ \/ /\ life[h].evnt
          /\ pc' = [pc EXCEPT ![t] = "use"]
          /\ UNCHANGED reg
       \/ /\ ~life[h].evnt
          /\ h \in reg \/ RootLockFree
          /\ reg' = reg \cup {h}
          /\ pc' = [pc EXCEPT ![t] = "erun"]
    /\ UNCHANGED <<runs, taken, run, life, loaded, raw, calib, cached, unfilled, rows,
                   filling, used, raced, dbReads>>

\* Call erun if the run number has changed since brun.
Erun(t) ==
    LET h == <<t, fac[t]>>
        changed == run[t] # life[h].brunRun
        due == changed /\ life[h].brun /\ ~life[h].erun
    IN
    /\ pc[t] = "erun"
    /\ IF due /\ fac[t] \in Clears THEN RootLockFree /\ ClearCalibration(h)
                                  ELSE UNCHANGED loaded
    /\ life' = [life EXCEPT ![h].erun = (@ \/ due),
                            ![h].brun = (@ /\ ~changed)]
    /\ pc' = [pc EXCEPT ![t] = "brun"]
    /\ UNCHANGED <<runs, taken, fac, run, reg, raw, calib, cached, unfilled, rows, filling,
                   used, raced, dbReads>>

\* brun has been called for the run of the event; evnt comes next.
AfterBrun(t) ==
    /\ life' = [life EXCEPT ![<<t, fac[t]>>].brun = TRUE,
                            ![<<t, fac[t]>>].erun = FALSE,
                            ![<<t, fac[t]>>].brunRun = run[t],
                            ![<<t, fac[t]>>].evnt = TRUE]
    /\ pc' = [pc EXCEPT ![t] = "use"]

\* Call brun if it is due; it updates the constants.
Brun(t) ==
    LET h == <<t, fac[t]>> IN
    /\ pc[t] = "brun"
    /\ \/ /\ life[h].brun
          /\ life' = [life EXCEPT ![h].evnt = TRUE]
          /\ pc' = [pc EXCEPT ![t] = "use"]
          /\ UNCHANGED <<unfilled, rows, dbReads>>
       \/ /\ ~life[h].brun /\ RootLockFree
          /\ AllLoaded(h)
          /\ AfterBrun(t)
          /\ UNCHANGED <<unfilled, rows, dbReads>>
       \/ /\ ~life[h].brun /\ RootLockFree
          /\ UpdateCalibration(h)
          /\ pc' = [pc EXCEPT ![t] = "fill"]
          /\ UNCHANGED life
    /\ UNCHANGED <<runs, taken, fac, run, reg, loaded, raw, calib, cached, filling, used,
                   raced>>

\* All handlers are filled: updateCalibration returns, the lock is released.
EndUpdate(t) ==
    /\ pc[t] = "fill" /\ unfilled = {}
    /\ AfterBrun(t)
    /\ rows' = 0
    /\ UNCHANGED <<runs, taken, fac, run, reg, loaded, raw, calib, cached, unfilled,
                   filling, used, raced, dbReads>>

\* evnt, or the converter a persistent factory made, uses the constants.
Use(t) ==
    /\ pc[t] = "use"
    /\ GetCalib(<<t, fac[t]>>)
    /\ pc' = [pc EXCEPT ![t] = "event"]
    /\ UNCHANGED <<runs, taken, fac, run, life, regVars>>

FinishEvent(t) ==
    /\ pc[t] = "event"
    /\ pc' = [pc EXCEPT ![t] = "idle"]
    /\ UNCHANGED <<runs, taken, fac, run, life, cached, used, raced, regVars>>

\* No more events, or a stalled thread is killed: ~JEventLoop calls erun of
\* every factory whose brun was called, one after the other.  The handlers
\* stay registered.
Leave(t) ==
    /\ pc[t] \in {"idle", "event", "exit"}
    /\ LET left == {f \in Factories : life[<<t, f>>].brun}
       IN  \/ /\ left = {}
              /\ pc' = [pc EXCEPT ![t] = "gone"]
              /\ UNCHANGED <<life, loaded>>
           \/ \E f \in left :
                /\ pc' = [pc EXCEPT ![t] = "exit"]
                /\ IF f \in Clears THEN RootLockFree /\ ClearCalibration(<<t, f>>)
                                   ELSE UNCHANGED loaded
                /\ life' = [life EXCEPT ![<<t, f>>].brun = FALSE]
    /\ UNCHANGED <<runs, taken, fac, run, reg, raw, calib, cached, unfilled, rows, filling,
                   used, raced, dbReads>>

Done == (\A t \in Threads : pc[t] = "gone") /\ UNCHANGED vars

ThreadStep(t) ==
    \/ TakeEvent(t) \/ Erun(t) \/ Brun(t) \/ EmptyHandler(t) \/ InsertRow(t) \/ EndFill(t)
    \/ EndUpdate(t) \/ Use(t) \/ FinishEvent(t) \/ Leave(t)
    \/ \E f \in Factories : Get(t, f)

Next == (\E t \in Threads : ThreadStep(t)) \/ Done

Spec == Init /\ [][Next]_vars

-----------------------------------------------------------------------------
(***************************************************************************)
(* Properties.                                                             *)
(***************************************************************************)

PC == {"idle", "event", "erun", "brun", "fill", "use", "exit", "gone"}

\* Type correctness.
TypeOK ==
    /\ runs \in SUBSET Runs
    /\ taken \in 0..MaxEvents
    /\ pc \in [Threads -> PC]
    /\ fac \in [Threads -> Factories]
    /\ run \in [Threads -> Runs \cup {0}]
    /\ life \in [Handlers -> [brun : BOOLEAN, erun : BOOLEAN,
                              brunRun : Runs \cup {0}, evnt : BOOLEAN]]
    /\ reg \in SUBSET Handlers
    /\ loaded \in [Handlers -> BOOLEAN]
    /\ raw \in [Handlers -> Runs \cup {0}]
    /\ calib \in [Handlers -> Runs \cup {0}]
    /\ cached \in [Handlers -> Runs \cup {0, Torn}]
    /\ unfilled \in SUBSET Handlers /\ filling \in SUBSET unfilled
    /\ rows \in Runs \cup {0}
    /\ used \in [Handlers -> (Runs \cup {0}) \X (Runs \cup {0, Torn})]
    /\ raced \in SUBSET Handlers
    /\ dbReads \in [Tables -> Nat]

\* Case 1C may copy from any loaded handler: the loaded handlers of a table
\* with indexed constants hold the rows of one run, whoever loaded or cleared
\* them in whatever order.
LoadedAgree ==
    \A g, h \in reg :
        loaded[g] /\ loaded[h] /\ Table[g[2]] = Table[h[2]]
            /\ g[2] \notin RunKind => raw[g] = raw[h]

\* Is the table of factory f there and well formed for every run of the job?
Sound(f) == \A r \in runs : <<Table[f], r>> \notin Malformed \cup Missing

\* A handler about to be used holds constants, though other threads clear
\* and reload the table at any time (if the table is sound): clearing takes
\* away the mark and not the constants, which are gone only while fillCalib
\* of another thread is in the middle of this very handler.
ConstantsAtHand ==
    \A t \in Threads : pc[t] = "use" /\ Sound(fac[t]) =>
        \/ calib[<<t, fac[t]>>] # 0
        \/ /\ <<t, fac[t]>> \in filling
           /\ \E u \in Threads \ {t} : pc[u] = "fill"

\* Has no thread left the job?
NoneLeft == \A t \in Threads : pc[t] \notin {"exit", "gone"}

\* "We can't have CalibrationHandlers in each factory, since this requires
\* access to calibrations in each thread": in a job with one run, while no
\* thread has left, a table is read from the data base once, however many
\* threads and factories ask for it and in whatever order they register.
OneReadPerTable ==
    Cardinality(runs) = 1 /\ NoneLeft => \A b \in Tables : dbReads[b] <= 1

\* In a job with one run no event looks up constants in a handler that
\* another thread is filling, as long as no thread has left: handlers in use
\* are marked, and marked ones are not filled.  A thread that leaves takes
\* the marks of all handlers away, and the next brun fills them while they
\* are in use; so does a change of run.
NoLookupInFill == Cardinality(runs) = 1 /\ NoneLeft => raced = {}

\* In a job with one run every event is processed with the constants of that
\* run ("Verify if all the calibrators already have been set for this run"),
\* whatever threads come and go, but for handlers once looked up while
\* another thread filled them (what was found then may be in the cache).
\* With two runs this is not so: the cache of getCalib is never emptied.
UsesConstantsOfItsRun ==
    /\ NoLookupInFill
    /\ Cardinality(runs) = 1 =>
          \A h \in Handlers \ raced : Sound(h[2]) => used[h][2] = used[h][1]

\* Whatever threads register, load, clear and reload: handlers of one table
\* agree and constants are at hand wherever they are used.
HandlersSound == TypeOK /\ LoadedAgree /\ ConstantsAtHand
=============================================================================
