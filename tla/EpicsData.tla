----------------------------- MODULE EpicsData -----------------------------
(***************************************************************************)
(* Slow-control (EPICS) data in a multi-threaded job: epicsData_factory on *)
(* top of the event buffer.  The factory keeps the last value of every     *)
(* EPICS variable in one global object, m_data, that all threads share.    *)
(* The thread that processes an EPICS event writes it; for every event,    *)
(* EPICS or not, the thread then copies it.  Neither takes a lock: the     *)
(* comments in evnt rely on the EPICS event being a barrier event.         *)
(*                                                                         *)
(* The value of a variable is abstracted to the event it came from (0 for  *)
(* none).  Writing and copying go variable by variable.  The time stamp of *)
(* event e is e.                                                           *)
(***************************************************************************)
EXTENDS EventBuffer

CONSTANTS
    Keys,        \* names of EPICS variables
    KeysOf,      \* the variables each event carries if it is an EPICS event
    DELTA_TIME,  \* EPICS:DELTA_TIME, in s
    T0, mT       \* the two constants in table /DAQ/epics_dT

ASSUME EpicsAssumption ==
    /\ KeysOf \in [Event -> SUBSET Keys]
    /\ DELTA_TIME \in Int /\ T0 \in Int /\ mT \in Int

VARIABLES
    bank,      \* input: events with an eventData bank
    valid,     \* input: EPICS events whose raw data are valid strings
    m_values,  \* m_data.values
    m_times,   \* m_data.times
    epc,       \* where each thread is in epicsData_factory::evnt
    todo,      \* variables it has yet to write or to copy
    snap       \* history: the copy made for each event

epicsVars == <<bank, valid, m_values, m_times, epc, todo, snap>>
evars == <<vars, epicsVars>>

NoCopy == [k \in Keys |-> -1]

EInit ==
    /\ Init
    /\ bank \in SUBSET Event
    /\ valid \in SUBSET (barrier \cap bank)
    /\ m_values = [k \in Keys |-> 0]
    /\ m_times = [k \in Keys |-> 0]
    /\ epc = [l \in Loops |-> "start"]
    /\ todo = [l \in Loops |-> {}]
    /\ snap = [e \in Event |-> NoCopy]

-----------------------------------------------------------------------------

\* m_data.eventNumber is never assigned.
m_eventNumber == 0

\* The correction of an EPICS time.
tCorr == DELTA_TIME + T0 + m_eventNumber * mT

\* evnt: set m_data.time and the number of the run, which is for now all
\* that changes, and start to decode; or, for an event without (valid) EPICS
\* data, start to copy.  Without an eventData bank evnt returns at once and
\* the event has no epicsData.
BeginEvnt(l) ==
    /\ lpc[l] = "proc" /\ epc[l] = "start"
    /\ \/ /\ lev[l] \in valid
          /\ epc' = [epc EXCEPT ![l] = "write"]
          /\ todo' = [todo EXCEPT ![l] = KeysOf[lev[l]]]
       \/ /\ lev[l] \in bank \ valid
          /\ epc' = [epc EXCEPT ![l] = "copy"]
          /\ todo' = [todo EXCEPT ![l] = Keys]
       \/ /\ lev[l] \notin bank
          /\ epc' = [epc EXCEPT ![l] = "copy"]
          /\ todo' = [todo EXCEPT ![l] = {}]
    /\ UNCHANGED <<vars, bank, valid, m_values, m_times, snap>>

\* decode: m_data.time, already corrected, and the correction once more make
\* the time of the variable.
WriteKey(l, k) ==
    /\ epc[l] = "write" /\ lpc[l] = "proc"
    /\ k \in todo[l]
    /\ m_values' = [m_values EXCEPT ![k] = lev[l]]
    /\ m_times' = [m_times EXCEPT ![k] = (lev[l] + tCorr) + tCorr]
    /\ todo' = [todo EXCEPT ![l] = @ \ {k}]
    /\ UNCHANGED <<vars, bank, valid, epc, snap>>

\* As BeginCopy, before all raw banks are decoded.
BeginCopy_Early(l) ==
    /\ epc[l] = "write" /\ lpc[l] = "proc"
    /\ epc' = [epc EXCEPT ![l] = "copy"]
    /\ todo' = [todo EXCEPT ![l] = Keys]
    /\ UNCHANGED <<vars, bank, valid, m_values, m_times, snap>>

\* All raw banks are decoded: copy m_data for this event too.
BeginCopy(l) ==
    /\ epc[l] = "write" /\ lpc[l] = "proc"
    /\ todo[l] = {}
    /\ epc' = [epc EXCEPT ![l] = "copy"]
    /\ todo' = [todo EXCEPT ![l] = Keys]
    /\ UNCHANGED <<vars, bank, valid, m_values, m_times, snap>>

CopyKey(l, k) ==
    /\ epc[l] = "copy" /\ lpc[l] = "proc"
    /\ k \in todo[l]
    /\ snap' = [snap EXCEPT ![lev[l]][k] = m_values[k]]
    /\ todo' = [todo EXCEPT ![l] = @ \ {k}]
    /\ UNCHANGED <<vars, bank, valid, m_values, m_times, epc>>

EpicsStep(l) ==
    \/ BeginEvnt(l) \/ BeginCopy(l)
    \/ \E k \in Keys : WriteKey(l, k) \/ CopyKey(l, k)

\* The thread has its epicsData object and finishes the event.
FinishEvent(l) ==
    /\ epc[l] = "copy" /\ todo[l] = {}
    /\ Finish(l)
    /\ epc' = [epc EXCEPT ![l] = "start"]
    /\ UNCHANGED <<bank, valid, m_values, m_times, todo, snap>>

\* Everything else is as in EventBuffer; a killed thread leaves evnt where
\* it is.
Framework ==
    /\ \/ Reader \/ Main
       \/ \E l \in Loops :
            \/ TopOfLoop(l) \/ Lock(l) \/ Pop(l) \/ Check(l) \/ Repop(l)
            \/ EndOfLoop(l)
    /\ epc' = [l \in Loops |-> IF lpc'[l] = "out" THEN "start" ELSE epc[l]]
    /\ UNCHANGED <<bank, valid, m_values, m_times, todo, snap>>

EEnded == Ended /\ UNCHANGED epicsVars

ENext ==
    \/ /\ ~undef
       /\ Framework \/ \E l \in Loops : EpicsStep(l) \/ FinishEvent(l)
    \/ EEnded

ESpec == EInit /\ [][ENext]_evars

-----------------------------------------------------------------------------

\* Event b was read and not thrown away by the skip options.
NotSkipped(b) == b > EVENTS_TO_SKIP /\ b >= SKIP_TO_EVENT

\* Type correctness of the shared data and the threads' progress.
ETypeOK ==
    /\ bank \in SUBSET Event /\ valid \in SUBSET Event
    /\ m_values \in [Keys -> Event \cup {0}]
    /\ m_times \in [Keys -> Int]
    /\ epc \in [Loops -> {"start", "write", "copy"}]
    /\ todo \in [Loops -> SUBSET Keys]
    /\ snap \in [Event -> [Keys -> Event \cup {0, -1}]]

\* Once an event's copy is complete, no variable in it is older than the last
\* EPICS event before that event: the events after an EPICS event wait until
\* its data are written (unless the program is being quit).
CopyIsUpToDate ==
    ~quitting =>
        \A e \in processed \cap bank : \A k \in Keys :
            /\ snap[e][k] >= 0
            /\ \A b \in valid :
                  b < e /\ NotSkipped(b) /\ k \in KeysOf[b] => snap[e][k] >= b

\* What the events get of the shared data has its type and is up to date.
SharedDataSound == ETypeOK /\ CopyIsUpToDate

\* EPICS values never go back to an older event's.
ValuesNeverGoBack ==
    [][~quitting => \A k \in Keys : m_values'[k] >= m_values[k]]_evars
=============================================================================
