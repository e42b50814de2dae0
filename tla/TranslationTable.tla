-------------------------- MODULE TranslationTable --------------------------
(***************************************************************************)
(* The translation table that maps a DAQ channel (crate, slot, channel) to *)
(* a detector channel.  It is one static map, TT, shared by all threads    *)
(* and filled by the constructor of TranslationTable under a static mutex; *)
(* every thread's TranslationTable_factory makes one TranslationTable      *)
(* object, keeps it for the rest of the job (the factory is PERSISTANT),   *)
(* and looks channels up in the shared map without the mutex.              *)
(*                                                                         *)
(* An entry of the map is abstracted to the run whose table gave it its    *)
(* detector (det_sys), the run whose table gave it its index, a pointer, 0 *)
(* for not set, and whether the fields of the index it points to are set.  *)
(* The XML parser calls StartElement for one channel after the other; each *)
(* call sets the detector, then the pointer to a new index, and only then  *)
(* its fields.  getChannelInfo copies the entry, pointer and all, at any   *)
(* time.                                                                   *)
(*                                                                         *)
(* Names that Calibration has as well begin with TT here: one set of       *)
(* proofs is about both tables.                                            *)
(***************************************************************************)
EXTENDS Job

CONSTANTS
    Channels,   \* the channels that the table of every run lists
    MayFail     \* whether the table may be unavailable, not well formed, or
                \* the data base throw

ASSUME TranslationTableAssumption == MayFail \in BOOLEAN

Nobody == "nobody"
ASSUME TTNobodyAssumption == Nobody \notin Threads

VARIABLES
    ttTaken,      \* number of events taken by the threads
    ttPc,         \* where each thread is
    ttRun,        \* run number of the thread's event
    made,         \* threads whose factory has its TranslationTable
    cur,          \* the channel a parsing thread is at
    mutex,        \* holder of Get_TT_Mutex()
    initialized,  \* Get_TT_Initialized()
    TT,           \* Get_TT(): the entry of each channel
    todo,         \* channels a parsing thread has yet to come to
    failed,       \* history: some read or parse has failed
    seen          \* history: the thread's last lookup, with the event's run

ttVars == <<ttTaken, ttPc, ttRun, made, cur, mutex, initialized, TT, todo, failed, seen>>

NoEntry == [det |-> 0, index |-> 0, set |-> FALSE]
Entry   == [det : Runs \cup {0}, index : Runs \cup {0}, set : BOOLEAN]

TTInit ==
    /\ ttTaken = 0
    /\ ttPc = [t \in Threads |-> "idle"]
    /\ ttRun = [t \in Threads |-> 0]
    /\ made = {}
    /\ cur \in [Threads -> Channels] /\ \A t, u \in Threads : cur[t] = cur[u]
    /\ mutex = Nobody
    /\ initialized = FALSE
    /\ TT = [c \in Channels |-> NoEntry]
    /\ todo = [t \in Threads |-> {}]
    /\ failed = FALSE
    /\ seen = [t \in Threads |-> [run |-> 0, entry |-> NoEntry, beside |-> FALSE]]

-----------------------------------------------------------------------------

\* A thread starts on an event.  Its factory calls brun, which constructs
\* the table, for the first event only: after that the persistent factory
\* hands out the object it has, whatever the run.
TakeTTEvent(t) ==
    /\ ttPc[t] = "idle"
    /\ ttTaken < MaxEvents
    /\ ttTaken' = ttTaken + 1
    /\ \E r \in Runs : ttRun' = [ttRun EXCEPT ![t] = r]
    /\ ttPc' = [ttPc EXCEPT ![t] = IF t \in made THEN "lookup" ELSE "construct"]
    /\ UNCHANGED <<made, cur, mutex, initialized, TT, todo, failed, seen>>

\* The constructor is done: brun keeps the object in _data.
Return(t) ==
    /\ ttPc' = [ttPc EXCEPT ![t] = "lookup"]
    /\ made' = made \cup {t}

\* ReadTranslationTable locks the mutex and looks at the flag.
Enter(t) ==
    /\ ttPc[t] = "construct" /\ mutex = Nobody
    /\ \/ /\ initialized
          /\ Return(t)
          /\ UNCHANGED mutex
       \/ /\ ~initialized
          /\ mutex' = t
          /\ ttPc' = [ttPc EXCEPT ![t] = "read"]
          /\ UNCHANGED made
    /\ UNCHANGED <<ttTaken, ttRun, cur, initialized, TT, todo, failed, seen>>

\* As Unavailable, with the mutex kept on the way out.
Unavailable_KeepsMutex(t) ==
    /\ ttPc[t] = "read" /\ MayFail
    /\ failed' = TRUE
    /\ Return(t)
    /\ UNCHANGED <<ttTaken, ttRun, cur, mutex, initialized, TT, todo, seen>>

\* Neither the data base nor the local file has a table.
Unavailable(t) ==
    /\ ttPc[t] = "read" /\ MayFail
    /\ mutex' = Nobody
    /\ failed' = TRUE
    /\ Return(t)
    /\ UNCHANGED <<ttTaken, ttRun, cur, initialized, TT, todo, seen>>

\* GetCalib of a data base in files throws when there is no such file.  The
\* exception ends the thread (LaunchThread), and nobody unlocks the mutex.
Throws(t) ==
    /\ ttPc[t] = "read" /\ MayFail
    /\ failed' = TRUE
    /\ ttPc' = [ttPc EXCEPT ![t] = "dead"]
    /\ UNCHANGED <<ttTaken, ttRun, made, cur, mutex, initialized, TT, todo, seen>>

\* As StartParse, with the flag set at once.
StartParse_FlagFirst(t) ==
    /\ ttPc[t] = "read"
    /\ ttPc' = [ttPc EXCEPT ![t] = "parse"]
    /\ todo' = [todo EXCEPT ![t] = Channels]
    /\ initialized' = TRUE /\ mutex' = Nobody
    /\ UNCHANGED <<ttTaken, ttRun, made, cur, TT, failed, seen>>

\* The table is there, as a string: the parser starts on it.
StartParse(t) ==
    /\ ttPc[t] = "read"
    /\ ttPc' = [ttPc EXCEPT ![t] = "parse"]
    /\ todo' = [todo EXCEPT ![t] = Channels]
    /\ UNCHANGED <<ttTaken, ttRun, made, cur, mutex, initialized, TT, failed, seen>>

\* StartElement for channel c: the entry is made or found and its detector
\* set ...
SetDetector(t, c) ==
    /\ ttPc[t] = "parse" /\ c \in todo[t]
    /\ TT' = [TT EXCEPT ![c].det = ttRun[t]]
    /\ cur' = [cur EXCEPT ![t] = c]
    /\ ttPc' = [ttPc EXCEPT ![t] = "index"]
    /\ UNCHANGED <<ttTaken, ttRun, made, mutex, initialized, todo, failed, seen>>

\* ... then its index, a new object whose fields are not set ...
SetIndex(t) ==
    /\ ttPc[t] = "index"
    /\ TT' = [TT EXCEPT ![cur[t]].index = ttRun[t], ![cur[t]].set = FALSE]
    /\ ttPc' = [ttPc EXCEPT ![t] = "fields"]
    /\ UNCHANGED <<ttTaken, ttRun, made, cur, mutex, initialized, todo, failed, seen>>

\* ... and then these fields.
SetFields(t) ==
    /\ ttPc[t] = "fields"
    /\ TT' = [TT EXCEPT ![cur[t]].set = TRUE]
    /\ todo' = [todo EXCEPT ![t] = @ \ {cur[t]}]
    /\ ttPc' = [ttPc EXCEPT ![t] = "parse"]
    /\ UNCHANGED <<ttTaken, ttRun, made, cur, mutex, initialized, failed, seen>>

\* XML_Parse returns, having seen all of the table or given up somewhere, and
\* the mutex is released.
EndParse(t) ==
    /\ ttPc[t] = "parse"
    /\ todo[t] # {} => MayFail
    /\ failed' = (failed \/ todo[t] # {})
    /\ todo' = [todo EXCEPT ![t] = {}]
    /\ mutex' = Nobody
    /\ ttPc' = [ttPc EXCEPT ![t] = "flag"]
    /\ UNCHANGED <<ttTaken, ttRun, made, cur, initialized, TT, seen>>

\* Only now is the flag set, also after a parse error.
SetInitialized(t) ==
    /\ ttPc[t] = "flag"
    /\ initialized' = TRUE
    /\ Return(t)
    /\ UNCHANGED <<ttTaken, ttRun, cur, mutex, TT, todo, failed, seen>>

\* Is some thread between the pointer and the fields of channel c?
HalfSet(c) == \E u \in Threads : ttPc[u] = "fields" /\ cur[u] = c

\* getChannelInfo for some channel of the event, without the mutex.
getChannelInfo(t, c) ==
    /\ ttPc[t] = "lookup"
    /\ seen' = [seen EXCEPT ![t] = [run |-> ttRun[t], entry |-> TT[c],
                                    beside |-> HalfSet(c)]]
    /\ ttPc' = [ttPc EXCEPT ![t] = "idle"]
    /\ UNCHANGED <<ttTaken, ttRun, made, cur, mutex, initialized, TT, todo, failed>>

\* Nobody goes on: the events are done, or the mutex cannot be had.
TTDone ==
    /\ \A t \in Threads :
          \/ ttPc[t] = "idle" /\ ttTaken = MaxEvents
          \/ ttPc[t] = "construct" /\ mutex # Nobody
          \/ ttPc[t] = "dead"
    /\ UNCHANGED ttVars

Construct(t) ==
    \/ Enter(t) \/ Unavailable(t) \/ Throws(t) \/ StartParse(t) \/ SetIndex(t)
    \/ SetFields(t) \/ EndParse(t) \/ SetInitialized(t)
    \/ \E c \in Channels : SetDetector(t, c)

TTNext ==
    \/ \E t \in Threads : \/ TakeTTEvent(t) \/ Construct(t)
                          \/ \E c \in Channels : getChannelInfo(t, c)
    \/ TTDone

TTSpec == TTInit /\ [][TTNext]_ttVars

\* A thread that can go on with the constructor does; a parser comes to the
\* end of its input.
TTFairSpec == TTSpec /\ \A t \in Threads : WF_ttVars(Construct(t))

-----------------------------------------------------------------------------

TTPC == {"idle", "construct", "read", "parse", "index", "fields", "flag", "lookup",
         "dead"}

\* Type correctness.
TTTypeOK ==
    /\ ttTaken \in 0..MaxEvents
    /\ ttPc \in [Threads -> TTPC]
    /\ ttRun \in [Threads -> Runs \cup {0}]
    /\ made \in SUBSET Threads
    /\ cur \in [Threads -> Channels]
    /\ mutex \in Threads \cup {Nobody}
    /\ initialized \in BOOLEAN /\ failed \in BOOLEAN
    /\ TT \in [Channels -> Entry]
    /\ todo \in [Threads -> SUBSET Channels]
    /\ seen \in [Threads -> [run : Runs \cup {0}, entry : Entry, beside : BOOLEAN]]

\* Inside ReadTranslationTable, with the mutex.
Inside == {"read", "parse", "index", "fields"}

\* "It seems expat is not thread safe so we lock a mutex here": no two
\* threads are inside the parser.
OneParser == \A t, u \in Threads : {ttPc[t], ttPc[u]} \subseteq Inside => t = u

\* The entry as the table of run r has it.
EntryOf(r) == [det |-> r, index |-> r, set |-> TRUE]

\* Lookups take no lock, and the flag is set after the mutex is released, so
\* that another thread may parse the table once more while it is in use (in a
\* job with one run).  What a lookup finds is whole all the same, unless that
\* thread is between the pointer and the fields of this very channel.
LookupFindsWholeEntry ==
    (~failed /\ Cardinality(Runs) = 1) =>
        \A t \in Threads : seen[t].run # 0 =>
            seen[t].entry = EntryOf(seen[t].run) \/ seen[t].beside

\* Once the flag is set and nobody is inside any more, the table is whole,
\* and stays so: the second parse has lost nothing.
SettledIsWhole ==
    (~failed /\ Cardinality(Runs) = 1 /\ initialized
        /\ \A t \in Threads : ttPc[t] \notin Inside)
        => \A c \in Channels, r \in Runs : TT[c] = EntryOf(r)

\* A thread that asks for the table gets it, or is told there is none: no
\* path through the constructor keeps the mutex, but for the exception of a
\* data base in files, after which nobody gets the table.
ConstructorReturns ==
    \A t \in Threads : ttPc[t] = "construct" ~>
        (ttPc[t] = "lookup" \/ \E u \in Threads : ttPc[u] = "dead")

\* The table is built by one thread at a time and is whole when it is done;
\* those who look up, without a lock, can only miss the fields of an index
\* that is being replaced.
TableSound == TTTypeOK /\ OneParser /\ LookupFindsWholeEntry /\ SettledIsWhole
=============================================================================
