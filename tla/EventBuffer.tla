---------------------------- MODULE EventBuffer ----------------------------
(***************************************************************************)
(* How events travel from the event source to the event-processing threads *)
(* of bdxReco: the event reader thread (JApplication::EventBufferThread),  *)
(* the bounded event_buffer, the processing threads (JEventLoop::Loop and  *)
(* JApplication::NextEvent) and the main thread that kills stalled         *)
(* threads, relaunches them and shuts the program down (JApplication::Run  *)
(* and Fini).                                                              *)
(*                                                                         *)
(* Events are numbered 1, 2, ... in the order the sources deliver them; 0  *)
(* is the NULL pointer.  An event whose source called SetSequential (an    *)
(* EPICS event, JEventSourceEVIODAQ::GetEvent) is a barrier event.  What a *)
(* thread does with its event is one step here; the modules that extend    *)
(* this one say more about it.                                             *)
(*                                                                         *)
(* Each section under event_buffer_mutex that the reader executes is one   *)
(* step.  A processing thread takes the mutex in one step and pops and     *)
(* releases it in the next, because the reader's last push does not take   *)
(* the mutex and because a stalled thread can be killed while it holds it. *)
(***************************************************************************)
EXTENDS Integers, Sequences, FiniteSets

CONSTANTS
    Loops,                 \* the processing threads (JEventLoop objects)
    NSourceEvents,         \* number of events all sources hold together
    MAX_EVENTS_IN_BUFFER,  \* capacity of event_buffer
    EVENTS_TO_SKIP,        \* events read and thrown away first
    EVENTS_TO_KEEP,        \* events kept after those, 0 for all
    SKIP_TO_EVENT,         \* first event to process, 0 for none
    MAX_RELAUNCH_THREADS,  \* replacements for stalled threads
    MaxKills,              \* bound: stalled threads in one execution
    MayInterrupt           \* whether the user may press Ctrl-C

ASSUME ConstantsAssumption ==
    /\ IsFiniteSet(Loops) /\ Loops # {}
    /\ NSourceEvents \in Nat
    /\ MAX_EVENTS_IN_BUFFER \in Nat \ {0}
    /\ EVENTS_TO_SKIP \in Nat
    /\ EVENTS_TO_KEEP \in Nat
    /\ SKIP_TO_EVENT \in Nat
    /\ MAX_RELAUNCH_THREADS \in Nat
    /\ MaxKills \in Nat
    /\ MayInterrupt \in BOOLEAN

NULL == 0
Nobody == "nobody"
ASSUME NobodyAssumption == Nobody \notin Loops

VARIABLES
    barrier,   \* input: the events whose source sets the sequential flag
    rpc,       \* where the event reader thread is
    rev,       \* the event the reader has read but not yet pushed
    nread,     \* NEvents_read
    skipTo,    \* the reader's copy of SKIP_TO_EVENT, cleared when reached
    buf,       \* event_buffer, oldest event first
    mutex,     \* holder of event_buffer_mutex
    wake,      \* event_buffer_cond was signalled since the reader waits
    filling,   \* event_buffer_filling
    seqDone,   \* sequential_event_complete
    stop,      \* stop_event_buffer
    lpc,       \* where each processing thread is
    my,        \* NextEvent's local myevent
    lev,       \* the event held in each JEventLoop's JEvent member
    quit,      \* JEventLoop::quit
    nevents,   \* JApplication::NEvents, events taken out of the buffer
    processed, \* history: events whose processing has finished
    quitting,  \* JApplication::quitting
    kills,     \* history: threads killed so far
    nstalled,  \* Run's local Nstalled_threads
    nrelaunch, \* Run's local Nrelaunch_threads
    deleted,   \* Fini has deleted the event sources
    undef      \* the execution has run into undefined behaviour

readerVars == <<rpc, rev, nread, skipTo>>
loopVars   == <<lpc, my, lev, nevents, processed>>
mainVars   == <<quitting, kills, nstalled, nrelaunch, deleted>>
vars == <<barrier, readerVars, buf, mutex, wake, filling, seqDone, stop,
          loopVars, quit, mainVars, undef>>

Event == 1..NSourceEvents

Init ==
    /\ barrier \in SUBSET Event
    /\ rpc = "push" /\ rev = NULL /\ nread = 0 /\ skipTo = SKIP_TO_EVENT
    /\ buf = <<>> /\ mutex = Nobody /\ wake = FALSE
    /\ filling = TRUE /\ stop = FALSE
    /\ seqDone \in BOOLEAN                  \* the constructor leaves it unset
    /\ lpc = [l \in Loops |-> "top"]
    /\ my = [l \in Loops |-> NULL]
    /\ lev = [l \in Loops |-> NULL]
    /\ quit = [l \in Loops |-> FALSE]
    /\ nevents = 0 /\ processed = {}
    /\ quitting = FALSE /\ kills = 0 /\ nstalled = 0 /\ nrelaunch = 0
    /\ deleted = FALSE /\ undef = FALSE

-----------------------------------------------------------------------------
(***************************************************************************)
(* The event reader thread.                                                *)
(***************************************************************************)

\* The end of the reader's locked section: wait if the buffer b is full,
\* else leave the loop or go on to read.
WaitForRoom(b) ==
    /\ rev' = NULL
    /\ IF Len(b) >= MAX_EVENTS_IN_BUFFER
       THEN rpc' = "room" /\ wake' = FALSE
       ELSE rpc' = (IF stop THEN "last" ELSE "read") /\ UNCHANGED wake

\* Push the event read last, if there is one and it is an ordinary event.
PushEvent ==
    /\ rpc = "push" /\ mutex = Nobody
    /\ rev \notin barrier
    /\ buf' = IF rev = NULL THEN buf ELSE Append(buf, rev)
    /\ WaitForRoom(buf')
    /\ UNCHANGED <<barrier, nread, skipTo, mutex, filling, seqDone, stop,
                   loopVars, quit, mainVars, undef>>

\* The event read last is a barrier event: release the mutex and let the
\* buffer drain.
MeetBarrier ==
    /\ rpc = "push" /\ mutex = Nobody
    /\ rev \in barrier
    /\ rpc' = "drain"
    /\ UNCHANGED <<barrier, rev, nread, skipTo, buf, mutex, wake, filling,
                   seqDone, stop, loopVars, quit, mainVars, undef>>

\* The buffer is seen empty (without the mutex), or the reader must stop.
Drained ==
    /\ rpc = "drain"
    /\ buf = <<>> \/ stop
    /\ rpc' = "pushseq"
    /\ UNCHANGED <<barrier, rev, nread, skipTo, buf, mutex, wake, filling,
                   seqDone, stop, loopVars, quit, mainVars, undef>>

\* As PushBarrier, without clearing the completion flag.
PushBarrier_KeepsFlag ==
    /\ rpc = "pushseq" /\ mutex = Nobody
    /\ buf' = Append(buf, rev)
    /\ rpc' = "waitseq"
    /\ UNCHANGED <<barrier, rev, nread, skipTo, mutex, wake, filling, seqDone,
                   stop, loopVars, quit, mainVars, undef>>

\* The barrier event enters the buffer and the completion flag is cleared,
\* both under the mutex.
PushBarrier ==
    /\ rpc = "pushseq" /\ mutex = Nobody
    /\ buf' = Append(buf, rev)
    /\ seqDone' = FALSE
    /\ rpc' = "waitseq"
    /\ UNCHANGED <<barrier, rev, nread, skipTo, mutex, wake, filling, stop,
                   loopVars, quit, mainVars, undef>>

\* The barrier event is complete, or the reader must stop.
BarrierComplete ==
    /\ rpc = "waitseq" /\ mutex = Nobody
    /\ seqDone \/ stop
    /\ WaitForRoom(buf)
    /\ UNCHANGED <<barrier, nread, skipTo, buf, mutex, filling, seqDone, stop,
                   loopVars, quit, mainVars, undef>>

\* pthread_cond_wait returns: leave if told to stop, wait on if still full.
WakeUp ==
    /\ rpc = "room" /\ wake /\ mutex = Nobody
    /\ wake' = FALSE
    /\ rpc' = IF stop THEN "last"
              ELSE IF Len(buf) >= MAX_EVENTS_IN_BUFFER THEN "room"
              ELSE "read"
    /\ UNCHANGED <<barrier, rev, nread, skipTo, buf, mutex, filling, seqDone,
                   stop, loopVars, quit, mainVars, undef>>

\* EVENTS_TO_SKIP and SKIP_TO_EVENT: is event n thrown away after reading?
ThrownAway(n) == n <= EVENTS_TO_SKIP \/ (skipTo # 0 /\ n # skipTo)

\* EVENTS_TO_KEEP: has the reader read as many events as it should?
KeptEnough(n) == EVENTS_TO_KEEP > 0 /\ n >= EVENTS_TO_SKIP + EVENTS_TO_KEEP

\* SKIP_TO_EVENT is compared with the number of an event that
\* EVENTS_TO_SKIP has already deleted: a NULL pointer is dereferenced.
DereferencesNull(n) == n <= EVENTS_TO_SKIP /\ skipTo # 0

\* ReadEvent delivers the next event.
ReadEvent ==
    /\ rpc = "read" /\ ~deleted
    /\ nread < NSourceEvents
    /\ nread' = nread + 1
    /\ rev' = IF ThrownAway(nread') THEN NULL ELSE nread'
    /\ skipTo' = IF nread' = skipTo THEN 0 ELSE skipTo
    /\ rpc' = IF KeptEnough(nread') THEN "last" ELSE "push"
    /\ undef' = DereferencesNull(nread')
    /\ UNCHANGED <<barrier, buf, mutex, wake, filling, seqDone, stop,
                   loopVars, quit, mainVars>>

\* ReadEvent returns NO_MORE_EVENT_SOURCES.
NoMoreEventSources ==
    /\ rpc = "read" /\ ~deleted
    /\ nread = NSourceEvents
    /\ rpc' = "last"
    /\ UNCHANGED <<barrier, rev, nread, skipTo, buf, mutex, wake, filling,
                   seqDone, stop, loopVars, quit, mainVars, undef>>

\* ReadEvent calls GetEvent of a source that Fini has deleted.
ReadDeletedSource ==
    /\ rpc = "read" /\ deleted
    /\ undef' = TRUE
    /\ UNCHANGED <<barrier, readerVars, buf, mutex, wake, filling, seqDone,
                   stop, loopVars, quit, mainVars>>

\* After the loop the last event is pushed under the mutex ...
PushLastEvent ==
    /\ rpc = "last" /\ rev # NULL /\ mutex = Nobody
    /\ buf' = Append(buf, rev)
    /\ rev' = NULL
    /\ rpc' = "clear"
    /\ UNCHANGED <<barrier, nread, skipTo, mutex, wake, filling, seqDone, stop,
                   loopVars, quit, mainVars, undef>>

\* ... but without a last event, NULL is pushed without the mutex, for the
\* braces of the if statement are missing.  Together with a thread inside
\* its own locked section this is a data race on the list.
PushLastNull ==
    /\ rpc = "last" /\ rev = NULL
    /\ buf' = Append(buf, NULL)
    /\ rpc' = "clear"
    /\ undef' = (mutex # Nobody)
    /\ UNCHANGED <<barrier, rev, nread, skipTo, mutex, wake, filling, seqDone,
                   stop, loopVars, quit, mainVars>>

StopFilling ==
    /\ rpc = "clear"
    /\ filling' = FALSE
    /\ rpc' = "done"
    /\ UNCHANGED <<barrier, rev, nread, skipTo, buf, mutex, wake, seqDone, stop,
                   loopVars, quit, mainVars, undef>>

Reader ==
    \/ PushEvent \/ MeetBarrier \/ Drained \/ PushBarrier \/ BarrierComplete
    \/ WakeUp \/ ReadEvent \/ NoMoreEventSources \/ ReadDeletedSource
    \/ PushLastEvent \/ PushLastNull \/ StopFilling

-----------------------------------------------------------------------------
(***************************************************************************)
(* A processing thread: JEventLoop::Loop, OneEvent and NextEvent.          *)
(***************************************************************************)

\* The top of the body of Loop: leave if told to quit, else ask for an event.
TopOfLoop(l) ==
    /\ lpc[l] = "top"
    /\ lpc' = [lpc EXCEPT ![l] = IF quit[l] THEN "out" ELSE "next"]
    /\ UNCHANGED <<barrier, readerVars, buf, mutex, wake, filling, seqDone,
                   stop, my, lev, nevents, processed, quit, mainVars, undef>>

\* NextEvent takes event_buffer_mutex, in its loop or for the last try.
Lock(l) ==
    /\ mutex = Nobody
    /\ lpc[l] \in {"next", "recheck"}
    /\ mutex' = l
    /\ lpc' = [lpc EXCEPT ![l] = IF @ = "next" THEN "pop" ELSE "repop"]
    /\ UNCHANGED <<barrier, readerVars, buf, wake, filling, seqDone, stop, my,
                   lev, nevents, processed, quit, mainVars, undef>>

\* NextEvent copies event e into the loop's JEvent and OneEvent starts on it.
Take(l, e) ==
    /\ lev' = [lev EXCEPT ![l] = e]
    /\ my' = [my EXCEPT ![l] = NULL]
    /\ nevents' = nevents + 1
    /\ lpc' = [lpc EXCEPT ![l] = "proc"]

\* Pop entry e, if there is any entry, leaving rest; signal the reader and
\* release the mutex.
PopEntry(l, e, rest) ==
    /\ lpc[l] = "pop"
    /\ mutex' = Nobody
    /\ lpc' = [lpc EXCEPT ![l] = "check"]
    /\ \/ /\ buf = <<>>
          /\ UNCHANGED <<buf, my, wake>>
       \/ /\ buf # <<>>
          /\ my' = [my EXCEPT ![l] = e]
          /\ buf' = rest
          /\ wake' = (wake \/ rpc = "room")
    /\ UNCHANGED <<barrier, readerVars, filling, seqDone, stop, lev, nevents,
                   processed, quit, mainVars, undef>>

\* As Pop, from the wrong end of the list, or leaving the entry there.
Pop_Newest(l) == PopEntry(l, buf[Len(buf)], SubSeq(buf, 1, Len(buf) - 1))
Pop_Keeps(l)  == PopEntry(l, Head(buf), buf)

\* The locked section of NextEvent's loop: pop the oldest entry.
Pop(l) == PopEntry(l, Head(buf), Tail(buf))

\* As Check, looking at the quit flag before the event.
Check_QuitFirst(l) ==
    /\ lpc[l] = "check"
    /\ \/ ~quit[l] /\ my[l] # NULL /\ Take(l, my[l])
       \/ /\ quit[l] \/ my[l] = NULL
          /\ lpc' = [lpc EXCEPT ![l] = IF filling /\ ~quit[l] THEN "next"
                                                              ELSE "recheck"]
          /\ UNCHANGED <<my, lev, nevents>>
    /\ UNCHANGED <<barrier, readerVars, buf, mutex, wake, filling, seqDone,
                   stop, processed, quit, mainVars, undef>>

\* As Check, without the second look into the buffer.
Check_NoSecondLook(l) ==
    /\ lpc[l] = "check"
    /\ \/ my[l] # NULL /\ Take(l, my[l]) /\ UNCHANGED quit
       \/ /\ my[l] = NULL
          /\ lpc' = [lpc EXCEPT ![l] = IF filling /\ ~quit[l] THEN "next"
                                                              ELSE "seq"]
          /\ quit' = [quit EXCEPT ![l] = @ \/ ~filling]
          /\ UNCHANGED <<my, lev, nevents>>
    /\ UNCHANGED <<barrier, readerVars, buf, mutex, wake, filling, seqDone,
                   stop, processed, mainVars, undef>>

\* Got an event: process it.  Got none: try again while the reader is at
\* work and nobody asked to quit, else try one last time.
Check(l) ==
    /\ lpc[l] = "check"
    /\ \/ my[l] # NULL /\ Take(l, my[l])
       \/ /\ my[l] = NULL
          /\ lpc' = [lpc EXCEPT ![l] = IF filling /\ ~quit[l] THEN "next"
                                                              ELSE "recheck"]
          /\ UNCHANGED <<my, lev, nevents>>
    /\ UNCHANGED <<barrier, readerVars, buf, mutex, wake, filling, seqDone,
                   stop, processed, quit, mainVars, undef>>

\* The last try.  It does not signal the reader.  Without an event
\* NextEvent returns NO_MORE_EVENT_SOURCES and Loop sets its quit flag; the
\* loop's JEvent keeps the event processed before.
Repop(l) ==
    /\ lpc[l] = "repop"
    /\ mutex' = Nobody
    /\ buf' = IF buf = <<>> THEN buf ELSE Tail(buf)
    /\ LET e == IF buf = <<>> THEN NULL ELSE Head(buf)
       IN \/ e # NULL /\ Take(l, e) /\ UNCHANGED quit
          \/ /\ e = NULL
             /\ quit' = [quit EXCEPT ![l] = TRUE]
             /\ lpc' = [lpc EXCEPT ![l] = "seq"]
             /\ UNCHANGED <<my, lev, nevents>>
    /\ UNCHANGED <<barrier, readerVars, wake, filling, seqDone, stop, processed,
                   mainVars, undef>>

\* OneEvent has called all processors and freed the event.
Finish(l) ==
    /\ lpc[l] = "proc"
    /\ processed' = processed \cup {lev[l]}
    /\ lpc' = [lpc EXCEPT ![l] = "seq"]
    /\ UNCHANGED <<barrier, readerVars, buf, mutex, wake, filling, seqDone,
                   stop, my, lev, nevents, quit, mainVars, undef>>

\* As EndOfLoop, without the report.
EndOfLoop_NoReport(l) ==
    /\ lpc[l] = "seq"
    /\ lpc' = [lpc EXCEPT ![l] = IF quit[l] THEN "out" ELSE "top"]
    /\ UNCHANGED <<barrier, readerVars, buf, mutex, wake, filling, seqDone,
                   stop, my, lev, nevents, processed, quit, mainVars, undef>>

\* The end of the body of Loop: report the completion of a barrier event,
\* then leave or go on.
EndOfLoop(l) ==
    /\ lpc[l] = "seq"
    /\ seqDone' = (seqDone \/ lev[l] \in barrier)
    /\ lpc' = [lpc EXCEPT ![l] = IF quit[l] THEN "out" ELSE "top"]
    /\ UNCHANGED <<barrier, readerVars, buf, mutex, wake, filling, stop, my,
                   lev, nevents, processed, quit, mainVars, undef>>

LoopStep(l) ==
    \/ TopOfLoop(l) \/ Lock(l) \/ Pop(l) \/ Check(l) \/ Repop(l) \/ Finish(l)
    \/ EndOfLoop(l)

-----------------------------------------------------------------------------
(***************************************************************************)
(* The main thread.                                                        *)
(***************************************************************************)

\* JApplication::Quit: set the quit flag of every loop.
QuitAll ==
    /\ quitting' = TRUE
    /\ quit' = [l \in Loops |-> TRUE]

\* Ctrl-C.
Interrupt ==
    /\ MayInterrupt /\ ~quitting
    /\ QuitAll
    /\ UNCHANGED <<barrier, readerVars, buf, mutex, wake, filling, seqDone,
                   stop, loopVars, kills, nstalled, nrelaunch, deleted, undef>>

\* The heartbeat of thread l is too old: kill it, or, when fewer events than
\* threads have been taken so far, quit and kill every thread.  A mutex the
\* thread holds stays locked.
Kill(l) ==
    /\ kills < MaxKills
    /\ lpc[l] # "out"
    /\ kills' = kills + 1
    /\ \/ /\ nevents < Cardinality(Loops)
          /\ QuitAll
          /\ lpc' = [k \in Loops |-> "out"]
          /\ UNCHANGED nstalled
       \/ /\ nevents >= Cardinality(Loops)
          /\ lpc' = [lpc EXCEPT ![l] = "out"]
          /\ nstalled' = nstalled + 1
          /\ UNCHANGED <<quit, quitting>>
    /\ UNCHANGED <<barrier, readerVars, buf, mutex, wake, filling, seqDone,
                   stop, my, lev, nevents, processed, nrelaunch, deleted, undef>>

\* There are fewer threads than wanted: start a new one in place of l, or
\* quit when too many have been restarted.
Relaunch(l) ==
    /\ lpc[l] = "out"
    /\ ~quitting /\ ~deleted
    /\ nstalled > 0 \/ filling
    /\ \/ /\ nrelaunch >= MAX_RELAUNCH_THREADS
          /\ nstalled' = 0
          /\ QuitAll
          /\ UNCHANGED <<lpc, my, lev, nrelaunch>>
       \/ /\ nrelaunch < MAX_RELAUNCH_THREADS
          /\ lpc' = [lpc EXCEPT ![l] = "top"]
          /\ my' = [my EXCEPT ![l] = NULL]
          /\ lev' = [lev EXCEPT ![l] = NULL]
          /\ quit' = [quit EXCEPT ![l] = FALSE]
          /\ nrelaunch' = nrelaunch + (IF nstalled > 0 THEN 1 ELSE 0)
          /\ nstalled' = nstalled - (IF nstalled > 0 THEN 1 ELSE 0)
          /\ UNCHANGED quitting
    /\ UNCHANGED <<barrier, readerVars, buf, mutex, wake, filling, seqDone,
                   stop, nevents, processed, kills, deleted, undef>>

AllOut == \A l \in Loops : lpc[l] = "out"

\* As DeleteSources, without waiting for stalled threads to be replaced.
DeleteSources_NotCounted ==
    /\ AllOut
    /\ ~deleted
    /\ deleted' = TRUE
    /\ UNCHANGED <<barrier, readerVars, buf, mutex, wake, filling, seqDone,
                   stop, loopVars, quit, quitting, kills, nstalled, nrelaunch,
                   undef>>

\* All threads are gone: Fini deletes the event sources ...
DeleteSources ==
    /\ AllOut /\ nstalled = 0
    /\ ~deleted
    /\ deleted' = TRUE
    /\ UNCHANGED <<barrier, readerVars, buf, mutex, wake, filling, seqDone,
                   stop, loopVars, quit, quitting, kills, nstalled, nrelaunch,
                   undef>>

\* ... and only then tells the reader to stop, signalling its condition
\* variable again and again.
StopReader ==
    /\ deleted /\ filling
    /\ stop' = TRUE
    /\ wake' = (wake \/ rpc = "room")
    /\ UNCHANGED <<barrier, readerVars, buf, mutex, filling, seqDone, loopVars,
                   quit, mainVars, undef>>

Main ==
    \/ Interrupt \/ DeleteSources \/ StopReader
    \/ \E l \in Loops : Kill(l) \/ Relaunch(l)

-----------------------------------------------------------------------------

\* The program has ended, or nothing is known about it any more.
Ended ==
    /\ undef \/ (AllOut /\ deleted /\ rpc = "done")
    /\ UNCHANGED vars

Step == Reader \/ Main \/ \E l \in Loops : LoopStep(l)

Next == (~undef /\ Step) \/ Ended

Spec == Init /\ [][Next]_vars

(***************************************************************************)
(* Fairness.  Threads are scheduled by the operating system, events are    *)
(* processed in finite time, and a thread that keeps asking for            *)
(* event_buffer_mutex gets it: its holders release it at once and the idle *)
(* ones sleep between two attempts.  Nobody has to stall or to press       *)
(* Ctrl-C.                                                                 *)
(***************************************************************************)
Fairness ==
    /\ SF_vars(~undef /\ Reader)
    /\ \A l \in Loops : SF_vars(~undef /\ LoopStep(l))
    /\ \A l \in Loops : WF_vars(~undef /\ Relaunch(l))
    /\ WF_vars(~undef /\ DeleteSources)
    /\ WF_vars(~undef /\ StopReader)

FairSpec == Spec /\ Fairness

-----------------------------------------------------------------------------
(***************************************************************************)
(* Properties.                                                             *)
(***************************************************************************)

ReaderPC == {"push", "drain", "pushseq", "waitseq", "room", "read", "last",
             "clear", "done"}
LoopPC   == {"top", "next", "pop", "check", "recheck", "repop", "proc", "seq", "out"}

ReaderTypeOK ==
    /\ barrier \in SUBSET Event
    /\ rpc \in ReaderPC
    /\ rev \in Event \cup {NULL}
    /\ nread \in 0..NSourceEvents
    /\ skipTo \in {0, SKIP_TO_EVENT}

BufferTypeOK ==
    /\ buf \in Seq(Event \cup {NULL})
    /\ mutex \in Loops \cup {Nobody}

FlagTypeOK ==
    /\ wake \in BOOLEAN /\ filling \in BOOLEAN /\ seqDone \in BOOLEAN
    /\ stop \in BOOLEAN /\ quitting \in BOOLEAN /\ deleted \in BOOLEAN
    /\ undef \in BOOLEAN

LoopTypeOK ==
    /\ lpc \in [Loops -> LoopPC]
    /\ my \in [Loops -> Event \cup {NULL}]
    /\ lev \in [Loops -> Event \cup {NULL}]
    /\ quit \in [Loops -> BOOLEAN]
    /\ processed \in SUBSET Event

CountTypeOK ==
    /\ nevents \in Nat /\ kills \in Nat /\ nstalled \in Nat /\ nrelaunch \in Nat

\* Type correctness of the reader, the buffer and the threads.
TypeOK == ReaderTypeOK /\ BufferTypeOK /\ FlagTypeOK /\ LoopTypeOK /\ CountTypeOK

\* The event thread l has popped and not yet finished, if any.
Holds(l, e) == \/ lpc[l] = "check" /\ my[l] = e
               \/ lpc[l] = "proc" /\ lev[l] = e

\* Event e has left the buffer.
Taken(e) == e \in processed \/ \E l \in Loops : Holds(l, e)

\* Event e is in the buffer.
Buffered(e) == \E i \in DOMAIN buf : buf[i] = e

\* Event e is with the reader, which has yet to push it.
WithReader(e) == rev = e /\ rpc # "waitseq"

\* FIFO delivery (NextEvent pops at the back of the list the reader pushes
\* to at the front): every event taken by a thread is older than every event
\* still in the buffer, those are in the order they were read in, and the
\* event the reader holds is younger than all of them.
DeliveredInOrder ==
    /\ \A i, j \in DOMAIN buf : i < j /\ buf[j] # NULL => buf[i] < buf[j]
    /\ \A e, f \in Event : Taken(e) /\ Buffered(f) => e < f
    /\ \A e, f \in Event : (Taken(e) \/ Buffered(e)) /\ WithReader(f) => e < f

\* No event is given to two threads, or to a thread again after one has
\* finished it.
ProcessedAtMostOnce ==
    \A k, l \in Loops : \A e \in Event :
        Holds(k, e) => e \notin processed /\ (Holds(l, e) => k = l)

\* Without killed threads no event is lost: whatever was read and not thrown
\* away is with the reader, in the buffer, with a thread or processed, and
\* this includes an event pushed just before the reader leaves.
NothingLost ==
    kills = 0 =>
        \A e \in 1..nread :
            \/ e <= EVENTS_TO_SKIP \/ e < SKIP_TO_EVENT
            \/ Taken(e) \/ Buffered(e) \/ WithReader(e)

\* The race NextEvent's second look into the buffer is there for: a thread
\* gives up by itself only when the reader is done and all events are taken.
NobodyLeavesEarly ==
    (kills = 0 /\ ~quitting /\ \E l \in Loops : lpc[l] = "out") =>
        ~filling /\ \A e \in Event : ~Buffered(e)

\* While a thread processes a barrier event, no event read after it has left
\* the reader: sequential_event_complete, cleared under the same lock as the
\* push, holds the reader back (unless the program is being quit).
NothingOvertakesBarrier ==
    ~quitting =>
        \A l \in Loops : lpc[l] = "proc" /\ lev[l] \in barrier =>
            \A e \in Event : e > lev[l] => ~Taken(e) /\ ~Buffered(e)

\* The buffer holds at most MAX_EVENTS_IN_BUFFER entries; only the NULL
\* pushed after a forced stop can come on top.
BufferBounded ==
    /\ Len(buf) <= MAX_EVENTS_IN_BUFFER + 1
    /\ Len(buf) > MAX_EVENTS_IN_BUFFER => stop /\ buf[Len(buf)] = NULL

\* The events a complete job processes.
Wanted ==
    {e \in Event : /\ e > EVENTS_TO_SKIP /\ e >= SKIP_TO_EVENT
                   /\ EVENTS_TO_KEEP > 0 => e <= EVENTS_TO_SKIP + EVENTS_TO_KEEP}

\* A job that nobody interrupts and in which no thread stalls processes every
\* wanted event, barrier events included, and then ends; the one way out is
\* undefined behaviour.
JobCompletes ==
    <>(undef \/ (processed = Wanted /\ AllOut /\ deleted /\ rpc = "done"))

\* Where the code can run into undefined behaviour.  The reader's last push,
\* made without event_buffer_mutex when there is no last event, is the end of
\* its work; GetEvent of a source that Fini has deleted is called only in a
\* program that is giving up; a deleted event's number is asked for only when
\* EVENTS_TO_SKIP and SKIP_TO_EVENT are both set.  In particular the sources
\* of a job that nobody interrupts outlive the reader, stalled and relaunched
\* threads or not.
UndefinedOnlyAtEnd ==
    undef =>
        \/ rpc = "clear"
        \/ deleted /\ quitting
        \/ EVENTS_TO_SKIP > 0 /\ SKIP_TO_EVENT > 0

-----------------------------------------------------------------------------
(***************************************************************************)
(* What the processing code sees of all this.                              *)
(***************************************************************************)

\* The events threads have popped and not yet finished.
HeldEvents == {e \in Event : \E l \in Loops : Holds(l, e)}

D == INSTANCE EventDelivery WITH
        held <- HeldEvents, done <- processed, hurry <- quitting

\* The reader, the buffer and the threads implement EventDelivery: whatever
\* threads stall, die, are relaunched or told to quit, NextEvent hands out
\* events in the order of the sources, each once, and none while a thread
\* works on a barrier event.
ImplementsDelivery == D!Spec
=============================================================================
