------------------------- MODULE EventBuffer_proofs -------------------------
(***************************************************************************)
(* Theorems about EventBuffer and about EpicsData, which is built on it,   *)
(* for any number of threads and events, any buffer size and any setting   *)
(* of the options.                                                         *)
(***************************************************************************)
EXTENDS EpicsData, FiniteSetTheorems, TLAPS

-----------------------------------------------------------------------------
(***************************************************************************)
(* Type correctness.  It is not inductive by itself: Finish adds the event *)
(* of a thread to the processed ones, and that must not be NULL.           *)
(***************************************************************************)
ProcHasEvent == \A l \in Loops : lpc[l] = "proc" => lev[l] # NULL

TInv == TypeOK /\ ProcHasEvent

\* The state the constructor leaves is well typed.
LEMMA InitTInv == Init => TInv
<1> SUFFICES ASSUME Init PROVE TInv OBVIOUS
<1> USE ConstantsAssumption DEF Init
<1>1. ReaderTypeOK BY DEF ReaderTypeOK, ReaderPC, Event, NULL
<1>2. BufferTypeOK BY DEF BufferTypeOK
<1>3. FlagTypeOK BY DEF FlagTypeOK
<1>4. LoopTypeOK BY DEF LoopTypeOK, LoopPC
<1>5. CountTypeOK BY DEF CountTypeOK
<1>6. ProcHasEvent BY DEF ProcHasEvent
<1> QED BY <1>1, <1>2, <1>3, <1>4, <1>5, <1>6 DEF TInv, TypeOK

\* Every step of the reader keeps the types.
LEMMA ReaderTInv == ASSUME TInv, Reader PROVE TInv'
<1> USE ConstantsAssumption DEF TInv, TypeOK, loopVars, mainVars, readerVars
<1>1. CASE PushEvent
  <2>1. ReaderTypeOK' BY <1>1 DEF PushEvent, WaitForRoom, ReaderTypeOK, ReaderPC, Event, NULL
  <2>2. BufferTypeOK' BY <1>1 DEF PushEvent, WaitForRoom, BufferTypeOK, ReaderTypeOK, LoopTypeOK
  <2>3. FlagTypeOK' BY <1>1 DEF PushEvent, WaitForRoom, FlagTypeOK
  <2>4. LoopTypeOK' BY <1>1 DEF PushEvent, WaitForRoom, LoopTypeOK, LoopPC, BufferTypeOK, ProcHasEvent
  <2>5. CountTypeOK' BY <1>1 DEF PushEvent, WaitForRoom, CountTypeOK
  <2>6. ProcHasEvent' BY <1>1 DEF PushEvent, WaitForRoom, ProcHasEvent, LoopTypeOK, LoopPC, BufferTypeOK
  <2> QED BY <2>1, <2>2, <2>3, <2>4, <2>5, <2>6
<1>2. CASE MeetBarrier
  BY <1>2 DEF MeetBarrier, ReaderTypeOK, BufferTypeOK, FlagTypeOK,
     LoopTypeOK, CountTypeOK, ProcHasEvent, ReaderPC, LoopPC, Event, NULL
<1>3. CASE Drained
  BY <1>3 DEF Drained, ReaderTypeOK, BufferTypeOK, FlagTypeOK,
     LoopTypeOK, CountTypeOK, ProcHasEvent, ReaderPC, LoopPC, Event, NULL
<1>4. CASE PushBarrier
  <2>1. ReaderTypeOK' BY <1>4 DEF PushBarrier, ReaderTypeOK, ReaderPC, Event, NULL
  <2>2. BufferTypeOK' BY <1>4 DEF PushBarrier, BufferTypeOK, ReaderTypeOK, LoopTypeOK
  <2>3. FlagTypeOK' BY <1>4 DEF PushBarrier, FlagTypeOK
  <2>4. LoopTypeOK' BY <1>4 DEF PushBarrier, LoopTypeOK, LoopPC, BufferTypeOK, ProcHasEvent
  <2>5. CountTypeOK' BY <1>4 DEF PushBarrier, CountTypeOK
  <2>6. ProcHasEvent' BY <1>4 DEF PushBarrier, ProcHasEvent, LoopTypeOK, LoopPC, BufferTypeOK
  <2> QED BY <2>1, <2>2, <2>3, <2>4, <2>5, <2>6
<1>5. CASE BarrierComplete
  BY <1>5 DEF BarrierComplete, WaitForRoom, ReaderTypeOK, BufferTypeOK, FlagTypeOK,
     LoopTypeOK, CountTypeOK, ProcHasEvent, ReaderPC, LoopPC, Event, NULL
<1>6. CASE WakeUp
  BY <1>6 DEF WakeUp, ReaderTypeOK, BufferTypeOK, FlagTypeOK,
     LoopTypeOK, CountTypeOK, ProcHasEvent, ReaderPC, LoopPC, Event, NULL
<1>7. CASE ReadEvent
  BY <1>7 DEF ReadEvent, DereferencesNull, ReaderTypeOK, BufferTypeOK, FlagTypeOK,
     LoopTypeOK, CountTypeOK, ProcHasEvent, ReaderPC, LoopPC, Event, NULL
<1>8. CASE NoMoreEventSources
  BY <1>8 DEF NoMoreEventSources, ReaderTypeOK, BufferTypeOK, FlagTypeOK,
     LoopTypeOK, CountTypeOK, ProcHasEvent, ReaderPC, LoopPC, Event, NULL
<1>9. CASE ReadDeletedSource
  BY <1>9 DEF ReadDeletedSource, ReaderTypeOK, BufferTypeOK, FlagTypeOK,
     LoopTypeOK, CountTypeOK, ProcHasEvent, ReaderPC, LoopPC, Event, NULL
<1>10. CASE PushLastEvent
  BY <1>10 DEF PushLastEvent, ReaderTypeOK, BufferTypeOK, FlagTypeOK,
     LoopTypeOK, CountTypeOK, ProcHasEvent, ReaderPC, LoopPC, Event, NULL
<1>11. CASE PushLastNull
  BY <1>11 DEF PushLastNull, ReaderTypeOK, BufferTypeOK, FlagTypeOK,
     LoopTypeOK, CountTypeOK, ProcHasEvent, ReaderPC, LoopPC, Event, NULL
<1>12. CASE StopFilling
  BY <1>12 DEF StopFilling, ReaderTypeOK, BufferTypeOK, FlagTypeOK,
     LoopTypeOK, CountTypeOK, ProcHasEvent, ReaderPC, LoopPC, Event, NULL
<1> QED BY <1>1, <1>2, <1>3, <1>4, <1>5, <1>6, <1>7, <1>8, <1>9, <1>10, <1>11, <1>12 DEF Reader

\* Every step of a processing thread keeps the types.
LEMMA LoopTInv == ASSUME TInv, NEW l \in Loops, LoopStep(l) PROVE TInv'
<1> USE ConstantsAssumption DEF TInv, TypeOK, loopVars, mainVars, readerVars
<1>1. CASE TopOfLoop(l)
  BY <1>1 DEF TopOfLoop, ReaderTypeOK, BufferTypeOK, FlagTypeOK,
     LoopTypeOK, CountTypeOK, ProcHasEvent, ReaderPC, LoopPC, Event, NULL
<1>2. CASE Lock(l)
  BY <1>2 DEF Lock, ReaderTypeOK, BufferTypeOK, FlagTypeOK,
     LoopTypeOK, CountTypeOK, ProcHasEvent, ReaderPC, LoopPC, Event, NULL
<1>3. CASE Pop(l)
  <2>1. ReaderTypeOK' BY <1>3 DEF Pop, PopEntry, ReaderTypeOK, ReaderPC, Event, NULL
  <2>0. buf # <<>> => Tail(buf) \in Seq(Event \cup {NULL}) BY DEF BufferTypeOK
  <2>2. BufferTypeOK' BY <2>0, <1>3 DEF Pop, PopEntry, BufferTypeOK
  <2>3. FlagTypeOK' BY <1>3 DEF Pop, PopEntry, FlagTypeOK
  <2>4. LoopTypeOK' BY <1>3 DEF Pop, PopEntry, LoopTypeOK, LoopPC, BufferTypeOK, ProcHasEvent
  <2>5. CountTypeOK' BY <1>3 DEF Pop, PopEntry, CountTypeOK
  <2>6. ProcHasEvent' BY <1>3 DEF Pop, PopEntry, ProcHasEvent, LoopTypeOK, LoopPC, BufferTypeOK
  <2> QED BY <2>1, <2>2, <2>3, <2>4, <2>5, <2>6
<1>4. CASE Check(l)
  <2>1. ReaderTypeOK' BY <1>4 DEF Check, Take, ReaderTypeOK, ReaderPC, Event, NULL
  <2>2. BufferTypeOK' BY <1>4 DEF Check, Take, BufferTypeOK, ReaderTypeOK, LoopTypeOK
  <2>3. FlagTypeOK' BY <1>4 DEF Check, Take, FlagTypeOK
  <2>4. LoopTypeOK' BY <1>4 DEF Check, Take, LoopTypeOK, LoopPC, BufferTypeOK, ProcHasEvent
  <2>5. CountTypeOK' BY <1>4 DEF Check, Take, CountTypeOK
  <2>6. ProcHasEvent' BY <1>4 DEF Check, Take, ProcHasEvent, LoopTypeOK, LoopPC, BufferTypeOK
  <2> QED BY <2>1, <2>2, <2>3, <2>4, <2>5, <2>6
<1>5. CASE Repop(l)
  <2>0. buf # <<>> => Head(buf) \in Event \cup {NULL} BY DEF BufferTypeOK
  <2>1. ReaderTypeOK' BY <1>5 DEF Repop, Take, ReaderTypeOK, ReaderPC, Event, NULL
  <2>2. BufferTypeOK' BY <1>5 DEF Repop, Take, BufferTypeOK, ReaderTypeOK, LoopTypeOK
  <2>3. FlagTypeOK' BY <1>5 DEF Repop, Take, FlagTypeOK
  <2>4. LoopTypeOK'
    <3>1. UNCHANGED processed BY <1>5 DEF Repop
    <3>2. PICK e \in Event \cup {NULL} :
             \/ Take(l, e) /\ UNCHANGED quit
             \/ /\ quit' = [quit EXCEPT ![l] = TRUE] /\ lpc' = [lpc EXCEPT ![l] = "seq"]
                /\ UNCHANGED <<my, lev>>
      BY <2>0, <1>5 DEF Repop
    <3>3. CASE Take(l, e) /\ UNCHANGED quit
      BY <3>1, <3>3 DEF Take, LoopTypeOK, LoopPC
    <3>4. CASE /\ quit' = [quit EXCEPT ![l] = TRUE] /\ lpc' = [lpc EXCEPT ![l] = "seq"]
               /\ UNCHANGED <<my, lev>>
      BY <3>1, <3>4 DEF LoopTypeOK, LoopPC
    <3> QED BY <3>2, <3>3, <3>4
  <2>5. CountTypeOK' BY <1>5 DEF Repop, Take, CountTypeOK
  <2>6. ProcHasEvent' BY <2>0, <1>5 DEF Repop, Take, ProcHasEvent, LoopTypeOK, LoopPC, BufferTypeOK
  <2> QED BY <2>1, <2>2, <2>3, <2>4, <2>5, <2>6
<1>6. CASE Finish(l)
  <2>1. ReaderTypeOK' BY <1>6 DEF Finish, ReaderTypeOK, ReaderPC, Event, NULL
  <2>2. BufferTypeOK' BY <1>6 DEF Finish, BufferTypeOK, ReaderTypeOK, LoopTypeOK
  <2>3. FlagTypeOK' BY <1>6 DEF Finish, FlagTypeOK
  <2>4. LoopTypeOK' BY <1>6 DEF Finish, LoopTypeOK, LoopPC, BufferTypeOK, ProcHasEvent
  <2>5. CountTypeOK' BY <1>6 DEF Finish, CountTypeOK
  <2>6. ProcHasEvent' BY <1>6 DEF Finish, ProcHasEvent, LoopTypeOK, LoopPC, BufferTypeOK
  <2> QED BY <2>1, <2>2, <2>3, <2>4, <2>5, <2>6
<1>7. CASE EndOfLoop(l)
  BY <1>7 DEF EndOfLoop, ReaderTypeOK, BufferTypeOK, FlagTypeOK,
     LoopTypeOK, CountTypeOK, ProcHasEvent, ReaderPC, LoopPC, Event, NULL
<1> QED BY <1>1, <1>2, <1>3, <1>4, <1>5, <1>6, <1>7 DEF LoopStep

\* Every step of the main thread keeps the types.
LEMMA MainTInv == ASSUME TInv, Main PROVE TInv'
<1> USE ConstantsAssumption DEF TInv, TypeOK, loopVars, mainVars, readerVars
<1>1. CASE Interrupt
  BY <1>1 DEF Interrupt, QuitAll, ReaderTypeOK, BufferTypeOK, FlagTypeOK,
     LoopTypeOK, CountTypeOK, ProcHasEvent, ReaderPC, LoopPC, Event, NULL
<1>2. CASE DeleteSources
  BY <1>2 DEF DeleteSources, ReaderTypeOK, BufferTypeOK, FlagTypeOK,
     LoopTypeOK, CountTypeOK, ProcHasEvent, ReaderPC, LoopPC, Event, NULL
<1>3. CASE StopReader
  BY <1>3 DEF StopReader, ReaderTypeOK, BufferTypeOK, FlagTypeOK,
     LoopTypeOK, CountTypeOK, ProcHasEvent, ReaderPC, LoopPC, Event, NULL
<1>4. ASSUME NEW l \in Loops, Kill(l) PROVE TInv'
  <2>1. ReaderTypeOK' BY <1>4 DEF Kill, QuitAll, ReaderTypeOK, ReaderPC, Event, NULL
  <2>2. BufferTypeOK' BY <1>4 DEF Kill, QuitAll, BufferTypeOK, ReaderTypeOK, LoopTypeOK
  <2>3. FlagTypeOK' BY <1>4 DEF Kill, QuitAll, FlagTypeOK
  <2>4. LoopTypeOK' BY <1>4 DEF Kill, QuitAll, LoopTypeOK, LoopPC, BufferTypeOK, ProcHasEvent
  <2>5. CountTypeOK' BY <1>4 DEF Kill, QuitAll, CountTypeOK
  <2>6. ProcHasEvent' BY <1>4 DEF Kill, QuitAll, ProcHasEvent, LoopTypeOK, LoopPC, BufferTypeOK
  <2> QED BY <2>1, <2>2, <2>3, <2>4, <2>5, <2>6
<1>5. ASSUME NEW l \in Loops, Relaunch(l) PROVE TInv'
  <2>1. ReaderTypeOK' BY <1>5 DEF Relaunch, QuitAll, ReaderTypeOK, ReaderPC, Event, NULL
  <2>2. BufferTypeOK' BY <1>5 DEF Relaunch, QuitAll, BufferTypeOK, ReaderTypeOK, LoopTypeOK
  <2>3. FlagTypeOK' BY <1>5 DEF Relaunch, QuitAll, FlagTypeOK
  <2>4. LoopTypeOK' BY <1>5, ZenonT(60) DEF Relaunch, QuitAll, LoopTypeOK, LoopPC, BufferTypeOK, ProcHasEvent
  <2>5. CountTypeOK' BY <1>5 DEF Relaunch, QuitAll, CountTypeOK
  <2>6. ProcHasEvent' BY <1>5 DEF Relaunch, QuitAll, ProcHasEvent, LoopTypeOK, LoopPC, BufferTypeOK
  <2> QED BY <2>1, <2>2, <2>3, <2>4, <2>5, <2>6
<1> QED BY <1>1, <1>2, <1>3, <1>4, <1>5 DEF Main

\* The strengthened type invariant holds in every reachable state.
THEOREM TInvariant == Spec => []TInv
<1>1. Init => TInv BY InitTInv
<1>2. TInv /\ [Next]_vars => TInv'
  <2> SUFFICES ASSUME TInv, [Next]_vars PROVE TInv' OBVIOUS
  <2>1. CASE Reader BY <2>1, ReaderTInv
  <2>2. CASE Main BY <2>2, MainTInv
  <2>3. CASE \E l \in Loops : LoopStep(l) BY <2>3, LoopTInv
  <2>4. CASE UNCHANGED vars
    BY <2>4 DEF TInv, TypeOK, ReaderTypeOK, BufferTypeOK, FlagTypeOK, LoopTypeOK,
       CountTypeOK, ProcHasEvent, vars, readerVars, loopVars, mainVars
  <2> QED BY <2>1, <2>2, <2>3, <2>4 DEF Next, Step, Ended
<1> QED BY <1>1, <1>2, PTL DEF Spec

\* The reader, the buffer and the threads are always in well-formed states.
THEOREM TypeCorrect == Spec => []TypeOK
<1>1. TInv => TypeOK BY DEF TInv
<1> QED BY <1>1, TInvariant, PTL

-----------------------------------------------------------------------------
(***************************************************************************)
(* The buffer is bounded.  How many entries there may be depends on where  *)
(* the reader is: it reads, and so comes to push, only with room in the    *)
(* buffer; only the NULL after a forced stop can find the buffer full.     *)
(***************************************************************************)
RoomInv ==
    /\ rpc \in {"push", "drain", "pushseq", "read"} =>
          Len(buf) < MAX_EVENTS_IN_BUFFER
    /\ rpc \in {"waitseq", "room"} => Len(buf) <= MAX_EVENTS_IN_BUFFER
    /\ rpc = "room" => rev = NULL
    /\ rpc = "last" => \/ Len(buf) < MAX_EVENTS_IN_BUFFER
                       \/ Len(buf) = MAX_EVENTS_IN_BUFFER /\ stop /\ rev = NULL
    /\ rpc \in {"clear", "done"} =>
          \/ Len(buf) <= MAX_EVENTS_IN_BUFFER
          \/ /\ Len(buf) = MAX_EVENTS_IN_BUFFER + 1
             /\ stop /\ buf[Len(buf)] = NULL

\* The reader pushes only when there is room.
LEMMA ReaderRoom == ASSUME TInv, RoomInv, Reader PROVE RoomInv'
<1> USE ConstantsAssumption
    DEF TInv, TypeOK, ReaderTypeOK, BufferTypeOK, ReaderPC, RoomInv
<1>1. CASE PushEvent BY <1>1 DEF PushEvent, WaitForRoom
<1>2. CASE MeetBarrier BY <1>2 DEF MeetBarrier
<1>3. CASE Drained BY <1>3 DEF Drained
<1>4. CASE PushBarrier BY <1>4 DEF PushBarrier
<1>5. CASE BarrierComplete BY <1>5 DEF BarrierComplete, WaitForRoom
<1>6. CASE WakeUp BY <1>6 DEF WakeUp
<1>7. CASE ReadEvent BY <1>7 DEF ReadEvent
<1>8. CASE NoMoreEventSources BY <1>8 DEF NoMoreEventSources
<1>9. CASE ReadDeletedSource BY <1>9 DEF ReadDeletedSource, readerVars
<1>10. CASE PushLastEvent BY <1>10 DEF PushLastEvent
<1>11. CASE PushLastNull BY <1>11 DEF PushLastNull
<1>12. CASE StopFilling BY <1>12 DEF StopFilling
<1> QED BY <1>1, <1>2, <1>3, <1>4, <1>5, <1>6, <1>7, <1>8, <1>9, <1>10, <1>11,
           <1>12 DEF Reader

\* Everyone else leaves the buffer alone or takes its head.
LEMMA OthersRoom ==
    ASSUME TInv, RoomInv, rpc' = rpc, rev' = rev, stop => stop',
           buf' = buf \/ (buf # <<>> /\ buf' = Tail(buf))
    PROVE  RoomInv'
BY ConstantsAssumption DEF TInv, TypeOK, ReaderTypeOK, BufferTypeOK, ReaderPC, RoomInv

\* The event buffer never holds more than MAX_EVENTS_IN_BUFFER entries, but
\* for the NULL that EventBufferThread pushes after a forced stop.
THEOREM BufferIsBounded == Spec => []BufferBounded
<1>1. Init => RoomInv
  BY ConstantsAssumption DEF Init, RoomInv
<1>2. TInv /\ RoomInv /\ [Next]_vars => RoomInv'
  <2> SUFFICES ASSUME TInv, RoomInv, [Next]_vars PROVE RoomInv' OBVIOUS
  <2>1. CASE Reader BY <2>1, ReaderRoom
  <2>2. CASE Main
    BY <2>2, OthersRoom DEF Main, Interrupt, DeleteSources, StopReader, Kill,
       Relaunch, readerVars
  <2>3. CASE \E l \in Loops : LoopStep(l)
    BY <2>3, OthersRoom DEF LoopStep, TopOfLoop, Lock, Pop, PopEntry, Check, Repop,
       Finish, EndOfLoop, readerVars
  <2>4. CASE UNCHANGED vars BY <2>4, OthersRoom DEF vars, readerVars
  <2> QED BY <2>1, <2>2, <2>3, <2>4 DEF Next, Step, Ended
<1>3. TInv /\ RoomInv => BufferBounded
  BY ConstantsAssumption DEF TInv, TypeOK, ReaderTypeOK, BufferTypeOK, ReaderPC,
     RoomInv, BufferBounded
<1> QED BY <1>1, <1>2, <1>3, TInvariant, PTL DEF Spec

-----------------------------------------------------------------------------
(***************************************************************************)
(* Theorems about the order in which EventBuffer delivers events and about *)
(* the threads that get them.                                              *)
(*                                                                         *)
(* FIFO delivery is not inductive by itself: that the event just read is   *)
(* younger than all others follows from the number of events read, and     *)
(* that an event popped is nobody else's follows from the order, because   *)
(* it is then younger than every event taken before it.                    *)
(***************************************************************************)

\* NextEvent's local is NULL until it pops, and after it hands the event on.
MyInv == \A l \in Loops : my[l] # NULL => lpc[l] \in {"check", "out"}

\* Entries are in the order they were read in.
SortedInv == \A i, j \in DOMAIN buf : i < j /\ buf[j] # NULL => buf[i] < buf[j]

\* What has left the reader has been read.
ReadInv == \A e \in Event : Taken(e) \/ Buffered(e) => e <= nread

\* What has left the buffer is older than what is in it.
TakenInv == \A e, f \in Event : Taken(e) /\ Buffered(f) => e < f

\* The event the reader is about to push is the one read last.
ReaderInv ==
    /\ rpc \in {"read", "room", "clear", "done"} => rev = NULL
    /\ rpc \in {"push", "drain", "pushseq", "last"} /\ rev # NULL =>
          /\ rev = nread
          /\ \A e \in Event : Taken(e) \/ Buffered(e) => e < rev

OrderInv == SortedInv /\ ReadInv /\ TakenInv /\ ReaderInv

\* The order, and who has which event.
DInv == OrderInv /\ MyInv /\ ProcessedAtMostOnce

-----------------------------------------------------------------------------
(***************************************************************************)
(* The reader.  It leaves Taken alone and only appends to the buffer.      *)
(***************************************************************************)

\* The threads' part of the state decides what is taken.
LEMMA SameTaken ==
    ASSUME lpc' = lpc, my' = my, lev' = lev, processed' = processed, NEW e
    PROVE  Taken(e)' <=> Taken(e)
BY DEF Taken, Holds

\* What an entry more adds to the buffer.
LEMMA AppendBuffered ==
    ASSUME TInv, NEW x \in Event \cup {NULL}, buf' = Append(buf, x), NEW e
    PROVE  Buffered(e)' <=> Buffered(e) \/ e = x
<1>1. buf \in Seq(Event \cup {NULL}) BY DEF TInv, TypeOK, BufferTypeOK
<1>2. DOMAIN buf = 1..Len(buf) /\ Len(buf) \in Nat BY <1>1
<1>3. DOMAIN buf' = 1..(Len(buf) + 1) BY <1>1
<1>4. \A i \in 1..Len(buf) : buf'[i] = buf[i] BY <1>1
<1>5. buf'[Len(buf) + 1] = x BY <1>1
<1>6. Buffered(e) => Buffered(e)' BY <1>2, <1>3, <1>4 DEF Buffered
<1>7. e = x => Buffered(e)' BY <1>2, <1>3, <1>5 DEF Buffered
<1>8. ASSUME Buffered(e)' PROVE Buffered(e) \/ e = x
  <2>1. PICK i \in DOMAIN buf' : buf'[i] = e BY <1>8 DEF Buffered
  <2>2. i = Len(buf) + 1 \/ i \in 1..Len(buf) BY <2>1, <1>2, <1>3
  <2> QED BY <2>1, <2>2, <1>2, <1>4, <1>5 DEF Buffered
<1> QED BY <1>6, <1>7, <1>8

\* An entry younger than all others keeps the buffer sorted.
LEMMA AppendSorted ==
    ASSUME TInv, SortedInv, NEW x \in Event \cup {NULL}, buf' = Append(buf, x),
           x # NULL => \A e \in Event : Buffered(e) => e < x
    PROVE  SortedInv'
<1>1. buf \in Seq(Event \cup {NULL}) BY DEF TInv, TypeOK, BufferTypeOK
<1>2. DOMAIN buf = 1..Len(buf) /\ Len(buf) \in Nat BY <1>1
<1>3. DOMAIN buf' = 1..(Len(buf) + 1) BY <1>1
<1>4. \A i \in 1..Len(buf) : buf'[i] = buf[i] BY <1>1
<1>5. buf'[Len(buf) + 1] = x BY <1>1
<1>6. \A i \in 1..Len(buf) : buf[i] \in Event \cup {NULL} BY <1>1
<1>7. x # NULL => \A i \in 1..Len(buf) : buf[i] < x
  <2> SUFFICES ASSUME x # NULL, NEW i \in 1..Len(buf) PROVE buf[i] < x OBVIOUS
  <2>1. CASE buf[i] = NULL BY <2>1, ConstantsAssumption DEF NULL, Event
  <2>2. CASE buf[i] \in Event BY <2>2, <1>2 DEF Buffered
  <2> QED BY <2>1, <2>2, <1>6
<1>8. SUFFICES ASSUME NEW i \in DOMAIN buf', NEW j \in DOMAIN buf',
                      i < j, buf'[j] # NULL
               PROVE  buf'[i] < buf'[j]
  BY DEF SortedInv
<1>9. i \in 1..Len(buf) BY <1>2, <1>3, <1>8
<1>10. CASE j \in 1..Len(buf) BY <1>2, <1>4, <1>8, <1>9, <1>10 DEF SortedInv
<1>11. CASE j = Len(buf) + 1 BY <1>4, <1>5, <1>7, <1>8, <1>9, <1>11
<1> QED BY <1>2, <1>3, <1>8, <1>10, <1>11

\* A step that leaves the buffer alone, and the event held by the reader or
\* drops it, keeps the order.
LEMMA QuietOrder ==
    ASSUME TInv, OrderInv, buf' = buf, nread' = nread,
           \A e \in Event : Taken(e)' => Taken(e),
           \/ rev' = NULL
           \/ /\ rev' = rev
              /\ \/ rpc' = rpc
                 \/ rpc \in {"push", "drain", "last"} /\ rpc' \in {"drain", "pushseq"}
    PROVE  OrderInv'
<1> USE DEF OrderInv
<1>1. SortedInv' BY DEF SortedInv
<1>2. \A e \in Event : Buffered(e)' => Buffered(e) BY DEF Buffered
<1>3. ReadInv' BY <1>2 DEF ReadInv
<1>4. TakenInv' BY <1>2 DEF TakenInv
<1>5. ReaderInv' BY <1>2 DEF ReaderInv
<1> QED BY <1>1, <1>3, <1>4, <1>5

\* Pushing the event the reader holds keeps the order.
LEMMA PushOrder ==
    ASSUME TInv, OrderInv, buf' = Append(buf, rev), nread' = nread,
           \A e \in Event : Taken(e)' <=> Taken(e),
           rpc \in {"push", "pushseq", "last"},
           rev' = NULL \/ rpc' = "waitseq"
    PROVE  OrderInv'
<1> USE DEF OrderInv
<1>1. rev \in Event \cup {NULL} /\ nread \in Nat /\ Event \subseteq Nat /\ NULL \notin Event
  BY ConstantsAssumption DEF TInv, TypeOK, ReaderTypeOK, Event, NULL
<1>2. \A e \in Event : Buffered(e)' <=> Buffered(e) \/ e = rev BY <1>1, AppendBuffered
<1>3. rev # NULL => /\ rev = nread
                    /\ \A e \in Event : Taken(e) \/ Buffered(e) => e < rev
  BY DEF ReaderInv
<1>4. SortedInv' BY <1>1, <1>3, AppendSorted
<1>5. ReadInv' BY <1>1, <1>2, <1>3 DEF ReadInv
<1>6. TakenInv' BY <1>1, <1>2, <1>3 DEF TakenInv
<1>7. ReaderInv' BY DEF ReaderInv
<1> QED BY <1>4, <1>5, <1>6, <1>7

\* The reader keeps the order.
LEMMA ReaderOrder == ASSUME TInv, OrderInv, Reader PROVE OrderInv'
<1>0. \A e \in Event : Taken(e)' <=> Taken(e)
  BY SameTaken DEF Reader, PushEvent, MeetBarrier, Drained, PushBarrier,
     BarrierComplete, WakeUp, ReadEvent, NoMoreEventSources, ReadDeletedSource,
     PushLastEvent, PushLastNull, StopFilling, loopVars
<1>1. CASE PushEvent
  BY <1>0, <1>1, PushOrder, QuietOrder DEF PushEvent, WaitForRoom
<1>2. CASE MeetBarrier BY <1>0, <1>2, QuietOrder DEF MeetBarrier
<1>3. CASE Drained BY <1>0, <1>3, QuietOrder DEF Drained
<1>4. CASE PushBarrier BY <1>0, <1>4, PushOrder DEF PushBarrier
<1>5. CASE BarrierComplete BY <1>0, <1>5, QuietOrder DEF BarrierComplete, WaitForRoom
<1>6. CASE WakeUp
  BY <1>0, <1>6, QuietOrder DEF WakeUp, OrderInv, ReaderInv
<1>7. CASE ReadEvent
  <2> USE DEF OrderInv
  <2>1. nread \in Nat /\ Event \subseteq Nat /\ nread' = nread + 1 /\ buf' = buf
    BY <1>7, ConstantsAssumption DEF ReadEvent, TInv, TypeOK, ReaderTypeOK, Event
  <2>2. rev' = NULL \/ rev' = nread' BY <1>7 DEF ReadEvent
  <2>3. rpc' \in {"last", "push"} BY <1>7 DEF ReadEvent
  <2>4. \A e \in Event : Buffered(e)' <=> Buffered(e) BY <2>1 DEF Buffered
  <2>5. SortedInv' BY <2>1 DEF SortedInv
  <2>6. ReadInv' BY <1>0, <2>1, <2>4 DEF ReadInv
  <2>7. TakenInv' BY <1>0, <2>4 DEF TakenInv
  <2>8. \A e \in Event : Taken(e)' \/ Buffered(e)' => e < nread'
    BY <1>0, <2>1, <2>4 DEF ReadInv
  <2>9. ReaderInv' BY <2>2, <2>3, <2>8 DEF ReaderInv
  <2> QED BY <2>5, <2>6, <2>7, <2>9
<1>8. CASE NoMoreEventSources
  BY <1>0, <1>8, QuietOrder DEF NoMoreEventSources, OrderInv, ReaderInv
<1>9. CASE ReadDeletedSource
  BY <1>0, <1>9, QuietOrder DEF ReadDeletedSource, readerVars
<1>10. CASE PushLastEvent BY <1>0, <1>10, PushOrder DEF PushLastEvent
<1>11. CASE PushLastNull
  <2>1. buf' = Append(buf, rev) /\ rev' = NULL /\ nread' = nread /\ rpc = "last"
    BY <1>11 DEF PushLastNull
  <2> QED BY <1>0, <2>1, PushOrder
<1>12. CASE StopFilling
  BY <1>0, <1>12, QuietOrder DEF StopFilling, OrderInv, ReaderInv
<1> QED BY <1>1, <1>2, <1>3, <1>4, <1>5, <1>6, <1>7, <1>8, <1>9, <1>10, <1>11,
           <1>12 DEF Reader

-----------------------------------------------------------------------------
(***************************************************************************)
(* The threads.  A step of a thread takes at most the oldest entry.        *)
(***************************************************************************)

\* Taking the oldest entry out of the buffer keeps the order.
LEMMA PopOrder ==
    ASSUME TInv, OrderInv, rpc' = rpc, rev' = rev, nread' = nread,
           buf # <<>>, buf' = Tail(buf),
           \A e \in Event : Taken(e)' => Taken(e) \/ e = Head(buf)
    PROVE  OrderInv'
<1> USE DEF OrderInv
<1>1. buf \in Seq(Event \cup {NULL}) BY DEF TInv, TypeOK, BufferTypeOK
<1>2. DOMAIN buf = 1..Len(buf) /\ Len(buf) \in Nat /\ Len(buf) > 0 BY <1>1
<1>3. DOMAIN buf' = 1..(Len(buf) - 1) BY <1>1, <1>2
<1>4. \A i \in 1..(Len(buf) - 1) : i + 1 \in DOMAIN buf /\ buf'[i] = buf[i + 1]
  BY <1>1, <1>2
<1>5. SortedInv'
  <2> SUFFICES ASSUME NEW i \in DOMAIN buf', NEW j \in DOMAIN buf',
                      i < j, buf'[j] # NULL
               PROVE  buf'[i] < buf'[j]
    BY DEF SortedInv
  <2>1. i + 1 < j + 1 BY <1>2, <1>3
  <2> QED BY <1>3, <1>4, <2>1 DEF SortedInv
<1>6. Head(buf) = buf[1] /\ 1 \in DOMAIN buf BY <1>1, <1>2
<1>7. \A f \in Event : Buffered(f)' => Buffered(f) /\ Head(buf) < f
  <2> SUFFICES ASSUME NEW f \in Event, Buffered(f)'
               PROVE  Buffered(f) /\ Head(buf) < f
    OBVIOUS
  <2>1. PICK i \in DOMAIN buf' : buf'[i] = f BY DEF Buffered
  <2>2. i + 1 \in DOMAIN buf /\ buf[i + 1] = f /\ 1 < i + 1 BY <1>2, <1>3, <1>4, <2>1
  <2>3. f # NULL BY ConstantsAssumption DEF Event, NULL
  <2>4. buf[1] < buf[i + 1] BY <1>6, <2>2, <2>3 DEF SortedInv
  <2> QED BY <1>6, <2>2, <2>4 DEF Buffered
<1>8. \A e \in Event : Taken(e)' => Taken(e) \/ Buffered(e) BY <1>6 DEF Buffered
<1>9. ReadInv' BY <1>7, <1>8 DEF ReadInv
<1>10. TakenInv' BY <1>7 DEF TakenInv
<1>11. ReaderInv' BY <1>7, <1>8 DEF ReaderInv
<1> QED BY <1>5, <1>9, <1>10, <1>11

\* An entry is nobody's event.
LEMMA HeadNotTaken ==
    ASSUME TInv, OrderInv, buf # <<>>, Head(buf) \in Event
    PROVE  ~Taken(Head(buf))
<1>1. Head(buf) = buf[1] /\ 1 \in DOMAIN buf BY DEF TInv, TypeOK, BufferTypeOK
<1>2. Buffered(Head(buf)) BY <1>1 DEF Buffered
<1>3. ~(Head(buf) < Head(buf)) BY ConstantsAssumption DEF Event
<1> QED BY <1>2, <1>3 DEF OrderInv, TakenInv

\* A step of a thread keeps the order, and who has which event.
LEMMA LoopDelivery == ASSUME TInv, DInv, NEW l \in Loops, LoopStep(l) PROVE DInv'
<1> USE DEF DInv
<1>0. /\ lpc \in [Loops -> LoopPC] /\ my \in [Loops -> Event \cup {NULL}]
      /\ lev \in [Loops -> Event \cup {NULL}] /\ NULL \notin Event
  BY ConstantsAssumption DEF TInv, TypeOK, LoopTypeOK, Event, NULL
<1>a. /\ buf # <<>> => Head(buf) \in Event \cup {NULL}
      /\ buf # <<>> /\ Head(buf) \in Event =>
            /\ Head(buf) \notin processed
            /\ \A k \in Loops : ~Holds(k, Head(buf))
  BY HeadNotTaken DEF TInv, TypeOK, BufferTypeOK, Taken
<1>1. CASE TopOfLoop(l) \/ Lock(l) \/ EndOfLoop(l)
  <2>1. \A k \in Loops, e \in Event : Holds(k, e)' <=> Holds(k, e)
    BY <1>0, <1>1 DEF TopOfLoop, Lock, EndOfLoop, Holds
  <2>2. OrderInv'
    BY <1>1, <2>1, QuietOrder DEF TopOfLoop, Lock, EndOfLoop, Taken, readerVars
  <2>3. MyInv' BY <1>0, <1>1 DEF TopOfLoop, Lock, EndOfLoop, MyInv
  <2>4. ProcessedAtMostOnce'
    BY <1>1, <2>1 DEF TopOfLoop, Lock, EndOfLoop, ProcessedAtMostOnce
  <2> QED BY <2>2, <2>3, <2>4
<1>2. CASE Pop(l)
  <2>1. CASE buf = <<>>
    <3>1. my[l] = NULL BY <1>2 DEF Pop, PopEntry, MyInv
    <3>2. \A k \in Loops, e \in Event : Holds(k, e)' <=> Holds(k, e)
      BY <1>0, <1>2, <2>1, <3>1 DEF Pop, PopEntry, Holds
    <3>3. OrderInv'
      BY <1>2, <2>1, <3>2, QuietOrder DEF Pop, PopEntry, Taken, readerVars
    <3>4. MyInv' BY <1>0, <1>2, <2>1 DEF Pop, PopEntry, MyInv
    <3>5. ProcessedAtMostOnce' BY <1>2, <3>2 DEF Pop, PopEntry, ProcessedAtMostOnce
    <3> QED BY <3>3, <3>4, <3>5
  <2>2. CASE buf # <<>>
    <3>1. \A k \in Loops, e \in Event :
             Holds(k, e)' <=> (k # l /\ Holds(k, e)) \/ (k = l /\ e = Head(buf))
      BY <1>0, <1>2, <2>2 DEF Pop, PopEntry, Holds
    <3>2. \A e \in Event : Taken(e)' => Taken(e) \/ e = Head(buf)
      BY <1>2, <3>1 DEF Pop, PopEntry, Taken
    <3>3. OrderInv' BY <1>2, <2>2, <3>2, PopOrder DEF Pop, PopEntry, readerVars
    <3>4. MyInv' BY <1>0, <1>2, <2>2 DEF Pop, PopEntry, MyInv
    <3>5. processed' = processed BY <1>2 DEF Pop, PopEntry
    <3>6. ProcessedAtMostOnce'
      BY <1>a, <2>2, <3>1, <3>5 DEF ProcessedAtMostOnce
    <3> QED BY <3>3, <3>4, <3>6
  <2> QED BY <2>1, <2>2
<1>3. CASE Check(l)
  <2>1. \A k \in Loops, e \in Event : Holds(k, e)' <=> Holds(k, e)
    BY <1>0, <1>3 DEF Check, Take, Holds
  <2>2. OrderInv' BY <1>3, <2>1, QuietOrder DEF Check, Take, Taken, readerVars
  <2>3. MyInv' BY <1>0, <1>3 DEF Check, Take, MyInv
  <2>4. ProcessedAtMostOnce' BY <1>3, <2>1 DEF Check, ProcessedAtMostOnce
  <2> QED BY <2>2, <2>3, <2>4
<1>4. CASE Repop(l)
  <2>1. CASE buf # <<>> /\ Head(buf) # NULL
    <3>1. /\ lev' = [lev EXCEPT ![l] = Head(buf)] /\ lpc' = [lpc EXCEPT ![l] = "proc"]
          /\ my' = [my EXCEPT ![l] = NULL] /\ lpc[l] = "repop"
          /\ processed' = processed /\ buf' = Tail(buf)
      BY <1>4, <2>1 DEF Repop, Take
    <3>2. \A k \in Loops, e \in Event :
             Holds(k, e)' <=> (k # l /\ Holds(k, e)) \/ (k = l /\ e = Head(buf))
      BY <1>0, <3>1 DEF Holds
    <3>3. \A e \in Event : Taken(e)' => Taken(e) \/ e = Head(buf)
      BY <3>1, <3>2 DEF Taken
    <3>4. OrderInv' BY <1>4, <2>1, <3>1, <3>3, PopOrder DEF Repop, readerVars
    <3>5. MyInv' BY <1>0, <3>1 DEF MyInv
    <3>6. ProcessedAtMostOnce' BY <1>a, <2>1, <3>1, <3>2 DEF ProcessedAtMostOnce
    <3> QED BY <3>4, <3>5, <3>6
  <2>2. CASE buf = <<>> \/ Head(buf) = NULL
    <3>1. /\ lev' = lev /\ my' = my /\ lpc' = [lpc EXCEPT ![l] = "seq"]
          /\ lpc[l] = "repop" /\ processed' = processed
          /\ buf' = IF buf = <<>> THEN buf ELSE Tail(buf)
      BY <1>4, <2>2 DEF Repop, Take
    <3>2. \A k \in Loops, e \in Event : Holds(k, e)' <=> Holds(k, e)
      BY <1>0, <3>1 DEF Holds
    <3>3. \A e \in Event : Taken(e)' => Taken(e) BY <3>1, <3>2 DEF Taken
    <3>4. OrderInv'
      BY <1>4, <3>1, <3>3, PopOrder, QuietOrder DEF Repop, readerVars
    <3>5. MyInv' BY <1>0, <3>1 DEF MyInv
    <3>6. ProcessedAtMostOnce' BY <3>1, <3>2 DEF ProcessedAtMostOnce
    <3> QED BY <3>4, <3>5, <3>6
  <2> QED BY <2>1, <2>2
<1>5. CASE Finish(l)
  <2>1. lev[l] \in Event BY <1>0, <1>5 DEF Finish, TInv, ProcHasEvent
  <2>2. Holds(l, lev[l]) BY <1>5 DEF Finish, Holds
  <2>3. \A k \in Loops, e \in Event : Holds(k, e)' <=> k # l /\ Holds(k, e)
    BY <1>0, <1>5 DEF Finish, Holds
  <2>4. \A e \in Event : Taken(e)' => Taken(e)
    BY <1>5, <2>2, <2>3 DEF Finish, Taken
  <2>5. OrderInv' BY <1>5, <2>4, QuietOrder DEF Finish, readerVars
  <2>6. MyInv' BY <1>0, <1>5 DEF Finish, MyInv
  <2>7. processed' = processed \cup {lev[l]} BY <1>5 DEF Finish
  <2>8. ProcessedAtMostOnce'
    BY <2>1, <2>2, <2>3, <2>7 DEF ProcessedAtMostOnce
  <2> QED BY <2>5, <2>6, <2>8
<1> QED BY <1>1, <1>2, <1>3, <1>4, <1>5 DEF LoopStep

\* The main thread takes no event; killing a thread only makes it forget one.
LEMMA MainDelivery == ASSUME TInv, DInv, Main PROVE DInv'
<1> USE DEF DInv
<1>0. /\ lpc \in [Loops -> LoopPC] /\ my \in [Loops -> Event \cup {NULL}]
      /\ lev \in [Loops -> Event \cup {NULL}]
  BY DEF TInv, TypeOK, LoopTypeOK
<1>1. CASE Interrupt \/ DeleteSources \/ StopReader
  <2>1. UNCHANGED <<readerVars, buf, loopVars>>
    BY <1>1 DEF Interrupt, DeleteSources, StopReader
  <2>2. OrderInv' BY <2>1, SameTaken, QuietOrder DEF readerVars, loopVars
  <2>3. MyInv' BY <2>1 DEF MyInv, loopVars
  <2>4. ProcessedAtMostOnce' BY <2>1 DEF ProcessedAtMostOnce, Holds, loopVars
  <2> QED BY <2>2, <2>3, <2>4
<1>2. ASSUME NEW l \in Loops, Kill(l) \/ Relaunch(l) PROVE DInv'
  <2>1. \A k \in Loops, e \in Event : Holds(k, e)' => Holds(k, e)
    BY <1>0, <1>2 DEF Kill, Relaunch, Holds
  <2>2. processed' = processed /\ buf' = buf /\ UNCHANGED readerVars
    BY <1>2 DEF Kill, Relaunch
  <2>3. OrderInv' BY <2>1, <2>2, QuietOrder DEF Taken, readerVars
  <2>4. MyInv' BY <1>0, <1>2 DEF Kill, Relaunch, MyInv
  <2>5. ProcessedAtMostOnce' BY <2>1, <2>2 DEF ProcessedAtMostOnce
  <2> QED BY <2>3, <2>4, <2>5
<1> QED BY <1>1, <1>2 DEF Main

\* The reader gives no event to a thread.
LEMMA ReaderDelivery == ASSUME TInv, DInv, Reader PROVE DInv'
<1>1. UNCHANGED loopVars
  BY DEF Reader, PushEvent, MeetBarrier, Drained, PushBarrier, BarrierComplete,
     WakeUp, ReadEvent, NoMoreEventSources, ReadDeletedSource, PushLastEvent,
     PushLastNull, StopFilling
<1>2. OrderInv' BY ReaderOrder DEF DInv
<1>3. MyInv' BY <1>1 DEF DInv, MyInv, loopVars
<1>4. ProcessedAtMostOnce' BY <1>1 DEF DInv, ProcessedAtMostOnce, Holds, loopVars
<1> QED BY <1>2, <1>3, <1>4 DEF DInv

-----------------------------------------------------------------------------

\* The order of events and their owners are kept in every reachable state.
THEOREM Delivery == Spec => []DInv
<1>1. Init => DInv
  <2> SUFFICES ASSUME Init PROVE DInv OBVIOUS
  <2>1. \A e : ~Taken(e) /\ ~Buffered(e) BY DEF Init, Taken, Holds, Buffered
  <2>2. SortedInv /\ ReadInv /\ TakenInv
    BY <2>1 DEF Init, SortedInv, ReadInv, TakenInv
  <2>3. ReaderInv BY DEF Init, ReaderInv
  <2>4. MyInv BY DEF Init, MyInv
  <2>5. ProcessedAtMostOnce BY <2>1 DEF ProcessedAtMostOnce, Taken
  <2> QED BY <2>2, <2>3, <2>4, <2>5 DEF DInv, OrderInv
<1>2. TInv /\ DInv /\ [Next]_vars => DInv'
  <2> SUFFICES ASSUME TInv, DInv, [Next]_vars PROVE DInv' OBVIOUS
  <2>1. CASE Reader BY <2>1, ReaderDelivery
  <2>2. CASE Main BY <2>2, MainDelivery
  <2>3. CASE \E l \in Loops : LoopStep(l) BY <2>3, LoopDelivery
  <2>4. CASE UNCHANGED vars
    <3>1. UNCHANGED <<readerVars, buf, loopVars>> BY <2>4 DEF vars
    <3>2. OrderInv'
      BY <3>1, SameTaken, QuietOrder DEF DInv, readerVars, loopVars
    <3>3. MyInv' BY <3>1 DEF DInv, MyInv, loopVars
    <3>4. ProcessedAtMostOnce'
      BY <3>1 DEF DInv, ProcessedAtMostOnce, Holds, loopVars
    <3> QED BY <3>2, <3>3, <3>4 DEF DInv
  <2> QED BY <2>1, <2>2, <2>3, <2>4 DEF Next, Step, Ended
<1> QED BY <1>1, <1>2, TInvariant, PTL DEF Spec

\* Events leave the reader, the buffer and the threads in the order in which
\* the sources delivered them.
THEOREM EventsInOrder == Spec => []DeliveredInOrder
<1>1. TInv /\ DInv => DeliveredInOrder
  BY ConstantsAssumption DEF TInv, TypeOK, ReaderTypeOK, ReaderPC, DInv, OrderInv,
     SortedInv, TakenInv, ReaderInv, DeliveredInOrder, WithReader, Event, NULL
<1> QED BY <1>1, TInvariant, Delivery, PTL

\* NextEvent gives no event to two threads, whatever threads are killed,
\* relaunched or told to quit.
THEOREM EventsOnce == Spec => []ProcessedAtMostOnce
<1>1. DInv => ProcessedAtMostOnce BY DEF DInv
<1> QED BY <1>1, Delivery, PTL

-----------------------------------------------------------------------------
(***************************************************************************)
(* Theorem: without killed threads no event is lost on its way from the    *)
(* reader to the threads.  Two facts are needed besides: SKIP_TO_EVENT is  *)
(* cleared as soon as that event is read, so that no later one is thrown   *)
(* away (SkipInv), and the reader has no event in its hands when it reads  *)
(* the next (ReaderInv).                                                   *)
(***************************************************************************)

\* The event to skip to has yet to be read.
SkipInv == skipTo # 0 => nread < skipTo

LossInv == NothingLost /\ SkipInv

\* Event e is somewhere.
Kept(e) == Taken(e) \/ Buffered(e) \/ WithReader(e)

\* A step that reads no event and keeps all events that are somewhere.
LEMMA KeepAll ==
    ASSUME TInv, LossInv, nread' = nread, skipTo' = skipTo, kills' = 0 => kills = 0,
           kills' = 0 => \A e \in Event : Kept(e) => Kept(e)'
    PROVE  LossInv'
<1>1. SkipInv' BY DEF LossInv, SkipInv
<1>2. 1..nread \subseteq Event
  BY ConstantsAssumption DEF TInv, TypeOK, ReaderTypeOK, Event
<1>3. NothingLost'
  BY <1>2 DEF LossInv, NothingLost, Kept
<1> QED BY <1>1, <1>3 DEF LossInv

\* Taking the oldest entry leaves the others in the buffer.
LEMMA TailBuffered ==
    ASSUME TInv, buf # <<>>, buf' = Tail(buf), NEW e, Buffered(e)
    PROVE  Buffered(e)' \/ e = Head(buf)
<1>1. buf \in Seq(Event \cup {NULL}) BY DEF TInv, TypeOK, BufferTypeOK
<1>2. DOMAIN buf = 1..Len(buf) /\ Len(buf) \in Nat /\ Len(buf) > 0 BY <1>1
<1>3. DOMAIN buf' = 1..(Len(buf) - 1) BY <1>1, <1>2
<1>4. \A i \in 1..(Len(buf) - 1) : buf'[i] = buf[i + 1] BY <1>1, <1>2
<1>5. PICK i \in DOMAIN buf : buf[i] = e BY DEF Buffered
<1>6. CASE i = 1 BY <1>1, <1>5, <1>6
<1>7. CASE i # 1
  <2>1. i - 1 \in DOMAIN buf' /\ i - 1 \in 1..(Len(buf) - 1) /\ (i - 1) + 1 = i
    BY <1>2, <1>3, <1>5, <1>7
  <2> QED BY <1>4, <1>5, <2>1 DEF Buffered
<1> QED BY <1>6, <1>7

\* The reader loses no event.
LEMMA ReaderLoss == ASSUME TInv, DInv, LossInv, Reader PROVE LossInv'
<1>0. /\ \A e \in Event : Taken(e)' <=> Taken(e)
      /\ kills' = kills
  BY SameTaken DEF Reader, PushEvent, MeetBarrier, Drained, PushBarrier,
     BarrierComplete, WakeUp, ReadEvent, NoMoreEventSources, ReadDeletedSource,
     PushLastEvent, PushLastNull, StopFilling, loopVars, mainVars
<1>a. rev \in Event \cup {NULL} /\ NULL \notin Event
  BY ConstantsAssumption DEF TInv, TypeOK, ReaderTypeOK, Event, NULL
<1>1. CASE PushEvent
  <2>1. \A e \in Event : Kept(e) => Kept(e)'
    <3>1. CASE rev = NULL
      BY <1>0, <1>1, <1>a, <3>1 DEF PushEvent, Kept, WithReader, Buffered
    <3>2. CASE rev # NULL
      <4>1. buf' = Append(buf, rev) BY <1>1, <3>2 DEF PushEvent
      <4>2. \A e \in Event : Buffered(e)' <=> Buffered(e) \/ e = rev
        BY <1>a, <4>1, AppendBuffered
      <4> QED BY <1>0, <4>2 DEF Kept, WithReader
    <3> QED BY <3>1, <3>2
  <2> QED BY <1>0, <1>1, <2>1, KeepAll DEF PushEvent
<1>2. CASE \/ MeetBarrier \/ Drained \/ BarrierComplete \/ WakeUp
           \/ NoMoreEventSources \/ ReadDeletedSource \/ StopFilling
  <2>1. buf' = buf /\ nread' = nread /\ skipTo' = skipTo
    BY <1>2 DEF MeetBarrier, Drained, BarrierComplete, WakeUp, NoMoreEventSources,
       ReadDeletedSource, StopFilling, readerVars
  <2>2. \A e \in Event : WithReader(e) => WithReader(e)'
    BY <1>2 DEF MeetBarrier, Drained, BarrierComplete, WakeUp, NoMoreEventSources,
       ReadDeletedSource, StopFilling, readerVars, WithReader
  <2>3. \A e \in Event : Buffered(e) => Buffered(e)' BY <2>1 DEF Buffered
  <2>4. \A e \in Event : Kept(e) => Kept(e)' BY <1>0, <2>2, <2>3 DEF Kept
  <2> QED BY <1>0, <2>1, <2>4, KeepAll
<1>3. CASE PushBarrier \/ PushLastEvent \/ PushLastNull
  <2>1. buf' = Append(buf, rev) /\ nread' = nread /\ skipTo' = skipTo
    BY <1>3 DEF PushBarrier, PushLastEvent, PushLastNull
  <2>2. \A e \in Event : Buffered(e)' <=> Buffered(e) \/ e = rev
    BY <1>a, <2>1, AppendBuffered
  <2>3. \A e \in Event : Kept(e) => Kept(e)' BY <1>0, <2>2 DEF Kept, WithReader
  <2> QED BY <1>0, <2>1, <2>3, KeepAll
<1>4. CASE ReadEvent
  <2>1. /\ rev = NULL /\ rpc = "read" /\ nread' = nread + 1 /\ buf' = buf
        /\ nread' \in Event /\ nread \in Nat
        /\ skipTo \in {0, SKIP_TO_EVENT} /\ SKIP_TO_EVENT \in Nat
    BY <1>4, ConstantsAssumption
       DEF ReadEvent, DInv, OrderInv, ReaderInv, TInv, TypeOK, ReaderTypeOK, Event
  <2> PICK n \in Event : n = nread' BY <2>1
  <2>2. /\ skipTo' = IF n = skipTo THEN 0 ELSE skipTo
        /\ ThrownAway(n) \/ (rev' = n /\ rpc' # "waitseq")
    BY <1>4 DEF ReadEvent
  <2>3. SkipInv' BY <2>1, <2>2 DEF LossInv, SkipInv
  <2>4. \A e \in Event : Kept(e) => Kept(e)'
    BY <1>0, <1>a, <2>1 DEF Kept, WithReader, Buffered
  <2>5. n <= EVENTS_TO_SKIP \/ n < SKIP_TO_EVENT \/ Kept(n)'
    <3>1. CASE ThrownAway(n) BY <2>1, <3>1 DEF ThrownAway, LossInv, SkipInv
    <3>2. CASE ~ThrownAway(n) BY <2>2, <3>2 DEF Kept, WithReader
    <3> QED BY <3>1, <3>2
  <2>6. 1..nread' = 1..nread \cup {n} /\ 1..nread \subseteq Event
    BY <2>1, ConstantsAssumption DEF TInv, TypeOK, ReaderTypeOK, Event
  <2>7. NothingLost'
    <3> SUFFICES ASSUME kills = 0, NEW e \in 1..nread'
                 PROVE  e <= EVENTS_TO_SKIP \/ e < SKIP_TO_EVENT \/ Kept(e)'
      BY <1>0 DEF NothingLost, Kept
    <3>1. CASE e \in 1..nread
      BY <2>4, <2>6, <3>1 DEF LossInv, NothingLost, Kept
    <3>2. CASE e = n BY <2>5, <3>2
    <3> QED BY <2>6, <3>1, <3>2
  <2> QED BY <2>3, <2>7 DEF LossInv
<1> QED BY <1>1, <1>2, <1>3, <1>4 DEF Reader

\* A thread loses no event.
LEMMA LoopLoss == ASSUME TInv, DInv, LossInv, NEW l \in Loops, LoopStep(l) PROVE LossInv'
<1>0. /\ lpc \in [Loops -> LoopPC] /\ my \in [Loops -> Event \cup {NULL}]
      /\ lev \in [Loops -> Event \cup {NULL}] /\ NULL \notin Event
  BY ConstantsAssumption DEF TInv, TypeOK, LoopTypeOK, Event, NULL
<1>1. UNCHANGED <<readerVars, kills>>
  BY DEF LoopStep, TopOfLoop, Lock, Pop, PopEntry, Check, Repop, Finish, EndOfLoop,
     mainVars
<1>2. \A e \in Event : Taken(e) => Taken(e)'
  <2>1. CASE TopOfLoop(l) \/ Lock(l) \/ EndOfLoop(l)
    <3>1. \A k \in Loops, e \in Event : Holds(k, e) => Holds(k, e)'
      BY <1>0, <2>1 DEF TopOfLoop, Lock, EndOfLoop, Holds
    <3> QED BY <2>1, <3>1 DEF TopOfLoop, Lock, EndOfLoop, Taken
  <2>2. CASE Pop(l)
    <3>1. \A k \in Loops, e \in Event : Holds(k, e) => Holds(k, e)'
      BY <1>0, <2>2 DEF Pop, PopEntry, Holds
    <3> QED BY <2>2, <3>1 DEF Pop, PopEntry, Taken
  <2>3. CASE Check(l)
    <3>1. \A k \in Loops, e \in Event : Holds(k, e) => Holds(k, e)'
      BY <1>0, <2>3 DEF Check, Take, Holds
    <3> QED BY <2>3, <3>1 DEF Check, Taken
  <2>4. CASE Repop(l)
    <3>1. \A k \in Loops, e \in Event : Holds(k, e) => Holds(k, e)'
      BY <1>0, <2>4 DEF Repop, Take, Holds
    <3> QED BY <2>4, <3>1 DEF Repop, Taken
  <2>5. CASE Finish(l)
    <3>1. \A k \in Loops, e \in Event : Holds(k, e) => Holds(k, e)' \/ e = lev[l]
      BY <1>0, <2>5 DEF Finish, Holds
    <3> QED BY <2>5, <3>1 DEF Finish, Taken
  <2> QED BY <2>1, <2>2, <2>3, <2>4, <2>5 DEF LoopStep
<1>3. \A e \in Event : Buffered(e) => Buffered(e)' \/ Taken(e)'
  <2>1. CASE buf' = buf BY <2>1 DEF Buffered
  <2>2. CASE buf' # buf
    <3>1. buf # <<>> /\ buf' = Tail(buf) /\ (Pop(l) \/ Repop(l))
      BY <2>2 DEF LoopStep, TopOfLoop, Lock, Pop, PopEntry, Check, Repop, Finish,
         EndOfLoop
    <3> PICK h : h = Head(buf) OBVIOUS
    <3>2. h \in Event => Holds(l, h)'
      BY <1>0, <3>1 DEF Pop, PopEntry, Repop, Take, Holds
    <3>3. \A e \in Event : Buffered(e) => Buffered(e)' \/ e = h
      BY <3>1, TailBuffered
    <3> QED BY <3>2, <3>3 DEF Taken
  <2> QED BY <2>1, <2>2
<1>4. \A e \in Event : Kept(e) => Kept(e)'
  BY <1>1, <1>2, <1>3 DEF Kept, WithReader, readerVars
<1> QED BY <1>1, <1>4, KeepAll DEF readerVars

\* The main thread loses no event unless it kills a thread.
LEMMA MainLoss == ASSUME TInv, LossInv, Main PROVE LossInv'
<1>0. /\ lpc \in [Loops -> LoopPC] /\ my \in [Loops -> Event \cup {NULL}]
      /\ lev \in [Loops -> Event \cup {NULL}]
  BY DEF TInv, TypeOK, LoopTypeOK
<1>1. CASE Interrupt \/ DeleteSources \/ StopReader
  <2>1. UNCHANGED <<readerVars, buf, loopVars, kills>>
    BY <1>1 DEF Interrupt, DeleteSources, StopReader, mainVars
  <2>2. \A e \in Event : Kept(e) => Kept(e)'
    BY <2>1 DEF Kept, Taken, Holds, Buffered, WithReader, readerVars, loopVars
  <2> QED BY <2>1, <2>2, KeepAll DEF readerVars
<1>2. ASSUME NEW l \in Loops, Kill(l) PROVE LossInv'
  <2>1. UNCHANGED readerVars /\ kills' # 0
    BY <1>2 DEF Kill, TInv, TypeOK, CountTypeOK
  <2> QED BY <2>1, KeepAll DEF readerVars
<1>3. ASSUME NEW l \in Loops, Relaunch(l) PROVE LossInv'
  <2>1. UNCHANGED <<readerVars, buf, kills, processed>> BY <1>3 DEF Relaunch
  <2>2. \A k \in Loops, e \in Event : Holds(k, e) => Holds(k, e)'
    BY <1>0, <1>3 DEF Relaunch, Holds
  <2>3. \A e \in Event : Kept(e) => Kept(e)'
    BY <2>1, <2>2 DEF Kept, Taken, Buffered, WithReader, readerVars
  <2> QED BY <2>1, <2>3, KeepAll DEF readerVars
<1> QED BY <1>1, <1>2, <1>3 DEF Main

\* Without killed threads, every event that was read and not thrown away by
\* the skip options is with the reader, in the buffer, with a thread or
\* processed: NextEvent and EventBufferThread drop nothing between them.
THEOREM NoEventLost == Spec => []NothingLost
<1>1. Init => LossInv
  BY ConstantsAssumption DEF Init, LossInv, SkipInv, NothingLost
<1>2. TInv /\ DInv /\ LossInv /\ [Next]_vars => LossInv'
  <2> SUFFICES ASSUME TInv, DInv, LossInv, [Next]_vars PROVE LossInv' OBVIOUS
  <2>1. CASE Reader BY <2>1, ReaderLoss
  <2>2. CASE Main BY <2>2, MainLoss
  <2>3. CASE \E l \in Loops : LoopStep(l) BY <2>3, LoopLoss
  <2>4. CASE UNCHANGED vars
    <3>1. UNCHANGED <<readerVars, buf, loopVars, kills>> BY <2>4 DEF vars, mainVars
    <3>2. \A e \in Event : Kept(e) => Kept(e)'
      BY <3>1 DEF Kept, Taken, Holds, Buffered, WithReader, readerVars, loopVars
    <3> QED BY <3>1, <3>2, KeepAll DEF readerVars
  <2> QED BY <2>1, <2>2, <2>3, <2>4 DEF Next, Step, Ended
<1>3. LossInv => NothingLost BY DEF LossInv
<1> QED BY <1>1, <1>2, <1>3, TInvariant, Delivery, PTL DEF Spec

-----------------------------------------------------------------------------
(***************************************************************************)
(* How a job ends: no thread gives up while events remain, and where       *)
(* undefined behaviour is possible.                                        *)
(*                                                                         *)
(* Both need to know that a job nobody gives up on goes on until the       *)
(* reader has left.  A thread sets its own quit flag only after a second   *)
(* look into the buffer, made when the reader is done, has found nothing   *)
(* or the NULL that is always the last entry (QuitInv, NullInv); and while *)
(* the reader is at work every thread that is gone is counted as stalled   *)
(* (StallInv), so that Run never takes the job for finished.               *)
(***************************************************************************)

\* The threads that are gone.
Outs == {l \in Loops : lpc[l] = "out"}

\* While the reader is at work, Run counts every missing thread as stalled.
StallInv == ~quitting /\ filling => Cardinality(Outs) <= nstalled

\* event_buffer_filling is cleared by the reader's last step.
FillInv == filling <=> rpc # "done"

\* The reader waits only for barrier events.
BarrierRev == /\ rpc \in {"drain", "pushseq", "waitseq"} => rev \in barrier
              /\ rpc = "waitseq" => rev = nread

\* NULL is the last entry, pushed when the reader has left its loop.
NullInv == \A i \in DOMAIN buf :
              buf[i] = NULL => i = Len(buf) /\ rpc \in {"clear", "done"}

\* A thread gives up by itself when the reader is done and nothing is left.
QuitInv ==
    ~quitting => \A l \in Loops :
        /\ quit[l] => ~filling /\ \A e \in Event : ~Buffered(e)
        /\ lpc[l] \in {"recheck", "repop"} => ~filling

\* The sources are deleted, and the reader is told to stop, after its work or
\* in a program that is giving up.
EndInv == (deleted /\ filling => quitting) /\ (stop => quitting)

\* Without kills a thread is gone only when it was told to quit.
LeaveInv == kills = 0 /\ ~quitting => \A l \in Loops : lpc[l] = "out" => quit[l]

EInv == /\ FillInv /\ BarrierRev /\ NullInv /\ QuitInv
        /\ StallInv /\ EndInv /\ LeaveInv /\ UndefinedOnlyAtEnd

-----------------------------------------------------------------------------
\* The buffer's entries after a push.
LEMMA AppendEntries ==
    ASSUME TInv, NEW x, x \in Event \cup {NULL}, buf' = Append(buf, x)
    PROVE  /\ Len(buf') = Len(buf) + 1 /\ Len(buf) \in Nat
           /\ DOMAIN buf = 1..Len(buf) /\ DOMAIN buf' = 1..Len(buf')
           /\ \A i \in 1..Len(buf) : buf'[i] = buf[i]
           /\ buf'[Len(buf')] = x
BY DEF TInv, TypeOK, BufferTypeOK

\* The buffer's entries after a pop.
LEMMA TailEntries ==
    ASSUME TInv, buf # <<>>, buf' = Tail(buf)
    PROVE  /\ Len(buf') = Len(buf) - 1 /\ Len(buf) \in Nat \ {0}
           /\ DOMAIN buf = 1..Len(buf) /\ DOMAIN buf' = 1..Len(buf')
           /\ \A i \in DOMAIN buf' : buf'[i] = buf[i + 1] /\ i + 1 \in DOMAIN buf
           /\ Head(buf) = buf[1] /\ 1 \in DOMAIN buf
<1>1. buf \in Seq(Event \cup {NULL}) BY DEF TInv, TypeOK, BufferTypeOK
<1>2. Len(buf) \in Nat \ {0} /\ DOMAIN buf = 1..Len(buf) BY <1>1
<1>3. Len(buf') = Len(buf) - 1 /\ DOMAIN buf' = 1..Len(buf') BY <1>1, <1>2
<1> QED BY <1>1, <1>2, <1>3

\* A pop adds nothing to the buffer and keeps NULL at its end.
LEMMA TailKeeps ==
    ASSUME TInv, NullInv, buf # <<>>, buf' = Tail(buf), rpc' = rpc
    PROVE  /\ NullInv'
           /\ \A e \in Event : Buffered(e)' => Buffered(e)
           /\ Head(buf) = NULL => buf' = <<>> /\ rpc \in {"clear", "done"}
<1>1. NullInv' BY TailEntries DEF NullInv
<1>2. \A e \in Event : Buffered(e)' => Buffered(e) BY TailEntries DEF Buffered
<1>3. Head(buf) = NULL => Len(buf') = 0 /\ rpc \in {"clear", "done"}
  BY TailEntries DEF NullInv
<1>4. buf' \in Seq(Event \cup {NULL}) BY DEF TInv, TypeOK, BufferTypeOK
<1> QED BY <1>1, <1>2, <1>3, <1>4

\* The reader's steps.
LEMMA ReaderEnd == ASSUME TInv, DInv, EInv, ~undef, Reader PROVE EInv'
<1> USE DEF EInv
<1>0. /\ rev \in Event \cup {NULL} /\ NULL \notin Event /\ barrier \subseteq Event
      /\ lpc' = lpc /\ quit' = quit /\ quitting' = quitting /\ kills' = kills
      /\ deleted' = deleted /\ nstalled' = nstalled /\ barrier' = barrier
      /\ stop' = stop
  <2>1. rev \in Event \cup {NULL} /\ NULL \notin Event /\ barrier \subseteq Event
    BY ConstantsAssumption DEF TInv, TypeOK, ReaderTypeOK, Event, NULL
  <2> QED
    BY <2>1 DEF Reader, PushEvent, MeetBarrier, Drained, PushBarrier,
     BarrierComplete, WakeUp, ReadEvent, NoMoreEventSources, ReadDeletedSource,
     PushLastEvent, PushLastNull, StopFilling, loopVars, mainVars
<1>1. rpc # "done" /\ filling
  BY DEF Reader, PushEvent, MeetBarrier, Drained, PushBarrier,
     BarrierComplete, WakeUp, ReadEvent, NoMoreEventSources, ReadDeletedSource,
     PushLastEvent, PushLastNull, StopFilling, FillInv
<1>2. FillInv'
  <2>1. CASE StopFilling BY <2>1 DEF StopFilling, FillInv
  <2>2. CASE Reader /\ ~StopFilling
    <3>1. filling' = filling
      BY <2>2 DEF Reader, PushEvent, MeetBarrier, Drained, PushBarrier,
         BarrierComplete, WakeUp, ReadEvent, NoMoreEventSources, ReadDeletedSource,
         PushLastEvent, PushLastNull
    <3>2. rpc' # "done"
      BY <1>1, <2>2 DEF Reader, PushEvent, MeetBarrier, Drained, PushBarrier,
         BarrierComplete, WakeUp, ReadEvent, NoMoreEventSources, ReadDeletedSource,
         PushLastEvent, PushLastNull, WaitForRoom, readerVars
    <3> QED BY <1>1, <3>1, <3>2 DEF FillInv
  <2> QED BY <2>1, <2>2
<1>3. BarrierRev'
  <2>1. CASE MeetBarrier \/ Drained \/ PushBarrier
    BY <1>0, <2>1 DEF BarrierRev, MeetBarrier, Drained, PushBarrier, DInv, OrderInv,
       ReaderInv
  <2>2. CASE ReadDeletedSource
    BY <1>0, <2>2 DEF BarrierRev, ReadDeletedSource, readerVars
  <2>3. CASE PushEvent \/ BarrierComplete \/ WakeUp \/ ReadEvent \/ NoMoreEventSources
    <3>1. rpc' \in {"room", "last", "read", "push"}
      BY <2>3 DEF PushEvent, BarrierComplete, WakeUp, ReadEvent, NoMoreEventSources,
         WaitForRoom
    <3> QED BY <3>1 DEF BarrierRev
  <2>4. CASE PushLastEvent \/ PushLastNull \/ StopFilling
    BY <2>4 DEF BarrierRev, PushLastEvent, PushLastNull, StopFilling
  <2> QED BY <2>1, <2>2, <2>3, <2>4 DEF Reader
<1>4. NullInv'
  <2>1. CASE buf' = buf /\ (rpc \in {"clear", "done"} => rpc' \in {"clear", "done"})
    BY <2>1 DEF NullInv
  <2>2. CASE /\ buf' = Append(buf, rev) /\ rpc \notin {"clear", "done"}
             /\ rev = NULL => rpc' = "clear"
    <3>1. \A i \in 1..Len(buf) : buf[i] # NULL BY <1>0, <2>2, AppendEntries DEF NullInv
    <3> QED BY <1>0, <2>2, <3>1, AppendEntries DEF NullInv
  <2>3. CASE PushEvent \/ PushBarrier
    BY <1>0, <2>1, <2>2, <2>3 DEF PushEvent, PushBarrier, BarrierRev
  <2>4. CASE PushLastEvent \/ PushLastNull
    BY <2>2, <2>4 DEF PushLastEvent, PushLastNull
  <2> QED
    BY <2>1, <2>3, <2>4 DEF Reader, MeetBarrier, Drained, BarrierComplete, WakeUp,
       ReadEvent, NoMoreEventSources, ReadDeletedSource, StopFilling, WaitForRoom
<1>5. QuitInv'
  <2>1. ~quitting => \A l \in Loops : ~quit[l] /\ lpc[l] \notin {"recheck", "repop"}
    BY <1>1 DEF QuitInv
  <2> QED BY <1>0, <2>1 DEF QuitInv
<1>6. StallInv' BY <1>0, <1>1 DEF StallInv, Outs
<1>7. EndInv' BY <1>0, <1>1 DEF EndInv
<1>8. LeaveInv' BY <1>0 DEF LeaveInv
<1>9. UndefinedOnlyAtEnd'
  <2>1. CASE ReadEvent
    <3>1. skipTo \in {0, SKIP_TO_EVENT} /\ nread \in Nat
      BY ConstantsAssumption DEF TInv, TypeOK, ReaderTypeOK
    <3>2. DereferencesNull(nread + 1) => EVENTS_TO_SKIP > 0 /\ SKIP_TO_EVENT > 0
      BY <3>1, ConstantsAssumption DEF DereferencesNull
    <3>3. undef' = DereferencesNull(nread') /\ nread' = nread + 1 BY <2>1 DEF ReadEvent
    <3> QED BY <3>2, <3>3, Zenon DEF UndefinedOnlyAtEnd
  <2>2. CASE ReadDeletedSource
    BY <1>1, <2>2 DEF ReadDeletedSource, UndefinedOnlyAtEnd, EndInv, mainVars
  <2>3. CASE PushLastNull BY <2>3 DEF PushLastNull, UndefinedOnlyAtEnd
  <2> QED
    BY <2>1, <2>2, <2>3 DEF Reader, PushEvent, MeetBarrier, Drained, PushBarrier,
       BarrierComplete, WakeUp, NoMoreEventSources, PushLastEvent, StopFilling,
       UndefinedOnlyAtEnd
<1> QED BY <1>2, <1>3, <1>4, <1>5, <1>6, <1>7, <1>8, <1>9

\* The threads' steps.
LEMMA LoopEnd == ASSUME TInv, EInv, ~undef, NEW l \in Loops, LoopStep(l) PROVE EInv'
<1> USE DEF EInv
<1>0. /\ lpc \in [Loops -> LoopPC] /\ quit \in [Loops -> BOOLEAN]
      /\ quitting' = quitting /\ kills' = kills /\ deleted' = deleted
      /\ nstalled' = nstalled /\ barrier' = barrier /\ stop' = stop
      /\ filling' = filling /\ rpc' = rpc /\ rev' = rev /\ nread' = nread
      /\ undef' = undef
  BY DEF TInv, TypeOK, LoopTypeOK, LoopStep, TopOfLoop, Lock, Pop, PopEntry, Check,
     Repop, Finish, EndOfLoop, mainVars, readerVars
<1>1. FillInv' BY <1>0 DEF FillInv
<1>2. BarrierRev' BY <1>0 DEF BarrierRev
<1>3. EndInv' BY <1>0 DEF EndInv
<1>4. UndefinedOnlyAtEnd' BY <1>0 DEF UndefinedOnlyAtEnd
<1>5. buf' = buf \/ (buf # <<>> /\ buf' = Tail(buf))
  BY DEF LoopStep, TopOfLoop, Lock, Pop, PopEntry, Check, Repop, Finish, EndOfLoop
<1>6. NullInv' /\ \A e \in Event : Buffered(e)' => Buffered(e)
  BY <1>0, <1>5, TailKeeps DEF NullInv, Buffered
<1>7. \A k \in Loops : k # l => lpc'[k] = lpc[k] /\ quit'[k] = quit[k]
  BY <1>0 DEF LoopStep, TopOfLoop, Lock, Pop, PopEntry, Check, Take, Repop, Finish,
     EndOfLoop
<1>8. lpc'[l] = "out" => quit[l] /\ quit'[l]
  BY <1>0 DEF LoopStep, TopOfLoop, Lock, Pop, PopEntry, Check, Take, Repop, Finish,
     EndOfLoop
<1>9. QuitInv'
  <2> SUFFICES ASSUME ~quitting,
                      quit'[l] => quit[l] \/ (~filling /\ \A e \in Event : ~Buffered(e)'),
                      lpc'[l] \in {"recheck", "repop"} => ~filling
               PROVE  QuitInv'
    <3>1. CASE Repop(l)
      <4>1. ~quitting => ~filling BY <3>1 DEF QuitInv, Repop
      <4>2. quit'[l] => quit[l] \/ buf' = <<>>
        BY <1>0, <3>1, TailKeeps DEF Repop
      <4>3. buf' = <<>> => \A e \in Event : ~Buffered(e)' BY DEF Buffered
      <4>4. lpc'[l] \in {"proc", "seq"} BY <1>0, <3>1 DEF Repop, Take
      <4> QED BY <1>0, <4>1, <4>2, <4>3, <4>4 DEF QuitInv
    <3>2. CASE Check(l) \/ Lock(l)
      BY <1>0, <3>2 DEF QuitInv, Check, Take, Lock
    <3>3. CASE TopOfLoop(l) \/ Pop(l) \/ Finish(l) \/ EndOfLoop(l)
      BY <1>0, <3>3 DEF QuitInv, TopOfLoop, Pop, PopEntry, Finish, EndOfLoop
    <3> QED BY <3>1, <3>2, <3>3 DEF LoopStep
  <2> QED BY <1>0, <1>6, <1>7 DEF QuitInv
<1>10. StallInv'
  <2> SUFFICES ASSUME ~quitting, filling PROVE Cardinality(Outs') <= nstalled
    BY <1>0 DEF StallInv
  <2>1. ~quit[l] BY DEF QuitInv
  <2>2. Outs' \subseteq Outs BY <1>7, <1>8, <2>1 DEF Outs
  <2>3. IsFiniteSet(Outs) BY ConstantsAssumption, FS_Subset DEF Outs
  <2>4. Cardinality(Outs') <= Cardinality(Outs) /\ IsFiniteSet(Outs')
    BY <2>2, <2>3, FS_Subset
  <2>5. Cardinality(Outs) \in Nat /\ Cardinality(Outs') \in Nat
    BY <2>3, <2>4, FS_CardinalityType
  <2>6. nstalled \in Nat BY DEF TInv, TypeOK, CountTypeOK
  <2> QED BY <2>4, <2>5, <2>6 DEF StallInv
<1>11. LeaveInv' BY <1>0, <1>7, <1>8 DEF LeaveInv
<1> QED BY <1>1, <1>2, <1>3, <1>4, <1>6, <1>9, <1>10, <1>11

\* The main thread's steps.
LEMMA MainEnd == ASSUME TInv, EInv, ~undef, Main PROVE EInv'
<1> USE DEF EInv
<1>0. /\ lpc \in [Loops -> LoopPC] /\ quit \in [Loops -> BOOLEAN]
      /\ buf' = buf /\ barrier' = barrier /\ filling' = filling /\ rpc' = rpc
      /\ rev' = rev /\ nread' = nread /\ undef' = undef
      /\ quitting => quitting'
      /\ nstalled \in Nat /\ kills \in Nat
  BY DEF TInv, TypeOK, LoopTypeOK, FlagTypeOK, CountTypeOK, Main, Interrupt, Kill,
     Relaunch, QuitAll, DeleteSources, StopReader, mainVars, readerVars
<1>1. FillInv' BY <1>0 DEF FillInv
<1>2. BarrierRev' BY <1>0 DEF BarrierRev
<1>3. NullInv' BY <1>0 DEF NullInv
<1>4. \A e \in Event : Buffered(e)' <=> Buffered(e) BY <1>0 DEF Buffered
<1>5. UndefinedOnlyAtEnd' BY <1>0 DEF UndefinedOnlyAtEnd
<1>a. IsFiniteSet(Outs) /\ Outs \subseteq Loops /\ Cardinality(Outs) \in Nat
  <2>1. IsFiniteSet(Outs) BY ConstantsAssumption, FS_Subset DEF Outs
  <2> QED BY <2>1, FS_CardinalityType DEF Outs
<1>6. QuitInv'
  <2>1. \A l \in Loops : quitting' \/ ((quit'[l] => quit[l]) /\
            (lpc'[l] \in {"recheck", "repop"} => lpc[l] \in {"recheck", "repop"}))
    BY <1>0 DEF Main, Interrupt, Kill, Relaunch, QuitAll, DeleteSources, StopReader,
       loopVars
  <2> QED BY <1>0, <1>4, <2>1 DEF QuitInv
<1>7. StallInv'
  <2>1. CASE Interrupt BY <2>1 DEF Interrupt, QuitAll, StallInv
  <2>2. CASE DeleteSources \/ StopReader
    BY <2>2 DEF DeleteSources, StopReader, StallInv, Outs, mainVars, loopVars
  <2>3. ASSUME NEW l \in Loops, Kill(l) PROVE StallInv'
    <3> SUFFICES ASSUME ~quitting', filling PROVE Cardinality(Outs') <= nstalled'
      BY <1>0 DEF StallInv
    <3>1. Outs' = Outs \cup {l} /\ nstalled' = nstalled + 1
      BY <1>0, <2>3 DEF Kill, QuitAll, Outs
    <3>2. l \notin Outs BY <2>3 DEF Kill, Outs
    <3>3. Cardinality(Outs \cup {l}) = Cardinality(Outs) + 1
      BY <1>a, <3>2, FS_AddElement
    <3> QED BY <1>0, <1>a, <3>1, <3>3 DEF StallInv
  <2>4. ASSUME NEW l \in Loops, Relaunch(l) PROVE StallInv'
    <3> SUFFICES ASSUME ~quitting', filling PROVE Cardinality(Outs') <= nstalled'
      BY <1>0 DEF StallInv
    <3>1. /\ Outs' = Outs \ {l} /\ l \in Outs
          /\ nstalled' = nstalled - (IF nstalled > 0 THEN 1 ELSE 0)
      BY <1>0, <2>4 DEF Relaunch, QuitAll, Outs
    <3>2. Cardinality(Outs \ {l}) = Cardinality(Outs) - 1
      BY <1>a, <3>1, FS_RemoveElement
    <3>3. Cardinality(Outs \ {l}) \in Nat
      BY <1>a, FS_RemoveElement, FS_CardinalityType
    <3> QED BY <1>0, <1>a, <3>1, <3>2, <3>3 DEF StallInv
  <2> QED BY <2>1, <2>2, <2>3, <2>4 DEF Main
<1>8. EndInv'
  <2>1. CASE DeleteSources
    <3> SUFFICES ASSUME filling, ~quitting PROVE FALSE
      BY <1>0, <2>1 DEF EndInv, DeleteSources
    <3>1. Outs = Loops /\ nstalled = 0 BY <2>1 DEF DeleteSources, AllOut, Outs
    <3>2. Cardinality(Loops) = 0 BY <1>a, <3>1 DEF StallInv
    <3> QED BY <3>2, ConstantsAssumption, FS_EmptySet
  <2>2. CASE Main /\ ~DeleteSources
    BY <1>0, <2>2 DEF Main, Interrupt, Kill, Relaunch, QuitAll, StopReader, EndInv,
       mainVars
  <2> QED BY <2>1, <2>2
<1>9. LeaveInv'
  BY <1>0 DEF Main, Interrupt, Kill, Relaunch, QuitAll, DeleteSources, StopReader,
     LeaveInv, loopVars, mainVars
<1> QED BY <1>1, <1>2, <1>3, <1>5, <1>6, <1>7, <1>8, <1>9

-----------------------------------------------------------------------------

\* The facts about the end of a job hold in every reachable state.
THEOREM EndOfJob == Spec => []EInv
<1>1. Init => EInv
  <2> SUFFICES ASSUME Init PROVE EInv OBVIOUS
  <2>1. Outs = {} BY DEF Init, Outs
  <2>2. StallInv BY <2>1, FS_EmptySet DEF Init, StallInv
  <2> QED BY <2>2 DEF Init, EInv, FillInv, BarrierRev, NullInv, QuitInv, EndInv,
             LeaveInv, UndefinedOnlyAtEnd
<1>2. TInv /\ DInv /\ EInv /\ [Next]_vars => EInv'
  <2> SUFFICES ASSUME TInv, DInv, EInv, [Next]_vars PROVE EInv' OBVIOUS
  <2>1. CASE ~undef /\ Reader BY <2>1, ReaderEnd
  <2>2. CASE ~undef /\ Main BY <2>2, MainEnd
  <2>3. CASE ~undef /\ \E l \in Loops : LoopStep(l) BY <2>3, LoopEnd
  <2>4. CASE UNCHANGED vars
    BY <2>4 DEF vars, readerVars, loopVars, mainVars, EInv, FillInv, BarrierRev,
       NullInv, QuitInv, StallInv, Outs, EndInv, LeaveInv, UndefinedOnlyAtEnd, Buffered
  <2> QED BY <2>1, <2>2, <2>3, <2>4 DEF Next, Step, Ended
<1> QED BY <1>1, <1>2, TInvariant, Delivery, PTL DEF Spec

\* NextEvent's second look into the buffer closes the race with the reader's
\* last push: no thread gives up while an event is still in the buffer or the
\* reader at work.
THEOREM NoThreadLeavesEarly == Spec => []NobodyLeavesEarly
<1>1. EInv => NobodyLeavesEarly BY DEF EInv, LeaveInv, QuitInv, NobodyLeavesEarly
<1> QED BY <1>1, EndOfJob, PTL

\* The undefined behaviours of the code are those UndefinedOnlyAtEnd names;
\* a job that nobody gives up on never reads from a deleted source.
THEOREM UndefinedAtEnd == Spec => []UndefinedOnlyAtEnd
<1>1. EInv => UndefinedOnlyAtEnd BY DEF EInv
<1> QED BY <1>1, EndOfJob, PTL

-----------------------------------------------------------------------------
(***************************************************************************)
(* Theorem: EventBuffer implements EventDelivery.  That events are handed  *)
(* out in order and once is shown above; what is left is that              *)
(* nothing younger is handed out while a thread has a barrier event.       *)
(*                                                                         *)
(* The argument follows the barrier event.  From its push until the thread *)
(* that processed it has reported, the reader stays at the wait for        *)
(* sequential_event_complete, with the flag still clear (WaitInv).  The    *)
(* flag cannot be raised early: a thread that reports while the reader     *)
(* fills the buffer has just processed the event it reports, and no two    *)
(* threads report the same one (SeqInv).  So the event read last is the    *)
(* barrier event itself (LastInv).  A barrier event that is the last of    *)
(* the job is pushed without waiting: then nothing is pushed after it.     *)
(***************************************************************************)

\* Some thread has event e; event e has left the reader and is not finished.
Held(e) == \E l \in Loops : Holds(l, e)
InFlight(e) == Buffered(e) \/ Held(e)

\* Some thread is about to report the completion of event e.
Reporting(e) == \E l \in Loops : lpc[l] = "seq" /\ lev[l] = e

SeqInv ==
    ~quitting /\ filling => \A l \in Loops : lpc[l] = "seq" =>
        /\ lev[l] \in processed
        /\ \A k \in Loops : lpc[k] = "seq" /\ lev[k] = lev[l] => k = l

WaitInv ==
    ~quitting /\ filling => \A b \in barrier : InFlight(b) \/ Reporting(b) =>
        rpc = "clear" \/ (rpc = "waitseq" /\ ~seqDone /\ rev = b)

LastInv == ~quitting => \A b \in barrier : InFlight(b) => b = nread

BInv == SeqInv /\ WaitInv /\ LastInv

-----------------------------------------------------------------------------
(***************************************************************************)
(* What a thread's step does to the events the threads hold.               *)
(***************************************************************************)

\* A thread takes the oldest entry.
Takes(l) == (Pop(l) \/ Repop(l)) /\ buf # <<>> /\ Head(buf) # NULL

\* It becomes the event this thread holds; nobody else is concerned.
LEMMA TakeStep ==
    ASSUME TInv, DInv, NEW l \in Loops, Takes(l)
    PROVE  /\ Head(buf) \in Event /\ Buffered(Head(buf)) /\ buf' = Tail(buf)
           /\ processed' = processed
           /\ \A k \in Loops, e \in Event :
                 Holds(k, e)' <=> Holds(k, e) \/ (k = l /\ e = Head(buf))
           /\ \A k \in Loops : lpc'[k] = "seq" => lpc[k] = "seq" /\ lev'[k] = lev[k]
<1>0. /\ lpc \in [Loops -> LoopPC] /\ my \in [Loops -> Event \cup {NULL}]
      /\ lev \in [Loops -> Event \cup {NULL}] /\ NULL \notin Event
  BY ConstantsAssumption DEF TInv, TypeOK, LoopTypeOK, Event, NULL
<1>1. buf \in Seq(Event \cup {NULL}) BY DEF TInv, TypeOK, BufferTypeOK
<1>2. Head(buf) \in Event /\ Head(buf) = buf[1] /\ 1 \in DOMAIN buf
  BY <1>1 DEF Takes
<1>3. CASE Pop(l)
  <2>1. /\ lpc' = [lpc EXCEPT ![l] = "check"] /\ my' = [my EXCEPT ![l] = Head(buf)]
        /\ lpc[l] = "pop" /\ lev' = lev /\ processed' = processed /\ buf' = Tail(buf)
    BY <1>3 DEF Takes, Pop, PopEntry
  <2> QED BY <1>0, <1>2, <2>1 DEF Holds, Buffered
<1>4. CASE Repop(l)
  <2>1. /\ lpc' = [lpc EXCEPT ![l] = "proc"] /\ my' = [my EXCEPT ![l] = NULL]
        /\ lpc[l] = "repop" /\ lev' = [lev EXCEPT ![l] = Head(buf)]
        /\ processed' = processed /\ buf' = Tail(buf)
    BY <1>4 DEF Takes, Repop, Take
  <2> QED BY <1>0, <1>2, <2>1 DEF Holds, Buffered
<1> QED BY <1>3, <1>4 DEF Takes

\* A thread finishes its event.
LEMMA FinishStep ==
    ASSUME TInv, DInv, NEW l \in Loops, Finish(l)
    PROVE  /\ lev[l] \in Event /\ Holds(l, lev[l]) /\ buf' = buf /\ lev' = lev
           /\ processed' = processed \cup {lev[l]}
           /\ \A k \in Loops, e \in Event : Holds(k, e)' <=> k # l /\ Holds(k, e)
           /\ \A k \in Loops : lpc'[k] = "seq" => k = l \/ lpc[k] = "seq"
<1>0. /\ lpc \in [Loops -> LoopPC] /\ my \in [Loops -> Event \cup {NULL}]
      /\ lev \in [Loops -> Event \cup {NULL}] /\ NULL \notin Event
  BY ConstantsAssumption DEF TInv, TypeOK, LoopTypeOK, Event, NULL
<1>1. lev[l] \in Event BY <1>0 DEF Finish, TInv, ProcHasEvent
<1> QED BY <1>0, <1>1 DEF Finish, Holds

\* Any other step of a thread leaves them alone.
LEMMA OtherStep ==
    ASSUME TInv, DInv, EInv, NEW l \in Loops, LoopStep(l), ~Takes(l), ~Finish(l)
    PROVE  /\ processed' = processed
           /\ \A k \in Loops, e \in Event : Holds(k, e)' <=> Holds(k, e)
           /\ \A e \in Event : Buffered(e)' => Buffered(e)
           /\ \/ \A k \in Loops : lpc'[k] = "seq" => lpc[k] = "seq" /\ lev'[k] = lev[k]
              \/ quitting \/ ~filling
<1>0. /\ lpc \in [Loops -> LoopPC] /\ my \in [Loops -> Event \cup {NULL}]
      /\ lev \in [Loops -> Event \cup {NULL}] /\ NULL \notin Event
      /\ buf \in Seq(Event \cup {NULL})
  BY ConstantsAssumption DEF TInv, TypeOK, LoopTypeOK, BufferTypeOK, Event, NULL
<1>1. CASE TopOfLoop(l) \/ Lock(l) \/ EndOfLoop(l)
  BY <1>0, <1>1 DEF TopOfLoop, Lock, EndOfLoop, Holds, Buffered
<1>2. CASE Check(l)
  BY <1>0, <1>2 DEF Check, Take, Holds, Buffered
<1>3. \A e \in Event : rpc' = rpc /\ buf # <<>> /\ buf' = Tail(buf) /\ Buffered(e)' => Buffered(e)
  BY TailKeeps DEF EInv
<1>4. CASE Pop(l)
  <2>1. my[l] = NULL BY <1>4 DEF Pop, PopEntry, DInv, MyInv
  <2>2. /\ lpc' = [lpc EXCEPT ![l] = "check"] /\ my' = [my EXCEPT ![l] = NULL]
        /\ lpc[l] = "pop" /\ lev' = lev /\ processed' = processed
    BY <1>0, <1>4, <2>1 DEF Pop, PopEntry, Takes
  <2>3. \A e \in Event : Buffered(e)' => Buffered(e)
    BY <1>3, <1>4 DEF Pop, PopEntry, Buffered, readerVars
  <2> QED BY <1>0, <2>2, <2>3 DEF Holds
<1>5. CASE Repop(l)
  <2>1. /\ lev' = lev /\ my' = my /\ lpc' = [lpc EXCEPT ![l] = "seq"]
        /\ lpc[l] = "repop" /\ processed' = processed
    BY <1>5 DEF Repop, Take, Takes
  <2>2. \A e \in Event : Buffered(e)' => Buffered(e)
    BY <1>3, <1>5 DEF Repop, Buffered, readerVars
  <2>3. quitting \/ ~filling BY <2>1 DEF EInv, QuitInv
  <2> QED BY <1>0, <2>1, <2>2, <2>3 DEF Holds
<1> QED BY <1>1, <1>2, <1>4, <1>5 DEF LoopStep

-----------------------------------------------------------------------------
(***************************************************************************)
(* Barrier events on their way.                                            *)
(***************************************************************************)

\* A step that puts no event on its way and leaves the reader where it is.
LEMMA QuietBarrier ==
    ASSUME WaitInv, LastInv, barrier \subseteq Event,
           UNCHANGED <<barrier, filling, rpc, rev, nread>>, quitting => quitting',
           \A e \in Event : InFlight(e)' => InFlight(e),
           \A e \in Event : ~quitting' /\ filling /\ Reporting(e)' =>
                                InFlight(e) \/ Reporting(e),
           \/ seqDone' = seqDone
           \/ quitting' \/ ~filling \/ rpc = "clear"
           \/ \A b \in barrier : ~InFlight(b)' /\ ~Reporting(b)'
    PROVE  WaitInv' /\ LastInv'
<1>1. WaitInv' BY DEF WaitInv
<1>2. LastInv' BY DEF LastInv
<1> QED BY <1>1, <1>2

\* The reader's steps.
LEMMA ReaderBarrier == ASSUME TInv, DInv, EInv, BInv, Reader PROVE BInv'
<1> USE DEF BInv
<1>0. /\ rev \in Event \cup {NULL} /\ NULL \notin Event /\ barrier \subseteq Event
      /\ lpc' = lpc /\ lev' = lev /\ my' = my /\ processed' = processed
      /\ quitting' = quitting /\ barrier' = barrier
  <2>1. rev \in Event \cup {NULL} /\ NULL \notin Event /\ barrier \subseteq Event
    BY ConstantsAssumption DEF TInv, TypeOK, ReaderTypeOK, Event, NULL
  <2> QED
    BY <2>1 DEF Reader, PushEvent, MeetBarrier, Drained, PushBarrier,
       BarrierComplete, WakeUp, ReadEvent, NoMoreEventSources, ReadDeletedSource,
       PushLastEvent, PushLastNull, StopFilling, loopVars, mainVars
<1>1. filling /\ rpc # "done"
  BY DEF Reader, PushEvent, MeetBarrier, Drained, PushBarrier,
     BarrierComplete, WakeUp, ReadEvent, NoMoreEventSources, ReadDeletedSource,
     PushLastEvent, PushLastNull, StopFilling, EInv, FillInv
<1>2. SeqInv' BY <1>0, <1>1 DEF SeqInv
<1>3. \A e \in Event : (Held(e)' <=> Held(e)) /\ (Reporting(e)' <=> Reporting(e))
  BY <1>0 DEF Held, Holds, Reporting
<1>4. rpc \notin {"waitseq", "clear"} /\ ~quitting =>
         \A b \in barrier : ~InFlight(b) /\ ~Reporting(b)
  BY <1>1 DEF WaitInv
<1>5. ASSUME \/ buf' = buf
             \/ buf' = Append(buf, rev) /\ rev \notin barrier,
             ~quitting => \A b \in barrier : ~InFlight(b) /\ ~Reporting(b)
      PROVE  WaitInv' /\ LastInv'
  <2>1. \A b \in barrier : Buffered(b)' => Buffered(b)
    BY <1>0, <1>5, AppendBuffered DEF Buffered
  <2>2. ~quitting => \A b \in barrier : ~InFlight(b)' /\ ~Reporting(b)'
    BY <1>0, <1>3, <1>5, <2>1 DEF InFlight
  <2> QED BY <1>0, <2>2 DEF WaitInv, LastInv
<1>6. ASSUME buf' = Append(buf, rev), rev = nread, nread' = nread,
             rpc \notin {"waitseq", "clear"},
             rpc' = "clear" \/ (rpc' = "waitseq" /\ ~seqDone' /\ rev' = rev)
      PROVE  WaitInv' /\ LastInv'
  <2>1. \A b \in barrier : Buffered(b)' => Buffered(b) \/ b = rev
    BY <1>0, <1>6, AppendBuffered
  <2>2. ~quitting => \A b \in barrier : InFlight(b)' \/ Reporting(b)' => b = rev
    BY <1>0, <1>3, <1>4, <1>6, <2>1 DEF InFlight
  <2> QED BY <1>0, <1>6, <2>2 DEF WaitInv, LastInv
<1>7. CASE PushEvent
  <2>1. buf' = buf \/ (buf' = Append(buf, rev) /\ rev \notin barrier)
    BY <1>7 DEF PushEvent
  <2> QED BY <1>2, <1>4, <1>5, <1>7, <2>1 DEF PushEvent
<1>8. CASE PushBarrier
  <2>1. rev = nread /\ rev # NULL
    BY <1>0, <1>8 DEF PushBarrier, DInv, OrderInv, ReaderInv, EInv, BarrierRev
  <2> QED BY <1>2, <1>6, <1>8, <2>1 DEF PushBarrier
<1>9. CASE PushLastEvent
  <2>1. rev = nread BY <1>9 DEF PushLastEvent, DInv, OrderInv, ReaderInv
  <2> QED BY <1>2, <1>6, <1>9, <2>1 DEF PushLastEvent
<1>10. CASE PushLastNull
  <2>1. buf' = Append(buf, rev) /\ rev \notin barrier
    BY <1>0, <1>10 DEF PushLastNull
  <2> QED BY <1>2, <1>4, <1>5, <1>10, <2>1 DEF PushLastNull
<1>11. CASE BarrierComplete
  <2>1. ~quitting => seqDone /\ rpc = "waitseq"
    BY <1>11 DEF BarrierComplete, EInv, EndInv
  <2>2. ~quitting => \A b \in barrier : ~InFlight(b) /\ ~Reporting(b)
    BY <1>1, <2>1 DEF WaitInv
  <2> QED BY <1>2, <1>5, <1>11, <2>2 DEF BarrierComplete
<1>12. CASE StopFilling
  <2>1. WaitInv' BY <1>12 DEF StopFilling, WaitInv
  <2>2. \A e \in Event : InFlight(e)' => InFlight(e)
    BY <1>3, <1>12 DEF StopFilling, InFlight, Buffered
  <2>3. LastInv' BY <1>0, <1>12, <2>2 DEF StopFilling, LastInv
  <2> QED BY <1>2, <2>1, <2>3
<1>13. CASE \/ MeetBarrier \/ Drained \/ WakeUp \/ ReadEvent \/ NoMoreEventSources
            \/ ReadDeletedSource
  <2>1. rpc \notin {"waitseq", "clear"} /\ buf' = buf
    BY <1>13 DEF MeetBarrier, Drained, WakeUp, ReadEvent, NoMoreEventSources,
       ReadDeletedSource
  <2> QED BY <1>2, <1>4, <1>5, <2>1
<1> QED BY <1>2, <1>7, <1>8, <1>9, <1>10, <1>11, <1>12, <1>13 DEF Reader

\* The threads' steps.
LEMMA LoopBarrier ==
    ASSUME TInv, DInv, EInv, BInv, NEW l \in Loops, LoopStep(l) PROVE BInv'
<1> USE DEF BInv
<1>0. /\ quitting' = quitting /\ UNCHANGED <<barrier, filling, rpc, rev, nread>>
      /\ barrier \subseteq Event
  BY DEF TInv, TypeOK, ReaderTypeOK, LoopStep, TopOfLoop, Lock, Pop, PopEntry, Check,
     Repop, Finish, EndOfLoop, mainVars, readerVars
<1>1. CASE Takes(l)
  <2>1. SeqInv' BY <1>0, <1>1, TakeStep DEF SeqInv
  <2>2. \A e \in Event : InFlight(e)' => InFlight(e)
    <3>1. \A e \in Event : Buffered(e)' => Buffered(e)
      BY <1>0, <1>1, TakeStep, TailKeeps DEF EInv, Takes
    <3> QED BY <1>1, <3>1, TakeStep DEF InFlight, Held
  <2>3. \A e \in Event : Reporting(e)' => Reporting(e) BY <1>1, TakeStep DEF Reporting
  <2>4. seqDone' = seqDone BY <1>1 DEF Takes, Pop, PopEntry, Repop
  <2> QED BY <1>0, <2>1, <2>2, <2>3, <2>4, QuietBarrier
<1>2. CASE Finish(l)
  <2>1. lev[l] \notin processed BY <1>2, FinishStep DEF DInv, ProcessedAtMostOnce
  <2>2. SeqInv' BY <1>0, <1>2, <2>1, FinishStep DEF SeqInv
  <2>3. \A e \in Event : InFlight(e)' => InFlight(e)
    BY <1>2, FinishStep DEF InFlight, Held, Buffered
  <2>4. \A e \in Event : Reporting(e)' => InFlight(e) \/ Reporting(e)
    BY <1>2, FinishStep DEF Reporting, InFlight, Held
  <2>5. seqDone' = seqDone BY <1>2 DEF Finish
  <2> QED BY <1>0, <2>2, <2>3, <2>4, <2>5, QuietBarrier
<1>3. CASE ~Takes(l) /\ ~Finish(l)
  <2>1. SeqInv' BY <1>0, <1>3, OtherStep DEF SeqInv
  <2>2. \A e \in Event : InFlight(e)' => InFlight(e)
    BY <1>3, OtherStep DEF InFlight, Held
  <2>3. \A e \in Event : ~quitting /\ filling /\ Reporting(e)' => Reporting(e)
    BY <1>3, OtherStep DEF Reporting
  <2>4. \/ seqDone' = seqDone
        \/ quitting' \/ ~filling \/ rpc = "clear"
        \/ \A b \in barrier : ~InFlight(b)' /\ ~Reporting(b)'
    <3>1. CASE EndOfLoop(l) /\ lev[l] \in barrier /\ ~quitting /\ filling /\ rpc # "clear"
      <4> DEFINE c == lev[l]
      <4>1. Reporting(c) /\ c \in Event /\ lpc[l] = "seq"
        BY <1>0, <3>1 DEF EndOfLoop, Reporting
      <4>2. \A b \in barrier : InFlight(b) \/ Reporting(b) => b = c
        BY <3>1, <4>1 DEF WaitInv, EInv, BarrierRev
      <4>3. c \in processed BY <3>1, <4>1 DEF SeqInv
      <4>4. ~Held(c) BY <4>1, <4>3 DEF Held, DInv, ProcessedAtMostOnce
      <4>5. ~Buffered(c)
        <5>1. Taken(c) BY <4>3 DEF Taken
        <5>2. ~(c < c) BY <4>1, ConstantsAssumption DEF Event
        <5> QED BY <4>1, <5>1, <5>2 DEF DInv, OrderInv, TakenInv
      <4>6. ~Reporting(c)'
        <5>1. \A k \in Loops : lpc'[k] = "seq" => k # l /\ lpc[k] = "seq" /\ lev'[k] = lev[k]
          BY <3>1 DEF EndOfLoop, TInv, TypeOK, LoopTypeOK
        <5>2. c' = c BY <3>1 DEF EndOfLoop
        <5> QED BY <3>1, <4>1, <5>1, <5>2 DEF SeqInv, Reporting
      <4>7. c' = c BY <3>1 DEF EndOfLoop
      <4> HIDE DEF c
      <4> QED BY <1>0, <2>2, <2>3, <3>1, <4>1, <4>2, <4>4, <4>5, <4>6, <4>7 DEF InFlight
    <3>2. CASE EndOfLoop(l) /\ ~(lev[l] \in barrier /\ ~quitting /\ filling /\ rpc # "clear")
      BY <1>0, <3>2 DEF EndOfLoop, TInv, TypeOK, FlagTypeOK
    <3>3. CASE ~EndOfLoop(l)
      BY <1>3, <3>3 DEF LoopStep, TopOfLoop, Lock, Pop, PopEntry, Check, Repop, Finish
    <3> QED BY <3>1, <3>2, <3>3
  <2> QED BY <1>0, <2>1, <2>2, <2>3, <2>4, QuietBarrier
<1> QED BY <1>1, <1>2, <1>3

\* The main thread takes no event and reports none.
LEMMA MainHolds ==
    ASSUME TInv, Main
    PROVE  /\ \A k \in Loops, e \in Event : Holds(k, e)' => Holds(k, e)
           /\ \A k \in Loops : lpc'[k] = "seq" => lpc[k] = "seq" /\ lev'[k] = lev[k]
           /\ UNCHANGED <<buf, processed, seqDone, barrier, filling, rpc, rev, nread>>
           /\ quitting' = quitting \/ quitting' = TRUE
<1>0. /\ lpc \in [Loops -> LoopPC] /\ my \in [Loops -> Event \cup {NULL}]
      /\ lev \in [Loops -> Event \cup {NULL}]
  BY DEF TInv, TypeOK, LoopTypeOK
<1>1. UNCHANGED <<buf, processed, seqDone, barrier, filling, rpc, rev, nread>>
  BY DEF Main, Interrupt, DeleteSources, StopReader, Kill, Relaunch, readerVars, loopVars
<1>2. quitting' = quitting \/ quitting' = TRUE
  BY DEF Main, Interrupt, DeleteSources, StopReader, Kill, Relaunch, QuitAll, mainVars
<1>3. CASE Interrupt \/ DeleteSources \/ StopReader
  <2>1. UNCHANGED <<lpc, my, lev>>
    BY <1>3 DEF Interrupt, DeleteSources, StopReader, loopVars
  <2>2. /\ \A k \in Loops, e \in Event : Holds(k, e)' => Holds(k, e)
        /\ \A k \in Loops : lpc'[k] = "seq" => lpc[k] = "seq" /\ lev'[k] = lev[k]
    BY <2>1 DEF Holds
  <2> QED BY <1>1, <1>2, <2>2
<1>4. ASSUME NEW l \in Loops, Kill(l) \/ Relaunch(l)
      PROVE  /\ \A k \in Loops, e \in Event : Holds(k, e)' => Holds(k, e)
             /\ \A k \in Loops : lpc'[k] = "seq" => lpc[k] = "seq" /\ lev'[k] = lev[k]
  BY <1>0, <1>4 DEF Kill, Relaunch, Holds
<1> QED BY <1>3, <1>4, <1>1, <1>2 DEF Main

\* Nor does it touch the barrier events on their way.
LEMMA MainBarrier == ASSUME TInv, BInv, Main PROVE BInv'
<1> USE DEF BInv
<1>1. SeqInv' BY MainHolds DEF SeqInv
<1>2. \A e \in Event : InFlight(e)' => InFlight(e)
  BY MainHolds DEF InFlight, Held, Buffered
<1>3. \A e \in Event : Reporting(e)' => Reporting(e) BY MainHolds DEF Reporting
<1>4. barrier \subseteq Event BY DEF TInv, TypeOK, ReaderTypeOK
<1>5. quitting => quitting' BY MainHolds, Zenon
<1>6. UNCHANGED <<barrier, filling, rpc, rev, nread>> /\ seqDone' = seqDone
  BY MainHolds
<1>7. WaitInv' /\ LastInv' BY <1>2, <1>3, <1>4, <1>5, <1>6, QuietBarrier
<1> QED BY <1>1, <1>7

\* The facts about barrier events hold in every reachable state.
THEOREM Barriers == Spec => []BInv
<1>1. Init => BInv
  <2> SUFFICES ASSUME Init PROVE BInv OBVIOUS
  <2>1. \A e : ~InFlight(e) /\ ~Reporting(e)
    BY DEF Init, InFlight, Held, Holds, Buffered, Reporting
  <2> QED BY <2>1 DEF Init, BInv, SeqInv, WaitInv, LastInv
<1>2. TInv /\ DInv /\ EInv /\ BInv /\ [Next]_vars => BInv'
  <2> SUFFICES ASSUME TInv, DInv, EInv, BInv, [Next]_vars PROVE BInv' OBVIOUS
  <2>1. CASE Reader BY <2>1, ReaderBarrier
  <2>2. CASE Main BY <2>2, MainBarrier
  <2>3. CASE \E l \in Loops : LoopStep(l) BY <2>3, LoopBarrier
  <2>4. CASE UNCHANGED vars
    BY <2>4 DEF vars, readerVars, loopVars, mainVars, BInv, SeqInv, WaitInv, LastInv,
       InFlight, Held, Holds, Buffered, Reporting
  <2> QED BY <2>1, <2>2, <2>3, <2>4 DEF Next, Step, Ended
<1> QED BY <1>1, <1>2, TInvariant, Delivery, EndOfJob, PTL DEF Spec

\* sequential_event_complete, cleared under the same lock as the push, keeps
\* everything read after a barrier event away from the threads until that
\* event has been processed.
THEOREM BarrierHolds == Spec => []NothingOvertakesBarrier
<1>1. TInv /\ DInv /\ BInv => NothingOvertakesBarrier
  <2> SUFFICES ASSUME TInv, DInv, BInv, ~quitting, NEW l \in Loops, lpc[l] = "proc",
                      lev[l] \in barrier, NEW e \in Event, e > lev[l]
               PROVE  ~Taken(e) /\ ~Buffered(e)
    BY DEF NothingOvertakesBarrier
  <2>1. lev[l] = nread BY DEF BInv, LastInv, InFlight, Held, Holds
  <2>2. nread \in Nat /\ e \in Nat
    BY ConstantsAssumption DEF TInv, TypeOK, ReaderTypeOK, Event
  <2> QED BY <2>1, <2>2 DEF DInv, OrderInv, ReadInv
<1> QED BY <1>1, TInvariant, Delivery, Barriers, PTL

-----------------------------------------------------------------------------
(***************************************************************************)
(* The refinement.                                                         *)
(***************************************************************************)

\* Taking an entry hands an event out.
LEMMA TakeHands ==
    ASSUME TInv, DInv, EInv, BInv, NEW l \in Loops, LoopStep(l), Takes(l)
    PROVE  D!Next
<1> DEFINE h == Head(buf)
<1>1. h \in Event /\ Buffered(h) /\ ~Taken(h)
  BY TakeStep, HeadNotTaken DEF DInv, Takes
<1>2. \A f \in HeldEvents \cup processed : f < h
  <2>1. processed \subseteq Event BY DEF TInv, TypeOK, LoopTypeOK
  <2>2. \A f \in HeldEvents \cup processed : f \in Event /\ Taken(f)
    BY <2>1 DEF HeldEvents, Taken
  <2> QED BY <1>1, <2>2 DEF DInv, OrderInv, TakenInv
<1>3. quitting \/ HeldEvents \cap barrier = {}
  <2> SUFFICES ASSUME ~quitting, NEW b \in barrier, b \in HeldEvents PROVE FALSE
    OBVIOUS
  <2>1. b = nread BY DEF BInv, LastInv, InFlight, Held, HeldEvents
  <2>2. b < h /\ h <= nread
    BY <1>1, <1>2 DEF DInv, OrderInv, ReadInv
  <2>3. nread \in Nat /\ h \in Nat
    BY <1>1, ConstantsAssumption DEF TInv, TypeOK, ReaderTypeOK, Event
  <2> QED BY <2>1, <2>2, <2>3
<1>4. HeldEvents' = HeldEvents \cup {h}
  <2>1. \A e \in Event : (\E k \in Loops : Holds(k, e)') <=> (\E k \in Loops : Holds(k, e)) \/ e = h
    BY <1>1, TakeStep
  <2>2. Event' = Event BY DEF Event
  <2> QED BY <1>1, <2>1, <2>2 DEF HeldEvents
<1>5. UNCHANGED <<barrier, processed, quitting>>
  BY DEF Takes, Pop, PopEntry, Repop, mainVars
<1>6. D!Hand(h) BY <1>2, <1>3, <1>4, <1>5 DEF D!Hand
<1> QED BY <1>1, <1>6 DEF D!Next

\* Finishing an event completes it.
LEMMA FinishCompletes ==
    ASSUME TInv, DInv, NEW l \in Loops, Finish(l)
    PROVE  D!Next
<1> DEFINE c == lev[l]
<1>1. c \in Event /\ c \in HeldEvents BY FinishStep DEF HeldEvents
<1>2. HeldEvents' = HeldEvents \ {c}
  <2>1. \A e \in Event : (\E k \in Loops : Holds(k, e)') <=> (\E k \in Loops : Holds(k, e)) /\ e # c
    <3>1. \A k \in Loops : Holds(k, c) => k = l
      BY <1>1, FinishStep DEF DInv, ProcessedAtMostOnce
    <3>2. \A e \in Event : Holds(l, e) => e = c BY DEF Holds, Finish
    <3> QED BY <3>1, <3>2, FinishStep
  <2>2. Event' = Event BY DEF Event
  <2> QED BY <2>1, <2>2 DEF HeldEvents
<1>3. processed' = processed \cup {c} /\ UNCHANGED <<barrier, quitting>>
  BY DEF Finish, mainVars
<1>4. D!Complete(c) BY <1>1, <1>2, <1>3 DEF D!Complete
<1> QED BY <1>1, <1>4 DEF D!Next

\* The reader, the bounded buffer, the threads and the main thread together
\* implement EventDelivery: every step hands out the next event, completes
\* one, loses some, or changes nothing the processing code can see.
THEOREM DeliveryImplemented == Spec => ImplementsDelivery
<1>1. Init => D!Init
  <2> SUFFICES ASSUME Init PROVE D!Init OBVIOUS
  <2>1. HeldEvents = {} BY DEF Init, HeldEvents, Holds
  <2> QED BY <2>1 DEF Init, D!Init
<1>2. TInv /\ DInv /\ EInv /\ BInv /\ [Next]_vars => [D!Next]_(D!deliveryVars)
  <2> SUFFICES ASSUME TInv, DInv, EInv, BInv, [Next]_vars
               PROVE  D!Next \/ UNCHANGED D!deliveryVars
    OBVIOUS
  <2>0. Event' = Event BY DEF Event
  <2>1. CASE Reader
    <3>1. UNCHANGED <<lpc, my, lev, processed, barrier, quitting>>
      BY <2>1 DEF Reader, PushEvent, MeetBarrier, Drained, PushBarrier,
         BarrierComplete, WakeUp, ReadEvent, NoMoreEventSources, ReadDeletedSource,
         PushLastEvent, PushLastNull, StopFilling, loopVars, mainVars
    <3> QED BY <2>0, <3>1 DEF D!deliveryVars, HeldEvents, Holds
  <2>2. CASE Main
    <3>1. HeldEvents' \in SUBSET HeldEvents
      BY <2>0, <2>2, MainHolds DEF HeldEvents
    <3>2. D!Lose BY <2>2, <3>1, MainHolds DEF D!Lose
    <3> QED BY <3>2 DEF D!Next
  <2>3. ASSUME NEW l \in Loops, LoopStep(l)
        PROVE  D!Next \/ UNCHANGED D!deliveryVars
    <3>1. CASE Takes(l) BY <2>3, <3>1, TakeHands
    <3>2. CASE Finish(l) BY <3>2, FinishCompletes
    <3>3. CASE ~Takes(l) /\ ~Finish(l)
      <4>1. HeldEvents' = HeldEvents BY <2>0, <2>3, <3>3, OtherStep DEF HeldEvents
      <4>2. UNCHANGED <<barrier, processed, quitting>>
        BY <2>3, <3>3 DEF LoopStep, TopOfLoop, Lock, Pop, PopEntry, Check, Repop,
           EndOfLoop, mainVars
      <4> QED BY <4>1, <4>2 DEF D!deliveryVars
    <3> QED BY <3>1, <3>2, <3>3
  <2>4. CASE UNCHANGED vars
    BY <2>0, <2>4 DEF vars, loopVars, mainVars, D!deliveryVars, HeldEvents, Holds
  <2> QED BY <2>1, <2>2, <2>3, <2>4 DEF Next, Step, Ended
<1> QED
  BY <1>1, <1>2, TInvariant, Delivery, EndOfJob, Barriers, PTL
     DEF Spec, ImplementsDelivery, D!Spec

-----------------------------------------------------------------------------
(***************************************************************************)
(* Theorems about the EPICS data that all threads share without a lock.    *)
(*                                                                         *)
(* They rest on the barrier: while nobody quits, the reader goes past a    *)
(* barrier event only when a thread has processed it, so that of the       *)
(* barrier events read all but the last are processed (DoneInv); a killed  *)
(* thread's barrier event holds the reader for ever.  An event a thread    *)
(* has was read, so every EPICS event before it is completely written      *)
(* (WrittenInv) when the thread makes its copy (CopiedInv).  Written       *)
(* values stay, for the event a writer works on is the one read last       *)
(* (LastInv) and no value is newer (ValueInv).                             *)
(***************************************************************************)

\* Only a thread that processes an event is inside epicsData_factory::evnt,
\* and only one with valid EPICS data writes.
EpcInv ==
    \A l \in Loops :
        /\ epc[l] # "start" => lpc[l] = "proc"
        /\ epc[l] = "write" => lev[l] \in valid

\* The shared values come from events that have been read.
ValueInv == valid \subseteq barrier \cap bank /\ \A k \in Keys : m_values[k] <= nread

\* While nobody quits, every barrier event that was read is processed, unless
\* it is the one read last and the reader has not seen its completion.
Pending(b) ==
    /\ b = nread
    /\ \/ rpc \in {"push", "drain", "pushseq", "last"} /\ rev = b
       \/ rpc = "waitseq" /\ ~seqDone
       \/ rpc \in {"clear", "done"}

DoneInv ==
    ~quitting =>
        \A b \in barrier : b <= nread /\ NotSkipped(b) => b \in processed \/ Pending(b)

\* The variable k of EPICS event b has been decoded.
Written(b, k) ==
    \/ b \in processed
    \/ \E l \in Loops : /\ lpc[l] = "proc" /\ lev[l] = b
                        /\ epc[l] = "copy" \/ (epc[l] = "write" /\ k \notin todo[l])

WrittenInv ==
    ~quitting => \A b \in valid : \A k \in KeysOf[b] : Written(b, k) => m_values[k] >= b

\* The variable k has been copied for event e.
Copied(e, k) ==
    /\ e \in bank
    /\ \/ e \in processed
       \/ \E l \in Loops : /\ lpc[l] = "proc" /\ lev[l] = e
                           /\ epc[l] = "copy" /\ k \notin todo[l]

\* The value of k in the copy for e is not older than any event before e.
UpToDate(e, k, v) ==
    /\ v >= 0
    /\ \A b \in valid : b < e /\ NotSkipped(b) /\ k \in KeysOf[b] => v >= b

CopiedInv ==
    ~quitting => \A e \in Event, k \in Keys : Copied(e, k) => UpToDate(e, k, snap[e][k])

\* All that is shown of the shared data and the copies.
SInv == ETypeOK /\ EpcInv /\ ValueInv /\ WrittenInv /\ CopiedInv

-----------------------------------------------------------------------------
(***************************************************************************)
(* The barrier events are processed one after the other: facts about the   *)
(* event buffer alone.                                                     *)
(***************************************************************************)

\* A step that reads nothing, forgets nothing and leaves what is pending
\* pending.
LEMMA DoneKept ==
    ASSUME TInv, DoneInv, SkipInv, UNCHANGED <<barrier, nread, skipTo>>,
           quitting => quitting', processed \subseteq processed',
           ~quitting' => \A b \in barrier : Pending(b) => Pending(b)' \/ b \in processed'
    PROVE  DoneInv' /\ SkipInv'
<1>1. SkipInv' BY DEF SkipInv
<1>2. \A b : NotSkipped(b)' <=> NotSkipped(b) BY DEF NotSkipped
<1>3. DoneInv' BY <1>2 DEF DoneInv
<1> QED BY <1>1, <1>3

\* The reader goes on to the next event only when the barrier event read last
\* is complete.
LEMMA ReaderDone ==
    ASSUME TInv, DInv, EInv, BInv, SkipInv, DoneInv, Reader
    PROVE  DoneInv' /\ SkipInv'
<1>0. /\ barrier' = barrier /\ processed' = processed /\ quitting' = quitting
      /\ barrier \subseteq Event /\ NULL \notin Event /\ (stop => quitting)
      /\ nread \in Nat /\ skipTo \in {0, SKIP_TO_EVENT} /\ \A e \in Event : e \in Nat
  <2>1. /\ barrier \subseteq Event /\ NULL \notin Event /\ (stop => quitting)
        /\ nread \in Nat /\ skipTo \in {0, SKIP_TO_EVENT} /\ \A e \in Event : e \in Nat
    BY ConstantsAssumption
    DEF TInv, TypeOK, ReaderTypeOK, Event, NULL, EInv, EndInv
  <2> QED
    BY <2>1 DEF Reader, PushEvent, MeetBarrier, Drained, PushBarrier,
       BarrierComplete, WakeUp, ReadEvent, NoMoreEventSources, ReadDeletedSource,
       PushLastEvent, PushLastNull, StopFilling, loopVars, mainVars
<1>1. CASE ReadEvent
  <2>1. /\ rpc = "read" /\ nread' = nread + 1
        /\ rev' = IF ThrownAway(nread') THEN NULL ELSE nread'
        /\ skipTo' = IF nread' = skipTo THEN 0 ELSE skipTo
        /\ rpc' \in {"last", "push"}
    BY <1>1 DEF ReadEvent
  <2>2. SkipInv' BY <1>0, <2>1, ConstantsAssumption DEF SkipInv
  <2>3. NotSkipped(nread + 1) => rev' = nread + 1
    BY <1>0, <2>1, ConstantsAssumption DEF NotSkipped, ThrownAway, SkipInv
  <2>4. ASSUME ~quitting, NEW b \in barrier, b <= nread, NotSkipped(b)
        PROVE  b \in processed
    BY <2>1, <2>4 DEF DoneInv, Pending
  <2>5. ASSUME ~quitting', NEW b \in barrier', b <= nread', NotSkipped(b)'
        PROVE  (b \in processed \/ Pending(b))'
    <3>1. NotSkipped(b) BY <2>5 DEF NotSkipped
    <3>2. CASE b <= nread BY <1>0, <2>4, <2>5, <3>1, <3>2
    <3>3. CASE b = nread + 1
      BY <1>0, <2>1, <2>3, <3>1, <3>3 DEF Pending
    <3>4. b \in Nat BY <1>0, <2>5
    <3> QED BY <1>0, <2>1, <2>5, <3>2, <3>3, <3>4
  <2>6. DoneInv' BY <2>5 DEF DoneInv
  <2> QED BY <2>2, <2>6
<1>2. CASE ~ReadEvent
  <2>1. UNCHANGED <<nread, skipTo>>
    BY <1>2 DEF Reader, PushEvent, MeetBarrier, Drained, PushBarrier,
       BarrierComplete, WakeUp, NoMoreEventSources, ReadDeletedSource,
       PushLastEvent, PushLastNull, StopFilling, readerVars
  <2>2. ASSUME ~quitting', NEW b \in barrier, Pending(b) PROVE Pending(b)'
    <3>0. b # NULL /\ ~stop /\ ~quitting BY <1>0, <2>2
    <3>1. CASE PushEvent BY <2>2, <3>0, <3>1 DEF PushEvent, Pending
    <3>2. CASE MeetBarrier \/ Drained
      BY <2>2, <3>2 DEF MeetBarrier, Drained, Pending
    <3>3. CASE PushBarrier BY <2>2, <3>3 DEF PushBarrier, Pending
    <3>4. CASE BarrierComplete \/ WakeUp \/ NoMoreEventSources
      BY <2>2, <3>0, <3>4 DEF BarrierComplete, WakeUp, NoMoreEventSources, Pending
    <3>5. CASE PushLastEvent \/ PushLastNull \/ StopFilling
      BY <2>2, <3>5 DEF PushLastEvent, PushLastNull, StopFilling, Pending
    <3>6. CASE ReadDeletedSource
      BY <2>2, <3>6 DEF ReadDeletedSource, Pending, readerVars
    <3> QED BY <1>2, <3>1, <3>2, <3>3, <3>4, <3>5, <3>6 DEF Reader
  <2> QED BY <1>0, <2>1, <2>2, DoneKept
<1> QED BY <1>1, <1>2

\* A thread reports a barrier event that it has processed.
LEMMA LoopDone ==
    ASSUME TInv, DInv, EInv, BInv, SkipInv, DoneInv, NEW l \in Loops, LoopStep(l)
    PROVE  DoneInv' /\ SkipInv'
<1>0. /\ UNCHANGED <<barrier, rpc, rev, nread, skipTo, quitting, filling>>
      /\ processed \subseteq processed'
  BY DEF LoopStep, TopOfLoop, Lock, Pop, PopEntry, Check,
     Repop, Finish, EndOfLoop, mainVars, readerVars
<1>1. CASE EndOfLoop(l)
  <2>1. ASSUME ~quitting, NEW b \in barrier, Pending(b)
        PROVE  Pending(b)' \/ b \in processed
    <3>1. CASE rpc # "waitseq" BY <1>0, <2>1, <3>1 DEF Pending
    <3>2. CASE rpc = "waitseq" /\ lev[l] \notin barrier
      BY <1>0, <1>1, <2>1, <3>2 DEF Pending, EndOfLoop, TInv, TypeOK, FlagTypeOK
    <3>3. CASE rpc = "waitseq" /\ lev[l] \in barrier
      <4>1. filling /\ rev = nread /\ b = nread
        BY <2>1, <3>3 DEF EInv, FillInv, BarrierRev, Pending
      <4>2. Reporting(lev[l]) /\ lpc[l] = "seq" BY <1>1 DEF Reporting, EndOfLoop
      <4>3. lev[l] = b BY <2>1, <3>3, <4>1, <4>2 DEF BInv, WaitInv
      <4> QED BY <2>1, <4>1, <4>2, <4>3 DEF BInv, SeqInv
    <3> QED BY <3>1, <3>2, <3>3
  <2> QED BY <1>0, <2>1, DoneKept
<1>2. CASE ~EndOfLoop(l)
  <2>1. seqDone' = seqDone
    BY <1>2 DEF LoopStep, TopOfLoop, Lock, Pop, PopEntry, Check, Repop, Finish
  <2>2. \A b \in barrier : Pending(b) => Pending(b)' BY <1>0, <2>1 DEF Pending
  <2> QED BY <1>0, <2>2, DoneKept
<1> QED BY <1>1, <1>2

\* While nobody quits, the barrier events that were read are processed but
\* for the last.
LEMMA BarriersDone == Spec => [](DoneInv /\ SkipInv)
<1>1. Init => DoneInv /\ SkipInv
  BY ConstantsAssumption DEF Init, DoneInv, SkipInv, Event
<1>2. TInv /\ DInv /\ EInv /\ BInv /\ DoneInv /\ SkipInv /\ [Next]_vars
        => DoneInv' /\ SkipInv'
  <2> SUFFICES ASSUME TInv, DInv, EInv, BInv, DoneInv, SkipInv, [Next]_vars
               PROVE  DoneInv' /\ SkipInv'
    OBVIOUS
  <2>1. CASE Reader BY <2>1, ReaderDone
  <2>2. CASE Main
    <3>1. skipTo' = skipTo
      BY <2>2 DEF Main, Interrupt, DeleteSources, StopReader, Kill, Relaunch, readerVars
    <3>2. UNCHANGED <<processed, seqDone, barrier, rpc, rev, nread>> BY <2>2, MainHolds
    <3>3. quitting => quitting' BY <2>2, MainHolds, Zenon
    <3>4. \A b \in barrier : Pending(b) => Pending(b)' BY <3>2 DEF Pending
    <3> QED BY <3>1, <3>2, <3>3, <3>4, DoneKept
  <2>3. CASE \E l \in Loops : LoopStep(l) BY <2>3, LoopDone
  <2>4. CASE UNCHANGED vars
    BY <2>4 DEF vars, readerVars, loopVars, mainVars, DoneInv, SkipInv, Pending,
       NotSkipped
  <2> QED BY <2>1, <2>2, <2>3, <2>4 DEF Next, Step, Ended
<1> QED BY <1>1, <1>2, TInvariant, Delivery, EndOfJob, Barriers, PTL DEF Spec

-----------------------------------------------------------------------------
(***************************************************************************)
(* epicsData_factory on top of it.                                         *)
(***************************************************************************)

\* What is shown of the steps of the event buffer holds here too.
LEMMA BufferSteps ==
    /\ EInit => Init
    /\ [ENext]_evars => [Next]_vars
<1>1. \A l \in Loops : EpicsStep(l) => UNCHANGED vars
  BY DEF EpicsStep, BeginEvnt, BeginCopy, WriteKey, CopyKey
<1>2. Framework => Step BY DEF Framework, Step, LoopStep
<1>3. \A l \in Loops : FinishEvent(l) => Step BY DEF FinishEvent, Step, LoopStep
<1>4. EEnded => Ended BY DEF EEnded
<1> QED BY <1>1, <1>2, <1>3, <1>4 DEF EInit, ENext, evars, Next

\* The facts about the event buffer the proof rests on.
BufInv == TInv /\ DInv /\ EInv /\ BInv /\ DoneInv

\* What EventBuffer_proofs proves of the buffer holds
\* under epicsData_factory too: its steps are steps of the buffer or stutter.
LEMMA BufferFacts == ESpec => []BufInv
<1>1. ESpec => Spec BY BufferSteps, PTL DEF ESpec, Spec
<1> QED
  BY <1>1, TInvariant, Delivery, EndOfJob, Barriers, BarriersDone, PTL DEF BufInv

\* A step of reader, main thread or a thread outside evnt: threads inside evnt
\* keep their event or are killed.
LEMMA FrameworkStep ==
    ASSUME BufInv, Framework
    PROVE  /\ UNCHANGED <<barrier, processed>> /\ (quitting => quitting')
           /\ nread' \in Nat /\ nread' >= nread
           /\ \A l \in Loops : lpc[l] = "proc" /\ lpc'[l] # "out" =>
                                  lpc'[l] = "proc" /\ lev'[l] = lev[l]
<1>0. /\ lpc \in [Loops -> LoopPC] /\ lev \in [Loops -> Event \cup {NULL}]
      /\ nread \in Nat
  BY ConstantsAssumption DEF BufInv, TInv, TypeOK, ReaderTypeOK, LoopTypeOK
<1>1. CASE Reader
  <2>1. UNCHANGED <<barrier, processed, quitting, lpc, lev>>
    BY <1>1 DEF Reader, PushEvent, MeetBarrier, Drained, PushBarrier,
       BarrierComplete, WakeUp, ReadEvent, NoMoreEventSources, ReadDeletedSource,
       PushLastEvent, PushLastNull, StopFilling, loopVars, mainVars
  <2>2. nread' = nread \/ nread' = nread + 1
    BY <1>1 DEF Reader, PushEvent, MeetBarrier, Drained, PushBarrier,
       BarrierComplete, WakeUp, ReadEvent, NoMoreEventSources, ReadDeletedSource,
       PushLastEvent, PushLastNull, StopFilling, readerVars
  <2> QED BY <1>0, <2>1, <2>2
<1>2. CASE Main
  <2>1. UNCHANGED <<barrier, processed, nread>> BY <1>2, MainHolds DEF BufInv
  <2>2. quitting => quitting' BY <1>2, MainHolds, Zenon DEF BufInv
  <2>3. \A l \in Loops : lpc[l] = "proc" /\ lpc'[l] # "out" =>
                            lpc'[l] = "proc" /\ lev'[l] = lev[l]
    BY <1>0, <1>2 DEF Main, Interrupt, DeleteSources, StopReader, Kill, Relaunch, loopVars
  <2> QED BY <1>0, <2>1, <2>2, <2>3
<1>3. ASSUME NEW j \in Loops,
             \/ TopOfLoop(j) \/ Lock(j) \/ Pop(j) \/ Check(j) \/ Repop(j)
             \/ EndOfLoop(j)
      PROVE  /\ UNCHANGED <<barrier, processed, nread, quitting>>
             /\ \A l \in Loops : lpc[l] = "proc" => lpc'[l] = "proc" /\ lev'[l] = lev[l]
  BY <1>0, <1>3 DEF TopOfLoop, Lock, Pop, PopEntry, Check, Take, Repop, EndOfLoop,
     mainVars, readerVars
<1> QED BY <1>0, <1>1, <1>2, <1>3 DEF Framework

\* The threads inside evnt after such a step were there before.
LEMMA FrameworkEvnt ==
    ASSUME BufInv, SInv, Framework, NEW l \in Loops, epc'[l] # "start"
    PROVE  /\ epc[l] = epc'[l] /\ lpc[l] = "proc" /\ lpc'[l] = "proc"
           /\ lev'[l] = lev[l] /\ todo'[l] = todo[l]
<1>1. epc' = [k \in Loops |-> IF lpc'[k] = "out" THEN "start" ELSE epc[k]] /\ todo' = todo
  BY DEF Framework
<1>2. lpc'[l] # "out" /\ epc'[l] = epc[l] BY <1>1
<1>3. lpc[l] = "proc" BY <1>2 DEF SInv, EpcInv
<1> QED BY <1>1, <1>2, <1>3, FrameworkStep

\* A step in which nothing more is written or copied.
LEMMA QuietCopies ==
    ASSUME SInv, UNCHANGED <<bank, valid, m_values, snap>>, quitting => quitting',
           \A b, k : Written(b, k)' => Written(b, k),
           \A e, k : Copied(e, k)' => Copied(e, k)
    PROVE  WrittenInv' /\ CopiedInv'
<1>1. WrittenInv' BY DEF SInv, WrittenInv
<1>2. \A e, k, v : UpToDate(e, k, v)' <=> UpToDate(e, k, v)
  BY DEF UpToDate, NotSkipped
<1>3. Event' = Event BY DEF Event
<1>4. CopiedInv' BY <1>2, <1>3 DEF SInv, CopiedInv
<1> QED BY <1>1, <1>4

\* A step of the framework keeps the invariant.
LEMMA FrameworkS == ASSUME BufInv, SInv, Framework PROVE SInv'
<1>0. UNCHANGED <<bank, valid, m_values, m_times, todo, snap>> BY DEF Framework
<1>1. ETypeOK'
  <2>1. epc' \in [Loops -> {"start", "write", "copy"}]
    BY DEF Framework, SInv, ETypeOK
  <2>2. Event' = Event BY DEF Event
  <2> QED BY <1>0, <2>1, <2>2 DEF SInv, ETypeOK
<1>2. EpcInv'
  <2>1. \A l \in Loops : epc'[l] # "start" => /\ epc[l] = epc'[l] /\ lpc'[l] = "proc"
                                             /\ lev'[l] = lev[l]
    BY FrameworkEvnt
  <2> QED BY <1>0, <2>1 DEF SInv, EpcInv
<1>3. ValueInv'
  <2>1. nread \in Int /\ \A k \in Keys : m_values[k] \in Int
    BY ConstantsAssumption DEF BufInv, TInv, TypeOK, ReaderTypeOK, SInv, ETypeOK, Event
  <2> QED BY <1>0, <2>1, FrameworkStep DEF SInv, ValueInv
<1>4. \A b, k : Written(b, k)' => Written(b, k)
  <2> SUFFICES ASSUME NEW b, NEW k, Written(b, k)', b \notin processed
               PROVE  Written(b, k)
    BY DEF Written
  <2>1. PICK l \in Loops : /\ lpc'[l] = "proc" /\ lev'[l] = b
                           /\ epc'[l] = "copy" \/ (epc'[l] = "write" /\ k \notin todo'[l])
    BY FrameworkStep DEF Written
  <2> QED BY <2>1, FrameworkEvnt DEF Written
<1>5. \A e, k : Copied(e, k)' => Copied(e, k)
  <2> SUFFICES ASSUME NEW e, NEW k, Copied(e, k)', e \notin processed
               PROVE  Copied(e, k)
    BY <1>0, FrameworkStep DEF Copied
  <2>1. PICK l \in Loops : /\ lpc'[l] = "proc" /\ lev'[l] = e
                           /\ epc'[l] = "copy" /\ k \notin todo'[l]
    BY <1>0, FrameworkStep DEF Copied
  <2>2. e \in bank BY <1>0 DEF Copied
  <2> QED BY <2>1, <2>2, FrameworkEvnt DEF Copied
<1>6. WrittenInv' /\ CopiedInv' BY <1>0, <1>4, <1>5, FrameworkStep, QuietCopies
<1> QED BY <1>1, <1>2, <1>3, <1>6 DEF SInv

\* Finishing the event: its copy is complete.
LEMMA FinishS == ASSUME BufInv, SInv, NEW j \in Loops, FinishEvent(j) PROVE SInv'
<1>0. /\ UNCHANGED <<bank, valid, m_values, m_times, todo, snap, barrier, nread, quitting, lev>>
      /\ epc[j] = "copy" /\ todo[j] = {} /\ lpc[j] = "proc"
      /\ processed' = processed \cup {lev[j]}
      /\ epc' = [epc EXCEPT ![j] = "start"] /\ lpc' = [lpc EXCEPT ![j] = "seq"]
      /\ lpc \in [Loops -> LoopPC] /\ epc \in [Loops -> {"start", "write", "copy"}]
  BY DEF FinishEvent, Finish, readerVars, mainVars, BufInv, TInv, TypeOK, LoopTypeOK,
     SInv, ETypeOK
<1>1. \A l \in Loops : l # j => lpc'[l] = lpc[l] /\ epc'[l] = epc[l]
  BY <1>0
<1>2. lpc'[j] = "seq" /\ epc'[j] = "start" BY <1>0
<1>3. ETypeOK'
  <2>1. Event' = Event BY DEF Event
  <2> QED BY <1>0, <2>1 DEF SInv, ETypeOK
<1>4. EpcInv' BY <1>0, <1>1, <1>2 DEF SInv, EpcInv
<1>5. ValueInv' BY <1>0 DEF SInv, ValueInv
<1>6. \A b, k : Written(b, k)' => Written(b, k)
  BY <1>0, <1>1, <1>2 DEF Written
<1>7. \A e, k : Copied(e, k)' => Copied(e, k)
  BY <1>0, <1>1, <1>2 DEF Copied
<1>8. WrittenInv' /\ CopiedInv' BY <1>0, <1>6, <1>7, QuietCopies
<1> QED BY <1>3, <1>4, <1>5, <1>8 DEF SInv

\* Entering evnt.
LEMMA BeginEvntS == ASSUME BufInv, SInv, NEW j \in Loops, BeginEvnt(j) PROVE SInv'
<1>0. /\ UNCHANGED <<bank, valid, m_values, m_times, snap, barrier, nread, quitting, lev, lpc>>
      /\ processed' = processed
      /\ lpc[j] = "proc" /\ epc[j] = "start" /\ lev[j] \in Event
      /\ lpc \in [Loops -> LoopPC] /\ epc \in [Loops -> {"start", "write", "copy"}]
      /\ todo \in [Loops -> SUBSET Keys] /\ KeysOf[lev[j]] \subseteq Keys
  <2>1. lpc[j] = "proc" /\ lev[j] \in Event
    BY DEF BeginEvnt, BufInv, TInv, ProcHasEvent, TypeOK, LoopTypeOK
  <2>2. KeysOf[lev[j]] \subseteq Keys BY <2>1, EpicsAssumption
  <2> QED
    BY <2>1, <2>2 DEF BeginEvnt, vars, loopVars, readerVars, mainVars, BufInv, TInv,
       TypeOK, LoopTypeOK, SInv, ETypeOK
<1>1. \A l \in Loops : l # j => todo'[l] = todo[l] /\ epc'[l] = epc[l]
  BY <1>0 DEF BeginEvnt
<1>2. \/ epc'[j] = "write" /\ todo'[j] = KeysOf[lev[j]] /\ lev[j] \in valid
      \/ epc'[j] = "copy" /\ todo'[j] = Keys /\ lev[j] \notin valid
      \/ epc'[j] = "copy" /\ todo'[j] = {} /\ lev[j] \notin bank /\ lev[j] \notin valid
  BY <1>0 DEF BeginEvnt, SInv, ValueInv
<1>3. ETypeOK'
  <2>1. Event' = Event BY DEF Event
  <2>2. epc' \in [Loops -> {"start", "write", "copy"}] /\ todo' \in [Loops -> SUBSET Keys]
    BY <1>0 DEF BeginEvnt
  <2> QED BY <1>0, <2>1, <2>2 DEF SInv, ETypeOK
<1>4. EpcInv' BY <1>0, <1>1, <1>2 DEF SInv, EpcInv
<1>5. ValueInv' BY <1>0 DEF SInv, ValueInv
<1>6. \A b \in valid : \A k \in KeysOf[b] : Written(b, k)' => Written(b, k)
  BY <1>0, <1>1, <1>2 DEF Written
<1>7. \A e : \A k \in Keys : Copied(e, k)' => Copied(e, k)
  BY <1>0, <1>1, <1>2 DEF Copied
<1>8. WrittenInv' BY <1>0, <1>6 DEF SInv, WrittenInv
<1>9. CopiedInv'
  <2>1. \A e, k, v : UpToDate(e, k, v)' <=> UpToDate(e, k, v)
    BY <1>0 DEF UpToDate, NotSkipped
  <2>2. Event' = Event BY DEF Event
  <2> QED BY <1>0, <1>7, <2>1, <2>2 DEF SInv, CopiedInv
<1> QED BY <1>3, <1>4, <1>5, <1>8, <1>9 DEF SInv

\* All raw banks are decoded.
LEMMA BeginCopyS == ASSUME BufInv, SInv, NEW j \in Loops, BeginCopy(j) PROVE SInv'
<1>0. /\ UNCHANGED <<bank, valid, m_values, m_times, snap, barrier, nread, quitting, lev, lpc>>
      /\ processed' = processed
      /\ lpc[j] = "proc" /\ epc[j] = "write" /\ todo[j] = {}
      /\ epc' = [epc EXCEPT ![j] = "copy"] /\ todo' = [todo EXCEPT ![j] = Keys]
      /\ lpc \in [Loops -> LoopPC] /\ epc \in [Loops -> {"start", "write", "copy"}]
      /\ todo \in [Loops -> SUBSET Keys]
  BY DEF BeginCopy, vars, loopVars, readerVars, mainVars, BufInv, TInv,
       TypeOK, LoopTypeOK, SInv, ETypeOK
<1>1. \A l \in Loops : l # j => todo'[l] = todo[l] /\ epc'[l] = epc[l] BY <1>0
<1>2. epc'[j] = "copy" /\ todo'[j] = Keys BY <1>0
<1>3. ETypeOK'
  <2>1. Event' = Event BY DEF Event
  <2> QED BY <1>0, <2>1 DEF SInv, ETypeOK
<1>4. EpcInv' BY <1>0, <1>1, <1>2 DEF SInv, EpcInv
<1>5. ValueInv' BY <1>0 DEF SInv, ValueInv
<1>6. \A b, k : Written(b, k)' => Written(b, k)
  BY <1>0, <1>1, <1>2 DEF Written
<1>7. \A e : \A k \in Keys : Copied(e, k)' => Copied(e, k)
  BY <1>0, <1>1, <1>2 DEF Copied
<1>8. WrittenInv' BY <1>0, <1>6 DEF SInv, WrittenInv
<1>9. CopiedInv'
  <2>1. \A e, k, v : UpToDate(e, k, v)' <=> UpToDate(e, k, v)
    BY <1>0 DEF UpToDate, NotSkipped
  <2>2. Event' = Event BY DEF Event
  <2> QED BY <1>0, <1>7, <2>1, <2>2 DEF SInv, CopiedInv
<1> QED BY <1>3, <1>4, <1>5, <1>8, <1>9 DEF SInv

\* Decoding a variable does not put an older value in place of a newer one:
\* the EPICS event a thread works on is the event read last.
LEMMA WriteForward ==
    ASSUME BufInv, SInv, NEW j \in Loops, NEW k \in Keys, WriteKey(j, k)
    PROVE  /\ lev[j] \in valid /\ lev[j] \in Event /\ lev[j] <= nread
           /\ m_values' = [m_values EXCEPT ![k] = lev[j]]
           /\ ~quitting => \A i \in Keys : m_values'[i] >= m_values[i]
<1>0. /\ lpc[j] = "proc" /\ epc[j] = "write"
      /\ m_values' = [m_values EXCEPT ![k] = lev[j]]
      /\ m_values \in [Keys -> Event \cup {0}]
  BY DEF WriteKey, SInv, ETypeOK
<1>1. lev[j] \in valid /\ lev[j] \in barrier BY <1>0 DEF SInv, EpcInv, ValueInv
<1>2. lev[j] \in Event /\ barrier \subseteq Event
  BY <1>1 DEF BufInv, TInv, TypeOK, ReaderTypeOK
<1>3. Holds(j, lev[j]) BY <1>0 DEF Holds
<1>4. lev[j] <= nread
  BY <1>2, <1>3 DEF BufInv, DInv, OrderInv, ReadInv, Taken
<1>5. ~quitting => lev[j] = nread
  BY <1>1, <1>3 DEF BufInv, BInv, LastInv, InFlight, Held
<1>6. ~quitting => \A i \in Keys : m_values'[i] >= m_values[i]
  <2>1. \A i \in Keys : m_values[i] <= nread /\ m_values[i] \in Int
    BY <1>0, ConstantsAssumption DEF SInv, ValueInv, Event
  <2> QED BY <1>0, <1>5, <2>1
<1> QED BY <1>0, <1>1, <1>2, <1>4, <1>6

\* Writing one variable of an EPICS event keeps it.
LEMMA WriteS ==
    ASSUME BufInv, SInv, NEW j \in Loops, NEW k \in Keys, WriteKey(j, k) PROVE SInv'
<1>0. /\ UNCHANGED <<bank, valid, epc, snap, barrier, nread, quitting, lev, lpc>>
      /\ processed' = processed
      /\ lpc[j] = "proc" /\ epc[j] = "write"
      /\ todo' = [todo EXCEPT ![j] = todo[j] \ {k}]
      /\ m_times' = [m_times EXCEPT ![k] = (lev[j] + tCorr) + tCorr]
      /\ todo \in [Loops -> SUBSET Keys]
      /\ m_values \in [Keys -> Event \cup {0}] /\ m_times \in [Keys -> Int]
  BY DEF WriteKey, vars, loopVars, readerVars, mainVars, SInv, ETypeOK
<1>1. \A l \in Loops : l # j => todo'[l] = todo[l] BY <1>0
<1>2. todo'[j] = todo[j] \ {k} BY <1>0
<1>3. ETypeOK'
  <2>1. Event' = Event BY DEF Event
  <2>2. m_values' \in [Keys -> Event \cup {0}] BY <1>0, WriteForward
  <2>3. tCorr \in Int BY EpicsAssumption DEF tCorr, m_eventNumber
  <2>4. lev[j] \in Int BY WriteForward, ConstantsAssumption DEF Event
  <2>5. (lev[j] + tCorr) + tCorr \in Int BY <2>3, <2>4
  <2>6. m_times' \in [Keys -> Int] BY <1>0, <2>5
  <2>7. todo' \in [Loops -> SUBSET Keys] BY <1>0
  <2> QED BY <1>0, <2>1, <2>2, <2>6, <2>7 DEF SInv, ETypeOK
<1>4. EpcInv' BY <1>0 DEF SInv, EpcInv
<1>5. ValueInv' BY <1>0, WriteForward DEF SInv, ValueInv
<1>6. WrittenInv'
  <2> SUFFICES ASSUME ~quitting, NEW b \in valid, NEW i \in KeysOf[b], Written(b, i)'
               PROVE  m_values'[i] >= b
    BY <1>0 DEF WrittenInv
  <2>0. b \in Event /\ i \in Keys BY EpicsAssumption DEF SInv, ETypeOK
  <2>1. CASE lev[j] = b /\ i = k
    BY <1>0, <2>0, <2>1, WriteForward, ConstantsAssumption DEF Event
  <2>2. CASE ~(lev[j] = b /\ i = k)
    <3>1. Written(b, i) BY <1>0, <1>1, <1>2, <2>2 DEF Written
    <3>2. m_values[i] >= b BY <3>1 DEF SInv, WrittenInv
    <3>3. m_values'[i] >= m_values[i] BY <2>0, WriteForward
    <3>4. m_values[i] \in Int /\ m_values'[i] \in Int /\ b \in Int
      BY <1>0, <2>0, WriteForward, ConstantsAssumption DEF Event
    <3> QED BY <3>2, <3>3, <3>4
  <2> QED BY <2>1, <2>2
<1>7. CopiedInv'
  <2>1. \A e, i, v : UpToDate(e, i, v)' <=> UpToDate(e, i, v)
    BY <1>0 DEF UpToDate, NotSkipped
  <2>2. Event' = Event BY DEF Event
  <2>3. \A e, i : Copied(e, i)' => Copied(e, i) BY <1>0, <1>1, <1>2 DEF Copied
  <2> QED BY <1>0, <2>1, <2>2, <2>3 DEF SInv, CopiedInv
<1> QED BY <1>3, <1>4, <1>5, <1>6, <1>7 DEF SInv

\* What a thread copies for event e is not older than any EPICS event before
\* e: all of them have been processed.
LEMMA CopyUpToDate ==
    ASSUME BufInv, SInv, NEW j \in Loops, lpc[j] = "proc", NEW k \in Keys, ~quitting
    PROVE  UpToDate(lev[j], k, m_values[k])
<1>0. /\ lev[j] \in Event /\ lev[j] <= nread /\ nread \in Nat
      /\ m_values[k] \in Nat
  <2>1. lev[j] \in Event BY DEF BufInv, TInv, ProcHasEvent, TypeOK, LoopTypeOK
  <2>2. Taken(lev[j]) BY DEF Taken, Holds
  <2>3. lev[j] <= nread BY <2>1, <2>2 DEF BufInv, DInv, OrderInv, ReadInv
  <2>4. nread \in Nat BY ConstantsAssumption DEF BufInv, TInv, TypeOK, ReaderTypeOK
  <2>5. m_values[k] \in Nat BY ConstantsAssumption DEF SInv, ETypeOK, Event
  <2> QED BY <2>1, <2>3, <2>4, <2>5
<1>1. ASSUME NEW b \in valid, b < lev[j], NotSkipped(b), k \in KeysOf[b]
      PROVE  m_values[k] >= b
  <2>1. b \in barrier /\ b \in Event BY DEF SInv, ValueInv, ETypeOK
  <2>2. b < nread BY <1>0, <1>1, <2>1, ConstantsAssumption DEF Event
  <2>3. b <= nread /\ b # nread BY <1>0, <2>1, <2>2, ConstantsAssumption DEF Event
  <2>4. b \in processed BY <1>1, <2>1, <2>3 DEF BufInv, DoneInv, Pending
  <2> QED BY <1>1, <2>4 DEF SInv, WrittenInv, Written
<1> QED BY <1>0, <1>1 DEF UpToDate

\* Copying one variable keeps it: what is copied is not older than any EPICS
\* event done before.
LEMMA CopyS ==
    ASSUME BufInv, SInv, NEW j \in Loops, NEW k \in Keys, CopyKey(j, k) PROVE SInv'
<1>0. /\ UNCHANGED <<bank, valid, epc, m_values, m_times, barrier, nread, quitting, lev, lpc>>
      /\ processed' = processed
      /\ lpc[j] = "proc" /\ epc[j] = "copy"
      /\ todo' = [todo EXCEPT ![j] = todo[j] \ {k}]
      /\ snap' = [snap EXCEPT ![lev[j]][k] = m_values[k]]
      /\ todo \in [Loops -> SUBSET Keys]
      /\ m_values[k] \in Event \cup {0}
      /\ snap \in [Event -> [Keys -> Event \cup {0, -1}]]
  BY DEF CopyKey, vars, loopVars, readerVars, mainVars, SInv, ETypeOK
<1>1. \A l \in Loops : l # j => todo'[l] = todo[l] BY <1>0
<1>2. todo'[j] = todo[j] \ {k} BY <1>0
<1>3. lev[j] \in Event
  BY <1>0 DEF BufInv, TInv, ProcHasEvent, TypeOK, LoopTypeOK
<1>4. /\ snap' \in [Event -> [Keys -> Event \cup {0, -1}]]
      /\ snap'[lev[j]][k] = m_values[k]
      /\ \A e \in Event, i \in Keys : ~(e = lev[j] /\ i = k) => snap'[e][i] = snap[e][i]
  BY <1>0, <1>3
<1>5. ETypeOK'
  <2>1. Event' = Event BY DEF Event
  <2>2. todo' \in [Loops -> SUBSET Keys] BY <1>0
  <2> QED BY <1>0, <1>4, <2>1, <2>2 DEF SInv, ETypeOK
<1>6. EpcInv' BY <1>0 DEF SInv, EpcInv
<1>7. ValueInv' BY <1>0 DEF SInv, ValueInv
<1>8. WrittenInv'
  <2>1. \A b, i : Written(b, i)' => Written(b, i) BY <1>0, <1>1, <1>2 DEF Written
  <2> QED BY <1>0, <2>1 DEF SInv, WrittenInv
<1>9. CopiedInv'
  <2>1. \A e, i, v : UpToDate(e, i, v)' <=> UpToDate(e, i, v)
    BY <1>0 DEF UpToDate, NotSkipped
  <2>2. Event' = Event BY DEF Event
  <2>3. ASSUME ~quitting, NEW e \in Event, NEW i \in Keys, Copied(e, i)'
        PROVE  UpToDate(e, i, snap'[e][i])
    <3>1. CASE e = lev[j] /\ i = k
      BY <1>0, <1>4, <2>3, <3>1, CopyUpToDate
    <3>2. CASE ~(e = lev[j] /\ i = k)
      <4>1. Copied(e, i) BY <1>0, <1>1, <1>2, <2>3, <3>2 DEF Copied
      <4> QED BY <1>4, <2>3, <3>2, <4>1 DEF SInv, CopiedInv
    <3> QED BY <3>1, <3>2
  <2> QED BY <1>0, <2>1, <2>2, <2>3 DEF CopiedInv
<1> QED BY <1>5, <1>6, <1>7, <1>8, <1>9 DEF SInv

-----------------------------------------------------------------------------

\* The shared data and the copies stay as SInv says.
THEOREM SharedData == ESpec => []SInv
<1>1. EInit => SInv
  <2> SUFFICES ASSUME EInit PROVE SInv OBVIOUS
  <2>1. Init /\ barrier \subseteq Event BY DEF EInit, Init
  <2>2. /\ processed = {} /\ nread = 0 /\ lpc = [l \in Loops |-> "top"]
        /\ valid \subseteq barrier \cap bank /\ bank \subseteq Event
        /\ m_values = [k \in Keys |-> 0]
        /\ m_times = [k \in Keys |-> 0] /\ epc = [l \in Loops |-> "start"]
        /\ todo = [l \in Loops |-> {}] /\ snap = [e \in Event |-> NoCopy]
    BY <2>1 DEF EInit, Init
  <2>3. NoCopy \in [Keys -> Event \cup {0, -1}] BY DEF NoCopy
  <2>4. ETypeOK BY <2>1, <2>2, <2>3 DEF ETypeOK
  <2>5. EpcInv /\ ValueInv BY <2>2 DEF EpcInv, ValueInv
  <2>6. WrittenInv /\ CopiedInv BY <2>2 DEF WrittenInv, Written, CopiedInv, Copied
  <2> QED BY <2>4, <2>5, <2>6 DEF SInv
<1>2. BufInv /\ SInv /\ [ENext]_evars => SInv'
  <2> SUFFICES ASSUME BufInv, SInv, [ENext]_evars PROVE SInv' OBVIOUS
  <2>1. CASE Framework BY <2>1, FrameworkS
  <2>2. ASSUME NEW l \in Loops, EpicsStep(l) \/ FinishEvent(l) PROVE SInv'
    BY <2>2, FinishS, BeginEvntS, BeginCopyS, WriteS, CopyS DEF EpicsStep
  <2>3. CASE UNCHANGED evars
    <3>1. UNCHANGED <<epicsVars, lpc, lev, processed, nread, barrier, quitting>>
      BY <2>3 DEF evars, vars, loopVars, readerVars, mainVars
    <3>2. \A b, k : Written(b, k)' => Written(b, k)
      BY <3>1 DEF Written, epicsVars
    <3>3. \A e, k : Copied(e, k)' => Copied(e, k)
      BY <3>1 DEF Copied, epicsVars
    <3>4. WrittenInv' /\ CopiedInv' BY <3>1, <3>2, <3>3, QuietCopies DEF epicsVars
    <3>5. ETypeOK' BY <3>1 DEF SInv, ETypeOK, epicsVars, Event
    <3>6. EpcInv' /\ ValueInv' BY <3>1 DEF SInv, EpcInv, ValueInv, epicsVars
    <3> QED BY <3>4, <3>5, <3>6 DEF SInv
  <2>4. EEnded => UNCHANGED evars BY DEF EEnded, Ended, evars
  <2> QED BY <2>1, <2>2, <2>3, <2>4 DEF ENext
<1> QED BY <1>1, <1>2, BufferFacts, PTL DEF ESpec

\* Whatever the threads' order, kills and relaunches: the copy of the EPICS
\* data that an event gets holds, variable by variable, nothing older than
\* the last EPICS event before it, though evnt takes no lock.
THEOREM SharedDataIsSound == ESpec => []SharedDataSound
<1>1. BufInv /\ SInv => SharedDataSound
  <2> SUFFICES ASSUME BufInv, SInv PROVE CopyIsUpToDate
    BY DEF SharedDataSound, SInv
  <2>1. processed \subseteq Event BY DEF BufInv, TInv, TypeOK, LoopTypeOK
  <2>2. ~quitting => \A e \in processed \cap bank, k \in Keys : UpToDate(e, k, snap[e][k])
    BY <2>1 DEF SInv, CopiedInv, Copied
  <2> QED BY <2>2 DEF CopyIsUpToDate, UpToDate
<1> QED BY <1>1, BufferFacts, SharedData, PTL

\* No step of a program that is not quitting puts an older EPICS value in
\* place of a newer one.
THEOREM ValuesGoForward == ESpec => ValuesNeverGoBack
<1>1. BufInv /\ SInv /\ [ENext]_evars =>
         [~quitting => \A k \in Keys : m_values'[k] >= m_values[k]]_evars
  <2> SUFFICES ASSUME BufInv, SInv, ENext, ~quitting, NEW k \in Keys
               PROVE  m_values'[k] >= m_values[k]
    OBVIOUS
  <2>1. m_values[k] \in Int BY ConstantsAssumption DEF SInv, ETypeOK, Event
  <2>2. ASSUME NEW j \in Loops, NEW i \in Keys, WriteKey(j, i)
        PROVE  m_values'[k] >= m_values[k]
    BY <2>2, WriteForward
  <2>3. \/ m_values' = m_values
        \/ \E j \in Loops : \E i \in Keys : WriteKey(j, i)
    BY DEF ENext, Framework, EpicsStep, BeginEvnt, BeginCopy, CopyKey, FinishEvent,
       EEnded, epicsVars
  <2> QED BY <2>1, <2>2, <2>3
<1> QED BY <1>1, BufferFacts, SharedData, PTL DEF ESpec, ValuesNeverGoBack
=============================================================================
