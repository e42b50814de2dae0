# Verification of bdxReco

bdxReco is the reconstruction program of the BDX experiment.  It reads events
from a DAQ (EVIO files, an ET system or TRIDAS), reconstructs them in several
threads under the JANA framework (vendored in `src/src/external/jana_0.7.7p1`)
and writes ROOT trees.  This directory holds TLA+ models of the parts where
threads, run changes and shutdown meet, TLC configurations that check them on
small instances, and TLAPS proofs of what is true for every instance.  Below,
`JANA/` stands for `src/src/external/jana_0.7.7p1/src/JANA/` and `libraries/`
for `src/src/libraries/`.

## The system

| Component | State | Operations | Talks to | What is hard | What makes it correct |
|---|---|---|---|---|---|
| Reader and event buffer (`JANA/JApplication.cc`) | `event_buffer`, its mutex and condition variable, `event_buffer_filling`, `sequential_event_complete`, `stop_event_buffer` | `EventBufferThread`, `ReadEvent`, `NextEvent` | event sources, threads | full buffer, barrier events, the end of the data | order, no loss, no event twice, bound, the job ends |
| Processing threads (`JANA/JEventLoop.cc`) | `quit`, the `JEvent` | `Loop`, `OneEvent`, destructor | buffer, factories, processors | killed anywhere by the heartbeat timeout | every event is completely processed once |
| Main thread (`JApplication::Run`, `Fini`) | thread list, `Nstalled_threads`, `Nrelaunch_threads` | kill, relaunch, quit, delete sources, stop the reader | all of the above | kill and quit together, order of the shutdown | the loop is left, nobody uses what was deleted |
| EPICS data (`libraries/EPICS`) | one global `m_data` shared by all threads | `evnt`, `decode` | barrier events of the buffer | shared maps without a lock | an event sees the last EPICS event before it |
| Calibration (`libraries/system/BDXEventProcessor.cc`, `CalibrationHandler.h`, `JANA/JFactory.h`) | registry of handlers, per handler rows, constants, cache, a "loaded" mark | `addCalibration`, `updateCalibration`, `clearCalibration`, `fillCalib`, `getCalib` | factories of all threads, CCDB | threads at different runs, late registration, missing tables | constants of the event's run, one read for each table |
| Translation table (`libraries/TT`) | static map, mutex, flag | `ReadTranslationTable`, `StartElement`, `getChannelInfo` | factories of all threads | construction by several threads, lookups without a lock | a lookup finds a whole entry |
| Event processor and output (`BDXEventProcessor.cc`, `JROOTOutput.cc`) | trees, run times, the open file, calls made | `init`, `brun`, `evnt`, `erun`, `fini`, `OpenOutput`, `CloseOutput` | all threads through `OneEvent` | run change seen by threads at different times | each event in one row, each run closed once |
| Event sources (`libraries/DAQ/JEventSource*`, `libraries/MC/JEventSourceEVIOMC.cc`, their generators) | file, time slice or ET handle, current run, numbers of the events in progress | `CheckOpenable`, constructors, `GetEvent`, `FreeEvent` | reader, threads (which free events) | ends and errors half way, waiting for an ET system, memory | every event once and in order; books and resources balance |
| Simulation input (`libraries/MC`, `*DigiHit_factory_MC.cc`) | per event: banks, map of channels | `GetObjects`, `evnt` of four factories | source, hits | banks in different orders, several hits in a channel, six numberings | charges add up by channel |
| Waveforms (`*fa250Converter.cc`) | per hit: crossings; static pedestals | `convertHit` of four detectors | calibration, all threads through the pedestals | edges of the window, several pulses, shared pedestals | a hit describes one pulse of its channel |
| Hits and clusters (`Calorimeter`, `IntVeto`, `ExtVeto`) | per event | `evnt` of the factories | event builder | thresholds, coincidences, several sensors | one hit for each element, one cluster for each sector |
| Trigger words (`libraries/BDXmini`) | per event | decoding loops, accessors | event builder | two formats in one bank, signs, lengths | what was sent is what is found |
| Event builder (`libraries/EventBuilder`) | lists used again for every event | `evnt` of four `TEvent` factories | all of the above, output | lists used again, decisions spread over several lists | an event holds its own objects, all of them |
| Plugins and user analyses (`src/plugins`, `src/users`) | members, trees, histograms shared by all threads | `init`, `brun`, `evnt`, `erun`, `fini` | ROOT lock, output, all threads | locks on every path, unlocked members, who is first | no deadlock, no torn rows, everything saved |
| Main program (`src/programs/bdxReco`) | | registers generators, factories, the processor | | | |

## Modules

**EventBuffer** models the reader, the buffer, the processing threads and the
main thread.  Events are numbers in the order the sources deliver them; 0 is
the NULL pointer; `barrier` is the set of events whose source sets the
sequential flag (EPICS events, `JEventSourceEVIODAQ.cc`).  `rpc` is the place
of the reader in `EventBufferThread`, `lpc[l]` that of thread `l` in
`Loop`/`NextEvent`.  A locked section of the reader is one step; a thread takes
the mutex in one step and pops in the next, because the reader's last push does
not take the mutex and a thread can be killed with the mutex in its hands.
`Kill` is the heartbeat timeout, `Relaunch` the replacement of dead threads,
`Interrupt` Ctrl-C, `DeleteSources` and `StopReader` the two halves of `Fini`.
`undef` is set where C++ leaves the outcome undefined (the push without mutex
during a pop, a read from a deleted source, a NULL dereference in the skip
options); the model says nothing about what follows.  Left out: pause and
resume, the third Ctrl-C, changing the number of threads by remote control,
spurious wake-ups (they only make the reader look at the buffer once more).
The heartbeat itself is abstracted: any thread may be found stalled at any
time, as idle threads do not renew it either.  `Run` decides between killing
one thread and all by an event count sampled earlier in the same iteration; the
model takes the current count.

**EpicsData** extends EventBuffer with `epicsData_factory`: `BeginEvnt`,
`WriteKey` (one variable of `decode`), `BeginCopy`, `CopyKey`, `FinishEvent`.
The value of a variable is the event it came from, its time that event's number
plus corrections.  `bank` says which events have an `eventData` object: without
one `evnt` returns before it publishes anything (65-70).

**Calibration** models the registry and the handlers, driven by
`JFactory::Get` (`Get`, `Erun`, `Brun`, `Use`).  Constants are abstracted to
their run; a handler has one index and a cache for it.  `updateCalibration`
holds the ROOT lock and fills one handler after the other, of other threads
too; each is emptied (`EmptyHandler`), filled (`InsertRow`) and marked
(`EndFill`) in separate steps, between which `Use`, which takes no lock, can look
into it.  `filling` is the handler being filled, `raced` a history variable: the
handlers that were looked up meanwhile.  `Malformed` and `Missing` name tables
that `fillCalib` refuses or the data base lacks.  JANA's "event boundaries",
which bdxReco does not use, are left out, and so is the exception that GetCalib
of constants in files can throw inside `updateCalibration` (the one of CCDB
catches its own); the same exception is modelled in TranslationTable.

**TranslationTable** models the constructor called by every thread and the
lookups.  It shares with Calibration the constants of **Job** (threads, runs, a
bound on the events), and names that both would have begin with TT, as one proof
module is about both.  An entry holds the run that gave it its detector, the run that
gave it its index, and whether the fields of the index are set: `StartElement`
stores the pointer to a new index first (`SetIndex`) and fills its fields
afterwards (`SetFields`), while `getChannelInfo` copies the pointer without the
mutex.  `Throws` is the exception of `JCalibrationFile::GetCalib` (97), which ends
the thread with the mutex locked.

**RunOutput** models `OneEvent`'s calls of the one shared `BDXEventProcessor`
and of `JROOTOutput`.  Trees are sequences of events; ROOT's ownership (a tree
made while a file is open dies with the file, RECREATE empties a file) is
modelled from its use.  Options (simulation, DST, kind of output) and inputs
(which events are from the DAQ, which the builder accepts) are chosen in Init.
`overlap` is a history variable: events of two runs were in process together.

The two fills of an event are two locked sections, between which any other
thread may make any of its own fills; `BetweenFills` are the threads that have
made the first and not the second.

**EventDelivery** is what EventBuffer promises to its users, without buffer,
locks and threads: events are handed out in order and once, and while a barrier
event is in process nothing younger is handed out (older events may still be in
process beside it).  EventBuffer implements it
(`ImplementsDelivery`, with the events the threads hold for `held` and the
processed ones for `done`).

**EventSource** models the two generators, the constructors and `GetEvent` of
the four kinds of sources as `ReadEvent` drives them, and the threads that free
the events.  A source is what its name contains, whether it opens, and what it
holds.  `EtBegin`, `EtWait`, `EtGet`, `EtCheck` and `EtParse` are the steps of
`GetEvent` of an ET source between which Ctrl-C may come.  A "corrupt" item is one
at which the libraries below `GetEvent` throw: `ReadEvent` catches everything and
goes to the next source (`GetThrows`).  An ET event with a wrong word count is
copied in part and then decoded all the same: it is an item of whatever kind the
buffer then holds.  `trees` are the DOM
trees allocated, `kept` the ET events not given back.  `GetObjects` is left out:
it decodes banks and changes nothing in the source.

**Digitization** follows a simulated event from GEMC's banks to digi hits.  A
charge is the sequence of the hits and ADCs that were added up, so that one that
was added twice, left out or added to another channel can be seen.  An event is
a bank of digitized and a bank of raw hits for the crystals and for all other
counters.  `EventsAssumption` says what a simulation can write: numbers that are
different in the raw bank, and of each simulation the counters that it has,
numbered as the factories expect them ("from 1 to 13" of JLAB_FLUX, "there is NO
channel 2 in simulation" of the second prototype, sectors 402 and 400 or 502 and
500 of BDX-MINI).  Nothing is said about hits of other counters.

**Waveforms** models the four converters sample by sample.  Amplitudes are small
numbers, among them one that equals the threshold; a charge is the set of
samples summed, a time the samples it is interpolated from, a pedestal where it
was measured.  `reads` collects every index the code reads, `garbage` marks
a value computed from a variable never set.  The internal veto looks for its
pedestal at `NRMSCHECKS` places, whose beginnings mix `INTVETO:NPED`, in ns, with
samples (`CheckBegin`, `CheckReads`); `IntNPEDs` is the same length in samples,
different in each digitizer.  `OtherThread` is another thread at
the static pedestals.

**Hits** holds, as operators, the factories that make hits of digi hits and
clusters of hits.  A channel has sector, layer, component and readout, as the
tables have them: OV3 and IV3 of the BDX-MINI veto differ in their layer only.
Energies may be negative, since the pedestal is subtracted.  **TriggerWords** has the loops that decode the trigger words,
for words of `WordBits` bits (`Radix` values), which are kept as signed integers
(`AsInt`).  `Format` lays out in words what the DAQ sends, and `SentAssumption` is
what the format relies on: no pair of a trigger looks like the separator.  The
accessors' guards `ich > nChansMAX` let one index too many pass; the decoder only
uses 0 to 63, and they are left out.
**EventBuilder** composes them to the factories of
`TEvent`, with the lists they use again for every event, and with the calls of
`BDXEventProcessor::evnt`.  A builder gets trigger words and correlations first,
returns without them before it has touched any list, then sets the header and
fills its lists one after the other in the order of `Program`.

**PluginPrograms** gives for each of the 40 processors of `src/plugins` and
`src/users` the paths through its callbacks, as sequences of operations on what
is shared: the ROOT lock, members, rows, histograms, the output.  **Plugins**
runs one of them beside `BDXEventProcessor` in several threads, calling them as
`OneEvent` and `Fini` do.  `loop->Get` is no operation, but where a plugin
calls it under the ROOT lock: there the factory's own `RootWriteLock` fails and
its `RootUnLock` gives the plugin's lock away (`GetInLock`).  `.at()` of a vector
that is too short is a "throw", `geometry[...]`, which may insert into a shared
map, a use of a member.  The sets `Leaky` (a return or an exception with the
lock), `Losing` (`loop->Get` under it), `Unlocked`, `Mixed` (rows with fields of
another event), `Resetting` and
`Blind` name the plugins that do not keep to the discipline of the others;
`Discipline` says, path by path, what that is, and `Saving` what they keep to in
handing objects to the output.

The theorems are in **EventBuffer_proofs** (with the refinement of
EventDelivery, and with EpicsData, which is built on the buffer),
**Calibration_proofs** (with TranslationTable), **RunOutput_proofs**,
**EventSource_proofs**, **Plugins_proofs**, **Waveforms_proofs**,
**Digitization_proofs** and **EventBuilder_proofs** (with TriggerWords); the
`MC*` modules give constants their values.

Operators called `X_Something` in front of `X` are faulty variants of `X`, used
to see that the properties notice such faults.

## Runs

| Run | Instance | Distinct states | Shows |
|---|---|---|---|
| MCEventBuffer | 2 threads, 4 events, buffer 2, 2 kills, 1 relaunch, Ctrl-C | 1,436,516 | `DeliveredInOrder`, `ProcessedAtMostOnce`, `NothingLost`, `NobodyLeavesEarly`, `NothingOvertakesBarrier`, `UndefinedOnlyAtEnd`, `ImplementsDelivery` |
| MCJobCompletes | 2 threads, 4 events, buffer 1, skip 1, keep 2, fair | | `JobCompletes` |
| MCEpicsData | 2 threads, 3 events, 2 variables, 1 kill, 1 relaunch, Ctrl-C | 4,896,559 | `SharedDataSound` (`CopyIsUpToDate`), `ValuesNeverGoBack` |
| MCCalibration | 2 threads, 3 factories, 2 runs, 3 events | 5,392,043 | `HandlersSound` (`LoadedAgree`, `ConstantsAtHand`), `UsesConstantsOfItsRun`, `OneReadPerTable` |
| MCTranslationTable | 3 threads, 2 channels, failures, fair | 113,890 | `TableSound` (`OneParser`, `LookupFindsWholeEntry`, `SettledIsWhole`), `ConstructorReturns` |
| MCRunOutput | 2 threads, 5 events, 2 runs, all options | 1,447,477 | `OutputComplete` (`OneFileComplete`, `FileOfEachRun`), `RunInfoSound` (`BrunErunPaired`, `RunInfoSpansEvents`), `NoDeletedTreeFilled`, `FriendRowsNear` |
| MCPlugins | each plugin, 2 threads, 3 events of 2 runs, fair | 1,389,561 | `LockGivenBack`, `RaceFree`, `RowsOfOneEvent`, `AloneWithoutLock` (`ResetsAlone`, `OneUserOfList`), `OutputSaved` (`FilledIsSaved`, `NoGarbagePointer`), `JobEnds` |
| MCEventSource | 1 and 2 sources of every kind, events that cannot be read, Ctrl-C, fair | 213,639 | `DeliveredInOrder`, `SourcesReadOut` (`EachReadOut`, `AllSourcesOpened`), `RunOfItsSource`, `BooksBalance` (`InProgressExact`, `TreesAccounted`, `EtEventsGivenBack`), `QuitEndsReading` |
| MCDigitization | 6 simulations, 4 detectors, up to 3 hits in 2 channels | 38,776 | `MCHitsHaveTheirRawHit`, `DigiHitsExact` (`ChargesAddUp`, `NoHitWithoutDigi`, `DistinctChannels`) |
| MCCaloDigits | the same | | violation of `CaloChargesAddUp`: the calorimeter adds a further hit of a crystal to the digi hit used last |
| MCWaveforms | all waveforms of 6 samples, 4 detectors, 2 digitizers, other threads | 566,613 | `PulsesFound`, `ReadsInside`, `HitOfItsPulse` (`ChargeOfHighestPulse`, `TotOfOnePulse`, `SharedIfNear`), `PedestalSound` (`PedestalOfItsChannel`, `PedestalBeforePulse`) |
| MCEventBuilder | 4 builders, 2 events, up to 3 digi hits of a detector | 4,014,282 | `WordsDecoded`, `EventIsWhole`, `ImportantWaveformsKept` (`WaveformsDecided`, `ClustersWithinTotal`), `HitsSound` (`VetoHitsCoincident`, `ClustersPartitionHits`, `OneHitPerCrystal`, `ExtVetoHitsInTime`) |

Names in parentheses are the parts of a property that is a conjunction; one
conjunction of each module also holds its type invariant, but for EventBuffer,
whose type invariant and `BufferBounded` are proved.  MCPlugins also assumes
`Discipline` and `Saving` of the repository's plugins, which TLC evaluates.
Deadlock checking is off where a program may really stop: a thread killed with
`event_buffer_mutex` locked stops everyone else (MCEventBuffer, MCEpicsData), a
plugin of `Leaky` keeps the ROOT lock (MCPlugins), and a job is over
(MCEventSource).

**Bounds.**  Two threads are enough for every race that is a matter of one
thread against another, and the proofs cover any number.  Four events with a
buffer of two let the buffer fill, a barrier event arrive with events before
and after it, and a thread be replaced with events left.  Two kills are needed
for "relaunch, then too many relaunches".  Two runs let two threads be at
different runs and change back and forth; in MCPlugins a third event makes the
run change with an event of the old run left.  Two sources show what one leaves
to the next.  Three hits in two channels are the first case in which a channel
comes back after another.  Six samples hold two pulses with a gap, pulses at
both edges, and a window with a part before and after a pulse.  Two events show
what the first leaves to the second; three sensors, of which the first and the
last are not in coincidence, are the smallest case in which it matters from
which one coincidence is counted.  In EventBuilder an event varies one kind of
input over its whole set while the others are from `Few`: the factories of
different detectors do not share anything.  Its thresholds are apart (a cluster's
hit 10, its seed 20), so that there are sectors with hits and without a seed; its
channels have OV3 and IV3, and its pedestals make some energies negative.

**Fairness.**  The reader and the threads of EventBuffer are strongly fair: each
keeps asking for `event_buffer_mutex`, whose holders release it at once, and
idle threads sleep between attempts, so nobody is shut out for ever.
Relaunching and the two steps of the shutdown are weakly fair, as the main
thread polls.  Kills and Ctrl-C are not fair.  In TranslationTable the steps of
a constructor are weakly fair: a parser reaches the end of its input.  In
Plugins the steps of each thread are fair, as the scheduler lets every thread
run and a lock that is free again and again is obtained.  In EventSource the
reader's thread is weakly fair, and every event is freed in the end;
`et_event_get` returns after its timeout at the latest.

## What is proved

For any finite set of threads, any number of events, any buffer size of at
least one and any setting of the options (`ConstantsAssumption`,
`NobodyAssumption`):

* `TypeCorrect`: `Spec => []TypeOK`.  The invariant `TInv` adds that a thread
  in process holds an event, as `Finish` adds it to the processed ones.
* `BufferIsBounded`: `Spec => []BufferBounded`.  `RoomInv` says how full the
  buffer may be depending on where the reader is: it reads only with room.
* `EventsInOrder` and `EventsOnce`: `Spec => []DeliveredInOrder` and
  `Spec => []ProcessedAtMostOnce`, by the common invariant `DInv`: the buffer
  is sorted, what was taken is older than what is in it, the event the reader
  holds is the one read last and younger than all others (`OrderInv`), and
  NextEvent's local is NULL outside its own step (`MyInv`).  Order is what shows
  that a popped event is nobody else's.  `DInv` was checked with TLC on the
  instance of MCEventBuffer before it was proved.
* `NoEventLost`: `Spec => []NothingLost`.  `LossInv` adds that the event to skip
  to has yet to be read; that the reader's hands are empty when it reads the
  next event comes from `DInv`.

* `NoThreadLeavesEarly` and `UndefinedAtEnd`: `Spec => []NobodyLeavesEarly` and
  `Spec => []UndefinedOnlyAtEnd`, by `EInv`, which relates `event_buffer_filling`
  to the reader's place (`FillInv`), a thread's decision to leave to what the
  buffer held when it decided (`NullInv`, `LeaveInv`), and the flags of the
  shutdown to the threads that are left (`QuitInv`, `StallInv`, `EndInv`).  A
  thread that has seen the flag cleared looks into the buffer once more; that
  nothing can be pushed after that is what the invariant is for.
* `BarrierHolds`: `Spec => []NothingOvertakesBarrier`, by `BInv`: while a barrier
  event is in the buffer it is alone in it, and while a thread has one the reader
  waits with `sequential_event_complete` cleared (`SeqInv`, `WaitInv`, `LastInv`).
* `DeliveryImplemented`: `Spec => ImplementsDelivery`, by step simulation from
  `DInv` and `BInv`: taking an event is `Hand`, `Finish` is `Complete`, `Kill` and
  `QuitAll` are `Lose`, and every other step is a stutter.

For any plugins, any threads, events and runs whose paths keep to `Discipline`
(`PluginsDisciplined` in MCPlugins: those of the repository do):

* `LocksComeBack`, `NoRaces` and `RowsAreWhole`: `Spec => []LockGivenBack`,
  `[]RaceFree` and `[]RowsOfOneEvent`.  The invariant says that a thread holds
  the ROOT lock exactly where its path is between a lock and its unlock, and that
  after a "set" the members are those of the thread's event until the unlock.
  Each has the exceptions that its formula names: `Leaky` for the first,
  `Unlocked`, `Resetting` and `Losing` for the second, `Mixed` and `Losing` for the
  third; `Discipline` says that the paths of all other plugins are free of what
  these are named for.
* `NoLockNeeded`: `Spec => []AloneWithoutLock`.  `PInv` adds the order of the
  calls (`OrderInv`: brun and erun run under the processor's state mutex, `fini`
  after all threads are gone) and how a change of run meets events in process
  (`RunInv`).
* `OutputIsSaved`: `Spec => []OutputSaved`, with the further premise `Saving`
  (`PluginsSaving` in MCPlugins): `BDXEventProcessor` opens the file in brun and
  closes it in fini, and a plugin finds the output in its first brun, adds its
  objects there or in every erun, and fills nothing from erun on.  `SaveInv`
  follows the output through the job: the file is open from the first brun
  (`OpenInv`), the pointer is set by the plugin's first brun, which comes after
  (`FirstInv`), Fini calls erun whenever there was a brun (`RecordInv`,
  `WhereInv`), histograms made by an erun are added before another erun finds
  them made, since the state mutex is held between (`MadeInv`), and so the list
  is complete when the file is closed (`EndInv`).

EpicsData, for any variables and events in any of the above:

* `SharedDataIsSound` and `ValuesGoForward`: `ESpec => []SharedDataSound` and
  `ESpec => ValuesNeverGoBack`, on top of the invariants of the event buffer.
  `DoneInv` says that of the barrier events read only the last may be
  unprocessed, `WrittenInv` that a processed EPICS event has left nothing older
  in its variables, `CopiedInv` carries that to the copies, `ValueInv` keeps
  values from the future out.  The proof needs `NotSkipped`: an EPICS event that
  `EVENTS_TO_SKIP` or `SKIP_TO_EVENT` throws away is never decoded, so that the
  property speaks of those that are delivered.

Calibration, for any threads, factories, tables, events and a finite set of runs:

* `HandlersAreSound`, `ConstantsOfTheRun` and `TableReadOnce`, by `CalInv`, which
  says what a mark (`m_hasLoadedCurrentRun`) is worth: only registered handlers
  are marked, a marked handler of a sound table has constants of a run of the job
  (`MarkInv`, `SoundInv`), one whose factory has had `brun` keeps some unless it is
  just being filled (`ThreadInv`, `BrunInv`), the one thread that fills has only
  handlers without a mark before it and gives all the same rows (`FillInv`), and
  with one run no mark is taken away while every thread is there (`ReadInv`).  A
  marked handler is not filled and one in use is marked: this is why, in a job of
  one run, no lookup meets a half-filled map until a thread has left.

TranslationTable, for any threads and channels and a finite set of runs:

* `TableIsSound`: `TTSpec => []TableSound`, by `TTInv`: the one thread inside
  `ReadTranslationTable` holds the mutex, it has left whole entries behind it
  (`ParseInv`), and whoever has the flag or is about to set it has a whole table,
  which a second parse keeps whole (`BuiltInv`), but for the one entry whose
  pointer is new and whose fields are not set yet (`HalfSet`): a lookup can meet
  that one, and the property says so.

RunOutput, for any threads, events and run numbers, by the invariant `ROInv`:

* `OutputIsComplete` (`RowsInv`, `HeaderInv`, `PerRunInv`): with a file for each
  run the property has the hypothesis `RunsContiguous`, since a run that comes
  back opens its file with RECREATE; TLC's instance could not show that.
* `RunInfoIsSound` (`CallInv`: under the state mutex brun and erun alternate).
* `DeletedTreeUntouched` (`OverlapInv`: who ends a run has an event of another).
* `FriendsAreNear` (`FriendInv`: the header tree lacks exactly the rows of the
  threads that are between their two fills).  EventHeader is a friend of EventDST
  by row number; the theorem says that the header of an event is ahead of its row
  by less than the number of threads, whoever fills in between.  It is
  about the first EventDST tree: every brun makes another one, beside the rows that
  EventHeader already has, and there no correspondence is left.

EventSource, for any command line, any contents of the sources and failures at
any call (`SourceAssumption`), by the invariant `SrcInv`:

* `SourceEventsInOrder` and `SourcesAreReadOut` (`ReadInv`: what was delivered of
  a source is a prefix of what it holds up to the reader's place).  A file or
  TRIDAS source that was left has delivered what comes before the first item whose
  reading throws (`CanBeRead`), which is everything when none does;
* `RunsAreThoseOfTheSource` (`RunsInv`: the run kept is that of the last item
  which named one, in the source that is open);
* `BooksAreBalanced` (`BookInv`, `CallInv`, `TreesInv`, `KeptInv`: every id, tree
  and ET event has one owner, which changes only where the code hands it over).
  The proof sorts the steps by what they do to the books (a call begins, it
  brings an event or not, an event is freed, a source is left) and shows each
  kind once.

Waveforms, for waveforms of any length and amplitude, any thresholds and ranges
of integration and any number of other threads (`WaveformAssumption`: lengths
and thresholds are natural numbers and the pedestals' samples are within the
waveform):

* `PulsesAreFound`: `Spec => []PulsesFound`.  `FoundInv` is the invariant of the
  loop: the crossings found so far are the pulses that have ended before sample
  `ii`, and `first` is the beginning of the one that has not.  `CrossInv` is what
  holds also of waveforms with samples that equal the threshold: crossings follow
  each other, begin above the threshold, and only the last one, if it is cut by
  the end of the window, may have no beginning.
* `PedestalIsSound`: `Spec => []PedestalSound`.  `PedInv` says that every variable
  keeps a pedestal of its own channel, whichever thread wrote it.  This takes
  `SlotAssumption`, that no two channels of the external veto share a place in
  `Vpedestal_backup`, which holds of tt.FirstProto.xml and tt.SecondProto.xml:
  readout 2 of component 6 is kept at the place of component 7, and there is none.
* `ReadsAreInside`: `Spec => []ReadsInside`, from `CrossInv` and lemmas on the
  ranges that each converter looks at (`PheRangeInside`, `CFReadsInside`,
  `CheckReadsInside`).  The property names the cases in which a read is outside:
  pulses of the calorimeter or of a paddle at the edge of the window, and the search of the
  internal veto for its pedestal in a short window.
* `HitsAreOfTheirPulses`: `Spec => []HitOfItsPulse`.  `ChargeIsOfHighestPulse` is
  about charge and amplitude of the internal veto.  `TotIsOfOnePulse` shows that
  its time over threshold is that of one interval over TOTTHR, the last one, as
  between the last rise and the last fall there is no other fall; it need not be
  the pulse of the charge.  `PheRangesShared` shows that two photoelectrons of the
  calorimeter share samples exactly if their maxima are at most NSB + NSA apart.

The maximum that `getMaximum` finds exists by `HighestExists`, which is proved
from the least-number principle (`LeastExists`, from the library's `WFMin`): the
shortest beginning of a range without a greatest value would have one more
element than a beginning that has it.

EventBuilder, for any number of events and any inputs (`EventBuilderAssumption`):

* `EventsAreWhole`: `Spec => []EventIsWhole`, by `BInv`: a list the event points to
  was filled at an earlier step of the builder's program, after the header with the
  event's number, which names no list
  twice (`ProgramTypes`), from objects whose factory has been called (`Ready`); a
  factory is called once in an event, so that a list keeps what it was filled
  with.  What the factories make of their digi hits plays no part in it.
* `WordsAreDecoded`: `Spec => []WordsDecoded`, for words of any width and any
  number of pairs, blocks and words left over (`TriggerWordsAssumption`,
  `SentAssumption`).  Times are claimed of words with the separator only: without
  it the code takes blocks for pairs, and the theorem says that no channel is set.  `WordsInv` is the invariant of
  the two loops: the words are the format of what was sent, the times of a
  trigger are those of the pairs before `ii` with its bit, in order, and the
  channels those of the blocks before `jj`.  That the first loop stops at the
  separator and nowhere else, and that without it no block is left for the second
  one, is where `SentAssumption` enters.
* `WaveformsAreDecided`: `Spec => []WaveformsDecided`, by `WaveInv`: the list of the
  waveforms is the last of a real BDX-MINI event, so that the flags collected
  while the others were filled say at the end of the event what they said when
  the decision was taken.  `WaveformsDecided` is an equivalence over the hits and
  the correlations of the event, in which the hits of component 3 of the veto, OV3
  and IV3, do not count (`Skipped`), and it says that nothing of an earlier event
  is left in the list.
* `TypeCorrect`: `Spec => []TypeOK`, by `KindInv` (a list that is used again holds
  entries of events already read), `WordsInv` and `OffInv` (nothing is left of
  the words of an earlier event).

Digitization, for any events that a simulation can write (`EventsAssumption`):

* `MCHitsAreJoined`: `Spec => []MCHitsHaveTheirRawHit`, by `ReadInv`, the invariant
  of the loop of GetObjects: the MC hits so far are, in order, the hits before
  `ih` whose raw hit shows energy, whatever the order of the raw bank.
* `DigiHitsAreExact`: `Spec => []DigiHitsExact`, by `DigiInv`.  `KeyIsChannel` shows
  for each simulation and detector that the key under which the factory looks for
  a digi hit stands for one channel of the simulation, and `DistinctSensors` that
  the digi hits made for different keys have different channels of the
  reconstruction.  `Exactly` is the invariant of the loop: the charge of each digi
  hit enumerates the hits of its channel before `ih`, all with the same ADC.  For
  the calorimeter it has to say in addition that the digi hit used last is that
  of the last hit, which `NoReturn` ensures.

Only model-checked:

* liveness: `JobCompletes`, `JobEnds`, `ConstructorReturns`, `QuitEndsReading`
  (out of the prover's reach, as is ENABLED);
* of EventBuilder, `HitsSound` but for the types, and the second part of
  `ImportantWaveformsKept` (`ClustersWithinTotal`).  They say what the
  operators of Hits compute: folds over the sensors, selections, and the
  concatenation of one list for each element in an order chosen for the set of
  elements.  What these are for every input takes an induction over the data,
  and the library's theorems for it have operators as parameters, which the
  provers cannot instantiate.

## What else the models show

* A barrier event can be processed in parallel with an event popped before it,
  although JEvent.h:72 says otherwise: the reader waits for an empty buffer and
  not for idle threads.  The consequence is a copy of the EPICS maps while they
  are written (`epicsData_factory.cc:79` says "This is thread-save, we just read
  from it"); by `NothingOvertakesBarrier` only events from before can do so,
  and for the same reason one thread at a time writes.
* The reader's last push is made without `event_buffer_mutex` when there is no
  last event: braces are missing at `JApplication.cc:716`.  After Ctrl-C `Fini`
  deletes the sources before it stops the reader (1874, 1881).  And a kill
  followed by Ctrl-C leaves `Run` in its loop for ever, since `Nstalled_threads`
  is only counted down when threads are relaunched (1760).
* `getCalib`'s cache is never emptied (`CalibrationHandler.h:132`): with two runs
  one thread is enough to process an event with the constants of the first.
* Between the unlock and the assignment of the flag in `ReadTranslationTable`
  (lines 179-180) another thread can enter and parse the table again.  In a job
  with one run this rewrites entries with the values they have;
  `LookupFindsWholeEntry` holds.  The table of the first run serves all runs.
* `fillCalib` empties `m_calib` and fills it again without telling `getCalib`
  (`CalibrationHandler.h:92`, `CalorimeterHit_factory.cc:126`): with two runs, or
  when a thread has left, an event can be processed while its map is empty.
  Likewise a second parse of the translation table exposes, between the
  pointer and the fields of an entry, an index whose fields are not set
  (`TranslationTable.cc:353-384`).  And a GetCalib that throws there leaves the
  mutex locked for everybody (121).
* Handlers are marked as loaded without a run number, so that threads at
  different runs take over each other's constants; and factories that do not
  clear their handlers in `erun` (`epicsData_factory`, the thresholds of
  `Calorimeterfa250Converter`, DAQ/parms, the SiPM amplitudes) keep those of the
  first run.  `UsesConstantsOfItsRun` therefore holds for one run only.
* Around a change of run two threads make the shared processor go from one run
  to the other and back; with one file for each run the file is then recreated,
  and a thread can fill a tree that was deleted with its file.  This is why
  `NoDeletedTreeFilled` and `FileOfEachRun` speak of `overlap`.
* `startTime` and `stopTime` are never reset, so that RunInfo spans the job.
* The EPICS time correction is added twice.
* Sources: any exception of `GetEvent` ends the source without a word
  (`JApplication.cc:746-751`), with all the events after it.  An exception of a constructor is caught by nobody in the reader's
  thread, so that a second file that cannot be opened ends the program.
  `done_reading` is never set, and the id of a source's last call stays in
  `in_progess_events`.  An event with an error and the one that ends a run are not
  given back to the ET system or leak their tree.  Empty TRIDAS time slices after
  the first make the code dereference an end.  EPICS events before a file's
  first header have run 0.  `DAQ:RUN_NUMBER` is not for TRIDAS.
* Waveforms: a sample that equals the threshold hides the edge of a pulse
  (`Calorimeterfa250Converter.cc:140`).  A calorimeter pulse that begins with
  sample 0 reads sample -1 and one that begins with sample 1 gets a time from
  values never set (202-208).  `prev_xmin` stays 0 (254, 265), so that samples near to two photoelectrons are summed twice.  The internal
  veto compares ns with samples in the search for its pedestal
  (`IntVetofa250Converter.cc:69`) and looks before the samples (73)
  when the window is short; its time over threshold may be that of a
  pulse that was rejected (127-140), and its time is that of the global
  maximum, not of the pulse chosen (210).  The static pedestals are kept over run
  changes.
* Hits: the branch of `CalorimeterHit_factory` for several readouts cannot be
  reached (98).  The decoding of trigger words takes a genuine pair of MAGIC words
  for the separator, and without a separator it takes blocks for pairs
  (`triggerDataBDXmini_factory.cc:80-92`).  A hit of the external veto with negative time is leaked.
* Event builder: an event without waveforms has no correlations, therefore no
  `TEvent` and no row in either tree; the early returns (225, 234, 243) leak the
  event.  The comment on the waveforms kept (42-50) does not name the correlations
  (305).  `TEvent_factory_BDXmini.cc:290-292` skips component 3 of sector 0 in both
  layers, where its comment says "ignore OV3": IV3 (`tt.BDXmini.xml:25`) is skipped
  as well, while `BDXMiniVetoCalibrationHit_factory.cc:104` and
  `JEventProcessor_BDXMiniIntVeto.cc:255` test layer 0 too.  Hits of negative energy
  can hide a cluster over `thrEneTot`.
* Plugins: `IntVetoSipm`, `BDXMiniStability`, `BDXMiniSlowControls`, `MCtest` and
  `MCtest2` have a path that returns with the ROOT lock, and `.at()` can throw with
  it in `MCtest_e` and `Paddles_test`.  `Paddles_basic_track` and `Paddles_test` call
  `loop->Get` under the lock, of which `Paddles_basic_track.cc:151-155` itself warns,
  and can lose it.  Fourteen plugins assign, fill or insert outside of the lock
  (`geometry[...]` of `BDXMiniCrystals` and `BDXMiniIntVeto` among them), ten fill rows
  in which a field can be of an earlier event (`eventN` of `Paddles_test`, which is
  only set in a loop); five add objects through a pointer they did not test or set.
  In ET mode the file is closed before the plugins add what they make in `erun`.

## Plan

What could be added:

1. The parsing loops of `epicsData::decode` and `fillCalib`.
2. The factories of Hits as loops, one step for each digi hit, as Digitization has
   them: then `HitsSound` has an inductive invariant and can be proved.

## Not modelled

* Arithmetic on samples (`fa250Mode1CalibPedSubHit`, its FFT, the correlations)
  and energies: floating point.  The models keep which samples and which hits
  enter a sum.
* `libraries/MC/options.cc` and the tables of bank names: parsing of GEMC's
  configuration, with no state of the reconstruction.
* `users/andrea/janaview`: an interactive viewer; its state is that of its
  windows, and it changes nothing of the reconstruction.
* `CataniaEvent_factory`, of the first prototype, and factories that copy one
  object to another of the same values.
* What plugins plot; external libraries, but for the part of JANA above.
