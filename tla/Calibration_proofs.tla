------------------------ MODULE Calibration_proofs ------------------------
(***************************************************************************)
(* Theorems: handlers of one table agree and constants are at hand         *)
(* wherever they are used, but in the middle of a fill by another thread;  *)
(* in a job with one run every event is processed with the constants of    *)
(* that run, no lookup meets a fill until a thread leaves, and a table is  *)
(* read from the data base once; for any number of threads, factories,     *)
(* tables, runs and events.  At the end the same for the translation       *)
(* table: it is built by one thread at a time, and a lookup that finds an  *)
(* entry half made has another thread parsing beside it.                   *)
(*                                                                         *)
(* The argument for the constants turns on what a mark                     *)
(* (m_hasLoadedCurrentRun) is worth.                                       *)
(* Only registered handlers are marked, and a marked handler of a sound    *)
(* table holds constants of a run of the job.  Marks come and go as        *)
(* threads clear and reload a table; a handler that has once had brun      *)
(* keeps constants of some run, except while it is being filled, for       *)
(* fillCalib is only given the rows of runs of the job.  With one run,     *)
(* brun's run is never another, so that no erun is due before a thread     *)
(* leaves and no mark is ever taken away; a handler in use is marked, and  *)
(* a marked one is not filled.                                             *)
(***************************************************************************)
EXTENDS Calibration, TranslationTable, FiniteSetTheorems, TLAPS

\* A thread with an event has one of a run of the job, and the handler of the
\* factory it is in is registered.
ThreadInv ==
    \A t \in Threads :
        /\ pc[t] \in {"event", "erun", "brun", "fill", "use"} => run[t] \in runs
        /\ pc[t] \in {"erun", "brun", "fill"} => <<t, fac[t]>> \in reg
        /\ pc[t] = "fill" => ~life[<<t, fac[t]>>].brun
        /\ pc[t] = "use" => life[<<t, fac[t]>>].evnt

\* What a mark is worth: only registered handlers have one.
MarkInv == \A h \in Handlers : loaded[h] => h \in reg

\* Constants of a sound table: a marked handler has them, so has one whose
\* factory has had brun, unless it is being filled; what is cached and used
\* was one of them, unless it was looked up in the middle of a fill.
SoundInv ==
    \A h \in Handlers : Sound(h[2]) =>
        /\ loaded[h] => raw[h] \in runs /\ calib[h] \in runs
        /\ life[h].brun \/ life[h].evnt => calib[h] \in runs \/ h \in filling
        /\ h \notin raced =>
              /\ cached[h] \in runs \cup {0}
              /\ \/ used[h] = <<0, 0>>
                 \/ used[h][1] \in runs /\ used[h][2] \in runs

\* The run that a factory remembers is one of the job.
BrunInv == \A h \in Handlers : life[h].brun => life[h].brunRun \in runs

\* The one thread inside updateCalibration has only handlers of its table to
\* fill that have no mark; the others have one, and rows like its own.
Filling(t) ==
    LET all == SameTable(<<t, fac[t]>>) IN
    /\ \A u \in Threads : pc[u] = "fill" => u = t
    /\ \A k \in all : loaded[k] \/ k \in unfilled
    /\ \A k \in unfilled : k \in all /\ ~loaded[k]
    /\ \A k \in filling : raw[k] = rows /\ \A g \in filling : g = k
    /\ Sound(fac[t]) => rows \in runs
    /\ fac[t] \notin RunKind => \A k \in all : loaded[k] => raw[k] = rows

FillInv ==
    /\ RootLockFree => unfilled = {}
    /\ \A t \in Threads : pc[t] = "fill" => Filling(t)

OneRun == \A r, s \in runs : r = s

\* With one run and until a thread leaves: a table that was read has a marked
\* handler or is about to have one, so that from then on it is copied and not
\* read; a factory that has had brun has its handler marked.
ReadInv ==
    OneRun /\ NoneLeft =>
        /\ \A b \in Tables :
              /\ dbReads[b] <= 1
              /\ dbReads[b] = 1 =>
                    \/ \E h \in reg : loaded[h] /\ Table[h[2]] = b
                    \/ \E t \in Threads : pc[t] = "fill" /\ Table[fac[t]] = b
        /\ \A h \in Handlers : life[h].brun \/ life[h].evnt => loaded[h]
        /\ raced = {}

CalInv ==
    TypeOK /\ ThreadInv /\ MarkInv /\ LoadedAgree /\ SoundInv /\ BrunInv /\ FillInv /\ ReadInv

-----------------------------------------------------------------------------
(***************************************************************************)
(* The records of the calls.                                               *)
(***************************************************************************)

\* 0 stands for no run.
LEMMA ZeroIsNoRun == TypeOK => 0 \notin runs
BY JobAssumption DEF TypeOK

\* JFactory's record of the calls made.
LifeRec == [brun : BOOLEAN, erun : BOOLEAN, brunRun : Runs \cup {0}, evnt : BOOLEAN]

\* What a change of one field of the record leaves alone.
LEMMA LifeUpdates ==
    ASSUME NEW l \in LifeRec, NEW b \in BOOLEAN
    PROVE  /\ [l EXCEPT !.evnt = b] \in LifeRec
           /\ [l EXCEPT !.evnt = b].brun = l.brun
           /\ [l EXCEPT !.evnt = b].brunRun = l.brunRun
           /\ [l EXCEPT !.evnt = b].evnt = b
           /\ [l EXCEPT !.brun = b] \in LifeRec
           /\ [l EXCEPT !.brun = b].brun = b
           /\ [l EXCEPT !.brun = b].brunRun = l.brunRun
           /\ [l EXCEPT !.brun = b].evnt = l.evnt
BY DEF LifeRec

\* The same, in the array of all records.
LEMMA LifeType == TypeOK => life \in [Handlers -> LifeRec]
BY DEF TypeOK, LifeRec

\* erun changes marks and the factory's record of the calls.
LEMMA ErunLife ==
    ASSUME TypeOK, NEW t \in Threads, Erun(t)
    PROVE  /\ life' \in [Handlers -> LifeRec]
           /\ \A k \in Handlers : /\ life'[k].brun => life[k].brun
                                  /\ life'[k].brunRun = life[k].brunRun
                                  /\ life'[k].evnt = life[k].evnt
<1> DEFINE h == <<t, fac[t]>>
           e == life[h].erun
                  \/ (run[t] # life[h].brunRun /\ life[h].brun /\ ~life[h].erun)
           b == life[h].brun /\ ~(run[t] # life[h].brunRun)
           l == [life[h] EXCEPT !.erun = e, !.brun = b]
<1>1. h \in Handlers /\ life \in [Handlers -> LifeRec] /\ life[h] \in LifeRec
  BY LifeType DEF TypeOK, Handlers
<1>2. life' = [life EXCEPT ![h] = l] BY DEF Erun
<1>4. e \in BOOLEAN /\ b \in BOOLEAN /\ (b => life[h].brun) BY <1>1 DEF LifeRec
<1> HIDE DEF e, b
<1>5. l \in LifeRec /\ l.brunRun = life[h].brunRun /\ l.evnt = life[h].evnt /\ l.brun = b
  <2>1. PICK m \in LifeRec : m = life[h] BY <1>1
  <2> DEFINE n == [m EXCEPT !.erun = e, !.brun = b]
  <2>2. n \in LifeRec /\ n.brunRun = m.brunRun /\ n.evnt = m.evnt /\ n.brun = b
    BY <1>4 DEF LifeRec
  <2>3. l = n BY ONLY <2>1, Zenon
  <2> QED BY ONLY <2>1, <2>2, <2>3, Zenon
<1> HIDE DEF l
<1> QED BY <1>1, <1>2, <1>4, <1>5

\* brun leaves the run of the event and the call of evnt in its own record.
LEMMA BrunLife ==
    ASSUME TypeOK, NEW t \in Threads,
           \/ life[<<t, fac[t]>>].brun /\ life' = [life EXCEPT ![<<t, fac[t]>>].evnt = TRUE]
           \/ ~life[<<t, fac[t]>>].brun /\ AfterBrun(t)
    PROVE  LET h == <<t, fac[t]>> IN
           /\ life' \in [Handlers -> LifeRec]
           /\ life'[h].evnt
           /\ life[h].brun => life'[h].brunRun = life[h].brunRun
           /\ ~life[h].brun => life'[h].brunRun = run[t]
           /\ \A k \in Handlers : k # h => life'[k] = life[k]
<1> DEFINE h == <<t, fac[t]>>
           l == [life[h] EXCEPT !.evnt = TRUE]
           m == [life[h] EXCEPT !.brun = TRUE, !.erun = FALSE,
                                !.brunRun = run[t], !.evnt = TRUE]
<1>1. h \in Handlers /\ life \in [Handlers -> LifeRec] /\ life[h] \in LifeRec
      /\ run[t] \in Runs \cup {0}
  BY LifeType DEF TypeOK, Handlers
<1>2. \/ life[h].brun /\ life' = [life EXCEPT ![h] = l]
      \/ ~life[h].brun /\ life' = [life EXCEPT ![h] = m]
  BY DEF AfterBrun
<1>3. \A n \in LifeRec, r \in Runs \cup {0} :
         LET p == [n EXCEPT !.evnt = TRUE]
             q == [n EXCEPT !.brun = TRUE, !.erun = FALSE, !.brunRun = r, !.evnt = TRUE]
         IN  /\ p \in LifeRec /\ p.evnt /\ p.brunRun = n.brunRun
             /\ q \in LifeRec /\ q.evnt /\ q.brunRun = r
  BY DEF LifeRec
<1>4. /\ l \in LifeRec /\ l.evnt /\ l.brunRun = life[h].brunRun
      /\ m \in LifeRec /\ m.evnt /\ m.brunRun = run[t]
  BY ONLY <1>1, <1>3, Zenon
<1> HIDE DEF l, m
<1> QED BY <1>1, <1>2, <1>4

-----------------------------------------------------------------------------
(***************************************************************************)
(* The invariant.                                                          *)
(***************************************************************************)

\* Nothing is registered and nothing loaded at first.
LEMMA InitCalInv == Init => CalInv
<1> SUFFICES ASSUME Init PROVE CalInv OBVIOUS
<1> USE CalibrationAssumption, JobAssumption DEF Init
<1>1. TypeOK
  <2>1. life \in [Handlers -> [brun : BOOLEAN, erun : BOOLEAN,
                               brunRun : Runs \cup {0}, evnt : BOOLEAN]]
    BY DEF NewFactory
  <2>2. used \in [Handlers -> (Runs \cup {0}) \X (Runs \cup {0, Torn})] OBVIOUS
  <2>3. taken \in 0..MaxEvents OBVIOUS
  <2>4. pc \in [Threads -> PC] BY DEF PC
  <2> QED BY <2>1, <2>2, <2>3, <2>4 DEF TypeOK
<1>2. ThreadInv /\ MarkInv /\ LoadedAgree /\ SoundInv /\ BrunInv
  BY DEF ThreadInv, MarkInv, LoadedAgree, SoundInv, BrunInv, NewFactory
<1>3. ReadInv BY DEF ReadInv, NewFactory
<1>4. FillInv BY DEF FillInv
<1> QED BY <1>1, <1>2, <1>3, <1>4 DEF CalInv

\* A step that leaves the registry alone, and the threads inside
\* updateCalibration where they are, disturbs no fill.
LEMMA FillKept ==
    ASSUME FillInv,
           UNCHANGED <<runs, reg, loaded, raw, unfilled, rows, filling>>,
           \A u \in Threads : /\ pc'[u] = "fill" <=> pc[u] = "fill"
                              /\ pc[u] = "fill" => fac'[u] = fac[u]
    PROVE  FillInv'
BY DEF FillInv, Filling, RootLockFree, SameTable, Sound

\* A step that only takes marks away, calls no brun and fills nothing keeps
\* what the handlers hold.
LEMMA ClearingKeeps ==
    ASSUME CalInv,
           life' \in [Handlers -> LifeRec],
           \A k \in Handlers : /\ life'[k].brun => life[k].brun
                               /\ life'[k].brunRun = life[k].brunRun
                               /\ life'[k].evnt => life[k].evnt
                               /\ loaded'[k] => loaded[k],
           UNCHANGED <<runs, reg, raw, calib, cached, used, raced, filling>>
    PROVE  MarkInv' /\ LoadedAgree' /\ SoundInv' /\ BrunInv'
<1> USE DEF CalInv
<1>1. MarkInv' BY DEF MarkInv
<1>2. LoadedAgree' BY DEF LoadedAgree, TypeOK
<1>3. SoundInv'
  <2> SUFFICES ASSUME NEW h \in Handlers, Sound(h[2]) PROVE SoundInv!(h)!2'
    BY DEF SoundInv, Sound
  <2> QED BY DEF SoundInv
<1>4. BrunInv' BY DEF BrunInv
<1> QED BY <1>1, <1>2, <1>3, <1>4

\* clearCalibration only takes marks away.
LEMMA ClearTypes ==
    ASSUME TypeOK, NEW h, ClearCalibration(h)
    PROVE  /\ loaded' \in [Handlers -> BOOLEAN]
           /\ \A k \in Handlers : loaded'[k] => loaded[k]
BY DEF ClearCalibration, TypeOK

\* Taking an event.
LEMMA TakeEventCalInv ==
    ASSUME CalInv, NEW t \in Threads, TakeEvent(t) PROVE CalInv'
<1> USE CalibrationAssumption, JobAssumption DEF CalInv, TakeEvent, regVars
<1>1. PICK r \in runs : run' = [run EXCEPT ![t] = r] OBVIOUS
<1>2. life' \in [Handlers -> LifeRec]
  <2> SUFFICES ASSUME NEW h \in Handlers
               PROVE  life[h] \in LifeRec /\ [life[h] EXCEPT !.evnt = FALSE] \in LifeRec
    OBVIOUS
  <2>1. life[h] \in LifeRec BY LifeType
  <2> QED BY <2>1, LifeUpdates
<1>3. TypeOK'
  <2>2. run' \in [Threads -> Runs \cup {0}] BY <1>1 DEF TypeOK
  <2>3. pc' \in [Threads -> PC] BY DEF TypeOK, PC
  <2>4. taken' \in 0..MaxEvents BY DEF TypeOK
  <2> QED BY <1>2, <2>2, <2>3, <2>4 DEF TypeOK, LifeRec
<1>4. \A h \in Handlers : /\ life'[h].brun = life[h].brun
                          /\ life'[h].brunRun = life[h].brunRun
                          /\ life'[h].evnt => life[h].evnt
                          /\ h[1] # t => life'[h] = life[h]
  BY DEF TypeOK
<1>5. ThreadInv'
  <2> SUFFICES ASSUME NEW u \in Threads PROVE ThreadInv!(u)' BY DEF ThreadInv
  <2>1. CASE u = t BY <2>1, <1>1 DEF ThreadInv, TypeOK
  <2>2. CASE u # t BY <2>2, <1>1, <1>4 DEF ThreadInv, TypeOK, Handlers
  <2> QED BY <2>1, <2>2
<1>6. MarkInv' /\ LoadedAgree' /\ SoundInv' /\ BrunInv' BY <1>2, <1>4, ClearingKeeps
<1>7. FillInv' BY FillKept DEF TypeOK
<1>8. ReadInv'
  <2>1. NoneLeft' => NoneLeft BY DEF NoneLeft, TypeOK
  <2>2. \A u \in Threads : pc[u] = "fill" => pc'[u] = "fill" BY DEF TypeOK
  <2> QED BY <1>4, <2>1, <2>2 DEF ReadInv, OneRun
<1> QED BY <1>3, <1>5, <1>6, <1>7, <1>8

\* Asking for the data of a factory: init registers a handler without a mark.
LEMMA GetCalInv ==
    ASSUME CalInv, NEW t \in Threads, NEW f \in Factories, Get(t, f) PROVE CalInv'
<1> USE CalibrationAssumption, JobAssumption DEF CalInv, Get
<1>1. <<t, f>> \in Handlers BY DEF Handlers
<1>2. reg \subseteq reg' /\ reg' \subseteq reg \cup {<<t, f>>} OBVIOUS
<1>3. TypeOK'
  <2>1. fac' \in [Threads -> Factories] /\ reg' \in SUBSET Handlers
    BY <1>1 DEF TypeOK
  <2>2. pc' \in [Threads -> PC] BY DEF TypeOK, PC
  <2> QED BY <2>1, <2>2 DEF TypeOK
<1>4. ThreadInv'
  <2> SUFFICES ASSUME NEW u \in Threads PROVE ThreadInv!(u)' BY DEF ThreadInv
  <2>1. CASE u = t
    <3>1. run'[t] \in runs' BY DEF ThreadInv
    <3>2. fac'[t] = f BY DEF TypeOK
    <3>3. CASE life[<<t, f>>].evnt /\ pc' = [pc EXCEPT ![t] = "use"]
      <4>1. pc'[t] = "use" /\ life'[<<t, f>>].evnt BY <3>3, <1>1 DEF TypeOK
      <4> QED BY <2>1, <3>1, <3>2, <4>1
    <3>4. CASE <<t, f>> \in reg' /\ pc' = [pc EXCEPT ![t] = "erun"]
      <4>1. pc'[t] = "erun" BY <3>4 DEF TypeOK
      <4> QED BY <2>1, <3>1, <3>2, <3>4, <4>1
    <3> QED BY <3>3, <3>4
  <2>2. CASE u # t
    <3>1. pc'[u] = pc[u] /\ fac'[u] = fac[u] BY <2>2 DEF TypeOK
    <3> QED BY <3>1, <1>2 DEF ThreadInv
  <2> QED BY <2>1, <2>2
<1>5. MarkInv' BY <1>2 DEF MarkInv
<1>6. LoadedAgree'
  <2> SUFFICES ASSUME NEW g, g \in reg', NEW h, h \in reg', loaded[g], loaded[h],
                      Table[g[2]] = Table[h[2]], g[2] \notin RunKind
               PROVE  raw[g] = raw[h]
    BY DEF LoadedAgree
  <2>a. reg \subseteq Handlers /\ \A k \in Handlers : loaded[k] => k \in reg
    BY DEF MarkInv, TypeOK
  <2>b. g \in Handlers /\ h \in Handlers /\ loaded[g] /\ loaded[h]
    <3>1. g \in reg \cup {<<t, f>>} /\ h \in reg \cup {<<t, f>>} BY <1>2
    <3>2. loaded[g] /\ loaded[h] OBVIOUS
    <3> QED BY ONLY <1>1, <2>a, <3>1, <3>2
  <2>1. g \in reg /\ h \in reg BY ONLY <2>a, <2>b
  <2> QED BY <2>1 DEF LoadedAgree
<1>7. SoundInv' BY DEF SoundInv, Sound
<1>8. BrunInv' BY DEF BrunInv
<1>9. \A u \in Threads : /\ pc'[u] = "fill" <=> pc[u] = "fill"
                         /\ pc[u] = "fill" => fac'[u] = fac[u]
  BY DEF TypeOK
<1>10. FillInv'
  <2>1. CASE UNCHANGED reg BY <1>9, <2>1, FillKept
  <2>2. CASE RootLockFree BY <1>9, <2>2 DEF FillInv, RootLockFree
  <2> QED BY <2>1, <2>2
<1>11. ReadInv'
  <2>1. NoneLeft' => NoneLeft BY DEF NoneLeft, TypeOK
  <2> QED BY <1>2, <1>9, <2>1 DEF ReadInv, OneRun
<1> QED BY <1>3, <1>4, <1>5, <1>6, <1>7, <1>8, <1>10, <1>11

\* Calling erun: with one run it is due in no thread.
LEMMA ErunCalInv == ASSUME CalInv, NEW t \in Threads, Erun(t) PROVE CalInv'
<1> DEFINE h == <<t, fac[t]>>
<1>1. h \in Handlers BY DEF CalInv, TypeOK, Handlers
<1>2. /\ life' \in [Handlers -> LifeRec]
      /\ \A k \in Handlers : /\ life'[k].brun => life[k].brun
                             /\ life'[k].brunRun = life[k].brunRun
                             /\ life'[k].evnt = life[k].evnt
  BY ErunLife DEF CalInv
<1>3. /\ pc[t] = "erun" /\ pc' = [pc EXCEPT ![t] = "brun"]
      /\ UNCHANGED <<runs, taken, fac, run, reg, raw, calib, cached, unfilled, rows,
                     filling, used, raced, dbReads>>
      /\ \/ /\ run[t] # life[h].brunRun /\ life[h].brun
            /\ RootLockFree /\ ClearCalibration(h)
         \/ UNCHANGED loaded
  BY DEF Erun
<1>4. loaded' \in [Handlers -> BOOLEAN] /\ \A k \in Handlers : loaded'[k] => loaded[k]
  BY <1>3, ClearTypes DEF CalInv, TypeOK
<1>5. TypeOK' BY <1>2, <1>3, <1>4 DEF CalInv, TypeOK, LifeRec, PC
<1>6. MarkInv' /\ LoadedAgree' /\ SoundInv' /\ BrunInv'
  BY <1>2, <1>3, <1>4, ClearingKeeps
<1>7. ThreadInv'
  <2> SUFFICES ASSUME NEW u \in Threads PROVE ThreadInv!(u)' BY DEF ThreadInv
  <2>1. <<u, fac[u]>> \in Handlers BY DEF CalInv, TypeOK, Handlers
  <2>2. CASE u = t BY <2>2, <1>3 DEF CalInv, ThreadInv, TypeOK
  <2>3. CASE u # t BY <2>1, <2>3, <1>2, <1>3 DEF CalInv, ThreadInv, TypeOK
  <2> QED BY <2>2, <2>3
<1>8. \A u \in Threads : pc'[u] = "fill" <=> pc[u] = "fill"
  BY <1>3 DEF CalInv, TypeOK
<1>9. FillInv'
  <2>1. CASE UNCHANGED loaded BY <1>3, <1>8, <2>1, FillKept DEF CalInv
  <2>2. CASE RootLockFree BY <1>3, <1>8, <2>2 DEF CalInv, FillInv, RootLockFree
  <2> QED BY <1>3, <2>1, <2>2
<1>10. ReadInv'
  <2>1. OneRun => UNCHANGED loaded
    BY <1>1, <1>3 DEF CalInv, OneRun, BrunInv, ThreadInv
  <2>2. NoneLeft' => NoneLeft BY <1>3 DEF NoneLeft, CalInv, TypeOK
  <2> QED BY <2>1, <2>2, <1>2, <1>3, <1>8 DEF CalInv, ReadInv, OneRun
<1> QED BY <1>5, <1>6, <1>7, <1>9, <1>10 DEF CalInv

\* A factory's brun is over, with its handler marked or filled before: what is
\* left of the invariant when a thread comes to "use".
LEMMA BrunOver ==
    ASSUME CalInv, NEW t \in Threads, pc[t] \in {"brun", "fill"},
           pc' = [pc EXCEPT ![t] = "use"],
           \/ /\ life[<<t, fac[t]>>].brun
              /\ life' = [life EXCEPT ![<<t, fac[t]>>].evnt = TRUE]
           \/ /\ ~life[<<t, fac[t]>>].brun /\ AfterBrun(t)
              /\ loaded[<<t, fac[t]>>],
           UNCHANGED <<runs, fac, run, reg, loaded, raw, calib, cached, filling, used, raced>>
    PROVE  /\ life' \in [Handlers -> LifeRec] /\ pc' \in [Threads -> PC]
           /\ ThreadInv' /\ MarkInv' /\ LoadedAgree' /\ SoundInv' /\ BrunInv'
           /\ OneRun /\ NoneLeft =>
                \A k \in Handlers : life'[k].brun \/ life'[k].evnt => loaded[k]
<1> DEFINE h == <<t, fac[t]>>
<1>1. h \in Handlers /\ h[1] = t /\ h[2] = fac[t] BY DEF CalInv, TypeOK, Handlers
<1>2. /\ life' \in [Handlers -> LifeRec]
      /\ life'[h].evnt
      /\ life[h].brun => life'[h].brunRun = life[h].brunRun
      /\ ~life[h].brun => life'[h].brunRun = run[t]
      /\ \A k \in Handlers : k # h => life'[k] = life[k]
  BY BrunLife DEF CalInv
<1>3. run[t] \in runs BY DEF CalInv, ThreadInv
<1>4. life[h].brun \/ loaded[h] OBVIOUS
<1>5. ThreadInv'
  <2> SUFFICES ASSUME NEW u \in Threads PROVE ThreadInv!(u)' BY DEF ThreadInv
  <2>1. <<u, fac[u]>> \in Handlers BY DEF CalInv, TypeOK, Handlers
  <2>2. CASE u = t BY <2>2, <1>2, <1>3 DEF CalInv, ThreadInv, TypeOK
  <2>3. CASE u # t
    <3>1. <<u, fac[u]>> # h BY <2>3
    <3> QED BY <2>1, <2>3, <3>1, <1>2 DEF CalInv, ThreadInv, TypeOK
  <2> QED BY <2>2, <2>3
<1>6. MarkInv' /\ LoadedAgree' BY DEF CalInv, MarkInv, LoadedAgree
<1>7. SoundInv'
  <2> SUFFICES ASSUME NEW k \in Handlers, Sound(k[2]) PROVE SoundInv!(k)!2'
    BY DEF SoundInv, Sound
  <2>1. CASE k = h BY <1>4, <2>1 DEF CalInv, SoundInv
  <2>2. CASE k # h
    <3>1. life'[k] = life[k] BY <1>2, <2>2
    <3> QED BY <3>1 DEF CalInv, SoundInv
  <2> QED BY <2>1, <2>2
<1>8. BrunInv' BY <1>2, <1>3 DEF CalInv, BrunInv
<1>9. ASSUME OneRun, NoneLeft, NEW k \in Handlers, life'[k].brun \/ life'[k].evnt
      PROVE  loaded[k]
  <2>1. ReadInv!2!2 BY <1>9 DEF CalInv, ReadInv
  <2>2. CASE k = h BY <1>1, <1>4, <2>1, <2>2
  <2>3. CASE k # h BY <1>2, <1>9, <2>1, <2>3
  <2> QED BY <2>2, <2>3
<1>10. pc' \in [Threads -> PC] BY DEF CalInv, TypeOK, PC
<1> QED BY <1>2, <1>5, <1>6, <1>7, <1>8, <1>9, <1>10

\* updateCalibration, up to the filling: it has the rows of a run of the job,
\* read from the data base only when no handler has them.
LEMMA UpdateCalInv ==
    ASSUME CalInv, NEW t \in Threads, pc[t] = "brun", RootLockFree,
           ~life[<<t, fac[t]>>].brun, UpdateCalibration(<<t, fac[t]>>), pc' = [pc EXCEPT ![t] = "fill"],
           UNCHANGED <<runs, taken, fac, run, life, reg, loaded, raw, calib, cached,
                       filling, used, raced>>
    PROVE  CalInv'
<1> DEFINE h == <<t, fac[t]>>
           all == SameTable(h)
           done == {g \in all : loaded[g]}
<1>1. /\ h \in Handlers /\ h[1] = t /\ h[2] = fac[t] /\ fac[t] \in Factories
      /\ Table[h[2]] \in Tables
  BY DEF CalInv, TypeOK, Handlers, Tables
<1>2. h \in reg /\ run[t] \in runs BY DEF CalInv, ThreadInv
<1>3. all \in SUBSET Handlers /\ h \in all BY <1>2 DEF SameTable, CalInv, TypeOK
<1>4. unfilled' = all \ done BY DEF UpdateCalibration
<1>5. unfilled = {} /\ filling = {} BY DEF CalInv, FillInv, TypeOK
<1>6. \/ \E g \in done : rows' = raw[g] /\ UNCHANGED dbReads
      \/ /\ done = {} /\ rows' = Rows(h, run[t])
         /\ dbReads' = [dbReads EXCEPT ![Table[h[2]]] = @ + 1]
  BY <1>1 DEF UpdateCalibration, CopyRows, ReadTable
<1>7. rows' \in Runs \cup {0} BY <1>3, <1>6 DEF Rows, CalInv, TypeOK
<1>8. dbReads' \in [Tables -> Nat] BY <1>1, <1>6 DEF CalInv, TypeOK
<1>9. pc' \in [Threads -> PC] BY DEF CalInv, TypeOK, PC
<1>10. TypeOK' BY <1>3, <1>4, <1>5, <1>7, <1>8, <1>9 DEF CalInv, TypeOK
<1>11. ThreadInv' BY <1>2 DEF CalInv, ThreadInv, TypeOK
<1>12. MarkInv' /\ LoadedAgree' /\ SoundInv' /\ BrunInv'
  BY DEF CalInv, MarkInv, LoadedAgree, SoundInv, Sound, BrunInv
<1>13. \A g \in done : /\ g \in Handlers /\ g \in reg /\ loaded[g] /\ Table[g[2]] = Table[fac[t]]
                       /\ g[2] \in Factories
  BY <1>1, <1>3 DEF SameTable, Handlers
<1>14. Sound(fac[t]) => rows' \in runs
  <2> SUFFICES ASSUME Sound(fac[t]) PROVE rows' \in runs OBVIOUS
  <2>1. CASE \E g \in done : rows' = raw[g]
    <3>1. PICK g \in done : rows' = raw[g] BY <2>1
    <3>2. Sound(g[2]) BY <1>13, <3>1 DEF Sound
    <3> QED BY <1>13, <3>1, <3>2 DEF CalInv, SoundInv
  <2>2. CASE rows' = Rows(h, run[t]) BY <1>1, <1>2, <2>2 DEF Rows, Sound
  <2> QED BY <1>6, <2>1, <2>2
<1>15. fac[t] \notin RunKind => \A k \in done : raw[k] = rows'
  <2> SUFFICES ASSUME fac[t] \notin RunKind, NEW k \in done PROVE raw[k] = rows' OBVIOUS
  <2>1. PICK g \in done : rows' = raw[g] BY <1>6
  <2>2. k[2] \notin RunKind BY <1>1, <1>13, CalibrationAssumption
  <2> QED BY <1>13, <2>1, <2>2 DEF CalInv, LoadedAgree
<1>16. FillInv'
  <2>1. pc'[t] = "fill" /\ \A u \in Threads : pc'[u] = "fill" => u = t
    BY DEF CalInv, TypeOK, RootLockFree
  <2>2. ~RootLockFree' BY <2>1 DEF RootLockFree
  <2>3. SameTable(h)' = all BY DEF SameTable
  <2>4. Sound(fac[t])' <=> Sound(fac[t]) BY DEF Sound
  <2>5. Filling(t)' BY <1>3, <1>4, <1>5, <1>14, <1>15, <2>1, <2>3, <2>4 DEF Filling
  <2> QED BY <2>1, <2>2, <2>5 DEF FillInv
<1>17. ReadInv'
  <2>1. NoneLeft' => NoneLeft BY DEF NoneLeft, CalInv, TypeOK
  <2> SUFFICES ASSUME OneRun, NoneLeft PROVE ReadInv!2'
    BY <2>1 DEF ReadInv, OneRun
  <2>2. ReadInv!2 BY DEF CalInv, ReadInv
  <2>3. pc'[t] = "fill" /\ fac'[t] = fac[t] BY DEF CalInv, TypeOK
  <2>4. ReadInv!2!2' /\ ReadInv!2!3' BY <2>2
  <2>5. CASE UNCHANGED dbReads
    <3>1. \A b \in Tables : dbReads[b] = 1 => \E k \in reg : loaded[k] /\ Table[k[2]] = b
      BY <2>2 DEF RootLockFree
    <3> QED BY <2>2, <2>4, <2>5, <3>1
  <2>6. CASE done = {} /\ dbReads' = [dbReads EXCEPT ![Table[h[2]]] = @ + 1]
    <3>1. ~ \E k \in reg : loaded[k] /\ Table[k[2]] = Table[h[2]]
      BY <2>6 DEF SameTable
    <3>2. dbReads[Table[h[2]]] \in Nat BY <1>1 DEF CalInv, TypeOK
    <3>3. dbReads[Table[h[2]]] = 0 BY <1>1, <2>2, <3>1, <3>2 DEF RootLockFree
    <3>4. dbReads' = [dbReads EXCEPT ![Table[h[2]]] = 1] BY <2>6, <3>3
    <3>5. ASSUME NEW b \in Tables
          PROVE  /\ dbReads'[b] <= 1
                 /\ dbReads'[b] = 1 =>
                      \/ \E k \in reg : loaded[k] /\ Table[k[2]] = b
                      \/ \E u \in Threads : pc'[u] = "fill" /\ Table[fac[u]] = b
      <4>1. CASE b = Table[h[2]] BY <1>1, <2>3, <3>4, <4>1 DEF CalInv, TypeOK
      <4>2. CASE b # Table[h[2]]
        <5>1. dbReads'[b] = dbReads[b] BY <3>4, <4>2 DEF CalInv, TypeOK
        <5> QED BY <2>2, <5>1 DEF RootLockFree
      <4> QED BY <4>1, <4>2
    <3> QED BY <2>4, <3>5
  <2> QED BY <1>6, <2>5, <2>6
<1> QED BY <1>10, <1>11, <1>12, <1>16, <1>17 DEF CalInv

\* Calling brun, if it is due.
LEMMA BrunCalInv == ASSUME CalInv, NEW t \in Threads, Brun(t) PROVE CalInv'
<1> DEFINE h == <<t, fac[t]>>
<1>1. h \in Handlers BY DEF CalInv, TypeOK, Handlers
<1>2. h \in reg /\ pc[t] = "brun" BY DEF CalInv, ThreadInv, Brun
<1>3. CASE /\ \/ life[h].brun /\ life' = [life EXCEPT ![h].evnt = TRUE]
              \/ ~life[h].brun /\ AllLoaded(h) /\ AfterBrun(t)
           /\ pc' = [pc EXCEPT ![t] = "use"]
           /\ UNCHANGED <<unfilled, rows, dbReads>>
  <2>1. UNCHANGED <<runs, taken, fac, run, reg, loaded, raw, calib, cached, filling, used,
                    raced>>
    BY DEF Brun
  <2>2. h \in SameTable(h) BY <1>2 DEF SameTable
  <2>3. AllLoaded(h) => loaded[h] BY <2>2 DEF AllLoaded
  <2>4. /\ life' \in [Handlers -> LifeRec] /\ pc' \in [Threads -> PC]
        /\ ThreadInv' /\ MarkInv' /\ LoadedAgree' /\ SoundInv' /\ BrunInv'
        /\ OneRun /\ NoneLeft =>
             \A k \in Handlers : life'[k].brun \/ life'[k].evnt => loaded[k]
    BY <1>2, <1>3, <2>1, <2>3, BrunOver
  <2>5. TypeOK' BY <1>3, <2>1, <2>4 DEF CalInv, TypeOK, LifeRec
  <2>6. \A u \in Threads : pc'[u] = "fill" <=> pc[u] = "fill"
    BY <1>2, <1>3 DEF CalInv, TypeOK
  <2>7. FillInv' BY <1>3, <2>1, <2>6, FillKept DEF CalInv
  <2>8. NoneLeft' => NoneLeft BY <1>2, <1>3 DEF NoneLeft, CalInv, TypeOK
  <2>9. ReadInv' BY <1>3, <2>1, <2>4, <2>6, <2>8 DEF CalInv, ReadInv, OneRun
  <2> QED BY <2>4, <2>5, <2>7, <2>9 DEF CalInv
<1>4. CASE ~life[h].brun /\ RootLockFree /\ UpdateCalibration(h) /\ pc' = [pc EXCEPT ![t] = "fill"]
           /\ UNCHANGED life
  BY <1>2, <1>4, UpdateCalInv DEF Brun
<1> QED BY <1>3, <1>4 DEF Brun, AfterBrun

\* What all steps inside updateCalibration have in common.
LEMMA FillFacts ==
    ASSUME CalInv, NEW t \in Threads, pc[t] = "fill", NEW h \in unfilled
    PROVE  /\ Filling(t) /\ h \in Handlers /\ ~loaded[h] /\ h \in reg
           /\ h \in SameTable(<<t, fac[t]>>)
           /\ h[2] \in Factories /\ fac[t] \in Factories /\ Table[h[2]] = Table[fac[t]]
           /\ h[2] \in RunKind <=> fac[t] \in RunKind
           /\ Sound(h[2]) <=> Sound(fac[t])
           /\ Sound(h[2]) => rows \in runs /\ ~Refused(h, rows)
<1>1. Filling(t) BY DEF CalInv, FillInv
<1>2. h \in Handlers BY DEF CalInv, TypeOK
<1>3. h \in SameTable(<<t, fac[t]>>) /\ ~loaded[h] BY <1>1 DEF Filling
<1>4. h \in reg /\ Table[h[2]] = Table[fac[t]] BY <1>3 DEF SameTable
<1>5. h[2] \in Factories /\ fac[t] \in Factories BY <1>2 DEF Handlers, CalInv, TypeOK
<1>6. h[2] \in RunKind <=> fac[t] \in RunKind BY <1>4, <1>5, CalibrationAssumption
<1>7. Sound(h[2]) <=> Sound(fac[t]) BY <1>4 DEF Sound
<1>8. Sound(h[2]) => rows \in runs BY <1>1, <1>7 DEF Filling
<1>9. Sound(h[2]) => ~Refused(h, rows)
  BY <1>8, ZeroIsNoRun DEF CalInv, Sound, Refused
<1> QED BY <1>1, <1>2, <1>3, <1>4, <1>5, <1>6, <1>7, <1>8, <1>9

\* A step of a fill that leaves marks and threads where they are.
LEMMA FillStep ==
    ASSUME CalInv, NEW t \in Threads, pc[t] = "fill", NEW h \in unfilled,
           \A k \in Handlers : k # h => raw'[k] = raw[k] /\ calib'[k] = calib[k],
           raw'[h] = rows, filling = {}, filling' = {h},
           UNCHANGED <<runs, pc, fac, run, life, reg, loaded, cached, unfilled, rows, used,
                       raced, dbReads>>
    PROVE  /\ ThreadInv' /\ MarkInv' /\ LoadedAgree' /\ SoundInv' /\ BrunInv'
           /\ FillInv' /\ ReadInv'
<1>1. /\ Filling(t) /\ h \in Handlers /\ ~loaded[h] /\ h \in SameTable(<<t, fac[t]>>)
  BY FillFacts
<1>2. ThreadInv' /\ MarkInv' /\ BrunInv' BY DEF CalInv, ThreadInv, MarkInv, BrunInv
<1>3. \A k \in Handlers : loaded[k] => raw'[k] = raw[k] /\ calib'[k] = calib[k]
  BY <1>1
<1>4. LoadedAgree' BY <1>3 DEF CalInv, LoadedAgree, TypeOK
<1>5. SoundInv'
  <2> SUFFICES ASSUME NEW k \in Handlers, Sound(k[2]) PROVE SoundInv!(k)!2'
    BY DEF SoundInv, Sound
  <2>1. CASE k = h BY <1>1, <2>1 DEF CalInv, SoundInv
  <2>2. CASE k # h
    <3>1. raw'[k] = raw[k] /\ calib'[k] = calib[k] BY <2>2
    <3> QED BY <2>2, <3>1 DEF CalInv, SoundInv
  <2> QED BY <2>1, <2>2
<1>6. FillInv'
  <2>1. SameTable(<<t, fac[t]>>)' = SameTable(<<t, fac[t]>>) BY DEF SameTable
  <2>2. Sound(fac[t])' <=> Sound(fac[t]) BY DEF Sound
  <2>3. SameTable(<<t, fac[t]>>) \subseteq Handlers BY DEF SameTable, CalInv, TypeOK
  <2>4. Filling(t)' BY <1>1, <1>3, <2>1, <2>2, <2>3 DEF Filling
  <2>5. \A u \in Threads : pc[u] = "fill" => u = t BY <1>1 DEF Filling
  <2> QED BY <2>4, <2>5 DEF FillInv, RootLockFree
<1>7. ReadInv' BY DEF CalInv, ReadInv, OneRun, NoneLeft
<1> QED BY <1>2, <1>4, <1>5, <1>6, <1>7

\* A handler is marked and done with.
LEMMA MarkStep ==
    ASSUME CalInv, NEW t \in Threads, pc[t] = "fill", NEW h \in unfilled,
           filling \subseteq {h},
           calib' \in [Handlers -> Runs \cup {0}],
           \A k \in Handlers : k # h => calib'[k] = calib[k],
           Sound(h[2]) => raw[h] \in runs /\ calib'[h] \in runs,
           h[2] \notin RunKind => raw[h] = rows,
           loaded' = [loaded EXCEPT ![h] = TRUE], unfilled' = unfilled \ {h}, filling' = {},
           UNCHANGED <<runs, taken, pc, fac, run, life, reg, raw, cached, rows, used, raced,
                       dbReads>>
    PROVE  CalInv'
<1>1. /\ Filling(t) /\ h \in Handlers /\ ~loaded[h] /\ h \in reg
      /\ h \in SameTable(<<t, fac[t]>>)
      /\ h[2] \in Factories /\ fac[t] \in Factories /\ Table[h[2]] = Table[fac[t]]
      /\ h[2] \in RunKind <=> fac[t] \in RunKind
      /\ Sound(h[2]) <=> Sound(fac[t])
  BY FillFacts
<1>2. \A k \in Handlers : loaded'[k] <=> loaded[k] \/ k = h BY <1>1 DEF CalInv, TypeOK
<1>3. TypeOK'
  <2>1. loaded' \in [Handlers -> BOOLEAN] BY DEF CalInv, TypeOK
  <2>2. unfilled' \in SUBSET Handlers /\ filling' \in SUBSET unfilled' BY DEF CalInv, TypeOK
  <2> QED BY <2>1, <2>2 DEF CalInv, TypeOK
<1>4. ThreadInv' /\ BrunInv' BY DEF CalInv, ThreadInv, BrunInv
<1>5. MarkInv' BY <1>1, <1>2 DEF CalInv, MarkInv
<1>6. \A k \in SameTable(<<t, fac[t]>>) : fac[t] \notin RunKind /\ loaded'[k] => raw[k] = rows
  <2>1. SameTable(<<t, fac[t]>>) \subseteq Handlers BY DEF SameTable, CalInv, TypeOK
  <2> QED BY <1>1, <1>2, <2>1 DEF Filling
<1>7. LoadedAgree'
  <2> SUFFICES ASSUME NEW g \in reg, NEW k \in reg, loaded'[g], loaded'[k],
                      Table[g[2]] = Table[k[2]], g[2] \notin RunKind
               PROVE  raw[g] = raw[k]
    BY DEF LoadedAgree
  <2>1. g \in Handlers /\ k \in Handlers BY DEF CalInv, TypeOK
  <2>2. g[2] \in Factories /\ k[2] \in Factories BY <2>1 DEF Handlers
  <2>3. CASE Table[g[2]] = Table[fac[t]]
    <3>1. g \in SameTable(<<t, fac[t]>>) /\ k \in SameTable(<<t, fac[t]>>)
      BY <2>3 DEF SameTable
    <3>2. fac[t] \notin RunKind BY <1>1, <2>2, <2>3, CalibrationAssumption
    <3> QED BY <1>6, <3>1, <3>2
  <2>4. CASE Table[g[2]] # Table[fac[t]]
    <3>1. g # h /\ k # h BY <1>1, <2>4
    <3>2. loaded[g] /\ loaded[k] BY <1>2, <2>1, <3>1
    <3> QED BY <3>2 DEF CalInv, LoadedAgree
  <2> QED BY <2>3, <2>4
<1>8. SoundInv'
  <2> SUFFICES ASSUME NEW k \in Handlers, Sound(k[2]) PROVE SoundInv!(k)!2'
    BY DEF SoundInv, Sound
  <2>1. CASE k = h BY <2>1 DEF CalInv, SoundInv
  <2>2. CASE k # h
    <3>1. calib'[k] = calib[k] /\ (loaded'[k] <=> loaded[k]) /\ k \notin filling
      BY <1>2, <2>2
    <3> QED BY <3>1 DEF CalInv, SoundInv
  <2> QED BY <2>1, <2>2
<1>9. FillInv'
  <2>1. SameTable(<<t, fac[t]>>)' = SameTable(<<t, fac[t]>>) BY DEF SameTable
  <2>2. Sound(fac[t])' <=> Sound(fac[t]) BY DEF Sound
  <2>3. SameTable(<<t, fac[t]>>) \subseteq Handlers BY DEF SameTable, CalInv, TypeOK
  <2>4. \A u \in Threads : pc[u] = "fill" => u = t BY <1>1 DEF Filling
  <2>5. \A k \in SameTable(<<t, fac[t]>>) : loaded'[k] \/ k \in unfilled'
    BY <1>1, <1>2, <2>3 DEF Filling
  <2>6. \A k \in unfilled' : k \in SameTable(<<t, fac[t]>>) /\ ~loaded'[k]
    BY <1>1, <1>2, <2>3 DEF Filling
  <2>7. Sound(fac[t]) => rows \in runs BY <1>1 DEF Filling
  <2>8. Filling(t)' BY <1>6, <2>1, <2>2, <2>4, <2>5, <2>6, <2>7 DEF Filling
  <2> QED BY <2>4, <2>8 DEF FillInv, RootLockFree
<1>10. ReadInv'
  <2> SUFFICES ASSUME OneRun, NoneLeft PROVE ReadInv!2'
    BY DEF ReadInv, OneRun, NoneLeft
  <2>1. ReadInv!2 BY DEF CalInv, ReadInv
  <2>2. reg \subseteq Handlers BY DEF CalInv, TypeOK
  <2> QED BY <1>2, <2>1, <2>2
<1> QED BY <1>3, <1>4, <1>5, <1>7, <1>8, <1>9, <1>10 DEF CalInv

\* fillCalib begins.
LEMMA EmptyCalInv == ASSUME CalInv, NEW t \in Threads, EmptyHandler(t) PROVE CalInv'
<1>1. /\ pc[t] = "fill" /\ filling = {}
      /\ UNCHANGED <<runs, taken, pc, fac, run, life, reg, cached, rows, used, raced, dbReads>>
  BY DEF EmptyHandler
<1>2. PICK h \in unfilled :
          \/ /\ h[2] \in RunKind /\ Refused(h, rows)
             /\ loaded' = [loaded EXCEPT ![h] = TRUE]
             /\ unfilled' = unfilled \ {h}
             /\ UNCHANGED <<raw, calib, filling>>
          \/ /\ calib' = [calib EXCEPT ![h] = 0]
             /\ raw' = [raw EXCEPT ![h] = rows]
             /\ filling' = {h}
             /\ UNCHANGED <<loaded, unfilled>>
  BY DEF EmptyHandler
<1>3. h \in Handlers /\ (Sound(h[2]) => ~Refused(h, rows)) BY <1>1, FillFacts
<1>4. CASE /\ h[2] \in RunKind /\ Refused(h, rows)
           /\ loaded' = [loaded EXCEPT ![h] = TRUE]
           /\ unfilled' = unfilled \ {h}
           /\ UNCHANGED <<raw, calib, filling>>
  <2>1. calib' \in [Handlers -> Runs \cup {0}] BY <1>4 DEF CalInv, TypeOK
  <2> QED BY <1>1, <1>3, <1>4, <2>1, MarkStep
<1>5. CASE /\ calib' = [calib EXCEPT ![h] = 0]
           /\ raw' = [raw EXCEPT ![h] = rows]
           /\ filling' = {h}
           /\ UNCHANGED <<loaded, unfilled>>
  <2>1. /\ \A k \in Handlers : k # h => raw'[k] = raw[k] /\ calib'[k] = calib[k]
        /\ raw'[h] = rows
    BY <1>3, <1>5 DEF CalInv, TypeOK
  <2>2. /\ ThreadInv' /\ MarkInv' /\ LoadedAgree' /\ SoundInv' /\ BrunInv'
        /\ FillInv' /\ ReadInv'
    BY <1>1, <1>5, <2>1, FillStep
  <2>3. raw' \in [Handlers -> Runs \cup {0}] /\ calib' \in [Handlers -> Runs \cup {0}]
    BY <1>5 DEF CalInv, TypeOK
  <2>4. TypeOK' BY <1>1, <1>5, <2>3 DEF CalInv, TypeOK
  <2> QED BY <2>2, <2>4 DEF CalInv
<1> QED BY <1>2, <1>4, <1>5

\* A row is inserted.
LEMMA InsertCalInv == ASSUME CalInv, NEW t \in Threads, InsertRow(t) PROVE CalInv'
<1>1. /\ pc[t] = "fill"
      /\ UNCHANGED <<runs, taken, pc, fac, run, life, reg, loaded, raw, cached, unfilled,
                     rows, filling, used, raced, dbReads>>
  BY DEF InsertRow
<1>2. PICK h \in filling : calib' = [calib EXCEPT ![h] = rows] BY DEF InsertRow
<1>3. h \in unfilled /\ h \in Handlers BY DEF CalInv, TypeOK
<1>4. Filling(t) BY <1>1, <1>3, FillFacts
<1>5. raw[h] = rows BY <1>2, <1>4 DEF Filling
<1>6. calib' \in [Handlers -> Runs \cup {0}] BY <1>2 DEF CalInv, TypeOK
<1>7. TypeOK' BY <1>1, <1>6 DEF CalInv, TypeOK
<1>8. \A k \in Handlers : k # h => calib'[k] = calib[k] BY <1>2 DEF CalInv, TypeOK
<1>9. ThreadInv' /\ MarkInv' /\ BrunInv' /\ LoadedAgree' /\ FillInv' /\ ReadInv'
  BY <1>1, FillKept DEF CalInv, ThreadInv, MarkInv, BrunInv, LoadedAgree, ReadInv, OneRun,
     NoneLeft
<1>10. SoundInv'
  <2> SUFFICES ASSUME NEW k \in Handlers, Sound(k[2]) PROVE SoundInv!(k)!2'
    BY <1>1 DEF SoundInv, Sound
  <2>1. CASE k = h
    <3>1. ~loaded[h] BY <1>1, <1>3, FillFacts
    <3> QED BY <1>1, <2>1, <3>1 DEF CalInv, SoundInv
  <2>2. CASE k # h BY <1>1, <1>8, <2>2 DEF CalInv, SoundInv
  <2> QED BY <2>1, <2>2
<1> QED BY <1>7, <1>9, <1>10 DEF CalInv

\* fillCalib ends.
LEMMA EndFillCalInv == ASSUME CalInv, NEW t \in Threads, EndFill(t) PROVE CalInv'
<1>1. /\ pc[t] = "fill" /\ filling' = {}
      /\ UNCHANGED <<runs, taken, pc, fac, run, life, reg, raw, cached, rows, used, raced,
                     dbReads>>
  BY DEF EndFill
<1>2. PICK h \in filling :
          /\ ~Refused(h, rows) => calib[h] = rows
          /\ calib' = [calib EXCEPT ![h] = IF Refused(h, rows) THEN 0 ELSE @]
          /\ loaded' = [loaded EXCEPT ![h] = TRUE]
          /\ unfilled' = unfilled \ {h}
  BY DEF EndFill
<1>3. h \in unfilled /\ h \in Handlers BY DEF CalInv, TypeOK
<1>4. Filling(t) /\ (Sound(h[2]) => rows \in runs /\ ~Refused(h, rows))
  BY <1>1, <1>3, FillFacts
<1>5. raw[h] = rows BY <1>2, <1>4 DEF Filling
<1>6. calib' \in [Handlers -> Runs \cup {0}] BY <1>2 DEF CalInv, TypeOK
<1>7. \A k \in Handlers : k # h => calib'[k] = calib[k] BY <1>2 DEF CalInv, TypeOK
<1>8. Sound(h[2]) => calib'[h] \in runs BY <1>2, <1>3, <1>4 DEF CalInv, TypeOK
<1>9. filling \subseteq {h} BY <1>2, <1>4 DEF Filling
<1> QED BY <1>1, <1>2, <1>3, <1>4, <1>5, <1>6, <1>7, <1>8, <1>9, MarkStep

\* updateCalibration returns.
LEMMA EndUpdateCalInv == ASSUME CalInv, NEW t \in Threads, EndUpdate(t) PROVE CalInv'
<1> DEFINE h == <<t, fac[t]>>
<1>1. /\ pc[t] = "fill" /\ unfilled = {} /\ AfterBrun(t) /\ rows' = 0
      /\ UNCHANGED <<runs, taken, fac, run, reg, loaded, raw, calib, cached, unfilled,
                     filling, used, raced, dbReads>>
  BY DEF EndUpdate
<1>2. h \in Handlers /\ h \in reg BY <1>1 DEF CalInv, ThreadInv, TypeOK, Handlers
<1>3. Filling(t) BY <1>1 DEF CalInv, FillInv
<1>4. loaded[h] BY <1>1, <1>2, <1>3 DEF Filling, SameTable
<1>5. ~life[h].brun BY <1>1 DEF CalInv, ThreadInv
<1>6. pc' = [pc EXCEPT ![t] = "use"] BY <1>1 DEF AfterBrun
<1>7. /\ life' \in [Handlers -> LifeRec] /\ pc' \in [Threads -> PC]
      /\ ThreadInv' /\ MarkInv' /\ LoadedAgree' /\ SoundInv' /\ BrunInv'
      /\ OneRun /\ NoneLeft =>
           \A k \in Handlers : life'[k].brun \/ life'[k].evnt => loaded[k]
  BY <1>1, <1>4, <1>5, <1>6, BrunOver
<1>8. TypeOK' BY <1>1, <1>7 DEF CalInv, TypeOK, LifeRec
<1>9. \A u \in Threads : pc'[u] # "fill" BY <1>3, <1>6 DEF CalInv, TypeOK, Filling
<1>10. FillInv' BY <1>1, <1>9 DEF FillInv, RootLockFree
<1>11. NoneLeft' => NoneLeft BY <1>1, <1>6 DEF NoneLeft, CalInv, TypeOK
<1>12. ReadInv'
  <2> SUFFICES ASSUME OneRun, NoneLeft PROVE ReadInv!2' BY <1>1, <1>11 DEF ReadInv, OneRun
  <2>1. ReadInv!2 BY DEF CalInv, ReadInv
  <2>2. \A u \in Threads : pc[u] = "fill" => u = t BY <1>3 DEF Filling
  <2>3. h[2] = fac[t] OBVIOUS
  <2>4. \A b \in Tables : dbReads[b] = 1 => \E k \in reg : loaded[k] /\ Table[k[2]] = b
    BY <1>2, <1>4, <2>1, <2>2, <2>3
  <2> QED BY <1>1, <1>7, <2>1, <2>4
<1> QED BY <1>7, <1>8, <1>10, <1>12 DEF CalInv

\* Using the constants: what is cached, or at hand, is of a run of the job,
\* unless the handler is being filled.
LEMMA UseCalInv == ASSUME CalInv, NEW t \in Threads, Use(t) PROVE CalInv'
<1> DEFINE h == <<t, fac[t]>>
           hit == h[2] \notin RunKind /\ cached[h] # 0
<1>1. h \in Handlers /\ h[1] = t /\ h[2] = fac[t] BY DEF CalInv, TypeOK, Handlers
<1>2. /\ pc[t] = "use" /\ pc' = [pc EXCEPT ![t] = "event"]
      /\ UNCHANGED <<runs, taken, fac, run, life, reg, loaded, raw, calib, unfilled, rows,
                     filling, dbReads>>
  BY DEF Use, regVars
<1>3. PICK c \in Runs \cup {0, Torn} :
          /\ c \in IF hit THEN {cached[h]}
                   ELSE {calib[h]} \cup (IF h \in filling THEN {0, Torn} ELSE {})
          /\ used' = [used EXCEPT ![h] = <<run[t], c>>]
          /\ cached' \in {cached, [cached EXCEPT ![h] = c]}
          /\ raced' = IF ~hit /\ h \in filling THEN raced \cup {h} ELSE raced
  <2>1. cached[h] \in Runs \cup {0, Torn} /\ calib[h] \in Runs \cup {0}
    BY <1>1 DEF CalInv, TypeOK
  <2> QED BY <1>1, <2>1 DEF Use, GetCalib
<1>4. run[t] \in runs /\ life[h].evnt BY <1>2 DEF CalInv, ThreadInv
<1>5. Sound(h[2]) /\ h \notin raced' => c \in runs
  <2> SUFFICES ASSUME Sound(h[2]), h \notin raced' PROVE c \in runs OBVIOUS
  <2>1. cached[h] \in runs \cup {0} /\ (calib[h] \in runs \/ h \in filling)
    BY <1>1, <1>3, <1>4 DEF CalInv, SoundInv
  <2> QED BY <1>3, <2>1
<1>6. TypeOK'
  <2>1. used' \in [Handlers -> (Runs \cup {0}) \X (Runs \cup {0, Torn})]
    BY <1>1, <1>3 DEF CalInv, TypeOK
  <2>2. cached' \in [Handlers -> Runs \cup {0, Torn}]
    BY <1>1, <1>3 DEF CalInv, TypeOK
  <2>3. raced' \in SUBSET Handlers BY <1>1, <1>3 DEF CalInv, TypeOK
  <2>4. pc' \in [Threads -> PC] BY <1>2 DEF CalInv, TypeOK, PC
  <2> QED BY <1>2, <2>1, <2>2, <2>3, <2>4 DEF CalInv, TypeOK
<1>7. ThreadInv' BY <1>2 DEF CalInv, ThreadInv, TypeOK
<1>8. MarkInv' BY <1>2 DEF CalInv, MarkInv
<1>9. LoadedAgree' BY <1>2 DEF CalInv, LoadedAgree
<1>10. SoundInv'
  <2> SUFFICES ASSUME NEW k \in Handlers, Sound(k[2]) PROVE SoundInv!(k)!2'
    BY <1>2 DEF SoundInv, Sound
  <2>1. CASE k = h
    <3>1. used'[k] = <<run[t], c>> BY <1>1, <1>3, <2>1 DEF CalInv, TypeOK
    <3>2. k \notin raced' => used'[k][1] \in runs /\ used'[k][2] \in runs
      BY <3>1, <1>4, <1>5, <2>1
    <3>3. k \notin raced' => cached'[k] \in runs \cup {0}
      BY <1>1, <1>3, <1>5, <2>1 DEF CalInv, TypeOK, SoundInv
    <3> QED BY <1>2, <3>2, <3>3 DEF CalInv, SoundInv
  <2>2. CASE k # h
    <3>1. used'[k] = used[k] /\ cached'[k] = cached[k] /\ (k \in raced' <=> k \in raced)
      BY <1>3, <2>2 DEF CalInv, TypeOK
    <3> QED BY <1>2, <3>1 DEF CalInv, SoundInv
  <2> QED BY <2>1, <2>2
<1>11. BrunInv' BY <1>2 DEF CalInv, BrunInv
<1>12. \A u \in Threads : pc'[u] = "fill" <=> pc[u] = "fill" BY <1>2 DEF CalInv, TypeOK
<1>13. FillInv' BY <1>2, <1>12, FillKept DEF CalInv
<1>14. ReadInv'
  <2>1. NoneLeft' => NoneLeft BY <1>2 DEF NoneLeft, CalInv, TypeOK
  <2> SUFFICES ASSUME OneRun, NoneLeft PROVE ReadInv!2' BY <1>2, <2>1 DEF ReadInv, OneRun
  <2>2. ReadInv!2 BY DEF CalInv, ReadInv
  <2>3. loaded[h] BY <1>1, <1>4, <2>2
  <2>4. h \notin filling
    <3> SUFFICES ASSUME h \in filling PROVE FALSE OBVIOUS
    <3>1. h \in unfilled BY DEF CalInv, TypeOK
    <3>2. PICK u \in Threads : pc[u] = "fill" BY <3>1 DEF CalInv, FillInv, RootLockFree
    <3> QED BY <2>3, <3>1, <3>2 DEF CalInv, FillInv, Filling
  <2> QED BY <1>2, <1>3, <1>12, <2>2, <2>4
<1> QED BY <1>6, <1>7, <1>8, <1>9, <1>10, <1>11, <1>13, <1>14 DEF CalInv

\* A thread that leaves clears the marks of its tables, one after the other;
\* the constants of the other threads stay.
LEMMA LeaveCalInv == ASSUME CalInv, NEW t \in Threads, Leave(t) PROVE CalInv'
<1>1. /\ pc[t] \in {"idle", "event", "exit"}
      /\ UNCHANGED <<runs, taken, fac, run, reg, raw, calib, cached, unfilled, rows,
                     filling, used, raced, dbReads>>
      /\ \/ pc' = [pc EXCEPT ![t] = "gone"] /\ UNCHANGED <<life, loaded>>
         \/ \E f \in Factories :
              /\ pc' = [pc EXCEPT ![t] = "exit"]
              /\ (RootLockFree /\ ClearCalibration(<<t, f>>)) \/ UNCHANGED loaded
              /\ life' = [life EXCEPT ![<<t, f>>] = [life[<<t, f>>] EXCEPT !.brun = FALSE]]
  BY DEF Leave
<1>2. life \in [Handlers -> LifeRec] BY LifeType DEF CalInv
<1>3. /\ life' \in [Handlers -> LifeRec]
      /\ \A k \in Handlers : /\ life'[k].brun => life[k].brun
                             /\ life'[k].brunRun = life[k].brunRun
                             /\ life'[k].evnt = life[k].evnt
  <2>1. CASE UNCHANGED life BY <2>1, <1>2
  <2>2. ASSUME NEW f \in Factories,
               life' = [life EXCEPT ![<<t, f>>] = [life[<<t, f>>] EXCEPT !.brun = FALSE]]
        PROVE  <1>3
    <3> DEFINE h == <<t, f>>
               l == [life[h] EXCEPT !.brun = FALSE]
    <3>1. h \in Handlers /\ life[h] \in LifeRec BY <1>2 DEF Handlers
    <3>2. \A m \in LifeRec : LET n == [m EXCEPT !.brun = FALSE]
                             IN  /\ n \in LifeRec /\ n.brun = FALSE
                                 /\ n.brunRun = m.brunRun /\ n.evnt = m.evnt
      BY LifeUpdates
    <3>3. /\ l \in LifeRec /\ l.brun = FALSE
          /\ l.brunRun = life[h].brunRun /\ l.evnt = life[h].evnt
      BY ONLY <3>1, <3>2, Zenon
    <3>4. life' = [life EXCEPT ![h] = l] BY <2>2
    <3> HIDE DEF l
    <3> QED BY <1>2, <3>1, <3>3, <3>4
  <2> QED BY <1>1, <2>1, <2>2
<1>4. loaded' \in [Handlers -> BOOLEAN] /\ \A k \in Handlers : loaded'[k] => loaded[k]
  BY <1>1, ClearTypes DEF CalInv, TypeOK
<1>5. /\ pc'[t] \in {"exit", "gone"} /\ pc' \in [Threads -> PC]
      /\ \A u \in Threads : u # t => pc'[u] = pc[u]
  BY <1>1 DEF CalInv, TypeOK, PC
<1>6. TypeOK' BY <1>1, <1>3, <1>4, <1>5 DEF CalInv, TypeOK, LifeRec
<1>7. MarkInv' /\ LoadedAgree' /\ SoundInv' /\ BrunInv'
  BY <1>1, <1>3, <1>4, ClearingKeeps
<1>8. ThreadInv'
  <2> SUFFICES ASSUME NEW u \in Threads PROVE ThreadInv!(u)' BY DEF ThreadInv
  <2>1. <<u, fac[u]>> \in Handlers BY DEF CalInv, TypeOK, Handlers
  <2> QED BY <2>1, <1>1, <1>3, <1>5 DEF CalInv, ThreadInv
<1>9. \A u \in Threads : pc'[u] = "fill" <=> pc[u] = "fill" BY <1>1, <1>5
<1>10. FillInv'
  <2>1. CASE UNCHANGED loaded BY <1>1, <1>9, <2>1, FillKept DEF CalInv
  <2>2. CASE RootLockFree BY <1>1, <1>9, <2>2 DEF CalInv, FillInv, RootLockFree
  <2> QED BY <1>1, <2>1, <2>2
<1>11. ReadInv' BY <1>5 DEF ReadInv, NoneLeft
<1> QED BY <1>6, <1>7, <1>8, <1>10, <1>11 DEF CalInv

\* Every step keeps the invariant.
LEMMA NextCalInv == ASSUME CalInv, [Next]_vars PROVE CalInv'
<1>1. ASSUME NEW t \in Threads, FinishEvent(t) PROVE CalInv'
  <2>1. NoneLeft' => NoneLeft BY <1>1 DEF NoneLeft, CalInv, TypeOK, FinishEvent
  <2>2. \A u \in Threads : pc'[u] = "fill" <=> pc[u] = "fill"
    BY <1>1 DEF CalInv, TypeOK, FinishEvent
  <2>3. FillInv' BY <1>1, <2>2, FillKept DEF CalInv, FinishEvent, regVars
  <2>4. TypeOK' /\ ThreadInv' BY <1>1 DEF CalInv, FinishEvent, regVars, TypeOK, PC, ThreadInv
  <2>5. MarkInv' /\ LoadedAgree' /\ SoundInv' /\ BrunInv' /\ ReadInv'
    BY <1>1, <2>1, <2>2 DEF CalInv, FinishEvent, regVars, MarkInv, LoadedAgree, SoundInv,
       Sound, BrunInv, ReadInv, OneRun
  <2> QED BY <2>3, <2>4, <2>5 DEF CalInv
<1>2. ASSUME UNCHANGED vars PROVE CalInv'
  <2>1. FillInv' BY <1>2, FillKept DEF CalInv, vars
  <2> QED BY <1>2, <2>1 DEF CalInv, vars, TypeOK, ThreadInv, MarkInv, LoadedAgree, SoundInv,
       Sound, BrunInv, ReadInv, OneRun, NoneLeft
<1>3. ASSUME NEW t \in Threads, ThreadStep(t) PROVE CalInv'
  BY <1>1, <1>3, TakeEventCalInv, GetCalInv, ErunCalInv, BrunCalInv, EmptyCalInv,
     InsertCalInv, EndFillCalInv, EndUpdateCalInv, UseCalInv, LeaveCalInv DEF ThreadStep
<1> QED BY <1>2, <1>3 DEF Next, Done

\* The invariant is kept for ever.
LEMMA CalInvHolds == Spec => []CalInv
<1>1. CalInv /\ [Next]_vars => CalInv' BY NextCalInv
<1> QED BY InitCalInv, <1>1, PTL DEF Spec

-----------------------------------------------------------------------------

\* A set of runs with one element has one run.
LEMMA CardinalityOneRun ==
    ASSUME TypeOK, Cardinality(runs) = 1 PROVE OneRun
<1>1. IsFiniteSet(runs) BY FS_Subset, CalibrationAssumption, JobAssumption DEF TypeOK
<1>2. PICK r : runs = {r} BY <1>1, FS_Singleton
<1> QED BY <1>2 DEF OneRun

\* Theorem: whatever threads register, load, clear and reload, in whatever
\* order, the marked handlers of a table hold the rows of one run, so that
\* updateCalibration may copy from any of them, and a handler about to be used
\* holds constants, unless fillCalib of another thread is in the middle of it.
THEOREM HandlersAreSound == Spec => []HandlersSound
<1>1. CalInv => HandlersSound
  <2> SUFFICES ASSUME CalInv PROVE HandlersSound OBVIOUS
  <2>1. ConstantsAtHand
    <3> SUFFICES ASSUME NEW t \in Threads, pc[t] = "use", Sound(fac[t]),
                        calib[<<t, fac[t]>>] = 0
                 PROVE  /\ <<t, fac[t]>> \in filling
                        /\ \E u \in Threads \ {t} : pc[u] = "fill"
      BY DEF ConstantsAtHand
    <3> DEFINE h == <<t, fac[t]>>
    <3>1. h \in Handlers /\ h[2] = fac[t] BY DEF CalInv, TypeOK, Handlers
    <3>2. life[h].evnt BY DEF CalInv, ThreadInv
    <3>3. calib[h] \in runs \/ h \in filling BY <3>1, <3>2 DEF CalInv, SoundInv
    <3>4. h \in filling BY <3>3, ZeroIsNoRun DEF CalInv
    <3>5. ~RootLockFree BY <3>4 DEF CalInv, FillInv, TypeOK
    <3>6. PICK u \in Threads : pc[u] = "fill" BY <3>5 DEF RootLockFree
    <3> QED BY <3>4, <3>6
  <2> QED BY <2>1 DEF HandlersSound, CalInv
<1> QED BY <1>1, CalInvHolds, PTL

\* Theorem: in a job with one run every event is processed with the constants
\* of that run: what getCalib gives out, cached or not, is of that run, but for
\* a handler once looked up in the middle of a fill; and until a thread leaves
\* no handler is.
THEOREM ConstantsOfTheRun == Spec => []UsesConstantsOfItsRun
<1>1. CalInv => UsesConstantsOfItsRun
  <2> SUFFICES ASSUME CalInv, Cardinality(runs) = 1
               PROVE  /\ NoneLeft => raced = {}
                      /\ \A h \in Handlers \ raced : Sound(h[2]) => used[h][2] = used[h][1]
    BY DEF UsesConstantsOfItsRun, NoLookupInFill
  <2>1. OneRun BY CardinalityOneRun DEF CalInv
  <2>2. NoneLeft => raced = {} BY <2>1 DEF CalInv, ReadInv
  <2>3. ASSUME NEW h \in Handlers \ raced, Sound(h[2]) PROVE used[h][2] = used[h][1]
    <3>1. \/ used[h] = <<0, 0>>
          \/ used[h][1] \in runs /\ used[h][2] \in runs
      BY <2>3 DEF CalInv, SoundInv
    <3> QED BY <2>1, <3>1 DEF OneRun
  <2> QED BY <2>2, <2>3
<1> QED BY <1>1, CalInvHolds, PTL

\* Theorem: in a job with one run, and until a thread leaves, a table is read
\* from the data base at most once, however many threads ask for it.
THEOREM TableReadOnce == Spec => []OneReadPerTable
<1>1. CalInv => OneReadPerTable
  BY CardinalityOneRun DEF CalInv, ReadInv, OneReadPerTable
<1> QED BY <1>1, CalInvHolds, PTL

-----------------------------------------------------------------------------
(***************************************************************************)
(* The translation table, the other table all threads share, with its own  *)
(* state and its own threads at work.                                      *)
(*                                                                         *)
(* A thread inside the constructor, from the look at the flag to the end   *)
(* of the parse, holds the mutex, and so does one that an exception ended  *)
(* there.  The flag is set late, after the mutex is released, so that the  *)
(* table may be parsed again while it is in use.  An entry that was whole  *)
(* is then whole at all times, but between the pointer to its new index    *)
(* and the fields of that.                                                 *)
(***************************************************************************)

\* The mutex is held by the one thread inside, or by one that died there.
MutexInv == \A t \in Threads : ttPc[t] \in Inside \cup {"dead"} => mutex = t

\* An entry has its detector and its index, fields set.
WholeEntry(e) == e.det \in Runs /\ e.index \in Runs /\ e.set

\* A thread with an event knows its run.
RunInv == \A t \in Threads : ttPc[t] # "idle" => ttRun[t] \in Runs

\* A parser has been through all channels but those still to come; the one it
\* is at has its detector, then its index.
ParseInv ==
    \A t \in Threads :
        /\ ttPc[t] \in {"parse", "index", "fields"} =>
              \A c \in Channels \ todo[t] : WholeEntry(TT[c])
        /\ ttPc[t] \in {"index", "fields"} => cur[t] \in todo[t] /\ TT[cur[t]].det \in Runs
        /\ ttPc[t] = "fields" => TT[cur[t]].index \in Runs

\* Unless something has failed, whoever has a TranslationTable finds a table
\* that was parsed to its end, but for an index being replaced, and has found
\* no less before.
BuiltInv ==
    ~failed =>
        /\ (initialized \/ \E t \in Threads : ttPc[t] = "flag") =>
              \A c \in Channels : WholeEntry(TT[c]) \/ HalfSet(c)
        /\ \A t \in Threads : t \in made \/ ttPc[t] = "lookup" => initialized
        /\ \A t \in Threads : seen[t].run # 0 =>
              /\ seen[t].run \in Runs
              /\ WholeEntry(seen[t].entry) \/ seen[t].beside

TTInv == TTTypeOK /\ MutexInv /\ RunInv /\ ParseInv /\ BuiltInv

-----------------------------------------------------------------------------

\* No thread is inside and nothing is made at first.
LEMMA InitTTInv == ASSUME TTInit PROVE TTInv
<1> USE JobAssumption DEF TTInit
<1>1. TTTypeOK
  <2>1. TT \in [Channels -> Entry] BY DEF Entry, NoEntry
  <2>2. seen \in [Threads -> [run : Runs \cup {0}, entry : Entry, beside : BOOLEAN]]
    BY DEF Entry, NoEntry
  <2>3. ttTaken \in 0..MaxEvents /\ ttRun \in [Threads -> Runs \cup {0}] OBVIOUS
  <2>4. todo \in [Threads -> SUBSET Channels] /\ made \in SUBSET Threads OBVIOUS
  <2> QED BY <2>1, <2>2, <2>3, <2>4 DEF TTTypeOK, TTPC
<1>2. MutexInv /\ RunInv /\ ParseInv /\ BuiltInv
  BY DEF MutexInv, RunInv, ParseInv, BuiltInv, Inside
<1> QED BY <1>1, <1>2 DEF TTInv

\* What the three writes to an entry leave in it.
LEMMA EntryWrites ==
    ASSUME NEW e \in Entry, NEW r \in Runs \cup {0}
    PROVE  /\ [e EXCEPT !.det = r] \in Entry
           /\ [e EXCEPT !.det = r].det = r
           /\ [e EXCEPT !.det = r].index = e.index
           /\ [e EXCEPT !.det = r].set = e.set
           /\ [e EXCEPT !.index = r, !.set = FALSE] \in Entry
           /\ [e EXCEPT !.index = r, !.set = FALSE].det = e.det
           /\ [e EXCEPT !.index = r, !.set = FALSE].index = r
           /\ [e EXCEPT !.set = TRUE] \in Entry
           /\ [e EXCEPT !.set = TRUE].det = e.det
           /\ [e EXCEPT !.set = TRUE].index = e.index
           /\ [e EXCEPT !.set = TRUE].set = TRUE
BY DEF Entry

\* A write by thread t keeps the type of the table and touches one entry of it.
OneWrite(t) ==
    /\ TT' \in [Channels -> Entry]
    /\ mutex = t /\ ttRun[t] \in Runs
    /\ \E c \in Channels :
          /\ \A d \in Channels \ {c} : TT'[d] = TT[d]
          /\ SetDetector(t, c) \/ c = cur[t]
          /\ SetDetector(t, c) =>
               TT'[c].det = ttRun[t] /\ TT'[c].index = TT[c].index /\ TT'[c].set = TT[c].set
          /\ SetIndex(t) => TT'[c].det = TT[c].det /\ TT'[c].index = ttRun[t]
          /\ SetFields(t) =>
               TT'[c].det = TT[c].det /\ TT'[c].index = TT[c].index /\ TT'[c].set

\* Each of the three is such a write.
LEMMA TableWrites ==
    ASSUME TTInv, NEW t \in Threads,
           \/ \E c \in Channels : SetDetector(t, c)
           \/ SetIndex(t)
           \/ SetFields(t)
    PROVE  OneWrite(t)
<1>1. TT \in [Channels -> Entry] /\ cur[t] \in Channels BY DEF TTInv, TTTypeOK
<1>2. mutex = t /\ ttRun[t] \in Runs
  BY DEF TTInv, MutexInv, RunInv, Inside, SetDetector, SetIndex, SetFields
<1>3. ASSUME NEW c \in Channels
      PROVE  LET e == TT[c]
                 d == [TT[c] EXCEPT !.det = ttRun[t]]
                 i == [TT[c] EXCEPT !.index = ttRun[t], !.set = FALSE]
                 f == [TT[c] EXCEPT !.set = TRUE]
             IN  /\ d \in Entry /\ d.det = ttRun[t] /\ d.index = e.index /\ d.set = e.set
                 /\ i \in Entry /\ i.det = e.det /\ i.index = ttRun[t]
                 /\ f \in Entry /\ f.det = e.det /\ f.index = e.index /\ f.set = TRUE
  <2>1. PICK e \in Entry : e = TT[c] BY <1>1
  <2>2. PICK r \in Runs \cup {0} : r = ttRun[t] BY <1>2
  <2> QED BY ONLY <2>1, <2>2, EntryWrites, ZenonT(60)
<1>4. ASSUME NEW c \in Channels, SetDetector(t, c) PROVE OneWrite(t)
  <2>1. TT' = [TT EXCEPT ![c] = [TT[c] EXCEPT !.det = ttRun[t]]] BY <1>4 DEF SetDetector
  <2>2. ~SetIndex(t) /\ ~SetFields(t) BY <1>4 DEF SetDetector, SetIndex, SetFields
  <2>3. TT' \in [Channels -> Entry] BY <1>1, <1>3, <2>1
  <2>4. /\ \A d \in Channels \ {c} : TT'[d] = TT[d]
        /\ TT'[c].det = ttRun[t] /\ TT'[c].index = TT[c].index /\ TT'[c].set = TT[c].set
    BY <1>1, <1>3, <2>1
  <2> QED BY <1>2, <1>4, <2>2, <2>3, <2>4 DEF OneWrite
<1>5. ASSUME SetIndex(t) PROVE OneWrite(t)
  <2>1. TT' = [TT EXCEPT ![cur[t]] = [TT[cur[t]] EXCEPT !.index = ttRun[t], !.set = FALSE]]
    BY <1>1, <1>5 DEF SetIndex
  <2>2. ~SetFields(t) /\ \A c \in Channels : ~SetDetector(t, c)
    BY <1>5 DEF SetDetector, SetIndex, SetFields
  <2>3. TT' \in [Channels -> Entry] BY <1>1, <1>3, <2>1
  <2>4. /\ \A d \in Channels \ {cur[t]} : TT'[d] = TT[d]
        /\ TT'[cur[t]].det = TT[cur[t]].det /\ TT'[cur[t]].index = ttRun[t]
    BY <1>1, <1>3, <2>1
  <2> QED BY <1>1, <1>2, <1>5, <2>2, <2>3, <2>4 DEF OneWrite
<1>6. ASSUME SetFields(t) PROVE OneWrite(t)
  <2>1. TT' = [TT EXCEPT ![cur[t]] = [TT[cur[t]] EXCEPT !.set = TRUE]]
    BY <1>1, <1>6 DEF SetFields
  <2>2. ~SetIndex(t) /\ \A c \in Channels : ~SetDetector(t, c)
    BY <1>6 DEF SetDetector, SetIndex, SetFields
  <2>3. TT' \in [Channels -> Entry] BY <1>1, <1>3, <2>1
  <2>4. /\ \A d \in Channels \ {cur[t]} : TT'[d] = TT[d]
        /\ TT'[cur[t]].det = TT[cur[t]].det /\ TT'[cur[t]].index = TT[cur[t]].index
        /\ TT'[cur[t]].set
    BY <1>1, <1>3, <2>1
  <2> QED BY <1>1, <1>2, <1>6, <2>2, <2>3, <2>4 DEF OneWrite
<1> QED BY <1>4, <1>5, <1>6

\* Every step keeps the types.
LEMMA NextTTTypeOK ==
    ASSUME TTInv, [TTNext]_ttVars
    PROVE  TTTypeOK'
<1> USE JobAssumption DEF TTTypeOK, TTPC
<1>1. ASSUME NEW t \in Threads, TakeTTEvent(t) PROVE TTTypeOK'
  BY <1>1 DEF TakeTTEvent, TTInv
<1>2. ASSUME NEW t \in Threads, Construct(t) PROVE TTTypeOK'
  <2>1. CASE Enter(t) BY <2>1 DEF Enter, Return, TTInv
  <2>2. CASE Unavailable(t) BY <2>2 DEF Unavailable, Return, TTInv
  <2>3. CASE Throws(t) BY <2>3 DEF Throws, TTInv
  <2>4. CASE StartParse(t) BY <2>4 DEF StartParse, TTInv
  <2>5. CASE SetIndex(t)
    <3>1. TT' \in [Channels -> Entry] BY <2>5, TableWrites DEF OneWrite
    <3> QED BY <2>5, <3>1 DEF SetIndex, TTInv
  <2>6. CASE SetFields(t)
    <3>1. TT' \in [Channels -> Entry] BY <2>6, TableWrites DEF OneWrite
    <3> QED BY <2>6, <3>1 DEF SetFields, TTInv
  <2>7. CASE EndParse(t) BY <2>7 DEF EndParse, TTInv
  <2>8. CASE SetInitialized(t) BY <2>8 DEF SetInitialized, Return, TTInv
  <2>9. ASSUME NEW c \in Channels, SetDetector(t, c) PROVE TTTypeOK'
    <3>1. TT' \in [Channels -> Entry] BY <2>9, TableWrites DEF OneWrite
    <3> QED BY <2>9, <3>1 DEF SetDetector, TTInv
  <2> QED BY <1>2, <2>1, <2>2, <2>3, <2>4, <2>5, <2>6, <2>7, <2>8, <2>9 DEF Construct
<1>3. ASSUME NEW t \in Threads, NEW c \in Channels, getChannelInfo(t, c) PROVE TTTypeOK'
  BY <1>3 DEF getChannelInfo, TTInv, HalfSet
<1>4. CASE UNCHANGED ttVars BY <1>4 DEF ttVars, TTInv
<1> QED BY <1>1, <1>2, <1>3, <1>4 DEF TTNext, TTDone

\* Every step keeps the mutex with the one thread inside.
LEMMA NextMutexInv ==
    ASSUME TTInv, [TTNext]_ttVars
    PROVE  MutexInv' /\ RunInv'
<1> USE TTNobodyAssumption DEF TTInv, TTTypeOK, MutexInv, RunInv, Inside
<1>1. ASSUME NEW t \in Threads, TakeTTEvent(t) PROVE MutexInv' /\ RunInv'
  BY <1>1 DEF TakeTTEvent
<1>2. ASSUME NEW t \in Threads, Construct(t) PROVE MutexInv' /\ RunInv'
  <2>1. CASE Enter(t) BY <2>1 DEF Enter, Return
  <2>2. CASE Unavailable(t) BY <2>2 DEF Unavailable, Return
  <2>3. CASE Throws(t) BY <2>3 DEF Throws
  <2>4. CASE StartParse(t) BY <2>4 DEF StartParse
  <2>5. CASE SetIndex(t) BY <2>5 DEF SetIndex
  <2>6. CASE SetFields(t) BY <2>6 DEF SetFields
  <2>7. CASE EndParse(t) BY <2>7 DEF EndParse
  <2>8. CASE SetInitialized(t) BY <2>8 DEF SetInitialized, Return
  <2>9. CASE \E c \in Channels : SetDetector(t, c) BY <2>9 DEF SetDetector
  <2> QED BY <1>2, <2>1, <2>2, <2>3, <2>4, <2>5, <2>6, <2>7, <2>8, <2>9 DEF Construct
<1>3. ASSUME NEW t \in Threads, NEW c \in Channels, getChannelInfo(t, c)
      PROVE  MutexInv' /\ RunInv'
  BY <1>3 DEF getChannelInfo
<1>4. CASE UNCHANGED ttVars BY <1>4 DEF ttVars
<1> QED BY <1>1, <1>2, <1>3, <1>4 DEF TTNext, TTDone

\* The writes, seen from the thread that makes them: nobody else is inside.
LEMMA AloneInside ==
    ASSUME TTInv, NEW t \in Threads, mutex = t, NEW u \in Threads, u # t
    PROVE  ttPc[u] \notin Inside
BY DEF TTInv, MutexInv

\* Every step keeps what parsers have done, with only one of them at work,
\* and the table whole once it is built.
LEMMA NextParseBuilt == ASSUME TTInv, [TTNext]_ttVars PROVE ParseInv' /\ BuiltInv'
<1> USE DEF TTInv
<1>1. ASSUME NEW t \in Threads, TakeTTEvent(t) PROVE ParseInv' /\ BuiltInv'
  BY <1>1 DEF TakeTTEvent, TTTypeOK, ParseInv, BuiltInv, HalfSet
<1>2. ASSUME NEW t \in Threads, Construct(t) PROVE ParseInv' /\ BuiltInv'
  <2>1. CASE Enter(t) BY <2>1 DEF Enter, Return, TTTypeOK, ParseInv, BuiltInv, HalfSet
  <2>2. CASE Unavailable(t)
    BY <2>2 DEF Unavailable, Return, TTTypeOK, ParseInv, BuiltInv
  <2>3. CASE Throws(t) BY <2>3 DEF Throws, TTTypeOK, ParseInv, BuiltInv
  <2>4. CASE StartParse(t) BY <2>4 DEF StartParse, TTTypeOK, ParseInv, BuiltInv, HalfSet
  <2>5. CASE SetIndex(t)
    <3>1. PICK c \in Channels :
             /\ \A d \in Channels \ {c} : TT'[d] = TT[d]
             /\ c = cur[t] /\ TT'[c].det = TT[c].det /\ TT'[c].index = ttRun[t]
      <4>1. \A c \in Channels : ~SetDetector(t, c) BY <2>5 DEF SetDetector, SetIndex
      <4> QED BY <2>5, <4>1, TableWrites DEF OneWrite
    <3>2. mutex = t /\ ttRun[t] \in Runs BY <2>5, TableWrites DEF OneWrite
    <3>3. \A u \in Threads \ {t} : ttPc'[u] = ttPc[u] /\ ttPc[u] \notin Inside
      BY <2>5, <3>2, AloneInside DEF SetIndex, TTTypeOK
    <3>4. /\ ttPc[t] = "index" /\ ttPc'[t] = "fields"
          /\ UNCHANGED <<cur, todo, failed, initialized, made, seen>>
      BY <2>5 DEF SetIndex, TTTypeOK
    <3>5. ParseInv' BY <3>1, <3>2, <3>3, <3>4 DEF ParseInv, Inside
    <3>6. BuiltInv'
      <4>1. \A d \in Channels \ {c} : WholeEntry(TT[d]) => WholeEntry(TT'[d]) BY <3>1
      <4>2. \A d \in Channels : ~HalfSet(d) BY <3>3, <3>4 DEF HalfSet, Inside
      <4>3. HalfSet(c)' BY <3>1, <3>4 DEF HalfSet
      <4>4. \A u \in Threads : /\ ttPc'[u] = "flag" => ttPc[u] = "flag"
                               /\ ttPc'[u] = "lookup" => ttPc[u] = "lookup"
        BY <3>3, <3>4
      <4>5. (\A d \in Channels : WholeEntry(TT[d]) \/ HalfSet(d))
              => \A d \in Channels : WholeEntry(TT'[d]) \/ HalfSet(d)'
        BY <4>1, <4>2, <4>3
      <4> QED BY <3>4, <4>4, <4>5 DEF BuiltInv
    <3> QED BY <3>5, <3>6
  <2>6. CASE SetFields(t)
    <3>1. PICK c \in Channels :
             /\ \A d \in Channels \ {c} : TT'[d] = TT[d]
             /\ c = cur[t] /\ TT'[c].det = TT[c].det /\ TT'[c].index = TT[c].index
             /\ TT'[c].set
      <4>1. \A c \in Channels : ~SetDetector(t, c) BY <2>6 DEF SetDetector, SetFields
      <4> QED BY <2>6, <4>1, TableWrites DEF OneWrite
    <3>2. mutex = t /\ ttRun[t] \in Runs BY <2>6, TableWrites DEF OneWrite
    <3>3. \A u \in Threads \ {t} : ttPc'[u] = ttPc[u] /\ ttPc[u] \notin Inside
      BY <2>6, <3>2, AloneInside DEF SetFields, TTTypeOK
    <3>4. /\ ttPc[t] = "fields" /\ ttPc'[t] = "parse"
          /\ todo'[t] = todo[t] \ {cur[t]}
          /\ UNCHANGED <<cur, failed, initialized, made, seen>>
      BY <2>6 DEF SetFields, TTTypeOK
    <3>5. WholeEntry(TT'[c]) BY <3>1, <3>4 DEF ParseInv, WholeEntry
    <3>6. ParseInv' BY <3>1, <3>3, <3>4, <3>5 DEF ParseInv, Inside
    <3>7. BuiltInv'
      <4>1. \A d \in Channels : WholeEntry(TT[d]) => WholeEntry(TT'[d]) BY <3>1, <3>5
      <4>2. \A d \in Channels : HalfSet(d) => d = c
        BY <3>1, <3>3, <3>4 DEF HalfSet, Inside
      <4>3. (\A d \in Channels : WholeEntry(TT[d]) \/ HalfSet(d))
              => \A d \in Channels : WholeEntry(TT'[d])
        BY <3>5, <4>1, <4>2
      <4>4. \A u \in Threads : /\ ttPc'[u] = "flag" => ttPc[u] = "flag"
                               /\ ttPc'[u] = "lookup" => ttPc[u] = "lookup"
        BY <3>3, <3>4
      <4> QED BY <3>4, <4>3, <4>4 DEF BuiltInv
    <3> QED BY <3>6, <3>7
  <2>7. CASE EndParse(t)
    <3>1. mutex = t BY <2>7 DEF EndParse, MutexInv, Inside
    <3>2. \A u \in Threads \ {t} : ttPc'[u] = ttPc[u] /\ ttPc[u] \notin Inside
      BY <2>7, <3>1, AloneInside DEF EndParse, TTTypeOK
    <3>3. /\ ttPc[t] = "parse" /\ ttPc'[t] = "flag"
          /\ failed' = (failed \/ todo[t] # {})
          /\ UNCHANGED <<TT, initialized, made, seen>>
      BY <2>7 DEF EndParse, TTTypeOK
    <3>4. ParseInv' BY <3>2, <3>3 DEF ParseInv, Inside
    <3>5. ~failed' => ~failed /\ \A c \in Channels : WholeEntry(TT[c])
      BY <3>3 DEF ParseInv
    <3>6. \A u \in Threads : ttPc'[u] = "lookup" => ttPc[u] = "lookup" BY <3>2, <3>3
    <3>7. BuiltInv' BY <3>3, <3>5, <3>6 DEF BuiltInv
    <3> QED BY <3>4, <3>7
  <2>8. CASE SetInitialized(t)
    BY <2>8 DEF SetInitialized, Return, TTTypeOK, ParseInv, BuiltInv, HalfSet
  <2>9. ASSUME NEW e \in Channels, SetDetector(t, e) PROVE ParseInv' /\ BuiltInv'
    <3>1. PICK c \in Channels :
             /\ \A d \in Channels \ {c} : TT'[d] = TT[d]
             /\ SetDetector(t, c) \/ c = cur[t]
             /\ SetDetector(t, c) =>
                  TT'[c].det = ttRun[t] /\ TT'[c].index = TT[c].index /\ TT'[c].set = TT[c].set
      BY <2>9, TableWrites DEF OneWrite
    <3>2. mutex = t /\ ttRun[t] \in Runs BY <2>9, TableWrites DEF OneWrite
    <3>3. \A u \in Threads \ {t} : ttPc'[u] = ttPc[u] /\ ttPc[u] \notin Inside
      BY <2>9, <3>2, AloneInside DEF SetDetector, TTTypeOK
    <3>4. /\ ttPc[t] = "parse" /\ ttPc'[t] = "index" /\ cur'[t] = e /\ e \in todo[t]
          /\ UNCHANGED <<todo, failed, initialized, made, seen>>
      BY <2>9 DEF SetDetector, TTTypeOK
    <3>5. /\ \A d \in Channels \ {e} : TT'[d] = TT[d]
          /\ TT'[e].det = ttRun[t] /\ TT'[e].index = TT[e].index /\ TT'[e].set = TT[e].set
      <4>1. TT' = [TT EXCEPT ![e] = [TT[e] EXCEPT !.det = ttRun[t]]]
        BY <2>9 DEF SetDetector
      <4>2. TT[e] \in Entry /\ TT \in [Channels -> Entry] BY DEF TTTypeOK
      <4>3. LET d == [TT[e] EXCEPT !.det = ttRun[t]]
            IN  d.det = ttRun[t] /\ d.index = TT[e].index /\ d.set = TT[e].set
        <5>1. PICK f \in Entry : f = TT[e] BY <4>2
        <5>2. PICK r \in Runs \cup {0} : r = ttRun[t] BY <3>2
        <5> QED BY ONLY <5>1, <5>2, EntryWrites, ZenonT(60)
      <4> QED BY <4>1, <4>2, <4>3
    <3>6. \A d \in Channels : WholeEntry(TT[d]) => WholeEntry(TT'[d])
      BY <3>2, <3>5 DEF WholeEntry
    <3>7. ParseInv' BY <3>2, <3>3, <3>4, <3>5, <3>6 DEF ParseInv, Inside
    <3>8. BuiltInv'
      <4>1. \A d \in Channels : ~HalfSet(d) BY <3>3, <3>4 DEF HalfSet, Inside
      <4>2. (\A d \in Channels : WholeEntry(TT[d]) \/ HalfSet(d))
              => \A d \in Channels : WholeEntry(TT'[d])
        BY <3>6, <4>1
      <4>3. \A u \in Threads : /\ ttPc'[u] = "flag" => ttPc[u] = "flag"
                               /\ ttPc'[u] = "lookup" => ttPc[u] = "lookup"
        BY <3>3, <3>4
      <4> QED BY <3>4, <4>2, <4>3 DEF BuiltInv
    <3> QED BY <3>7, <3>8
  <2> QED BY <1>2, <2>1, <2>2, <2>3, <2>4, <2>5, <2>6, <2>7, <2>8, <2>9 DEF Construct
<1>3. ASSUME NEW t \in Threads, NEW c \in Channels, getChannelInfo(t, c)
      PROVE  ParseInv' /\ BuiltInv'
  <2>1. /\ ttPc[t] = "lookup" /\ ttPc'[t] = "idle"
        /\ \A u \in Threads \ {t} : ttPc'[u] = ttPc[u] /\ seen'[u] = seen[u]
        /\ seen'[t].run = ttRun[t] /\ seen'[t].entry = TT[c] /\ seen'[t].beside = HalfSet(c)
        /\ UNCHANGED <<cur, TT, todo, failed, initialized, made>>
    BY <1>3 DEF getChannelInfo, TTTypeOK
  <2>2. ParseInv' BY <2>1 DEF ParseInv
  <2>3. \A d \in Channels : HalfSet(d) => HalfSet(d)' BY <2>1 DEF HalfSet
  <2>4. BuiltInv' BY <2>1, <2>3 DEF BuiltInv, RunInv
  <2> QED BY <2>2, <2>4
<1>4. CASE UNCHANGED ttVars BY <1>4 DEF ttVars, ParseInv, BuiltInv, HalfSet
<1> QED BY <1>1, <1>2, <1>3, <1>4 DEF TTNext, TTDone

\* The invariant gives what TableSound says; with one run, entries made of
\* runs are entries of that run.
LEMMA TTInvImplies == ASSUME TTInv PROVE TableSound
<1>1. OneParser BY DEF OneParser, TTInv, MutexInv, Inside
<1>2. ASSUME NEW r, Runs = {r}, NEW e \in Entry, WholeEntry(e) PROVE e = EntryOf(r)
  BY <1>2 DEF WholeEntry, Entry, EntryOf
<1>3. Cardinality(Runs) = 1 => \E r : Runs = {r} BY FS_Singleton, JobAssumption
<1>4. LookupFindsWholeEntry
  <2> SUFFICES ASSUME ~failed, Cardinality(Runs) = 1,
                      NEW t \in Threads, seen[t].run # 0, ~seen[t].beside
               PROVE  seen[t].entry = EntryOf(seen[t].run)
    BY DEF LookupFindsWholeEntry
  <2>1. PICK r : Runs = {r} BY <1>3
  <2>2. seen[t].run \in Runs /\ WholeEntry(seen[t].entry)
    BY DEF TTInv, BuiltInv
  <2>3. seen[t].entry \in Entry BY DEF TTInv, TTTypeOK
  <2>4. seen[t].run = r BY <2>1, <2>2
  <2> QED BY <1>2, <2>1, <2>2, <2>3, <2>4
<1>5. SettledIsWhole
  <2> SUFFICES ASSUME ~failed, Cardinality(Runs) = 1, initialized,
                      \A t \in Threads : ttPc[t] \notin Inside,
                      NEW c \in Channels, NEW r \in Runs
               PROVE  TT[c] = EntryOf(r)
    BY DEF SettledIsWhole
  <2>1. Runs = {r} BY <1>3
  <2>2. ~HalfSet(c) BY DEF HalfSet, Inside
  <2>3. WholeEntry(TT[c]) BY <2>2 DEF TTInv, BuiltInv
  <2>4. TT[c] \in Entry BY DEF TTInv, TTTypeOK
  <2> QED BY <1>2, <2>1, <2>3, <2>4
<1> QED BY <1>1, <1>4, <1>5 DEF TableSound, TTInv

\* Theorem: ReadTranslationTable is in one thread at a time; lookups take no
\* mutex and the table may be parsed more than once, but no lookup finds less
\* than a whole entry unless another thread is just then replacing the index of
\* that channel, and the table is whole when all have come out.
THEOREM TableIsSound == TTSpec => []TableSound
<1>1. TTInv /\ [TTNext]_ttVars => TTInv'
  BY NextTTTypeOK, NextMutexInv, NextParseBuilt DEF TTInv
<1>2. TTInit => TTInv BY InitTTInv
<1>3. TTInv => TableSound BY TTInvImplies
<1> QED BY <1>1, <1>2, <1>3, PTL DEF TTSpec
=============================================================================
