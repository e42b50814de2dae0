--------------------------- MODULE Plugins_proofs ---------------------------
(***************************************************************************)
(* What the lock discipline of the processors, which is a property of each *)
(* path through their code by itself, gives for any number of threads and  *)
(* events: the operations of two threads on a plugin's members never meet, *)
(* and rows of trees are not mixed.  The inductive invariant ties the      *)
(* place of every actor on its path to the holder of the ROOT lock.        *)
(***************************************************************************)
EXTENDS Plugins, TLAPS

CallNames == Callback \cup {"start", "run", "done", "idle", "enter", "dead"}

\* An actor is on a path of the processor it is in, or between callbacks.
OnPath(t) ==
    /\ path[t] \in PathsOf(Code(proc[t])) \cup {<<>>}
    /\ pos[t] \in 1..(Len(path[t]) + 1)
    /\ call[t] \in {"idle", "enter"} => path[t] = <<>>

\* Between lock and unlock an actor holds the lock, unless another's RootUnLock
\* took it away,
HoldsLock(t) == plugin \notin Losing /\ Held(path[t], pos[t]) => root = t

\* and nowhere else, when its code gives the lock back.
OnlyThere(t) == plugin \notin Leaky /\ root = t => Held(path[t], pos[t])

\* From set to unlock the members have the values of the actor's event.
OwnValues(t) == Assigned(path[t], pos[t]) => buf = ev[t]

LInv ==
    /\ plugin \in Plugins /\ next \in Nat /\ ev \in [Actors -> Nat]
    /\ proc \in [Actors -> Procs] /\ call \in [Actors -> CallNames]
    /\ path \in [Actors -> Seq(Op)] /\ pos \in [Actors -> Nat]
    /\ root \in Actors \cup {Nobody}
    /\ \A t \in Actors : OnPath(t) /\ HoldsLock(t) /\ OnlyThere(t)

VInv ==
    plugin \notin Mixed \cup Losing =>
        /\ ~torn
        /\ plugin \notin Resetting => \A t \in Actors : OwnValues(t)

-----------------------------------------------------------------------------
(***************************************************************************)
(* Paths.                                                                  *)
(***************************************************************************)

\* At the beginning of a path nothing is held and nothing assigned.
LEMMA AtFirst == ASSUME NEW s PROVE ~Held(s, 1) /\ ~Assigned(s, 1)
BY DEF Held, Assigned

\* What one operation does to Held.
LEMMA HeldNext ==
    ASSUME NEW s \in Seq(Op), NEW k \in 1..Len(s)
    PROVE  Held(s, k + 1) <=> (s[k] = "lock" \/ (s[k] # "unlock" /\ Held(s, k)))
<1>1. ASSUME Held(s, k + 1) PROVE s[k] = "lock" \/ (s[k] # "unlock" /\ Held(s, k))
  <2>1. PICK j \in 1..k : s[j] = "lock" /\ \A i \in (j + 1)..k : s[i] # "unlock"
    BY <1>1 DEF Held
  <2>2. CASE j = k BY <2>1, <2>2
  <2>3. CASE j < k
    <3>1. s[k] # "unlock" BY <2>1, <2>3
    <3>2. Held(s, k) BY <2>1, <2>3 DEF Held
    <3> QED BY <3>1, <3>2
  <2> QED BY <2>2, <2>3
<1>2. ASSUME s[k] = "lock" PROVE Held(s, k + 1)
  BY <1>2 DEF Held
<1>3. ASSUME s[k] # "unlock", Held(s, k) PROVE Held(s, k + 1)
  <2>1. PICK j \in 1..(k - 1) :
           s[j] = "lock" /\ \A i \in (j + 1)..(k - 1) : s[i] # "unlock"
    BY <1>3 DEF Held
  <2>2. \A i \in (j + 1)..k : s[i] # "unlock" BY <1>3, <2>1
  <2> QED BY <2>1, <2>2 DEF Held
<1> QED BY <1>1, <1>2, <1>3

\* What one operation does to Assigned.
LEMMA AssignedNext ==
    ASSUME NEW s \in Seq(Op), NEW k \in 1..Len(s)
    PROVE  Assigned(s, k + 1) => (s[k] = "set" \/ (s[k] # "unlock" /\ Assigned(s, k)))
<1>1. SUFFICES ASSUME Assigned(s, k + 1)
               PROVE  s[k] = "set" \/ (s[k] # "unlock" /\ Assigned(s, k))
  OBVIOUS
<1>2. PICK j \in 1..k : s[j] = "set" /\ \A i \in (j + 1)..k : s[i] # "unlock"
  BY <1>1 DEF Assigned
<1>3. CASE j = k BY <1>2, <1>3
<1>4. CASE j < k
  <2>1. s[k] # "unlock" BY <1>2, <1>4
  <2>2. Assigned(s, k) BY <1>2, <1>4 DEF Assigned
  <2> QED BY <2>1, <2>2
<1> QED BY <1>3, <1>4

\* On a guarded path the lock is held from set to unlock.
LEMMA AssignedHeld ==
    ASSUME NEW s \in Seq(Op), OwnRows(s), NEW k \in 1..(Len(s) + 1), Assigned(s, k)
    PROVE  Held(s, k)
<1>1. PICK j \in 1..(k - 1) :
         s[j] = "set" /\ \A i \in (j + 1)..(k - 1) : s[i] # "unlock"
  BY DEF Assigned
<1>2. Held(s, j) BY <1>1 DEF OwnRows
<1>3. PICK h \in 1..(j - 1) :
         s[h] = "lock" /\ \A i \in (h + 1)..(j - 1) : s[i] # "unlock"
  BY <1>2 DEF Held
<1>4. \A i \in (h + 1)..(k - 1) : s[i] # "unlock" BY <1>1, <1>3
<1> QED BY <1>3, <1>4 DEF Held

\* The paths a call may take are paths of the processor.
LEMMA CalledPaths ==
    ASSUME plugin \in Plugins, NEW i \in Procs, NEW c \in Callback, c # "first",
           NEW s \in Paths(i, c)
    PROVE  s \in PathsOf(Code(i)) /\ s \in Seq(Op)
<1>1. Code(i) \in Plugins \cup {Output} BY DEF Code, Procs
<1>2. \A d \in Callback : Code(i)[d] \subseteq Seq(Op)
  BY <1>1, PluginsAssumption
<1>3. CASE c # "brun"
  BY <1>2, <1>3 DEF Paths, PathsOf
<1>4. CASE c = "brun"
  <2>1. PICK f \in (IF i = 2 /\ first THEN plugin.first ELSE {<<>>}),
             b \in Code(i).brun : s = f \o b
    BY <1>4 DEF Paths
  <2>2. b \in Seq(Op) BY <1>2, <2>1 DEF Callback
  <2>3. CASE i = 2 /\ first
    <3>1. f \in Code(i).first BY <2>1, <2>3 DEF Code
    <3>2. f \in Seq(Op) BY <3>1, <1>2 DEF Callback
    <3>3. s \in Seq(Op) BY <2>1, <2>2, <3>2
    <3>4. s \in {f \o h : h \in Code(i).brun} BY <2>1
    <3> QED BY <3>1, <3>3, <3>4 DEF PathsOf, FirstPaths
  <2>4. CASE ~(i = 2 /\ first)
    <3>1. s = b BY <2>1, <2>2, <2>4
    <3> QED BY <3>1, <2>1, <2>2 DEF PathsOf, Callback
  <2> QED BY <2>3, <2>4
<1> QED BY <1>3, <1>4
-----------------------------------------------------------------------------
(***************************************************************************)
(* Steps.                                                                  *)
(***************************************************************************)

\* What Discipline says of the path an actor is on.
LEMMA PathFacts ==
    ASSUME Discipline, LInv, NEW t \in Actors
    PROVE  /\ plugin \notin Losing => UnlocksOwn(path[t])
           /\ plugin \notin Leaky => GivesBack(path[t])
           /\ plugin \notin Unlocked \cup Resetting => Guarded(path[t])
           /\ plugin \notin Mixed \cup Resetting => OwnRows(path[t])
           /\ plugin \in Resetting => NoRow(path[t])
<1>1. CASE path[t] = <<>>
  <2>1. Len(path[t]) = 0 BY <1>1
  <2> QED BY <2>1, AtFirst DEF UnlocksOwn, GivesBack, Guarded, OwnRows, NoRow
<1>2. CASE path[t] \in PathsOf(Code(proc[t]))
  <2>1. CASE proc[t] = 1
    <3>1. path[t] \in PathsOf(Output) BY <1>2, <2>1 DEF Code
    <3>2. UnlocksOwn(path[t]) /\ GivesBack(path[t]) /\ NoUse(path[t])
      BY <3>1 DEF Discipline
    <3> QED BY <3>2 DEF NoUse, Guarded, OwnRows, NoRow
  <2>2. CASE proc[t] = 2
    <3>1. path[t] \in PathsOf(plugin) BY <1>2, <2>2 DEF Code
    <3> QED BY <3>1 DEF Discipline, LInv
  <2> QED BY <2>1, <2>2 DEF LInv, Procs
<1> QED BY <1>1, <1>2 DEF LInv, OnPath

\* An actor whose callback has returned, or throws, has given the lock back.
LEMMA AtRest ==
    ASSUME Discipline, LInv, NEW t \in Actors, AtEnd(t) \/ At(t, "throw"),
           plugin \notin Leaky
    PROVE  root # t
<1>1. GivesBack(path[t]) BY PathFacts
<1>2. CASE AtEnd(t)
  <2>1. pos[t] = Len(path[t]) + 1 BY <1>2 DEF AtEnd, LInv, OnPath
  <2> QED BY <1>1, <2>1 DEF GivesBack, LInv, OnlyThere
<1>3. CASE At(t, "throw")
  <2>1. pos[t] \in 1..Len(path[t]) BY <1>3 DEF At, AtEnd, LInv, OnPath
  <2> QED BY <1>1, <1>3, <2>1 DEF At, GivesBack, LInv, OnlyThere
<1> QED BY <1>2, <1>3

\* Between callbacks the path is empty and at its end.
LEMMA Waiting ==
    ASSUME LInv, NEW t \in Actors, call[t] \in {"idle", "enter"}
    PROVE  AtEnd(t)
BY DEF LInv, OnPath, AtEnd

\* An actor goes to the beginning of path s of processor i.
Goes(t, i, c, s) ==
    /\ proc' = [proc EXCEPT ![t] = i] /\ call' = [call EXCEPT ![t] = c]
    /\ path' = [path EXCEPT ![t] = s] /\ pos' = [pos EXCEPT ![t] = 1]

\* LInv is kept by every call and return.
LEMMA GoesKeeps ==
    ASSUME Discipline, LInv, NEW t \in Actors, NEW i \in Procs, NEW c \in CallNames,
           NEW s \in Seq(Op), s \in PathsOf(Code(i)) \cup {<<>>},
           c \in {"idle", "enter"} => s = <<>>, Goes(t, i, c, s),
           AtEnd(t) \/ At(t, "throw"),
           UNCHANGED <<plugin, root>>, next' \in Nat, ev' \in [Actors -> Nat]
    PROVE  LInv'
<1>1. /\ plugin' \in Plugins /\ proc' \in [Actors -> Procs]
      /\ call' \in [Actors -> CallNames] /\ path' \in [Actors -> Seq(Op)]
      /\ pos' \in [Actors -> Nat] /\ root' \in Actors \cup {Nobody}
  BY DEF LInv, Goes
<1>2. ASSUME NEW u \in Actors PROVE OnPath(u)' /\ HoldsLock(u)' /\ OnlyThere(u)'
  <2>1. CASE u = t
    <3>1. path'[t] = s /\ pos'[t] = 1 /\ proc'[t] = i /\ call'[t] = c
      BY DEF Goes, LInv
    <3>2. OnPath(t)' BY <3>1 DEF OnPath, Code
    <3>3. HoldsLock(t)' BY <3>1, AtFirst DEF HoldsLock
    <3>4. OnlyThere(t)' BY AtRest DEF OnlyThere
    <3> QED BY <2>1, <3>2, <3>3, <3>4
  <2>2. CASE u # t
    <3>1. /\ path'[u] = path[u] /\ pos'[u] = pos[u] /\ proc'[u] = proc[u]
          /\ call'[u] = call[u]
      BY <2>2 DEF Goes, LInv
    <3> QED BY <3>1 DEF LInv, OnPath, HoldsLock, OnlyThere, Code
  <2> QED BY <2>1, <2>2
<1> QED BY <1>1, <1>2 DEF LInv

\* VInv is kept when members and rows are left alone and the others' events stay.
LEMMA GoesKeepsValues ==
    ASSUME LInv, VInv, NEW t \in Actors, NEW i, NEW c, NEW s, Goes(t, i, c, s),
           UNCHANGED <<plugin, torn, buf>>,
           \A u \in Actors \ {t} : ev'[u] = ev[u]
    PROVE  VInv'
<1>1. ASSUME NEW u \in Actors, OwnValues(u) PROVE OwnValues(u)'
  <2>1. CASE u = t
    <3>1. pos'[t] = 1 BY DEF Goes, LInv
    <3> QED BY <2>1, <3>1, AtFirst DEF OwnValues
  <2>2. CASE u # t
    <3>1. path'[u] = path[u] /\ pos'[u] = pos[u] BY <2>2 DEF Goes, LInv
    <3> QED BY <1>1, <2>2, <3>1 DEF OwnValues
  <2> QED BY <2>1, <2>2
<1> QED BY <1>1 DEF VInv

\* An operation other than lock, unlock and makeOnce keeps LInv.
LEMMA OpKeeps ==
    ASSUME LInv, NEW t \in Actors, ~AtEnd(t), Advance(t), root' = root,
           path[t][pos[t]] \notin {"lock", "unlock"}
    PROVE  LInv'
<1> DEFINE s == path[t]  k == pos[t]
<1>1. /\ UNCHANGED <<plugin, next, ev, proc, call, path>>
      /\ pos' = [pos EXCEPT ![t] = k + 1]
  BY DEF Advance, options
<1>2. s \in Seq(Op) /\ k \in 1..Len(s) BY DEF LInv, OnPath, AtEnd
<1>3. Held(s, k + 1) <=> Held(s, k) BY <1>2, HeldNext
<1>4. pos' \in [Actors -> Nat] BY <1>1 DEF LInv
<1>5. ASSUME NEW u \in Actors PROVE OnPath(u)' /\ HoldsLock(u)' /\ OnlyThere(u)'
  <2>1. CASE u = t
    <3>1. pos'[t] = k + 1 BY <1>1 DEF LInv
    <3> QED BY <1>1, <1>2, <1>3, <2>1, <3>1
            DEF LInv, OnPath, HoldsLock, OnlyThere, Code
  <2>2. CASE u # t
    <3>1. pos'[u] = pos[u] BY <1>1, <2>2 DEF LInv
    <3> QED BY <1>1, <3>1 DEF LInv, OnPath, HoldsLock, OnlyThere, Code
  <2> QED BY <2>1, <2>2
<1> QED BY <1>1, <1>4, <1>5 DEF LInv

\* Taking the lock keeps LInv: nobody else is between lock and unlock.
LEMMA LockKeeps ==
    ASSUME LInv, NEW t \in Actors, Lock(t) PROVE LInv'
<1> DEFINE s == path[t]  k == pos[t]
<1>1. /\ UNCHANGED <<plugin, next, ev, proc, call, path>>
      /\ pos' = [pos EXCEPT ![t] = k + 1] /\ root' = t /\ root \in {Nobody, t}
      /\ ~AtEnd(t) /\ s[k] = "lock"
  BY DEF Lock, Advance, options, At
<1>2. s \in Seq(Op) /\ k \in 1..Len(s) BY <1>1 DEF LInv, OnPath, AtEnd
<1>3. Held(s, k + 1) BY <1>1, <1>2, HeldNext
<1>4. pos' \in [Actors -> Nat] BY <1>1 DEF LInv
<1>5. ASSUME NEW u \in Actors PROVE OnPath(u)' /\ HoldsLock(u)' /\ OnlyThere(u)'
  <2>1. CASE u = t
    <3>1. pos'[t] = k + 1 BY <1>1 DEF LInv
    <3> QED BY <1>1, <1>2, <1>3, <2>1, <3>1
            DEF LInv, OnPath, HoldsLock, OnlyThere, Code
  <2>2. CASE u # t
    <3>1. pos'[u] = pos[u] BY <1>1, <2>2 DEF LInv
    <3>2. root # u BY <1>1, <2>2, PluginsAssumption
    <3>3. plugin \notin Losing => ~Held(path[u], pos[u]) BY <3>2 DEF LInv, HoldsLock
    <3> QED BY <1>1, <2>2, <3>1, <3>3 DEF LInv, OnPath, HoldsLock, OnlyThere, Code
  <2> QED BY <2>1, <2>2
<1> QED BY <1>1, <1>4, <1>5 DEF LInv

\* Releasing it, by RootUnLock or by a makeOnce that returns, keeps LInv.
LEMMA UnlockKeeps ==
    ASSUME LInv, NEW t \in Actors, NEW n \in 1..(Len(path[t]) + 1),
           plugin \notin Losing => Held(path[t], pos[t]) /\ ~Held(path[t], n),
           UNCHANGED <<plugin, next, ev, proc, call, path>>,
           pos' = [pos EXCEPT ![t] = n], root' = Nobody \/ (root # t /\ root' = root)
    PROVE  LInv'
<1>1. pos' \in [Actors -> Nat] BY DEF LInv
<1>2. plugin \notin Losing => root = t BY DEF LInv, HoldsLock
<1>3. ASSUME NEW u \in Actors PROVE OnPath(u)' /\ HoldsLock(u)' /\ OnlyThere(u)'
  <2>1. root' = u => root = u BY PluginsAssumption
  <2>2. CASE u = t
    <3>1. pos'[t] = n BY DEF LInv
    <3>2. root' # t BY PluginsAssumption
    <3> QED BY <2>2, <3>1, <3>2, <1>2 DEF LInv, OnPath, HoldsLock, OnlyThere, Code
  <2>3. CASE u # t
    <3>1. pos'[u] = pos[u] BY <2>3 DEF LInv
    <3>2. plugin \notin Losing => ~Held(path[u], pos[u])
      BY <1>2, <2>3 DEF LInv, HoldsLock
    <3> QED BY <2>1, <3>1, <3>2 DEF LInv, OnPath, HoldsLock, OnlyThere, Code
  <2> QED BY <2>2, <2>3
<1>4. root' \in Actors \cup {Nobody} BY DEF LInv
<1> QED BY <1>1, <1>3, <1>4 DEF LInv

\* An operation other than set and row keeps VInv; n is the place after it.
LEMMA OpKeepsValues ==
    ASSUME Discipline, LInv, VInv, NEW t \in Actors, ~AtEnd(t),
           NEW n \in 1..(Len(path[t]) + 1),
           \/ n = pos[t] + 1 /\ path[t][pos[t]] # "set"
           \/ plugin \notin Losing => ~Held(path[t], n),
           pos' = [pos EXCEPT ![t] = n],
           UNCHANGED <<plugin, path, ev, buf>>,
           plugin \notin Mixed \cup Losing /\ ~torn => ~torn'
    PROVE  VInv'
<1>1. ASSUME plugin \notin Mixed \cup Losing \cup Resetting,
             NEW u \in Actors, OwnValues(u)
      PROVE  OwnValues(u)'
  <2>1. CASE u # t
    <3>1. pos'[u] = pos[u] BY <2>1 DEF LInv
    <3> QED BY <1>1, <3>1 DEF OwnValues
  <2>2. CASE u = t
    <3>1. pos'[t] = n BY DEF LInv
    <3>2. path[t] \in Seq(Op) /\ pos[t] \in 1..Len(path[t])
      BY DEF LInv, OnPath, AtEnd
    <3>3. CASE n = pos[t] + 1 /\ path[t][pos[t]] # "set"
      <4>1. Assigned(path[t], n) => Assigned(path[t], pos[t])
        BY <3>2, <3>3, AssignedNext
      <4> QED BY <1>1, <2>2, <3>1, <4>1 DEF OwnValues
    <3>4. CASE plugin \notin Losing => ~Held(path[t], n)
      <4>1. OwnRows(path[t]) BY <1>1, PathFacts
      <4>2. ~Assigned(path[t], n) BY <1>1, <3>2, <3>4, <4>1, AssignedHeld
      <4> QED BY <2>2, <3>1, <4>2 DEF OwnValues
    <3> QED BY <3>3, <3>4
  <2> QED BY <2>1, <2>2
<1> QED BY <1>1 DEF VInv

\* Setting the members keeps VInv: nobody else is between set and unlock.
LEMMA AssignKeepsValues ==
    ASSUME Discipline, LInv, VInv, NEW t \in Actors, Assign(t)
    PROVE  VInv'
<1>1. /\ UNCHANGED <<plugin, path, ev, torn>> /\ buf' = ev[t]
      /\ pos' = [pos EXCEPT ![t] = pos[t] + 1]
      /\ ~AtEnd(t) /\ path[t][pos[t]] = "set"
  BY DEF Assign, Advance, options, At
<1>2. ASSUME plugin \notin Mixed \cup Losing \cup Resetting, NEW u \in Actors
      PROVE  OwnValues(u)'
  <2>1. CASE u = t BY <1>1, <2>1 DEF OwnValues
  <2>2. CASE u # t
    <3>1. OwnRows(path[t]) /\ OwnRows(path[u]) BY <1>2, PathFacts
    <3>2. pos[t] \in 1..Len(path[t]) BY <1>1 DEF LInv, OnPath, AtEnd
    <3>3. Held(path[t], pos[t]) BY <1>1, <3>1, <3>2 DEF OwnRows
    <3>4. root = t BY <1>2, <3>3 DEF LInv, HoldsLock
    <3>5. ~Held(path[u], pos[u]) BY <1>2, <2>2, <3>4 DEF LInv, HoldsLock
    <3>6. path[u] \in Seq(Op) /\ pos[u] \in 1..(Len(path[u]) + 1)
      BY DEF LInv, OnPath
    <3>7. ~Assigned(path[u], pos[u]) BY <3>1, <3>5, <3>6, AssignedHeld
    <3>8. pos'[u] = pos[u] BY <1>1, <2>2 DEF LInv
    <3> QED BY <1>1, <3>7, <3>8 DEF OwnValues
  <2> QED BY <2>1, <2>2
<1> QED BY <1>1, <1>2 DEF VInv

\* A row is filled with the values of the thread's event.
LEMMA FillKeepsValues ==
    ASSUME Discipline, LInv, VInv, NEW t \in Actors, Fill(t)
    PROVE  VInv'
<1> DEFINE n == pos[t] + 1
<1>1. /\ UNCHANGED <<plugin, path, ev, buf>>
      /\ pos' = [pos EXCEPT ![t] = n]
      /\ ~AtEnd(t) /\ path[t][pos[t]] \in {"row", "hist"}
      /\ path[t][pos[t]] = "row" => torn' = (torn \/ buf # ev[t])
      /\ path[t][pos[t]] = "hist" => torn' = torn
  BY DEF Fill, Advance, options, At
<1>2. n \in 1..(Len(path[t]) + 1) /\ pos[t] \in 1..Len(path[t])
  BY <1>1 DEF LInv, OnPath, AtEnd
<1>3. CASE plugin \in Mixed \cup Losing BY <1>1, <1>3 DEF VInv
<1>4. CASE plugin \notin Mixed \cup Losing
  <2>1. ~torn'
    <3>0. ~torn BY <1>4 DEF VInv
    <3>1. CASE path[t][pos[t]] = "hist" BY <1>1, <3>0, <3>1
    <3>2. CASE path[t][pos[t]] = "row"
      <4>1. CASE plugin \in Resetting
        <5>1. NoRow(path[t]) BY <4>1, PathFacts
        <5> QED BY <1>2, <3>2, <5>1 DEF NoRow
      <4>2. CASE plugin \notin Resetting
        <5>1. OwnRows(path[t]) BY <1>4, <4>2, PathFacts
        <5>2. Assigned(path[t], pos[t]) BY <1>2, <3>2, <5>1 DEF OwnRows
        <5>3. buf = ev[t] BY <1>4, <4>2, <5>2 DEF VInv, OwnValues
        <5> QED BY <1>1, <3>0, <3>2, <5>3
      <4> QED BY <4>1, <4>2
    <3> QED BY <1>1, <3>1, <3>2
  <2>2. path[t][pos[t]] # "set" BY <1>1
  <2> QED BY <1>1, <1>2, <2>1, <2>2, OpKeepsValues
<1> QED BY <1>3, <1>4

-----------------------------------------------------------------------------
(***************************************************************************)
(* The theorems.                                                           *)
(***************************************************************************)

Inv == LInv /\ VInv

\* A call of, or a return from, a callback other than Take and Throw.
LEMMA CallKeeps ==
    ASSUME Discipline, Inv, NEW t \in Actors, NEW i \in Procs, NEW c \in CallNames,
           \/ c \in Callback \ {"first"} /\ Call(t, i, c)
           \/ Move(t, i, c),
           AtEnd(t) \/ At(t, "throw"),
           UNCHANGED <<plugin, root, torn, buf>>, next' \in Nat, ev' \in [Actors -> Nat],
           \A u \in Actors \ {t} : ev'[u] = ev[u]
    PROVE  Inv'
<1>1. PICK s \in Seq(Op) :
         /\ s \in PathsOf(Code(i)) \cup {<<>>}
         /\ c \in {"idle", "enter"} => s = <<>>
         /\ Goes(t, i, c, s)
  <2>1. CASE Move(t, i, c)
    <3>1. <<>> \in Seq(Op) OBVIOUS
    <3> QED BY <2>1, <3>1 DEF Move, Goes
  <2>2. CASE c \in Callback \ {"first"} /\ Call(t, i, c)
    <3>1. PICK s \in Paths(i, c) : Goes(t, i, c, s) BY <2>2 DEF Call, Goes
    <3>2. s \in PathsOf(Code(i)) /\ s \in Seq(Op)
      BY <2>2, <3>1, CalledPaths DEF Inv, LInv
    <3>3. c \notin {"idle", "enter"} BY <2>2 DEF Callback
    <3> QED BY <3>1, <3>2, <3>3
  <2> QED BY <2>1, <2>2
<1>2. LInv' BY <1>1, GoesKeeps DEF Inv
<1>3. VInv' BY <1>1, GoesKeepsValues DEF Inv
<1> QED BY <1>2, <1>3 DEF Inv

\* Every step of a thread between callbacks keeps the invariant.
LEMMA OneEventKeeps ==
    ASSUME Discipline, Inv, NEW t \in Threads, OneEvent(t) PROVE Inv'
<1> USE DEF CallNames, Callback
<1>0. t \in Actors /\ proc[t] \in Procs /\ next \in Nat /\ ev \in [Actors -> Nat]
  BY DEF Actors, Inv, LInv
<1>1. CASE Take(t)
  <2>1. AtEnd(t) BY <1>0, <1>1, Waiting DEF Take, Inv
  <2>2. ev' = [ev EXCEPT ![t] = next] /\ next' \in Nat /\ Move(t, 1, "enter")
        /\ UNCHANGED <<plugin, root, torn, buf>>
    BY <1>0, <1>1 DEF Take, heap, options
  <2> QED BY <1>0, <2>1, <2>2, CallKeeps DEF Procs
<1>2. CASE CallErun(t)
  <2>1. AtEnd(t) BY <1>0, <1>2, Waiting DEF CallErun, Inv
  <2>2. Call(t, proc[t], "erun") /\ UNCHANGED <<plugin, root, torn, buf, next, ev>>
    BY <1>2 DEF CallErun, heap, options
  <2> QED BY <1>0, <2>1, <2>2, CallKeeps
<1>3. CASE CallBrun(t)
  <2>1. AtEnd(t) BY <1>0, <1>3, Waiting DEF CallBrun, Inv
  <2>2. Call(t, proc[t], "brun") /\ UNCHANGED <<plugin, root, torn, buf, next, ev>>
    BY <1>3 DEF CallBrun, heap, options
  <2> QED BY <1>0, <2>1, <2>2, CallKeeps
<1>4. CASE BrunAfterErun(t)
  <2>1. AtEnd(t) /\ Call(t, proc[t], "brun")
        /\ UNCHANGED <<plugin, root, torn, buf, next, ev>>
    BY <1>4 DEF BrunAfterErun, heap, options
  <2> QED BY <1>0, <2>1, CallKeeps
<1>5. CASE EvntAfterBrun(t)
  <2>1. AtEnd(t) /\ Call(t, proc[t], "evnt")
        /\ UNCHANGED <<plugin, root, torn, buf, next, ev>>
    BY <1>5 DEF EvntAfterBrun, heap, options
  <2> QED BY <1>0, <2>1, CallKeeps
<1>6. CASE CallEvnt(t)
  <2>1. AtEnd(t) BY <1>0, <1>6, Waiting DEF CallEvnt, Inv
  <2>2. Call(t, proc[t], "evnt") /\ UNCHANGED <<plugin, root, torn, buf, next, ev>>
    BY <1>6 DEF CallEvnt, heap, options
  <2> QED BY <1>0, <2>1, <2>2, CallKeeps
<1>7. CASE EvntReturns(t)
  <2>1. AtEnd(t) /\ UNCHANGED <<plugin, root, torn, buf, next>>
        /\ \/ Move(t, 2, "enter") /\ ev' = ev
           \/ Move(t, 1, "idle") /\ ev' = [ev EXCEPT ![t] = 0]
    BY <1>7 DEF EvntReturns, heap, options
  <2>2. ev' \in [Actors -> Nat] /\ \A u \in Actors \ {t} : ev'[u] = ev[u]
    BY <1>0, <2>1
  <2> QED BY <1>0, <2>1, <2>2, CallKeeps DEF Procs
<1>8. CASE Throw(t)
  <2>1. At(t, "throw") /\ UNCHANGED <<plugin, root, torn, buf, next>>
        /\ Move(t, 1, "dead") /\ ev' = [ev EXCEPT ![t] = 0]
    BY <1>8 DEF Throw, heap, options
  <2> QED BY <1>0, <2>1, CallKeeps DEF Procs
<1> QED BY <1>1, <1>2, <1>3, <1>4, <1>5, <1>6, <1>7, <1>8 DEF OneEvent

\* So does every step of the main thread between callbacks.
LEMMA MainKeeps ==
    ASSUME Discipline, Inv, MainInit \/ MainFini PROVE Inv'
<1>1. AtEnd(Main) /\ UNCHANGED <<plugin, root, torn, buf, next, ev>>
  BY DEF MainInit, MainFini, heap, options
<1>2. PICK i \in Procs, c \in CallNames :
         \/ c \in Callback \ {"first"} /\ Call(Main, i, c)
         \/ Move(Main, i, c)
  <2>1. CASE MainInit
    BY <2>1 DEF MainInit, Procs, CallNames, Callback
  <2>2. CASE MainFini
    BY <2>2 DEF MainFini, FiniErun, Procs, CallNames, Callback
  <2> QED BY <2>1, <2>2
<1>3. Main \in Actors /\ next \in Nat /\ ev \in [Actors -> Nat]
  BY DEF Actors, Inv, LInv
<1> QED BY <1>1, <1>2, <1>3, CallKeeps

\* And every operation of an actor.
LEMMA StepKeeps ==
    ASSUME Discipline, Inv, NEW t \in Actors, Step(t) PROVE Inv'
<1> USE DEF Inv
<1> DEFINE s == path[t]  k == pos[t]
<1>1. ASSUME ~AtEnd(t) PROVE s \in Seq(Op) /\ k \in 1..Len(s) /\ k + 1 \in 1..(Len(s) + 1)
  BY <1>1 DEF LInv, OnPath, AtEnd
<1>2. CASE Lock(t)
  <2>1. /\ ~AtEnd(t) /\ s[k] # "set" /\ pos' = [pos EXCEPT ![t] = k + 1]
        /\ UNCHANGED <<plugin, path, ev, buf, torn>>
    BY <1>2 DEF Lock, At, Advance, options
  <2> QED BY <1>1, <1>2, <2>1, LockKeeps, OpKeepsValues
<1>3. CASE Unlock(t)
  <2>1. /\ ~AtEnd(t) /\ s[k] = "unlock" /\ pos' = [pos EXCEPT ![t] = k + 1]
        /\ UNCHANGED <<plugin, next, ev, proc, call, path, buf, torn>>
        /\ root' = Nobody \/ (root # t /\ root' = root)
    BY <1>3 DEF Unlock, At, Advance, options
  <2>2. plugin \notin Losing => Held(s, k) BY <1>1, <2>1, PathFacts DEF UnlocksOwn
  <2>3. ~Held(s, k + 1) BY <1>1, <2>1, HeldNext
  <2>4. LInv' BY <1>1, <2>1, <2>2, <2>3, UnlockKeeps
  <2> QED BY <1>1, <2>1, <2>4, OpKeepsValues
<1>4. CASE MakeOnce(t)
  <2>0. ~AtEnd(t) /\ s[k] = "makeOnce" BY <1>4 DEF MakeOnce, At
  <2>1. CASE made # <<>>
    <3>1. /\ pos' = [pos EXCEPT ![t] = Len(s) + 1] /\ root' = Nobody
          /\ UNCHANGED <<plugin, next, ev, proc, call, path, buf, torn>>
      BY <1>4, <2>1 DEF MakeOnce, options
    <3>2. plugin \notin Losing => Held(s, k) /\ ~Held(s, Len(s) + 1)
      BY <1>1, <2>0, PathFacts DEF UnlocksOwn
    <3>3. Len(s) + 1 \in 1..(Len(s) + 1) BY <1>1, <2>0
    <3>4. LInv' BY <3>1, <3>2, <3>3, UnlockKeeps
    <3>5. VInv' BY <2>0, <3>1, <3>2, <3>3, OpKeepsValues
    <3> QED BY <3>4, <3>5
  <2>2. CASE made = <<>>
    <3>1. Advance(t) /\ root' = root /\ pos' = [pos EXCEPT ![t] = k + 1]
          /\ UNCHANGED <<plugin, path, ev, buf, torn>>
      BY <1>4, <2>2 DEF MakeOnce, Advance, options
    <3>2. LInv' BY <2>0, <3>1, OpKeeps
    <3>3. VInv' BY <1>1, <2>0, <3>1, OpKeepsValues
    <3> QED BY <3>2, <3>3
  <2> QED BY <2>1, <2>2
<1>5. CASE Assign(t)
  <2>1. ~AtEnd(t) /\ s[k] = "set" /\ Advance(t) /\ root' = root
    BY <1>5 DEF Assign, At
  <2> QED BY <1>5, <2>1, OpKeeps, AssignKeepsValues
<1>6. CASE Fill(t)
  <2>1. ~AtEnd(t) /\ s[k] \in {"row", "hist"} /\ Advance(t) /\ root' = root
    BY <1>6 DEF Fill, At
  <2> QED BY <1>6, <2>1, OpKeeps, FillKeepsValues
<1>7. CASE Book(t) \/ FindOutput(t) \/ AddObjects(t) \/ OpenOutput(t) \/ CloseOutput(t)
  <2>1. /\ ~AtEnd(t) /\ Advance(t) /\ UNCHANGED <<root, buf, torn>>
        /\ s[k] \notin {"lock", "unlock", "set"}
    BY <1>7 DEF Book, FindOutput, AddObjects, OpenOutput, CloseOutput, At
  <2>2. UNCHANGED <<plugin, path, ev>> /\ pos' = [pos EXCEPT ![t] = k + 1]
    BY <2>1 DEF Advance, options
  <2>3. LInv' BY <2>1, OpKeeps
  <2>4. VInv' BY <1>1, <2>1, <2>2, OpKeepsValues
  <2> QED BY <2>3, <2>4
<1> QED BY <1>2, <1>3, <1>4, <1>5, <1>6, <1>7 DEF Step

\* The invariant holds at the start,
LEMMA InitInv == Init => Inv
<1> SUFFICES ASSUME Init PROVE Inv OBVIOUS
<1>1. /\ plugin \in Plugins /\ next \in Nat /\ ev \in [Actors -> Nat]
      /\ proc \in [Actors -> Procs] /\ call \in [Actors -> CallNames]
      /\ path \in [Actors -> Seq(Op)] /\ pos \in [Actors -> Nat]
      /\ root \in Actors \cup {Nobody}
  BY DEF Init, Procs, CallNames
<1>2. ASSUME NEW t \in Actors
      PROVE  OnPath(t) /\ HoldsLock(t) /\ OnlyThere(t) /\ OwnValues(t)
  <2>1. path[t] = <<>> /\ pos[t] = 1 /\ root = Nobody BY DEF Init
  <2>2. ~Held(path[t], pos[t]) /\ ~Assigned(path[t], pos[t]) BY <2>1, AtFirst
  <2>3. root # t BY <2>1, PluginsAssumption
  <2> QED BY <2>1, <2>2, <2>3 DEF OnPath, HoldsLock, OnlyThere, OwnValues
<1>3. ~torn BY DEF Init
<1> QED BY <1>1, <1>2, <1>3 DEF Inv, LInv, VInv

\* and every step keeps it.
LEMMA NextInv == ASSUME Discipline, Inv, [Next]_vars PROVE Inv'
<1>1. CASE \E t \in Actors : Step(t) BY <1>1, StepKeeps
<1>2. CASE \E t \in Threads : OneEvent(t) BY <1>2, OneEventKeeps
<1>3. CASE MainInit \/ MainFini BY <1>3, MainKeeps
<1>4. CASE UNCHANGED vars
  BY <1>4 DEF vars, options, where, calls, members, output, Inv, LInv, VInv,
              OnPath, HoldsLock, OnlyThere, OwnValues, Code
<1> QED BY <1>1, <1>2, <1>3, <1>4 DEF Next, Done

\* So it holds for ever.
LEMMA Invariance == ASSUME Discipline PROVE Spec => []Inv
<1>1. Inv /\ [Next]_vars => Inv' BY NextInv
<1> QED BY InitInv, <1>1, PTL DEF Spec

\* Processors that keep to the discipline give the ROOT lock back whenever a
\* callback returns, for any threads and events.
THEOREM LocksComeBack == ASSUME Discipline PROVE Spec => []LockGivenBack
<1>1. Inv => LockGivenBack BY AtRest DEF Inv, LockGivenBack
<1> QED BY <1>1, Invariance, PTL

\* No two threads use the members, trees or histograms of a plugin at once.
THEOREM NoRaces == ASSUME Discipline PROVE Spec => []RaceFree
<1>1. Inv => RaceFree
  <2> SUFFICES ASSUME Inv, plugin \notin Unlocked \cup Resetting \cup Losing,
                      NEW t \in Actors, NEW u \in Actors, Uses(t), Uses(u)
               PROVE  t = u
    BY DEF RaceFree
  <2>1. ASSUME NEW v \in Actors, Uses(v) PROVE root = v
    <3>1. Guarded(path[v]) BY PathFacts DEF Inv
    <3>2. /\ pos[v] \in 1..Len(path[v])
          /\ path[v][pos[v]] \in {"set", "row", "hist"}
      BY <2>1 DEF Uses, At, AtEnd, Inv, LInv, OnPath
    <3>3. Held(path[v], pos[v]) BY <3>1, <3>2 DEF Guarded
    <3> QED BY <3>3 DEF Inv, LInv, HoldsLock
  <2> QED BY <2>1
<1> QED BY <1>1, Invariance, PTL

\* A row of a tree is filled with the values of one event.
THEOREM RowsAreWhole == ASSUME Discipline PROVE Spec => []RowsOfOneEvent
<1>1. Inv => RowsOfOneEvent BY DEF Inv, VInv, RowsOfOneEvent
<1> QED BY <1>1, Invariance, PTL

-----------------------------------------------------------------------------
(***************************************************************************)
(* The order of the calls.                                                 *)
(*                                                                         *)
(* What is used without the ROOT lock is used in init, brun, erun and fini *)
(* only.  Of the threads one at a time is in brun or erun of a processor,  *)
(* for it has the state mutex, and while one is there no thread is past    *)
(* that processor, unless events of two runs are in process together.      *)
(***************************************************************************)

Out == {"idle", "dead"}

\* Where the actors are, and what they hold there.
OrderInv ==
    /\ \A t \in Threads :
         /\ call[t] \in Out \cup {"enter", "erun", "brun", "evnt"}
         /\ call[t] \in Out <=> ev[t] = 0
         /\ call[t] \in Out => path[t] = <<>>
         /\ call[t] \in {"erun", "brun"} => state[proc[t]] = t
         /\ call[t] = "erun" => RunOf[ev[t]] # brunRun[proc[t]]
         /\ call[t] = "brun" => ~brunCalled[proc[t]]
    /\ call[Main] \in {"start", "init", "run", "erun", "fini", "done"}
    /\ call[Main] \in {"start", "run", "done"} => path[Main] = <<>>
    /\ call[Main] # "run" => \A t \in Threads : call[t] \in Out
    /\ \A t \in Actors : call[t] = "evnt" => path[t] \in Code(proc[t]).evnt

\* Thread t has an event and is past brun of processor i with it.
Passed(t, i) == ev[t] # 0 /\ (proc[t] > i \/ (proc[t] = i /\ call[t] = "evnt"))

\* Without overlap all events in process are of one run, and brun of every
\* processor that one of them is past was called for that run.
RunInv ==
    ~overlap =>
        /\ \A t, u \in Threads : ev[t] # 0 /\ ev[u] # 0 => RunOf[ev[t]] = RunOf[ev[u]]
        /\ \A t \in Threads : \A i \in Procs :
              Passed(t, i) => brunCalled[i] /\ brunRun[i] = RunOf[ev[t]]

PInv == Inv /\ TypeOK /\ OrderInv /\ RunInv

\* At first nobody is anywhere.
LEMMA InitPInv == Init => TypeOK /\ OrderInv /\ RunInv
<1> SUFFICES ASSUME Init PROVE TypeOK /\ OrderInv /\ RunInv OBVIOUS
<1> USE PluginsAssumption DEF Init
<1>1. TypeOK
  <2>1. /\ plugin \in Plugins /\ next \in 1..(NEvents + 1) /\ 0 \in 0..NEvents
        /\ first \in BOOLEAN /\ out \in {"null", "garbage", "set"}
    OBVIOUS
  <2>2. /\ proc \in [Actors -> Procs] /\ pos \in [Actors -> Nat \ {0}]
        /\ path \in [Actors -> Seq(Op)]
        /\ call \in [Actors -> Callback \cup {"start", "run", "done", "idle", "enter", "dead"}]
    BY DEF Procs
  <2>3. state \in [Procs -> Threads \cup {Nobody}] /\ brunRun \in [Procs -> Nat]
    OBVIOUS
  <2> QED BY <2>1, <2>2, <2>3 DEF TypeOK
<1>2. OrderInv BY DEF OrderInv, Out, Actors
<1>3. RunInv BY DEF RunInv, Passed, Actors
<1> QED BY <1>1, <1>2, <1>3

\* An operation of a callback keeps the types.
LEMMA StepTypeOK ==
    ASSUME PInv, Inv', NEW t \in Actors, Step(t) PROVE TypeOK'
<1> USE DEF TypeOK
<1>1. UNCHANGED <<plugin, isET, hasOutput, next, ev, calls, first, overlap>>
  BY DEF Step, Lock, Unlock, Book, Assign, Fill, MakeOnce, FindOutput, AddObjects,
         OpenOutput, CloseOutput, Advance, options
<1>2. pos' \in [Actors -> Nat \ {0}]
  <2>1. pos' \in [Actors -> Nat] /\ \A u \in Actors : pos'[u] \in Nat \ {0}
    BY DEF Inv, LInv, OnPath
  <2> QED BY <2>1
<1>3. ev[t] \in 0..NEvents BY DEF PInv
<1>4. CASE Lock(t) \/ Unlock(t) \/ Book(t) \/ MakeOnce(t)
  <2>1. UNCHANGED <<out, entries, buf, torn, isOpen, listed>>
    BY <1>4 DEF Lock, Unlock, Book, MakeOnce, output
  <2> QED BY <1>1, <1>2, <2>1 DEF PInv, calls, Inv, LInv, CallNames
<1>5. CASE Assign(t) \/ Fill(t)
  <2>1. /\ UNCHANGED <<out, isOpen, listed>> /\ buf' \in {buf, ev[t]}
        /\ entries' \in {entries, entries + 1} /\ torn' \in BOOLEAN
    BY <1>5 DEF Assign, Fill, output, PInv
  <2>2. buf' \in 0..NEvents /\ entries' \in Nat BY <1>3, <2>1 DEF PInv
  <2> QED BY <1>1, <1>2, <2>1, <2>2 DEF PInv, calls, Inv, LInv, CallNames
<1>6. CASE FindOutput(t) \/ AddObjects(t) \/ OpenOutput(t) \/ CloseOutput(t)
  <2>1. /\ UNCHANGED <<entries, buf, torn>> /\ out' \in {out, "set"}
        /\ isOpen' \in BOOLEAN /\ listed' \in BOOLEAN
    BY <1>6 DEF FindOutput, AddObjects, OpenOutput, CloseOutput, output, PInv
  <2> QED BY <1>1, <1>2, <2>1 DEF PInv, calls, Inv, LInv, CallNames
<1> QED BY <1>4, <1>5, <1>6 DEF Step

\* A call or a return keeps them.
LEMMA CallTypeOK ==
    ASSUME PInv, Inv', (\E t \in Threads : OneEvent(t)) \/ MainInit \/ MainFini PROVE TypeOK'
<1> USE PluginsAssumption DEF TypeOK
<1>1. UNCHANGED <<isET, hasOutput, out, entries, buf, torn, isOpen, listed>>
  BY DEF OneEvent, Take, CallErun, CallBrun, BrunAfterErun, EvntAfterBrun, CallEvnt,
         EvntReturns, Throw, MainInit, MainFini, heap, options, output
<1>2. pos' \in [Actors -> Nat \ {0}]
  <2>1. pos' \in [Actors -> Nat] /\ \A u \in Actors : pos'[u] \in Nat \ {0}
    BY DEF Inv, LInv, OnPath
  <2> QED BY <2>1
<1>3. first' \in BOOLEAN
  BY DEF OneEvent, Take, CallErun, CallBrun, BrunAfterErun, EvntAfterBrun, CallEvnt,
         EvntReturns, Throw, MainInit, MainFini, FiniErun, Call, Move, PInv
<1>4. /\ next' \in 1..(NEvents + 1) /\ ev' \in [Actors -> 0..NEvents] /\ overlap' \in BOOLEAN
      /\ state' \in [Procs -> Threads \cup {Nobody}] /\ brunRun' \in [Procs -> Nat]
      /\ brunCalled' \in [Procs -> BOOLEAN] /\ erunCalled' \in [Procs -> BOOLEAN]
  <2>1. ASSUME NEW t \in Threads, Take(t) PROVE <1>4
    <3>1. /\ next \in Event /\ ev' = [ev EXCEPT ![t] = next] /\ next' = next + 1
          /\ overlap' \in BOOLEAN /\ UNCHANGED calls
      BY <2>1 DEF Take
    <3>2. next' \in 1..(NEvents + 1) /\ next \in 0..NEvents BY <3>1 DEF Event
    <3>3. ev' \in [Actors -> 0..NEvents] BY <3>1, <3>2 DEF PInv
    <3> QED BY <3>1, <3>2, <3>3 DEF PInv, calls
  <2>2. ASSUME NEW t \in Threads, CallErun(t) PROVE <1>4 BY <2>2 DEF CallErun, PInv
  <2>3. ASSUME NEW t \in Threads, CallBrun(t) PROVE <1>4 BY <2>3 DEF CallBrun, PInv
  <2>4. ASSUME NEW t \in Threads, BrunAfterErun(t) PROVE <1>4
    BY <2>4 DEF BrunAfterErun, PInv
  <2>5. ASSUME NEW t \in Threads, EvntAfterBrun(t) PROVE <1>4
    <3>1. ev[t] # 0 BY <2>5 DEF EvntAfterBrun, PInv, OrderInv, Out
    <3>2. ev[t] \in Event BY <3>1 DEF PInv, Actors, Event
    <3>3. RunOf[ev[t]] \in Nat BY <3>2
    <3> QED BY <2>5, <3>3 DEF EvntAfterBrun, PInv
  <2>6. ASSUME NEW t \in Threads, CallEvnt(t) \/ EvntReturns(t) \/ Throw(t) PROVE <1>4
    <3>1. ev' \in {ev, [ev EXCEPT ![t] = 0]} /\ UNCHANGED <<next, overlap, calls>>
      BY <2>6 DEF CallEvnt, EvntReturns, Throw
    <3>2. 0 \in 0..NEvents /\ ev \in [Actors -> 0..NEvents] BY DEF PInv
    <3>3. ev' \in [Actors -> 0..NEvents] BY <3>1, <3>2
    <3> QED BY <3>1, <3>3 DEF PInv, calls
  <2>7. CASE MainInit BY <2>7 DEF MainInit, PInv, calls
  <2>8. CASE MainFini BY <2>8 DEF MainFini, FiniErun, PInv, calls
  <2> QED BY <2>1, <2>2, <2>3, <2>4, <2>5, <2>6, <2>7, <2>8 DEF OneEvent
<1> QED BY <1>1, <1>2, <1>3, <1>4 DEF PInv, Inv, LInv, CallNames

\* An operation of a callback leaves the order of the calls alone.
LEMMA StepOrder ==
    ASSUME PInv, NEW t \in Actors, Step(t) PROVE OrderInv' /\ RunInv'
<1>1. UNCHANGED <<plugin, next, ev, proc, call, path, overlap, calls>>
  BY DEF Step, Lock, Unlock, Book, Assign, Fill, MakeOnce, FindOutput, AddObjects,
         OpenOutput, CloseOutput, Advance, options
<1> QED BY <1>1 DEF PInv, OrderInv, RunInv, Passed, calls, Code

\* The main thread calls something, or goes on to the next place.
LEMMA MainOrder ==
    ASSUME PInv, MainInit \/ MainFini PROVE OrderInv' /\ RunInv'
<1>1. /\ UNCHANGED <<plugin, ev, overlap, state, brunCalled, brunRun>>
      /\ \E i \in Procs : proc' = [proc EXCEPT ![Main] = i]
      /\ \E c \in {"init", "run", "erun", "fini", "done"} :
            /\ call' = [call EXCEPT ![Main] = c]
            /\ c \in {"run", "done"} => path' = [path EXCEPT ![Main] = <<>>]
            /\ c # "run" => \A t \in Threads : call[t] \in Out
      /\ \E s : path' = [path EXCEPT ![Main] = s]
  <2> USE DEF PInv, OrderInv, Out, heap, options, calls, Call, Move, Procs
  <2>1. CASE MainInit BY <2>1 DEF MainInit
  <2>2. CASE MainFini BY <2>2 DEF MainFini, FiniErun, ThreadsOut
  <2> QED BY <2>1, <2>2
<1>2. Main \in Actors /\ Main \notin Threads /\ Threads \subseteq Actors
  BY PluginsAssumption DEF Actors
<1>3. \A t \in Threads : proc'[t] = proc[t] /\ call'[t] = call[t] /\ path'[t] = path[t]
  BY <1>1, <1>2 DEF PInv, TypeOK
<1>4. call'[Main] \in {"init", "run", "erun", "fini", "done"}
      /\ (call'[Main] \in {"run", "done"} => path'[Main] = <<>>)
      /\ (call'[Main] # "run" => \A t \in Threads : call[t] \in Out)
  BY <1>1, <1>2 DEF PInv, TypeOK
<1>5. OrderInv'
  <2>1. \A t \in Actors : t # Main => t \in Threads BY DEF Actors
  <2> QED BY <1>1, <1>2, <1>3, <1>4, <2>1 DEF PInv, OrderInv, Code
<1>6. RunInv' BY <1>1, <1>2, <1>3 DEF PInv, RunInv, Passed
<1> QED BY <1>5, <1>6

\* What a thread's call or return does: t goes to place c of processor i.
LEMMA ThreadGoes ==
    ASSUME PInv, NEW t \in Threads, NEW i \in Procs, NEW c, NEW s, Goes(t, i, c, s)
    PROVE  /\ proc'[t] = i /\ call'[t] = c /\ path'[t] = s
           /\ \A u \in Actors : u # t => /\ proc'[u] = proc[u] /\ call'[u] = call[u]
                                         /\ path'[u] = path[u]
           /\ t \in Actors /\ t # Main /\ proc[t] \in Procs
BY PluginsAssumption DEF Goes, PInv, TypeOK, Actors

\* The order is kept if what the other threads hold is.
LEMMA OrderKept ==
    ASSUME PInv, NEW t \in Threads, NEW i \in Procs, NEW c, NEW s, Goes(t, i, c, s),
           call[Main] = "run", UNCHANGED plugin,
           c \in Out \cup {"enter", "erun", "brun", "evnt"},
           c \in Out <=> ev'[t] = 0, c \in Out => s = <<>>,
           c \in {"erun", "brun"} => state'[i] = t,
           c = "erun" => RunOf[ev'[t]] # brunRun'[i],
           c = "brun" => ~brunCalled'[i],
           c = "evnt" => s \in Code(i).evnt,
           \A u \in Threads : u # t => ev'[u] = ev[u],
           \A u \in Threads : u # t /\ call[u] \in {"erun", "brun"} =>
               /\ state'[proc[u]] = state[proc[u]] /\ brunRun'[proc[u]] = brunRun[proc[u]]
               /\ brunCalled'[proc[u]] = brunCalled[proc[u]]
    PROVE  OrderInv'
<1>1. /\ proc'[t] = i /\ call'[t] = c /\ path'[t] = s
      /\ \A u \in Actors : u # t => /\ proc'[u] = proc[u] /\ call'[u] = call[u]
                                    /\ path'[u] = path[u]
      /\ t \in Actors /\ t # Main
  BY ThreadGoes
<1>2. Threads \subseteq Actors /\ Main \in Actors BY DEF Actors
<1>3. ASSUME NEW u \in Threads PROVE OrderInv!1!(u)'
  <2>1. CASE u = t BY <1>1, <2>1
  <2>2. CASE u # t
    <3>1. OrderInv!1!(u) BY DEF PInv, OrderInv
    <3> QED BY <1>1, <1>2, <2>2, <3>1
  <2> QED BY <2>1, <2>2
<1>4. ASSUME NEW u \in Actors, call'[u] = "evnt" PROVE path'[u] \in Code(proc[u])'.evnt
  <2>1. CASE u = t BY <1>1, <1>4, <2>1 DEF Code
  <2>2. CASE u # t BY <1>1, <1>4, <2>2 DEF PInv, OrderInv, Code
  <2> QED BY <2>1, <2>2
<1> QED BY <1>1, <1>2, <1>3, <1>4 DEF PInv, OrderInv

\* So are the runs, if brun was called for whoever is past a processor.
LEMMA RunKept ==
    ASSUME PInv, NEW t \in Threads, NEW i \in Procs, NEW c, NEW s, Goes(t, i, c, s),
           ~overlap' => ~overlap,
           \A u \in Threads : u # t => ev'[u] = ev[u],
           ~overlap' =>
              /\ \A u \in Threads : u # t /\ ev[u] # 0 /\ ev'[t] # 0 =>
                     RunOf[ev'[t]] = RunOf[ev[u]]
              /\ \A j \in Procs : ev'[t] # 0 /\ (i > j \/ (i = j /\ c = "evnt")) =>
                     brunCalled'[j] /\ brunRun'[j] = RunOf[ev'[t]]
              /\ \A u \in Threads : \A j \in Procs : u # t /\ Passed(u, j) =>
                     brunCalled'[j] /\ brunRun'[j] = RunOf[ev[u]]
    PROVE  RunInv'
<1>1. /\ proc'[t] = i /\ call'[t] = c
      /\ \A u \in Actors : u # t => proc'[u] = proc[u] /\ call'[u] = call[u]
  BY ThreadGoes
<1>2. Threads \subseteq Actors BY DEF Actors
<1> SUFFICES ASSUME ~overlap' PROVE RunInv!2' BY DEF RunInv
<1>3. ASSUME NEW u \in Threads, NEW v \in Threads, ev'[u] # 0, ev'[v] # 0
      PROVE  RunOf[ev'[u]] = RunOf[ev'[v]]
  BY <1>3 DEF PInv, RunInv
<1>4. ASSUME NEW u \in Threads, NEW j \in Procs, Passed(u, j)'
      PROVE  brunCalled'[j] /\ brunRun'[j] = RunOf[ev'[u]]
  <2>1. CASE u = t BY <1>1, <1>4, <2>1 DEF Passed
  <2>2. CASE u # t
    <3>1. Passed(u, j) BY <1>1, <1>2, <1>4, <2>2 DEF Passed
    <3> QED BY <1>4, <2>2, <3>1
  <2> QED BY <2>1, <2>2
<1> QED BY <1>3, <1>4

\* The thread with the state mutex of a processor, or one that finds it free,
\* is the only one in its brun or erun.
LEMMA AloneInState ==
    ASSUME PInv, NEW t \in Threads, NEW i \in Procs, state[i] \in {Nobody, t},
           NEW u \in Threads, u # t, call[u] \in {"erun", "brun"}
    PROVE  proc[u] # i
BY PluginsAssumption DEF PInv, OrderInv, Actors

\* While a thread calls brun or erun of a processor no other is past it.
LEMMA NobodyPast ==
    ASSUME PInv, ~overlap, NEW t \in Threads, NEW i \in Procs, ev[t] # 0,
           RunOf[ev[t]] # brunRun[i] \/ ~brunCalled[i],
           NEW u \in Threads
    PROVE  ~Passed(u, i)
BY DEF PInv, RunInv, Passed

\* A thread in a step of OneEvent has an event or takes one, while the main
\* thread waits.
LEMMA MainWaits ==
    ASSUME PInv, NEW t \in Threads, OneEvent(t)
    PROVE  /\ call[Main] = "run" /\ (~Take(t) => ev[t] \in Event)
           /\ t \in Actors /\ proc[t] \in Procs /\ ev \in [Actors -> 0..NEvents]
<1>1. t \in Actors /\ proc[t] \in Procs /\ ev \in [Actors -> 0..NEvents]
  BY DEF Actors, PInv, TypeOK
<1>2. CASE Take(t) BY <1>1, <1>2 DEF Take
<1>3. CASE ~Take(t)
  <2>1. call[t] \notin Out
    <3>1. CASE Throw(t)
      <4>1. path[t] # <<>> BY <1>1, <3>1 DEF Throw, At, AtEnd, PInv, TypeOK
      <4> QED BY <4>1 DEF PInv, OrderInv
    <3>2. CASE ~Throw(t)
      BY <1>3, <3>2 DEF OneEvent, CallErun, CallBrun, BrunAfterErun, EvntAfterBrun,
                        CallEvnt, EvntReturns, Out
    <3> QED BY <3>1, <3>2
  <2>2. ev[t] # 0 BY <2>1 DEF PInv, OrderInv
  <2> QED BY <1>1, <2>1, <2>2 DEF PInv, OrderInv, Event
<1> QED BY <1>2, <1>3

\* Every step of a thread between callbacks keeps the order.
LEMMA OneEventOrder ==
    ASSUME PInv, NEW t \in Threads, OneEvent(t) PROVE OrderInv' /\ RunInv'
<1>0. /\ call[Main] = "run" /\ (~Take(t) => ev[t] \in Event)
      /\ t \in Actors /\ proc[t] \in Procs /\ ev \in [Actors -> 0..NEvents]
      /\ Threads \subseteq Actors
  BY MainWaits DEF Actors
<1>e. \A e \in Event : e # 0 /\ RunOf[e] \in Nat BY PluginsAssumption DEF Event
<1> DEFINE i == proc[t]
<1>t. /\ state \in [Procs -> Threads \cup {Nobody}] /\ brunRun \in [Procs -> Nat]
      /\ brunCalled \in [Procs -> BOOLEAN]
  BY DEF PInv, TypeOK
<1>r. ~overlap => RunInv!2 BY DEF PInv, RunInv
<1>o. OrderInv!1!(t) BY DEF PInv, OrderInv
<1>1. CASE Take(t)
  <2>1. /\ Goes(t, 1, "enter", <<>>) /\ ev' = [ev EXCEPT ![t] = next] /\ next \in Event
        /\ UNCHANGED <<plugin, state, brunCalled, brunRun>>
        /\ overlap' = (overlap \/ \E u \in Threads :
                          ev[u] # 0 /\ RunOf[ev[u]] # RunOf[next])
    BY <1>1 DEF Take, Move, Goes, heap, options, calls
  <2>2. ev'[t] = next /\ \A u \in Threads : u # t => ev'[u] = ev[u] BY <1>0, <2>1
  <2>3. ~overlap' => ~overlap /\ \A u \in Threads : ev[u] # 0 => RunOf[next] = RunOf[ev[u]]
    BY <2>1
  <2>4. OrderInv'
    BY <1>0, <1>e, <2>1, <2>2, OrderKept DEF Procs, Out
  <2>5. RunInv'
    BY <1>0, <1>r, <2>1, <2>2, <2>3, RunKept DEF Procs
  <2> QED BY <2>4, <2>5
<1>2. CASE CallErun(t)
  <2>1. PICK s : Goes(t, i, "erun", s) BY <1>2 DEF CallErun, Call, Goes
  <2>2. /\ call[t] = "enter" /\ state[i] = Nobody /\ state' = [state EXCEPT ![i] = t]
        /\ RunOf[ev[t]] # brunRun[i]
        /\ UNCHANGED <<plugin, ev, overlap, brunCalled, brunRun>> /\ ~Take(t)
    BY <1>2 DEF CallErun, heap, options, Take
  <2>3. \A u \in Threads : u # t /\ call[u] \in {"erun", "brun"} => proc[u] # i
    BY <1>0, <2>2, AloneInState
  <2>4. OrderInv'
    BY <1>0, <1>e, <1>t, <2>1, <2>2, <2>3, OrderKept DEF Out
  <2>5. RunInv'
    BY <1>0, <1>e, <1>r, <2>1, <2>2, RunKept DEF Passed
  <2> QED BY <2>4, <2>5
<1>3. CASE CallBrun(t)
  <2>1. PICK s : Goes(t, i, "brun", s) BY <1>3 DEF CallBrun, Call, Goes
  <2>2. /\ call[t] = "enter" /\ state[i] = Nobody /\ state' = [state EXCEPT ![i] = t]
        /\ brunCalled' = [brunCalled EXCEPT ![i] = FALSE]
        /\ RunOf[ev[t]] # brunRun[i] \/ ~brunCalled[i]
        /\ UNCHANGED <<plugin, ev, overlap, brunRun>> /\ ~Take(t)
    BY <1>3 DEF CallBrun, heap, options, Take
  <2>3. \A u \in Threads : u # t /\ call[u] \in {"erun", "brun"} => proc[u] # i
    BY <1>0, <2>2, AloneInState
  <2>4. ~overlap => \A u \in Threads : ~Passed(u, i) BY <1>0, <1>e, <2>2, NobodyPast
  <2>5. OrderInv'
    <3>1. /\ state'[i] = t /\ ~brunCalled'[i]
          /\ \A j \in Procs : j # i => state'[j] = state[j] /\ brunCalled'[j] = brunCalled[j]
      BY <1>0, <1>t, <2>2
    <3>2. \A u \in Threads : proc[u] \in Procs BY <1>0 DEF PInv, TypeOK
    <3> QED BY <1>0, <1>e, <2>1, <2>2, <2>3, <3>1, <3>2, OrderKept DEF Out
  <2>6. RunInv'
    BY <1>0, <1>e, <1>r, <1>t, <2>1, <2>2, <2>4, RunKept DEF Passed
  <2> QED BY <2>5, <2>6
<1>4. CASE BrunAfterErun(t)
  <2>1. PICK s : Goes(t, i, "brun", s) BY <1>4 DEF BrunAfterErun, Call, Goes
  <2>2. /\ call[t] = "erun" /\ brunCalled' = [brunCalled EXCEPT ![i] = FALSE]
        /\ UNCHANGED <<plugin, ev, overlap, state, brunRun>> /\ ~Take(t)
    BY <1>4 DEF BrunAfterErun, heap, options, Take
  <2>3. state[i] = t /\ RunOf[ev[t]] # brunRun[i] BY <1>o, <2>2
  <2>4. \A u \in Threads : u # t /\ call[u] \in {"erun", "brun"} => proc[u] # i
    BY <1>0, <2>3, AloneInState
  <2>5. ~overlap => \A u \in Threads : ~Passed(u, i) BY <1>0, <1>e, <2>2, <2>3, NobodyPast
  <2>6. OrderInv'
    <3>1. /\ ~brunCalled'[i] /\ \A j \in Procs : j # i => brunCalled'[j] = brunCalled[j]
      BY <1>0, <1>t, <2>2
    <3>2. \A u \in Threads : proc[u] \in Procs BY <1>0 DEF PInv, TypeOK
    <3> QED BY <1>0, <1>e, <2>1, <2>2, <2>3, <2>4, <3>1, <3>2, OrderKept DEF Out
  <2>7. RunInv'
    BY <1>0, <1>e, <1>r, <1>t, <2>1, <2>2, <2>5, RunKept DEF Passed
  <2> QED BY <2>6, <2>7
<1>5. CASE EvntAfterBrun(t)
  <2>1. PICK s \in Code(i).evnt : Goes(t, i, "evnt", s)
    <3>1. PICK s \in Paths(i, "evnt") : Goes(t, i, "evnt", s) BY <1>5 DEF EvntAfterBrun, Call, Goes
    <3>2. Paths(i, "evnt") = Code(i).evnt BY DEF Paths
    <3> QED BY <3>1, <3>2
  <2>2. /\ call[t] = "brun" /\ brunCalled' = [brunCalled EXCEPT ![i] = TRUE]
        /\ brunRun' = [brunRun EXCEPT ![i] = RunOf[ev[t]]]
        /\ state' = [state EXCEPT ![i] = Nobody]
        /\ UNCHANGED <<plugin, ev, overlap>> /\ ~Take(t)
    BY <1>5 DEF EvntAfterBrun, heap, options, Take
  <2>3. state[i] = t BY <1>o, <2>2
  <2>4. \A u \in Threads : u # t /\ call[u] \in {"erun", "brun"} => proc[u] # i
    BY <1>0, <2>3, AloneInState
  <2>5. OrderInv'
    <3>1. \A j \in Procs : j # i => /\ state'[j] = state[j]
                                    /\ brunCalled'[j] = brunCalled[j]
                                    /\ brunRun'[j] = brunRun[j]
      BY <1>0, <1>t, <2>2
    <3>2. \A u \in Threads : proc[u] \in Procs BY <1>0 DEF PInv, TypeOK
    <3>3. ASSUME NEW u \in Threads, u # t, call[u] \in {"erun", "brun"}
          PROVE  /\ state'[proc[u]] = state[proc[u]] /\ brunRun'[proc[u]] = brunRun[proc[u]]
                 /\ brunCalled'[proc[u]] = brunCalled[proc[u]]
      BY <2>4, <3>1, <3>2, <3>3
    <3>4. ev'[t] # 0 /\ ("evnt" \in Out <=> ev'[t] = 0) BY <1>0, <1>e, <2>2 DEF Out
    <3>5. UNCHANGED <<plugin, ev>> /\ i \in Procs /\ call[Main] = "run" BY <1>0, <2>2
    <3>6. s \in Code(i).evnt /\ Goes(t, i, "evnt", s) BY <2>1
    <3> HIDE DEF i
    <3> QED BY <3>3, <3>4, <3>5, <3>6, OrderKept DEF Out
  <2>6. RunInv'
    BY <1>0, <1>e, <1>r, <1>t, <2>1, <2>2, RunKept DEF Passed
  <2> QED BY <2>5, <2>6
<1>6. CASE CallEvnt(t)
  <2>1. PICK s \in Code(i).evnt : Goes(t, i, "evnt", s)
    <3>1. PICK s \in Paths(i, "evnt") : Goes(t, i, "evnt", s) BY <1>6 DEF CallEvnt, Call, Goes
    <3>2. Paths(i, "evnt") = Code(i).evnt BY DEF Paths
    <3> QED BY <3>1, <3>2
  <2>2. /\ call[t] = "enter" /\ RunOf[ev[t]] = brunRun[i] /\ brunCalled[i]
        /\ UNCHANGED <<plugin, ev, overlap, state, brunCalled, brunRun>> /\ ~Take(t)
    BY <1>6 DEF CallEvnt, heap, options, calls, Take
  <2>3. OrderInv'
    BY <1>0, <1>e, <2>1, <2>2, OrderKept DEF Out
  <2>4. RunInv'
    BY <1>0, <1>e, <1>r, <2>1, <2>2, RunKept DEF Passed
  <2> QED BY <2>3, <2>4
<1>7. CASE EvntReturns(t)
  <2>1. /\ call[t] = "evnt" /\ UNCHANGED <<plugin, overlap, state, brunCalled, brunRun>>
        /\ ~Take(t)
    BY <1>7 DEF EvntReturns, heap, options, calls, Take
  <2>2. CASE proc[t] = 1
    <3>1. Goes(t, 2, "enter", <<>>) /\ UNCHANGED ev
      BY <1>7, <2>2 DEF EvntReturns, Move, Goes
    <3>2. OrderInv' BY <1>0, <1>e, <2>1, <3>1, OrderKept DEF Out, Procs
    <3>3. ~overlap => \A j \in Procs : 2 > j => brunCalled[j] /\ brunRun[j] = RunOf[ev[t]]
      BY <1>0, <1>e, <1>r, <2>1, <2>2 DEF Passed, Procs
    <3>4. RunInv' BY <1>0, <1>e, <1>r, <2>1, <3>1, <3>3, RunKept DEF Procs
    <3> QED BY <3>2, <3>4
  <2>3. CASE proc[t] # 1
    <3>1. Goes(t, 1, "idle", <<>>) /\ ev' = [ev EXCEPT ![t] = 0]
      BY <1>7, <2>3 DEF EvntReturns, Move, Goes
    <3>2. ev'[t] = 0 /\ \A u \in Threads : u # t => ev'[u] = ev[u] BY <1>0, <3>1
    <3>3. OrderInv' BY <1>0, <2>1, <3>1, <3>2, OrderKept DEF Out, Procs
    <3>4. RunInv' BY <1>0, <1>r, <2>1, <3>1, <3>2, RunKept DEF Procs
    <3> QED BY <3>3, <3>4
  <2> QED BY <2>2, <2>3
<1>8. CASE Throw(t)
  <2>1. /\ Goes(t, 1, "dead", <<>>) /\ ev' = [ev EXCEPT ![t] = 0]
        /\ UNCHANGED <<plugin, overlap, state, brunCalled, brunRun>>
    BY <1>8 DEF Throw, Move, Goes, heap, options, calls
  <2>2. ev'[t] = 0 /\ \A u \in Threads : u # t => ev'[u] = ev[u] BY <1>0, <2>1
  <2>3. OrderInv' BY <1>0, <2>1, <2>2, OrderKept DEF Out, Procs
  <2>4. RunInv' BY <1>0, <1>r, <2>1, <2>2, RunKept DEF Procs
  <2> QED BY <2>3, <2>4
<1> QED BY <1>1, <1>2, <1>3, <1>4, <1>5, <1>6, <1>7, <1>8 DEF OneEvent

\* All of this is kept for ever.
LEMMA OrderInvariance == ASSUME Discipline PROVE Spec => []PInv
<1>1. Init => Inv /\ TypeOK /\ OrderInv /\ RunInv BY InitPInv, InitInv
<1>2. PInv /\ [Next]_vars => PInv'
  <2> SUFFICES ASSUME PInv, [Next]_vars PROVE PInv' OBVIOUS
  <2>1. Inv' BY NextInv DEF PInv
  <2>2. CASE \E t \in Actors : Step(t) BY <2>1, <2>2, StepTypeOK, StepOrder DEF PInv
  <2>3. CASE \E t \in Threads : OneEvent(t)
    BY <2>1, <2>3, CallTypeOK, OneEventOrder DEF PInv
  <2>4. CASE MainInit \/ MainFini BY <2>1, <2>4, CallTypeOK, MainOrder DEF PInv
  <2>5. CASE UNCHANGED vars
    <3>1. TypeOK' BY <2>5 DEF PInv, TypeOK, vars, options, where, calls, members, output
    <3>2. OrderInv' /\ RunInv'
      BY <2>5 DEF PInv, OrderInv, RunInv, Passed, Code, vars, options, where, calls
    <3> QED BY <2>1, <3>1, <3>2 DEF PInv
  <2> QED BY <2>2, <2>3, <2>4, <2>5 DEF Next, Done
<1> QED BY <1>1, <1>2, PTL DEF Spec, PInv

\* What an actor is about to do on an evnt path, and in the output's code.
LEMMA UserPlace ==
    ASSUME Discipline, PInv, NEW t \in Actors, Uses(t) \/ UsesList(t)
    PROVE  /\ t = Main \/ call[t] \in {"erun", "brun", "evnt"}
           /\ t = Main => call[Main] # "run"
           /\ UsesList(t) => call[t] # "evnt"
           /\ Uses(t) => proc[t] = 2
           /\ Uses(t) /\ call[t] = "evnt" /\ plugin \in Resetting \ Losing => root = t
<1>1. pos[t] \in 1..Len(path[t]) /\ path[t] # <<>>
  BY DEF Uses, UsesList, At, AtEnd, PInv, TypeOK
<1>2. t = Main \/ call[t] \in {"erun", "brun", "evnt"}
  <2>1. t \in Threads => call[t] \notin {"enter"} \cup Out
    BY <1>1 DEF PInv, OrderInv, Inv, LInv, OnPath
  <2> QED BY <2>1 DEF PInv, OrderInv, Actors
<1>3. t = Main => call[Main] # "run" BY <1>1 DEF PInv, OrderInv
<1>4. UsesList(t) => call[t] # "evnt"
  <2> SUFFICES ASSUME UsesList(t), call[t] = "evnt" PROVE FALSE OBVIOUS
  <2>1. path[t] \in Code(proc[t]).evnt BY DEF PInv, OrderInv
  <2>2. Code(proc[t]) \in Plugins \cup {Output} BY DEF Code, PInv, TypeOK
  <2>3. NoList(path[t]) BY <2>1, <2>2 DEF Discipline
  <2> QED BY <1>1, <2>3 DEF NoList, UsesList, At
<1>5. ASSUME Uses(t) PROVE proc[t] = 2
  <2> SUFFICES ASSUME proc[t] = 1 PROVE FALSE BY DEF PInv, TypeOK, Procs
  <2>1. path[t] \in PathsOf(Output) BY <1>1 DEF PInv, Inv, LInv, OnPath, Code
  <2>2. NoUse(path[t]) BY <2>1 DEF Discipline
  <2> QED BY <1>1, <1>5, <2>2 DEF NoUse, Uses, At
<1>6. ASSUME Uses(t), call[t] = "evnt", plugin \in Resetting \ Losing
      PROVE  root = t
  <2>1. path[t] \in plugin.evnt BY <1>5, <1>6 DEF PInv, OrderInv, Code
  <2>2. Guarded(path[t]) BY <1>6, <2>1 DEF Discipline, PInv, TypeOK
  <2>3. Held(path[t], pos[t]) BY <1>1, <1>6, <2>2 DEF Guarded, Uses, At
  <2> QED BY <1>6, <2>3 DEF PInv, Inv, LInv, HoldsLock
<1> QED BY <1>2, <1>3, <1>4, <1>5, <1>6

\* Of two actors that are neither in the same evnt nor waiting one is alone.
LEMMA Exclusive ==
    ASSUME PInv, ~overlap, NEW t \in Actors, NEW u \in Actors,
           t = Main \/ call[t] \in {"erun", "brun"},
           u = Main \/ call[u] \in {"erun", "brun"} \/ (call[u] = "evnt" /\ proc[u] = 2),
           t = Main => call[Main] # "run", u = Main => call[Main] # "run"
    PROVE  t = u
<1>1. CASE t = Main \/ u = Main
  <2>1. \A v \in Threads : call[v] \in Out BY <1>1 DEF PInv, OrderInv
  <2> QED BY <1>1, <2>1 DEF Actors, Out
<1>2. CASE t \in Threads /\ u \in Threads /\ t # Main /\ u # Main
  <2>1. /\ call[t] \in {"erun", "brun"}
        /\ state[proc[t]] = t /\ ev[t] # 0 /\ ev[u] # 0
        /\ RunOf[ev[t]] # brunRun[proc[t]] \/ ~brunCalled[proc[t]]
        /\ proc[t] \in Procs /\ proc[u] \in Procs
    BY <1>2 DEF PInv, OrderInv, Out, TypeOK
  <2>2. ~Passed(u, proc[t]) BY <1>2, <2>1, NobodyPast
  <2>3. CASE call[u] = "evnt" /\ proc[u] = 2
    BY <2>1, <2>2, <2>3 DEF Passed, Procs
  <2>4. CASE call[u] \in {"erun", "brun"}
    <3>1. /\ state[proc[u]] = u
          /\ RunOf[ev[u]] # brunRun[proc[u]] \/ ~brunCalled[proc[u]]
      BY <1>2, <2>4 DEF PInv, OrderInv
    <3>2. ~Passed(t, proc[u]) BY <1>2, <2>1, <3>1, NobodyPast
    <3>3. proc[t] = proc[u] BY <2>1, <2>2, <3>2 DEF Passed, Procs
    <3> QED BY <2>1, <3>1, <3>3
  <2> QED BY <1>2, <2>3, <2>4
<1> QED BY <1>1, <1>2 DEF Actors

\* What processors that keep to the discipline use without the ROOT lock, the
\* members that some reset in brun and the list of the output's objects, has
\* one user at a time, for any threads, events and plugins, as long as events
\* of different runs are not in process together.
THEOREM NoLockNeeded == ASSUME Discipline PROVE Spec => []AloneWithoutLock
<1>1. PInv => AloneWithoutLock
  <2> SUFFICES ASSUME PInv PROVE ResetsAlone /\ OneUserOfList
    BY DEF AloneWithoutLock, PInv
  <2>1. ResetsAlone
    <3> SUFFICES ASSUME plugin \in Resetting \ Losing, ~overlap, NEW t \in Actors,
                        NEW u \in Actors, Uses(t), Uses(u)
                 PROVE  t = u
      BY DEF ResetsAlone
    <3>1. CASE call[t] = "evnt" /\ call[u] = "evnt" BY <3>1, UserPlace
    <3>2. CASE call[t] # "evnt" BY <3>2, UserPlace, Exclusive
    <3>3. CASE call[u] # "evnt" BY <3>3, UserPlace, Exclusive
    <3> QED BY <3>1, <3>2, <3>3
  <2>2. OneUserOfList
    <3> SUFFICES ASSUME ~overlap, NEW t \in Actors, NEW u \in Actors,
                        UsesList(t), UsesList(u)
                 PROVE  t = u
      BY DEF OneUserOfList
    <3> QED BY UserPlace, Exclusive
  <2> QED BY <2>1, <2>2
<1> QED BY <1>1, OrderInvariance, PTL

-----------------------------------------------------------------------------
(***************************************************************************)
(* The output.                                                             *)
(*                                                                         *)
(* The pointer is set in the first brun of the plugin, before any other    *)
(* callback uses it, and the file is open from the first brun of           *)
(* BDXEventProcessor, which comes before (FirstInv, OpenInv).  The objects *)
(* are in the list when the file is closed: they were added by the first   *)
(* brun, or by an erun, of which there is one at the end whenever there    *)
(* was a brun; and the histograms that an erun makes are added by it       *)
(* before another finds them made (MadeInv, EndInv).                       *)
(***************************************************************************)

\* In a job with one output file and a plugin that adds to it.
Saves == hasOutput /\ ~isET /\ plugin \notin Blind /\ Adds(plugin)

\* The operation actor t is at, those it is past, and b past after a.
OpAt(t) == path[t][pos[t]]
Did(t, op) == \E k \in 1..(pos[t] - 1) : path[t][k] = op
DidBoth(t, a, b) ==
    \E j, k \in 1..(pos[t] - 1) : j < k /\ path[t][j] = a /\ path[t][k] = b

In(t, i, c) == proc[t] = i /\ call[t] = c
Body    == {"init", "brun", "evnt", "erun", "fini"}
Before  == call[Main] \in {"start", "init", "run"}
Closing == call[Main] \in {"fini", "done"}

\* An actor in a callback is on a path of it; Fini passes over erun where
\* there was no brun.
InCode(t) ==
    /\ call[t] \notin Body => path[t] = <<>>
    /\ call[t] \in Body =>
          IF t = Main /\ call[t] = "erun" /\ ~brunCalled[proc[t]]
          THEN path[t] = <<>>
          ELSE \/ path[t] \in Code(proc[t])[call[t]]
               \/ In(t, 2, "brun") /\ path[t] \in FirstPaths(plugin)

WhereInv == \A t \in Actors : InCode(t)

\* What the record of calls says.
RecordInv ==
    /\ \A i \in Procs : brunCalled[i] => brunRun[i] # 0
    /\ brunRun[2] # 0 => brunRun[1] # 0
    /\ \A t \in Threads :
          /\ ev[t] # 0 /\ (proc[t] = 2 \/ call[t] = "evnt") => brunRun[1] # 0
          /\ call[t] = "erun" => brunRun[proc[t]] # 0 /\ ~OneRun
    /\ OneRun => \A i \in Procs : brunRun[i] \in {0, RunOf[1]}
    /\ Before => \A i \in Procs : ~(brunCalled[i] /\ erunCalled[i])
    /\ In(Main, 1, "erun") => ~(brunCalled[2] /\ erunCalled[2])

\* The pointer to the output is never used uninitialised.
PointerInv == plugin \notin Blind => out # "garbage" /\ ~undef

\* The file is open from the first brun until it is closed at the end.
OpenInv ==
    /\ ~Closing => files = <<>> /\ (brunRun[1] # 0 => isOpen) /\ (listed => isOpen)
    /\ \A t \in Threads : In(t, 1, "brun") /\ Did(t, "open") => isOpen

FirstAdds == \A s \in FirstPaths(plugin) : HasBoth(s, "find", "add")

\* The first brun of the plugin finds the output and may add its objects.
FirstInv ==
    /\ brunRun[2] = 0 /\ (\A t \in Threads : ~In(t, 2, "brun")) => first
    /\ \A t \in Threads : In(t, 2, "brun") /\ brunRun[2] = 0 =>
          /\ path[t] \in FirstPaths(plugin)
          /\ Did(t, "find") => out = "set"
          /\ DidBoth(t, "find", "add") => listed
    /\ brunRun[2] # 0 => out = "set" /\ (FirstAdds => listed)

\* Actor u has made the histograms and is about to add them.
WillAdd(u) ==
    /\ In(u, 2, "erun") /\ Did(u, "makeOnce")
    /\ \E k \in pos[u]..Len(path[u]) : path[u][k] = "add"

\* The histograms that were made are in the list, or will be.
MadeInv ==
    /\ plugin \notin Resetting => made = <<>>
    /\ made # <<>> => listed \/ \E u \in Actors : WillAdd(u)
    /\ OneRun => made = <<>> \/ (~Before /\ made = <<entries>>)

Saved == IF made # <<>> THEN made ELSE <<entries>>

\* What is in the file at the end, after a job with a brun of the plugin.
EndInv ==
    brunCalled[2] =>
      /\ In(Main, 2, "erun") => /\ Did(Main, "add") => listed
                                /\ Did(Main, "makeOnce") => made # <<>>
      /\ Closing => listed /\ (plugin \in Resetting => made # <<>>)
      /\ In(Main, 1, "fini") => IF Did(Main, "close") THEN files = <<Saved>> /\ ~isOpen
                                ELSE files = <<>> /\ isOpen
      /\ In(Main, 2, "fini") \/ call[Main] = "done" => files = <<Saved>> /\ ~isOpen

SaveInv == /\ WhereInv /\ RecordInv /\ PointerInv
           /\ Saves => OpenInv /\ FirstInv /\ MadeInv /\ EndInv

\* What one operation of an actor does, by its name.
LEMMA StepEffect ==
    ASSUME PInv, NEW t \in Actors, Step(t)
    PROVE  /\ path[t] \in Seq(Op) /\ pos[t] \in 1..Len(path[t])
           /\ UNCHANGED <<plugin, isET, hasOutput, ev, proc, call, path, calls, first>>
           /\ \A u \in Actors : u # t => pos'[u] = pos[u]
           /\ pos'[t] = (IF OpAt(t) = "makeOnce" /\ made # <<>>
                         THEN Len(path[t]) + 1 ELSE pos[t] + 1)
           /\ made' = (IF OpAt(t) = "makeOnce" /\ made = <<>> THEN <<entries>> ELSE made)
           /\ OpAt(t) \notin {"row", "hist"} => entries' = entries
           /\ out' = (IF OpAt(t) = "find" /\ hasOutput THEN "set" ELSE out)
           /\ undef' = undef \/ (OpAt(t) = "add" /\ undef' = (undef \/ out = "garbage"))
              \/ OpAt(t) = "addBlind"
           /\ OpAt(t) \in {"add", "addBlind"} =>
                 listed' = (listed \/ (out = "set" /\ (isOpen \/ files # <<>>)))
           /\ OpAt(t) = "open" => isOpen' = hasOutput /\ listed' = (listed /\ isOpen)
           /\ OpAt(t) \notin {"add", "addBlind", "open"} => listed' = listed
           /\ OpAt(t) \notin {"open", "close", "closeET"} => isOpen' = isOpen
           /\ OpAt(t) \notin {"close", "closeET"} => files' = files
           /\ OpAt(t) \in {"close", "closeET"} =>
                 IF isOpen /\ (isET \/ OpAt(t) = "close")
                 THEN /\ isOpen' = FALSE
                      /\ files' = Append(files, IF ~listed THEN <<>> ELSE Saved)
                 ELSE UNCHANGED <<isOpen, files>>
<1>0. path[t] \in Seq(Op) /\ pos \in [Actors -> Nat \ {0}] BY DEF PInv, TypeOK
<1>1. \E op : At(t, op)
  BY DEF Step, Lock, Unlock, Book, Assign, Fill, MakeOnce, FindOutput, AddObjects,
         OpenOutput, CloseOutput
<1>2. pos[t] \in 1..Len(path[t]) /\ ~AtEnd(t) BY <1>0, <1>1 DEF At, AtEnd
<1> USE DEF OpAt, At, Advance, options, output
<1>3. CASE Lock(t) \/ Unlock(t) \/ Book(t) \/ Assign(t)
  BY <1>0, <1>2, <1>3 DEF Lock, Unlock, Book, Assign
<1>4. CASE Fill(t) BY <1>0, <1>2, <1>4 DEF Fill
<1>5. CASE MakeOnce(t) BY <1>0, <1>2, <1>5 DEF MakeOnce
<1>6. CASE FindOutput(t) BY <1>0, <1>2, <1>6 DEF FindOutput
<1>7. CASE AddObjects(t) BY <1>0, <1>2, <1>7 DEF AddObjects
<1>8. CASE OpenOutput(t) BY <1>0, <1>2, <1>8 DEF OpenOutput
<1>9. CASE CloseOutput(t) BY <1>0, <1>2, <1>9 DEF CloseOutput, Saved
<1> QED BY <1>3, <1>4, <1>5, <1>6, <1>7, <1>8, <1>9 DEF Step

\* Where operations can be.
LEMMA OpPlace ==
    ASSUME Discipline, Saving, PInv, WhereInv, plugin \notin Blind,
           NEW t \in Actors, path[t] \in Seq(Op), pos[t] \in 1..Len(path[t])
    PROVE  /\ IF t = Main THEN call[t] \in {"init", "erun", "fini"}
                          ELSE call[t] \in {"erun", "brun", "evnt"} /\ ev[t] # 0
           /\ t = Main /\ call[t] = "erun" => brunCalled[proc[t]]
           /\ OpAt(t) # "addBlind"
           /\ OpAt(t) \in {"find", "add", "makeOnce"} => proc[t] = 2
           /\ proc[t] = 1 => /\ OpAt(t) = "open" => call[t] = "brun"
                             /\ OpAt(t) = "close" => call[t] = "fini"
                             /\ OpAt(t) \notin {"row", "hist"}
           /\ Adds(plugin) /\ proc[t] = 2 =>
                 /\ OpAt(t) \notin {"open", "close", "closeET"}
                 /\ call[t] \in {"erun", "fini"} => OpAt(t) \notin {"row", "hist"}
                 /\ OpAt(t) = "makeOnce" =>
                       call[t] = "erun" /\ path[t] \in plugin.erun /\ plugin \in Resetting
                 /\ call[t] = "erun" \/ path[t] \in FirstPaths(plugin) => OpAt(t) # "throw"
           /\ call[t] = "erun" /\ proc[t] = 2 => path[t] \in plugin.erun
<1>0. path[t] # <<>> /\ plugin \in Plugins \ Blind /\ proc[t] \in Procs
  BY DEF PInv, TypeOK
<1>1. /\ call[t] \in Body
      /\ ~(t = Main /\ call[t] = "erun" /\ ~brunCalled[proc[t]])
      /\ \/ path[t] \in Code(proc[t])[call[t]]
         \/ In(t, 2, "brun") /\ path[t] \in FirstPaths(plugin)
  BY <1>0 DEF WhereInv, InCode
<1>2. call[t] \in Callback /\ call[t] # "first" BY <1>1 DEF Body, Callback
<1>3. IF t = Main THEN call[t] \in {"init", "erun", "fini"}
                  ELSE call[t] \in {"erun", "brun", "evnt"} /\ ev[t] # 0
  BY <1>1 DEF PInv, OrderInv, Body, Actors, Out
<1>4. ASSUME proc[t] = 1
      PROVE  /\ OpAt(t) \notin {"find", "add", "addBlind", "makeOnce", "row", "hist"}
             /\ OpAt(t) = "open" => call[t] = "brun"
             /\ OpAt(t) = "close" => call[t] = "fini"
  <2>1. path[t] \in Output[call[t]] BY <1>1, <1>4 DEF Code, In
  <2>2. /\ Lacks(path[t], {"find", "add", "addBlind", "makeOnce"})
        /\ call[t] # "brun" => Lacks(path[t], {"open"})
        /\ call[t] # "fini" => Lacks(path[t], {"close"})
    BY <1>2, <2>1 DEF Saving
  <2>3. path[t] \in PathsOf(Output) BY <1>2, <2>1 DEF PathsOf
  <2>4. NoUse(path[t]) BY <2>3 DEF Discipline
  <2> QED BY <2>2, <2>4 DEF Lacks, NoUse, OpAt
<1>5. ASSUME proc[t] = 2
      PROVE  /\ OpAt(t) # "addBlind"
             /\ Adds(plugin) =>
                 /\ OpAt(t) \notin {"open", "close", "closeET"}
                 /\ call[t] \in {"erun", "fini"} => OpAt(t) \notin {"row", "hist"}
                 /\ OpAt(t) = "makeOnce" =>
                       call[t] = "erun" /\ path[t] \in plugin.erun /\ plugin \in Resetting
                 /\ call[t] = "erun" \/ path[t] \in FirstPaths(plugin) => OpAt(t) # "throw"
             /\ call[t] = "erun" => path[t] \in plugin.erun
  <2>0. Code(2) = plugin BY DEF Code
  <2>1. \/ path[t] \in plugin[call[t]]
        \/ call[t] = "brun" /\ path[t] \in FirstPaths(plugin)
    BY <1>1, <1>5, <2>0 DEF In
  <2>2. path[t] \in PathsOf(plugin) BY <1>2, <2>1 DEF PathsOf
  <2>3. Lacks(path[t], {"addBlind"}) BY <1>0, <2>2 DEF Saving
  <2>4. call[t] = "erun" => path[t] \in plugin.erun BY <2>1
  <2>5. ASSUME Adds(plugin)
        PROVE  /\ OpAt(t) \notin {"open", "close", "closeET"}
               /\ call[t] \in {"erun", "fini"} => OpAt(t) \notin {"row", "hist"}
               /\ OpAt(t) = "makeOnce" => call[t] = "erun" /\ plugin \in Resetting
               /\ call[t] = "erun" \/ path[t] \in FirstPaths(plugin) => OpAt(t) # "throw"
    <3>1. HandsOver(plugin) BY <1>0, <2>5 DEF Saving
    <3>2. Lacks(path[t], {"open", "close", "closeET"}) BY <2>2, <3>1 DEF HandsOver
    <3>3. call[t] \in {"erun", "fini"} => Lacks(path[t], {"row", "hist"})
      BY <2>1, <3>1 DEF HandsOver
    <3>4. call[t] # "erun" => Lacks(path[t], {"makeOnce"})
      BY <1>2, <2>1, <3>1 DEF HandsOver
    <3>5. call[t] = "erun" /\ plugin \notin Resetting => Lacks(path[t], {"makeOnce"})
      BY <2>4, <3>1 DEF HandsOver
    <3>6. call[t] = "erun" \/ path[t] \in FirstPaths(plugin) => Lacks(path[t], {"throw"})
      BY <2>4, <3>1 DEF HandsOver
    <3> QED BY <3>2, <3>3, <3>4, <3>5, <3>6 DEF Lacks, OpAt
  <2> QED BY <2>3, <2>4, <2>5 DEF Lacks, OpAt
<1> QED BY <1>0, <1>1, <1>3, <1>4, <1>5 DEF Procs

\* What an actor is past after an operation, if it goes to the next one.
LEMMA DidNext ==
    ASSUME NEW t, path[t] \in Seq(Op), pos[t] \in 1..Len(path[t]), path'[t] = path[t],
           pos'[t] = pos[t] + 1
    PROVE  /\ \A x : Did(t, x)' <=> Did(t, x) \/ OpAt(t) = x
           /\ \A x, y : DidBoth(t, x, y)' <=> DidBoth(t, x, y) \/ (Did(t, x) /\ OpAt(t) = y)
<1> DEFINE n == pos[t]
<1>1. n \in Nat /\ 1..(pos'[t] - 1) = (1..(n - 1)) \cup {n} OBVIOUS
<1>2. ASSUME NEW x PROVE Did(t, x)' <=> Did(t, x) \/ OpAt(t) = x
  BY <1>1 DEF Did, OpAt
<1>3. ASSUME NEW x, NEW y
      PROVE  DidBoth(t, x, y)' <=> DidBoth(t, x, y) \/ (Did(t, x) /\ OpAt(t) = y)
  <2>1. DidBoth(t, x, y)' <=> \E j, k \in (1..(n - 1)) \cup {n} :
                                 j < k /\ path[t][j] = x /\ path[t][k] = y
    BY <1>1 DEF DidBoth
  <2>2. \A j, k \in (1..(n - 1)) \cup {n} : j < k => j \in 1..(n - 1)
    BY <1>1
  <2>3. ASSUME DidBoth(t, x, y)' PROVE DidBoth(t, x, y) \/ (Did(t, x) /\ OpAt(t) = y)
    BY <2>1, <2>2, <2>3 DEF DidBoth, Did, OpAt
  <2>4. ASSUME DidBoth(t, x, y) PROVE DidBoth(t, x, y)' BY <2>1, <2>4 DEF DidBoth
  <2>5. ASSUME Did(t, x), OpAt(t) = y PROVE DidBoth(t, x, y)'
    BY <1>1, <2>1, <2>5 DEF Did, OpAt
  <2> QED BY <2>3, <2>4, <2>5
<1> QED BY <1>2, <1>3

\* At its end an actor is past all of its path.
LEMMA DidAll ==
    ASSUME NEW t, path[t] \in Seq(Op), pos[t] = Len(path[t]) + 1
    PROVE  /\ \A x : Did(t, x) <=> Has(path[t], x)
           /\ \A x, y : DidBoth(t, x, y) <=> HasBoth(path[t], x, y)
<1>1. 1..(pos[t] - 1) = 1..Len(path[t]) OBVIOUS
<1> QED BY <1>1 DEF Did, DidBoth, Has, HasBoth

\* An operation leaves the calls and the pointer in order.
LEMMA StepRecord ==
    ASSUME Discipline, Saving, PInv, SaveInv, NEW t \in Actors, Step(t)
    PROVE  WhereInv' /\ RecordInv' /\ PointerInv'
<1>1. UNCHANGED <<plugin, ev, proc, call, path, calls>> BY StepEffect
<1>2. WhereInv' BY <1>1 DEF SaveInv, WhereInv, InCode, In, Code, calls
<1>3. RecordInv' BY <1>1 DEF SaveInv, RecordInv, Before, In, calls
<1>4. PointerInv'
  <2> SUFFICES ASSUME plugin \notin Blind PROVE out' # "garbage" /\ ~undef'
    BY <1>1 DEF PointerInv
  <2>1. out # "garbage" /\ ~undef BY DEF SaveInv, PointerInv
  <2>2. OpAt(t) # "addBlind" BY StepEffect, OpPlace DEF SaveInv
  <2>3. out' # "garbage" BY <2>1, StepEffect
  <2>4. undef' = undef \/ undef' = (undef \/ out = "garbage") BY <2>2, StepEffect
  <2>5. ~undef' BY <2>1, <2>4, Zenon
  <2> QED BY <2>3, <2>5
<1> QED BY <1>2, <1>3, <1>4

\* The file is closed by Fini only.
LEMMA CloseAtEnd ==
    ASSUME Discipline, Saving, PInv, SaveInv, Saves, NEW t \in Actors, Step(t)
    PROVE  /\ OpAt(t) = "close" => t = Main /\ In(Main, 1, "fini")
           /\ OpAt(t) # "close" => files' = files /\ (isOpen => isOpen')
           /\ OpAt(t) \notin {"close", "open"} => isOpen' = isOpen
           /\ OpAt(t) = "open" => In(t, 1, "brun") /\ t \in Threads /\ isOpen'
           /\ listed /\ isOpen => listed'
           /\ OpAt(t) # "open" /\ listed => listed'
<1>1. path[t] \in Seq(Op) /\ pos[t] \in 1..Len(path[t]) /\ proc[t] \in Procs
  BY StepEffect DEF PInv, TypeOK
<1>2. /\ OpAt(t) = "close" => t = Main /\ In(Main, 1, "fini")
      /\ OpAt(t) = "open" => In(t, 1, "brun") /\ t \in Threads
  <2>1. OpAt(t) \in {"close", "open"} => proc[t] = 1
    BY <1>1, OpPlace DEF SaveInv, Saves, Procs
  <2> QED BY <1>1, <2>1, OpPlace DEF SaveInv, Saves, In, Actors
<1>3. hasOutput /\ ~isET BY DEF Saves
<1>4. listed \in BOOLEAN /\ isOpen \in BOOLEAN BY DEF PInv, TypeOK
<1> QED BY <1>2, <1>3, <1>4, StepEffect

\* OpenInv is kept by every operation.
LEMMA StepOpen ==
    ASSUME Discipline, Saving, PInv, SaveInv, Saves, NEW t \in Actors, Step(t)
    PROVE  OpenInv'
<1>1. UNCHANGED <<proc, call, path, brunRun>> BY StepEffect DEF calls
<1>2. OpenInv BY DEF SaveInv
<1>3. OpAt(t) = "close" => Closing BY CloseAtEnd DEF In, Closing
<1>4. ASSUME ~Closing
      PROVE  files' = <<>> /\ (brunRun[1] # 0 => isOpen') /\ (listed' => isOpen')
  <2>1. files = <<>> /\ (brunRun[1] # 0 => isOpen) /\ (listed => isOpen)
    BY <1>2, <1>4 DEF OpenInv
  <2>2. files' = files /\ (isOpen => isOpen') BY <1>3, <1>4, CloseAtEnd
  <2>3. listed' => isOpen'
    <3>1. CASE OpAt(t) = "open" BY <3>1, CloseAtEnd
    <3>2. CASE OpAt(t) # "open"
      <4>1. listed' => listed \/ isOpen BY <2>1, <3>2, StepEffect
      <4> QED BY <2>1, <2>2, <4>1
    <3> QED BY <3>1, <3>2
  <2> QED BY <2>1, <2>2, <2>3
<1>5. ASSUME NEW u \in Threads, In(u, 1, "brun"), Did(u, "open")' PROVE isOpen'
  <2>1. ~Closing BY <1>5 DEF PInv, OrderInv, Out, In, Closing
  <2>2. isOpen => isOpen' BY <1>3, <2>1, CloseAtEnd
  <2>3. CASE u # t
    <3>1. pos'[u] = pos[u] BY <2>3, StepEffect DEF Actors
    <3>2. Did(u, "open") BY <1>1, <1>5, <3>1 DEF Did
    <3> QED BY <1>2, <1>5, <2>2, <3>2 DEF OpenInv
  <2>4. CASE u = t
    <3>1. path[t] \in Seq(Op) /\ pos[t] \in 1..Len(path[t]) BY StepEffect
    <3>2. OpAt(t) # "makeOnce"
      BY <1>5, <2>4, <3>1, OpPlace DEF SaveInv, Saves, In
    <3>3. pos'[t] = pos[t] + 1 BY <3>2, StepEffect
    <3>4. Did(t, "open") \/ OpAt(t) = "open" BY <1>1, <1>5, <2>4, <3>1, <3>3, DidNext
    <3> QED BY <1>2, <1>5, <2>2, <2>4, <3>4, CloseAtEnd DEF OpenInv
  <2> QED BY <2>3, <2>4
<1> QED BY <1>1, <1>4, <1>5 DEF OpenInv, In, Closing

\* FirstInv is kept by every operation.
LEMMA StepFirst ==
    ASSUME Discipline, Saving, PInv, SaveInv, Saves, NEW t \in Actors, Step(t)
    PROVE  FirstInv'
<1>1. UNCHANGED <<plugin, ev, proc, call, path, brunRun, first>> BY StepEffect DEF calls
<1>2. FirstInv /\ OpenInv BY DEF SaveInv
<1>3. out = "set" => out' = "set" BY StepEffect
<1>4. brunRun[2] # 0 \/ (\E u \in Threads : In(u, 2, "brun")) => brunRun[1] # 0
  BY DEF SaveInv, RecordInv, In, PInv, OrderInv, Out
<1>5. ASSUME ~Closing PROVE listed => listed'
  <2>1. listed => isOpen BY <1>2, <1>5 DEF OpenInv
  <2> QED BY <2>1, CloseAtEnd
<1>6. ASSUME Closing PROVE listed => listed'
  <2>1. OpAt(t) # "open" BY <1>6, CloseAtEnd DEF In, PInv, OrderInv, Out, Closing
  <2> QED BY <2>1, CloseAtEnd
<1>7. ASSUME NEW u \in Threads, In(u, 2, "brun"), brunRun[2] = 0
      PROVE  /\ path[u] \in FirstPaths(plugin)
             /\ Did(u, "find")' => out' = "set"
             /\ DidBoth(u, "find", "add")' => listed'
  <2>1. /\ path[u] \in FirstPaths(plugin)
        /\ Did(u, "find") => out = "set"
        /\ DidBoth(u, "find", "add") => listed
    BY <1>2, <1>7 DEF FirstInv
  <2>2. CASE u # t
    <3>1. pos'[u] = pos[u] BY <2>2, StepEffect DEF Actors
    <3>2. /\ Did(u, "find")' <=> Did(u, "find")
          /\ DidBoth(u, "find", "add")' <=> DidBoth(u, "find", "add")
      BY <1>1, <3>1 DEF Did, DidBoth
    <3> QED BY <1>3, <1>5, <1>6, <2>1, <3>2
  <2>3. CASE u = t
    <3>1. path[t] \in Seq(Op) /\ pos[t] \in 1..Len(path[t]) BY StepEffect
    <3>2. OpAt(t) # "makeOnce"
      BY <1>7, <2>3, <3>1, OpPlace DEF SaveInv, Saves, In
    <3>3. pos'[t] = pos[t] + 1 BY <3>2, StepEffect
    <3>4. /\ Did(t, "find")' => Did(t, "find") \/ OpAt(t) = "find"
          /\ DidBoth(t, "find", "add")' =>
                DidBoth(t, "find", "add") \/ (Did(t, "find") /\ OpAt(t) = "add")
      BY <1>1, <3>1, <3>3, DidNext
    <3>5. OpAt(t) = "find" => out' = "set" BY StepEffect DEF Saves
    <3>6. ~Closing BY <1>7 DEF PInv, OrderInv, Out, In, Closing
    <3>7. isOpen BY <1>2, <1>4, <1>7, <3>6 DEF OpenInv
    <3>8. OpAt(t) = "add" /\ out = "set" => listed' BY <3>7, StepEffect
    <3> QED BY <1>3, <1>5, <2>1, <2>3, <3>4, <3>5, <3>6, <3>8
  <2> QED BY <2>2, <2>3
<1>8. brunRun[2] # 0 => out' = "set" /\ (FirstAdds' => listed')
  <2>1. FirstAdds' = FirstAdds BY <1>1 DEF FirstAdds
  <2> QED BY <1>2, <1>3, <1>5, <1>6, <2>1 DEF FirstInv
<1> QED BY <1>1, <1>2, <1>7, <1>8 DEF FirstInv, In

\* Whoever is in erun of the plugin is alone there, and finds the output open
\* and the pointer set.
LEMMA InErun ==
    ASSUME PInv, SaveInv, Saves, NEW t \in Actors, In(t, 2, "erun"), path[t] # <<>>
    PROVE  /\ out = "set" /\ isOpen /\ brunRun[2] # 0
           /\ \A u \in Actors : In(u, 2, "erun") => u = t
<1>1. brunRun[2] # 0
  <2>1. CASE t \in Threads BY <2>1 DEF SaveInv, RecordInv, In
  <2>2. CASE t = Main
    <3>1. brunCalled[2] BY <2>2 DEF SaveInv, WhereInv, InCode, In, Body
    <3> QED BY <3>1 DEF SaveInv, RecordInv, Procs
  <2> QED BY <2>1, <2>2 DEF Actors
<1>2. out = "set" BY <1>1 DEF SaveInv, FirstInv
<1>3. ~Closing
  <2>1. CASE t \in Threads BY <2>1 DEF PInv, OrderInv, Out, In, Closing
  <2>2. CASE t = Main BY <2>2 DEF In, Closing
  <2> QED BY <2>1, <2>2 DEF Actors
<1>4. isOpen BY <1>1, <1>3 DEF SaveInv, RecordInv, OpenInv
<1>5. ASSUME NEW u \in Actors, In(u, 2, "erun") PROVE u = t
  <2>1. CASE u = Main \/ t = Main
    <3>1. call[Main] = "erun" BY <1>5, <2>1 DEF In
    <3>2. \A v \in Threads : call[v] # "erun" BY <3>1 DEF PInv, OrderInv, Out
    <3> QED BY <1>5, <3>2 DEF In, Actors
  <2>2. CASE u \in Threads /\ t \in Threads
    BY <1>5, <2>2 DEF PInv, OrderInv, In
  <2> QED BY <2>1, <2>2 DEF Actors
<1> QED BY <1>1, <1>2, <1>4, <1>5

\* An operation of another actor leaves WillAdd alone; so does one of the actor
\* itself, unless it adds.
LEMMA StepWillAdd ==
    ASSUME PInv, NEW t \in Actors, Step(t), NEW u \in Actors, WillAdd(u),
           u = t => OpAt(t) \notin {"add", "makeOnce"}
    PROVE  WillAdd(u)'
<1>1. UNCHANGED <<proc, call, path>> BY StepEffect
<1>2. CASE u # t
  <2>1. pos'[u] = pos[u] BY <1>2, StepEffect
  <2> QED BY <1>1, <2>1 DEF WillAdd, In, Did
<1>3. CASE u = t
  <2>1. /\ path[t] \in Seq(Op) /\ pos[t] \in 1..Len(path[t]) /\ path'[t] = path[t]
        /\ pos'[t] = pos[t] + 1
    BY <1>1, <1>3, StepEffect
  <2>2. Did(t, "makeOnce")' BY <1>3, <2>1, DidNext DEF WillAdd
  <2>3. PICK k \in pos[t]..Len(path[t]) : path[t][k] = "add" BY <1>3 DEF WillAdd
  <2>4. k # pos[t] BY <1>3, <2>3 DEF OpAt
  <2>5. k \in pos'[t]..Len(path'[t]) /\ path'[t][k] = "add" BY <2>1, <2>3, <2>4
  <2> QED BY <1>1, <1>3, <2>2, <2>5 DEF WillAdd, In
<1> QED BY <1>2, <1>3

\* A makeOnce that makes the histograms has an add to come; one that finds
\* them made finds them in the list.
LEMMA MakeAdds ==
    ASSUME Discipline, Saving, PInv, SaveInv, Saves, NEW t \in Actors, Step(t),
           OpAt(t) = "makeOnce"
    PROVE  /\ In(t, 2, "erun") /\ path[t] \in plugin.erun /\ plugin \in Resetting
           /\ made # <<>> => listed
           /\ made = <<>> => WillAdd(t)'
<1>1. /\ path[t] \in Seq(Op) /\ pos[t] \in 1..Len(path[t])
      /\ UNCHANGED <<proc, call, path>>
  BY StepEffect
<1>2. In(t, 2, "erun") /\ path[t] \in plugin.erun /\ plugin \in Resetting
  BY <1>1, OpPlace DEF SaveInv, Saves, In
<1>3. HandsOver(plugin) BY DEF Saves, Saving, PInv, TypeOK
<1>4. HasBoth(path[t], "makeOnce", "add") /\ Once(path[t], "makeOnce")
  BY <1>2, <1>3 DEF HandsOver
<1>5. \A j \in 1..Len(path[t]) : path[t][j] = "makeOnce" => j = pos[t]
  BY <1>1, <1>4 DEF Once, OpAt
<1>6. ~Did(t, "makeOnce") BY <1>1, <1>5 DEF Did
<1>7. ASSUME made # <<>> PROVE listed
  <2>1. \A u \in Actors : In(u, 2, "erun") => u = t BY <1>1, <1>2, InErun
  <2>2. \A u \in Actors : ~WillAdd(u) BY <1>6, <2>1 DEF WillAdd
  <2> QED BY <1>7, <2>2 DEF SaveInv, MadeInv
<1>8. ASSUME made = <<>> PROVE WillAdd(t)'
  <2>1. pos'[t] = pos[t] + 1 BY <1>8, StepEffect
  <2>2. Did(t, "makeOnce")' BY <1>1, <2>1, DidNext
  <2>3. PICK j, k \in 1..Len(path[t]) :
           j < k /\ path[t][j] = "makeOnce" /\ path[t][k] = "add"
    BY <1>4 DEF HasBoth
  <2>4. k > pos[t] BY <1>1, <1>5, <2>3
  <2>5. k \in pos'[t]..Len(path'[t]) /\ path'[t][k] = "add" BY <1>1, <2>1, <2>3, <2>4
  <2> QED BY <1>1, <1>2, <2>2, <2>5 DEF WillAdd, In
<1> QED BY <1>2, <1>7, <1>8

\* An operation does not take the objects from the list.
LEMMA StaysListed ==
    ASSUME Discipline, Saving, PInv, SaveInv, Saves, NEW t \in Actors, Step(t), listed
    PROVE  listed'
<1>1. CASE Closing
  <2>1. OpAt(t) # "open" BY <1>1, CloseAtEnd DEF In, PInv, OrderInv, Out, Closing
  <2> QED BY <2>1, CloseAtEnd
<1>2. CASE ~Closing
  <2>1. isOpen BY <1>2 DEF SaveInv, OpenInv
  <2> QED BY <2>1, CloseAtEnd
<1> QED BY <1>1, <1>2

\* From erun of Fini on nothing is filled any more.
LEMMA NoFill ==
    ASSUME Discipline, Saving, PInv, SaveInv, Saves, NEW t \in Actors, Step(t), ~Before
    PROVE  entries' = entries
<1>1. path[t] \in Seq(Op) /\ pos[t] \in 1..Len(path[t]) /\ proc[t] \in Procs
  BY StepEffect DEF PInv, TypeOK
<1>2. t \notin Threads
  <2> SUFFICES ASSUME t \in Threads PROVE FALSE OBVIOUS
  <2>1. call[t] \in Out BY DEF PInv, OrderInv, Before
  <2>2. path[t] = <<>> BY <2>1 DEF PInv, OrderInv
  <2> QED BY <1>1, <2>2
<1>3. t = Main /\ call[t] \in {"erun", "fini"}
  BY <1>1, <1>2, OpPlace DEF SaveInv, Saves, Before, Actors
<1>4. OpAt(t) \notin {"row", "hist"}
  BY <1>1, <1>3, OpPlace DEF SaveInv, Saves, Procs
<1> QED BY <1>4, StepEffect

\* MadeInv is kept by every operation.
LEMMA StepMade ==
    ASSUME Discipline, Saving, PInv, SaveInv, Saves, NEW t \in Actors, Step(t)
    PROVE  MadeInv'
<1>1. /\ UNCHANGED <<plugin, proc, call, path>>
      /\ path[t] \in Seq(Op) /\ pos[t] \in 1..Len(path[t])
      /\ made' = (IF OpAt(t) = "makeOnce" /\ made = <<>> THEN <<entries>> ELSE made)
  BY StepEffect
<1>2. MadeInv BY DEF SaveInv
<1>3. plugin \notin Resetting => made' = <<>> BY <1>1, <1>2, MakeAdds DEF MadeInv
<1>4. made' # <<>> => listed' \/ \E u \in Actors : WillAdd(u)'
  <2> SUFFICES ASSUME made' # <<>>, ~listed' PROVE \E u \in Actors : WillAdd(u)' OBVIOUS
  <2>0. ~listed BY StaysListed
  <2>1. CASE OpAt(t) = "makeOnce" BY <2>0, <2>1, MakeAdds
  <2>2. CASE OpAt(t) # "makeOnce"
    <3>1. PICK u \in Actors : WillAdd(u) BY <1>1, <1>2, <2>0, <2>2 DEF MadeInv
    <3>2. u = t => OpAt(t) # "add"
      <4> SUFFICES ASSUME u = t, OpAt(t) = "add" PROVE FALSE OBVIOUS
      <4>1. out = "set" /\ isOpen BY <1>1, <3>1, InErun DEF WillAdd
      <4> QED BY <4>1, StepEffect
    <3> QED BY <2>2, <3>1, <3>2, StepWillAdd
  <2> QED BY <2>1, <2>2
<1>5. ASSUME OneRun PROVE made' = <<>> \/ (~Before /\ made' = <<entries'>>)
  <2>1. made = <<>> \/ (~Before /\ made = <<entries>>) BY <1>2, <1>5 DEF MadeInv
  <2>2. CASE OpAt(t) = "makeOnce" /\ made = <<>>
    <3>1. In(t, 2, "erun") BY <2>2, MakeAdds
    <3>2. t \notin Threads BY <1>5, <3>1 DEF SaveInv, RecordInv, In
    <3>3. ~Before BY <3>1, <3>2 DEF In, Actors, Before
    <3> QED BY <1>1, <2>2, <3>3, NoFill
  <2>3. CASE ~(OpAt(t) = "makeOnce" /\ made = <<>>)
    BY <1>1, <2>1, <2>3, NoFill
  <2> QED BY <2>2, <2>3
<1> QED BY <1>1, <1>3, <1>4, <1>5 DEF MadeInv, Before

\* EndInv is kept by every operation.
LEMMA StepEnd ==
    ASSUME Discipline, Saving, PInv, SaveInv, Saves, NEW t \in Actors, Step(t)
    PROVE  EndInv'
<1>1. /\ UNCHANGED <<plugin, proc, call, path, brunCalled>>
      /\ path[t] \in Seq(Op) /\ pos[t] \in 1..Len(path[t]) /\ proc[t] \in Procs
      /\ made' = (IF OpAt(t) = "makeOnce" /\ made = <<>> THEN <<entries>> ELSE made)
  BY StepEffect DEF calls, PInv, TypeOK
<1> SUFFICES ASSUME brunCalled[2], ~Before PROVE EndInv'
  BY <1>1 DEF EndInv, In, Closing, Before
<1>2. EndInv!2 BY DEF SaveInv, EndInv
<1>3. t = Main /\ call[Main] \in {"erun", "fini"}
  <2>1. t \notin Threads
    <3> SUFFICES ASSUME t \in Threads PROVE FALSE OBVIOUS
    <3>1. call[t] \in Out BY DEF PInv, OrderInv, Before
    <3>2. path[t] = <<>> BY <3>1 DEF PInv, OrderInv
    <3> QED BY <1>1, <3>2
  <2> QED BY <1>1, <2>1, OpPlace DEF SaveInv, Saves, Before, Actors
<1>4. entries' = entries BY NoFill
<1>5. ASSUME In(Main, 2, "erun")
      PROVE  (Did(Main, "add")' => listed') /\ (Did(Main, "makeOnce")' => made' # <<>>)
  <2>1. (Did(Main, "add") => listed) /\ (Did(Main, "makeOnce") => made # <<>>)
    BY <1>2, <1>5
  <2>2. out = "set" /\ isOpen BY <1>1, <1>3, <1>5, InErun
  <2>3. CASE OpAt(t) = "makeOnce" /\ made # <<>>
    BY <1>1, <2>3, MakeAdds, StaysListed
  <2>4. CASE ~(OpAt(t) = "makeOnce" /\ made # <<>>)
    <3>1. pos'[t] = pos[t] + 1 BY <2>4, StepEffect
    <3>2. /\ Did(Main, "add")' => Did(Main, "add") \/ OpAt(t) = "add"
          /\ Did(Main, "makeOnce")' => Did(Main, "makeOnce") \/ OpAt(t) = "makeOnce"
      BY <1>1, <1>3, <3>1, DidNext
    <3>3. OpAt(t) = "add" => listed' BY <2>2, StepEffect
    <3>4. made # <<>> \/ OpAt(t) = "makeOnce" => made' # <<>> BY <1>1
    <3> QED BY <2>1, <3>2, <3>3, <3>4, StaysListed
  <2> QED BY <2>3, <2>4
<1>6. ASSUME Closing
      PROVE  /\ listed' /\ (plugin \in Resetting => made' # <<>>) /\ made' = made
             /\ pos'[t] = pos[t] + 1 /\ OpAt(t) # "open"
  <2>1. OpAt(t) # "makeOnce" BY <1>3, <1>6, MakeAdds DEF In, Closing
  <2>2. listed' BY <1>2, <1>6, StaysListed
  <2>3. OpAt(t) # "open" BY <1>3, <1>6, CloseAtEnd DEF In, Closing
  <2> QED BY <1>1, <1>2, <1>6, <2>1, <2>2, <2>3, StepEffect
<1>7. Closing => Saved' = Saved BY <1>4, <1>6 DEF Saved
<1>8. ASSUME In(Main, 1, "fini")
      PROVE  IF Did(Main, "close")' THEN files' = <<Saved'>> /\ ~isOpen'
                                    ELSE files' = <<>> /\ isOpen'
  <2>0. Closing /\ listed BY <1>2, <1>8 DEF In, Closing
  <2>1. IF Did(Main, "close") THEN files = <<Saved>> /\ ~isOpen
                              ELSE files = <<>> /\ isOpen
    BY <1>2, <1>8
  <2>2. Did(Main, "close")' <=> Did(Main, "close") \/ OpAt(t) = "close"
    BY <1>1, <1>3, <1>6, <2>0, DidNext
  <2>3. CASE OpAt(t) # "close"
    <3>1. files' = files /\ isOpen' = isOpen BY <1>6, <2>0, <2>3, CloseAtEnd
    <3> QED BY <1>7, <2>0, <2>1, <2>2, <2>3, <3>1
  <2>4. CASE OpAt(t) = "close"
    <3>1. IF isOpen THEN isOpen' = FALSE /\ files' = Append(files, Saved)
                    ELSE UNCHANGED <<isOpen, files>>
      BY <2>0, <2>4, StepEffect
    <3>2. files = <<>> => Append(files, Saved) = <<Saved>> OBVIOUS
    <3>3. files' = <<Saved>> BY <2>1, <3>1, <3>2
    <3>4. ~isOpen'
      <4>1. CASE isOpen BY <3>1, <4>1, Zenon
      <4>2. CASE ~isOpen BY <3>1, <4>2, Zenon
      <4> QED BY <4>1, <4>2
    <3> QED BY <1>7, <2>0, <2>2, <2>4, <3>3, <3>4
  <2> QED BY <2>3, <2>4
<1>9. ASSUME In(Main, 2, "fini")
      PROVE  files' = <<Saved'>> /\ ~isOpen'
  <2>1. Closing BY <1>9 DEF In, Closing
  <2>2. OpAt(t) # "close" BY <1>9, CloseAtEnd DEF In
  <2>3. files' = files /\ isOpen' = isOpen BY <1>6, <2>1, <2>2, CloseAtEnd
  <2> QED BY <1>2, <1>7, <1>9, <2>1, <2>3
<1> QED BY <1>1, <1>3, <1>5, <1>6, <1>8, <1>9 DEF EndInv, In, Closing

\* A call or a return of a thread: t goes to place c of processor i, and what
\* is about the output stays.
Passes(t, i, c, s) ==
    /\ Goes(t, i, c, s)
    /\ call[t] = "erun" => AtEnd(t) \/ At(t, "throw")
    /\ c \in Out \cup {"enter"} => s = <<>>
    /\ c \notin Out \cup {"enter"} => s \in Paths(i, c)
    /\ first' = (first /\ ~(i = 2 /\ c = "brun"))
    /\ UNCHANGED <<plugin, isET, hasOutput, out, made, entries, isOpen, listed, files, undef>>

\* What the others see of it.
LEMMA PassesOthers ==
    ASSUME PInv, NEW t \in Threads, NEW i \in Procs, NEW c, NEW s, Passes(t, i, c, s)
    PROVE  /\ proc'[t] = i /\ call'[t] = c /\ path'[t] = s /\ pos'[t] = 1
           /\ \A u \in Actors : u # t =>
                 /\ proc'[u] = proc[u] /\ call'[u] = call[u]
                 /\ path'[u] = path[u] /\ pos'[u] = pos[u]
           /\ t \in Actors /\ t # Main /\ proc[t] \in Procs
           /\ \A x : ~Did(t, x)' /\ \A y : ~DidBoth(t, x, y)'
           /\ \A u \in Actors : u # t => \A x : (Did(u, x)' <=> Did(u, x))
           /\ \A u \in Actors : u # t => \A x, y : (DidBoth(u, x, y)' <=> DidBoth(u, x, y))
<1>1. /\ proc'[t] = i /\ call'[t] = c /\ path'[t] = s /\ pos'[t] = 1
      /\ \A u \in Actors : u # t =>
            /\ proc'[u] = proc[u] /\ call'[u] = call[u]
            /\ path'[u] = path[u] /\ pos'[u] = pos[u]
      /\ t \in Actors /\ t # Main /\ proc[t] \in Procs
  BY PluginsAssumption DEF Passes, Goes, PInv, TypeOK, Actors
<1> QED BY <1>1 DEF Did, DidBoth

\* Every step of OneEvent is one.
LEMMA OneEventPasses ==
    ASSUME PInv, NEW t \in Threads, OneEvent(t)
    PROVE  \E i \in Procs : \E c \in {"idle", "dead", "enter", "erun", "brun", "evnt"} :
              \E s : Passes(t, i, c, s)
<1>1. t \in Actors /\ proc[t] \in Procs /\ first \in BOOLEAN
  BY DEF Actors, PInv, TypeOK
<1>2. ASSUME NEW i \in Procs, NEW c \in Out \cup {"enter"}, Move(t, i, c), UNCHANGED heap,
             call[t] # "erun" \/ At(t, "throw")
      PROVE  Passes(t, i, c, <<>>)
  BY <1>1, <1>2 DEF Move, Goes, Passes, heap, options, output, Out
<1>3. ASSUME NEW i \in Procs, NEW c \in {"erun", "brun", "evnt"}, Call(t, i, c),
             UNCHANGED heap, call[t] = "erun" => AtEnd(t)
      PROVE  \E s : Passes(t, i, c, s)
  <2>1. PICK s \in Paths(i, c) : Goes(t, i, c, s) BY <1>3 DEF Call, Goes
  <2> QED BY <1>1, <1>3, <2>1 DEF Call, Passes, heap, options, output, Out
<1>4. CASE Take(t) BY <1>2, <1>4 DEF Take, Procs, Out
<1>5. CASE CallErun(t) BY <1>1, <1>3, <1>5 DEF CallErun
<1>6. CASE CallBrun(t) BY <1>1, <1>3, <1>6 DEF CallBrun
<1>7. CASE BrunAfterErun(t) BY <1>1, <1>3, <1>7 DEF BrunAfterErun
<1>8. CASE EvntAfterBrun(t) BY <1>1, <1>3, <1>8 DEF EvntAfterBrun
<1>9. CASE CallEvnt(t) BY <1>1, <1>3, <1>9 DEF CallEvnt
<1>10. CASE EvntReturns(t) BY <1>2, <1>10 DEF EvntReturns, Procs, Out
<1>11. CASE Throw(t) BY <1>2, <1>11 DEF Throw, Procs, Out
<1> QED BY <1>4, <1>5, <1>6, <1>7, <1>8, <1>9, <1>10, <1>11 DEF OneEvent

\* The path of a call is one of the callback.
LEMMA PathsIn ==
    ASSUME plugin \in Plugins, NEW i \in Procs, NEW c \in Body, NEW s \in Paths(i, c)
    PROVE  /\ s \in Code(i)[c] \/ (i = 2 /\ c = "brun" /\ first /\ s \in FirstPaths(plugin))
           /\ i = 2 /\ c = "brun" /\ first => s \in FirstPaths(plugin)
<1>1. CASE c # "brun" BY <1>1 DEF Paths
<1>2. CASE c = "brun"
  <2>1. PICK f \in (IF i = 2 /\ first THEN plugin.first ELSE {<<>>}),
             b \in Code(i).brun : s = f \o b
    BY <1>2 DEF Paths
  <2>2. CASE i = 2 /\ first
    <3>1. f \in plugin.first /\ b \in plugin.brun BY <2>1, <2>2 DEF Code
    <3>2. s \in FirstPaths(plugin) BY <2>1, <3>1 DEF FirstPaths
    <3> QED BY <1>2, <2>2, <3>2
  <2>3. CASE ~(i = 2 /\ first)
    <3>1. Code(i) \in Plugins \cup {Output} BY DEF Code, Procs
    <3>2. b \in Seq(Op) BY <2>1, <3>1, PluginsAssumption DEF Callback
    <3>3. s = b BY <2>1, <2>3, <3>2
    <3> QED BY <1>2, <2>1, <2>3, <3>3
  <2> QED BY <2>2, <2>3
<1> QED BY <1>1, <1>2

\* What a call or return of a thread keeps whatever it is.
LEMMA PassesKeeps ==
    ASSUME Discipline, Saving, PInv, SaveInv, NEW t \in Threads, NEW i \in Procs,
           NEW c \in {"idle", "dead", "enter", "erun", "brun", "evnt"},
           NEW s, Passes(t, i, c, s), call[Main] = "run"
    PROVE  WhereInv' /\ PointerInv' /\ (Saves => MadeInv' /\ EndInv')
<1>1. /\ proc'[t] = i /\ call'[t] = c /\ path'[t] = s
      /\ \A u \in Actors : u # t =>
            /\ proc'[u] = proc[u] /\ call'[u] = call[u]
            /\ path'[u] = path[u] /\ pos'[u] = pos[u]
      /\ t \in Actors /\ t # Main /\ Main \in Actors
      /\ \A u \in Actors : u # t => \A x : (Did(u, x)' <=> Did(u, x))
  BY PassesOthers DEF Actors
<1>2. /\ UNCHANGED <<plugin, out, made, entries, listed, undef>>
      /\ call[t] = "erun" => AtEnd(t) \/ At(t, "throw")
      /\ c \in Out \cup {"enter"} => s = <<>>
      /\ c \notin Out \cup {"enter"} => s \in Paths(i, c)
  BY DEF Passes
<1>3. WhereInv'
  <2> SUFFICES ASSUME NEW u \in Actors PROVE InCode(u)' BY DEF WhereInv
  <2>1. CASE u = t
    <3>1. CASE c \in Out \cup {"enter"} BY <1>1, <1>2, <2>1, <3>1 DEF InCode, Body, Out
    <3>2. CASE c \notin Out \cup {"enter"}
      <4>1. c \in Body BY <3>2 DEF Body, Out
      <4>2. s \in Code(i)[c] \/ (i = 2 /\ c = "brun" /\ s \in FirstPaths(plugin))
        BY <1>2, <3>2, <4>1, PathsIn DEF PInv, TypeOK
      <4> QED BY <1>1, <1>2, <2>1, <4>1, <4>2 DEF InCode, In, Code
    <3> QED BY <3>1, <3>2
  <2>2. CASE u # t /\ u # Main BY <1>1, <1>2, <2>2 DEF SaveInv, WhereInv, InCode, In, Code
  <2>3. CASE u = Main
    <3>1. call'[Main] = "run" /\ path'[Main] = path[Main] BY <1>1
    <3>2. path[Main] = <<>> BY DEF PInv, OrderInv
    <3> QED BY <2>3, <3>1, <3>2 DEF InCode, Body
  <2> QED BY <2>1, <2>2, <2>3
<1>4. PointerInv' BY <1>2 DEF SaveInv, PointerInv
<1>5. ASSUME Saves PROVE MadeInv'
  <2>1. MadeInv BY <1>5 DEF SaveInv
  <2>2. ~WillAdd(t)
    <3> SUFFICES ASSUME WillAdd(t) PROVE FALSE OBVIOUS
    <3>1. PICK k \in pos[t]..Len(path[t]) : path[t][k] = "add" BY DEF WillAdd
    <3>2. /\ path[t] \in Seq(Op) /\ pos[t] \in Nat \ {0} /\ Len(path[t]) \in Nat
          /\ call[t] = "erun" /\ proc[t] = 2
      BY <1>1 DEF PInv, TypeOK, WillAdd, In
    <3>3. pos[t] \in 1..Len(path[t]) BY <3>1, <3>2
    <3>4. At(t, "throw") BY <1>2, <3>2, <3>3 DEF AtEnd
    <3>5. OpAt(t) # "throw" BY <1>1, <1>5, <3>2, <3>3, OpPlace DEF SaveInv, Saves
    <3> QED BY <3>4, <3>5 DEF At, OpAt
  <2>3. \A u \in Actors : WillAdd(u) => WillAdd(u)'
    BY <1>1, <2>2 DEF WillAdd, In
  <2>4. call'[Main] = call[Main] BY <1>1
  <2> QED BY <1>2, <2>1, <2>3, <2>4 DEF MadeInv, Before
<1>6. EndInv'
  <2>1. call'[Main] = "run" BY <1>1
  <2> QED BY <2>1 DEF EndInv, In, Closing
<1> QED BY <1>3, <1>4, <1>5, <1>6

\* OpenInv is kept if the file is open when brun has returned.
LEMMA OpenKept ==
    ASSUME PInv, SaveInv, Saves, NEW t \in Threads, NEW i \in Procs, NEW c, NEW s,
           Passes(t, i, c, s), call[Main] = "run",
           brunRun'[1] # 0 => brunRun[1] # 0 \/ isOpen
    PROVE  OpenInv'
<1>1. /\ proc'[t] = i /\ call'[t] = c
      /\ \A u \in Actors : u # t => proc'[u] = proc[u] /\ call'[u] = call[u]
      /\ t \in Actors /\ t # Main /\ Main \in Actors /\ Threads \subseteq Actors
      /\ ~Did(t, "open")'
      /\ \A u \in Actors : u # t => (Did(u, "open")' <=> Did(u, "open"))
  BY PassesOthers DEF Actors
<1>2. UNCHANGED <<isOpen, listed, files>> BY DEF Passes
<1>3. OpenInv /\ ~Closing BY DEF SaveInv, Closing
<1>4. files = <<>> /\ (brunRun[1] # 0 => isOpen) /\ (listed => isOpen)
  BY <1>3 DEF OpenInv
<1>5. ASSUME NEW u \in Threads, In(u, 1, "brun")', Did(u, "open")' PROVE isOpen
  BY <1>1, <1>3, <1>5 DEF OpenInv, In
<1> QED BY <1>2, <1>4, <1>5 DEF OpenInv

\* FirstInv is kept by what is not about the first brun of the plugin.
LEMMA FirstKept ==
    ASSUME PInv, SaveInv, Saves, NEW t \in Threads, NEW i \in Procs, NEW c, NEW s,
           Passes(t, i, c, s), brunRun'[2] = brunRun[2],
           brunRun[2] # 0 \/ (~(i = 2 /\ c = "brun") /\ ~In(t, 2, "brun"))
    PROVE  FirstInv'
<1>1. /\ proc'[t] = i /\ call'[t] = c
      /\ \A u \in Actors : u # t => /\ proc'[u] = proc[u] /\ call'[u] = call[u]
                                    /\ path'[u] = path[u]
      /\ t \in Actors /\ Threads \subseteq Actors
      /\ \A u \in Actors : u # t => \A x : (Did(u, x)' <=> Did(u, x))
      /\ \A u \in Actors : u # t => \A x, y : (DidBoth(u, x, y)' <=> DidBoth(u, x, y))
  BY PassesOthers DEF Actors
<1>2. UNCHANGED <<plugin, out, listed>> /\ first' = (first /\ ~(i = 2 /\ c = "brun"))
  BY DEF Passes
<1>3. FirstInv BY DEF SaveInv
<1>4. FirstAdds' <=> FirstAdds BY <1>2 DEF FirstAdds
<1>5. CASE brunRun[2] # 0 BY <1>2, <1>3, <1>4, <1>5 DEF FirstInv
<1>6. CASE brunRun[2] = 0
  <2>1. ~(i = 2 /\ c = "brun") /\ ~In(t, 2, "brun") BY <1>6
  <2>2. \A u \in Threads : In(u, 2, "brun")' <=> In(u, 2, "brun")
    BY <1>1, <2>1 DEF In
  <2>3. (\A u \in Threads : ~In(u, 2, "brun")') => first'
    BY <1>2, <1>3, <1>6, <2>1, <2>2 DEF FirstInv
  <2>4. ASSUME NEW u \in Threads, In(u, 2, "brun")'
        PROVE  /\ path'[u] \in FirstPaths(plugin)
               /\ Did(u, "find")' => out' = "set"
               /\ DidBoth(u, "find", "add")' => listed'
    <3>1. u # t /\ In(u, 2, "brun") BY <2>1, <2>2, <2>4
    <3> QED BY <1>1, <1>2, <1>3, <1>6, <3>1 DEF FirstInv
  <2> QED BY <1>2, <1>6, <2>3, <2>4 DEF FirstInv
<1> QED BY <1>5, <1>6

\* The record is kept if what t and the new values say is right.
LEMMA RecordKept ==
    ASSUME PInv, SaveInv, NEW t \in Threads, NEW i \in Procs, NEW c, NEW s,
           Passes(t, i, c, s), call[Main] = "run",
           \A u \in Threads : u # t => ev'[u] = ev[u],
           \A j \in Procs : /\ brunRun[j] # 0 => brunRun'[j] # 0
                            /\ brunCalled'[j] => brunRun'[j] # 0 /\ ~erunCalled'[j]
                            /\ OneRun => brunRun'[j] \in {0, RunOf[1]},
           brunRun'[2] # 0 => brunRun'[1] # 0,
           ev'[t] # 0 /\ (i = 2 \/ c = "evnt") => brunRun'[1] # 0,
           c = "erun" => brunRun'[i] # 0 /\ ~OneRun
    PROVE  RecordInv'
<1>1. /\ proc'[t] = i /\ call'[t] = c
      /\ \A u \in Actors : u # t => proc'[u] = proc[u] /\ call'[u] = call[u]
      /\ t \in Actors /\ t # Main /\ Main \in Actors /\ Threads \subseteq Actors
  BY PassesOthers DEF Actors
<1>2. ASSUME NEW u \in Threads
      PROVE  /\ ev'[u] # 0 /\ (proc'[u] = 2 \/ call'[u] = "evnt") => brunRun'[1] # 0
             /\ call'[u] = "erun" => brunRun'[proc'[u]] # 0 /\ ~OneRun
  <2>1. CASE u = t BY <1>1, <2>1
  <2>2. CASE u # t
    <3>1. /\ ev[u] # 0 /\ (proc[u] = 2 \/ call[u] = "evnt") => brunRun[1] # 0
          /\ call[u] = "erun" => brunRun[proc[u]] # 0 /\ ~OneRun
      BY DEF SaveInv, RecordInv
    <3>2. proc[u] \in Procs /\ 1 \in Procs BY <1>1 DEF PInv, TypeOK, Procs
    <3> QED BY <1>1, <2>2, <3>1, <3>2
  <2> QED BY <2>1, <2>2
<1>3. call'[Main] = "run" BY <1>1
<1> QED BY <1>2, <1>3 DEF RecordInv, In

\* An actor that returns from a callback is past all of its path.
LEMMA Returned ==
    ASSUME PInv, NEW t \in Actors, AtEnd(t)
    PROVE  path[t] \in Seq(Op) /\ pos[t] = Len(path[t]) + 1
BY DEF PInv, TypeOK, Inv, LInv, OnPath, AtEnd

\* Every step of OneEvent keeps SaveInv.
LEMMA OneEventSave ==
    ASSUME Discipline, Saving, PInv, SaveInv, NEW t \in Threads, OneEvent(t)
    PROVE  SaveInv'
<1> DEFINE i == proc[t]
<1>0. /\ call[Main] = "run" /\ (~Take(t) => ev[t] \in Event)
      /\ t \in Actors /\ i \in Procs /\ ev \in [Actors -> 0..NEvents]
      /\ Threads \subseteq Actors /\ 1 \in Procs /\ 2 \in Procs
  BY MainWaits DEF Actors, Procs
<1>e. \A e \in Event : e # 0 /\ RunOf[e] # 0 /\ (OneRun => RunOf[e] = RunOf[1])
  BY PluginsAssumption DEF Event, OneRun
<1>t. /\ brunRun \in [Procs -> Nat] /\ brunCalled \in [Procs -> BOOLEAN]
      /\ erunCalled \in [Procs -> BOOLEAN]
  BY DEF PInv, TypeOK
<1>r. /\ \A j \in Procs : brunCalled[j] => brunRun[j] # 0 /\ ~erunCalled[j]
      /\ brunRun[2] # 0 => brunRun[1] # 0
      /\ ev[t] # 0 /\ (i = 2 \/ call[t] = "evnt") => brunRun[1] # 0
      /\ call[t] = "erun" => brunRun[i] # 0 /\ ~OneRun
      /\ OneRun => \A j \in Procs : brunRun[j] \in {0, RunOf[1]}
  BY <1>0 DEF SaveInv, RecordInv, Before
<1>s. ASSUME NEW j \in Procs, NEW c \in {"idle", "dead", "enter", "erun", "brun", "evnt"},
             NEW s, Passes(t, j, c, s), RecordInv', Saves => OpenInv' /\ FirstInv'
      PROVE  SaveInv'
  <2>1. UNCHANGED <<plugin, isET, hasOutput>> BY <1>s DEF Passes
  <2>2. Saves' <=> Saves BY <2>1 DEF Saves
  <2> QED BY <1>0, <1>s, <2>2, PassesKeeps DEF SaveInv
<1>n. PICK j \in Procs, c \in {"idle", "dead", "enter", "erun", "brun", "evnt"} :
         \E s : Passes(t, j, c, s)
  BY OneEventPasses
<1>p. PICK s : Passes(t, j, c, s) BY <1>n
<1>g. proc'[t] = j /\ call'[t] = c /\ path'[t] = s BY <1>p, PassesOthers
<1>m. ASSUME UNCHANGED brunRun, Saves PROVE OpenInv' BY <1>0, <1>p, <1>m, OpenKept
<1>1. CASE Take(t)
  <2>1. /\ ev' = [ev EXCEPT ![t] = next] /\ UNCHANGED calls /\ call[t] = "idle"
        /\ proc' = [proc EXCEPT ![t] = 1] /\ call' = [call EXCEPT ![t] = "enter"]
    BY <1>1 DEF Take, Move
  <2>2. j = 1 /\ c = "enter" BY <1>0, <1>g, <2>1 DEF PInv, TypeOK
  <2>3. UNCHANGED <<brunRun, brunCalled, erunCalled>> BY <2>1 DEF calls
  <2>4. RecordInv' BY <1>0, <1>r, <1>p, <2>1, <2>2, <2>3, RecordKept
  <2>5. Saves => FirstInv' BY <1>p, <2>1, <2>2, <2>3, FirstKept DEF In
  <2> QED BY <1>p, <1>s, <1>m, <2>3, <2>4, <2>5
<1>2. CASE CallErun(t)
  <2>1. /\ UNCHANGED <<ev, brunCalled, erunCalled, brunRun>> /\ call[t] = "enter"
        /\ proc' = [proc EXCEPT ![t] = i] /\ call' = [call EXCEPT ![t] = "erun"]
        /\ RunOf[ev[t]] # brunRun[i] /\ brunCalled[i] /\ ~Take(t)
    BY <1>2 DEF CallErun, Call, Take
  <2>2. j = i /\ c = "erun" BY <1>0, <1>g, <2>1 DEF PInv, TypeOK
  <2>3. ~OneRun BY <1>0, <1>e, <1>r, <2>1
  <2>4. RecordInv' BY <1>0, <1>r, <1>p, <2>1, <2>2, <2>3, RecordKept
  <2>5. Saves => FirstInv' BY <1>p, <2>1, <2>2, FirstKept DEF In
  <2> QED BY <1>p, <1>s, <1>m, <2>1, <2>4, <2>5
<1>3. CASE CallBrun(t)
  <2>1. /\ UNCHANGED <<ev, erunCalled, brunRun>> /\ call[t] = "enter" /\ ~Take(t)
        /\ proc' = [proc EXCEPT ![t] = i] /\ call' = [call EXCEPT ![t] = "brun"]
        /\ brunCalled' = [brunCalled EXCEPT ![i] = FALSE] /\ state[i] = Nobody
    BY <1>3 DEF CallBrun, Call, Take
  <2>2. j = i /\ c = "brun" BY <1>0, <1>g, <2>1 DEF PInv, TypeOK
  <2>3. \A k \in Procs : brunCalled'[k] => brunCalled[k] BY <1>0, <1>t, <2>1
  <2>4. RecordInv' BY <1>0, <1>r, <1>p, <2>1, <2>2, <2>3, RecordKept
  <2>5. ASSUME Saves PROVE FirstInv'
    <3>1. CASE brunRun[2] # 0 \/ i = 1
      BY <1>p, <2>1, <2>2, <2>5, <3>1, FirstKept DEF In
    <3>2. CASE brunRun[2] = 0 /\ i = 2
      <4>1. \A u \in Threads : u # t => ~In(u, 2, "brun")
        BY <1>0, <2>1, <3>2, AloneInState DEF In
      <4>2. first BY <2>1, <2>5, <3>2, <4>1 DEF SaveInv, FirstInv, In
      <4>3. s \in Paths(2, "brun") /\ UNCHANGED plugin
        BY <1>p, <2>2, <3>2 DEF Passes, Out
      <4>4. s \in FirstPaths(plugin) BY <1>0, <4>2, <4>3, PathsIn DEF PInv, TypeOK, Body
      <4>5. /\ \A u \in Threads : In(u, 2, "brun")' <=> u = t
            /\ ~Did(t, "find")' /\ ~DidBoth(t, "find", "add")'
        <5>1. /\ \A u \in Actors : u # t => proc'[u] = proc[u] /\ call'[u] = call[u]
              /\ ~Did(t, "find")' /\ ~DidBoth(t, "find", "add")'
          BY <1>p, PassesOthers
        <5> QED BY <1>0, <1>g, <2>2, <3>2, <4>1, <5>1 DEF In
      <4> QED BY <1>0, <1>g, <2>1, <3>2, <4>3, <4>4, <4>5 DEF FirstInv
    <3> QED BY <1>0, <3>1, <3>2 DEF Procs
  <2> QED BY <1>p, <1>s, <1>m, <2>1, <2>4, <2>5
<1>4. CASE BrunAfterErun(t)
  <2>1. /\ UNCHANGED <<ev, brunRun>> /\ call[t] = "erun" /\ ~Take(t)
        /\ proc' = [proc EXCEPT ![t] = i] /\ call' = [call EXCEPT ![t] = "brun"]
        /\ brunCalled' = [brunCalled EXCEPT ![i] = FALSE]
        /\ erunCalled' = [erunCalled EXCEPT ![i] = TRUE]
    BY <1>4 DEF BrunAfterErun, Call, Take
  <2>2. j = i /\ c = "brun" BY <1>0, <1>g, <2>1 DEF PInv, TypeOK
  <2>3. \A k \in Procs : brunCalled'[k] => brunCalled[k] /\ erunCalled'[k] = erunCalled[k]
    BY <1>0, <1>t, <2>1
  <2>4. RecordInv' BY <1>0, <1>r, <1>p, <2>1, <2>2, <2>3, RecordKept
  <2>5. brunRun[2] # 0 \/ i = 1 BY <1>0, <1>r, <2>1 DEF Procs
  <2>6. Saves => FirstInv' BY <1>p, <2>1, <2>2, <2>5, FirstKept DEF In
  <2> QED BY <1>p, <1>s, <1>m, <2>1, <2>4, <2>6
<1>5. CASE EvntAfterBrun(t)
  <2>1. /\ UNCHANGED <<ev>> /\ call[t] = "brun" /\ AtEnd(t) /\ ~Take(t)
        /\ proc' = [proc EXCEPT ![t] = i] /\ call' = [call EXCEPT ![t] = "evnt"]
        /\ brunCalled' = [brunCalled EXCEPT ![i] = TRUE]
        /\ erunCalled' = [erunCalled EXCEPT ![i] = FALSE]
        /\ brunRun' = [brunRun EXCEPT ![i] = RunOf[ev[t]]]
    BY <1>5 DEF EvntAfterBrun, Call, Take
  <2>2. j = i /\ c = "evnt" BY <1>0, <1>g, <2>1 DEF PInv, TypeOK
  <2>3. /\ brunRun'[i] = RunOf[ev[t]] /\ brunRun'[i] # 0 /\ ~erunCalled'[i]
        /\ \A k \in Procs : k # i => /\ brunRun'[k] = brunRun[k]
                                     /\ brunCalled'[k] = brunCalled[k]
                                     /\ erunCalled'[k] = erunCalled[k]
    BY <1>0, <1>e, <1>t, <2>1
  <2>4. brunRun'[1] # 0 BY <1>0, <1>e, <1>r, <2>1, <2>3 DEF Procs
  <2>5. RecordInv'
    <3>1. \A k \in Procs : /\ brunRun[k] # 0 => brunRun'[k] # 0
                           /\ brunCalled'[k] => brunRun'[k] # 0 /\ ~erunCalled'[k]
                           /\ OneRun => brunRun'[k] \in {0, RunOf[1]}
      BY <1>0, <1>e, <1>r, <2>1, <2>3
    <3> QED BY <1>0, <1>p, <2>1, <2>2, <2>4, <3>1, RecordKept
  <2>6. path[t] \in Seq(Op) /\ pos[t] = Len(path[t]) + 1 BY <1>0, <2>1, Returned
  <2>7. ASSUME Saves PROVE OpenInv'
    <3>1. CASE i = 2 BY <1>0, <1>p, <2>3, <2>7, <3>1, OpenKept
    <3>2. CASE i = 1
      <4>1. path[t] \in Output.brun
        <5>1. t # Main BY PluginsAssumption
        <5> QED BY <1>0, <2>1, <3>2, <5>1 DEF SaveInv, WhereInv, InCode, In, Body, Code
      <4>2. Did(t, "open") BY <2>6, <4>1, DidAll DEF Saving
      <4>3. isOpen BY <2>1, <2>7, <3>2, <4>2 DEF SaveInv, OpenInv, In
      <4> QED BY <1>0, <1>p, <2>7, <4>3, OpenKept
    <3> QED BY <1>0, <3>1, <3>2 DEF Procs
  <2>8. ASSUME Saves PROVE FirstInv'
    <3>1. CASE i = 1 BY <1>0, <1>p, <2>1, <2>2, <2>3, <2>8, <3>1, FirstKept DEF In
    <3>2. CASE i = 2
      <4>1. UNCHANGED <<plugin, out, listed>> BY <1>p DEF Passes
      <4>2. FirstAdds' <=> FirstAdds BY <4>1 DEF FirstAdds
      <4>3. out = "set" /\ (FirstAdds => listed)
        <5>1. CASE brunRun[2] # 0 BY <2>8, <5>1 DEF SaveInv, FirstInv
        <5>2. CASE brunRun[2] = 0
          <6>1. /\ path[t] \in FirstPaths(plugin)
                /\ Did(t, "find") => out = "set"
                /\ DidBoth(t, "find", "add") => listed
            BY <2>1, <2>8, <3>2, <5>2 DEF SaveInv, FirstInv, In
          <6>2. HandsOver(plugin) BY <2>8 DEF Saves, Saving, PInv, TypeOK
          <6>3. Did(t, "find") BY <2>6, <6>1, <6>2, DidAll DEF HandsOver
          <6>4. FirstAdds => DidBoth(t, "find", "add") BY <2>6, <6>1, DidAll DEF FirstAdds
          <6> QED BY <6>1, <6>3, <6>4
        <5> QED BY <5>1, <5>2
      <4> QED BY <2>3, <3>2, <4>1, <4>2, <4>3 DEF FirstInv
    <3> QED BY <1>0, <3>1, <3>2 DEF Procs
  <2> QED BY <1>p, <1>s, <2>5, <2>7, <2>8
<1>6. CASE CallEvnt(t)
  <2>1. /\ UNCHANGED <<ev, calls>> /\ call[t] = "enter" /\ brunCalled[i] /\ ~Take(t)
        /\ proc' = [proc EXCEPT ![t] = i] /\ call' = [call EXCEPT ![t] = "evnt"]
    BY <1>6 DEF CallEvnt, Call, Take
  <2>2. j = i /\ c = "evnt" BY <1>0, <1>g, <2>1 DEF PInv, TypeOK
  <2>3. UNCHANGED <<brunRun, brunCalled, erunCalled>> BY <2>1 DEF calls
  <2>4. brunRun[1] # 0 BY <1>0, <1>r, <2>1 DEF Procs
  <2>5. RecordInv' BY <1>0, <1>r, <1>p, <2>1, <2>2, <2>3, <2>4, RecordKept
  <2>6. Saves => FirstInv' BY <1>p, <2>1, <2>2, <2>3, FirstKept DEF In
  <2> QED BY <1>p, <1>s, <1>m, <2>3, <2>5, <2>6
<1>7. CASE EvntReturns(t)
  <2>1. /\ UNCHANGED calls /\ call[t] = "evnt" /\ ~Take(t)
        /\ \/ /\ UNCHANGED ev /\ i = 1 /\ proc' = [proc EXCEPT ![t] = 2]
              /\ call' = [call EXCEPT ![t] = "enter"]
           \/ /\ ev' = [ev EXCEPT ![t] = 0] /\ proc' = [proc EXCEPT ![t] = 1]
              /\ call' = [call EXCEPT ![t] = "idle"]
    BY <1>7 DEF EvntReturns, Move, Take
  <2>2. /\ c \notin {"erun", "brun", "evnt"}
        /\ ev'[t] # 0 => ev[t] # 0
        /\ \A u \in Threads : u # t => ev'[u] = ev[u]
    BY <1>0, <1>g, <2>1 DEF PInv, TypeOK
  <2>3. UNCHANGED <<brunRun, brunCalled, erunCalled>> BY <2>1 DEF calls
  <2>4. RecordInv' BY <1>0, <1>r, <1>p, <2>1, <2>2, <2>3, RecordKept
  <2>5. Saves => FirstInv' BY <1>p, <2>1, <2>2, <2>3, FirstKept DEF In
  <2> QED BY <1>p, <1>s, <1>m, <2>3, <2>4, <2>5
<1>8. CASE Throw(t)
  <2>1. /\ ev' = [ev EXCEPT ![t] = 0] /\ UNCHANGED calls /\ At(t, "throw")
        /\ proc' = [proc EXCEPT ![t] = 1] /\ call' = [call EXCEPT ![t] = "dead"]
    BY <1>8 DEF Throw, Move
  <2>2. j = 1 /\ c = "dead" /\ ev'[t] = 0 /\ \A u \in Threads : u # t => ev'[u] = ev[u]
    BY <1>0, <1>g, <2>1 DEF PInv, TypeOK
  <2>3. UNCHANGED <<brunRun, brunCalled, erunCalled>> BY <2>1 DEF calls
  <2>4. RecordInv' BY <1>0, <1>r, <1>p, <2>2, <2>3, RecordKept
  <2>5. ASSUME Saves PROVE FirstInv'
    <3>1. path[t] \in Seq(Op) /\ pos[t] \in 1..Len(path[t]) /\ OpAt(t) = "throw"
      BY <1>0, <2>1, SMTT(30) DEF At, AtEnd, PInv, TypeOK, OpAt
    <3>2. In(t, 2, "brun") /\ brunRun[2] = 0 => path[t] \in FirstPaths(plugin)
      BY <2>5 DEF SaveInv, FirstInv
    <3>3. brunRun[2] # 0 \/ ~In(t, 2, "brun")
      BY <1>0, <2>5, <3>1, <3>2, OpPlace DEF SaveInv, Saves, In
    <3> QED BY <1>p, <2>2, <2>3, <2>5, <3>3, FirstKept
  <2> QED BY <1>p, <1>s, <1>m, <2>3, <2>4, <2>5
<1> QED BY <1>1, <1>2, <1>3, <1>4, <1>5, <1>6, <1>7, <1>8 DEF OneEvent

\* A step of the main thread between callbacks: it goes to place c of
\* processor i.
MainPasses(i, c, s) ==
    /\ Goes(Main, i, c, s) /\ AtEnd(Main)
    /\ UNCHANGED <<plugin, isET, hasOutput, ev, brunCalled, brunRun, first, out, made,
                   entries, isOpen, listed, files, undef>>

\* The places the main thread goes through.
MainPlaces(i, c, s) ==
    \/ /\ c = "init" /\ s \in Code(i).init /\ Before /\ UNCHANGED erunCalled
    \/ /\ c = "run" /\ s = <<>> /\ Before /\ UNCHANGED erunCalled
    \/ /\ c = "erun" /\ i = 1 /\ call[Main] = "run"
       /\ (IF brunCalled[1] THEN s \in Output.erun ELSE s = <<>>)
       /\ erunCalled'[2] = erunCalled[2]
    \/ /\ c = "erun" /\ i = 2 /\ In(Main, 1, "erun")
       /\ (IF brunCalled[2] THEN s \in plugin.erun ELSE s = <<>>)
    \/ /\ c = "fini" /\ i = 1 /\ In(Main, 2, "erun") /\ s \in Output.fini
       /\ UNCHANGED erunCalled
    \/ /\ c = "fini" /\ i = 2 /\ In(Main, 1, "fini") /\ s \in plugin.fini
       /\ UNCHANGED erunCalled
    \/ /\ c = "done" /\ In(Main, 2, "fini") /\ s = <<>> /\ UNCHANGED erunCalled

\* MainInit and MainFini are such steps.
LEMMA MainSteps ==
    ASSUME PInv, SaveInv, MainInit \/ MainFini
    PROVE  \E i \in Procs : \E c, s : MainPasses(i, c, s) /\ MainPlaces(i, c, s)
<1>1. AtEnd(Main) /\ UNCHANGED <<plugin, isET, hasOutput, ev, out, made, entries, isOpen,
                                 listed, files, undef>>
  BY DEF MainInit, MainFini, heap, options, output
<1>2. first \in BOOLEAN /\ erunCalled \in [Procs -> BOOLEAN] /\ 1 \in Procs /\ 2 \in Procs
  BY DEF PInv, TypeOK, Procs
<1>3. ASSUME NEW i \in Procs, NEW c \in {"init", "erun", "fini"}, Call(Main, i, c),
             UNCHANGED <<brunCalled, brunRun>>
      PROVE  \E s \in Code(i)[c] : MainPasses(i, c, s)
  <2>1. PICK s \in Paths(i, c) : Goes(Main, i, c, s) BY <1>3 DEF Call, Goes
  <2>2. s \in Code(i)[c] BY <2>1 DEF Paths
  <2>3. UNCHANGED first BY <1>2, <1>3 DEF Call
  <2> QED BY <1>1, <1>3, <2>1, <2>2, <2>3 DEF MainPasses
<1>4. ASSUME NEW i \in Procs, NEW c, Move(Main, i, c), UNCHANGED <<brunCalled, brunRun>>
      PROVE  MainPasses(i, c, <<>>)
  BY <1>1, <1>4 DEF Move, Goes, MainPasses
<1>5. Code(1) = Output /\ Code(2) = plugin BY DEF Code
<1>6. CASE MainInit
  <2>1. UNCHANGED <<brunCalled, brunRun, erunCalled>> /\ Before
    BY <1>6 DEF MainInit, calls, Before
  <2>2. CASE call[Main] = "start" /\ Call(Main, 1, "init")
    BY <1>2, <1>3, <2>1, <2>2 DEF MainPlaces
  <2>3. CASE call[Main] = "init" /\ Call(Main, 2, "init")
    BY <1>2, <1>3, <2>1, <2>3 DEF MainPlaces
  <2>4. CASE call[Main] = "init" /\ Move(Main, 1, "run")
    BY <1>2, <1>4, <2>1, <2>4 DEF MainPlaces
  <2> QED BY <1>6, <2>2, <2>3, <2>4 DEF MainInit
<1>7. ASSUME NEW i \in Procs, FiniErun(i), ~(brunCalled[i] /\ erunCalled[i])
      PROVE  \E s : /\ MainPasses(i, "erun", s)
                    /\ IF brunCalled[i] THEN s \in Code(i).erun ELSE s = <<>>
  <2>1. UNCHANGED <<brunCalled, brunRun>> BY <1>7 DEF FiniErun
  <2>2. CASE brunCalled[i] /\ Call(Main, i, "erun") BY <1>3, <2>1, <2>2
  <2>3. CASE ~brunCalled[i] /\ Move(Main, i, "erun") BY <1>4, <2>1, <2>3
  <2> QED BY <1>7, <2>2, <2>3 DEF FiniErun
<1>8. CASE MainFini
  <2>1. CASE call[Main] = "run" /\ FiniErun(1)
    <3>1. ~(brunCalled[1] /\ erunCalled[1])
      BY <1>2, <2>1 DEF SaveInv, RecordInv, Before
    <3>2. erunCalled'[2] = erunCalled[2] BY <1>2, <2>1 DEF FiniErun
    <3> QED BY <1>2, <1>5, <1>7, <2>1, <3>1, <3>2 DEF MainPlaces
  <2>2. CASE In(Main, 1, "erun") /\ FiniErun(2)
    <3>1. ~(brunCalled[2] /\ erunCalled[2]) BY <2>2 DEF SaveInv, RecordInv
    <3> QED BY <1>2, <1>5, <1>7, <2>2, <3>1 DEF MainPlaces
  <2>3. CASE In(Main, 2, "erun") /\ Call(Main, 1, "fini") /\ UNCHANGED calls
    BY <1>2, <1>3, <1>5, <2>3 DEF MainPlaces, calls
  <2>4. CASE In(Main, 1, "fini") /\ Call(Main, 2, "fini") /\ UNCHANGED calls
    BY <1>2, <1>3, <1>5, <2>4 DEF MainPlaces, calls
  <2>5. CASE In(Main, 2, "fini") /\ Move(Main, 1, "done") /\ UNCHANGED calls
    BY <1>2, <1>4, <2>5 DEF MainPlaces, calls
  <2> QED BY <1>8, <2>1, <2>2, <2>3, <2>4, <2>5 DEF MainFini, In
<1> QED BY <1>6, <1>8

\* Fini finds the objects in the list when erun of the plugin has returned.
LEMMA ListedAtEnd ==
    ASSUME Saving, PInv, SaveInv, Saves, brunCalled[2], In(Main, 2, "erun"), AtEnd(Main)
    PROVE  /\ listed /\ (plugin \in Resetting => made # <<>>)
           /\ files = <<>> /\ isOpen
<1>0. Main \in Actors BY DEF Actors
<1>1. path[Main] \in plugin.erun
  BY <1>0 DEF SaveInv, WhereInv, InCode, In, Body, Code
<1>2. path[Main] \in Seq(Op) /\ pos[Main] = Len(path[Main]) + 1 BY <1>0, Returned
<1>3. HandsOver(plugin) BY DEF Saves, Saving, PInv, TypeOK
<1>4. brunRun[2] # 0 /\ brunRun[1] # 0 BY DEF SaveInv, RecordInv, Procs
<1>5. (Did(Main, "add") => listed) /\ (Did(Main, "makeOnce") => made # <<>>)
  BY DEF SaveInv, EndInv
<1>6. listed
  <2>1. CASE FirstAdds BY <1>4, <2>1 DEF SaveInv, FirstInv
  <2>2. CASE \A s \in plugin.erun : Has(s, "add") BY <1>1, <1>2, <1>5, <2>2, DidAll
  <2> QED BY <1>3, <2>1, <2>2 DEF HandsOver, FirstAdds
<1>7. ASSUME plugin \in Resetting PROVE made # <<>>
  <2>1. HasBoth(path[Main], "makeOnce", "add") BY <1>1, <1>3, <1>7 DEF HandsOver
  <2>2. Has(path[Main], "makeOnce") BY <2>1 DEF HasBoth, Has
  <2> QED BY <1>2, <1>5, <2>2, DidAll
<1>8. files = <<>> /\ isOpen
  <2>1. ~Closing BY DEF In, Closing
  <2> QED BY <1>4, <2>1 DEF SaveInv, OpenInv
<1> QED BY <1>6, <1>7, <1>8

\* Every step of the main thread keeps SaveInv.
LEMMA MainSave ==
    ASSUME Saving, PInv, SaveInv, MainInit \/ MainFini PROVE SaveInv'
<1>0. PICK i \in Procs : \E c, s : MainPasses(i, c, s) /\ MainPlaces(i, c, s) BY MainSteps
<1>1. PICK c, s : MainPasses(i, c, s) /\ MainPlaces(i, c, s) BY <1>0
<1>2. /\ Goes(Main, i, c, s) /\ AtEnd(Main)
      /\ UNCHANGED <<plugin, isET, hasOutput, ev, brunCalled, brunRun, first, out, made,
                     entries, isOpen, listed, files, undef>>
  BY <1>1 DEF MainPasses
<1>3. Main \in Actors /\ Main \notin Threads /\ Threads \subseteq Actors
      /\ \A u \in Actors : u # Main => u \in Threads
  BY PluginsAssumption DEF Actors
<1>4. /\ proc'[Main] = i /\ call'[Main] = c /\ path'[Main] = s /\ pos'[Main] = 1
      /\ \A u \in Threads : /\ proc'[u] = proc[u] /\ call'[u] = call[u]
                            /\ path'[u] = path[u] /\ pos'[u] = pos[u]
  BY <1>2, <1>3 DEF Goes, PInv, TypeOK
<1>5. /\ \A x : ~Did(Main, x)'
      /\ \A u \in Threads : \A x : (Did(u, x)' <=> Did(u, x))
      /\ \A u \in Threads : \A x, y : (DidBoth(u, x, y)' <=> DidBoth(u, x, y))
  BY <1>4 DEF Did, DidBoth
<1>6. (Before' => Before) /\ (Closing => Closing')
  BY <1>1, <1>4 DEF MainPlaces, Before, Closing, In
<1>7. WhereInv'
  <2> SUFFICES ASSUME NEW u \in Actors PROVE InCode(u)' BY DEF WhereInv
  <2>1. CASE u # Main
    BY <1>2, <1>3, <1>4, <2>1 DEF SaveInv, WhereInv, InCode, In, Code
  <2>2. CASE u = Main
    <3>1. Code(1) = Output /\ Code(2) = plugin BY DEF Code
    <3>2. /\ c \notin Body => s = <<>>
          /\ c \in Body => IF c = "erun" /\ ~brunCalled[i] THEN s = <<>> ELSE s \in Code(i)[c]
      BY <1>1, <3>1 DEF MainPlaces, Body
    <3> QED BY <1>2, <1>4, <2>2, <3>2 DEF InCode, Code
  <2> QED BY <2>1, <2>2
<1>8. RecordInv'
  <2>1. Before' => UNCHANGED erunCalled BY <1>1, <1>4 DEF MainPlaces, Before
  <2>2. In(Main, 1, "erun")' => Before /\ erunCalled'[2] = erunCalled[2]
    BY <1>1, <1>4 DEF MainPlaces, In, Before
  <2> QED BY <1>2, <1>4, <1>6, <2>1, <2>2 DEF SaveInv, RecordInv, Procs
<1>9. PointerInv' BY <1>2 DEF SaveInv, PointerInv
<1>10. Saves' <=> Saves BY <1>2 DEF Saves
<1>11. ASSUME Saves PROVE OpenInv' /\ FirstInv' /\ MadeInv' /\ EndInv'
  <2>0. OpenInv /\ FirstInv /\ MadeInv /\ EndInv BY <1>11 DEF SaveInv
  <2>1. OpenInv' BY <1>2, <1>4, <1>5, <1>6, <2>0 DEF OpenInv, In
  <2>2. FirstInv'
    <3>1. FirstAdds' <=> FirstAdds BY <1>2 DEF FirstAdds
    <3>2. \A t \in Threads : In(t, 2, "brun")' <=> In(t, 2, "brun") BY <1>4 DEF In
    <3> QED BY <1>2, <1>4, <1>5, <2>0, <3>1, <3>2 DEF FirstInv
  <2>3. MadeInv'
    <3>1. ~WillAdd(Main)
      <4>1. path[Main] \in Seq(Op) /\ pos[Main] = Len(path[Main]) + 1
        BY <1>2, <1>3, Returned
      <4>2. pos[Main]..Len(path[Main]) = {} BY <4>1
      <4> QED BY <4>2 DEF WillAdd
    <3>2. \A u \in Actors : WillAdd(u) => WillAdd(u)'
      BY <1>3, <1>4, <1>5, <3>1 DEF WillAdd, In
    <3> QED BY <1>2, <1>6, <2>0, <3>2 DEF MadeInv
  <2>4. EndInv'
    <3> SUFFICES ASSUME brunCalled[2] PROVE EndInv!2' BY <1>2 DEF EndInv
    <3>0. EndInv!2 BY <2>0 DEF EndInv
    <3>1. Saved' = Saved BY <1>2 DEF Saved
    <3>2. In(Main, 2, "erun")' => /\ Did(Main, "add")' => listed'
                                  /\ Did(Main, "makeOnce")' => made' # <<>>
      BY <1>5
    <3>3. CASE c \notin {"fini", "done"}
      BY <1>4, <3>2, <3>3 DEF In, Closing
    <3>4. CASE c = "fini" /\ i = 1 /\ In(Main, 2, "erun")
      <4>1. listed /\ (plugin \in Resetting => made # <<>>) /\ files = <<>> /\ isOpen
        BY <1>2, <1>11, <3>4, ListedAtEnd
      <4> QED BY <1>2, <1>4, <1>5, <3>4, <4>1 DEF In
    <3>5. CASE c = "fini" /\ i = 2 /\ In(Main, 1, "fini")
      <4>1. path[Main] \in Output.fini
        BY <1>3, <3>5 DEF SaveInv, WhereInv, InCode, In, Body, Code
      <4>2. path[Main] \in Seq(Op) /\ pos[Main] = Len(path[Main]) + 1
        BY <1>2, <1>3, Returned
      <4>3. Did(Main, "close") BY <4>1, <4>2, DidAll DEF Saving
      <4>4. files = <<Saved>> /\ ~isOpen BY <3>0, <3>5, <4>3
      <4>5. listed /\ (plugin \in Resetting => made # <<>>) BY <3>0, <3>5 DEF In, Closing
      <4> QED BY <1>2, <1>4, <3>1, <3>5, <4>4, <4>5 DEF In
    <3>6. CASE c = "done" /\ In(Main, 2, "fini")
      <4>1. files = <<Saved>> /\ ~isOpen BY <3>0, <3>6
      <4>2. listed /\ (plugin \in Resetting => made # <<>>) BY <3>0, <3>6 DEF In, Closing
      <4> QED BY <1>2, <1>4, <3>1, <3>6, <4>1, <4>2 DEF In
    <3> QED BY <1>1, <3>3, <3>4, <3>5, <3>6 DEF MainPlaces
  <2> QED BY <2>1, <2>2, <2>3, <2>4
<1> QED BY <1>7, <1>8, <1>9, <1>10, <1>11 DEF SaveInv

\* At first nothing is there.
LEMMA InitSave == ASSUME Saving PROVE Init => SaveInv
<1> SUFFICES ASSUME Init PROVE SaveInv OBVIOUS
<1>1. /\ plugin \in Plugins /\ files = <<>> /\ listed = FALSE /\ made = <<>> /\ undef = FALSE
      /\ first \in plugin.new.first /\ out \in plugin.new.out
      /\ brunRun = [i \in Procs |-> 0] /\ brunCalled = [i \in Procs |-> FALSE]
      /\ path = [t \in Actors |-> <<>>] /\ ev = [t \in Actors |-> 0]
      /\ call = [t \in Actors |-> IF t = Main THEN "start" ELSE "idle"]
  BY DEF Init
<1>2. /\ Main \in Actors /\ Threads \subseteq Actors /\ Main \notin Threads
      /\ 1 \in Procs /\ 2 \in Procs
  BY PluginsAssumption DEF Actors, Procs
<1>3. call[Main] = "start" /\ \A t \in Threads : call[t] = "idle" BY <1>1, <1>2
<1>4. WhereInv BY <1>1 DEF WhereInv, InCode, Body
<1>5. RecordInv BY <1>1, <1>2, <1>3 DEF RecordInv, In
<1>6. PointerInv BY <1>1 DEF PointerInv, Saving
<1>7. ASSUME Saves PROVE OpenInv /\ FirstInv /\ MadeInv /\ EndInv
  <2>1. HandsOver(plugin) BY <1>1, <1>7 DEF Saves, Saving
  <2>2. first BY <1>1, <2>1 DEF HandsOver
  <2> QED BY <1>1, <1>2, <1>3, <2>2 DEF OpenInv, FirstInv, MadeInv, EndInv, In
<1> QED BY <1>4, <1>5, <1>6, <1>7 DEF SaveInv

\* SaveInv is kept for ever.
LEMMA SaveInvariance == ASSUME Discipline, Saving PROVE Spec => [](PInv /\ SaveInv)
<1>1. Init => SaveInv BY InitSave
<1>2. PInv /\ SaveInv /\ [Next]_vars => SaveInv'
  <2> SUFFICES ASSUME PInv, SaveInv, [Next]_vars PROVE SaveInv' OBVIOUS
  <2>1. ASSUME NEW t \in Actors, Step(t) PROVE SaveInv'
    <3>1. Saves' <=> Saves BY <2>1, StepEffect DEF Saves
    <3> QED BY <2>1, <3>1, StepRecord, StepOpen, StepFirst, StepMade, StepEnd DEF SaveInv
  <2>2. CASE \E t \in Threads : OneEvent(t) BY <2>2, OneEventSave
  <2>3. CASE MainInit \/ MainFini BY <2>3, MainSave
  <2>4. CASE UNCHANGED vars
    BY <2>4 DEF vars, options, where, calls, members, output, SaveInv, WhereInv, InCode,
       RecordInv, PointerInv, Saves, OpenInv, FirstInv, MadeInv, EndInv, In, Did, DidBoth,
       Before, Closing, FirstAdds, WillAdd, Saved, Code
  <2> QED BY <2>1, <2>2, <2>3, <2>4 DEF Next, Done
<1> QED BY <1>1, <1>2, OrderInvariance, PTL DEF Spec

\* At the end of a job with one output file the file holds the objects of the
\* plugin with all that was filled into them, and no object was added through
\* a pointer never set, for any plugins that keep to Discipline and Saving and
\* any threads, events and runs.
THEOREM OutputIsSaved == ASSUME Discipline, Saving PROVE Spec => []OutputSaved
<1>1. PInv /\ SaveInv => OutputSaved
  <2> SUFFICES ASSUME PInv, SaveInv PROVE FilledIsSaved /\ NoGarbagePointer
    BY DEF OutputSaved
  <2>1. FilledIsSaved
    <3> SUFFICES ASSUME call[Main] = "done", Saves, brunCalled[2]
                 PROVE  files = << IF plugin \in Resetting /\ ~OneRun THEN made
                                   ELSE <<entries>> >>
      BY DEF FilledIsSaved, Saves
    <3>1. files = <<Saved>> /\ (plugin \in Resetting => made # <<>>)
      BY DEF SaveInv, EndInv, Closing
    <3>2. plugin \notin Resetting => made = <<>> BY DEF SaveInv, MadeInv
    <3>3. OneRun => made = <<>> \/ made = <<entries>> BY DEF SaveInv, MadeInv
    <3> QED BY <3>1, <3>2, <3>3 DEF Saved
  <2>2. NoGarbagePointer BY DEF SaveInv, PointerInv, NoGarbagePointer
  <2> QED BY <2>1, <2>2
<1> QED BY <1>1, SaveInvariance, PTL
=============================================================================
