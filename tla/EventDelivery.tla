--------------------------- MODULE EventDelivery ---------------------------
(***************************************************************************)
(* What the reader, the buffer and the threads of EventBuffer promise      *)
(* together to the code that processes events: events are handed out in    *)
(* the order the sources deliver them, each at most once, and while        *)
(* somebody works on a barrier event nothing younger is handed out.  The   *)
(* promise about barrier events ends when the program gives up (Ctrl-C, or *)
(* too many stalled threads); the others are kept to the end.  Buffer,     *)
(* locks, flags and threads do not appear here.                            *)
(***************************************************************************)
EXTENDS Integers

CONSTANT Event      \* event numbers

VARIABLES
    barrier,   \* the events nothing younger may overtake
    held,      \* the events handed out and not yet completed
    done,      \* the events completed
    hurry      \* the program is giving up

deliveryVars == <<barrier, held, done, hurry>>

Init ==
    /\ barrier \in SUBSET Event
    /\ held = {} /\ done = {} /\ hurry = FALSE

\* Event e goes to somebody who asked for the next event.
Hand(e) ==
    /\ \A f \in held \cup done : f < e
    /\ hurry \/ held \cap barrier = {}
    /\ held' = held \cup {e}
    /\ UNCHANGED <<barrier, done, hurry>>

\* Whoever has event e has finished with it.
Complete(e) ==
    /\ e \in held
    /\ held' = held \ {e}
    /\ done' = done \cup {e}
    /\ UNCHANGED <<barrier, hurry>>

\* Some of those who have an event disappear, the program may give up.
Lose ==
    /\ held' \in SUBSET held
    /\ hurry' \in {hurry, TRUE}
    /\ UNCHANGED <<barrier, done>>

Next == Lose \/ \E e \in Event : Hand(e) \/ Complete(e)

Spec == Init /\ [][Next]_deliveryVars
=============================================================================
