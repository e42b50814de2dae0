--------------------------- MODULE MCEventSource ---------------------------
(***************************************************************************)
(* EventSource for TLC: command lines of one and two sources of every      *)
(* kind, with run changes, split runs, empty files and time slices, events *)
(* that cannot be read, ET systems with bad events and ends of run, and    *)
(* sources that do not open.                                               *)
(***************************************************************************)
EXTENDS EventSource

I(w, r) == [what |-> w, run |-> r, n |-> 0]
Slice(n) == [what |-> "slice", run |-> 1, n |-> n]
Source(name, opens, items) == [name |-> name, opens |-> opens, items |-> items]

Evio  == {"evio"}
First == <<I("prestart", 1), I("epics", 0), I("physics", 1), I("end", 0)>>
Split == <<I("epics", 0), I("physics", 2), I("prestart", 1)>>
Torn  == <<I("physics", 1), I("corrupt", 0), I("physics", 1)>>

Files  == {Source(Evio, TRUE, First), Source({"evio", "pt"}, TRUE, Split),
           Source(Evio, TRUE, Torn), Source(Evio, TRUE, <<>>)}
Ets    == {Source({"ET:"}, TRUE, <<I("prestart", 1), I("physics", 2), I("end", 0)>>),
           Source({"ET:"}, TRUE, <<I("epics", 0), I("bad", 0), I("bad", 0)>>),
           Source({"ET:"}, TRUE, Torn)}
Slices == {Source({"pt"}, TRUE, <<Slice(2), Slice(1)>>),
           Source({"pt"}, TRUE, <<Slice(1), Slice(0), Slice(1)>>),
           Source({"pt"}, TRUE, <<Slice(1), I("corrupt", 0), Slice(1)>>)}
Others == {Source({}, TRUE, <<>>), Source(Evio, FALSE, <<>>), Source({"ET:"}, FALSE, <<>>)}

All == Files \cup Ets \cup Slices \cup Others
MCSourceLists == {<<a>> : a \in All} \cup {<<a, b>> : a, b \in All}
=============================================================================
