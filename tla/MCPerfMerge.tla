---------------------------- MODULE MCPerfMerge -----------------------------
(* Instances of PerfMerge for TLC. *)
EXTENDS PerfMerge

Data(t) == [kind |-> "data", time |-> t]
Round == [kind |-> "round"]
Bad == [kind |-> "bad"]
Attr(c) == [kind |-> "attr", id |-> c]
ClockData(c, w, t) == [kind |-> "clock", id |-> c, wall |-> w, clockTime |-> t]

DataUpTo(n, T) == UNION {[1 .. k -> {Data(t) : t \in T}] : k \in 0 .. n}

\* Clock offsets: the smallest signed word, one that fits, one that does not.
Clocks == {ClockData(1, 0, MaxInt64 + 1), ClockData(1, 1, 0), ClockData(0, Word - 1, 0)}

\* Data at both ends of an unsigned word; metadata before, between and after
\* data; clock IDs that agree and that do not.
MCInputs ==
  DataUpTo(2, {0, 1, Word - 1})
    \cup {<<m, Data(1)>> : m \in {Round, Bad, Attr(0), Attr(1)} \cup Clocks}
    \cup {<<Data(0), m, Data(1)>> : m \in {Bad} \cup Clocks}
    \cup {<<Attr(0), m, Data(0)>> : m \in Clocks}
    \cup {<<ClockData(0, 1, 0), Data(1), Attr(0), Data(1)>>}

MCOffsets == {-(MaxInt64 + 1), 0, MaxInt64}

SmallInputs == DataUpTo(2, {0, 1})
=============================================================================
