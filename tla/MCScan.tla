------------------------------- MODULE MCScan -------------------------------
(* Sessions for TLC: what the history of a leg may have left behind. *)
EXTENDS TrapScan

B(at, low, high, close) == [at |-> at, low |-> low, high |-> high, close |-> close]

\* Yesterday: sellers between 92 and 107 are trapped.
Yesterday ==
  <<B(-20, 107, 110, 108), B(-14, 92, 100, 98), B(-8, 108, 115, 112)>>

\* Today, before the engine was restarted: a short, a lower low, a trap.
Morning ==
  <<B(0, 98, 100, 98), B(2, 92, 98, 92), B(4, 98, 107, 100)>>

\* Today: buyers above 107 are trapped, and sellers below 98 got their price back.
Whipsaw ==
  <<B(0, 98, 100, 98), B(2, 92, 107, 107), B(4, 98, 107, 98), B(5, 92, 98, 98)>>

\* Today: sellers below 100 got their price back, those below 99 are trapped.
Second ==
  <<B(0, 100, 102, 100), B(2, 98, 101, 99), B(4, 100, 103, 103), B(6, 99, 101, 100),
    B(7, 98, 100, 98), B(8, 100, 104, 104)>>

OptionSessions ==
  {[source |-> "option", gap |-> g, open |-> 100, start |-> 10,
    bars |-> [l \in {"CE1"} |-> Yesterday \o b]] :
      g \in {"FLAT", "DOWN"}, b \in {Morning, Second}}

FuturesSessions ==
  {[source |-> "futures", gap |-> "FLAT", open |-> 100, start |-> 6,
    bars |-> [l \in {"FUT", "CE1"} |-> IF l = "FUT" THEN fut ELSE Morning]] :
      fut \in {Yesterday, Whipsaw}}

Sessions == OptionSessions \cup FuturesSessions
=============================================================================
