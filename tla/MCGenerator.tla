----------------------------- MODULE MCGenerator -----------------------------
(***************************************************************************)
(* A line of two machines and short shifts: runs that begin with a shift,  *)
(* in the middle of one, and before the first shift of the day.            *)
(***************************************************************************)
EXTENDS SimulatorQa

CONSTANT Starts, Length

MCLineOf == [m \in Machines |-> 1]

MCPeriods == {[start |-> s, end |-> s + Length] : s \in Starts}

MCShiftStart == [A |-> 2, B |-> 6, C |-> 9]

MCSlowed == [c \in CycleTimes |-> c + 1]
=============================================================================
