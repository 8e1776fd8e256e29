---------------------------- MODULE MCEventLoop ----------------------------
(* EventLoop with named sinks: two wait to read, one to write. *)
EXTENDS EventLoop, TLC

CONSTANTS in1, in2, out, spin, epi, rd, wr

MCSink == {in1, in2, out, spin, epi}
MCListOf == [s \in MCSink |->
  CASE s = spin -> "spinners" [] s = epi -> "epilogues"
    [] OTHER -> "sinks"]
MCEventOf == [s \in MCSink |-> IF s = out THEN wr ELSE rd]
MCEvent == {rd, wr}

\* One sink, of a thread other than main: enough for ReadySinkCalled to be violated.
MCSink1 == {in1}
MCListOf1 == [s \in MCSink1 |-> "sinks"]
MCEventOf1 == [s \in MCSink1 |-> rd]
MCEvent1 == {rd}
=============================================================================
