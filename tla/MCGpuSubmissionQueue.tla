------------------------ MODULE MCGpuSubmissionQueue ------------------------
EXTENDS GpuSubmissionQueue

Write(l, v) == [op |-> "write", arg |-> l, val |-> v, fn |-> 0]
Wait(l, v, fn) == [op |-> "wait", arg |-> l, val |-> v, fn |-> fn]
Call(b) == [op |-> "call", arg |-> b, val |-> 0, fn |-> 0]
Work(op, target) == [op |-> op, arg |-> target, val |-> 0, fn |-> 0]
Bad == [op |-> "bad", arg |-> 0, val |-> 0, fn |-> 0]

\* 1 signals and then waits for the answer; 2 answers inside a called buffer
\* (3) and ends in a branch not taken; 4 dispatches; 5 waits for label 1,
\* draws to the target of 4 and withdraws the answer; 6 calls itself; 7
\* writes to an unmapped label; 8 is malformed.
MCCode ==
  <<<<Write(1, 1), Wait(2, 1, 3)>>,
    <<Call(3), Call(0)>>,
    <<Wait(1, 1, 5), Write(2, 1)>>,
    <<Work("dispatch", 1)>>,
    <<Wait(1, 0, 4), Work("draw", 1), Write(2, 0)>>,
    <<Call(6)>>,
    <<Write(1, 0), Write(9, 1)>>,
    <<Bad>>>>

\* Host work only: 1 dispatches to target 1, 2 draws to target 2 and then to
\* target 1.
MCDrawCode ==
  <<<<Work("dispatch", 1)>>,
    <<Work("draw", 2), Work("draw", 1)>>>>
=============================================================================
