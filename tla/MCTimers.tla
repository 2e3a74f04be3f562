------------------------------ MODULE MCTimers ------------------------------
(* A periodic and a one-shot timer that share two handle indices; the bound *)
(* on waits lets the periodic one start its second and third.               *)
EXTENDS Timers

CONSTANTS once, every, s1, s2, s3, h1, h2

MCTimers == {once, every}
MCPeriodic == {every}
MCWaits == {s1, s2, s3}
MCHandles == {h1, h2}
=============================================================================
