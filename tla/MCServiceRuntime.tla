-------------------------- MODULE MCServiceRuntime --------------------------
(* ServiceRuntime for TLC: requests and threads are model values.          *)
EXTENDS ServiceRuntime, TLC

CONSTANTS r1, r2, r3, t1, t2

TwoRequests   == {r1, r2}
ThreeRequests == {r1, r2, r3}
TwoThreads    == {t1, t2}
OneThread     == {t1}
NoFaults      == {}
LostAnswers   == {"ack_lost", "close_error"}

\* Requests and threads are interchangeable (safety runs only).
Symmetry == Permutations(Requests) \cup Permutations(Threads)
=============================================================================
