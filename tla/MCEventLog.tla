----------------------------- MODULE MCEventLog -----------------------------
(* TLC instances of EventLog.                                                *)
EXTENDS EventLog, TLC

CONSTANTS w1, w2

TwoWriters == {w1, w2}

\* Writers are interchangeable: no action or safety property names one.
WriterSymmetry == Permutations(TwoWriters)
=============================================================================
