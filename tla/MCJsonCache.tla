---------------------------- MODULE MCJsonCache -----------------------------
(* Instances of JsonCache for TLC: three readers of one file, one of another. *)
EXTENDS JsonCache

CONSTANTS a, b, c, d, logs, traces, nobody

FourReaders == {a, b, c, d}
TwoFiles == {logs, traces}
Wanted == [r \in FourReaders |-> IF r = d THEN traces ELSE logs]
=============================================================================
