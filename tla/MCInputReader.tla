--------------------------- MODULE MCInputReader ---------------------------
(* A small instance of InputReader for TLC. *)
EXTENDS InputReader

CONSTANTS r1, r2, r3

\* Four lines of a label and two features; the last two are equal.
MCFile == <<<<1, 11, 12>>, <<2, 21, 22>>, <<3, 31, 32>>, <<3, 31, 32>>>>
=============================================================================
