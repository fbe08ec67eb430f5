----------------------------- MODULE MCScalars -----------------------------
(***************************************************************************)
(* TLC instances of Scalars over words of eight bits (halves of four):     *)
(* constants around zero, the sign, the half and the extremes, and ranges  *)
(* within, across and beyond them.                                         *)
(***************************************************************************)
EXTENDS Scalars

SomeRanges ==
    {Exact(v) : v \in {IMin, -1, 0, 1, 3, UMax32, IMax}}
        \cup {Interval(-2, 1), Interval(1, 2), Interval(0, UMax32), Interval(3, UMax32 + 2),
              Interval(IMin, -2), Interval(0, IMax), Top}
=============================================================================
