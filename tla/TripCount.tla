----------------------------- MODULE TripCount -----------------------------
(***************************************************************************)
(* The arithmetic of a loop bound (ebpf-verifier/src/bound.rs): how often  *)
(* a counter that moves by a fixed stride passes its test.                 *)
(***************************************************************************)
EXTENDS RangeDomain

NoTrips == -1   \* an UnboundedLoop error

\* Variant: the count rounded down.
DivFloor(a, b) == a \div b

DivCeil(a, b) == (a + b - 1) \div b

\* count_traversals.  Below: while counter < edge; above: while counter > edge.
Below(edge, stride, lo) ==
    IF lo >= edge THEN 0
    ELSE IF stride <= 0 THEN NoTrips
    ELSE DivCeil(edge - lo, stride)
Above(edge, stride, hi) ==
    IF hi <= edge THEN 0
    ELSE IF stride >= 0 THEN NoTrips
    ELSE DivCeil(hi - edge, -stride)
CountTraversals(op, k, stride, lo, hi) ==
    CASE op \in {"Lt", "Slt"} -> Below(k, stride, lo)
      [] op \in {"Le", "Sle"} -> IF k = IMax THEN NoTrips ELSE Below(k + 1, stride, lo)
      [] op \in {"Gt", "Sgt"} -> Above(k, stride, hi)
      [] op \in {"Ge", "Sge"} -> IF k = IMin THEN NoTrips ELSE Above(k - 1, stride, hi)
      [] op = "Eq" /\ lo = hi -> IF lo = k THEN 1 ELSE 0
      [] op = "Ne" /\ lo = hi -> IF lo = k THEN 0
                                 ELSE IF stride \notin {1, -1} THEN NoTrips
                                 ELSE Greater(k - lo, lo - k)
      [] OTHER -> NoTrips

\* The counter's range at the header decides how often the condition holds;
\* an unsigned one needs both sides to be non-negative.
TripsFrom(init, op, k, stride) ==
    IF \/ ~ IsInterval(init)
       \/ op \notin {"Slt", "Sle", "Sgt", "Sge"} /\ (init.lo < 0 \/ k < 0)
    THEN NoTrips
    ELSE CountTraversals(op, k, stride, init.lo, init.hi)

\* Where the count may fall short of the machine, and everything outside.
\* The count is about the value before the first stride; `after` says that
\* the first test comes after it, and its answer is about another value.
PreciseCount(op, k, stride, init, after) ==
    /\ after => Fits(init.lo + stride) /\ Fits(init.hi + stride)
    /\ CASE op \in {"Lt", "Le", "Slt", "Sle"} -> after => stride > 0
         [] op \in {"Sgt", "Sge"} -> after => stride < 0
         [] op \in {"Gt", "Ge"} -> /\ stride < 0 /\ -stride <= k
                                   /\ after => init.lo + stride >= 0
         [] op = "Eq" -> after => init.lo = k
         [] op = "Ne" -> /\ init.lo = k => ~ after
                         /\ (k - init.lo) * stride >= 0
=============================================================================
