------------------------------- MODULE MCFakeIp -------------------------------
(* Small instances of FakeIp.                                               *)
EXTENDS FakeIp

CONSTANTS h1, h2, h3, h4
FourHosts == {h1, h2, h3, h4}
\* A cache just smaller than the range, which evicts; a range smaller than
\* the cache, whose addresses change hands.
TwoShapes == {[slots |-> 3, size |-> 2], [slots |-> 2, size |-> 3]}
=============================================================================
