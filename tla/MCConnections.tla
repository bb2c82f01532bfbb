---------------------------- MODULE MCConnections ----------------------------
(* Small instances of Connections.                                         *)
EXTENDS Connections, TLC

CONSTANTS t1, t2, u1, u2, d1

TwoTcp   == {t1, t2}
OneTcp   == {t1}
OneUdp   == {u1}
TwoUdp   == {u1, u2}
OneQuery == {d1}
None     == {}
TcpSymmetry == Permutations(TwoTcp)
=============================================================================
