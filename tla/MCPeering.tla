------------------------------ MODULE MCPeering ------------------------------
(* One target and two sources, for TLC.                                    *)
EXTENDS Peering, TLC

CONSTANTS t1, s1, s2

MCTargets == {t1}
MCSources == {s1, s2}
=============================================================================
