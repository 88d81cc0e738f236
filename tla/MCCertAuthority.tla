--------------------------- MODULE MCCertAuthority ---------------------------
(* Two certificates and one ACME key pair, for TLC.                        *)
EXTENDS CertAuthority, TLC

CONSTANTS c1, c2, k1

MCCerts == {c1, c2}
MCKeys == {k1}
MCSymmetry == Permutations(MCCerts)
=============================================================================
