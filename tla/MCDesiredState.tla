--------------------------- MODULE MCDesiredState ---------------------------
(* Two stores, so that requests fall between their snapshots, each with    *)
(* three contents, so that a store can return to what it held before.      *)
EXTENDS DesiredState

CONSTANTS vip, l4_route

MCOrder == <<vip, l4_route>>
=============================================================================
