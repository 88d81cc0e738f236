------------------------------ MODULE Inventory ------------------------------
(***************************************************************************)
(* What the control plane's dataplane inventory promises its users,        *)
(* whatever the broker does inside: for every node name there is at most   *)
(* one current connection; a node that joins again replaces its connection *)
(* by the newer one; and a connection that is still open never leaves the  *)
(* inventory by itself.                                                    *)
(***************************************************************************)
CONSTANTS Names,  \* certificate CommonNames of the dataplane nodes
          Peers,  \* identities of the connections
          CN,     \* the CommonName a connection authenticated with
          None    \* no connection

VARIABLES open,    \* the connections that are up
          current  \* the inventory: the connection each node is reached by

invVars == <<open, current>>

Init ==
  /\ open = {}
  /\ current = [n \in Names |-> None]

Up(p) ==
  /\ open' = open \cup {p}
  /\ UNCHANGED current

Down(p) ==
  /\ open' = open \ {p}
  /\ UNCHANGED current

(* A connection enters the inventory, replacing any older one of its node. *)
Join(p) ==
  /\ current' = [current EXCEPT ![CN[p]] = p]
  /\ UNCHANGED open

(* Only a dead connection leaves, and only its own entry goes with it. *)
Leave(p) ==
  /\ current[CN[p]] = p
  /\ p \notin open
  /\ current' = [current EXCEPT ![CN[p]] = None]
  /\ UNCHANGED open

Next == \E p \in Peers : Up(p) \/ Down(p) \/ Join(p) \/ Leave(p)

Spec == Init /\ [][Next]_invVars
=============================================================================
