------------------------- MODULE MCResourceReceive -------------------------
(* Resources a peer may advertise to a node with two requests: two chains   *)
(* and a compressed whole answer for "p", a whole answer for "q", an        *)
(* unsolicited chain, and a large unsolicited Resource.                     *)
EXTENDS ResourceReceive

Says(orig, seg, total, corr, bz2, huge, cost) ==
    [orig |-> orig, seg |-> seg, total |-> total, corr |-> corr,
     bz2 |-> bz2, huge |-> huge, cost |-> cost]

MCAd ==
    [ A1 |-> Says("A", 1, 2, "p", FALSE, FALSE, 1),
      A2 |-> Says("A", 2, 2, "p", TRUE, FALSE, 1),
      B1 |-> Says("B", 1, 2, "p", TRUE, FALSE, 1),
      W  |-> Says("W", 1, 1, "p", TRUE, FALSE, 1),
      Q  |-> Says("Q", 1, 1, "q", FALSE, TRUE, 1),
      U1 |-> Says("U", 1, 2, "none", FALSE, FALSE, 2),
      X  |-> Says("X", 1, 1, "peer", FALSE, FALSE, 3) ]

MCOffers == DOMAIN MCAd
=============================================================================
