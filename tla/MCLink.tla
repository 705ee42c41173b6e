------------------------------- MODULE MCLink -------------------------------
(***************************************************************************)
(* What runs over one link, for TLC: its life, a stop-and-wait channel     *)
(* over several turns of the sequence space, and the deadlines of the      *)
(* sends outstanding on a channel.  The three share no variable, so each   *)
(* is explored on its own while the others rest; the constants are given   *)
(* in the .cfg.                                                            *)
(***************************************************************************)
EXTENDS LinkLifecycle, Channel, ChannelDeadlines, TLC

CONSTANTS x1, x2, y1

VARIABLE part

SendSymmetry == Permutations({x1, x2})

LinkInit ==
    /\ part \in {"life", "channel", "deadlines"}
    /\ LInit /\ Init /\ DInit

LifeStep == part = "life" /\ LNext /\ UNCHANGED <<part, vars, dVars>>
ChannelStep == part = "channel" /\ Next /\ UNCHANGED <<part, lvars, dVars>>
DeadlineStep == part = "deadlines" /\ DNext /\ UNCHANGED <<part, lvars, vars>>

\* A channel with nothing left to send or with its link retired may stop.
ChannelRests ==
    part \in {"channel", "deadlines"} /\ UNCHANGED <<part, lvars, vars, dVars>>

LinkSpec ==
    /\ LinkInit
    /\ [][LifeStep \/ ChannelStep \/ DeadlineStep \/ ChannelRests]_<<part, lvars, vars, dVars>>
=============================================================================
