------------------------- MODULE MCCryptoPoolSolo -------------------------
(* The pool of a small host: PoolWorkers::Auto resolves to one worker on   *)
(* up to three cores.  The production policy divided by four: job ring,    *)
(* depth and completion batch twice the interactive batch, the inbound     *)
(* total three times.                                                      *)
EXTENDS CryptoPool

MCWorkers == 1..1
MCLanes == 1..3
MCRole == [w \in MCWorkers |-> "shared"]
MCFrameJobs == {"sign"}
===========================================================================
