--------------------------- MODULE MCCryptoPool ---------------------------
(* One worker, one lane, and rings small enough to fill.                   *)
EXTENDS CryptoPool

MCWorkers == 1..1
MCLanes == 1..1
MCRole == [w \in MCWorkers |-> "shared"]
MCFrameJobs == {"sign", "hash"}
===========================================================================
