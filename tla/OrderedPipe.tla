----------------------------- MODULE OrderedPipe -----------------------------
(***************************************************************************)
(* What a Channel promises its two users (docs/more-concepts.md,           *)
(* "Channel"): numbered messages go in at one end and come out at the      *)
(* other in the order they were written, each at most once and none        *)
(* skipped.  Nothing is said here of packets, windows or retries.          *)
(***************************************************************************)
EXTENDS Naturals, Sequences

VARIABLES
    accepted,   \* how many messages the sending end has accepted
    output      \* the messages handed to the receiving application

pipeVars == <<accepted, output>>

PipeInit == accepted = 0 /\ output = <<>>

Accept ==
    /\ accepted' = accepted + 1
    /\ UNCHANGED output

\* A batch of the next k accepted messages comes out.
Emit ==
    /\ \E k \in 1..(accepted - Len(output)) :
         output' = output \o [j \in 1..k |-> Len(output) + j]
    /\ UNCHANGED accepted

PipeNext == Accept \/ Emit

PipeSpec == PipeInit /\ [][PipeNext]_pipeVars
=============================================================================
