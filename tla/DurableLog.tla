----------------------------- MODULE DurableLog -----------------------------
(***************************************************************************)
(* What the flash journal promises whoever restarts on it: a log that a    *)
(* restart replays, and a snapshot being staged to take its place.  The    *)
(* log changes in two ways only: one record is added behind all others, or *)
(* the whole log is exchanged for the whole staged snapshot.               *)
(*                                                                         *)
(* A log is a set of entries <<position, body>>; the positions order it.   *)
(***************************************************************************)
EXTENDS Naturals

VARIABLES
    log,        \* what a restart at this moment replays
    staged      \* the snapshot copied so far

logVars == <<log, staged>>

LogInit == log = {} /\ staged = {}

Behind(entries, e) == \A x \in entries : x[1] < e[1]

Extend ==
    /\ UNCHANGED staged
    /\ \E e \in log' : Behind(log, e) /\ log' = log \cup {e}

Stage ==
    /\ \E e \in staged' : Behind(staged, e) /\ staged' = staged \cup {e}
    /\ UNCHANGED log

Discard ==
    /\ staged' = {}
    /\ UNCHANGED log

Switch ==
    /\ staged' \in {staged, {}}
    /\ log' = staged

LogNext == Discard \/ Stage \/ Switch \/ Extend

LogSpec == LogInit /\ [][LogNext]_logVars
=============================================================================
