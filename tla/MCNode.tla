------------------------------- MODULE MCNode -------------------------------
(***************************************************************************)
(* What one node keeps, for TLC: the flash journal and the timebase of an  *)
(* embedded node, the authorizations a host keeps in files, the pairings   *)
(* that bring them about, and the handles to its routes.  The parts share  *)
(* no variable, so each is explored on its own while the others rest; the  *)
(* constants are given in the .cfg.                                        *)
(***************************************************************************)
EXTENDS FlashJournal, FlashTimebase, HostAuthorization, Pairing, RouteEvidence

VARIABLE part

nodeVars == <<part, vars, tbVars, hVars, pVars, evVars>>

PairingOwner == [l \in Exchanges |-> IF l = "l1" THEN "c1" ELSE "c2"]

NodeInit ==
    /\ part \in {"journal", "timebase", "files", "pairing", "routes"}
    /\ Init /\ TInit /\ HInit /\ PInit /\ EInit
    /\ part # "files" => mem = [r \in AuthRegions |-> "i1"]

JournalStep ==
    part = "journal" /\ Next /\ UNCHANGED <<part, tbVars, hVars, pVars, evVars>>
TimebaseStep ==
    part = "timebase" /\ TNext /\ UNCHANGED <<part, vars, hVars, pVars, evVars>>
FileStep ==
    part = "files" /\ HNext /\ UNCHANGED <<part, vars, tbVars, pVars, evVars>>
PairingStep ==
    part = "pairing" /\ PNext /\ UNCHANGED <<part, vars, tbVars, hVars, evVars>>
RouteStep ==
    part = "routes" /\ ENext /\ UNCHANGED <<part, vars, tbVars, hVars, pVars>>

NodeSpec ==
    NodeInit /\ [][JournalStep \/ TimebaseStep \/ FileStep \/ PairingStep \/ RouteStep]_nodeVars
=============================================================================
