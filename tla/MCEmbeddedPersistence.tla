----------------------- MODULE MCEmbeddedPersistence -----------------------
(***************************************************************************)
(* Instances of EmbeddedPersistence for TLC.                               *)
(***************************************************************************)
EXTENDS EmbeddedPersistence

CONSTANTS r1, r2, q1

TwoRoutes == {r1, r2}
OneRatchet == {q1}
NoItems == {}
Grants == {"grants"}
Name == {"name"}
AllStores == {"grants", "groups", "name"}
=============================================================================
