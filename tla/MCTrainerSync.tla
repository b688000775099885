---------------------------- MODULE MCTrainerSync ----------------------------
(* Instances of TrainerSync: two machines of one user, with one tab each. *)
EXTENDS TrainerSync

CONSTANTS laptop, desktop

OneTabEach == [t \in Tabs |-> t]

TwoBrowsers == {laptop, desktop}
=============================================================================
