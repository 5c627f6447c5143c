------------------------ MODULE MC_PollingBlockIngestor ------------------------
(* The ingestor against a source with two fork choices per height, blocks  *)
(* up to number 3, one reorganisation up to two blocks deep, a provider that *)
(* may lag one block and a window of one ancestor.                         *)
EXTENDS PollingBlockIngestor

CONSTANTS f1, f2

MCForks == {f1, f2}
=============================================================================
