------------------------------ MODULE MCCoverage ------------------------------
(***************************************************************************)
(* Coverage of a chain of three trades by an indexer that holds exactly    *)
(* these, with a budget of one trade per run.                              *)
(***************************************************************************)
EXTENDS ReconciliationCoverage

FaithfulIndexer == {<<0, 1, 2>>}

=============================================================================
