------------------------------- MODULE MCRpc -------------------------------
(* Instances of Rpc: retry configurations with no retry and with one.        *)
EXTENDS Rpc

MCRetryCounts == {0, 1}
=============================================================================
