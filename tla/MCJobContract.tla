---------------------------- MODULE MCJobContract ---------------------------
(* The bodies of ContractSamples for the run of JobContract alone.          *)
EXTENDS JobContract, ContractSamples

=============================================================================
