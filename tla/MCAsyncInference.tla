-------------------------- MODULE MCAsyncInference --------------------------
(* AsyncInference for TLC.                                                 *)
EXTENDS AsyncInference
=============================================================================
