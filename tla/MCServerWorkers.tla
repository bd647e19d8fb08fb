-------------------------- MODULE MCServerWorkers --------------------------
(* ServerWorkers for TLC.                                                    *)
EXTENDS ServerWorkers
=============================================================================
