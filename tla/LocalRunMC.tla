----------------------------- MODULE LocalRunMC -----------------------------
(* Instances of LocalRun for TLC.                                          *)
EXTENDS LocalRun, TLC

CONSTANTS train, plot

\* A stage and its consumer.
MCProducer == (train :> {}) @@ (plot :> {train})
=============================================================================
