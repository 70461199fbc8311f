--------------------------- MODULE MCBootTelemetry ---------------------------
(* An instance of BootTelemetry for TLC.  One version will do: Save         *)
(* truncates the file first, so no file is part of one and part of another. *)
EXTENDS BootTelemetry

CONSTANT v1

MCVersions == {v1}
=============================================================================
