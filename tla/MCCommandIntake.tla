--------------------------- MODULE MCCommandIntake ---------------------------
(* Small instances of CommandIntake.                                        *)
EXTENDS CommandIntake, TLC

=============================================================================
