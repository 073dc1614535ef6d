--------------------------- MODULE MCSpawnCommand ---------------------------
(* TLC instances of SpawnCommand.                                          *)
EXTENDS SpawnCommand, TLC
=============================================================================
