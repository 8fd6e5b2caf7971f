-------------------------------- MODULE Host --------------------------------
(***************************************************************************)
(* What the parts of a running program have in common.                     *)
(***************************************************************************)
CONSTANTS
  Processes,   \* instances of the program on one machine
  Nobody,      \* none of them
  None         \* no value

ASSUME NobodyAssumption == Nobody \notin Processes
=============================================================================
