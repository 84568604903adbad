---------------------------- MODULE WriteAttempts ----------------------------
(***************************************************************************)
(* The identities shared by the MCP journal and the Bridge's effect fence. *)
(* A token <<e, a>> names one write attempt a under the epoch e that was   *)
(* live when the attempt was recorded.                                     *)
(***************************************************************************)
CONSTANTS
  Epochs,     \* the epochs a Bridge realm may issue, one per load or rotation
  Attempts,   \* execution attempt ids, one fresh id per start of an execution
  NoEpoch     \* no fence is loaded

ASSUME NoEpochAssumption == NoEpoch \notin Epochs

Tokens == Epochs \X Attempts
=============================================================================
