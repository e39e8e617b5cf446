------------------------------ MODULE MCPairLock ------------------------------
(***************************************************************************)
(* Instance of PairLock for TLC: every task has a worker id of its own.    *)
(***************************************************************************)
EXTENDS PairLock

OwnId(t) == t
===============================================================================
