---------------------------- MODULE MCSPSCQueue ----------------------------
(* One producer and one consumer, as ADR-003 prescribes, with indices that   *)
(* wrap within the run; and two producers.                                   *)
EXTENDS SPSCQueue
=============================================================================
