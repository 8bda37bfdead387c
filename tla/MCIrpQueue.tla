----------------------------- MODULE MCIrpQueue -----------------------------
(* Instances of IrpQueue for TLC: dispatching threads, the exchange thread *)
(* and the unmounting thread that drains the queue in Release.             *)
EXTENDS IrpQueue
=============================================================================
