---------------------------- MODULE RequestFifo ----------------------------
(***************************************************************************)
(* What CIrpQueue promises its callers, seen as two ends of a pipe: what   *)
(* went in and what came out.                                              *)
(*                                                                         *)
(* Requests come out in the order they went in, each once, none invented,  *)
(* as long as nobody takes from an empty pipe and nobody puts into a full  *)
(* one.  The pipe does not keep its users from doing so; the first time    *)
(* it happens the pipe is broken, and from then on anything may come out.  *)
(***************************************************************************)
EXTENDS Integers, Sequences

CONSTANTS Items, Room, Nothing

VARIABLES accepted, delivered, broken

fifoVars == <<accepted, delivered, broken>>

Waiting == Len(accepted) - Len(delivered)

FifoInit == accepted = <<>> /\ delivered = <<>> /\ broken = FALSE

Accept(r) ==
  /\ \A i \in 1 .. Len(accepted) : accepted[i] # r
  /\ accepted' = Append(accepted, r)
  /\ broken' = (broken \/ Waiting >= Room)
  /\ UNCHANGED delivered

Deliver ==
  /\ ~ broken /\ Waiting > 0
  /\ delivered' = Append(delivered, accepted[Len(delivered) + 1])
  /\ UNCHANGED <<accepted, broken>>

DeliverAnything(r) ==
  /\ broken \/ Waiting <= 0
  /\ delivered' = Append(delivered, r)
  /\ broken' = TRUE
  /\ UNCHANGED accepted

FifoNext ==
  \/ \E r \in Items : Accept(r)
  \/ Deliver
  \/ \E r \in Items \cup {Nothing} : DeliverAnything(r)

FifoSpec == FifoInit /\ [][FifoNext]_fifoVars
=============================================================================
