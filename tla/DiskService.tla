---------------------------- MODULE DiskService ----------------------------
(***************************************************************************)
(* What a mounted disk promises the applications that use it.              *)
(*                                                                         *)
(* An IRP is taken, its data is copied while it waits, and it is answered  *)
(* once; behind its answer neither its data nor its status is touched.     *)
(* Until the disk closes, an answer "success" to a read or write says that *)
(* all of its data has been copied; a disk that is closing gives every     *)
(* IRP that still waits some answer.                                       *)
(***************************************************************************)
EXTENDS Integers

CONSTANTS Irps, Size, Transfers, Controls

VARIABLES stage, answer, copied, closing

serviceVars == <<stage, answer, copied, closing>>

ServiceInit ==
  /\ \A r \in Irps : stage[r] = "new" /\ copied[r] = 0
  /\ ~ closing

(* The IRP r goes from one stage to another, and no other IRP moves.       *)
Moves(r, from, to) ==
  /\ stage[r] = from /\ stage'[r] = to
  /\ \A q \in Irps \ {r} : stage'[q] = stage[q] /\ answer'[q] = answer[q]

Take(r) == Moves(r, "new", "pending") /\ answer'[r] = answer[r]

AnswerAtOnce(r) == r \notin Transfers /\ Moves(r, "new", "completed")

Copy(r) ==
  /\ stage[r] = "pending"
  /\ copied'[r] >= copied[r]
  /\ r \in Transfers /\ ~ closing => copied'[r] <= Size[r]
  /\ \A q \in Irps \ {r} : copied'[q] = copied[q]

(* The two ways an IRP that waits is answered: at once, or by waking up    *)
(* the dispatch routine that waits with it.                                *)
Answer(r) ==
  \/ /\ Moves(r, "pending", "completed")
     /\ r \in Transfers /\ ~ closing' /\ answer'[r].status = "success" => copied[r] = Size[r]
  \/ r \in Controls /\ Moves(r, "pending", "signalled") /\ answer'[r] = answer[r]

WakeUp(r) == Moves(r, "signalled", "completed")

(* Closing may answer the IRP that is being served.                        *)
Close ==
  /\ ~ closing /\ closing'
  /\ UNCHANGED <<stage, answer>> \/ \E r \in Irps : Answer(r)

ServiceNext ==
  \/ /\ \E r \in Irps : Take(r) \/ AnswerAtOnce(r) \/ Answer(r) \/ WakeUp(r)
     /\ UNCHANGED <<copied, closing>>
  \/ \E r \in Irps : Copy(r) /\ UNCHANGED <<stage, answer, closing>>
  \/ Close /\ UNCHANGED copied

ServiceSpec == ServiceInit /\ [][ServiceNext]_serviceVars
=============================================================================
