---------------------------- MODULE MountedDisk ----------------------------
(***************************************************************************)
(* One mounted disk: class CMountedDisk of the driver together with the    *)
(* exchange thread of the user library that serves it (CDriverControl::Run)*)
(*                                                                         *)
(* Applications send IRPs to the disk.  Reads, writes and SCSI pass-through*)
(* requests go through the queue to the exchange thread, which fetches     *)
(* them one exchange at a time, performs them on its image and hands the   *)
(* result back with the next exchange; a read or write longer than the     *)
(* thread's buffer takes several exchanges.  Unmounting releases the disk  *)
(* and completes whatever is left.                                         *)
(*                                                                         *)
(* The queue is the first-in first-out pipe that CIrpQueue implements      *)
(* until one of its races happens (module IrpQueue).  Sizes and offsets    *)
(* count transfer units of one sector.                                     *)
(***************************************************************************)
EXTENDS Integers, Sequences, FiniteSets

CONSTANTS
  Requests,       \* the IRPs of applications and the dummy requests of Disconnect
  Kind,           \* "read", "write", "ioctl", "local" or "disconnect"
  Length,         \* m_data_len
  BufSize,        \* EXCHANGE_BUFFER_SIZE
  Capacity,       \* MAX_IRP_QUEUE
  MayOutlive,     \* can the exchange thread outlive Disconnect's wait of 60 s?
  NULL

Kinds == {"read", "write", "ioctl", "local", "disconnect"}

ASSUME DiskAssumption ==
  /\ Kind \in [Requests -> Kinds]
  /\ Length \in [Requests -> Nat]
  /\ \A r \in Requests : Kind[r] = "disconnect" => Length[r] = 0
  /\ BufSize \in Nat \ {0} /\ Capacity \in Nat \ {0}
  /\ MayOutlive \in BOOLEAN
  /\ NULL \notin Requests

VARIABLES
  queue,      \* m_irp_queue
  last,       \* m_last_irp
  status,     \* m_status of each request; "garbage" until it is assigned
  processed,  \* m_processed of each request, from the pop on
  phase,      \* where each request stands
  result,     \* IoStatus of the completed IRPs: status and information
  thd,        \* where the exchange thread stands
  response,   \* CORE_MNT_EXCHANGE_RESPONSE as the thread sees it
  reply,      \* the result fields of its next CORE_MNT_EXCHANGE_REQUEST
  release,    \* progress of CMountedDisk::Release
  moved,      \* history: units the image has transferred for each request
  served      \* history: requests completed by RequestExchange

kernelVars == <<queue, last, status, processed, phase, result, release, served>>
vars == <<kernelVars, thd, response, reply, moved>>

Statuses == {"success", "error", "no_memory", "garbage"}
Phases   == {"new", "pending", "signalled", "completed"}
NoReply  == [kind |-> "nop", status |-> "success", proc |-> 0]
NoResponse == [kind |-> "nop", offset |-> 0, size |-> 0]

Init ==
  /\ queue = <<>> /\ last = NULL
  /\ status = [r \in Requests |-> "garbage"]
  /\ processed = [r \in Requests |-> 0]
  /\ phase = [r \in Requests |-> "new"]
  /\ result = [r \in Requests |-> [status |-> "garbage", info |-> 0]]
  /\ thd = "off" /\ response = NoResponse /\ reply = NoReply
  /\ release = "no"
  /\ moved = [r \in Requests |-> 0] /\ served = {}
-----------------------------------------------------------------------------
(* The dispatch routines.                                                  *)

(* AsyncExchange for a read, a write or Disconnect, SynchExchange for a    *)
(* pass-through request: the request is new, its status is whatever the    *)
(* pool or the stack held, and push waits while the queue is full.         *)
Exchange(r) ==
  /\ phase[r] = "new" /\ Kind[r] # "local"
  /\ Len(queue) < Capacity
  /\ phase' = [phase EXCEPT ![r] = "pending"]
  /\ queue' = Append(queue, r)
  /\ UNCHANGED <<last, status, processed, result, release, served, thd, response, reply, moved>>

(* Everything else DispatchIrp answers itself.                             *)
DispatchLocal(r) ==
  /\ phase[r] = "new" /\ Kind[r] = "local"
  /\ phase' = [phase EXCEPT ![r] = "completed"]
  /\ \E st \in {"success", "error"} :
       result' = [result EXCEPT ![r] = [status |-> st, info |-> Length[r]]]
  /\ UNCHANGED <<queue, last, status, processed, release, served, thd, response, reply, moved>>

(* What reading m_status may find: anything, until it is assigned.         *)
StatusRead(r) ==
  IF status[r] = "garbage" THEN {"success", "error"} ELSE {status[r]}

(* The dispatch routine of a pass-through request wakes up and completes   *)
(* its IRP, with data only on success.                                     *)
FinishSynch(r) ==
  /\ phase[r] = "signalled"
  /\ phase' = [phase EXCEPT ![r] = "completed"]
  /\ \E st \in StatusRead(r) :
       result' = [result EXCEPT ![r] =
         [status |-> st, info |-> IF st = "success" THEN Length[r] ELSE 0]]
  /\ UNCHANGED <<queue, last, status, processed, release, served, thd, response, reply, moved>>
-----------------------------------------------------------------------------
(* Mutant: the event of a synchronous request is not set.                  *)
CompleteAsynchOnly(r, st) ==
  IF Kind[r] = "ioctl"
  THEN UNCHANGED <<phase, result>>
  ELSE /\ phase' = [phase EXCEPT ![r] = "completed"]
       /\ result' = [result EXCEPT ![r] = [status |-> st, info |-> Length[r]]]

(* CompleteLastIrp, with st the value of m_status: the IRP of an           *)
(* asynchronous request is completed for its full length; the dispatch     *)
(* routine of a synchronous one gets its event.                            *)
CompleteLastIrp(r, st) ==
  IF Kind[r] = "ioctl"
  THEN phase' = [phase EXCEPT ![r] = "signalled"] /\ UNCHANGED result
  ELSE /\ phase' = [phase EXCEPT ![r] = "completed"]
       /\ result' = [result EXCEPT ![r] = [status |-> st, info |-> Length[r]]]

(* Mutants: m_last_irp survives its completion; one exchange completes any *)
(* request.                                                                *)
ReturnAndKeep ==
  /\ thd = "call" /\ reply.kind # "nop" /\ last # NULL
  /\ status' = [status EXCEPT ![last] = reply.status]
  /\ processed' = [processed EXCEPT ![last] = @ + reply.proc]
  /\ IF processed[last] + reply.proc >= Length[last]
     THEN CompleteLastIrp(last, reply.status) /\ served' = served \cup {last}
     ELSE UNCHANGED <<phase, result, served>>
  /\ thd' = "fetch"
  /\ UNCHANGED <<queue, last, release, response, reply, moved>>

ReturnAtOnce ==
  /\ thd = "call" /\ reply.kind # "nop" /\ last # NULL
  /\ status' = [status EXCEPT ![last] = reply.status]
  /\ processed' = [processed EXCEPT ![last] = @ + reply.proc]
  /\ CompleteLastIrp(last, reply.status)
  /\ served' = served \cup {last}
  /\ last' = NULL
  /\ thd' = "fetch"
  /\ UNCHANGED <<queue, release, response, reply, moved>>

(* The first half of RequestExchange: take the result of the last request. *)
(* It is complete when all of it is processed, when it cannot be split, or *)
(* when it failed.                                                         *)
ReturnResult ==
  /\ thd = "call" /\ reply.kind # "nop" /\ last # NULL
  /\ status' = [status EXCEPT ![last] = reply.status]
  /\ processed' = [processed EXCEPT ![last] = @ + reply.proc]
  /\ IF \/ processed[last] + reply.proc >= Length[last]
        \/ Kind[last] = "ioctl"
        \/ reply.status # "success"
     THEN /\ CompleteLastIrp(last, reply.status)
          /\ served' = served \cup {last}
          /\ last' = NULL
     ELSE UNCHANGED <<phase, result, served, last>>
  /\ thd' = "fetch"
  /\ UNCHANGED <<queue, release, response, reply, moved>>

SkipResult ==
  /\ thd = "call" /\ reply.kind = "nop"
  /\ thd' = "fetch"
  /\ UNCHANGED <<kernelVars, response, reply, moved>>

(* Mutant: every exchange starts at the beginning of the request.          *)
RespondFromStart(r, done) ==
  LET size == IF Length[r] - done > BufSize THEN BufSize ELSE Length[r] - done
  IN  /\ last' = r
      /\ response' = [kind |-> Kind[r], offset |-> 0, size |-> size]
      /\ thd' = "serve"

(* The second half: go on with the last request, or pop one and start it   *)
(* (pop blocks while the queue is empty).                                  *)
Respond(r, done) ==
  LET size == IF Length[r] - done > BufSize THEN BufSize ELSE Length[r] - done
  IN  /\ last' = r
      /\ response' = [kind |-> Kind[r], offset |-> done, size |-> size]
      /\ thd' = "serve"

ContinueLast ==
  /\ thd = "fetch" /\ last # NULL
  /\ Respond(last, processed[last])
  /\ UNCHANGED <<queue, status, processed, phase, result, release, served, reply, moved>>

TooLong(r) == Kind[r] = "ioctl" /\ Length[r] > BufSize

FetchNext ==
  /\ thd = "fetch" /\ last = NULL /\ queue # <<>>
  /\ ~ TooLong(Head(queue))
  /\ queue' = Tail(queue)
  /\ processed' = [processed EXCEPT ![Head(queue)] = 0]
  /\ Respond(Head(queue), 0)
  /\ UNCHANGED <<status, phase, result, release, served, reply, moved>>

(* A pass-through request that does not fit the buffer is refused, and the *)
(* failed exchange ends the thread.                                        *)
RefuseNext ==
  /\ thd = "fetch" /\ last = NULL /\ queue # <<>>
  /\ TooLong(Head(queue))
  /\ queue' = Tail(queue)
  /\ processed' = [processed EXCEPT ![Head(queue)] = 0]
  /\ status' = [status EXCEPT ![Head(queue)] = "no_memory"]
  /\ CompleteLastIrp(Head(queue), "no_memory")
  /\ served' = served \cup {Head(queue)}
  /\ thd' = "ended"
  /\ UNCHANGED <<last, release, response, reply, moved>>
-----------------------------------------------------------------------------
(* The exchange thread in user mode.                                       *)

Connect ==
  /\ thd = "off" /\ release = "no"
  /\ thd' = "call" /\ reply' = NoReply
  /\ UNCHANGED <<kernelVars, response, moved>>

(* The image transfers the units it is asked for, or fails.  A device      *)
(* control request reports how much data it returns.                       *)
Serve(st, proc) ==
  /\ thd = "serve" /\ response.kind # "disconnect"
  /\ response.kind # "ioctl" => proc = response.size
  /\ reply' = [kind |-> response.kind, status |-> st, proc |-> proc]
  /\ moved' = IF st = "success" /\ last # NULL
              THEN [moved EXCEPT ![last] = @ + response.size] ELSE moved
  /\ thd' = "call"
  /\ UNCHANGED <<kernelVars, response>>

(* The disconnect request is reflected, or the image throws.               *)
EndThread ==
  /\ thd = "serve"
  /\ thd' = "ended"
  /\ UNCHANGED <<kernelVars, response, reply, moved>>
-----------------------------------------------------------------------------
(* Release, called by Unmount after Disconnect has waited for the thread.  *)

(* Mutant: Release does not wait for the exchange thread.                  *)
ReleaseAnytime ==
  /\ release = "no"
  /\ release' = "drain"
  /\ last' = NULL
  /\ IF last # NULL THEN \E st \in StatusRead(last) : CompleteLastIrp(last, st)
     ELSE UNCHANGED <<phase, result>>
  /\ UNCHANGED <<queue, status, processed, served, thd, response, reply, moved>>

ReleaseLast ==
  /\ release = "no"
  /\ thd \in {"off", "ended"} \/ MayOutlive
  /\ release' = "drain"
  /\ last' = NULL
  /\ IF last # NULL THEN \E st \in StatusRead(last) : CompleteLastIrp(last, st)
     ELSE UNCHANGED <<phase, result>>
  /\ UNCHANGED <<queue, status, processed, served, thd, response, reply, moved>>

ReleaseQueued ==
  /\ release = "drain" /\ queue # <<>>
  /\ queue' = Tail(queue)
  /\ \E st \in StatusRead(Head(queue)) : CompleteLastIrp(Head(queue), st)
  /\ UNCHANGED <<last, status, processed, release, served, thd, response, reply, moved>>

(* Mutant: Release stops before the queue is empty.                        *)
ReleaseEarly ==
  /\ release = "drain"
  /\ release' = "done"
  /\ UNCHANGED <<queue, last, status, processed, phase, result, served, thd, response, reply, moved>>

ReleaseDone ==
  /\ release = "drain" /\ queue = <<>>
  /\ release' = "done"
  /\ UNCHANGED <<queue, last, status, processed, phase, result, served, thd, response, reply, moved>>
-----------------------------------------------------------------------------
ExchangeThread ==
  \/ ReturnResult \/ SkipResult \/ ContinueLast \/ FetchNext \/ RefuseNext
  \/ \E st \in {"success", "error"}, proc \in 0 .. BufSize :
       proc <= response.size /\ Serve(st, proc)

Unmount == ReleaseLast \/ ReleaseQueued \/ ReleaseDone

Next ==
  \/ \E r \in Requests : Exchange(r) \/ DispatchLocal(r) \/ FinishSynch(r)
  \/ Connect \/ ExchangeThread \/ EndThread
  \/ Unmount

Spec == Init /\ [][Next]_vars

(* The exchange thread keeps exchanging, a woken dispatch routine finishes,*)
(* and a Release that has started runs to its end.  Nobody has to connect, *)
(* disconnect or unmount, and the image need not throw.                    *)
Fairness ==
  /\ WF_vars(ExchangeThread)
  /\ WF_vars(thd = "serve" /\ response.kind = "disconnect" /\ EndThread)
  /\ \A r \in Requests : WF_vars(FinishSynch(r))
  /\ WF_vars(ReleaseQueued \/ ReleaseDone)

FairSpec == Spec /\ Fairness
-----------------------------------------------------------------------------
Queued(r) == \E i \in 1 .. Len(queue) : queue[i] = r

(* Every variable has its type.                                            *)
TypeOK ==
  /\ queue \in Seq(Requests) /\ Len(queue) <= Capacity
  /\ last \in Requests \cup {NULL}
  /\ status \in [Requests -> Statuses]
  /\ processed \in [Requests -> Nat]
  /\ phase \in [Requests -> Phases]
  /\ result \in [Requests -> [status : Statuses, info : Nat]]
  /\ thd \in {"off", "call", "fetch", "serve", "ended"}
  /\ response \in [kind : Kinds \cup {"nop"}, offset : Nat, size : Nat]
  /\ reply \in [kind : Kinds \cup {"nop"}, status : Statuses, proc : Nat]
  /\ release \in {"no", "drain", "done"}
  /\ moved \in [Requests -> Nat] /\ served \subseteq Requests

(* No request is lost, duplicated or touched after it was completed: one   *)
(* that an application still waits for is in the queue or is m_last_irp,   *)
(* never both or twice, and neither holds a request already answered (an   *)
(* asynchronous one is freed by then).                                     *)
Conserved ==
  /\ \A i, j \in 1 .. Len(queue) : queue[i] = queue[j] => i = j
  /\ \A r \in Requests : phase[r] = "pending" <=> (Queued(r) \/ last = r)
  /\ last # NULL => ~ Queued(last)

(* ASSERT(m_last_irp) at the head of RequestExchange, and more: when the   *)
(* thread hands back a result, m_last_irp is the request it was given, so  *)
(* no result is credited to another one.  It needs the thread to be gone   *)
(* before Release, for Release forgets m_last_irp.                         *)
ReplyHasRequest ==
  /\ thd = "serve" => last # NULL /\ Kind[last] = response.kind
  /\ thd = "call" /\ reply.kind # "nop" => last # NULL /\ Kind[last] = reply.kind

(* A long read or write is transferred piece by piece without gap, overlap *)
(* or excess: each exchange starts where the image has got to.             *)
TransferInOrder ==
  thd = "serve" /\ last # NULL =>
    /\ response.offset = moved[last]
    /\ response.offset + response.size <= Length[last]
    /\ response.size <= BufSize

(* A read or write reported successful has moved all its data.             *)
Complete(r) ==
  result[r].status = "success" /\ Kind[r] \in {"read", "write"} => moved[r] = Length[r]

(* RequestExchange reports success only for a complete transfer.           *)
ServedInFull == \A r \in served : Complete(r)

(* "exchange completes the IRP; exchange must copy the buffer": whoever    *)
(* completes it, an IRP with status success has had its buffer copied, even*)
(* counting only those whose m_status has been assigned before it is read. *)
SuccessMeansCopied == \A r \in Requests : status[r] # "garbage" => Complete(r)

(* Every request is answered as long as the exchange thread lives.         *)
Answered ==
  \A r \in Requests :
    phase[r] = "pending" ~> (phase[r] = "completed" \/ thd \in {"off", "ended"})

(* Unmounting answers every request that is waiting when Release drains,   *)
(* those no thread will serve any more included.                           *)
ReleaseAnswers ==
  \A r \in Requests : phase[r] = "pending" /\ release = "drain" ~> phase[r] = "completed"

(* The disk implements DiskService: whatever thread completes an IRP, it   *)
(* is answered once and never touched again, data is copied only while it  *)
(* waits, and RequestExchange answers a transfer with success only when    *)
(* all of it has been copied.                                              *)
Service == INSTANCE DiskService
  WITH Irps <- Requests, Size <- Length,
       Transfers <- {r \in Requests : Kind[r] \in {"read", "write"}},
       Controls <- {r \in Requests : Kind[r] = "ioctl"},
       stage <- phase, answer <- result, copied <- moved, closing <- release # "no"

ImplementsService == Service!ServiceSpec
=============================================================================
