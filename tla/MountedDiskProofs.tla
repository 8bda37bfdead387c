------------------------- MODULE MountedDiskProofs -------------------------
(***************************************************************************)
(* Theorems about MountedDisk, for every set of requests, every length,    *)
(* buffer and queue.                                                       *)
(*                                                                         *)
(* Types and conservation hold however Release and the exchange thread     *)
(* overlap, and so does the service the disk promises (DiskService).  What *)
(* is said of the thread's transfers holds until Release runs, and behind  *)
(* it when Release finds the thread gone, which is the assumption of those *)
(* theorems.                                                               *)
(***************************************************************************)
EXTENDS MountedDisk, TLAPS

Transfers == {r \in Requests : Kind[r] \in {"read", "write"}}

(* A request the thread goes on with is unfinished, so that transfer_size, *)
(* the difference of m_data_len and m_processed, does not wrap.  The thread*)
(* has no request before it has been given one.                            *)
Unfinished ==
  /\ thd = "fetch" /\ last # NULL => processed[last] < Length[last]
  /\ thd = "off" => last = NULL
  /\ thd = "call" /\ reply.kind = "nop" => last = NULL
  /\ thd = "serve" => response.kind # "nop"

TypeInv == TypeOK /\ Unfinished

(* Until the thread serves a request nothing of it has moved, and Release  *)
(* finds no thread.                                                        *)
Untouched ==
  /\ release # "no" => thd \in {"off", "ended"}
  /\ \A r \in Requests : phase[r] = "new" \/ Queued(r) => moved[r] = 0

(* Where a transfer stands when the thread calls, and while it is served.  *)
Progress ==
  /\ thd = "call" /\ reply.kind # "nop" =>
       /\ reply.status \in {"success", "error"}
       /\ last \in Transfers =>
            /\ processed[last] + reply.proc <= Length[last]
            /\ reply.status = "success" => moved[last] = processed[last] + reply.proc
  /\ thd = "fetch" /\ last # NULL =>
       last \in Transfers /\ moved[last] = processed[last]
  /\ thd = "serve" /\ last # NULL =>
       /\ moved[last] = response.offset /\ processed[last] = response.offset
       /\ response.offset + response.size <= Length[last]
       /\ response.size <= BufSize

(* Only pass-through requests are answered in two steps, and an answer of  *)
(* RequestExchange is honest.                                              *)
Answers ==
  \A r \in Requests :
    /\ phase[r] = "pending" => Kind[r] # "local"
    /\ phase[r] = "signalled" => Kind[r] = "ioctl"
    /\ r \in served => phase[r] \in {"signalled", "completed"} /\ Complete(r)

TransferInv == ReplyHasRequest /\ Untouched /\ Progress /\ Answers
-----------------------------------------------------------------------------
(* The queue is changed at its ends only.                                  *)
LEMMA HeadAndTail ==
  ASSUME TypeOK, queue # <<>>
  PROVE  /\ Head(queue) \in Requests /\ Head(queue) = queue[1]
         /\ Tail(queue) \in Seq(Requests) /\ Len(Tail(queue)) = Len(queue) - 1
         /\ \A i \in 1 .. Len(queue) - 1 : Tail(queue)[i] = queue[i + 1]
         /\ Len(queue) >= 1
  BY DEF TypeOK

LEMMA Appended ==
  ASSUME TypeOK, NEW r \in Requests
  PROVE  /\ Append(queue, r) \in Seq(Requests)
         /\ Len(Append(queue, r)) = Len(queue) + 1
         /\ Append(queue, r)[Len(queue) + 1] = r
         /\ \A i \in 1 .. Len(queue) : Append(queue, r)[i] = queue[i]
         /\ Len(queue) \in Nat
  BY DEF TypeOK

(* What CompleteLastIrp does to the request it answers and to the others.  *)
LEMMA Completion ==
  ASSUME TypeOK, NEW r \in Requests, NEW st \in Statuses, CompleteLastIrp(r, st)
  PROVE  /\ phase' \in [Requests -> Phases]
         /\ result' \in [Requests -> [status : Statuses, info : Nat]]
         /\ phase'[r] \in {"signalled", "completed"}
         /\ phase'[r] = "signalled" => Kind[r] = "ioctl"
         /\ Kind[r] # "ioctl" => result'[r].status = st
         /\ \A q \in Requests \ {r} : phase'[q] = phase[q] /\ result'[q] = result[q]
  <1> Length[r] \in Nat  BY DiskAssumption
  <1>1. CASE Kind[r] = "ioctl"
    BY <1>1 DEF CompleteLastIrp, TypeOK, Phases
  <1>2. CASE Kind[r] # "ioctl"
    <2> DEFINE answer == [status |-> st, info |-> Length[r]]
    <2>1. answer \in [status : Statuses, info : Nat] /\ answer.status = st
      OBVIOUS
    <2>2. /\ phase' = [phase EXCEPT ![r] = "completed"]
          /\ result' = [result EXCEPT ![r] = answer]
      BY <1>2 DEF CompleteLastIrp
    <2> HIDE DEF answer
    <2>3. QED  BY <1>2, <2>1, <2>2 DEF TypeOK, Phases
  <1> QED  BY <1>1, <1>2

LEMMA StatusesRead ==
  ASSUME TypeOK, NEW r \in Requests
  PROVE  StatusRead(r) \subseteq Statuses
  BY DEF TypeOK, StatusRead, Statuses
-----------------------------------------------------------------------------
(* What the thread is asked to do is no longer than its buffer and than    *)
(* what is left of the request.                                            *)
LEMMA Response ==
  ASSUME NEW r \in Requests, NEW done \in Nat, done <= Length[r], Respond(r, done)
  PROVE  /\ last' = r /\ thd' = "serve"
         /\ response' \in [kind : Kinds \cup {"nop"}, offset : Nat, size : Nat]
         /\ response'.kind = Kind[r] /\ response'.kind \in Kinds
         /\ response'.offset = done
         /\ response'.size <= BufSize /\ done + response'.size <= Length[r]
  <1> DEFINE size == IF Length[r] - done > BufSize THEN BufSize ELSE Length[r] - done
  <1>1. size \in Nat /\ size <= BufSize /\ done + size <= Length[r]
    BY DiskAssumption
  <1>2. response' = [kind |-> Kind[r], offset |-> done, size |-> size]
        /\ last' = r /\ thd' = "serve"
    BY DEF Respond
  <1>3. Kind[r] \in Kinds
    BY DiskAssumption
  <1> HIDE DEF size
  <1> QED  BY <1>1, <1>2, <1>3

LEMMA TypeInit == Init => TypeInv
  <1>1. NoReply \in [kind : Kinds \cup {"nop"}, status : Statuses, proc : Nat]
        /\ NoResponse \in [kind : Kinds \cup {"nop"}, offset : Nat, size : Nat]
    BY DEF NoReply, NoResponse, Statuses
  <1>2. [status |-> "garbage", info |-> 0] \in [status : Statuses, info : Nat]
    BY DEF Statuses
  <1> QED  BY <1>1, <1>2, DiskAssumption DEF Init, TypeInv, Unfinished, TypeOK, Statuses, Phases

LEMMA TypeStep == TypeInv /\ [Next]_vars => TypeInv'
  <1> SUFFICES ASSUME TypeOK, Unfinished, [Next]_vars
               PROVE  TypeOK' /\ Unfinished'
    BY DEF TypeInv
  <1> USE DEF Unfinished
  <1> NULL \notin Requests /\ "nop" \notin Kinds
    BY DiskAssumption DEF Kinds
  <1>1. ASSUME NEW r \in Requests, Exchange(r)
        PROVE  TypeOK' /\ Unfinished'
    <2>1. Len(queue') <= Capacity /\ queue' \in Seq(Requests)
      BY <1>1, Appended, DiskAssumption DEF Exchange
    <2>2. phase' \in [Requests -> Phases]
      BY <1>1 DEF Exchange, TypeOK, Phases
    <2> QED  BY <1>1, <2>1, <2>2 DEF Exchange, TypeOK
  <1>2. ASSUME NEW r \in Requests, DispatchLocal(r)
        PROVE  TypeOK' /\ Unfinished'
    <2>1. PICK st \in {"success", "error"} :
            result' = [result EXCEPT ![r] = [status |-> st, info |-> Length[r]]]
      BY <1>2 DEF DispatchLocal
    <2>2. [status |-> st, info |-> Length[r]] \in [status : Statuses, info : Nat]
      BY DiskAssumption DEF Statuses
    <2>3. result' \in [Requests -> [status : Statuses, info : Nat]]
      BY <2>1, <2>2 DEF TypeOK
    <2>4. phase' \in [Requests -> Phases]
      BY <1>2 DEF DispatchLocal, TypeOK, Phases
    <2> QED  BY <1>2, <2>3, <2>4 DEF DispatchLocal, TypeOK
  <1>3. ASSUME NEW r \in Requests, FinishSynch(r)
        PROVE  TypeOK' /\ Unfinished'
    <2>1. PICK st \in StatusRead(r) : result' = [result EXCEPT ![r] =
            [status |-> st, info |-> IF st = "success" THEN Length[r] ELSE 0]]
      BY <1>3 DEF FinishSynch
    <2>2. [status |-> st, info |-> IF st = "success" THEN Length[r] ELSE 0]
            \in [status : Statuses, info : Nat]
      BY DiskAssumption, StatusesRead
    <2>3. result' \in [Requests -> [status : Statuses, info : Nat]]
      BY <2>1, <2>2 DEF TypeOK
    <2>4. phase' \in [Requests -> Phases]
      BY <1>3 DEF FinishSynch, TypeOK, Phases
    <2> QED  BY <1>3, <2>3, <2>4 DEF FinishSynch, TypeOK
  <1>4. ASSUME Connect
        PROVE  TypeOK' /\ Unfinished'
    <2>1. NoReply \in [kind : Kinds \cup {"nop"}, status : Statuses, proc : Nat]
      BY DEF NoReply, Statuses
    <2>2. NoReply.kind = "nop"
      BY DEF NoReply
    <2> QED  BY <1>4, <2>1, <2>2 DEF Connect, kernelVars, TypeOK
  <1>5. ASSUME ReturnResult
        PROVE  TypeOK' /\ Unfinished'
    <2>1. last \in Requests /\ reply.status \in Statuses /\ reply.proc \in Nat
          /\ processed[last] \in Nat /\ Length[last] \in Nat
      BY <1>5, DiskAssumption DEF ReturnResult, TypeOK
    <2>2. /\ status' \in [Requests -> Statuses]
          /\ processed' \in [Requests -> Nat]
          /\ processed'[last] = processed[last] + reply.proc
      BY <1>5, <2>1 DEF ReturnResult, TypeOK
    <2>3. CASE /\ CompleteLastIrp(last, reply.status)
               /\ served' = served \cup {last} /\ last' = NULL
      BY <1>5, <2>1, <2>2, <2>3, Completion DEF ReturnResult, TypeOK
    <2>4. CASE /\ processed[last] + reply.proc < Length[last]
               /\ UNCHANGED <<phase, result, served, last>>
      BY <1>5, <2>1, <2>2, <2>4 DEF ReturnResult, TypeOK
    <2> QED  BY <1>5, <2>1, <2>3, <2>4 DEF ReturnResult
  <1>6. ASSUME SkipResult
        PROVE  TypeOK' /\ Unfinished'
    BY <1>6 DEF SkipResult, kernelVars, TypeOK
  <1>7. ASSUME ContinueLast
        PROVE  TypeOK' /\ Unfinished'
    <2>1. last \in Requests /\ processed[last] \in Nat /\ processed[last] <= Length[last]
      BY <1>7, DiskAssumption DEF ContinueLast, TypeOK
    <2>2. last' = last /\ thd' = "serve" /\ response'.kind \in Kinds
          /\ response' \in [kind : Kinds \cup {"nop"}, offset : Nat, size : Nat]
      BY <1>7, <2>1, Response DEF ContinueLast
    <2> QED  BY <1>7, <2>1, <2>2 DEF ContinueLast, TypeOK
  <1>8. ASSUME FetchNext
        PROVE  TypeOK' /\ Unfinished'
    <2>1. Head(queue) \in Requests /\ 0 <= Length[Head(queue)]
      BY <1>8, HeadAndTail, DiskAssumption DEF FetchNext
    <2>2. last' = Head(queue) /\ thd' = "serve" /\ response'.kind \in Kinds
          /\ response' \in [kind : Kinds \cup {"nop"}, offset : Nat, size : Nat]
      BY <1>8, <2>1, Response DEF FetchNext
    <2>3. queue' \in Seq(Requests) /\ Len(queue') <= Capacity
      BY <1>8, HeadAndTail, DiskAssumption DEF FetchNext, TypeOK
    <2> QED  BY <1>8, <2>1, <2>2, <2>3 DEF FetchNext, TypeOK
  <1>9. ASSUME RefuseNext
        PROVE  TypeOK' /\ Unfinished'
    <2>1. Head(queue) \in Requests
      BY <1>9, HeadAndTail DEF RefuseNext
    <2>2. queue' \in Seq(Requests) /\ Len(queue') <= Capacity
      BY <1>9, HeadAndTail, DiskAssumption DEF RefuseNext, TypeOK
    <2>3. status' \in [Requests -> Statuses]
      BY <1>9, <2>1 DEF RefuseNext, TypeOK, Statuses
    <2>4. phase' \in [Requests -> Phases]
          /\ result' \in [Requests -> [status : Statuses, info : Nat]]
      BY <1>9, <2>1, Completion DEF RefuseNext, Statuses
    <2> QED  BY <1>9, <2>1, <2>2, <2>3, <2>4 DEF RefuseNext, TypeOK
  <1>10. ASSUME NEW st \in {"success", "error"}, NEW proc \in 0 .. BufSize, Serve(st, proc)
         PROVE  TypeOK' /\ Unfinished'
    <2>1. response.size \in Nat /\ response.kind \in Kinds \cup {"nop"}
      BY DEF TypeOK
    <2>2. /\ reply'.kind = response.kind
          /\ reply' \in [kind : Kinds \cup {"nop"}, status : Statuses, proc : Nat]
      BY <1>10, <2>1, DiskAssumption DEF Serve, Statuses
    <2>3. moved' \in [Requests -> Nat]
      BY <1>10, <2>1 DEF Serve, TypeOK
    <2> QED  BY <1>10, <2>2, <2>3 DEF Serve, kernelVars, TypeOK
  <1>11. ASSUME EndThread
         PROVE  TypeOK' /\ Unfinished'
    BY <1>11 DEF EndThread, kernelVars, TypeOK
  <1>12. ASSUME ReleaseLast
         PROVE  TypeOK' /\ Unfinished'
    <2>1. phase' \in [Requests -> Phases]
          /\ result' \in [Requests -> [status : Statuses, info : Nat]]
      <3>1. CASE last = NULL
        BY <1>12, <3>1 DEF ReleaseLast, TypeOK
      <3>2. CASE last # NULL
        BY <1>12, <3>2, Completion, StatusesRead DEF ReleaseLast, TypeOK
      <3> QED  BY <3>1, <3>2
    <2> QED  BY <1>12, <2>1 DEF ReleaseLast, TypeOK
  <1>13. ASSUME ReleaseQueued
         PROVE  TypeOK' /\ Unfinished'
    <2>1. phase' \in [Requests -> Phases]
          /\ result' \in [Requests -> [status : Statuses, info : Nat]]
      BY <1>13, HeadAndTail, Completion, StatusesRead DEF ReleaseQueued
    <2>2. queue' \in Seq(Requests) /\ Len(queue') <= Capacity
      BY <1>13, HeadAndTail, DiskAssumption DEF ReleaseQueued, TypeOK
    <2> QED  BY <1>13, <2>1, <2>2 DEF ReleaseQueued, TypeOK
  <1>14. ASSUME ReleaseDone
         PROVE  TypeOK' /\ Unfinished'
    BY <1>14 DEF ReleaseDone, TypeOK
  <1>15. ASSUME UNCHANGED vars
         PROVE  TypeOK' /\ Unfinished'
    BY <1>15 DEF vars, kernelVars, TypeOK
  <1> HIDE DEF Unfinished
  <1> QED
    BY <1>1, <1>2, <1>3, <1>4, <1>5, <1>6, <1>7, <1>8, <1>9, <1>10, <1>11, <1>12,
       <1>13, <1>14, <1>15 DEF Next, ExchangeThread, Unmount
-----------------------------------------------------------------------------
(* Conservation.  A request that is pushed or popped is the only one whose *)
(* place changes.                                                          *)
Distinct == \A i, j \in 1 .. Len(queue) : queue[i] = queue[j] => i = j

LEMMA QueuedByPush ==
  ASSUME TypeOK, NEW r \in Requests, queue' = Append(queue, r)
  PROVE  /\ \A x : Queued(x)' <=> Queued(x) \/ x = r
         /\ Distinct /\ ~ Queued(r) => Distinct'
  <1> 1 .. Len(queue') = (1 .. Len(queue)) \cup {Len(queue) + 1}
    BY Appended
  <1> QED  BY Appended DEF Queued, Distinct

LEMMA QueuedByPop ==
  ASSUME TypeOK, Distinct, queue # <<>>, queue' = Tail(queue)
  PROVE  /\ \A x : Queued(x)' <=> Queued(x) /\ x # Head(queue)
         /\ Queued(Head(queue))
         /\ Distinct'
  <1>1. /\ Len(queue) \in Nat /\ Len(queue) >= 1 /\ Len(queue') = Len(queue) - 1
        /\ \A i \in 1 .. Len(queue) - 1 : queue'[i] = queue[i + 1]
        /\ Head(queue) = queue[1]
    BY HeadAndTail DEF TypeOK
  <1>2. Queued(Head(queue))
    BY <1>1 DEF Queued
  <1>3. ASSUME NEW x, Queued(x)'
        PROVE  Queued(x) /\ x # Head(queue)
    <2>1. PICK i \in 1 .. Len(queue) - 1 : queue'[i] = x
      BY <1>1, <1>3 DEF Queued
    <2>2. queue[i + 1] = x /\ i + 1 \in 1 .. Len(queue) /\ i + 1 # 1 /\ 1 \in 1 .. Len(queue)
      BY <1>1, <2>1
    <2> QED  BY <1>1, <2>2 DEF Queued, Distinct
  <1>4. ASSUME NEW x, Queued(x), x # Head(queue)
        PROVE  Queued(x)'
    <2>1. PICK i \in 1 .. Len(queue) : queue[i] = x
      BY <1>4 DEF Queued
    <2>2. i - 1 \in 1 .. Len(queue') /\ queue'[i - 1] = x
      BY <1>1, <1>4, <2>1
    <2> QED  BY <2>2 DEF Queued
  <1>5. Distinct'
    <2> SUFFICES ASSUME NEW i \in 1 .. Len(queue'), NEW j \in 1 .. Len(queue'),
                        queue'[i] = queue'[j]
                 PROVE  i = j
      BY DEF Distinct
    <2>1. queue[i + 1] = queue[j + 1] /\ i + 1 \in 1 .. Len(queue) /\ j + 1 \in 1 .. Len(queue)
      BY <1>1
    <2> QED  BY <2>1, <1>1 DEF Distinct
  <1> QED  BY <1>2, <1>3, <1>4, <1>5

(* What Conserved says of the requests, with Queued as a black box.        *)
Placed ==
  /\ \A r \in Requests : phase[r] = "pending" <=> (Queued(r) \/ last = r)
  /\ last # NULL => ~ Queued(last)

LEMMA ConservedParts == Conserved <=> Distinct /\ Placed
  BY DEF Conserved, Distinct, Placed

LEMMA ConservedStep == TypeInv /\ Conserved /\ [Next]_vars => Conserved'
  <1> SUFFICES ASSUME TypeOK, Unfinished, Distinct, Placed, [Next]_vars
               PROVE  Distinct' /\ Placed'
    <2>1. Conserved' <=> Distinct' /\ Placed'
      BY DEF Conserved, Distinct, Placed
    <2> QED  BY <2>1, ConservedParts DEF TypeInv
  <1>n. NULL \notin Requests
    BY DiskAssumption
  <1>h. ASSUME NEW x
        PROVE  UNCHANGED queue => (Queued(x)' <=> Queued(x))
    BY DEF Queued
  <1>d. UNCHANGED queue => Distinct'
    BY DEF Distinct
  <1>1. ASSUME NEW r \in Requests, Exchange(r)
        PROVE  Distinct' /\ Placed'
    <2>1. queue' = Append(queue, r) /\ phase[r] = "new" /\ last' = last
          /\ phase' = [phase EXCEPT ![r] = "pending"]
      BY <1>1 DEF Exchange
    <2>2. ~ Queued(r) /\ last # r
      BY <2>1 DEF Placed
    <2>3. \A x : Queued(x)' <=> Queued(x) \/ x = r
      BY <2>1, QueuedByPush
    <2>4. Distinct'
      BY <2>1, <2>2, QueuedByPush
    <2>5. Placed'
      BY <2>1, <2>2, <2>3, <1>n DEF Placed, TypeOK
    <2> QED  BY <2>4, <2>5
  <1>2. ASSUME NEW r \in Requests, DispatchLocal(r) \/ FinishSynch(r)
        PROVE  Distinct' /\ Placed'
    <2>1. phase[r] \in {"new", "signalled"} /\ UNCHANGED <<queue, last>>
          /\ phase' = [phase EXCEPT ![r] = "completed"]
      BY <1>2 DEF DispatchLocal, FinishSynch
    <2>2. Placed'
      BY <2>1, <1>h DEF Placed, TypeOK
    <2> QED  BY <2>1, <2>2, <1>d
  <1>3. ASSUME ReturnResult
        PROVE  Distinct' /\ Placed'
    <2>1. last \in Requests /\ reply.status \in Statuses /\ UNCHANGED queue
      BY <1>3 DEF ReturnResult, TypeOK
    <2>2. CASE CompleteLastIrp(last, reply.status) /\ last' = NULL
      <3>1. /\ phase'[last] # "pending"
            /\ \A q \in Requests \ {last} : phase'[q] = phase[q]
        BY <2>1, <2>2, Completion
      <3> QED  BY <2>1, <2>2, <3>1, <1>h, <1>n, <1>d DEF Placed
    <2>3. CASE UNCHANGED <<phase, last>>
      BY <2>1, <2>3, <1>h, <1>d DEF Placed
    <2> QED  BY <1>3, <2>2, <2>3 DEF ReturnResult
  <1>4. ASSUME FetchNext
        PROVE  Distinct' /\ Placed'
    <2>1. queue # <<>> /\ queue' = Tail(queue) /\ last = NULL
          /\ last' = Head(queue) /\ UNCHANGED phase
      BY <1>4 DEF FetchNext, Respond
    <2>2. Placed'
      BY <2>1, <1>n, QueuedByPop, HeadAndTail DEF Placed
    <2> QED  BY <2>1, <2>2, QueuedByPop
  <1>5. ASSUME NEW st \in Statuses, CompleteLastIrp(Head(queue), st),
               queue # <<>>, queue' = Tail(queue), UNCHANGED last
        PROVE  Distinct' /\ Placed'
    <2>1. Head(queue) \in Requests
      BY <1>5, HeadAndTail
    <2>2. /\ phase'[Head(queue)] # "pending"
          /\ \A q \in Requests \ {Head(queue)} : phase'[q] = phase[q]
      BY <1>5, <2>1, Completion
    <2>3. /\ \A x : Queued(x)' <=> Queued(x) /\ x # Head(queue)
          /\ Queued(Head(queue)) /\ Distinct'
      BY <1>5, QueuedByPop
    <2>4. last # Head(queue)
      BY <2>1, <2>3, <1>n DEF Placed
    <2>5. Placed'
      BY <1>5, <2>1, <2>2, <2>3, <2>4 DEF Placed
    <2> QED  BY <2>3, <2>5
  <1>6. ASSUME RefuseNext \/ ReleaseQueued
        PROVE  Distinct' /\ Placed'
    <2>1. CASE RefuseNext
      BY <2>1, <1>5 DEF RefuseNext, Statuses
    <2>2. CASE ReleaseQueued
      BY <2>2, <1>5, StatusesRead, HeadAndTail DEF ReleaseQueued
    <2> QED  BY <1>6, <2>1, <2>2
  <1>7. ASSUME ReleaseLast
        PROVE  Distinct' /\ Placed'
    <2>1. UNCHANGED queue /\ last' = NULL
      BY <1>7 DEF ReleaseLast
    <2>2. CASE last = NULL
      BY <1>7, <2>1, <2>2, <1>h, <1>d, <1>n DEF ReleaseLast, Placed
    <2>3. CASE last # NULL
      <3>1. last \in Requests
        BY <2>3 DEF TypeOK
      <3>2. /\ phase'[last] # "pending"
            /\ \A q \in Requests \ {last} : phase'[q] = phase[q]
        BY <1>7, <2>3, <3>1, Completion, StatusesRead DEF ReleaseLast
      <3> QED  BY <2>1, <2>3, <3>1, <3>2, <1>h, <1>d, <1>n DEF Placed
    <2> QED  BY <2>2, <2>3
  <1>8. ASSUME UNCHANGED <<queue, last, phase>>
        PROVE  Distinct' /\ Placed'
    BY <1>8, <1>h, <1>d DEF Placed
  <1>9. ASSUME \/ Connect \/ SkipResult \/ ContinueLast \/ EndThread \/ ReleaseDone
               \/ UNCHANGED vars
               \/ \E st \in {"success", "error"}, proc \in 0 .. BufSize : Serve(st, proc)
        PROVE  UNCHANGED <<queue, last, phase>>
    BY <1>9 DEF Connect, SkipResult, ContinueLast, Respond, EndThread, ReleaseDone, Serve,
                vars, kernelVars
  <1> QED
    BY <1>1, <1>2, <1>3, <1>4, <1>6, <1>7, <1>8, <1>9
    DEF Next, ExchangeThread, Unmount
-----------------------------------------------------------------------------
(* The transfers, until Release runs with the exchange thread still there. *)
DiskInv == TypeInv /\ Conserved /\ TransferInv

(* Release has not begun, or begins only when the exchange thread is gone. *)
Orderly == release = "no" \/ ~ MayOutlive

LEMMA OrderlyBefore == TypeOK /\ [Next]_vars /\ Orderly' => Orderly
  <1>1. [Next]_vars => release' = release \/ release' \in {"drain", "done"}
    BY DEF Next, Exchange, DispatchLocal, FinishSynch, Connect, ExchangeThread, ReturnResult,
           SkipResult, ContinueLast, FetchNext, RefuseNext, Serve, EndThread, Unmount,
           ReleaseLast, ReleaseQueued, ReleaseDone, vars, kernelVars
  <1> QED  BY <1>1 DEF Orderly

(* A pending request has not been answered.                                *)
LEMMA PendingIsNotServed ==
  ASSUME Answers, NEW r \in Requests, phase[r] \in {"new", "pending"}
  PROVE  r \notin served
  BY DEF Answers

LEMMA LastIsPending ==
  ASSUME Conserved, last \in Requests
  PROVE  phase[last] = "pending" /\ ~ Queued(last)
  BY DiskAssumption DEF Conserved

LEMMA HeadIsPending ==
  ASSUME TypeOK, Conserved, queue # <<>>
  PROVE  Head(queue) \in Requests /\ phase[Head(queue)] = "pending" /\ Queued(Head(queue))
  BY HeadAndTail, QueuedByPop DEF Conserved, Queued

(* What an answered request leaves to the others.                          *)
LEMMA AnsweredAlone ==
  ASSUME TypeOK, Answers, NEW r \in Requests, NEW st \in Statuses, CompleteLastIrp(r, st),
         UNCHANGED moved, phase[r] = "pending",
         \/ UNCHANGED served
         \/ /\ served' = served \cup {r}
            /\ st = "success" /\ Kind[r] \in {"read", "write"} => moved[r] = Length[r]
  PROVE  Answers'
  <1>1. /\ phase'[r] \in {"signalled", "completed"}
        /\ phase'[r] = "signalled" => Kind[r] = "ioctl"
        /\ Kind[r] # "ioctl" => result'[r].status = st
        /\ \A q \in Requests \ {r} : phase'[q] = phase[q] /\ result'[q] = result[q]
    BY Completion
  <1>2. r \notin served
    BY PendingIsNotServed
  <1>3. ASSUME NEW q \in Requests \ {r}
        PROVE  /\ phase'[q] = "pending" => Kind[q] # "local"
               /\ phase'[q] = "signalled" => Kind[q] = "ioctl"
               /\ q \in served' => phase'[q] \in {"signalled", "completed"} /\ Complete(q)'
    BY <1>1 DEF Answers, Complete
  <1>4. r \in served' => phase'[r] \in {"signalled", "completed"} /\ Complete(r)'
    BY <1>1, <1>2 DEF Complete
  <1> QED  BY <1>1, <1>3, <1>4 DEF Answers

LEMMA AnswersStep == DiskInv /\ [Next]_vars => Answers'
  <1> SUFFICES ASSUME TypeOK, Unfinished, Conserved, TransferInv, Answers, Progress,
                      [Next]_vars
               PROVE  Answers'
    BY DEF DiskInv, TypeInv, TransferInv
  <1>1. ASSUME NEW r \in Requests, Exchange(r)
        PROVE  Answers'
    <2>1. /\ phase[r] = "new" /\ Kind[r] # "local" /\ UNCHANGED <<result, served, moved>>
          /\ phase' = [phase EXCEPT ![r] = "pending"]
      BY <1>1 DEF Exchange
    <2>2. r \notin served
      BY <2>1, PendingIsNotServed
    <2> QED  BY <2>1, <2>2 DEF Answers, Complete, TypeOK
  <1>2. ASSUME NEW r \in Requests, DispatchLocal(r)
        PROVE  Answers'
    <2>1. PICK st \in {"success", "error"} :
            result' = [result EXCEPT ![r] = [status |-> st, info |-> Length[r]]]
      BY <1>2 DEF DispatchLocal
    <2>2. /\ phase[r] = "new" /\ UNCHANGED <<served, moved>>
          /\ phase' = [phase EXCEPT ![r] = "completed"]
          /\ \A q \in Requests \ {r} : result'[q] = result[q]
      BY <1>2, <2>1 DEF DispatchLocal, TypeOK
    <2>3. r \notin served
      BY <2>2, PendingIsNotServed
    <2> QED  BY <2>2, <2>3 DEF Answers, Complete, TypeOK
  <1>3. ASSUME NEW r \in Requests, FinishSynch(r)
        PROVE  Answers'
    <2>1. PICK st \in StatusRead(r) : result' = [result EXCEPT ![r] =
            [status |-> st, info |-> IF st = "success" THEN Length[r] ELSE 0]]
      BY <1>3 DEF FinishSynch
    <2>2. /\ phase[r] = "signalled" /\ UNCHANGED <<served, moved>>
          /\ phase' = [phase EXCEPT ![r] = "completed"]
          /\ \A q \in Requests \ {r} : result'[q] = result[q]
      BY <1>3, <2>1 DEF FinishSynch, TypeOK
    <2>3. Kind[r] = "ioctl"
      BY <2>2 DEF Answers
    <2> QED  BY <2>2, <2>3 DEF Answers, Complete, TypeOK
  <1>4. ASSUME ReturnResult
        PROVE  Answers'
    <2>1. /\ last \in Requests /\ reply.status \in Statuses /\ UNCHANGED moved
          /\ thd = "call" /\ reply.kind # "nop" /\ reply.proc \in Nat
          /\ processed[last] \in Nat /\ Length[last] \in Nat
      BY <1>4, DiskAssumption DEF ReturnResult, TypeOK
    <2>2. phase[last] = "pending"
      BY <2>1, LastIsPending
    <2>3. CASE /\ \/ processed[last] + reply.proc >= Length[last]
                  \/ Kind[last] = "ioctl"
                  \/ reply.status # "success"
               /\ CompleteLastIrp(last, reply.status) /\ served' = served \cup {last}
      <3>1. reply.status = "success" /\ Kind[last] \in {"read", "write"}
              => moved[last] = Length[last]
        BY <2>1, <2>3 DEF Progress, Transfers
      <3> QED  BY <2>1, <2>2, <2>3, <3>1, AnsweredAlone
    <2>4. CASE UNCHANGED <<phase, result, served>>
      BY <2>1, <2>4 DEF Answers, Complete
    <2> QED  BY <1>4, <2>3, <2>4 DEF ReturnResult
  <1>5. ASSUME RefuseNext
        PROVE  Answers'
    <2>1. /\ Head(queue) \in Requests /\ phase[Head(queue)] = "pending"
          /\ Kind[Head(queue)] = "ioctl" /\ UNCHANGED moved
          /\ CompleteLastIrp(Head(queue), "no_memory")
          /\ served' = served \cup {Head(queue)}
      BY <1>5, HeadIsPending DEF RefuseNext, TooLong
    <2> QED  BY <2>1, AnsweredAlone DEF Statuses
  <1>6. ASSUME NEW st \in {"success", "error"}, NEW proc \in 0 .. BufSize, Serve(st, proc)
        PROVE  Answers'
    <2>1. UNCHANGED <<phase, result, served>>
          /\ \A q \in Requests : q # last => moved'[q] = moved[q]
      BY <1>6 DEF Serve, kernelVars, TypeOK
    <2>2. ASSUME NEW q \in served
          PROVE  q \in Requests /\ q # last
      BY <2>2, LastIsPending, PendingIsNotServed DEF TypeOK
    <2> QED  BY <2>1, <2>2 DEF Answers, Complete
  <1>7. ASSUME ReleaseLast
        PROVE  Answers'
    <2>1. UNCHANGED <<served, moved>>
      BY <1>7 DEF ReleaseLast
    <2>2. CASE last = NULL
      BY <1>7, <2>1, <2>2 DEF ReleaseLast, Answers, Complete
    <2>3. CASE last # NULL
      <3>1. last \in Requests
        BY <2>3 DEF TypeOK
      <3> QED
        BY <1>7, <2>1, <2>3, <3>1, StatusesRead, LastIsPending, AnsweredAlone DEF ReleaseLast
    <2> QED  BY <2>2, <2>3
  <1>8. ASSUME ReleaseQueued
        PROVE  Answers'
    BY <1>8, StatusesRead, HeadIsPending, AnsweredAlone DEF ReleaseQueued
  <1>9. ASSUME UNCHANGED <<phase, result, served, moved>>
        PROVE  Answers'
    BY <1>9 DEF Answers, Complete
  <1>10. ASSUME \/ Connect \/ SkipResult \/ ContinueLast \/ FetchNext \/ EndThread
                \/ ReleaseDone \/ UNCHANGED vars
         PROVE  UNCHANGED <<phase, result, served, moved>>
    BY <1>10 DEF Connect, SkipResult, ContinueLast, FetchNext, EndThread, ReleaseDone,
                 vars, kernelVars
  <1> QED
    BY <1>1, <1>2, <1>3, <1>4, <1>5, <1>6, <1>7, <1>8, <1>9, <1>10
    DEF Next, ExchangeThread, Unmount

LEMMA UntouchedStep == Orderly' /\ DiskInv /\ [Next]_vars => Untouched'
  <1> SUFFICES ASSUME Orderly', TypeOK, Conserved, Untouched, [Next]_vars
               PROVE  Untouched'
    BY DEF DiskInv, TypeInv, TransferInv
  <1>1. (release # "no" => thd \in {"off", "ended"})'
    <2>1. CASE \E r \in Requests : Exchange(r) \/ DispatchLocal(r) \/ FinishSynch(r)
      BY <2>1 DEF Exchange, DispatchLocal, FinishSynch, Untouched
    <2>2. CASE Connect \/ EndThread
      BY <2>2 DEF Connect, EndThread, kernelVars, Untouched
    <2>3. CASE ExchangeThread
      <3>1. thd \in {"call", "fetch", "serve"} /\ UNCHANGED release
        BY <2>3 DEF ExchangeThread, ReturnResult, SkipResult, ContinueLast, FetchNext,
                    RefuseNext, Serve, kernelVars
      <3> QED  BY <3>1 DEF Untouched
    <2>4. CASE Unmount
      BY <2>4 DEF Unmount, ReleaseLast, ReleaseQueued, ReleaseDone, Untouched, Orderly
    <2>5. CASE UNCHANGED vars
      BY <2>5 DEF vars, kernelVars, Untouched
    <2> QED  BY <2>1, <2>2, <2>3, <2>4, <2>5 DEF Next
  <1>2. ASSUME NEW r \in Requests, (phase[r] = "new" \/ Queued(r))'
        PROVE  moved'[r] = 0
    <2>1. ASSUME phase[r] = "new" \/ Queued(r), UNCHANGED moved
          PROVE  moved'[r] = 0
      BY <2>1 DEF Untouched
    <2>2. ASSUME UNCHANGED <<queue, phase>>
          PROVE  phase[r] = "new" \/ Queued(r)
      BY <1>2, <2>2 DEF Queued
    <2>3. ASSUME NEW q \in Requests, NEW st \in Statuses, CompleteLastIrp(q, st), 
                 UNCHANGED queue \/ (queue # <<>> /\ queue' = Tail(queue))
          PROVE  phase[r] = "new" \/ Queued(r)
      <3>1. phase'[r] = "new" => phase[r] = "new"
        BY <2>3, Completion
      <3>2. Queued(r)' => Queued(r)
        BY <2>3, QueuedByPop, ConservedParts DEF Queued
      <3> QED  BY <1>2, <3>1, <3>2
    <2>4. CASE \E q \in Requests : Exchange(q)
      <3>1. PICK q \in Requests : Exchange(q)
        BY <2>4
      <3>2. Queued(r)' => Queued(r) \/ phase[r] = "new"
        BY <3>1, QueuedByPush DEF Exchange
      <3>3. phase'[r] = "new" => phase[r] = "new"
        BY <3>1 DEF Exchange, TypeOK
      <3> QED  BY <1>2, <2>1, <3>1, <3>2, <3>3 DEF Exchange
    <2>5. CASE \E q \in Requests : DispatchLocal(q) \/ FinishSynch(q)
      <3>1. (phase'[r] = "new" => phase[r] = "new") /\ UNCHANGED <<queue, moved>>
        BY <2>5 DEF DispatchLocal, FinishSynch, TypeOK
      <3> QED  BY <1>2, <2>1, <3>1 DEF Queued
    <2>6. CASE ReturnResult
      <3>1. last \in Requests /\ reply.status \in Statuses /\ UNCHANGED <<queue, moved>>
        BY <2>6 DEF ReturnResult, TypeOK
      <3>2. CompleteLastIrp(last, reply.status) \/ UNCHANGED phase
        BY <2>6 DEF ReturnResult
      <3> QED  BY <2>1, <2>2, <2>3, <3>1, <3>2
    <2>7. CASE FetchNext
      <3>1. Queued(r)' => Queued(r)
        BY <2>7, QueuedByPop, ConservedParts DEF FetchNext
      <3> QED  BY <1>2, <2>1, <2>7, <3>1 DEF FetchNext
    <2>8. CASE RefuseNext
      <3>1. /\ Head(queue) \in Requests /\ "no_memory" \in Statuses
            /\ CompleteLastIrp(Head(queue), "no_memory")
            /\ queue # <<>> /\ queue' = Tail(queue) /\ UNCHANGED moved
        BY <2>8, HeadAndTail DEF RefuseNext, Statuses
      <3>2. phase[r] = "new" \/ Queued(r)
        BY <2>3, <3>1
      <3> QED  BY <2>1, <3>1, <3>2
    <2>9. CASE \E st \in {"success", "error"}, proc \in 0 .. BufSize : Serve(st, proc)
      <3>1. UNCHANGED <<queue, phase>> /\ (r # last => moved'[r] = moved[r])
        BY <2>9 DEF Serve, kernelVars, TypeOK
      <3>2. r # last
        BY <2>2, <3>1, LastIsPending
      <3> QED  BY <2>2, <3>1, <3>2 DEF Untouched
    <2>10. CASE ReleaseLast
      <3>1. CASE last = NULL
        BY <2>1, <2>2, <2>10, <3>1 DEF ReleaseLast
      <3>2. CASE last # NULL
        <4> last \in Requests
          BY <3>2 DEF TypeOK
        <4> QED  BY <2>1, <2>3, <2>10, <3>2, StatusesRead DEF ReleaseLast
      <3> QED  BY <3>1, <3>2
    <2>11. CASE ReleaseQueued
      <3>1. PICK st \in Statuses : CompleteLastIrp(Head(queue), st)
        BY <2>11, HeadAndTail, StatusesRead DEF ReleaseQueued
      <3>2. Head(queue) \in Requests /\ queue # <<>> /\ queue' = Tail(queue) /\ UNCHANGED moved
        BY <2>11, HeadAndTail DEF ReleaseQueued
      <3>3. phase[r] = "new" \/ Queued(r)
        BY <2>3, <3>1, <3>2
      <3> QED  BY <2>1, <3>2, <3>3
    <2>12. CASE \/ Connect \/ SkipResult \/ ContinueLast \/ EndThread \/ ReleaseDone
                \/ UNCHANGED vars
      <3>1. UNCHANGED <<queue, phase, moved>>
        BY <2>12 DEF Connect, SkipResult, ContinueLast, EndThread, ReleaseDone, vars, kernelVars
      <3> QED  BY <2>1, <2>2, <3>1
    <2> QED
      BY <2>4, <2>5, <2>6, <2>7, <2>8, <2>9, <2>10, <2>11, <2>12
      DEF Next, ExchangeThread, Unmount
  <1> QED  BY <1>1, <1>2 DEF Untouched

LEMMA ProgressStep ==
  Orderly' /\ DiskInv /\ [Next]_vars => ReplyHasRequest' /\ Progress'
  <1> SUFFICES ASSUME Orderly', TypeOK, Unfinished, Conserved, Untouched, Answers,
                      ReplyHasRequest, Progress, [Next]_vars
               PROVE  ReplyHasRequest' /\ Progress'
    BY DEF DiskInv, TypeInv, TransferInv
  <1>n. NULL \notin Requests /\ "nop" \notin Kinds
    BY DiskAssumption DEF Kinds
  <1>1. ASSUME UNCHANGED <<last, thd, response, reply, processed, moved>>
        PROVE  ReplyHasRequest' /\ Progress'
    BY <1>1 DEF ReplyHasRequest, Progress
  <1>2. ASSUME thd' \in {"off", "ended"}
        PROVE  ReplyHasRequest' /\ Progress'
    BY <1>2 DEF ReplyHasRequest, Progress
  <1>3. CASE Connect
    BY <1>3 DEF Connect, NoReply, ReplyHasRequest, Progress
  <1>4. CASE ReturnResult
    <2>1. /\ last \in Requests /\ reply.proc \in Nat /\ Kind[last] = reply.kind
          /\ processed[last] \in Nat /\ Length[last] \in Nat
          /\ processed'[last] = processed[last] + reply.proc
          /\ thd = "call" /\ reply.kind # "nop" /\ thd' = "fetch" /\ UNCHANGED moved
      BY <1>4, DiskAssumption DEF ReturnResult, ReplyHasRequest, TypeOK
    <2>2. CASE last' = NULL
      BY <2>1, <2>2 DEF ReplyHasRequest, Progress
    <2>3. CASE /\ UNCHANGED last
               /\ processed[last] + reply.proc < Length[last]
               /\ Kind[last] # "ioctl" /\ reply.status = "success"
      <3>1. Kind[last] # "local"
        BY <2>1, LastIsPending DEF Answers
      <3>2. Kind[last] # "disconnect"
        BY <2>1, <2>3, DiskAssumption
      <3>3. last \in Transfers
        BY <2>1, <2>3, <3>1, <3>2, DiskAssumption DEF Kinds, Transfers
      <3> QED  BY <2>1, <2>3, <3>3 DEF ReplyHasRequest, Progress
    <2>4. processed[last] + reply.proc >= Length[last]
          \/ processed[last] + reply.proc < Length[last]
      BY <2>1
    <2> QED  BY <1>4, <2>2, <2>3, <2>4 DEF ReturnResult
  <1>5. CASE SkipResult
    <2>1. last' = NULL /\ thd' = "fetch"
      BY <1>5 DEF SkipResult, kernelVars, Unfinished
    <2> QED  BY <2>1 DEF ReplyHasRequest, Progress
  <1>6. CASE ContinueLast
    <2>1. /\ last \in Requests /\ processed[last] \in Nat /\ processed[last] <= Length[last]
          /\ moved[last] = processed[last]
          /\ Respond(last, processed[last]) /\ UNCHANGED <<processed, moved>>
      BY <1>6, DiskAssumption DEF ContinueLast, Unfinished, Progress, TypeOK
    <2>2. /\ last' = last /\ thd' = "serve" /\ response'.kind = Kind[last]
          /\ response'.offset = processed[last]
          /\ response'.size <= BufSize /\ processed[last] + response'.size <= Length[last]
      BY <2>1, Response
    <2> QED  BY <1>n, <2>1, <2>2 DEF ReplyHasRequest, Progress
  <1>7. CASE FetchNext
    <2>0. Head(queue) \in Requests /\ Queued(Head(queue)) /\ 0 <= Length[Head(queue)]
      BY <1>7, HeadIsPending, DiskAssumption DEF FetchNext
    <2>1. /\ moved[Head(queue)] = 0 /\ processed'[Head(queue)] = 0
          /\ Respond(Head(queue), 0) /\ UNCHANGED moved
      BY <1>7, <2>0 DEF FetchNext, Untouched, TypeOK
    <2>2. /\ last' = Head(queue) /\ thd' = "serve" /\ response'.kind = Kind[Head(queue)]
          /\ response'.offset = 0
          /\ response'.size <= BufSize /\ 0 + response'.size <= Length[Head(queue)]
      BY <2>0, <2>1, Response
    <2> QED  BY <1>n, <2>0, <2>1, <2>2 DEF ReplyHasRequest, Progress
  <1>8. ASSUME NEW st \in {"success", "error"}, NEW proc \in 0 .. BufSize, Serve(st, proc)
        PROVE  ReplyHasRequest' /\ Progress'
    <2>1. /\ last \in Requests /\ Kind[last] = response.kind
          /\ moved[last] = response.offset /\ processed[last] = response.offset
          /\ response.offset + response.size <= Length[last]
          /\ response.size \in Nat /\ response.offset \in Nat
      BY <1>8 DEF Serve, ReplyHasRequest, Progress, TypeOK
    <2>2. /\ reply'.kind = response.kind /\ reply'.status = st /\ reply'.proc = proc
          /\ thd' = "call" /\ UNCHANGED <<last, processed>>
          /\ last \in Transfers => proc = response.size
      BY <1>8, <2>1 DEF Serve, kernelVars, Transfers
    <2>3. st = "success" => moved'[last] = moved[last] + response.size
      BY <1>8, <2>1, <1>n DEF Serve, TypeOK
    <2> QED  BY <1>n, <2>1, <2>2, <2>3 DEF ReplyHasRequest, Progress
  <1>9. ASSUME \/ \E r \in Requests : Exchange(r) \/ DispatchLocal(r) \/ FinishSynch(r)
               \/ ReleaseQueued \/ ReleaseDone \/ UNCHANGED vars
        PROVE  UNCHANGED <<last, thd, response, reply, processed, moved>>
    BY <1>9 DEF Exchange, DispatchLocal, FinishSynch, ReleaseQueued, ReleaseDone,
                vars, kernelVars
  <1>10. ASSUME RefuseNext \/ EndThread \/ ReleaseLast
         PROVE  thd' \in {"off", "ended"}
    BY <1>10 DEF RefuseNext, EndThread, ReleaseLast, Orderly
  <1> QED
    BY <1>1, <1>2, <1>3, <1>4, <1>5, <1>6, <1>7, <1>8, <1>9, <1>10
    DEF Next, ExchangeThread, Unmount

LEMMA TransferInit == Init => TransferInv
  BY DEF Init, TransferInv, ReplyHasRequest, Untouched, Progress, Answers, Queued
-----------------------------------------------------------------------------
(* Every variable keeps its type, the difference of m_data_len and         *)
(* m_processed included.                                                   *)
THEOREM DiskTypes == Spec => []TypeOK
  <1>1. TypeInv => TypeOK
    BY DEF TypeInv
  <1> QED  BY <1>1, TypeInit, TypeStep, PTL DEF Spec

LEMMA ConservedInit == Init => Conserved
  <1>1. ASSUME Init
        PROVE  Conserved
    BY <1>1, DiskAssumption DEF Init, Conserved, Queued
  <1> QED  BY <1>1

(* No request is lost, duplicated or touched after its completion, even if *)
(* the exchange thread outlives the disk.                                  *)
THEOREM RequestsConserved == Spec => []Conserved
  <1>1. Spec => [](TypeInv /\ Conserved)
    BY TypeInit, TypeStep, ConservedInit, ConservedStep, PTL DEF Spec
  <1> QED  BY <1>1, PTL

(* The inductive invariant: the transfers are in order until Release runs, *)
(* and behind it when Release finds the thread gone.                       *)
THEOREM DiskInvariant == Spec => [](TypeInv /\ Conserved /\ (Orderly => TransferInv))
  <1>1. Init => TypeInv /\ Conserved /\ TransferInv
    BY TypeInit, ConservedInit, TransferInit
  <1>2. TypeInv /\ Conserved /\ (Orderly => TransferInv) /\ [Next]_vars
          => (Orderly' => TransferInv')
    BY OrderlyBefore, UntouchedStep, ProgressStep, AnswersStep DEF DiskInv, TransferInv, TypeInv
  <1> QED  BY <1>1, <1>2, TypeStep, ConservedStep, PTL DEF Spec

(* Whether or not Disconnect gives up waiting for the exchange thread: up  *)
(* to Release, every result is credited to the request it belongs to,      *)
(* partial transfers follow each other, and success means all of the data. *)
THEOREM InOrderUntilRelease ==
  Spec => [](release = "no" => ReplyHasRequest /\ TransferInOrder /\ ServedInFull)
  <1>1. TypeInv /\ TransferInv => ReplyHasRequest /\ TransferInOrder /\ ServedInFull
    BY DEF TransferInv, Progress, TransferInOrder, TypeInv, TypeOK, Answers, ServedInFull
  <1>2. release = "no" => Orderly
    BY DEF Orderly
  <1> QED  BY <1>1, <1>2, DiskInvariant, PTL

LEMMA OrderlyDisk ==
  ASSUME ~ MayOutlive
  PROVE  Spec => []DiskInv
  <1>1. TypeInv /\ Conserved /\ (Orderly => TransferInv) => DiskInv
    BY DEF DiskInv, Orderly
  <1> QED  BY <1>1, DiskInvariant, PTL

(* The result the thread hands back is credited to the request it was      *)
(* given, and ASSERT(m_last_irp) holds.                                    *)
THEOREM ReplyIsForLast ==
  ASSUME ~ MayOutlive
  PROVE  Spec => []ReplyHasRequest
  <1>1. DiskInv => ReplyHasRequest
    BY DEF DiskInv, TransferInv
  <1> QED  BY <1>1, OrderlyDisk, PTL

(* Partial transfers follow each other without gap, overlap or excess.     *)
THEOREM TransfersInOrder ==
  ASSUME ~ MayOutlive
  PROVE  Spec => []TransferInOrder
  <1>1. DiskInv => TransferInOrder
    BY DEF DiskInv, TransferInv, Progress, TransferInOrder
  <1> QED  BY <1>1, OrderlyDisk, PTL

(* RequestExchange reports success only for a complete transfer.           *)
THEOREM ServedCompletely ==
  ASSUME ~ MayOutlive
  PROVE  Spec => []ServedInFull
  <1>1. DiskInv => ServedInFull
    BY DEF DiskInv, TypeInv, TypeOK, TransferInv, Answers, ServedInFull
  <1> QED  BY <1>1, OrderlyDisk, PTL

-----------------------------------------------------------------------------
(* What CompleteLastIrp does to an IRP that waits, seen by applications.   *)
LEMMA CompletionAnswers ==
  ASSUME TypeOK, NEW r \in Requests, NEW st \in Statuses, CompleteLastIrp(r, st),
         phase[r] = "pending",
         release' = "no" /\ Kind[r] \in {"read", "write"} /\ st = "success"
           => moved[r] = Length[r]
  PROVE  Service!Answer(r)
  <1>1. \A q \in Requests \ {r} : phase'[q] = phase[q] /\ result'[q] = result[q]
    BY Completion
  <1>2. CASE Kind[r] = "ioctl"
    <2>1. phase'[r] = "signalled" /\ result'[r] = result[r]
      BY <1>2 DEF CompleteLastIrp, TypeOK
    <2> QED  BY <1>1, <1>2, <2>1 DEF Service!Answer, Service!Moves
  <1>3. CASE Kind[r] # "ioctl"
    <2>1. phase'[r] = "completed" /\ result'[r].status = st
      BY <1>3, Completion DEF CompleteLastIrp, TypeOK
    <2> QED  BY <1>1, <1>3, <2>1 DEF Service!Answer, Service!Moves
  <1> QED  BY <1>2, <1>3

(* Every step of the disk is a step of the service or leaves it alone.     *)
LEMMA ServiceSimulation ==
  TypeInv /\ Conserved /\ (Orderly => TransferInv) /\ [Next]_vars
    => [Service!ServiceNext]_(Service!serviceVars)
  <1> SUFFICES ASSUME TypeOK, Conserved, release = "no" => TransferInv, [Next]_vars
               PROVE  [Service!ServiceNext]_(Service!serviceVars)
    BY DEF TypeInv, Orderly
  <1>1. ASSUME NEW r \in Requests, Exchange(r)
        PROVE  Service!ServiceNext
    <2>1. Service!Take(r)
      BY <1>1 DEF Exchange, TypeOK, Service!Take, Service!Moves
    <2> QED  BY <1>1, <2>1 DEF Exchange, Service!ServiceNext
  <1>2. ASSUME NEW r \in Requests, DispatchLocal(r)
        PROVE  Service!ServiceNext
    <2>1. \A q \in Requests \ {r} : result'[q] = result[q]
      BY <1>2 DEF DispatchLocal, TypeOK
    <2>2. Service!AnswerAtOnce(r)
      BY <1>2, <2>1 DEF DispatchLocal, TypeOK, Service!AnswerAtOnce, Service!Moves
    <2> QED  BY <1>2, <2>2 DEF DispatchLocal, Service!ServiceNext
  <1>3. ASSUME NEW r \in Requests, FinishSynch(r)
        PROVE  Service!ServiceNext
    <2>1. \A q \in Requests \ {r} : result'[q] = result[q]
      BY <1>3 DEF FinishSynch, TypeOK
    <2>2. Service!WakeUp(r)
      BY <1>3, <2>1 DEF FinishSynch, TypeOK, Service!WakeUp, Service!Moves
    <2> QED  BY <1>3, <2>2 DEF FinishSynch, Service!ServiceNext
  <1>4. ASSUME ReturnResult
        PROVE  [Service!ServiceNext]_(Service!serviceVars)
    <2>1. /\ last \in Requests /\ reply.status \in Statuses /\ UNCHANGED <<moved, release>>
          /\ thd = "call" /\ reply.kind # "nop" /\ reply.proc \in Nat
          /\ processed[last] \in Nat /\ Length[last] \in Nat
      BY <1>4, DiskAssumption DEF ReturnResult, TypeOK
    <2>2. phase[last] = "pending"
      BY <2>1, LastIsPending
    <2>3. CASE /\ \/ processed[last] + reply.proc >= Length[last]
                  \/ Kind[last] = "ioctl"
                  \/ reply.status # "success"
               /\ CompleteLastIrp(last, reply.status)
      <3>1. release = "no" /\ Kind[last] \in {"read", "write"} /\ reply.status = "success"
              => moved[last] = Length[last]
        BY <2>1, <2>3 DEF TransferInv, Progress, Transfers
      <3>2. Service!Answer(last)
        BY <2>1, <2>2, <2>3, <3>1, CompletionAnswers
      <3> QED  BY <2>1, <3>2 DEF Service!ServiceNext
    <2>4. CASE UNCHANGED <<phase, result>>
      BY <2>1, <2>4 DEF Service!serviceVars
    <2> QED  BY <1>4, <2>3, <2>4 DEF ReturnResult
  <1>5. ASSUME RefuseNext
        PROVE  Service!ServiceNext
    <2>1. /\ Head(queue) \in Requests /\ phase[Head(queue)] = "pending"
          /\ CompleteLastIrp(Head(queue), "no_memory") /\ "no_memory" \in Statuses
      BY <1>5, HeadIsPending DEF RefuseNext, Statuses
    <2>2. Service!Answer(Head(queue))
      BY <2>1, CompletionAnswers
    <2> QED  BY <1>5, <2>1, <2>2 DEF RefuseNext, Service!ServiceNext
  <1>6. ASSUME NEW st \in {"success", "error"}, NEW proc \in 0 .. BufSize, Serve(st, proc)
        PROVE  [Service!ServiceNext]_(Service!serviceVars)
    <2>1. UNCHANGED <<phase, result, release>>
      BY <1>6 DEF Serve, kernelVars
    <2>2. CASE st = "success" /\ last # NULL
      <3>1. last \in Requests /\ response.size \in Nat /\ moved[last] \in Nat
        BY <2>2 DEF TypeOK
      <3>2. /\ moved'[last] = moved[last] + response.size
            /\ \A q \in Requests \ {last} : moved'[q] = moved[q]
        BY <1>6, <2>2, <3>1 DEF Serve, TypeOK
      <3>3. release = "no" => moved[last] + response.size <= Length[last]
        BY <1>6, <2>2 DEF Serve, TransferInv, Progress
      <3>4. Service!Copy(last)
        BY <3>1, <3>2, <3>3, LastIsPending DEF Service!Copy
      <3> QED  BY <2>1, <3>1, <3>4 DEF Service!ServiceNext
    <2>3. CASE ~ (st = "success" /\ last # NULL)
      BY <1>6, <2>1, <2>3 DEF Serve, Service!serviceVars
    <2> QED  BY <2>2, <2>3
  <1>7. ASSUME ReleaseLast
        PROVE  Service!ServiceNext
    <2>1. release = "no" /\ release' = "drain" /\ UNCHANGED moved
      BY <1>7 DEF ReleaseLast
    <2>2. CASE last = NULL
      <3>1. Service!Close
        BY <1>7, <2>1, <2>2 DEF ReleaseLast, Service!Close
      <3> QED  BY <2>1, <3>1 DEF Service!ServiceNext
    <2>3. CASE last # NULL
      <3>1. last \in Requests
        BY <2>3 DEF TypeOK
      <3>2. Service!Answer(last)
        BY <1>7, <2>1, <2>3, <3>1, StatusesRead, LastIsPending, CompletionAnswers DEF ReleaseLast
      <3>3. Service!Close
        BY <2>1, <3>1, <3>2 DEF Service!Close
      <3> QED  BY <2>1, <3>3 DEF Service!ServiceNext
    <2> QED  BY <2>2, <2>3
  <1>8. ASSUME ReleaseQueued
        PROVE  Service!ServiceNext
    <2>1. release = "drain" /\ UNCHANGED <<release, moved>> /\ Head(queue) \in Requests
      BY <1>8, HeadIsPending DEF ReleaseQueued
    <2>2. Service!Answer(Head(queue))
      BY <1>8, <2>1, StatusesRead, HeadIsPending, CompletionAnswers DEF ReleaseQueued
    <2> QED  BY <2>1, <2>2 DEF Service!ServiceNext
  <1>9. ASSUME \/ Connect \/ SkipResult \/ ContinueLast \/ FetchNext \/ EndThread
               \/ ReleaseDone \/ UNCHANGED vars
        PROVE  UNCHANGED Service!serviceVars
    BY <1>9 DEF Connect, SkipResult, ContinueLast, FetchNext, EndThread, ReleaseDone,
                vars, kernelVars, Service!serviceVars
  <1> QED
    BY <1>1, <1>2, <1>3, <1>4, <1>5, <1>6, <1>7, <1>8, <1>9
    DEF Next, ExchangeThread, Unmount

(* The disk keeps its promise to the applications, whatever the order in   *)
(* which dispatch routines, exchange thread and Release run, even if the   *)
(* thread outlives Disconnect's wait: an IRP is answered once, its data is *)
(* copied only while it waits, and until Release runs a read or write      *)
(* answered with success has been copied in full.                          *)
THEOREM DiskImplementsService == Spec => ImplementsService
  <1>1. Init => Service!ServiceInit
    BY DEF Init, Service!ServiceInit
  <1> QED
    BY <1>1, ServiceSimulation, DiskInvariant, PTL
    DEF Spec, ImplementsService, Service!ServiceSpec
=============================================================================
