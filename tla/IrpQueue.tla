------------------------------ MODULE IrpQueue ------------------------------
(***************************************************************************)
(* The bounded queue of exchange requests between the dispatch routines of *)
(* a mounted disk and its exchange thread: class CIrpQueue of the driver.  *)
(*                                                                         *)
(* push and pop are translated statement by statement, because what can go *)
(* wrong here sits between the statements: m_size is changed under a spin  *)
(* lock BEFORE the ring is touched under a fast mutex, and one auto-reset  *)
(* event is shared by the threads that wait for room and the threads that  *)
(* wait for a request.                                                     *)
(*                                                                         *)
(* stored and popped are histories: what push has written and what pop has *)
(* read, in order.  They and raced exist for the properties only; no guard *)
(* reads them.                                                             *)
(***************************************************************************)
EXTENDS Integers, Sequences, FiniteSets

CONSTANTS
  Producers,   \* threads inside CMountedDisk::AsyncExchange / SynchExchange
  Consumers,   \* threads inside CMountedDisk::RequestExchange / Release
  Requests,    \* the IRP_EXCHANGE_REQUEST objects, each pushed once
  Capacity,    \* MAX_IRP_QUEUE
  NULL,        \* the value RtlFillMemory leaves in an unwritten slot
  NoThread     \* nobody holds m_mutex

ASSUME QueueAssumption ==
  /\ Capacity \in Nat \ {0}
  /\ Producers \cap Consumers = {}
  /\ IsFiniteSet(Producers) /\ IsFiniteSet(Consumers)
  /\ NULL \notin Requests
  /\ NoThread \notin Producers \cup Consumers

VARIABLES
  queue, head, tail, size,  \* m_queue, m_head, m_tail, m_size
  signaled,                 \* the state of m_event
  mutex,                    \* the thread that holds m_mutex
  pc,                       \* where each thread stands in push or pop
  irp,                      \* the argument of push, the result of pop
  stored, popped, raced     \* history

vars == <<queue, head, tail, size, signaled, mutex, pc, irp, stored, popped, raced>>

Threads == Producers \cup Consumers
Slots   == 0 .. Capacity - 1

(* "try": about to take the spin lock; "wait": found full or empty, not yet *)
(* in KeWaitForSingleObject; "blocked": inside it; "lock": size reserved,   *)
(* m_mutex wanted; "slot": holds m_mutex; "advance": slot read or written,  *)
(* index not yet moved; "notify": mutex released, KeSetEvent not yet called *)
Places == {"idle", "try", "wait", "blocked", "lock", "slot", "advance", "notify"}

GoTo(t, place) == pc' = [pc EXCEPT ![t] = place]

Advanced(i) == IF i + 1 >= Capacity THEN 0 ELSE i + 1

Init ==
  /\ queue = [i \in Slots |-> NULL]
  /\ head = 0 /\ tail = 0 /\ size = 0
  /\ signaled = FALSE
  /\ mutex = NoThread
  /\ pc = [t \in Threads |-> "idle"]
  /\ irp = [t \in Threads |-> NULL]
  /\ stored = <<>> /\ popped = <<>> /\ raced = FALSE
-----------------------------------------------------------------------------
(* A request that no thread has handed to push yet.                        *)
Fresh(r) ==
  /\ \A i \in 1 .. Len(stored) : stored[i] # r
  /\ \A p \in Producers : irp[p] # r

Push(p, r) ==
  /\ pc[p] = "idle" /\ Fresh(r)
  /\ GoTo(p, "try")
  /\ irp' = [irp EXCEPT ![p] = r]
  /\ UNCHANGED <<queue, head, tail, size, signaled, mutex, stored, popped, raced>>

Pop(c) ==
  /\ pc[c] = "idle"
  /\ GoTo(c, "try")
  /\ irp' = [irp EXCEPT ![c] = NULL]
  /\ UNCHANGED <<queue, head, tail, size, signaled, mutex, stored, popped, raced>>

IncreaseIfNotFull(p) ==
  /\ pc[p] = "try"
  /\ IF size < Capacity
     THEN size' = size + 1 /\ GoTo(p, "lock")
     ELSE UNCHANGED size /\ GoTo(p, "wait")
  /\ UNCHANGED <<queue, head, tail, signaled, mutex, irp, stored, popped, raced>>

(* Mutants: pop does not count itself; pop does not look at m_size.        *)
EnterIfNotEmpty(c) ==
  /\ pc[c] = "try"
  /\ GoTo(c, IF size > 0 THEN "lock" ELSE "wait")
  /\ UNCHANGED <<queue, head, tail, size, signaled, mutex, irp, stored, popped, raced>>

DecreaseAlways(c) ==
  /\ pc[c] = "try"
  /\ size' = size - 1 /\ GoTo(c, "lock")
  /\ UNCHANGED <<queue, head, tail, signaled, mutex, irp, stored, popped, raced>>

DecreaseIfNotEmpty(c) ==
  /\ pc[c] = "try"
  /\ IF size > 0
     THEN size' = size - 1 /\ GoTo(c, "lock")
     ELSE UNCHANGED size /\ GoTo(c, "wait")
  /\ UNCHANGED <<queue, head, tail, signaled, mutex, irp, stored, popped, raced>>

(* KeWaitForSingleObject on a synchronization event: a set event is        *)
(* consumed at once, otherwise the thread blocks.                          *)
WaitEvent(t) ==
  /\ pc[t] = "wait"
  /\ signaled' = FALSE
  /\ GoTo(t, IF signaled THEN "try" ELSE "blocked")
  /\ UNCHANGED <<queue, head, tail, size, mutex, irp, stored, popped, raced>>

(* Mutant: the ring is touched without the mutex.                          *)
AcquireNothing(t) ==
  /\ pc[t] = "lock"
  /\ mutex' = t
  /\ GoTo(t, "slot")
  /\ UNCHANGED <<queue, head, tail, size, signaled, irp, stored, popped, raced>>

AcquireMutex(t) ==
  /\ pc[t] = "lock" /\ mutex = NoThread
  /\ mutex' = t
  /\ GoTo(t, "slot")
  /\ UNCHANGED <<queue, head, tail, size, signaled, irp, stored, popped, raced>>

(* The request overwrites a slot that pop has not read when Capacity       *)
(* requests are already stored and unread.                                 *)
WriteSlot(p) ==
  /\ pc[p] = "slot"
  /\ queue' = [queue EXCEPT ![tail] = irp[p]]
  /\ stored' = Append(stored, irp[p])
  /\ raced' = (raced \/ Len(stored) - Len(popped) >= Capacity)
  /\ GoTo(p, "advance")
  /\ UNCHANGED <<head, tail, size, signaled, mutex, irp, popped>>

AdvanceTail(p) ==
  /\ pc[p] = "advance"
  /\ tail' = Advanced(tail)
  /\ mutex' = NoThread
  /\ GoTo(p, "notify")
  /\ UNCHANGED <<queue, head, size, signaled, irp, stored, popped, raced>>

(* Mutant: the head moves before the slot is read.                         *)
ReadNextSlot(c) ==
  /\ pc[c] = "slot"
  /\ irp' = [irp EXCEPT ![c] = queue[Advanced(head)]]
  /\ popped' = Append(popped, queue[Advanced(head)])
  /\ raced' = (raced \/ Len(popped) >= Len(stored))
  /\ GoTo(c, "advance")
  /\ UNCHANGED <<queue, head, tail, size, signaled, mutex, stored>>

(* The slot read is one that push has not written yet when everything      *)
(* stored has already been popped.                                         *)
ReadSlot(c) ==
  /\ pc[c] = "slot"
  /\ irp' = [irp EXCEPT ![c] = queue[head]]
  /\ popped' = Append(popped, queue[head])
  /\ raced' = (raced \/ Len(popped) >= Len(stored))
  /\ GoTo(c, "advance")
  /\ UNCHANGED <<queue, head, tail, size, signaled, mutex, stored>>

AdvanceHead(c) ==
  /\ pc[c] = "advance"
  /\ head' = Advanced(head)
  /\ mutex' = NoThread
  /\ GoTo(c, "notify")
  /\ UNCHANGED <<queue, tail, size, signaled, irp, stored, popped, raced>>

(* Mutant: the event is left alone.                                        *)
ForgetEvent(t) ==
  /\ pc[t] = "notify"
  /\ GoTo(t, "idle")
  /\ UNCHANGED <<queue, head, tail, size, signaled, mutex, irp, stored, popped, raced>>

(* KeSetEvent: one blocked thread is released and the event stays reset;   *)
(* with nobody blocked the event stays set.  Which thread is the kernel's  *)
(* choice.                                                                 *)
SetEvent(t) ==
  /\ pc[t] = "notify"
  /\ \/ \E b \in Threads :
          /\ pc[b] = "blocked"
          /\ pc' = [pc EXCEPT ![t] = "idle", ![b] = "try"]
          /\ UNCHANGED signaled
     \/ /\ \A b \in Threads : pc[b] # "blocked"
        /\ signaled' = TRUE
        /\ GoTo(t, "idle")
  /\ UNCHANGED <<queue, head, tail, size, mutex, irp, stored, popped, raced>>
-----------------------------------------------------------------------------
Continue(t) == WaitEvent(t) \/ AcquireMutex(t) \/ SetEvent(t)

ProducerStep(p) == IncreaseIfNotFull(p) \/ WriteSlot(p) \/ AdvanceTail(p) \/ Continue(p)

ConsumerStep(c) == DecreaseIfNotEmpty(c) \/ ReadSlot(c) \/ AdvanceHead(c) \/ Continue(c)

Next ==
  \/ \E p \in Producers : (\E r \in Requests : Push(p, r)) \/ ProducerStep(p)
  \/ \E c \in Consumers : Pop(c) \/ ConsumerStep(c)

Spec == Init /\ [][Next]_vars

(* The kernel schedules every runnable thread, and the exchange thread     *)
(* comes back for the next request.  Nothing obliges anybody to push.      *)
Fairness ==
  /\ \A p \in Producers : WF_vars(ProducerStep(p))
  /\ \A c \in Consumers : WF_vars(Pop(c) \/ ConsumerStep(c))

FairSpec == Spec /\ Fairness
-----------------------------------------------------------------------------
(* Threads that have changed m_size and not yet touched the ring.          *)
InPush == {p \in Producers : pc[p] \in {"lock", "slot"}}
InPop  == {c \in Consumers : pc[c] \in {"lock", "slot"}}

(* Every variable has its type: the ring indices stay inside m_queue and   *)
(* m_size inside 0 .. MAX_IRP_QUEUE.                                       *)
TypeOK ==
  /\ queue \in [Slots -> Requests \cup {NULL}]
  /\ head \in Slots /\ tail \in Slots /\ size \in 0 .. Capacity
  /\ signaled \in BOOLEAN /\ raced \in BOOLEAN
  /\ mutex \in Threads \cup {NoThread}
  /\ pc \in [Threads -> Places]
  /\ irp \in [Threads -> Requests \cup {NULL}]
  /\ stored \in Seq(Requests) /\ popped \in Seq(Requests \cup {NULL})

(* m_size is not the number of stored requests: it runs ahead by the       *)
(* pushes, and behind by the pops, that have counted themselves but not    *)
(* touched the ring (push 105-112, pop 124-130).  It is never off by more. *)
SizeAccounts ==
  size + Cardinality(InPop) = (Len(stored) - Len(popped)) + Cardinality(InPush)

(* Whoever is between taking and releasing m_mutex is alone there, and the *)
(* two indices count the slots written and read, modulo MAX_IRP_QUEUE, so  *)
(* that the wrap-around of push 113-114 and pop 131-132 loses no slot.     *)
RingIndices ==
  /\ \A t \in Threads : pc[t] \in {"slot", "advance"} <=> mutex = t
  /\ \A p \in Producers : pc[p] = "advance" => Advanced(tail) = Len(stored) % Capacity
  /\ \A c \in Consumers : pc[c] = "advance" => Advanced(head) = Len(popped) % Capacity
  /\ (\A p \in Producers : pc[p] # "advance") => tail = Len(stored) % Capacity
  /\ (\A c \in Consumers : pc[c] # "advance") => head = Len(popped) % Capacity

(* A request is pushed once: what is stored or about to be stored is       *)
(* pairwise different.                                                     *)
PushedOnce ==
  /\ \A i, j \in 1 .. Len(stored) : stored[i] = stored[j] => i = j
  /\ \A p \in Producers : pc[p] \in {"try", "wait", "blocked", "lock", "slot"} =>
       /\ irp[p] \in Requests
       /\ \A i \in 1 .. Len(stored) : stored[i] # irp[p]
       /\ \A q \in Producers : irp[q] = irp[p] => q = p

(* Until a race has happened, pop has returned exactly the requests pushed *)
(* first, in order, and every request pushed and not popped is in the slot *)
(* where pop will look for it.                                             *)
FifoUnlessRaced ==
  ~ raced =>
    /\ Len(popped) <= Len(stored) /\ Len(stored) - Len(popped) <= Capacity
    /\ \A i \in 1 .. Len(popped) : popped[i] = stored[i]
    /\ \A i \in Len(popped) + 1 .. Len(stored) : queue[(i - 1) % Capacity] = stored[i]

(* The queue goes wrong only while a push and a pop overlap, each between  *)
(* its change of m_size and its access to the ring.                        *)
RaceNeedsOverlap == [][raced' /\ ~ raced => InPush # {} /\ InPop # {}]_vars

(* The statement-level queue implements RequestFifo: what was stored went  *)
(* in, what was popped came out, and raced says when the pipe broke.       *)
Fifo == INSTANCE RequestFifo
  WITH Items <- Requests, Room <- Capacity, Nothing <- NULL,
       accepted <- stored, delivered <- popped, broken <- raced

ImplementsFifo == Fifo!FifoSpec

(* Requests that some push has taken up and no pop has counted off.        *)
Outstanding ==
  Len(stored) - Len(popped)
    + Cardinality({p \in Producers : pc[p] \in {"try", "wait", "blocked", "lock", "slot"}})

(* While there are never more outstanding requests than slots, every       *)
(* stored request is matched by a pop sooner or later: no wake-up is lost  *)
(* although pushes and pops share one auto-reset event.                    *)
StoredIsPopped ==
  [](Outstanding <= Capacity) =>
    \A n \in 1 .. Cardinality(Requests) : Len(stored) >= n ~> Len(popped) >= n

(* ASSERT(m_last_irp) of RequestExchange: what pop returns is a request,   *)
(* never the NULL of a slot that push has reserved and not written.        *)
PopReturnsRequest == \A c \in Consumers : pc[c] = "notify" => irp[c] # NULL

(* "m_event: used to give notice when the content of the queue changes":   *)
(* when every thread is idle or blocked, no blocked thread has what it     *)
(* waits for.                                                              *)
ChangeIsNotified ==
  (\A t \in Threads : pc[t] \in {"idle", "blocked"}) =>
    /\ \A p \in Producers : pc[p] = "blocked" => size = Capacity
    /\ \A c \in Consumers : pc[c] = "blocked" => size = 0
=============================================================================
