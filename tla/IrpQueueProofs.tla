--------------------------- MODULE IrpQueueProofs ---------------------------
(***************************************************************************)
(* Proofs about IrpQueue, for every number of threads, requests and slots. *)
(*                                                                         *)
(* The inductive invariant QueueInv joins the type invariant with four     *)
(* facts that need each other: the indices name the right slot only if     *)
(* m_mutex excludes (RingIndices); m_size guards the ring only through the *)
(* accounting of reserved and touched slots (SizeAccounts); a slot is      *)
(* overwritten only by a request that is new (PushedOnce); and the         *)
(* contents of the slots are right until a race (FifoUnlessRaced).         *)
(***************************************************************************)
EXTENDS IrpQueue, FiniteSetTheorems, SequenceTheorems, TLAPS

QueueInv ==
  /\ TypeOK
  /\ SizeAccounts
  /\ RingIndices
  /\ PushedOnce
  /\ FifoUnlessRaced

-----------------------------------------------------------------------------
(* Arithmetic of ring indices.                                             *)

(* A multiple of C by a positive number is at least C.                     *)
LEMMA MultipleBound ==
  ASSUME NEW C \in Nat \ {0}, NEW d \in Int, d >= 1
  PROVE  C * d >= C
<1>1. C * (d - 1) >= 0
  OBVIOUS
<1>2. C * d = C * (d - 1) + C
  OBVIOUS
<1> QED
  BY <1>1, <1>2

(* Quotient and remainder are unique: whoever writes n as C * q + r with r *)
(* in the range of a ring index has found n % C.                           *)
LEMMA RemainderUnique ==
  ASSUME NEW C \in Nat \ {0}, NEW n \in Nat, NEW q \in Int, NEW r \in 0 .. C - 1,
         n = C * q + r
  PROVE  n % C = r
<1> DEFINE p == n \div C
           s == n % C
<1>1. n = C * p + s /\ p \in Int /\ s \in 0 .. C - 1
  OBVIOUS
<1> HIDE DEF p, s
<1>2. CASE q - p >= 1
  <2>1. C * (q - p) >= C
    BY <1>1, <1>2, MultipleBound
  <2>2. C * (q - p) = C * q - C * p /\ C * p \in Int /\ C * q \in Int
    BY <1>1
  <2> QED
    BY <1>1, <2>1, <2>2
<1>3. CASE p - q >= 1
  <2>1. C * (p - q) >= C
    BY <1>1, <1>3, MultipleBound
  <2>2. C * (p - q) = C * p - C * q /\ C * p \in Int /\ C * q \in Int
    BY <1>1
  <2> QED
    BY <1>1, <2>1, <2>2
<1>4. CASE p = q
  <2>1. C * p = C * q /\ C * p \in Int
    BY <1>1, <1>4
  <2> QED
    BY <1>1, <2>1 DEF s
<1> QED
  BY <1>1, <1>2, <1>3, <1>4

(* push 113-114 and pop 131-132: incrementing an index and wrapping it is  *)
(* counting modulo the number of slots.                                    *)
LEMMA WrapIsModulo ==
  ASSUME NEW C \in Nat \ {0}, NEW n \in Nat
  PROVE  (n + 1) % C = IF (n % C) + 1 >= C THEN 0 ELSE (n % C) + 1
<1> DEFINE q == n \div C
           r == n % C
<1>1. n = C * q + r /\ q \in Int /\ r \in 0 .. C - 1
  OBVIOUS
<1> HIDE DEF q, r
<1>2. CASE r + 1 < C
  <2>1. n + 1 = C * q + (r + 1) /\ r + 1 \in 0 .. C - 1
    BY <1>1, <1>2
  <2>2. (n + 1) % C = r + 1
    BY <1>1, <2>1, RemainderUnique
  <2> QED
    BY <1>1, <1>2, <2>2 DEF r
<1>3. CASE r + 1 >= C
  <2>1. C * (q + 1) = C * q + C
    BY <1>1
  <2>2. n + 1 = C * (q + 1) + 0 /\ 0 \in 0 .. C - 1
    BY <1>1, <1>3, <2>1
  <2>3. (n + 1) % C = 0
    BY <1>1, <2>2, RemainderUnique
  <2> QED
    BY <1>1, <1>3, <2>3 DEF r
<1> QED
  BY <1>1, <1>2, <1>3

(* Fewer than C positions apart, two positions are in different slots.     *)
LEMMA SlotsDiffer ==
  ASSUME NEW C \in Nat \ {0}, NEW a \in Nat, NEW b \in Nat, a < b, b < a + C
  PROVE  a % C # b % C
<1> DEFINE p == a \div C
           q == b \div C
           r == a % C
<1>1. a = C * p + r /\ p \in Int /\ r \in 0 .. C - 1
  OBVIOUS
<1>2. SUFFICES ASSUME b % C = r PROVE FALSE
  OBVIOUS
<1>3. b = C * q + r /\ q \in Int
  BY <1>2
<1> HIDE DEF p, q, r
<1>4. C * q - C * p = C * (q - p) /\ C * p \in Int /\ C * q \in Int
  BY <1>1, <1>3
<1>5. CASE q - p >= 1
  <2>1. C * (q - p) >= C
    BY <1>1, <1>3, <1>5, MultipleBound
  <2> QED
    BY <1>1, <1>3, <1>4, <2>1
<1>6. CASE p - q >= 0
  <2>1. C * (p - q) >= 0 /\ C * (q - p) = -(C * (p - q)) /\ C * (p - q) \in Int
    BY <1>1, <1>3, <1>6
  <2> QED
    BY <1>1, <1>3, <1>4, <2>1
<1> QED
  BY <1>1, <1>3, <1>5, <1>6

(* A remainder is a ring index.                                            *)
LEMMA RemainderRange ==
  ASSUME NEW C \in Nat \ {0}, NEW a \in Nat
  PROVE  a % C \in 0 .. C - 1
  OBVIOUS

(* Advanced stays inside the ring.                                         *)
LEMMA AdvancedInRing ==
  ASSUME NEW i \in Slots
  PROVE  Advanced(i) \in Slots
  BY QueueAssumption DEF Slots, Advanced
-----------------------------------------------------------------------------
(* Every step preserves the types; only push's write needs to know that    *)
(* its argument is a request.                                              *)
LEMMA TypeStep == QueueInv /\ [Next]_vars => TypeOK'
<1> SUFFICES ASSUME QueueInv, [Next]_vars PROVE TypeOK'
  OBVIOUS
<1> USE QueueAssumption DEF QueueInv, TypeOK, Threads, Places, GoTo
<1>1. ASSUME NEW p \in Producers, NEW r \in Requests, Push(p, r) PROVE TypeOK'
  BY <1>1 DEF Push
<1>2. ASSUME NEW c \in Consumers, Pop(c) PROVE TypeOK'
  BY <1>2 DEF Pop
<1>3. ASSUME NEW p \in Producers, IncreaseIfNotFull(p) PROVE TypeOK'
  BY <1>3 DEF IncreaseIfNotFull
<1>4. ASSUME NEW c \in Consumers, DecreaseIfNotEmpty(c) PROVE TypeOK'
  BY <1>4 DEF DecreaseIfNotEmpty
<1>5. ASSUME NEW p \in Producers, WriteSlot(p) PROVE TypeOK'
  <2>1. irp[p] \in Requests
    BY <1>5 DEF WriteSlot, PushedOnce
  <2>2. stored' \in Seq(Requests) /\ queue' \in [Slots -> Requests \cup {NULL}]
    BY <1>5, <2>1 DEF WriteSlot
  <2>3. raced' \in BOOLEAN
    BY <1>5 DEF WriteSlot
  <2> QED
    BY <1>5, <2>2, <2>3 DEF WriteSlot
<1>6. ASSUME NEW p \in Producers, AdvanceTail(p) PROVE TypeOK'
  BY <1>6, AdvancedInRing DEF AdvanceTail
<1>7. ASSUME NEW c \in Consumers, ReadSlot(c) PROVE TypeOK'
  <2>1. queue[head] \in Requests \cup {NULL}
    OBVIOUS
  <2>2. popped' \in Seq(Requests \cup {NULL}) /\ irp' \in [Threads -> Requests \cup {NULL}]
    BY <1>7, <2>1 DEF ReadSlot
  <2>3. raced' \in BOOLEAN
    BY <1>7 DEF ReadSlot
  <2> QED
    BY <1>7, <2>2, <2>3 DEF ReadSlot
<1>8. ASSUME NEW c \in Consumers, AdvanceHead(c) PROVE TypeOK'
  BY <1>8, AdvancedInRing DEF AdvanceHead
<1>9. ASSUME NEW t \in Threads, Continue(t) PROVE TypeOK'
  <2>1. CASE WaitEvent(t)
    BY <2>1 DEF WaitEvent
  <2>2. CASE AcquireMutex(t)
    BY <2>2 DEF AcquireMutex
  <2>3. CASE SetEvent(t)
    <3>1. signaled' \in BOOLEAN /\ pc' \in [Threads -> Places]
      BY <2>3 DEF SetEvent
    <3> QED
      BY <2>3, <3>1 DEF SetEvent
  <2> QED
    BY <1>9, <2>1, <2>2, <2>3 DEF Continue
<1>10. CASE UNCHANGED vars
  BY <1>10 DEF vars
<1> QED
  BY <1>1, <1>2, <1>3, <1>4, <1>5, <1>6, <1>7, <1>8, <1>9, <1>10
  DEF Next, ProducerStep, ConsumerStep
-----------------------------------------------------------------------------
(* The windows of push and pop are finite sets; entering or leaving one    *)
(* changes its cardinality by one.                                         *)
LEMMA WindowsFinite ==
  /\ IsFiniteSet(InPush) /\ Cardinality(InPush) \in Nat
  /\ IsFiniteSet(InPop) /\ Cardinality(InPop) \in Nat
<1>1. IsFiniteSet(InPush) /\ IsFiniteSet(InPop)
  BY QueueAssumption, FS_Subset DEF InPush, InPop
<1> QED
  BY <1>1, FS_CardinalityType

LEMMA EnterWindow ==
  ASSUME NEW S, IsFiniteSet(S), NEW x, x \notin S
  PROVE  Cardinality(S \cup {x}) = Cardinality(S) + 1
  BY FS_AddElement

LEMMA LeaveWindow ==
  ASSUME NEW S, IsFiniteSet(S), NEW x \in S
  PROVE  Cardinality(S \ {x}) = Cardinality(S) - 1
  BY FS_RemoveElement

(* Every step keeps the account of reserved and touched slots: the size    *)
(* change of push or pop is balanced by the thread entering its window,    *)
(* the access to the ring by the thread leaving it.                        *)
LEMMA AccountStep == QueueInv /\ [Next]_vars => SizeAccounts'
<1> SUFFICES ASSUME QueueInv, [Next]_vars PROVE SizeAccounts'
  OBVIOUS
<1> USE QueueAssumption, WindowsFinite DEF QueueInv, TypeOK, Threads, GoTo, SizeAccounts
<1>1. ASSUME NEW p \in Producers, NEW r \in Requests, Push(p, r) PROVE SizeAccounts'
  <2>1. InPush' = InPush /\ InPop' = InPop
    BY <1>1 DEF Push, InPush, InPop
  <2> QED
    BY <1>1, <2>1 DEF Push
<1>2. ASSUME NEW c \in Consumers, Pop(c) PROVE SizeAccounts'
  <2>1. InPush' = InPush /\ InPop' = InPop
    BY <1>2 DEF Pop, InPush, InPop
  <2> QED
    BY <1>2, <2>1 DEF Pop
<1>3. ASSUME NEW p \in Producers, IncreaseIfNotFull(p) PROVE SizeAccounts'
  <2>1. CASE size < Capacity
    <3>1. InPush' = InPush \cup {p} /\ InPop' = InPop /\ p \notin InPush
      BY <1>3, <2>1 DEF IncreaseIfNotFull, InPush, InPop
    <3>2. Cardinality(InPush') = Cardinality(InPush) + 1
      BY <3>1, EnterWindow
    <3>3. size' = size + 1 /\ UNCHANGED <<stored, popped>>
      BY <1>3, <2>1 DEF IncreaseIfNotFull
    <3> QED
      BY <3>1, <3>2, <3>3
  <2>2. CASE ~(size < Capacity)
    <3>1. InPush' = InPush /\ InPop' = InPop
      BY <1>3, <2>2 DEF IncreaseIfNotFull, InPush, InPop
    <3> QED
      BY <1>3, <2>2, <3>1 DEF IncreaseIfNotFull
  <2> QED
    BY <2>1, <2>2
<1>4. ASSUME NEW c \in Consumers, DecreaseIfNotEmpty(c) PROVE SizeAccounts'
  <2>1. CASE size > 0
    <3>1. InPop' = InPop \cup {c} /\ InPush' = InPush /\ c \notin InPop
      BY <1>4, <2>1 DEF DecreaseIfNotEmpty, InPush, InPop
    <3>2. Cardinality(InPop') = Cardinality(InPop) + 1
      BY <3>1, EnterWindow
    <3>3. size' = size - 1 /\ UNCHANGED <<stored, popped>>
      BY <1>4, <2>1 DEF DecreaseIfNotEmpty
    <3> QED
      BY <3>1, <3>2, <3>3
  <2>2. CASE ~(size > 0)
    <3>1. InPush' = InPush /\ InPop' = InPop
      BY <1>4, <2>2 DEF DecreaseIfNotEmpty, InPush, InPop
    <3> QED
      BY <1>4, <2>2, <3>1 DEF DecreaseIfNotEmpty
  <2> QED
    BY <2>1, <2>2
<1>5. ASSUME NEW p \in Producers, WriteSlot(p) PROVE SizeAccounts'
  <2>1. InPush' = InPush \ {p} /\ p \in InPush /\ InPop' = InPop
    BY <1>5 DEF WriteSlot, InPush, InPop
  <2>2. Cardinality(InPush') = Cardinality(InPush) - 1
    BY <2>1, LeaveWindow
  <2>3. Len(stored') = Len(stored) + 1
    BY <1>5, TypeStep DEF WriteSlot
  <2> QED
    BY <1>5, <2>1, <2>2, <2>3 DEF WriteSlot
<1>6. ASSUME NEW p \in Producers, AdvanceTail(p) PROVE SizeAccounts'
  <2>1. InPush' = InPush /\ InPop' = InPop
    BY <1>6 DEF AdvanceTail, InPush, InPop
  <2> QED
    BY <1>6, <2>1 DEF AdvanceTail
<1>7. ASSUME NEW c \in Consumers, ReadSlot(c) PROVE SizeAccounts'
  <2>1. InPop' = InPop \ {c} /\ c \in InPop /\ InPush' = InPush
    BY <1>7 DEF ReadSlot, InPush, InPop
  <2>2. Cardinality(InPop') = Cardinality(InPop) - 1
    BY <2>1, LeaveWindow
  <2>3. Len(popped') = Len(popped) + 1
    BY <1>7 DEF ReadSlot
  <2> QED
    BY <1>7, <2>1, <2>2, <2>3 DEF ReadSlot
<1>8. ASSUME NEW c \in Consumers, AdvanceHead(c) PROVE SizeAccounts'
  <2>1. InPush' = InPush /\ InPop' = InPop
    BY <1>8 DEF AdvanceHead, InPush, InPop
  <2> QED
    BY <1>8, <2>1 DEF AdvanceHead
<1>9. ASSUME NEW t \in Threads, Continue(t) PROVE SizeAccounts'
  <2>1. InPush' = InPush /\ InPop' = InPop
    <3>1. CASE WaitEvent(t)
      BY <3>1 DEF WaitEvent, InPush, InPop
    <3>2. CASE AcquireMutex(t)
      BY <3>2 DEF AcquireMutex, InPush, InPop
    <3>3. CASE SetEvent(t)
      BY <3>3 DEF SetEvent, InPush, InPop
    <3> QED
      BY <1>9, <3>1, <3>2, <3>3 DEF Continue
  <2>2. UNCHANGED <<size, stored, popped>>
    BY <1>9 DEF Continue, WaitEvent, AcquireMutex, SetEvent
  <2> QED
    BY <2>1, <2>2
<1>10. CASE UNCHANGED vars
  BY <1>10 DEF vars, InPush, InPop
<1> QED
  BY <1>1, <1>2, <1>3, <1>4, <1>5, <1>6, <1>7, <1>8, <1>9, <1>10
  DEF Next, ProducerStep, ConsumerStep
-----------------------------------------------------------------------------
(* A step that moves no thread into, inside or out of the critical section *)
(* leaves the ring indices right.                                          *)
LEMMA OutsideMutex ==
  ASSUME RingIndices,
         UNCHANGED <<head, tail, mutex, stored, popped>>,
         \A t \in Threads : pc'[t] = pc[t]
                          \/ {pc[t], pc'[t]} \cap {"slot", "advance"} = {}
  PROVE  RingIndices'
<1>1. \A t \in Threads : /\ pc'[t] = "slot" <=> pc[t] = "slot"
                       /\ pc'[t] = "advance" <=> pc[t] = "advance"
  OBVIOUS
<1> QED
  BY <1>1 DEF RingIndices, Threads, Advanced

(* Every step keeps the mutual exclusion of m_mutex, and with it the       *)
(* meaning of m_head and m_tail.                                           *)
LEMMA RingStep == QueueInv /\ [Next]_vars => RingIndices'
<1> SUFFICES ASSUME QueueInv, [Next]_vars PROVE RingIndices'
  OBVIOUS
<1> USE QueueAssumption DEF QueueInv, TypeOK, Threads, GoTo
<1>1. ASSUME NEW p \in Producers, NEW r \in Requests, Push(p, r) PROVE RingIndices'
  BY <1>1, OutsideMutex DEF Push
<1>2. ASSUME NEW c \in Consumers, Pop(c) PROVE RingIndices'
  BY <1>2, OutsideMutex DEF Pop
<1>3. ASSUME NEW p \in Producers, IncreaseIfNotFull(p) PROVE RingIndices'
  <2>1. pc' = [pc EXCEPT ![p] = "lock"] \/ pc' = [pc EXCEPT ![p] = "wait"]
    BY <1>3 DEF IncreaseIfNotFull
  <2> QED
    BY <1>3, <2>1, OutsideMutex DEF IncreaseIfNotFull
<1>4. ASSUME NEW c \in Consumers, DecreaseIfNotEmpty(c) PROVE RingIndices'
  <2>1. pc' = [pc EXCEPT ![c] = "lock"] \/ pc' = [pc EXCEPT ![c] = "wait"]
    BY <1>4 DEF DecreaseIfNotEmpty
  <2> QED
    BY <1>4, <2>1, OutsideMutex DEF DecreaseIfNotEmpty
<1>5. ASSUME NEW p \in Producers, WriteSlot(p) PROVE RingIndices'
  <2>1. mutex = p /\ \A t \in Threads : pc[t] \in {"slot", "advance"} => t = p
    BY <1>5 DEF WriteSlot, RingIndices
  <2>2. tail = Len(stored) % Capacity
    BY <1>5, <2>1 DEF WriteSlot, RingIndices
  <2>3. Len(stored') = Len(stored) + 1 /\ Len(stored) \in Nat
    BY <1>5, TypeStep DEF WriteSlot
  <2>4. Advanced(tail) = Len(stored') % Capacity
    BY <2>2, <2>3, WrapIsModulo DEF Advanced
  <2>5. head = Len(popped) % Capacity
    BY <1>5, <2>1 DEF WriteSlot, RingIndices
  <2>6. \A t \in Threads : pc'[t] = IF t = p THEN "advance" ELSE pc[t]
    BY <1>5 DEF WriteSlot
  <2>7. UNCHANGED <<head, tail, mutex, popped>>
    BY <1>5 DEF WriteSlot
  <2> QED
    BY <1>5, <2>1, <2>4, <2>5, <2>6, <2>7 DEF RingIndices, Advanced
<1>6. ASSUME NEW p \in Producers, AdvanceTail(p) PROVE RingIndices'
  <2>1. mutex = p /\ \A t \in Threads : pc[t] \in {"slot", "advance"} => t = p
    BY <1>6 DEF AdvanceTail, RingIndices
  <2>2. tail' = Len(stored) % Capacity
    BY <1>6 DEF AdvanceTail, RingIndices
  <2>3. head = Len(popped) % Capacity
    BY <1>6, <2>1 DEF AdvanceTail, RingIndices
  <2>4. \A t \in Threads : pc'[t] = IF t = p THEN "notify" ELSE pc[t]
    BY <1>6 DEF AdvanceTail
  <2>5. mutex' = NoThread /\ UNCHANGED <<head, stored, popped>>
    BY <1>6 DEF AdvanceTail
  <2> QED
    BY <1>6, <2>1, <2>2, <2>3, <2>4, <2>5 DEF RingIndices
<1>7. ASSUME NEW c \in Consumers, ReadSlot(c) PROVE RingIndices'
  <2>1. mutex = c /\ \A t \in Threads : pc[t] \in {"slot", "advance"} => t = c
    BY <1>7 DEF ReadSlot, RingIndices
  <2>2. head = Len(popped) % Capacity
    BY <1>7, <2>1 DEF ReadSlot, RingIndices
  <2>3. Len(popped') = Len(popped) + 1 /\ Len(popped) \in Nat
    BY <1>7 DEF ReadSlot
  <2>4. Advanced(head) = Len(popped') % Capacity
    BY <2>2, <2>3, WrapIsModulo DEF Advanced
  <2>5. tail = Len(stored) % Capacity
    BY <1>7, <2>1 DEF ReadSlot, RingIndices
  <2>6. \A t \in Threads : pc'[t] = IF t = c THEN "advance" ELSE pc[t]
    BY <1>7 DEF ReadSlot
  <2>7. UNCHANGED <<head, tail, mutex, stored>>
    BY <1>7 DEF ReadSlot
  <2> QED
    BY <1>7, <2>1, <2>4, <2>5, <2>6, <2>7 DEF RingIndices, Advanced
<1>8. ASSUME NEW c \in Consumers, AdvanceHead(c) PROVE RingIndices'
  <2>1. mutex = c /\ \A t \in Threads : pc[t] \in {"slot", "advance"} => t = c
    BY <1>8 DEF AdvanceHead, RingIndices
  <2>2. head' = Len(popped) % Capacity
    BY <1>8 DEF AdvanceHead, RingIndices
  <2>3. tail = Len(stored) % Capacity
    BY <1>8, <2>1 DEF AdvanceHead, RingIndices
  <2>4. \A t \in Threads : pc'[t] = IF t = c THEN "notify" ELSE pc[t]
    BY <1>8 DEF AdvanceHead
  <2>5. mutex' = NoThread /\ UNCHANGED <<tail, stored, popped>>
    BY <1>8 DEF AdvanceHead
  <2> QED
    BY <1>8, <2>1, <2>2, <2>3, <2>4, <2>5 DEF RingIndices
<1>9. ASSUME NEW t \in Threads, Continue(t) PROVE RingIndices'
  <2>1. CASE WaitEvent(t)
    <3>1. pc' = [pc EXCEPT ![t] = "try"] \/ pc' = [pc EXCEPT ![t] = "blocked"]
      BY <2>1 DEF WaitEvent
    <3> QED
      BY <2>1, <3>1, OutsideMutex DEF WaitEvent
  <2>2. CASE AcquireMutex(t)
    <3>1. \A u \in Threads : pc[u] \notin {"slot", "advance"}
      BY <2>2 DEF AcquireMutex, RingIndices
    <3>2. \A u \in Threads : pc'[u] = IF u = t THEN "slot" ELSE pc[u]
      BY <2>2 DEF AcquireMutex
    <3>3. mutex' = t /\ UNCHANGED <<head, tail, stored, popped>>
      BY <2>2 DEF AcquireMutex
    <3> QED
      BY <3>1, <3>2, <3>3 DEF RingIndices
  <2>3. CASE SetEvent(t)
    <3>1. \A u \in Threads : pc'[u] = pc[u] \/ (pc[u] \in {"notify", "blocked"} /\ pc'[u] \in {"idle", "try"})
      BY <2>3 DEF SetEvent
    <3> QED
      BY <2>3, <3>1, OutsideMutex DEF SetEvent
  <2> QED
    BY <1>9, <2>1, <2>2, <2>3 DEF Continue
<1>10. CASE UNCHANGED vars
  BY <1>10, OutsideMutex DEF vars
<1> QED
  BY <1>1, <1>2, <1>3, <1>4, <1>5, <1>6, <1>7, <1>8, <1>9, <1>10
  DEF Next, ProducerStep, ConsumerStep
-----------------------------------------------------------------------------
(* A producer that moves on inside push without storing keeps its request  *)
(* to itself.                                                              *)
LEMMA SameArguments ==
  ASSUME PushedOnce,
         UNCHANGED <<stored, irp>>,
         \A p \in Producers :
           pc'[p] \in {"try", "wait", "blocked", "lock", "slot"}
             => pc[p] \in {"try", "wait", "blocked", "lock", "slot"}
  PROVE  PushedOnce'
  BY DEF PushedOnce

(* Every step keeps stored and pending requests pairwise different.        *)
LEMMA PushedOnceStep == QueueInv /\ [Next]_vars => PushedOnce'
<1> SUFFICES ASSUME QueueInv, [Next]_vars PROVE PushedOnce'
  OBVIOUS
<1> USE QueueAssumption DEF QueueInv, TypeOK, Threads, GoTo
<1>1. ASSUME NEW p \in Producers, NEW r \in Requests, Push(p, r) PROVE PushedOnce'
  BY <1>1 DEF Push, PushedOnce, Fresh
<1>2. ASSUME NEW c \in Consumers, Pop(c) PROVE PushedOnce'
  BY <1>2 DEF Pop, PushedOnce
<1>3. ASSUME NEW p \in Producers, IncreaseIfNotFull(p) PROVE PushedOnce'
  BY <1>3, SameArguments DEF IncreaseIfNotFull
<1>4. ASSUME NEW c \in Consumers, DecreaseIfNotEmpty(c) PROVE PushedOnce'
  BY <1>4, SameArguments DEF DecreaseIfNotEmpty
<1>5. ASSUME NEW p \in Producers, WriteSlot(p) PROVE PushedOnce'
  <2>1. irp[p] \in Requests /\ \A i \in 1 .. Len(stored) : stored[i] # irp[p]
    BY <1>5 DEF WriteSlot, PushedOnce
  <2>2. /\ Len(stored') = Len(stored) + 1
        /\ \A i \in 1 .. Len(stored) : stored'[i] = stored[i]
        /\ stored'[Len(stored) + 1] = irp[p]
    BY <1>5, <2>1 DEF WriteSlot
  <2>3. \A i, j \in 1 .. Len(stored') : stored'[i] = stored'[j] => i = j
    BY <2>1, <2>2 DEF PushedOnce
  <2>4. ASSUME NEW q \in Producers,
               pc'[q] \in {"try", "wait", "blocked", "lock", "slot"}
        PROVE  /\ irp'[q] \in Requests
               /\ \A i \in 1 .. Len(stored') : stored'[i] # irp'[q]
               /\ \A o \in Producers : irp'[o] = irp'[q] => o = q
    <3>1. q # p /\ pc[q] = pc'[q] /\ irp' = irp
      BY <1>5, <2>4 DEF WriteSlot
    <3>2. irp[q] # irp[p]
      BY <2>4, <3>1 DEF PushedOnce
    <3> QED
      BY <2>2, <2>4, <3>1, <3>2 DEF PushedOnce
  <2> QED
    BY <2>3, <2>4 DEF PushedOnce
<1>6. ASSUME NEW p \in Producers, AdvanceTail(p) PROVE PushedOnce'
  BY <1>6, SameArguments DEF AdvanceTail
<1>7. ASSUME NEW c \in Consumers, ReadSlot(c) PROVE PushedOnce'
  BY <1>7 DEF ReadSlot, PushedOnce
<1>8. ASSUME NEW c \in Consumers, AdvanceHead(c) PROVE PushedOnce'
  BY <1>8, SameArguments DEF AdvanceHead
<1>9. ASSUME NEW t \in Threads, Continue(t) PROVE PushedOnce'
  <2>1. CASE WaitEvent(t)
    BY <2>1, SameArguments DEF WaitEvent
  <2>2. CASE AcquireMutex(t)
    BY <2>2, SameArguments DEF AcquireMutex
  <2>3. CASE SetEvent(t)
    BY <2>3, SameArguments DEF SetEvent
  <2> QED
    BY <1>9, <2>1, <2>2, <2>3 DEF Continue
<1>10. CASE UNCHANGED vars
  BY <1>10, SameArguments DEF vars
<1> QED
  BY <1>1, <1>2, <1>3, <1>4, <1>5, <1>6, <1>7, <1>8, <1>9, <1>10
  DEF Next, ProducerStep, ConsumerStep

(* Every step keeps the order until a race: a push that finds room writes  *)
(* a slot no unread request is in, a pop that finds a stored request reads *)
(* the oldest one.                                                         *)
LEMMA FifoStep == QueueInv /\ [Next]_vars => FifoUnlessRaced'
<1> SUFFICES ASSUME QueueInv, [Next]_vars, ~ raced' PROVE FifoUnlessRaced'
  BY DEF FifoUnlessRaced
<1> USE QueueAssumption DEF QueueInv, TypeOK
<1>1. CASE UNCHANGED <<queue, stored, popped, raced>>
  BY <1>1 DEF FifoUnlessRaced
<1>2. ASSUME NEW p \in Producers, WriteSlot(p) PROVE FifoUnlessRaced'
  <2>1. ~ raced /\ Len(stored) - Len(popped) < Capacity
    <3>1. ~ raced /\ ~ (Len(stored) - Len(popped) >= Capacity)
      BY <1>2, Zenon DEF WriteSlot
    <3> QED
      BY <3>1
  <2>2. tail = Len(stored) % Capacity
    BY <1>2 DEF WriteSlot, RingIndices, Threads
  <2>3. irp[p] \in Requests
    BY <1>2 DEF WriteSlot, PushedOnce
  <2>4. /\ Len(stored') = Len(stored) + 1
        /\ \A i \in 1 .. Len(stored) : stored'[i] = stored[i]
        /\ stored'[Len(stored) + 1] = irp[p]
        /\ popped' = popped
    BY <1>2, <2>3 DEF WriteSlot
  <2>5. ASSUME NEW i \in Len(popped) + 1 .. Len(stored')
        PROVE  queue'[(i - 1) % Capacity] = stored'[i]
    <3>1. i - 1 \in Nat /\ Len(stored) \in Nat /\ (i - 1) % Capacity \in Slots
      <4>1. i - 1 \in Nat /\ Len(stored) \in Nat
        BY <2>4, <2>5
      <4> QED
        BY <4>1, RemainderRange DEF Slots
    <3>2. CASE i = Len(stored) + 1
      BY <1>2, <2>2, <2>4, <3>1, <3>2 DEF WriteSlot
    <3>3. CASE i # Len(stored) + 1
      <4>1. i - 1 < Len(stored) /\ Len(stored) < (i - 1) + Capacity
        BY <2>1, <2>4, <3>3
      <4>2. (i - 1) % Capacity # tail
        BY <2>2, <3>1, <4>1, SlotsDiffer
      <4>3. queue[(i - 1) % Capacity] = stored[i]
        BY <2>1, <2>4, <3>3 DEF FifoUnlessRaced
      <4> QED
        BY <1>2, <2>4, <3>1, <3>3, <4>2, <4>3 DEF WriteSlot
    <3> QED
      BY <3>2, <3>3
  <2> QED
    BY <2>1, <2>4, <2>5 DEF FifoUnlessRaced
<1>3. ASSUME NEW c \in Consumers, ReadSlot(c) PROVE FifoUnlessRaced'
  <2>1. ~ raced /\ Len(popped) < Len(stored)
    <3>1. ~ raced /\ ~ (Len(popped) >= Len(stored))
      BY <1>3, Zenon DEF ReadSlot
    <3> QED
      BY <3>1
  <2>2. head = Len(popped) % Capacity
    BY <1>3 DEF ReadSlot, RingIndices, Threads
  <2>3. queue[head] = stored[Len(popped) + 1]
    <3>1. /\ Len(popped) + 1 \in Len(popped) + 1 .. Len(stored)
          /\ (Len(popped) + 1) - 1 = Len(popped)
      BY <2>1
    <3> QED
      BY <2>1, <2>2, <3>1 DEF FifoUnlessRaced
  <2>4. /\ Len(popped') = Len(popped) + 1
        /\ \A i \in 1 .. Len(popped) : popped'[i] = popped[i]
        /\ popped'[Len(popped) + 1] = queue[head]
        /\ UNCHANGED <<queue, stored>>
    BY <1>3 DEF ReadSlot
  <2> QED
    BY <2>1, <2>3, <2>4 DEF FifoUnlessRaced
<1> QED
  BY <1>1, <1>2, <1>3
  DEF Next, ProducerStep, ConsumerStep, Continue, Push, Pop, IncreaseIfNotFull,
      DecreaseIfNotEmpty, AdvanceTail, AdvanceHead, WaitEvent, AcquireMutex, SetEvent, vars
-----------------------------------------------------------------------------
(* The constructor and Initialize establish the invariant.                 *)
LEMMA InitInv == Init => QueueInv
<1> SUFFICES ASSUME Init PROVE QueueInv
  OBVIOUS
<1> USE QueueAssumption DEF Init
<1>1. TypeOK
  BY DEF TypeOK, Threads, Places, Slots
<1>2. SizeAccounts
  <2>1. InPush = {} /\ InPop = {}
    BY DEF InPush, InPop, Threads
  <2> QED
    BY <2>1, FS_EmptySet DEF SizeAccounts
<1>3. RingIndices
  <2>1. 0 % Capacity = 0
    BY RemainderUnique
  <2> QED
    BY <2>1 DEF RingIndices, Threads
<1>4. PushedOnce
  BY DEF PushedOnce, Threads
<1>5. FifoUnlessRaced
  BY DEF FifoUnlessRaced
<1> QED
  BY <1>1, <1>2, <1>3, <1>4, <1>5 DEF QueueInv

(* The invariant holds in every reachable state.                           *)
THEOREM QueueInvariant == Spec => []QueueInv
<1>1. QueueInv /\ [Next]_vars => QueueInv'
  BY TypeStep, AccountStep, RingStep, PushedOnceStep, FifoStep DEF QueueInv
<1> QED
  BY <1>1, InitInv, PTL DEF Spec

(* m_size, m_head and m_tail never leave their ranges, whatever the        *)
(* interleaving of push and pop.                                           *)
THEOREM QueueTypes == Spec => []TypeOK
  BY QueueInvariant, PTL DEF QueueInv

(* m_size is always the number of stored, unread requests, corrected by    *)
(* the pushes and pops that are between counting and touching the ring.    *)
THEOREM QueueAccounts == Spec => []SizeAccounts
  BY QueueInvariant, PTL DEF QueueInv

(* The wrap-around of the two indices loses no slot.                       *)
THEOREM QueueIndices == Spec => []RingIndices
  BY QueueInvariant, PTL DEF QueueInv

(* Until a race happens pop returns what was pushed, in order.             *)
THEOREM QueueFifo == Spec => []FifoUnlessRaced
  BY QueueInvariant, PTL DEF QueueInv

-----------------------------------------------------------------------------
(* A step that breaks the queue: a read of a slot not yet written or a     *)
(* write to a slot not yet read.  By the accounting, the former needs a    *)
(* push, the latter a pop, that has counted itself and not arrived.        *)
LEMMA RaceStep ==
  QueueInv /\ [Next]_vars => (raced' /\ ~ raced => InPush # {} /\ InPop # {})
<1> SUFFICES ASSUME QueueInv, [Next]_vars, raced', ~ raced
             PROVE  InPush # {} /\ InPop # {}
  OBVIOUS
<1> USE QueueAssumption DEF QueueInv, TypeOK
<1>1. /\ Cardinality(InPush) \in Nat /\ Cardinality(InPop) \in Nat
      /\ InPush = {} <=> Cardinality(InPush) = 0
      /\ InPop = {} <=> Cardinality(InPop) = 0
  BY WindowsFinite, FS_EmptySet
<1>2. ASSUME NEW p \in Producers, WriteSlot(p) PROVE InPush # {} /\ InPop # {}
  <2>1. p \in InPush
    BY <1>2 DEF WriteSlot, InPush
  <2>2. Len(stored) - Len(popped) >= Capacity
    BY <1>2, Zenon DEF WriteSlot
  <2>3. Cardinality(InPop) >= 1
    BY <1>1, <2>1, <2>2 DEF SizeAccounts
  <2> QED
    BY <1>1, <2>1, <2>3
<1>3. ASSUME NEW c \in Consumers, ReadSlot(c) PROVE InPush # {} /\ InPop # {}
  <2>1. c \in InPop
    BY <1>3 DEF ReadSlot, InPop
  <2>2. Len(popped) >= Len(stored)
    BY <1>3, Zenon DEF ReadSlot
  <2>3. Cardinality(InPush) >= 1
    BY <1>1, <2>1, <2>2 DEF SizeAccounts
  <2> QED
    BY <1>1, <2>1, <2>3
<1> QED
  BY <1>2, <1>3
  DEF Next, ProducerStep, ConsumerStep, Continue, Push, Pop, IncreaseIfNotFull,
      DecreaseIfNotEmpty, AdvanceTail, AdvanceHead, WaitEvent, AcquireMutex, SetEvent, vars

(* The queue goes wrong only while a push and a pop overlap.               *)
THEOREM RaceOnlyInOverlap == Spec => RaceNeedsOverlap
<1>1. QueueInv /\ [Next]_vars => [raced' /\ ~ raced => InPush # {} /\ InPop # {}]_vars
  BY RaceStep
<1> QED
  BY <1>1, QueueInvariant, PTL DEF Spec, RaceNeedsOverlap

-----------------------------------------------------------------------------
(* Every step of the statement-level queue is a step of the pipe or leaves *)
(* both of its ends alone.                                                 *)
LEMMA FifoSimulation ==
  QueueInv /\ [Next]_vars => [Fifo!FifoNext]_(Fifo!fifoVars)
<1> SUFFICES ASSUME QueueInv, [Next]_vars PROVE [Fifo!FifoNext]_(Fifo!fifoVars)
  OBVIOUS
<1> USE QueueAssumption DEF QueueInv, TypeOK
<1>1. ASSUME NEW p \in Producers, WriteSlot(p) PROVE Fifo!FifoNext
  <2>1. irp[p] \in Requests /\ \A i \in 1 .. Len(stored) : stored[i] # irp[p]
    BY <1>1 DEF WriteSlot, PushedOnce
  <2>2. Fifo!Accept(irp[p])
    BY <1>1, <2>1, Zenon DEF WriteSlot, Fifo!Accept, Fifo!Waiting
  <2> QED
    BY <2>1, <2>2 DEF Fifo!FifoNext
<1>2. ASSUME NEW c \in Consumers, ReadSlot(c) PROVE Fifo!FifoNext
  <2>1. popped' = Append(popped, queue[head]) /\ UNCHANGED stored
    BY <1>2 DEF ReadSlot
  <2>2. head = Len(popped) % Capacity /\ head \in Slots
    BY <1>2 DEF ReadSlot, RingIndices, Threads
  <2>3. CASE ~ raced /\ Len(popped) < Len(stored)
    <3>1. ~ raced'
      <4>1. ~ (Len(popped) >= Len(stored))
        BY <2>3
      <4> QED
        BY <1>2, <2>3, <4>1, Zenon DEF ReadSlot
    <3>2. /\ Len(popped) + 1 \in Len(popped) + 1 .. Len(stored)
          /\ (Len(popped) + 1) - 1 = Len(popped)
      BY <2>3
    <3>3. queue[head] = stored[Len(popped) + 1]
      BY <2>2, <2>3, <3>2 DEF FifoUnlessRaced
    <3>4. raced' = raced
      BY <2>3, <3>1, <1>2 DEF ReadSlot
    <3>5. Fifo!Waiting > 0
      BY <2>3 DEF Fifo!Waiting
    <3> QED
      BY <2>1, <2>3, <3>3, <3>4, <3>5 DEF Fifo!FifoNext, Fifo!Deliver
  <2>4. CASE ~ (~ raced /\ Len(popped) < Len(stored))
    <3>1. raced \/ Len(popped) >= Len(stored)
      BY <2>4
    <3>2. raced' = TRUE
      BY <1>2, <3>1, Zenon DEF ReadSlot
    <3>3. raced \/ Fifo!Waiting <= 0
      BY <3>1 DEF Fifo!Waiting
    <3>4. queue[head] \in Requests \cup {NULL}
      BY <2>2
    <3>5. Fifo!DeliverAnything(queue[head])
      BY <2>1, <3>2, <3>3 DEF Fifo!DeliverAnything
    <3> QED
      BY <3>4, <3>5 DEF Fifo!FifoNext
  <2> QED
    BY <2>3, <2>4
<1>3. CASE UNCHANGED <<stored, popped, raced>>
  BY <1>3 DEF Fifo!fifoVars
<1> QED
  BY <1>1, <1>2, <1>3
  DEF Next, ProducerStep, ConsumerStep, Continue, Push, Pop, IncreaseIfNotFull,
      DecreaseIfNotEmpty, AdvanceTail, AdvanceHead, WaitEvent, AcquireMutex, SetEvent, vars

(* CIrpQueue implements the pipe that is first-in first-out until somebody *)
(* takes from it empty or puts into it full.                               *)
THEOREM QueueImplementsFifo == Spec => ImplementsFifo
<1>1. Init => Fifo!FifoInit
  BY DEF Init, Fifo!FifoInit
<1> QED
  BY <1>1, FifoSimulation, QueueInvariant, PTL DEF Spec, ImplementsFifo, Fifo!FifoSpec
-----------------------------------------------------------------------------
(* Until a race happens, a pop that has read its slot holds a request.     *)
PoppedUnlessRaced ==
  ~ raced => \A c \in Consumers : pc[c] \in {"advance", "notify"} => irp[c] \in Requests

(* Only ReadSlot brings a consumer behind its slot, and without a race it  *)
(* reads the oldest request stored.                                        *)
LEMMA PoppedStep == QueueInv /\ PoppedUnlessRaced /\ [Next]_vars => PoppedUnlessRaced'
<1> SUFFICES ASSUME QueueInv, PoppedUnlessRaced, [Next]_vars, ~ raced',
                    NEW c \in Consumers, pc'[c] \in {"advance", "notify"}
             PROVE  irp'[c] \in Requests
  BY DEF PoppedUnlessRaced
<1> USE QueueAssumption DEF QueueInv, TypeOK, Threads, GoTo
<1>1. CASE pc[c] \in {"advance", "notify"} /\ irp'[c] = irp[c] /\ (raced => raced')
  BY <1>1, Zenon DEF PoppedUnlessRaced
<1>2. ASSUME NEW p \in Producers, NEW r \in Requests, Push(p, r) PROVE irp'[c] \in Requests
  BY <1>1, <1>2 DEF Push
<1>3. ASSUME NEW d \in Consumers, Pop(d) PROVE irp'[c] \in Requests
  BY <1>1, <1>3 DEF Pop
<1>4. ASSUME NEW p \in Producers, IncreaseIfNotFull(p) PROVE irp'[c] \in Requests
  BY <1>1, <1>4 DEF IncreaseIfNotFull
<1>5. ASSUME NEW d \in Consumers, DecreaseIfNotEmpty(d) PROVE irp'[c] \in Requests
  BY <1>1, <1>5 DEF DecreaseIfNotEmpty
<1>6. ASSUME NEW p \in Producers, WriteSlot(p) PROVE irp'[c] \in Requests
  <2>1. pc[c] \in {"advance", "notify"} /\ irp' = irp
    BY <1>6 DEF WriteSlot
  <2>2. raced => raced'
    BY <1>6, Zenon DEF WriteSlot
  <2> QED
    BY <1>1, <2>1, <2>2
<1>7. ASSUME NEW p \in Producers, AdvanceTail(p) PROVE irp'[c] \in Requests
  BY <1>1, <1>7 DEF AdvanceTail
<1>8. ASSUME NEW d \in Consumers, ReadSlot(d) PROVE irp'[c] \in Requests
  <2>1. ~ raced /\ ~ (Len(popped) >= Len(stored))
    BY <1>8, Zenon DEF ReadSlot
  <2>2. CASE d # c
    <3>1. pc[c] \in {"advance", "notify"} /\ irp'[c] = irp[c]
      BY <1>8, <2>2 DEF ReadSlot
    <3> QED
      BY <1>1, <2>1, <3>1
  <2>3. CASE d = c
    <3>1. head = Len(popped) % Capacity /\ irp'[c] = queue[head]
      BY <1>8, <2>3 DEF ReadSlot, RingIndices
    <3>2. /\ Len(popped) + 1 \in Len(popped) + 1 .. Len(stored)
          /\ (Len(popped) + 1) - 1 = Len(popped)
      BY <2>1
    <3>3. queue[head] = stored[Len(popped) + 1]
      BY <2>1, <3>1, <3>2 DEF FifoUnlessRaced
    <3>4. stored[Len(popped) + 1] \in Requests
      BY <3>2
    <3> QED
      BY <3>1, <3>3, <3>4
  <2> QED
    BY <2>2, <2>3
<1>9. ASSUME NEW d \in Consumers, AdvanceHead(d) PROVE irp'[c] \in Requests
  BY <1>1, <1>9 DEF AdvanceHead
<1>10. ASSUME NEW t \in Threads, Continue(t) PROVE irp'[c] \in Requests
  <2>1. CASE WaitEvent(t)
    BY <1>1, <2>1 DEF WaitEvent
  <2>2. CASE AcquireMutex(t)
    BY <1>1, <2>2 DEF AcquireMutex
  <2>3. CASE SetEvent(t)
    <3>1. pc[c] \in {"advance", "notify"} /\ UNCHANGED <<irp, raced>>
      BY <2>3 DEF SetEvent
    <3> QED
      BY <1>1, <3>1
  <2> QED
    BY <1>10, <2>1, <2>2, <2>3 DEF Continue
<1>11. CASE UNCHANGED vars
  BY <1>1, <1>11 DEF vars
<1> QED
  BY <1>2, <1>3, <1>4, <1>5, <1>6, <1>7, <1>8, <1>9, <1>10, <1>11
  DEF Next, ProducerStep, ConsumerStep

(* ASSERT(m_last_irp) of RequestExchange can fail only after a race, that  *)
(* is, by RaceOnlyInOverlap, only after a push and a pop have been between *)
(* m_size and the ring at the same time.                                   *)
THEOREM PopUnlessRaced == Spec => [](~ raced => PopReturnsRequest)
<1>1. Init => PoppedUnlessRaced
  BY DEF Init, PoppedUnlessRaced, Threads
<1>2. PoppedUnlessRaced => (~ raced => PopReturnsRequest)
  BY QueueAssumption DEF PoppedUnlessRaced, PopReturnsRequest
<1> QED
  BY <1>1, <1>2, PoppedStep, QueueInvariant, PTL DEF Spec

-----------------------------------------------------------------------------
(* No wake-up is owed to a blocked thread: a set event finds nobody        *)
(* blocked, a push never waits, and a request that m_size counts has a     *)
(* thread on the way that will take it or set the event.                   *)
Wakeful ==
  /\ signaled => \A t \in Threads : pc[t] # "blocked"
  /\ \A p \in Producers : pc[p] \notin {"wait", "blocked"}
  /\ size > 0 =>
       \/ signaled
       \/ \E t \in Threads : pc[t] \in {"lock", "slot", "advance", "notify"}
       \/ \E c \in Consumers : pc[c] = "try"

(* While at most Capacity requests are outstanding, a push that looks at   *)
(* m_size finds room: itself and every push ahead of it are outstanding.   *)
LEMMA PushFindsRoom ==
  ASSUME QueueInv, Outstanding <= Capacity, NEW p \in Producers, pc[p] = "try"
  PROVE  size < Capacity
<1> DEFINE Pending == {q \in Producers : pc[q] \in {"try", "wait", "blocked", "lock", "slot"}}
<1>1. IsFiniteSet(Pending) /\ Cardinality(Pending) \in Nat
  <2>1. IsFiniteSet(Pending)
    BY QueueAssumption, FS_Subset
  <2> QED
    BY <2>1, FS_CardinalityType
<1>2. p \notin InPush /\ InPush \cup {p} \subseteq Pending
  BY DEF InPush
<1>3. Cardinality(InPush) + 1 <= Cardinality(Pending)
  <2>1. Cardinality(InPush \cup {p}) = Cardinality(InPush) + 1
    BY <1>2, WindowsFinite, EnterWindow
  <2>2. Cardinality(InPush \cup {p}) <= Cardinality(Pending)
    BY <1>1, <1>2, FS_Subset
  <2> QED
    BY <2>1, <2>2
<1>4. Outstanding = Len(stored) - Len(popped) + Cardinality(Pending)
  BY DEF Outstanding
<1> HIDE DEF Pending
<1> QED
  BY <1>1, <1>3, <1>4, WindowsFinite, QueueAssumption DEF QueueInv, TypeOK, SizeAccounts

(* Every step keeps the account of wake-ups while there is room for all    *)
(* that is outstanding.                                                    *)
LEMMA WakefulStep ==
  QueueInv /\ Wakeful /\ Outstanding <= Capacity /\ [Next]_vars => Wakeful'
<1> SUFFICES ASSUME QueueInv, Wakeful, Outstanding <= Capacity, [Next]_vars PROVE Wakeful'
  OBVIOUS
<1> USE QueueAssumption DEF QueueInv, TypeOK, Threads, GoTo
<1>1. ASSUME NEW p \in Producers, NEW r \in Requests, Push(p, r) PROVE Wakeful'
  BY <1>1 DEF Push, Wakeful
<1>2. ASSUME NEW c \in Consumers, Pop(c) PROVE Wakeful'
  BY <1>2 DEF Pop, Wakeful
<1>3. ASSUME NEW p \in Producers, IncreaseIfNotFull(p) PROVE Wakeful'
  <2>1. size < Capacity
    BY <1>3, PushFindsRoom DEF IncreaseIfNotFull
  <2>2. pc' = [pc EXCEPT ![p] = "lock"] /\ signaled' = signaled
    BY <1>3, <2>1 DEF IncreaseIfNotFull
  <2> QED
    BY <2>2 DEF Wakeful
<1>4. ASSUME NEW c \in Consumers, DecreaseIfNotEmpty(c) PROVE Wakeful'
  <2>1. CASE size > 0
    <3>1. pc' = [pc EXCEPT ![c] = "lock"] /\ signaled' = signaled
      BY <1>4, <2>1 DEF DecreaseIfNotEmpty
    <3> QED
      BY <3>1 DEF Wakeful
  <2>2. CASE ~ (size > 0)
    <3>1. pc' = [pc EXCEPT ![c] = "wait"] /\ signaled' = signaled /\ size' = size
      BY <1>4, <2>2 DEF DecreaseIfNotEmpty
    <3> QED
      BY <2>2, <3>1 DEF Wakeful
  <2> QED
    BY <2>1, <2>2
<1>5. ASSUME NEW p \in Producers, WriteSlot(p) PROVE Wakeful'
  BY <1>5 DEF WriteSlot, Wakeful
<1>6. ASSUME NEW p \in Producers, AdvanceTail(p) PROVE Wakeful'
  BY <1>6 DEF AdvanceTail, Wakeful
<1>7. ASSUME NEW c \in Consumers, ReadSlot(c) PROVE Wakeful'
  BY <1>7 DEF ReadSlot, Wakeful
<1>8. ASSUME NEW c \in Consumers, AdvanceHead(c) PROVE Wakeful'
  BY <1>8 DEF AdvanceHead, Wakeful
<1>9. ASSUME NEW t \in Threads, Continue(t) PROVE Wakeful'
  <2>1. CASE WaitEvent(t)
    <3>1. t \in Consumers
      BY <2>1 DEF WaitEvent, Wakeful
    <3>2. CASE signaled
      <4>1. pc' = [pc EXCEPT ![t] = "try"] /\ signaled' = FALSE
        BY <2>1, <3>2 DEF WaitEvent
      <4> QED
        BY <3>1, <4>1 DEF Wakeful
    <3>3. CASE ~ signaled
      <4>1. pc' = [pc EXCEPT ![t] = "blocked"] /\ signaled' = FALSE /\ size' = size
        BY <2>1, <3>3 DEF WaitEvent
      <4> QED
        BY <2>1, <3>1, <3>3, <4>1 DEF Wakeful, WaitEvent
    <3> QED
      BY <3>2, <3>3
  <2>2. CASE AcquireMutex(t)
    BY <2>2 DEF AcquireMutex, Wakeful
  <2>3. CASE SetEvent(t)
    <3>1. ASSUME NEW b \in Threads, pc[b] = "blocked",
                 pc' = [pc EXCEPT ![t] = "idle", ![b] = "try"], UNCHANGED signaled
          PROVE  Wakeful'
      <4>1. b \in Consumers /\ ~ signaled /\ b # t
        BY <2>3, <3>1 DEF Wakeful, SetEvent
      <4>2. pc'[b] = "try"
        BY <3>1, <4>1
      <4> QED
        BY <3>1, <4>1, <4>2 DEF Wakeful
    <3>2. ASSUME \A b \in Threads : pc[b] # "blocked", signaled' = TRUE,
                 pc' = [pc EXCEPT ![t] = "idle"]
          PROVE  Wakeful'
      BY <3>2 DEF Wakeful
    <3> QED
      BY <2>3, <3>1, <3>2 DEF SetEvent
  <2> QED
    BY <1>9, <2>1, <2>2, <2>3 DEF Continue
<1>10. CASE UNCHANGED vars
  BY <1>10 DEF vars, Wakeful
<1> QED
  BY <1>1, <1>2, <1>3, <1>4, <1>5, <1>6, <1>7, <1>8, <1>9, <1>10
  DEF Next, ProducerStep, ConsumerStep

(* With one auto-reset event shared by both sides, no wake-up is lost as   *)
(* long as at most MAX_IRP_QUEUE requests are outstanding: a queue at rest *)
(* never holds a request that a blocked pop is waiting for, nor room that  *)
(* a blocked push is waiting for.                                          *)
THEOREM NoWakeUpLost == Spec /\ [](Outstanding <= Capacity) => []ChangeIsNotified
<1>1. Init => Wakeful
  BY DEF Init, Wakeful, Threads
<1>2. QueueInv /\ Wakeful => ChangeIsNotified
  BY QueueAssumption DEF QueueInv, TypeOK, Wakeful, ChangeIsNotified, Threads
<1> QED
  BY <1>1, <1>2, WakefulStep, QueueInvariant, PTL DEF Spec
=============================================================================
