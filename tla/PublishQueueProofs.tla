-------------------------- MODULE PublishQueueProofs --------------------------
(***************************************************************************)
(* The publish queue, for every set of producers, every capacity, every    *)
(* number of messages and both answers of the RTOS to a second lock:       *)
(* IndInv is inductive, so the ring never leaves its bounds, keeps the     *)
(* order of publication, and never loses a wakeup.                         *)
(***************************************************************************)
EXTENDS PublishQueue, SequenceTheorems, TLAPS

USE CapacityAssumption, MaxMessagesAssumption, RelockAssumption,
    ThreadAssumption, UndefinedAssumption
    DEF Threads, Message, Slots, ProducerLabels, ConsumerLabels

-----------------------------------------------------------------------------
(* The ring's positions                                                    *)

\* The messages of a ring lie in slots, in distinct ones, from the tail on,
\* and follow one another by the code's wrap-around.
LEMMA SlotFacts ==
  ASSUME NEW tail \in Slots
  PROVE  /\ \A i \in 1..(Capacity + 1) : Slot(tail, i) \in Slots
         /\ \A i, j \in 1..Capacity : Slot(tail, i) = Slot(tail, j) => i = j
         /\ Slot(tail, 1) = tail
         /\ \A i \in 1..Capacity : Slot(tail, i + 1) = Advance(Slot(tail, i))
<1>1. \A i \in 1..(Capacity + 1) : Slot(tail, i) \in Slots
  BY DEF Slot
<1>2. \A i, j \in 1..Capacity : Slot(tail, i) = Slot(tail, j) => i = j
  BY DEF Slot
<1>3. Slot(tail, 1) = tail
  BY DEF Slot
<1>4. \A i \in 1..Capacity : Slot(tail, i + 1) = Advance(Slot(tail, i))
  BY DEF Slot, Advance
<1> QED
  BY <1>1, <1>2, <1>3, <1>4

\* Moving the tail one slot makes the second message the first.
LEMMA SlotAfterPop ==
  ASSUME NEW tail \in Slots, NEW i \in 1..Capacity
  PROVE  Slot(Advance(tail), i) = Slot(tail, i + 1)
BY DEF Slot, Advance

\* What the consumer loads from a ring that is not empty is a message.
LEMMA OldestIsMessage ==
  ASSUME TypeOK, FifoOrder, current_size > 0
  PROVE  /\ node_list[tail_pos] = accepted[Len(delivered) + 1]
         /\ accepted[Len(delivered) + 1] \in Message
<1>1. 1 \in 1..current_size /\ Len(delivered) \in Nat
  BY DEF TypeOK
<1>2. node_list[Slot(tail_pos, 1)] = accepted[Len(delivered) + 1]
  BY <1>1 DEF FifoOrder
<1>3. Len(delivered) + 1 \in 1..Len(accepted)
  BY <1>1 DEF TypeOK, FifoOrder
<1>4. accepted \in Seq(Message)
  BY DEF TypeOK
<1>5. accepted[Len(delivered) + 1] \in Message
  BY <1>3, <1>4
<1> QED
  BY <1>2, <1>5, SlotFacts DEF TypeOK

\* A step that leaves the ring and the histories alone keeps what relates
\* them.
LEMMA RingUntouched ==
  ASSUME IndInv, UNCHANGED <<ring, hist>>
  PROVE  HeadAfterNewest' /\ FifoOrder'
BY DEF IndInv, HeadAfterNewest, FifoOrder, Slot, ring, hist

-----------------------------------------------------------------------------
(* The invariant, at the start and across the steps of a producer          *)

\* The invariant holds of the queue _ipc_message_queue_init leaves behind.
LEMMA InitInv == Init => IndInv
<1> SUFFICES ASSUME Init PROVE IndInv
  OBVIOUS
<1>1. TypeOK
  BY SMTT(30) DEF Init, TypeOK
<1>2. MutexHeld
  BY DEF Init, MutexHeld, Section
<1>3. HeadAfterNewest
  BY DEF Init, HeadAfterNewest, Slot
<1>4. PushInProgress /\ PopInProgress
  BY DEF Init, PushInProgress, PopInProgress
<1>5. FifoOrder
  BY DEF Init, FifoOrder
<1>6. NoLostWakeup /\ SleeperHasToken
  BY DEF Init, NoLostWakeup, SleeperHasToken
<1> QED
  BY <1>1, <1>2, <1>3, <1>4, <1>5, <1>6 DEF IndInv

\* Taking the mutex for a push numbers a message and touches nothing else.
LEMMA PushLockInv ==
  ASSUME IndInv, NEW p \in Producers, PushLock(p)
  PROVE  IndInv'
<1> USE DEF IndInv, PushLock, Goto
<1>1. TypeOK'
  BY DEF TypeOK, Lock, ring, hist
<1>2. MutexHeld'
  BY DEF TypeOK, MutexHeld, Lock, MayPass, Section
<1>3. HeadAfterNewest' /\ FifoOrder'
  BY RingUntouched
<1>4. PushInProgress' /\ PopInProgress'
  BY DEF TypeOK, PushInProgress, PopInProgress, ring
<1>5. NoLostWakeup' /\ SleeperHasToken'
  BY DEF TypeOK, NoLostWakeup, SleeperHasToken, ring
<1> QED
  BY <1>1, <1>2, <1>3, <1>4, <1>5

\* The push that finds the ring full keeps the mutex and goes on to signal.
LEMMA PushFullInv ==
  ASSUME IndInv, NEW p \in Producers, PushFull(p)
  PROVE  IndInv'
<1> USE DEF IndInv, PushFull, Goto
<1>1. TypeOK'
  BY DEF TypeOK, ring, hist
<1>2. MutexHeld'
  BY DEF TypeOK, MutexHeld, Section
<1>3. HeadAfterNewest' /\ FifoOrder'
  BY RingUntouched
<1>4. PushInProgress' /\ PopInProgress'
  BY DEF TypeOK, PushInProgress, PopInProgress, ring
<1>5. NoLostWakeup' /\ SleeperHasToken'
  BY DEF TypeOK, NoLostWakeup, SleeperHasToken, ring
<1> QED
  BY <1>1, <1>2, <1>3, <1>4, <1>5

\* The store goes to the head, which no message of the ring occupies, and
\* the mutex keeps every other producer and the consumer out.
LEMMA PushStoreInv ==
  ASSUME IndInv, NEW p \in Producers, PushStore(p)
  PROVE  IndInv'
<1> USE DEF IndInv, PushStore, Goto
<1>1. current_size < Capacity /\ <<p, sent[p]>> \in Message
  BY DEF TypeOK, PushInProgress
<1>2. TypeOK'
  BY <1>1 DEF TypeOK, hist
<1>3. MutexHeld'
  BY DEF TypeOK, MutexHeld, Section
<1>4. HeadAfterNewest'
  BY DEF HeadAfterNewest, Slot
<1>5. PushInProgress'
  BY <1>1 DEF TypeOK, PushInProgress, MutexHeld, Section
<1>6. PopInProgress'
  BY DEF TypeOK, PopInProgress, MutexHeld, Section
<1>7. FifoOrder'
  <2>1. ASSUME NEW i \in 1..current_size
        PROVE  /\ Slot(tail_pos, i) # head_pos
               /\ Slot(tail_pos', i) = Slot(tail_pos, i)
               /\ Slot(tail_pos, i) \in Slots
    BY <1>1, SlotFacts DEF TypeOK, HeadAfterNewest, Slot
  <2>2. ASSUME NEW i \in 1..current_size
        PROVE  node_list'[Slot(tail_pos', i)] = node_list[Slot(tail_pos, i)]
    BY <2>1 DEF TypeOK
  <2> QED
    BY <2>2 DEF FifoOrder, hist
<1>8. NoLostWakeup' /\ SleeperHasToken'
  BY DEF TypeOK, NoLostWakeup, SleeperHasToken
<1> QED
  BY <1>2, <1>3, <1>4, <1>5, <1>6, <1>7, <1>8

\* The advance appends the stored message to the ring and to the history,
\* and from here on this producer owes the signal.
LEMMA PushAdvanceInv ==
  ASSUME IndInv, NEW p \in Producers, PushAdvance(p)
  PROVE  IndInv'
<1> USE DEF IndInv, PushAdvance, Goto
<1>1. /\ current_size < Capacity
      /\ node_list[head_pos] = <<p, sent[p]>>
      /\ <<p, sent[p]>> \in Message
  BY DEF TypeOK, PushInProgress
<1>2. TypeOK'
  <2>1. accepted' \in Seq(Message)
    BY <1>1, AppendProperties DEF TypeOK
  <2> QED
    BY <1>1, <2>1 DEF TypeOK, Unlock, Advance
<1>3. MutexHeld'
  BY DEF TypeOK, MutexHeld, Unlock, Section
<1>4. HeadAfterNewest'
  <2>1. current_size + 1 \in 1..Capacity /\ tail_pos \in Slots
    BY <1>1 DEF TypeOK
  <2>2. Slot(tail_pos, (current_size + 1) + 1) = Advance(head_pos)
    BY <2>1, SlotFacts DEF HeadAfterNewest
  <2> QED
    BY <2>2 DEF HeadAfterNewest
<1>5. PushInProgress' /\ PopInProgress'
  BY DEF TypeOK, PushInProgress, PopInProgress, MutexHeld, Section
<1>6. FifoOrder'
  <2>1. /\ Len(accepted') = Len(accepted) + 1
        /\ \A i \in 1..Len(accepted) : accepted'[i] = accepted[i]
        /\ accepted'[Len(accepted) + 1] = <<p, sent[p]>>
    BY <1>1, AppendProperties DEF TypeOK
  <2>2. Len(accepted) \in Nat /\ Len(delivered) \in Nat /\ current_size \in Nat
    BY DEF TypeOK
  <2>3. /\ current_size' = current_size + 1
        /\ UNCHANGED <<node_list, tail_pos, delivered>>
    OBVIOUS
  <2>4. /\ FifoOrder
        /\ node_list[Slot(tail_pos, current_size + 1)] = <<p, sent[p]>>
    BY <1>1 DEF HeadAfterNewest
  <2> HIDE DEF IndInv, PushAdvance
  <2>5. ASSUME NEW i \in 1..(current_size + 1)
        PROVE  node_list[Slot(tail_pos, i)] = accepted'[Len(delivered) + i]
    <3>1. CASE i = current_size + 1
      BY <2>1, <2>2, <2>4, <3>1 DEF FifoOrder
    <3>2. CASE i # current_size + 1
      <4>1. i \in 1..current_size /\ Len(delivered) + i \in 1..Len(accepted)
        BY <2>2, <2>4, <3>2 DEF FifoOrder
      <4> QED
        BY <2>1, <2>4, <4>1 DEF FifoOrder
    <3> QED
      BY <3>1, <3>2
  <2>6. \A i \in 1..Len(delivered) : i \in 1..Len(accepted)
    BY <2>2, <2>4 DEF FifoOrder
  <2> QED
    BY <2>1, <2>2, <2>3, <2>4, <2>5, <2>6 DEF FifoOrder
<1>7. NoLostWakeup' /\ SleeperHasToken'
  BY DEF TypeOK, NoLostWakeup, SleeperHasToken
<1> QED
  BY <1>2, <1>3, <1>4, <1>5, <1>6, <1>7

\* Taking the mutex for a signal preserves the invariant.
LEMMA SignalLockInv ==
  ASSUME IndInv, NEW p \in Producers, SignalLock(p)
  PROVE  IndInv'
<1> USE DEF IndInv, SignalLock, Goto
<1>1. TypeOK'
  BY DEF TypeOK, Lock, ring, hist
<1>2. MutexHeld'
  BY DEF TypeOK, MutexHeld, Lock, MayPass, Section
<1>3. HeadAfterNewest' /\ FifoOrder'
  BY RingUntouched
<1>4. PushInProgress' /\ PopInProgress'
  BY DEF TypeOK, PushInProgress, PopInProgress, ring
<1>5. NoLostWakeup' /\ SleeperHasToken'
  BY DEF TypeOK, NoLostWakeup, SleeperHasToken, ring
<1> QED
  BY <1>1, <1>2, <1>3, <1>4, <1>5

\* The signal lowers the flag, so nobody owes a wakeup any more, and leaves
\* a token for the consumer that went to sleep on it.
LEMMA SignalInv ==
  ASSUME IndInv, NEW p \in Producers, Signal(p)
  PROVE  IndInv'
<1> USE DEF IndInv, Signal, Goto
<1>1. TypeOK'
  <2>1. new_msg' \in Nat
    BY DEF TypeOK
  <2> QED
    BY <2>1 DEF TypeOK, Unlock, ring, hist
<1>2. MutexHeld'
  BY DEF TypeOK, MutexHeld, Unlock, Section
<1>3. HeadAfterNewest' /\ FifoOrder'
  BY RingUntouched
<1>4. PushInProgress' /\ PopInProgress'
  BY DEF TypeOK, PushInProgress, PopInProgress, ring
<1>5. NoLostWakeup'
  BY DEF NoLostWakeup
<1>6. SleeperHasToken'
  BY DEF TypeOK, SleeperHasToken
<1> QED
  BY <1>1, <1>2, <1>3, <1>4, <1>5, <1>6

-----------------------------------------------------------------------------
(* The steps of the consumer                                               *)

\* Taking the mutex for a wait preserves the invariant.
LEMMA WaitLockInv ==
  ASSUME IndInv, WaitLock
  PROVE  IndInv'
<1> USE DEF IndInv, WaitLock, Goto
<1>1. TypeOK'
  BY DEF TypeOK, Lock, ring, hist
<1>2. MutexHeld'
  BY DEF TypeOK, MutexHeld, Lock, MayPass, Section
<1>3. HeadAfterNewest' /\ FifoOrder'
  BY RingUntouched
<1>4. PushInProgress' /\ PopInProgress'
  BY DEF TypeOK, PushInProgress, PopInProgress, ring
<1>5. NoLostWakeup' /\ SleeperHasToken'
  BY DEF TypeOK, NoLostWakeup, SleeperHasToken, ring
<1> QED
  BY <1>1, <1>2, <1>3, <1>4, <1>5

\* The flag goes up only while the ring is empty.
LEMMA WaitCheckInv ==
  ASSUME IndInv, WaitCheck
  PROVE  IndInv'
<1> USE DEF IndInv, WaitCheck, Goto
<1>1. TypeOK'
  BY DEF TypeOK, Unlock, ring, hist
<1>2. MutexHeld'
  BY DEF TypeOK, MutexHeld, Unlock, Section
<1>3. HeadAfterNewest' /\ FifoOrder'
  BY RingUntouched
<1>4. PushInProgress' /\ PopInProgress'
  BY DEF TypeOK, PushInProgress, PopInProgress, ring
<1>5. NoLostWakeup' /\ SleeperHasToken'
  BY DEF TypeOK, NoLostWakeup, SleeperHasToken, ring
<1> QED
  BY <1>1, <1>2, <1>3, <1>4, <1>5

\* The consumer goes to sleep only while the flag is up.
LEMMA WaitTestInv ==
  ASSUME IndInv, WaitTest
  PROVE  IndInv'
<1> USE DEF IndInv, WaitTest, Goto
<1>1. TypeOK'
  BY DEF TypeOK, ring, hist
<1>2. MutexHeld'
  BY DEF TypeOK, MutexHeld, Section
<1>3. HeadAfterNewest' /\ FifoOrder'
  BY RingUntouched
<1>4. PushInProgress' /\ PopInProgress'
  BY DEF TypeOK, PushInProgress, PopInProgress, ring
<1>5. NoLostWakeup' /\ SleeperHasToken'
  BY DEF TypeOK, NoLostWakeup, SleeperHasToken, ring
<1> QED
  BY <1>1, <1>2, <1>3, <1>4, <1>5

\* Taking a token sends the consumer back to the test of the flag.
LEMMA SemWaitInv ==
  ASSUME IndInv, SemWait
  PROVE  IndInv'
<1> USE DEF IndInv, SemWait, Goto
<1>1. TypeOK'
  BY DEF TypeOK, ring, hist
<1>2. MutexHeld'
  BY DEF TypeOK, MutexHeld, Section
<1>3. HeadAfterNewest' /\ FifoOrder'
  BY RingUntouched
<1>4. PushInProgress' /\ PopInProgress'
  BY DEF TypeOK, PushInProgress, PopInProgress, ring
<1>5. NoLostWakeup' /\ SleeperHasToken'
  BY DEF TypeOK, NoLostWakeup, SleeperHasToken, ring
<1> QED
  BY <1>1, <1>2, <1>3, <1>4, <1>5

\* Taking the mutex for a pop preserves the invariant.
LEMMA PopLockInv ==
  ASSUME IndInv, PopLock
  PROVE  IndInv'
<1> USE DEF IndInv, PopLock, Goto
<1>1. TypeOK'
  BY DEF TypeOK, Lock, ring, hist
<1>2. MutexHeld'
  BY DEF TypeOK, MutexHeld, Lock, MayPass, Section
<1>3. HeadAfterNewest' /\ FifoOrder'
  BY RingUntouched
<1>4. PushInProgress' /\ PopInProgress'
  BY DEF TypeOK, PushInProgress, PopInProgress, ring
<1>5. NoLostWakeup' /\ SleeperHasToken'
  BY DEF TypeOK, NoLostWakeup, SleeperHasToken, ring
<1> QED
  BY <1>1, <1>2, <1>3, <1>4, <1>5

\* The pop that finds the ring empty keeps the mutex and returns.
LEMMA PopEmptyInv ==
  ASSUME IndInv, PopEmpty
  PROVE  IndInv'
<1> USE DEF IndInv, PopEmpty, Goto
<1>1. TypeOK'
  BY DEF TypeOK, ring
<1>2. MutexHeld'
  BY DEF TypeOK, MutexHeld, Section
<1>3. HeadAfterNewest' /\ FifoOrder'
  BY DEF HeadAfterNewest, FifoOrder, Slot, ring
<1>4. PushInProgress' /\ PopInProgress'
  BY DEF TypeOK, PushInProgress, PopInProgress, ring
<1>5. NoLostWakeup' /\ SleeperHasToken'
  BY DEF TypeOK, NoLostWakeup, SleeperHasToken, ring
<1> QED
  BY <1>1, <1>2, <1>3, <1>4, <1>5

\* The load copies the oldest message.
LEMMA PopLoadInv ==
  ASSUME IndInv, PopLoad
  PROVE  IndInv'
<1> USE DEF IndInv, PopLoad, Goto
<1>1. TypeOK'
  BY DEF TypeOK, ring, hist
<1>2. MutexHeld'
  BY DEF TypeOK, MutexHeld, Section
<1>3. HeadAfterNewest' /\ FifoOrder'
  BY RingUntouched
<1>4. PushInProgress' /\ PopInProgress'
  BY DEF TypeOK, PushInProgress, PopInProgress, ring
<1>5. NoLostWakeup' /\ SleeperHasToken'
  BY DEF TypeOK, NoLostWakeup, SleeperHasToken, ring
<1> QED
  BY <1>1, <1>2, <1>3, <1>4, <1>5

\* The advance moves the oldest message from the ring to what was delivered,
\* and every other message becomes one slot older.
LEMMA PopAdvanceInv ==
  ASSUME IndInv, PopAdvance
  PROVE  IndInv'
<1> USE DEF IndInv, PopAdvance, Goto
<1>1. /\ current_size > 0
      /\ node = accepted[Len(delivered) + 1]
      /\ node \in Message
  BY OldestIsMessage DEF PopInProgress
<1>2. TypeOK'
  <2>1. delivered' \in Seq(Message)
    BY <1>1, AppendProperties DEF TypeOK
  <2>2. current_size' \in 0..Capacity /\ tail_pos' \in Slots
    BY <1>1 DEF TypeOK, Advance
  <2> QED
    BY <2>1, <2>2 DEF TypeOK, Unlock
<1>3. MutexHeld'
  BY DEF TypeOK, MutexHeld, Unlock, Section
<1>4. HeadAfterNewest'
  <2>1. current_size \in 1..Capacity /\ current_size' + 1 = current_size
    BY <1>1 DEF TypeOK
  <2>2. tail_pos \in Slots /\ tail_pos' = Advance(tail_pos)
    BY DEF TypeOK
  <2>3. Slot(tail_pos', current_size) = Slot(tail_pos, current_size + 1)
    BY <2>1, <2>2, SlotAfterPop
  <2> QED
    BY <2>1, <2>3 DEF HeadAfterNewest
<1>5. PushInProgress' /\ PopInProgress'
  BY DEF TypeOK, PushInProgress, PopInProgress, MutexHeld, Section
<1>6. FifoOrder'
  <2>1. /\ Len(delivered') = Len(delivered) + 1
        /\ \A i \in 1..Len(delivered) : delivered'[i] = delivered[i]
        /\ delivered'[Len(delivered) + 1] = node
    BY <1>1, AppendProperties DEF TypeOK
  <2>2. /\ Len(accepted) \in Nat
        /\ Len(delivered) \in Nat
        /\ current_size \in 1..Capacity
        /\ tail_pos \in Slots
    BY <1>1 DEF TypeOK
  <2>3. /\ current_size' = current_size - 1
        /\ tail_pos' = Advance(tail_pos)
        /\ UNCHANGED <<node_list, accepted>>
        /\ FifoOrder
    OBVIOUS
  <2> HIDE DEF IndInv, PopAdvance
  <2>4. Len(accepted') = Len(delivered') + current_size'
    BY <2>1, <2>2, <2>3 DEF FifoOrder
  <2>5. \A i \in 1..Len(delivered') : delivered'[i] = accepted'[i]
    BY <1>1, <2>1, <2>2, <2>3 DEF FifoOrder
  <2>6. ASSUME NEW i \in 1..(current_size - 1)
        PROVE  node_list[Slot(tail_pos', i)] = accepted[Len(delivered') + i]
    <3>1. i \in 1..Capacity /\ i + 1 \in 1..current_size
      BY <2>2
    <3>2. Slot(tail_pos', i) = Slot(tail_pos, i + 1)
      BY <2>2, <2>3, <3>1, SlotAfterPop
    <3>3. node_list[Slot(tail_pos, i + 1)] = accepted[Len(delivered) + (i + 1)]
      BY <2>3, <3>1 DEF FifoOrder
    <3>4. Len(delivered) + (i + 1) = Len(delivered') + i
      BY <2>1, <2>2, <3>1
    <3> QED
      BY <3>2, <3>3, <3>4
  <2> QED
    BY <2>3, <2>4, <2>5, <2>6 DEF FifoOrder
<1>7. NoLostWakeup' /\ SleeperHasToken'
  BY DEF TypeOK, NoLostWakeup, SleeperHasToken
<1> QED
  BY <1>2, <1>3, <1>4, <1>5, <1>6, <1>7

-----------------------------------------------------------------------------
(* The theorems                                                            *)

\* IndInv is inductive: every step of Next, and a stutter, preserves it.
LEMMA NextInv == IndInv /\ [Next]_vars => IndInv'
<1> SUFFICES ASSUME IndInv, [Next]_vars PROVE IndInv'
  OBVIOUS
<1>1. ASSUME NEW p \in Producers, PushLock(p) \/ Publishing(p)
      PROVE  IndInv'
  BY <1>1, PushLockInv, PushFullInv, PushStoreInv, PushAdvanceInv,
     SignalLockInv, SignalInv DEF Publishing
<1>2. CASE Consuming
  BY <1>2, WaitLockInv, WaitCheckInv, WaitTestInv, SemWaitInv, PopLockInv,
     PopEmptyInv, PopLoadInv, PopAdvanceInv DEF Consuming
<1>3. CASE UNCHANGED vars
  BY <1>3 DEF vars, ring, hist, IndInv, TypeOK, MutexHeld, HeadAfterNewest,
     PushInProgress, PopInProgress, FifoOrder, NoLostWakeup, SleeperHasToken,
     Slot
<1> QED
  BY <1>1, <1>2, <1>3 DEF Next

\* The inductive invariant holds of every reachable state of the queue.
THEOREM Invariance == Spec => []IndInv
BY InitInv, NextInv, PTL DEF Spec

\* No call sequence moves a position out of the ring or a size out of
\* 0..Capacity: TypeOK is an invariant.
THEOREM TypeCorrect == Spec => []TypeOK
<1>1. IndInv => TypeOK
  BY DEF IndInv
<1> QED
  BY <1>1, Invariance, PTL

\* The publish queue delivers what it accepted, in order, without loss,
\* repetition or invention.
THEOREM FifoCorrect == Spec => []FifoOrder
<1>1. IndInv => FifoOrder
  BY DEF IndInv
<1> QED
  BY <1>1, Invariance, PTL

\* The consumer that announced its sleep over a non-empty ring has a producer
\* on its way to wake it.
THEOREM WakeupCorrect == Spec => []NoLostWakeup
<1>1. IndInv => NoLostWakeup
  BY DEF IndInv
<1> QED
  BY <1>1, Invariance, PTL

\* The consumer that sleeps after the flag was lowered has a token to take.
THEOREM TokenCorrect == Spec => []SleeperHasToken
<1>1. IndInv => SleeperHasToken
  BY DEF IndInv
<1> QED
  BY <1>1, Invariance, PTL

-----------------------------------------------------------------------------
(* When every thread is blocked                                            *)

\* Who keeps the mutex, at the start and across the steps of a producer.
LEMMA InitKept == Init => KeptMutex
BY DEF Init, KeptMutex

LEMMA ProducerKept ==
  ASSUME IndInv, KeptMutex, NEW p \in Producers, PushLock(p) \/ Publishing(p)
  PROVE  KeptMutex'
<1>1. pc \in [Threads -> ProducerLabels \cup ConsumerLabels] /\ p # Consumer
  BY DEF IndInv, TypeOK
<1>2. CASE PushLock(p)
  BY <1>1, <1>2 DEF KeptMutex, PushLock, Goto, Lock, Section
<1>3. CASE PushFull(p)
  BY <1>1, <1>3 DEF KeptMutex, PushFull, Goto, Section
<1>4. CASE PushStore(p)
  BY <1>1, <1>4 DEF KeptMutex, PushStore, Goto, Section
<1>5. CASE PushAdvance(p)
  BY <1>1, <1>5 DEF KeptMutex, PushAdvance, Unlock
<1>6. CASE SignalLock(p)
  BY <1>1, <1>6 DEF KeptMutex, SignalLock, Goto, Lock, Section
<1>7. CASE Signal(p)
  BY <1>1, <1>7 DEF KeptMutex, Signal, Unlock
<1> QED
  BY <1>2, <1>3, <1>4, <1>5, <1>6, <1>7 DEF Publishing

\* The consumer gives the mutex back with every unlock and keeps it only
\* on its way back to idle.
LEMMA ConsumerKept ==
  ASSUME IndInv, KeptMutex, Consuming
  PROVE  KeptMutex'
<1>1. pc \in [Threads -> ProducerLabels \cup ConsumerLabels] /\ Consumer \in Threads
  BY DEF IndInv, TypeOK
<1>2. CASE WaitLock
  BY <1>1, <1>2 DEF KeptMutex, WaitLock, Goto, Lock, Section
<1>3. CASE WaitCheck
  BY <1>1, <1>3 DEF KeptMutex, WaitCheck, Unlock
<1>4. CASE WaitTest
  BY <1>1, <1>4 DEF KeptMutex, WaitTest, Goto, Section
<1>5. CASE SemWait
  BY <1>1, <1>5 DEF KeptMutex, SemWait, Goto, Section
<1>6. CASE PopLock
  BY <1>1, <1>6 DEF KeptMutex, PopLock, Goto, Lock, Section
<1>7. CASE PopEmpty
  BY <1>1, <1>7 DEF KeptMutex, PopEmpty, Goto, Section
<1>8. CASE PopLoad
  BY <1>1, <1>8 DEF KeptMutex, PopLoad, Goto, Section
<1>9. CASE PopAdvance
  BY <1>1, <1>9 DEF KeptMutex, PopAdvance, Unlock
<1> QED
  BY <1>2, <1>3, <1>4, <1>5, <1>6, <1>7, <1>8, <1>9 DEF Consuming

\* Only the two early returns leave a thread with the mutex outside its
\* critical sections.
THEOREM MutexKeptByEarlyReturns == Spec => []KeptMutex
<1>1. IndInv /\ KeptMutex /\ [Next]_vars => KeptMutex'
  BY ProducerKept, ConsumerKept DEF Next, vars, KeptMutex
<1> QED
  BY <1>1, InitKept, Invariance, PTL DEF Spec

\* The history of a ring that holds nothing was delivered.
LEMMA EmptyIsDelivered ==
  ASSUME IndInv, current_size = 0
  PROVE  accepted = delivered
<1>1. accepted \in Seq(Message) /\ delivered \in Seq(Message)
  BY DEF IndInv, TypeOK
<1>2. /\ Len(accepted) = Len(delivered) + current_size
      /\ \A i \in 1..Len(delivered) : delivered[i] = accepted[i]
  BY DEF IndInv, FifoOrder
<1>3. Len(accepted) = Len(delivered)
  BY <1>1, <1>2
<1> QED
  BY <1>1, <1>2, <1>3, SeqEqual

\* Blocked threads of a free mutex have finished: the consumer that sleeps
\* without a token announced its sleep, and no producer is left to signal,
\* so the ring is empty.
LEMMA FreeMutexQuiescent ==
  ASSUME IndInv, AllBlocked, mutex = NoOwner
  PROVE  Quiescent
<1>1. \A p \in Producers : pc[p] = "idle" /\ sent[p] = MaxMessages
  BY DEF IndInv, TypeOK, AllBlocked, Blocked, MayPass
<1>2. pc[Consumer] = "sem_wait" /\ new_msg = 0
  BY DEF IndInv, TypeOK, AllBlocked, Blocked, MayPass
<1>3. waiting
  BY <1>2 DEF IndInv, SleeperHasToken
<1>4. current_size = 0
  BY <1>1, <1>3 DEF IndInv, TypeOK, NoLostWakeup
<1> QED
  BY <1>1, <1>2, <1>4, EmptyIsDelivered DEF Quiescent

\* A blocked owner waits for its own mutex.
LEMMA OwnerWaitsForItself ==
  ASSUME IndInv, KeptMutex, AllBlocked, NEW t \in Threads, mutex = t
  PROVE  WaitsForItself(t)
<1>1. Blocked(t)
  BY DEF AllBlocked
<1>2. CASE t = Consumer
  BY <1>1, <1>2 DEF KeptMutex, Blocked, Section, MayPass, WaitsForItself
<1>3. CASE t \in Producers
  BY <1>1, <1>3 DEF KeptMutex, Blocked, Section, MayPass, WaitsForItself
<1> QED
  BY <1>2, <1>3

\* The queue's threads get stuck in no other way than on a mutex one of them
\* kept: the publish in two critical sections and the semaphore add no
\* deadlock.  A mutex that a second lock by its owner does not block on
\* leaves none at all.
THEOREM NoOtherDeadlock ==
  Spec => /\ []StuckOnlyByKeptMutex
          /\ ~RelockBlocks => [](AllBlocked => Quiescent)
<1>1. IndInv /\ KeptMutex => StuckOnlyByKeptMutex
  <2> SUFFICES ASSUME IndInv, KeptMutex, AllBlocked
               PROVE  Quiescent \/ \E t \in Threads : WaitsForItself(t)
    BY DEF StuckOnlyByKeptMutex
  <2>1. CASE mutex = NoOwner
    BY <2>1, FreeMutexQuiescent
  <2>2. CASE mutex \in Threads
    BY <2>2, OwnerWaitsForItself
  <2> QED
    BY <2>1, <2>2 DEF IndInv, TypeOK
<1>2. ~RelockBlocks /\ StuckOnlyByKeptMutex => (AllBlocked => Quiescent)
  BY DEF StuckOnlyByKeptMutex, WaitsForItself
<1>3. Spec => []StuckOnlyByKeptMutex
  BY <1>1, Invariance, MutexKeptByEarlyReturns, PTL
<1>4. CASE RelockBlocks
  BY <1>3, <1>4
<1>5. CASE ~RelockBlocks
  <2>1. StuckOnlyByKeptMutex => (AllBlocked => Quiescent)
    BY <1>2, <1>5
  <2> QED
    BY <1>3, <2>1, PTL
<1> QED
  BY <1>4, <1>5

-----------------------------------------------------------------------------
(* The queue implements MessageFifo                                        *)

\* A function on 1..n to messages is a sequence of n messages.
LEMMA MessageSeq ==
  ASSUME NEW n \in Nat, NEW f \in [1..n -> Message]
  PROVE  f \in Seq(Message) /\ Len(f) = n
OBVIOUS

\* Read from its tail, the ring is a sequence of messages.
LEMMA ContentsSeq ==
  ASSUME IndInv
  PROVE  /\ Contents \in Seq(Message)
         /\ Len(Contents) = current_size
         /\ \A i \in 1..current_size : Contents[i] = node_list[Slot(tail_pos, i)]
<1>1. current_size \in Nat /\ Len(delivered) \in Nat
  BY DEF IndInv, TypeOK
<1>2. ASSUME NEW i \in 1..current_size
      PROVE  node_list[Slot(tail_pos, i)] \in Message
  <2>1. Len(delivered) + i \in 1..Len(accepted)
    BY <1>1 DEF IndInv, FifoOrder
  <2> QED
    BY <2>1, SMTT(30) DEF IndInv, FifoOrder, TypeOK
<1>3. Contents \in [1..current_size -> Message]
  BY <1>2 DEF Contents
<1> QED
  BY <1>1, <1>3, MessageSeq DEF Contents

\* A step that leaves every slot of the ring alone is a stutter of the fifo.
LEMMA FifoStutter ==
  ASSUME UNCHANGED <<ring, hist>>
  PROVE  UNCHANGED Fifo!vars
BY DEF Fifo!vars, Contents, ring, hist

\* The store touches a slot outside the ring, so the fifo stutters.
LEMMA StoreStutters ==
  ASSUME IndInv, NEW p \in Producers, PushStore(p)
  PROVE  UNCHANGED Fifo!vars
<1>1. /\ tail_pos \in Slots
      /\ current_size \in 0..(Capacity - 1)
      /\ head_pos = Slot(tail_pos, current_size + 1)
      /\ node_list \in [Slots -> Message \cup {Undefined}]
  BY DEF IndInv, TypeOK, HeadAfterNewest, PushStore
<1>2. ASSUME NEW i \in 1..current_size
      PROVE  /\ Slot(tail_pos, i) \in Slots
             /\ Slot(tail_pos, i) # head_pos
  <2>1. /\ i \in 1..Capacity
        /\ current_size + 1 \in 1..Capacity
        /\ i # current_size + 1
        /\ i \in 1..(Capacity + 1)
    BY <1>1
  <2> QED
    BY <1>1, <2>1, SlotFacts
<1>3. /\ node_list' = [node_list EXCEPT ![head_pos] = <<p, sent[p]>>]
      /\ UNCHANGED <<tail_pos, current_size, delivered, undefined_returns>>
  BY DEF PushStore, hist
<1>4. ASSUME NEW i \in 1..current_size
      PROVE  node_list'[Slot(tail_pos, i)] = node_list[Slot(tail_pos, i)]
  BY <1>1, <1>2, <1>3
<1>5. Contents' = Contents
  BY <1>3, <1>4 DEF Contents
<1> QED
  BY <1>3, <1>5 DEF Fifo!vars

\* The advance of a push is the fifo's Publish.
LEMMA AdvancePublishes ==
  ASSUME IndInv, NEW p \in Producers, PushAdvance(p)
  PROVE  \E m \in Message : Fifo!Publish(m)
<1> DEFINE m == <<p, sent[p]>>
<1>1. /\ current_size \in 0..(Capacity - 1)
      /\ node_list[Slot(tail_pos, current_size + 1)] = m
      /\ m \in Message
  BY DEF IndInv, TypeOK, PushInProgress, HeadAfterNewest, PushAdvance
<1>2. /\ current_size' = current_size + 1
      /\ UNCHANGED <<node_list, tail_pos, delivered, undefined_returns>>
  BY DEF PushAdvance
<1> HIDE DEF m
<1>4. /\ Contents \in Seq(Message)
      /\ Len(Contents) = current_size
      /\ \A i \in 1..current_size : Contents[i] = node_list[Slot(tail_pos, i)]
  BY ContentsSeq
<1>5. \A i \in 1..(current_size + 1) :
        /\ Contents'[i] = node_list[Slot(tail_pos, i)]
        /\ Contents'[i] \in Message
  <2>1. ASSUME NEW i \in 1..(current_size + 1)
        PROVE  node_list[Slot(tail_pos, i)] \in Message
    <3>1. CASE i = current_size + 1
      BY <1>1, <3>1
    <3>2. CASE i \in 1..current_size
      BY <1>4, <3>2
    <3> QED
      BY <1>1, <3>1, <3>2
  <2> QED
    BY <1>2, <2>1 DEF Contents
<1>6. /\ Contents' \in Seq(Message)
      /\ Len(Contents') = current_size + 1
  <2>1. Contents' \in [1..(current_size + 1) -> Message]
    BY <1>2, <1>5 DEF Contents
  <2> QED
    BY <1>1, <2>1, MessageSeq
<1>7. /\ Append(Contents, m) \in Seq(Message)
      /\ Len(Append(Contents, m)) = current_size + 1
      /\ \A i \in 1..current_size : Append(Contents, m)[i] = Contents[i]
      /\ Append(Contents, m)[current_size + 1] = m
  BY <1>1, <1>4, AppendProperties
<1>8. ASSUME NEW i \in 1..(current_size + 1)
      PROVE  Contents'[i] = Append(Contents, m)[i]
  <2>1. CASE i = current_size + 1
    BY <1>1, <1>5, <1>7, <2>1
  <2>2. CASE i \in 1..current_size
    BY <1>4, <1>5, <1>7, <2>2, SMTT(30)
  <2>3. i = current_size + 1 \/ i \in 1..current_size
    BY <1>1
  <2> QED
    BY <2>1, <2>2, <2>3
<1>9. Contents' = Append(Contents, m)
  BY <1>6, <1>7, <1>8, SeqEqual
<1> QED
  BY <1>1, <1>2, <1>4, <1>9 DEF Fifo!Publish

\* The advance of a pop is the fifo's Consume.
LEMMA AdvanceConsumes ==
  ASSUME IndInv, PopAdvance
  PROVE  Fifo!Consume
<1>1. /\ tail_pos \in Slots
      /\ current_size \in 1..Capacity
      /\ node = node_list[Slot(tail_pos, 1)]
  BY SlotFacts DEF IndInv, TypeOK, PopInProgress, PopAdvance
<1>2. /\ current_size' = current_size - 1
      /\ tail_pos' = Advance(tail_pos)
      /\ delivered' = Append(delivered, node)
      /\ UNCHANGED <<node_list, undefined_returns>>
  BY DEF PopAdvance
<1>3. /\ Contents \in Seq(Message)
      /\ Len(Contents) = current_size
      /\ \A i \in 1..current_size : Contents[i] = node_list[Slot(tail_pos, i)]
  BY ContentsSeq
<1>4. Contents # <<>> /\ Head(Contents) = node
  BY <1>1, <1>3
<1>5. /\ Tail(Contents) \in Seq(Message)
      /\ Len(Tail(Contents)) = current_size - 1
      /\ \A i \in 1..(current_size - 1) : Tail(Contents)[i] = Contents[i + 1]
  BY <1>3, <1>4, HeadTailProperties
<1>6. ASSUME NEW i \in 1..(current_size - 1)
      PROVE  /\ Contents'[i] = Contents[i + 1]
             /\ Contents[i + 1] \in Message
  <2>1. i \in 1..Capacity /\ i + 1 \in 1..current_size
    BY <1>1
  <2>2. Contents'[i] = node_list[Slot(Advance(tail_pos), i)]
    BY <1>2 DEF Contents
  <2>3. Slot(Advance(tail_pos), i) = Slot(tail_pos, i + 1)
    BY <1>1, <2>1, SlotAfterPop
  <2> QED
    BY <1>3, <2>1, <2>2, <2>3
<1>7. /\ Contents' \in Seq(Message)
      /\ Len(Contents') = current_size - 1
  <2>1. Contents' \in [1..(current_size - 1) -> Message]
    BY <1>2, <1>6 DEF Contents
  <2> QED
    BY <1>1, <2>1, MessageSeq
<1>8. \A i \in 1..(current_size - 1) : Contents'[i] = Tail(Contents)[i]
  BY <1>5, <1>6
<1>9. Contents' = Tail(Contents)
  BY <1>5, <1>7, <1>8, SeqEqual
<1> QED
  BY <1>2, <1>4, <1>9 DEF Fifo!Consume

\* The early return of an empty ring is the fifo's ReturnUndefined.
LEMMA EmptyReturnsUndefined ==
  ASSUME IndInv, PopEmpty
  PROVE  Fifo!ReturnUndefined
<1>1. Contents' = Contents /\ Contents = <<>>
  BY DEF PopEmpty, Contents, ring
<1> QED
  BY <1>1 DEF PopEmpty, Fifo!ReturnUndefined

\* Every step of the queue is a step of the fifo or leaves it alone.
LEMMA NextFifo == IndInv /\ [Next]_vars => [Fifo!Next]_(Fifo!vars)
<1> SUFFICES ASSUME IndInv, [Next]_vars PROVE [Fifo!Next]_(Fifo!vars)
  OBVIOUS
<1>1. ASSUME NEW p \in Producers, PushLock(p) \/ Publishing(p)
      PROVE  [Fifo!Next]_(Fifo!vars)
  <2>1. CASE PushStore(p)
    BY <2>1, StoreStutters
  <2>2. CASE PushAdvance(p)
    BY <2>2, AdvancePublishes DEF Fifo!Next
  <2>3. CASE PushLock(p) \/ PushFull(p) \/ SignalLock(p) \/ Signal(p)
    BY <2>3, FifoStutter DEF PushLock, PushFull, SignalLock, Signal
  <2> QED
    BY <1>1, <2>1, <2>2, <2>3 DEF Publishing
<1>2. CASE Consuming
  <2>1. CASE PopAdvance
    BY <2>1, AdvanceConsumes DEF Fifo!Next
  <2>2. CASE PopEmpty
    BY <2>2, EmptyReturnsUndefined DEF Fifo!Next
  <2>3. CASE WaitLock \/ WaitCheck \/ WaitTest \/ SemWait
    BY <2>3, FifoStutter DEF WaitLock, WaitCheck, WaitTest, SemWait
  <2>4. CASE PopLock \/ PopLoad
    BY <2>4, FifoStutter DEF PopLock, PopLoad
  <2> QED
    BY <1>2, <2>1, <2>2, <2>3, <2>4 DEF Consuming
<1>3. CASE UNCHANGED vars
  BY <1>3, FifoStutter DEF vars
<1> QED
  BY <1>1, <1>2, <1>3 DEF Next

\* The publish queue implements a bounded fifo that drops only what does not
\* fit and that hands out a node nobody published only when it is empty.
THEOREM QueueImplementsFifo == Spec => ImplementsFifo
<1>1. Init => Fifo!Init
  BY DEF Init, Fifo!Init, Contents
<1> QED
  BY <1>1, Invariance, NextFifo, PTL DEF Spec, ImplementsFifo, Fifo!Spec

=============================================================================
