---------------------------- MODULE PublishQueue -----------------------------
(***************************************************************************)
(* The publish queue of the Spresense firmware                             *)
(* (uart_eventpublish/ipc_message_publishqueue.cxx): a ring of message     *)
(* nodes behind one mutex, filled by any thread that publishes and drained *)
(* by the UART publish thread, which sleeps on a semaphore when the ring   *)
(* is empty.                                                               *)
(*                                                                         *)
(* One step is what a thread does between two points where another thread  *)
(* can see or disturb it.  The mutex is a variable with an owner, because  *)
(* two early returns of the code keep it; what a second lock by its owner  *)
(* does is the RTOS's choice, and RelockBlocks is that choice.             *)
(***************************************************************************)
EXTENDS Naturals, Sequences, FiniteSets

CONSTANTS
    Producers,     \* threads that call ipc_publish_message
    Consumer,      \* the UART publish thread
    NoOwner,       \* "nobody holds the mutex"
    Undefined,     \* the contents of a node nothing was stored in
    Capacity,      \* IPC_QUEUE_MAX_NUM_ELEMENTS
    MaxMessages,   \* bound: messages each producer publishes
    RelockBlocks   \* a lock by the owner: TRUE blocks, FALSE returns EDEADLK

ASSUME CapacityAssumption == Capacity \in Nat \ {0}
ASSUME MaxMessagesAssumption == MaxMessages \in Nat
ASSUME RelockAssumption == RelockBlocks \in BOOLEAN
ASSUME ThreadAssumption ==
    /\ Consumer \notin Producers
    /\ NoOwner \notin Producers \cup {Consumer}
ASSUME UndefinedAssumption == Undefined \notin Producers \X (1..MaxMessages)

Threads == Producers \cup {Consumer}
Message == Producers \X (1..MaxMessages)
Slots   == 0..(Capacity - 1)

VARIABLES
    mutex,               \* ipc_message_node_muttx: its owner
    node_list,           \* the ring
    head_pos,            \* where the next message goes
    tail_pos,            \* where the oldest message is
    current_size,        \* messages in the ring
    waiting,             \* the consumer announced that it sleeps
    new_msg,             \* new_msg_mp: the semaphore's count
    pc,                  \* where each thread is
    sent,                \* messages each producer has begun to publish
    node,                \* the consumer's local node
    accepted,            \* history: messages stored in the ring, in order
    delivered,           \* history: messages the consumer was handed
    undefined_returns    \* history: calls that returned an unset node

ring == <<node_list, head_pos, tail_pos, current_size>>
hist == <<accepted, delivered, undefined_returns>>
vars == <<mutex, ring, waiting, new_msg, pc, sent, node, hist>>

ProducerLabels == {"idle", "push", "push_advance", "signal_lock", "signal"}
ConsumerLabels == {"idle", "wait", "wait_test", "sem_wait",
                   "pop_lock", "pop", "pop_advance"}

\* The labels between a pthread_mutex_lock and the matching unlock.
Section == {"push", "push_advance", "signal", "wait", "pop", "pop_advance"}

-----------------------------------------------------------------------------
(* The mutex and the ring positions                                        *)

Goto(t, l) == pc' = [pc EXCEPT ![t] = l]

\* A thread may pass pthread_mutex_lock, whose result no caller looks at.
MayPass(t) == mutex = NoOwner \/ (mutex = t /\ ~RelockBlocks)

Lock(t)   == MayPass(t) /\ mutex' = t
Unlock(t) == mutex' = NoOwner

Advance(pos) == IF pos + 1 = Capacity THEN 0 ELSE pos + 1

\* The slot of the i-th oldest message of a ring whose oldest is at tail.
Slot(tail, i) == IF tail + i - 1 < Capacity
                 THEN tail + i - 1
                 ELSE tail + i - 1 - Capacity

\* The ring read from its oldest message to its newest.
Contents == [i \in 1..current_size |-> node_list[Slot(tail_pos, i)]]

Init ==
    /\ mutex = NoOwner
    /\ node_list = [s \in Slots |-> Undefined]
    /\ head_pos = 0
    /\ tail_pos = 0
    /\ current_size = 0
    /\ waiting = FALSE
    /\ new_msg = 0
    /\ pc = [t \in Threads |-> "idle"]
    /\ sent = [p \in Producers |-> 0]
    /\ node = Undefined
    /\ accepted = <<>>
    /\ delivered = <<>>
    /\ undefined_returns = 0

-----------------------------------------------------------------------------
(* A producer: ipc_publish_message = push, then signal                     *)

\* Mutant: push does not take the mutex.
PushWithoutLock(p) ==
    /\ pc[p] = "idle"
    /\ sent[p] < MaxMessages
    /\ sent' = [sent EXCEPT ![p] = @ + 1]
    /\ Goto(p, "push")
    /\ UNCHANGED <<mutex, ring, waiting, new_msg, node, hist>>

PushLock(p) ==
    /\ pc[p] = "idle"
    /\ sent[p] < MaxMessages
    /\ Lock(p)
    /\ sent' = [sent EXCEPT ![p] = @ + 1]
    /\ Goto(p, "push")
    /\ UNCHANGED <<ring, waiting, new_msg, node, hist>>

\* The early return of a full ring: the mutex is not given back.
PushFull(p) ==
    /\ pc[p] = "push"
    /\ current_size = Capacity
    /\ Goto(p, "signal_lock")
    /\ UNCHANGED <<mutex, ring, waiting, new_msg, sent, node, hist>>

\* Mutant: push does not look whether the ring is full.
PushStoreUnchecked(p) ==
    /\ pc[p] = "push"
    /\ node_list' = [node_list EXCEPT ![head_pos] = <<p, sent[p]>>]
    /\ Goto(p, "push_advance")
    /\ UNCHANGED <<mutex, head_pos, tail_pos, current_size, waiting, new_msg,
                   sent, node, hist>>

PushStore(p) ==
    /\ pc[p] = "push"
    /\ current_size # Capacity
    /\ node_list' = [node_list EXCEPT ![head_pos] = <<p, sent[p]>>]
    /\ Goto(p, "push_advance")
    /\ UNCHANGED <<mutex, head_pos, tail_pos, current_size, waiting, new_msg,
                   sent, node, hist>>

\* Mutant: a publish pushes and forgets to signal.
PushWithoutSignal(p) ==
    /\ pc[p] = "push_advance"
    /\ head_pos' = Advance(head_pos)
    /\ current_size' = current_size + 1
    /\ accepted' = Append(accepted, <<p, sent[p]>>)
    /\ Unlock(p)
    /\ Goto(p, "idle")
    /\ UNCHANGED <<node_list, tail_pos, waiting, new_msg, sent, node,
                   delivered, undefined_returns>>

PushAdvance(p) ==
    /\ pc[p] = "push_advance"
    /\ head_pos' = Advance(head_pos)
    /\ current_size' = current_size + 1
    /\ accepted' = Append(accepted, <<p, sent[p]>>)
    /\ Unlock(p)
    /\ Goto(p, "signal_lock")
    /\ UNCHANGED <<node_list, tail_pos, waiting, new_msg, sent, node,
                   delivered, undefined_returns>>

SignalLock(p) ==
    /\ pc[p] = "signal_lock"
    /\ Lock(p)
    /\ Goto(p, "signal")
    /\ UNCHANGED <<ring, waiting, new_msg, sent, node, hist>>

\* Mutant: the flag is cleared and the semaphore is not posted.
SignalWithoutPost(p) ==
    /\ pc[p] = "signal"
    /\ waiting' = FALSE
    /\ Unlock(p)
    /\ Goto(p, "idle")
    /\ UNCHANGED <<ring, new_msg, sent, node, hist>>

\* Mutant: the signal keeps the mutex too.
SignalKeepsMutex(p) ==
    /\ pc[p] = "signal"
    /\ waiting' = FALSE
    /\ new_msg' = IF waiting THEN new_msg + 1 ELSE new_msg
    /\ Goto(p, "idle")
    /\ UNCHANGED <<mutex, ring, sent, node, hist>>

Signal(p) ==
    /\ pc[p] = "signal"
    /\ waiting' = FALSE
    /\ new_msg' = IF waiting THEN new_msg + 1 ELSE new_msg
    /\ Unlock(p)
    /\ Goto(p, "idle")
    /\ UNCHANGED <<ring, sent, node, hist>>

-----------------------------------------------------------------------------
(* The consumer: ipc_block_consume_new_event = wait, then pop              *)

WaitLock ==
    /\ pc[Consumer] = "idle"
    /\ Lock(Consumer)
    /\ Goto(Consumer, "wait")
    /\ UNCHANGED <<ring, waiting, new_msg, sent, node, hist>>

\* Mutant: the consumer announces its sleep without looking at the ring.
WaitAlways ==
    /\ pc[Consumer] = "wait"
    /\ waiting' = TRUE
    /\ Unlock(Consumer)
    /\ Goto(Consumer, "wait_test")
    /\ UNCHANGED <<ring, new_msg, sent, node, hist>>

WaitCheck ==
    /\ pc[Consumer] = "wait"
    /\ waiting' = IF current_size = 0 THEN TRUE ELSE waiting
    /\ Unlock(Consumer)
    /\ Goto(Consumer, "wait_test")
    /\ UNCHANGED <<ring, new_msg, sent, node, hist>>

\* The loop's condition, read without the mutex.
WaitTest ==
    /\ pc[Consumer] = "wait_test"
    /\ Goto(Consumer, IF waiting THEN "sem_wait" ELSE "pop_lock")
    /\ UNCHANGED <<mutex, ring, waiting, new_msg, sent, node, hist>>

SemWait ==
    /\ pc[Consumer] = "sem_wait"
    /\ new_msg > 0
    /\ new_msg' = new_msg - 1
    /\ Goto(Consumer, "wait_test")
    /\ UNCHANGED <<mutex, ring, waiting, sent, node, hist>>

PopLock ==
    /\ pc[Consumer] = "pop_lock"
    /\ Lock(Consumer)
    /\ node' = Undefined
    /\ Goto(Consumer, "pop")
    /\ UNCHANGED <<ring, waiting, new_msg, sent, hist>>

\* The early return of an empty ring: the mutex is not given back, and the
\* caller returns the node it never set.
PopEmpty ==
    /\ pc[Consumer] = "pop"
    /\ current_size = 0
    /\ undefined_returns' = undefined_returns + 1
    /\ Goto(Consumer, "idle")
    /\ UNCHANGED <<mutex, ring, waiting, new_msg, sent, node, accepted,
                   delivered>>

PopLoad ==
    /\ pc[Consumer] = "pop"
    /\ current_size # 0
    /\ node' = node_list[tail_pos]
    /\ Goto(Consumer, "pop_advance")
    /\ UNCHANGED <<mutex, ring, waiting, new_msg, sent, hist>>

PopAdvance ==
    /\ pc[Consumer] = "pop_advance"
    /\ current_size' = current_size - 1
    /\ tail_pos' = Advance(tail_pos)
    /\ delivered' = Append(delivered, node)
    /\ Unlock(Consumer)
    /\ Goto(Consumer, "idle")
    /\ UNCHANGED <<node_list, head_pos, waiting, new_msg, sent, node,
                   accepted, undefined_returns>>

-----------------------------------------------------------------------------
(* The specification                                                       *)

\* What a producer does once it is inside ipc_publish_message.
Publishing(p) ==
    \/ PushFull(p) \/ PushStore(p) \/ PushAdvance(p)
    \/ SignalLock(p) \/ Signal(p)

Consuming ==
    \/ WaitLock \/ WaitCheck \/ WaitTest \/ SemWait
    \/ PopLock \/ PopEmpty \/ PopLoad \/ PopAdvance

Next ==
    \/ \E p \in Producers : PushLock(p) \/ Publishing(p)
    \/ Consuming

Spec == Init /\ [][Next]_vars

\* The scheduler runs every thread that can run (round robin, one priority);
\* nothing obliges a producer to publish.
Fairness ==
    /\ \A p \in Producers : WF_vars(Publishing(p))
    /\ WF_vars(Consuming)

FairSpec == Spec /\ Fairness

-----------------------------------------------------------------------------
(* Properties                                                              *)

\* Every variable of the queue and of its threads holds a value of its type:
\* no position leaves the ring, no size exceeds its capacity.
TypeOK ==
    /\ mutex \in Threads \cup {NoOwner}
    /\ node_list \in [Slots -> Message \cup {Undefined}]
    /\ head_pos \in Slots
    /\ tail_pos \in Slots
    /\ current_size \in 0..Capacity
    /\ waiting \in BOOLEAN
    /\ new_msg \in Nat
    /\ pc \in [Threads -> ProducerLabels \cup ConsumerLabels]
    /\ \A p \in Producers : pc[p] \in ProducerLabels
    /\ pc[Consumer] \in ConsumerLabels
    /\ sent \in [Producers -> 0..MaxMessages]
    /\ node \in Message \cup {Undefined}
    /\ accepted \in Seq(Message)
    /\ delivered \in Seq(Message)
    /\ undefined_returns \in Nat

\* The push and the pop of the code keep the order of publication and lose,
\* repeat or invent nothing, whatever the producers and the consumer
\* interleave: what was accepted is what was delivered followed by what the
\* ring holds, slot by slot across the wrap-around.
FifoOrder ==
    /\ Len(accepted) = Len(delivered) + current_size
    /\ \A i \in 1..Len(delivered) : delivered[i] = accepted[i]
    /\ \A i \in 1..current_size :
          node_list[Slot(tail_pos, i)] = accepted[Len(delivered) + i]

\* _signal_new_event and _ipc_msg_queue_wait_new_event never lose a wakeup
\* although push and signal are two critical sections: if the consumer
\* announced that it sleeps while the ring holds a message, some producer
\* still has to signal.
NoLostWakeup ==
    waiting /\ current_size > 0 =>
        \E p \in Producers : pc[p] \in {"signal_lock", "signal"}

\* A consumer about to call sem_wait after a producer cleared the flag finds
\* the token that producer posted: the unlocked test of the flag and the
\* post cannot miss each other.
SleeperHasToken ==
    pc[Consumer] = "sem_wait" /\ ~waiting => new_msg > 0

\* A thread between a lock and its unlock owns the mutex.
MutexHeld == \A t \in Threads : pc[t] \in Section => mutex = t

\* The head is the slot after the newest message.
HeadAfterNewest == head_pos = Slot(tail_pos, current_size + 1)

\* Between its store and its advance a producer has room for its message,
\* and the message is in the slot it stored to.
PushInProgress ==
    \A p \in Producers :
        /\ pc[p] \in {"push", "push_advance"} => sent[p] > 0
        /\ pc[p] = "push_advance" =>
              /\ current_size < Capacity
              /\ node_list[head_pos] = <<p, sent[p]>>

\* Between its load and its advance the consumer holds the oldest message.
PopInProgress ==
    pc[Consumer] = "pop_advance" =>
        /\ current_size > 0
        /\ node = node_list[tail_pos]

\* The inductive invariant of the queue: the mutex excludes, the ring's
\* positions and size describe one segment of it, and under them the order
\* and the wakeup hold.  Every other safety result follows from it.
IndInv ==
    /\ TypeOK
    /\ MutexHeld
    /\ HeadAfterNewest
    /\ PushInProgress
    /\ PopInProgress
    /\ FifoOrder
    /\ NoLostWakeup
    /\ SleeperHasToken

\* Thread t waits for a mutex it holds itself: it came from an early return
\* that kept the mutex.
WaitsForItself(t) ==
    /\ RelockBlocks
    /\ mutex = t
    /\ pc[t] \in {"idle", "signal_lock", "pop_lock"}

\* Everything was published and consumed, and the consumer sleeps.
Quiescent ==
    /\ \A p \in Producers : pc[p] = "idle" /\ sent[p] = MaxMessages
    /\ pc[Consumer] = "sem_wait"
    /\ accepted = delivered

\* Thread t cannot take a step: it waits for the mutex or for a token, or it
\* is a producer with nothing left to publish.
Blocked(t) ==
    \/ pc[t] \in {"idle", "signal_lock", "pop_lock"} /\ ~MayPass(t)
    \/ t \in Producers /\ pc[t] = "idle" /\ sent[t] = MaxMessages
    \/ pc[t] = "sem_wait" /\ new_msg = 0

AllBlocked == \A t \in Threads : Blocked(t)

\* The threads of the queue are never all stuck, except when the work is
\* done or when a thread waits for a mutex it kept on an early return: the
\* two-section publish and the semaphore add no deadlock of their own.
StuckOnlyByKeptMutex ==
    AllBlocked => Quiescent \/ \E t \in Threads : WaitsForItself(t)

\* Only the early returns of a full and of an empty ring keep the mutex: a
\* thread that owns it is between a lock and its unlock, or a producer on
\* its way to signal, or the consumer between two calls.
KeptMutex ==
    \A t \in Threads :
       mutex = t => \/ pc[t] \in Section
                    \/ t \in Producers /\ pc[t] = "signal_lock"
                    \/ t = Consumer /\ pc[t] = "idle"

\* The header's "Blocks until there's an event in queue, then consumes that
\* event": every call of ipc_block_consume_new_event returns a published
\* message.
ConsumesAnEvent == undefined_returns = 0

\* A queue that keeps its order and drops only what does not fit: the
\* specification of MessageFifo, whose queue is the ring read from the tail.
Fifo == INSTANCE MessageFifo WITH pending <- Contents
ImplementsFifo == Fifo!Spec

\* Where a second lock by the owner returns an error, every message the ring
\* accepts is handed to the consumer, the full and the empty early returns
\* included.
Delivery ==
    \A n \in 1..(Cardinality(Producers) * MaxMessages) :
        Len(accepted) >= n ~> Len(delivered) >= n

\* A publish always returns, also when the ring is full.
PublishReturns ==
    \A p \in Producers : pc[p] = "push" ~> pc[p] = "idle"

=============================================================================
