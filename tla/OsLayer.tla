------------------------------- MODULE OsLayer -------------------------------
(***************************************************************************)
(* The OS abstraction (CSAL): a bounded queue under a mutex, a word of     *)
(* bits to signal and wait for, and a counting semaphore, used by threads  *)
(* at will.  A time-out is passed on as if it were a time of day, which    *)
(* has long passed: a timed call never waits.                              *)
(***************************************************************************)
EXTENDS Integers, FiniteSets

CONSTANTS
    Threads,
    max_elements,    \* of the queue
    Bits,            \* bits that are signalled, out of 0..31
    SemCount,        \* of the semaphore
    MaxOps           \* bound: calls of the queue

ASSUME OsAssumption ==
    /\ max_elements \in Nat /\ SemCount \in Nat /\ MaxOps \in Nat
    /\ "free" \notin Threads

VARIABLES
    head, tail, current_num_elements, slots,   \* the queue; slots: queue->data
    queue_lock,                     \* its mutex: a thread, or "free"
    qpc, op, position, count,       \* a call: label, kind, and what it loaded
    ops,                            \* queue calls made
    pushes, pops,                   \* history: elements stored and passed
    unlocked,                       \* history: a call went on without the lock
    bits, sem_wait, bit_sem,        \* the bits
    bpc, bit, loaded,               \* a signal: label, bit, and the word it loaded
    asked,                          \* history: bits signalled and not cleared
    overtaken,                      \* history: threads whose loaded word is old
    upset,                          \* history: see SignalStore and os_clearbits
    semcount,                       \* the semaphore
    ret                             \* what the last call returned

queue == <<head, tail, current_num_elements, slots, queue_lock, qpc, op,
           position, count, ops, pushes, pops, unlocked>>
setbits == <<bits, sem_wait, bit_sem, bpc, bit, loaded, asked, overtaken, upset>>
ovars == <<queue, setbits, semcount, ret>>

\* The error an operating system call returned.
posix_os_ret_error_conv(err) ==
    CASE err = "EAGAIN" -> "NO_MORE_RESOURCES" [] err = "ENOMEM" -> "LOW_MEM_ERROR"
      [] err = "EBUSY" -> "TIMEOUT" [] err = "EINVAL" -> "INVALID_PARAM"
      [] err = "EDEADLK" -> "DEADLOCK" [] err = "EPERM" -> "NOT_OWNED"
      [] err = "ENOSYS" -> "UNSUPPORTED_FEATURES" [] err = "0" -> "OK"
      [] OTHER -> "UNDEFINED_ERROR"
Conv(err) == ret' = posix_os_ret_error_conv(err)

\* What the memory of the queue holds where nothing was pushed; elements are
\* numbered as they are pushed.
Junk == 0

\* sem_wait is not initialised.
OsInit ==
    /\ head = 0 /\ tail = 0 /\ current_num_elements = 0
    /\ slots = [n \in 0..(max_elements - 1) |-> Junk] /\ queue_lock = "free"
    /\ qpc = [t \in Threads |-> "idle"] /\ op = [t \in Threads |-> "push"]
    /\ position = [t \in Threads |-> 0] /\ count = [t \in Threads |-> 0]
    /\ ops = 0 /\ pushes = 0 /\ pops = 0 /\ unlocked = FALSE
    /\ bits = {} /\ sem_wait \in BOOLEAN /\ bit_sem = 0
    /\ bpc = [t \in Threads |-> "idle"] /\ bit = [t \in Threads |-> 0]
    /\ loaded = [t \in Threads |-> {}]
    /\ asked = {} /\ overtaken = {} /\ upset = FALSE
    /\ semcount = SemCount /\ ret = "OK"

-----------------------------------------------------------------------------
(* The queue                                                               *)

QueueAt(t, l) == qpc' = [qpc EXCEPT ![t] = l]

Begin(t, o) ==
    /\ qpc[t] = "idle" /\ ops < MaxOps
    /\ op' = [op EXCEPT ![t] = o] /\ ops' = ops + 1 /\ QueueAt(t, "check")
    /\ UNCHANGED <<head, tail, current_num_elements, slots, position, count,
                   pushes, pops, setbits, semcount>>

\* The caller does not look at what this returns.
os_mut_entry(t) ==
    \/ queue_lock = "free" /\ queue_lock' = t /\ Conv("0") /\ UNCHANGED unlocked
    \/ /\ queue_lock # "free" /\ Conv("ETIMEDOUT")
       /\ unlocked' = TRUE /\ UNCHANGED queue_lock

os_mut_entry_wait_indefinite(t) ==
    queue_lock = "free" /\ queue_lock' = t /\ Conv("0") /\ UNCHANGED unlocked

os_queue_push_timeout(t)    == Begin(t, "push") /\ os_mut_entry(t)
os_queue_pop_timeout(t)     == Begin(t, "pop") /\ os_mut_entry(t)
os_queue_push_indefinite(t) == Begin(t, "push") /\ os_mut_entry_wait_indefinite(t)
os_queue_pop_indefinite(t)  == Begin(t, "pop") /\ os_mut_entry_wait_indefinite(t)

\* A full queue refuses and an empty one has nothing, however the call waits.
QueueCheck(t) ==
    /\ qpc[t] = "check"
    /\ LET refused == current_num_elements = IF op[t] = "push" THEN max_elements ELSE 0
       IN  /\ QueueAt(t, IF refused THEN "exit" ELSE "load")
           /\ ret' = IF refused /\ op[t] = "push" THEN "LIST_EMPTY" ELSE "OK"
    /\ UNCHANGED <<head, tail, current_num_elements, slots, queue_lock, op, position,
                   count, ops, pushes, pops, unlocked, setbits, semcount>>

QueueLoad(t) ==
    /\ qpc[t] = "load" /\ QueueAt(t, "store")
    /\ position' = [position EXCEPT ![t] = IF op[t] = "push" THEN head ELSE tail]
    /\ count' = [count EXCEPT ![t] = current_num_elements]
    /\ UNCHANGED <<head, tail, current_num_elements, slots, queue_lock, op, ops,
                   pushes, pops, unlocked, setbits, semcount, ret>>

\* A store past the memory of the queue is undefined: no step.
Place(t, what) ==
    /\ position[t] \in DOMAIN slots
    /\ slots' = [slots EXCEPT ![position[t]] = what]

\* Mutant: the number of elements is not kept.
push_uncounted(t) ==
    /\ qpc[t] = "store" /\ op[t] = "push" /\ QueueAt(t, "exit")
    /\ Place(t, pushes + 1) /\ head' = position[t] + 1 /\ pushes' = pushes + 1
    /\ UNCHANGED <<tail, current_num_elements, queue_lock, op, position, count, ops,
                   pops, unlocked, setbits, semcount, ret>>

push_element(t) ==
    /\ qpc[t] = "store" /\ op[t] = "push" /\ QueueAt(t, "exit")
    /\ Place(t, pushes + 1) /\ head' = position[t] + 1 /\ pushes' = pushes + 1
    /\ current_num_elements' = count[t] + 1
    /\ UNCHANGED <<tail, queue_lock, op, position, count, ops, pops, unlocked, setbits,
                   semcount, ret>>

\* The slot is overwritten with what it is assigned to, and nothing returned.
pop_element(t) ==
    /\ qpc[t] = "store" /\ op[t] = "pop" /\ QueueAt(t, "exit")
    /\ Place(t, Junk) /\ tail' = position[t] + 1 /\ pops' = pops + 1
    /\ current_num_elements' = count[t] - 1
    /\ UNCHANGED <<head, queue_lock, op, position, count, ops, pushes, unlocked,
                   setbits, semcount, ret>>

\* Who does not hold the mutex does not release it.
os_mut_exit(t) ==
    /\ qpc[t] = "exit" /\ QueueAt(t, "idle")
    /\ \/ queue_lock = t /\ queue_lock' = "free" /\ Conv("0")
       \/ queue_lock # t /\ UNCHANGED queue_lock /\ Conv("EPERM")
    /\ UNCHANGED <<head, tail, current_num_elements, slots, op, position, count, ops,
                   pushes, pops, unlocked, setbits, semcount>>

QueueCall(t) ==
    \/ os_queue_push_timeout(t) \/ os_queue_push_indefinite(t)
    \/ os_queue_pop_timeout(t) \/ os_queue_pop_indefinite(t)
    \/ QueueCheck(t) \/ QueueLoad(t) \/ push_element(t) \/ pop_element(t)
    \/ os_mut_exit(t)

-----------------------------------------------------------------------------
(* The bits                                                                *)

BitAt(t, l) == bpc' = [bpc EXCEPT ![t] = l]

\* Other signals that have loaded the word will store an old one.
Overtakes(t) == overtaken' = overtaken \cup {u \in Threads \ {t} : bpc[u] = "store"}

SignalLoad(t, b) ==
    /\ bpc[t] = "idle" /\ BitAt(t, "store")
    /\ bit' = [bit EXCEPT ![t] = b] /\ loaded' = [loaded EXCEPT ![t] = bits]
    /\ overtaken' = overtaken \ {t}
    /\ UNCHANGED <<queue, bits, sem_wait, bit_sem, asked, upset, semcount, ret>>

\* Mutant: the other bits are not kept.
SignalStoreOnly(t) ==
    /\ bpc[t] = "store" /\ BitAt(t, "look")
    /\ bits' = {bit[t]} /\ asked' = asked \cup {bit[t]}
    /\ Overtakes(t) /\ upset' = (upset \/ t \in overtaken)
    /\ UNCHANGED <<queue, sem_wait, bit_sem, bit, loaded, semcount, ret>>

\* An old word that is stored upsets the bits.
SignalStore(t) ==
    /\ bpc[t] = "store" /\ BitAt(t, "look")
    /\ bits' = loaded[t] \cup {bit[t]} /\ asked' = asked \cup {bit[t]}
    /\ Overtakes(t) /\ upset' = (upset \/ t \in overtaken)
    /\ UNCHANGED <<queue, sem_wait, bit_sem, bit, loaded, semcount, ret>>

\* One bit is named and all are cleared, which upsets the others.
os_clearbits(t, b) ==
    /\ bpc[t] = "idle" /\ BitAt(t, "look")
    /\ bits' = {} /\ asked' = asked \ {b}
    /\ Overtakes(t) /\ upset' = (upset \/ bits \ {b} # {})
    /\ UNCHANGED <<queue, sem_wait, bit_sem, bit, loaded, semcount, ret>>

\* A signal or a clear ends with the flag of a waiting thread.
LookForWaiter(t) ==
    /\ bpc[t] = "look" /\ BitAt(t, IF sem_wait THEN "post" ELSE "idle")
    /\ ret' = "OK"
    /\ UNCHANGED <<queue, bits, sem_wait, bit_sem, bit, loaded, asked, overtaken,
                   upset, semcount>>

PostWaiter(t) ==
    /\ bpc[t] = "post" /\ BitAt(t, "idle")
    /\ sem_wait' = FALSE /\ bit_sem' = bit_sem + 1
    /\ UNCHANGED <<queue, bits, bit, loaded, asked, overtaken, upset, semcount, ret>>

\* With any bit set the wait is over, and with none the loop is not entered:
\* its condition asks whether 1 << bit is zero.
os_waitbits(t) ==
    /\ bpc[t] = "idle" /\ ret' = "OK"
    /\ UNCHANGED <<queue, setbits, semcount>>

BitCall(t) ==
    \/ \E b \in Bits : SignalLoad(t, b) \/ os_clearbits(t, b)
    \/ SignalStore(t) \/ LookForWaiter(t) \/ PostWaiter(t)
    \/ os_waitbits(t)

-----------------------------------------------------------------------------
(* The semaphore, which has no call that gives it back                     *)

SemTaken == semcount > 0 /\ semcount' = semcount - 1 /\ Conv("0")

\* At zero the timed call and the trial fail with -1, which is no error code.
os_sem_entry ==
    /\ SemTaken \/ (semcount = 0 /\ UNCHANGED semcount /\ Conv("-1"))
    /\ UNCHANGED <<queue, setbits>>

os_sem_entry_wait_indefinite == SemTaken /\ UNCHANGED <<queue, setbits>>

OsNext ==
    \/ \E t \in Threads : QueueCall(t) \/ BitCall(t)
    \/ os_sem_entry \/ os_sem_entry_wait_indefinite

OsSpec == OsInit /\ [][OsNext]_ovars

-----------------------------------------------------------------------------
(* Properties                                                              *)

\* As long as every call got the lock, the queue between calls holds what was
\* pushed and not popped, oldest first, and counts it; and the first access
\* past its memory, if any, is a push after as many pushes as it has room
\* for, however many elements were popped.
LockedQueueHolds ==
    ~unlocked =>
        /\ queue_lock = "free" =>
              /\ current_num_elements = pushes - pops
              /\ current_num_elements \in 0..max_elements
              /\ \A k \in 1..current_num_elements : slots[tail + k - 1] = pops + k
        /\ \A t \in Threads : qpc[t] = "store" /\ position[t] \notin DOMAIN slots =>
              op[t] = "push" /\ pushes = max_elements

\* The word holds the bits that were signalled and not cleared, unless a
\* signal stored a word that another call had changed since it was loaded, or
\* a clear took more than its bit.
WordHoldsSignals == ~upset => bits = asked

=============================================================================
