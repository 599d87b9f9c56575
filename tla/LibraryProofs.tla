---------------------------- MODULE LibraryProofs -----------------------------
(***************************************************************************)
(* The libraries below the services: the state machine for every table,    *)
(* the OS abstraction's queue and bits for any number of threads and bits, *)
(* the device handles and pins of the hardware abstraction for tables of   *)
(* any size, and the colours on the strip's wire.                          *)
(***************************************************************************)
EXTENDS StateMachine, OsLayer, Devices, LedDrivers, TLAPS

-----------------------------------------------------------------------------
(* The state machine: the state that is stored is the one that was         *)
(* entered, whatever calls its functions make                              *)

USE StateMachineAssumption

\* The outermost call that has its next state entered that one, if nothing
\* diverts the machine; calls within it came after that.
EnteredStored ==
    /\ stack = <<>> => current_state = entered
    /\ \A k \in 1..Len(stack) :
          stack[k].at = "store" /\ (\A j \in 1..k - 1 : stack[j].at # "store") =>
              stack[k].by # "set" /\ stack[k].next = entered

SMInv == (\E S : stack \in Seq(S)) /\ (~diverted => EnteredStored)

-----------------------------------------------------------------------------

\* The invariant holds of a new machine.
LEMMA SMInitInv == SMInit => SMInv
BY DEF SMInit, init_new_statemachine, SMInv, EnteredStored

\* A call that begins has no next state yet.
LEMMA StartKeeps ==
  ASSUME SMInv, NEW call, stack' = Append(stack, call), call.at = "exit",
         UNCHANGED <<current_state, history>>
  PROVE  SMInv'
<1>1. PICK S : stack \in Seq(S)
  BY DEF SMInv
<1>2. stack' \in Seq(S \cup {call})
  BY <1>1
<1>3. /\ Len(stack) \in Nat /\ Len(stack') = Len(stack) + 1 /\ stack' # <<>>
      /\ stack'[Len(stack) + 1] = call
      /\ \A k \in 1..Len(stack) : stack'[k] = stack[k]
  BY <1>1
<1>4. ASSUME ~diverted' PROVE EnteredStored'
  <2>1. EnteredStored /\ entered' = entered
    BY <1>4 DEF SMInv, history
  <2>2. ASSUME NEW k \in 1..Len(stack'), stack'[k].at = "store",
               \A j \in 1..k - 1 : stack'[j].at # "store"
        PROVE  stack'[k].by # "set" /\ stack'[k].next = entered'
    <3>1. k # Len(stack) + 1
      BY <1>3, <2>2
    <3>2. k \in 1..Len(stack) /\ \A j \in 1..k - 1 : j \in 1..Len(stack)
      BY <1>3, <3>1
    <3> QED
      BY <1>3, <2>1, <2>2, <3>2 DEF EnteredStored
  <2> QED
    BY <1>3, <2>2 DEF EnteredStored
<1> QED
  BY <1>2, <1>4 DEF SMInv

\* A function of the innermost call returns.
LEMMA GoOnStack ==
  ASSUME SMInv, stack # <<>>, NEW label, NEW next, GoOn(label, next)
  PROVE  /\ Len(stack) \in Nat \ {0} /\ Len(stack') = Len(stack) /\ stack' # <<>>
         /\ \E S : stack' \in Seq(S)
         /\ stack'[Len(stack)].at = label /\ stack'[Len(stack)].next = next
         /\ stack'[Len(stack)].by = Top.by
         /\ \A k \in 1..Len(stack) - 1 : stack'[k] = stack[k]
<1> DEFINE f == [by |-> Top.by, event |-> Top.event, at |-> label,
                 from |-> Top.from, next |-> next]
<1>1. PICK S : stack \in Seq(S)
  BY DEF SMInv
<1>2. stack' = [stack EXCEPT ![Len(stack)] = f]
  BY DEF GoOn
<1>3. f.at = label /\ f.next = next /\ f.by = Top.by
  OBVIOUS
<1> HIDE DEF f
<1>4. stack' \in Seq(S \cup {f})
  BY <1>1, <1>2
<1>5. /\ Len(stack) \in Nat \ {0} /\ Len(stack') = Len(stack) /\ stack'[Len(stack)] = f
      /\ \A k \in 1..Len(stack) - 1 : stack'[k] = stack[k]
  BY <1>1, <1>2
<1> QED
  BY <1>3, <1>4, <1>5

\* Exit and event functions redirect before a state is entered.
LEMMA RunKeeps ==
  ASSUME SMInv, RunExit \/ RunEvent
  PROVE  SMInv'
<1>1. PICK label, next : label \in {"event", "entry"} /\ GoOn(label, next)
  BY DEF RunExit, RunEvent
<1>2. stack # <<>> /\ UNCHANGED <<current_state, history>>
  BY DEF RunExit, RunEvent, machine
<1>3. /\ Len(stack) \in Nat \ {0} /\ Len(stack') = Len(stack) /\ stack' # <<>>
      /\ (\E S : stack' \in Seq(S)) /\ stack'[Len(stack)].at # "store"
      /\ \A k \in 1..Len(stack) - 1 : stack'[k] = stack[k]
  BY <1>1, <1>2, GoOnStack
<1>4. ASSUME ~diverted' PROVE EnteredStored'
  <2>1. EnteredStored /\ entered' = entered
    BY <1>2, <1>4 DEF SMInv, history
  <2>2. ASSUME NEW k \in 1..Len(stack'), stack'[k].at = "store",
               \A j \in 1..k - 1 : stack'[j].at # "store"
        PROVE  stack'[k].by # "set" /\ stack'[k].next = entered'
    <3>1. k \in 1..Len(stack) - 1 /\ \A j \in 1..k - 1 : j \in 1..Len(stack) - 1
      BY <1>3, <2>2
    <3> QED
      BY <1>3, <2>1, <2>2, <3>1 DEF EnteredStored
  <2> QED
    BY <1>3, <2>2 DEF EnteredStored
<1> QED
  BY <1>3, <1>4 DEF SMInv

\* An entry function that does not divert runs in the outermost call that
\* has its next state.
LEMMA RunEntryKeeps ==
  ASSUME SMInv, RunEntry
  PROVE  SMInv'
<1>1. PICK next : GoOn("store", next) /\ diverted' = (next # Top.next \/ Top.by = "set" \/ Storing)
  BY DEF RunEntry
<1>2. stack # <<>> /\ entered' = Top.next
  BY DEF RunEntry
<1>3. /\ Len(stack) \in Nat \ {0} /\ Len(stack') = Len(stack) /\ stack' # <<>>
      /\ \E S : stack' \in Seq(S)
      /\ stack'[Len(stack)].next = next /\ stack'[Len(stack)].by = Top.by
      /\ \A k \in 1..Len(stack) - 1 : stack'[k] = stack[k]
  BY <1>1, <1>2, GoOnStack
<1>4. ASSUME ~diverted' PROVE next = entered' /\ Top.by # "set" /\ ~Storing
  BY <1>1, <1>2, <1>4, Zenon
<1>5. ASSUME ~Storing, NEW k \in 1..Len(stack'), stack'[k].at = "store"
      PROVE  k = Len(stack)
  BY <1>3, <1>5 DEF Storing
<1>6. ASSUME ~diverted' PROVE EnteredStored'
  <2>1. ASSUME NEW k \in 1..Len(stack'), stack'[k].at = "store"
        PROVE  stack'[k].by # "set" /\ stack'[k].next = entered'
    <3>1. k = Len(stack)
      BY <1>4, <1>5, <1>6, <2>1
    <3> QED
      BY <1>3, <1>4, <1>6, <3>1
  <2> QED
    BY <1>3, <2>1 DEF EnteredStored
<1> QED
  BY <1>3, <1>6 DEF SMInv

\* What the outermost call stores is what was entered; a call within it
\* leaves that alone.
LEMMA ReturnKeeps ==
  ASSUME SMInv, Store \/ SetReturn
  PROVE  SMInv'
<1>1. PICK S : stack \in Seq(S)
  BY DEF SMInv
<1>2. /\ stack # <<>> /\ Top.at = "store" /\ stack' = SubSeq(stack, 1, Len(stack) - 1)
      /\ UNCHANGED history /\ (Top.by # "set" => current_state' = Top.next)
  BY DEF Store, SetReturn
<1>3. Len(stack) \in Nat \ {0}
  BY <1>1, <1>2
<1>4. /\ stack' \in Seq(S) /\ Len(stack') = Len(stack) - 1
      /\ \A k \in 1..Len(stack) - 1 : stack'[k] = stack[k]
  <2>1. PICK n \in Nat : n = Len(stack) - 1 /\ n <= Len(stack)
    BY <1>3
  <2>2. stack' = SubSeq(stack, 1, n)
    BY <1>2, <2>1
  <2>3. /\ stack' \in Seq(S) /\ Len(stack') = n
        /\ \A k \in 1..n : stack'[k] = stack[k]
    BY <1>1, <2>1, <2>2
  <2> QED
    BY <2>1, <2>3
<1>5. ASSUME ~diverted' PROVE EnteredStored'
  <2>1. EnteredStored /\ entered' = entered
    BY <1>2, <1>5 DEF SMInv, history
  <2>2. ASSUME stack' = <<>> PROVE current_state' = entered'
    <3>1. Len(stack) = 1
      BY <1>3, <1>4, <2>2
    <3>2. stack[1].by # "set" /\ stack[1].next = entered
      BY <1>2, <2>1, <3>1 DEF EnteredStored, Top
    <3> QED
      BY <1>2, <2>1, <3>1, <3>2 DEF Top
  <2>3. ASSUME NEW k \in 1..Len(stack'), stack'[k].at = "store",
               \A j \in 1..k - 1 : stack'[j].at # "store"
        PROVE  stack'[k].by # "set" /\ stack'[k].next = entered'
    <3>1. /\ k \in 1..Len(stack) /\ k \in 1..Len(stack) - 1
          /\ \A j \in 1..k - 1 : j \in 1..Len(stack) - 1
      BY <1>3, <1>4
    <3> QED
      BY <1>4, <2>1, <2>3, <3>1 DEF EnteredStored
  <2> QED
    BY <2>2, <2>3 DEF EnteredStored
<1> QED
  BY <1>4, <1>5 DEF SMInv

\* Every step keeps the invariant.
LEMMA SMNextInv == SMInv /\ [SMNext]_smvars => SMInv'
<1> SUFFICES ASSUME SMInv, [SMNext]_smvars PROVE SMInv'
  OBVIOUS
<1>1. ASSUME NEW event, StartSubmit(event) PROVE SMInv'
  <2>1. PICK call : stack' = Append(stack, call) /\ call.at = "exit"
    BY <1>1 DEF StartSubmit
  <2> QED
    BY <1>1, <2>1, StartKeeps DEF StartSubmit, machine
<1>2. ASSUME NEW next, StartSet(next) PROVE SMInv'
  <2>1. PICK call : stack' = Append(stack, call) /\ call.at = "exit"
    BY <1>2 DEF StartSet
  <2> QED
    BY <1>2, <2>1, StartKeeps DEF StartSet, machine
<1>3. ASSUME UNCHANGED <<current_state, stack, history>> PROVE SMInv'
  BY <1>3 DEF SMInv, EnteredStored, history
<1>4. ASSUME NEW event, SubmitRefused(event) PROVE SMInv'
  BY <1>3, <1>4 DEF SubmitRefused, machine
<1>5. ASSUME NEW next, SetRefused(next) PROVE SMInv'
  BY <1>3, <1>5 DEF SetRefused, machine
<1>6. CASE UNCHANGED smvars
  BY <1>3, <1>6 DEF smvars, machine
<1> QED
  BY <1>1, <1>2, <1>4, <1>5, <1>6, RunKeeps, RunEntryKeeps, ReturnKeeps
     DEF SMNext, statemachine_submit_event, statemachine_set_state

\* Between calls the machine is in the state whose entry function ran last
\* (statemachine_submit_event), for every table, every redirection by exit
\* and event functions and every nesting of calls.
THEOREM StoresWhatItEntered == SMSpec => []InStateEnteredLast
<1>1. SMInv => InStateEnteredLast
  BY DEF SMInv, EnteredStored, InStateEnteredLast
<1> QED
  BY <1>1, SMInitInv, SMNextInv, PTL DEF SMSpec

-----------------------------------------------------------------------------
(* The queue of the OS abstraction: as long as every call got the mutex,   *)
(* it holds what was pushed and not popped, until its memory is used up    *)

HIDE StateMachineAssumption
USE OsAssumption

Labels == {"idle", "check", "load", "store", "exit"}

QueueTypeOK ==
    /\ head \in Int /\ tail \in Int /\ current_num_elements \in Int
    /\ position \in [Threads -> Int] /\ count \in [Threads -> Int]
    /\ op \in [Threads -> {"push", "pop"}]
    /\ qpc \in [Threads -> Labels]
    /\ slots \in [0..(max_elements - 1) -> Nat] /\ pushes \in Nat /\ pops \in Nat

\* Who is in a call holds the mutex.
CallsLocked == \A t \in Threads : qpc[t] # "idle" => queue_lock = t

\* The element with a number is in the slot before that number.
Balanced ==
    /\ current_num_elements = head - tail /\ current_num_elements \in 0..max_elements
    /\ head = pushes /\ tail = pops /\ pushes <= max_elements
    /\ \A n \in tail..(head - 1) : slots[n] = n + 1

\* A call that was not refused has room, or something to take.
Granted(t) ==
    IF op[t] = "push" THEN current_num_elements < max_elements
                      ELSE current_num_elements > 0

\* What a call has loaded is still so.
CallInProgress ==
    \A t \in Threads :
       /\ qpc[t] \in {"load", "store"} => Granted(t)
       /\ qpc[t] = "store" =>
             /\ count[t] = current_num_elements
             /\ position[t] = IF op[t] = "push" THEN head ELSE tail

QueueInv == QueueTypeOK /\ (~unlocked => CallsLocked /\ Balanced /\ CallInProgress)

-----------------------------------------------------------------------------

\* The invariant holds of a new queue.
LEMMA QueueInitInv == OsInit => QueueInv
BY DEF OsInit, QueueInv, QueueTypeOK, CallsLocked, Balanced, CallInProgress, Labels, Junk

\* The bits and the semaphore are no part of the queue.
LEMMA QueueStutter == ASSUME QueueInv, UNCHANGED queue PROVE QueueInv'
BY DEF queue, QueueInv, QueueTypeOK, CallsLocked, Balanced, CallInProgress, Granted

\* A call that begins with the mutex finds nobody else in a call.
LEMMA BeginKeeps ==
  ASSUME QueueInv, NEW t \in Threads, NEW o \in {"push", "pop"}, Begin(t, o),
         os_mut_entry(t) \/ os_mut_entry_wait_indefinite(t)
  PROVE  QueueInv'
<1> USE DEF Begin, QueueAt, setbits
<1>1. QueueTypeOK'
  BY DEF QueueInv, QueueTypeOK, Labels
<1>2. ASSUME ~unlocked' PROVE CallsLocked' /\ Balanced' /\ CallInProgress'
  <2>1. ~unlocked /\ queue_lock = "free" /\ queue_lock' = t
    BY <1>2 DEF os_mut_entry, os_mut_entry_wait_indefinite
  <2>2. QueueTypeOK /\ CallsLocked /\ Balanced /\ CallInProgress
    BY <2>1 DEF QueueInv
  <2>3. \A u \in Threads : qpc[u] = "idle"
    BY <2>1, <2>2 DEF CallsLocked
  <2>4. \A u \in Threads : qpc'[u] = IF u = t THEN "check" ELSE "idle"
    BY <2>2, <2>3 DEF QueueTypeOK
  <2> QED
    BY <2>1, <2>2, <2>4 DEF CallsLocked, Balanced, CallInProgress
<1> QED
  BY <1>1, <1>2 DEF QueueInv

\* A call in progress is the only one, so what it does keeps the count.
LEMMA CallKeeps ==
  ASSUME QueueInv, NEW t \in Threads,
         \/ QueueCheck(t) \/ QueueLoad(t) \/ push_element(t) \/ pop_element(t)
         \/ os_mut_exit(t)
  PROVE  QueueInv'
<1> USE DEF QueueAt, QueueTypeOK
<1> DEFINE Facts == CallsLocked /\ Balanced /\ CallInProgress
<1>1. QueueTypeOK /\ qpc[t] # "idle" /\ unlocked' = unlocked
  BY DEF QueueInv, QueueCheck, QueueLoad, push_element, pop_element, os_mut_exit
<1>2. ASSUME ~unlocked
      PROVE  /\ Facts /\ queue_lock = t
             /\ \A u \in Threads \ {t} : qpc[u] = "idle"
  BY <1>1, <1>2 DEF QueueInv, CallsLocked
<1>3. CASE QueueCheck(t)
  <2>1. QueueTypeOK'
    BY <1>1, <1>3 DEF QueueCheck, setbits, Labels
  <2>2. ASSUME ~unlocked PROVE Facts'
    BY <1>1, <1>2, <1>3, <2>2
    DEF QueueCheck, setbits, CallsLocked, Balanced, CallInProgress, Granted
  <2> QED
    BY <1>1, <2>1, <2>2 DEF QueueInv
<1>4. CASE QueueLoad(t)
  <2>1. QueueTypeOK'
    BY <1>1, <1>4 DEF QueueLoad, setbits, Labels
  <2>2. ASSUME ~unlocked PROVE Facts'
    BY <1>1, <1>2, <1>4, <2>2
    DEF QueueLoad, setbits, CallsLocked, Balanced, CallInProgress, Granted
  <2> QED
    BY <1>1, <2>1, <2>2 DEF QueueInv
<1>5. CASE push_element(t)
  <2>1. /\ position[t] \in 0..(max_elements - 1) /\ pushes + 1 \in Nat
        /\ slots' = [slots EXCEPT ![position[t]] = pushes + 1]
        /\ head' = position[t] + 1 /\ pushes' = pushes + 1
        /\ current_num_elements' = count[t] + 1
        /\ qpc[t] = "store" /\ op[t] = "push" /\ qpc' = [qpc EXCEPT ![t] = "exit"]
        /\ UNCHANGED <<tail, queue_lock, op, position, count, pops>>
    BY <1>1, <1>5 DEF push_element, Place
  <2>2. QueueTypeOK'
    BY <1>1, <2>1 DEF Labels
  <2>3. ASSUME ~unlocked PROVE Facts'
    <3>1. /\ CallsLocked /\ Balanced /\ CallInProgress /\ queue_lock = t
          /\ position[t] = head /\ count[t] = current_num_elements
          /\ current_num_elements < max_elements
      BY <1>2, <2>1, <2>3 DEF CallInProgress, Granted
    <3>2. \A u \in Threads : qpc'[u] = IF u = t THEN "exit" ELSE "idle"
      BY <1>1, <1>2, <2>1, <2>3
    <3>3. CallsLocked' /\ CallInProgress'
      BY <2>1, <3>1, <3>2 DEF CallsLocked, CallInProgress
    <3>4. \A n \in tail..head : slots'[n] = n + 1
      BY <1>1, <2>1, <3>1 DEF Balanced
    <3>5. Balanced'
      BY <1>1, <2>1, <3>1, <3>4 DEF Balanced
    <3> QED
      BY <3>3, <3>5
  <2> QED
    BY <1>1, <2>2, <2>3 DEF QueueInv
<1>6. CASE pop_element(t)
  <2>1. /\ position[t] \in 0..(max_elements - 1) /\ Junk \in Nat
        /\ slots' = [slots EXCEPT ![position[t]] = Junk]
        /\ tail' = position[t] + 1 /\ pops' = pops + 1
        /\ current_num_elements' = count[t] - 1
        /\ qpc[t] = "store" /\ op[t] = "pop" /\ qpc' = [qpc EXCEPT ![t] = "exit"]
        /\ UNCHANGED <<head, queue_lock, op, position, count, pushes>>
    BY <1>1, <1>6 DEF pop_element, Place, Junk
  <2>2. QueueTypeOK'
    BY <1>1, <2>1 DEF Labels
  <2>3. ASSUME ~unlocked PROVE Facts'
    <3>1. /\ CallsLocked /\ Balanced /\ CallInProgress /\ queue_lock = t
          /\ position[t] = tail /\ count[t] = current_num_elements
          /\ current_num_elements > 0
      BY <1>2, <2>1, <2>3 DEF CallInProgress, Granted
    <3>2. \A u \in Threads : qpc'[u] = IF u = t THEN "exit" ELSE "idle"
      BY <1>1, <1>2, <2>1, <2>3
    <3>3. CallsLocked' /\ CallInProgress'
      BY <2>1, <3>1, <3>2 DEF CallsLocked, CallInProgress
    <3>4. \A n \in (tail + 1)..(head - 1) : slots'[n] = n + 1
      BY <1>1, <2>1, <3>1 DEF Balanced
    <3>5. Balanced'
      BY <1>1, <2>1, <3>1, <3>4 DEF Balanced
    <3> QED
      BY <3>3, <3>5
  <2> QED
    BY <1>1, <2>2, <2>3 DEF QueueInv
<1>7. CASE os_mut_exit(t)
  <2>1. QueueTypeOK'
    BY <1>1, <1>7 DEF os_mut_exit, setbits, Labels
  <2>2. ASSUME ~unlocked PROVE Facts'
    BY <1>1, <1>2, <1>7, <2>2
    DEF os_mut_exit, setbits, CallsLocked, Balanced, CallInProgress, Granted
  <2> QED
    BY <1>1, <2>1, <2>2 DEF QueueInv
<1> QED
  BY <1>3, <1>4, <1>5, <1>6, <1>7

\* Every step keeps the invariant.
LEMMA QueueNextInv == QueueInv /\ [OsNext]_ovars => QueueInv'
<1> SUFFICES ASSUME QueueInv, [OsNext]_ovars PROVE QueueInv'
  OBVIOUS
<1>1. ASSUME NEW t \in Threads, QueueCall(t) PROVE QueueInv'
  BY <1>1, BeginKeeps, CallKeeps DEF QueueCall, os_queue_push_timeout,
     os_queue_push_indefinite, os_queue_pop_timeout, os_queue_pop_indefinite
<1>2. ASSUME NEW t \in Threads, BitCall(t) PROVE QueueInv'
  BY <1>2, QueueStutter DEF BitCall, SignalLoad, SignalStore, os_clearbits,
     LookForWaiter, PostWaiter, os_waitbits
<1>3. CASE os_sem_entry \/ os_sem_entry_wait_indefinite \/ UNCHANGED ovars
  BY <1>3, QueueStutter DEF os_sem_entry, os_sem_entry_wait_indefinite, ovars
<1> QED
  BY <1>1, <1>2, <1>3 DEF OsNext

\* The queue holds what was pushed and not popped, oldest first, and leaves
\* its memory only with the push after as many as it has room for
\* (push_element, pop_element), unless a timed call went on without the mutex,
\* for any number of threads and any size.
THEOREM LockedQueueIsRight == OsSpec => []LockedQueueHolds
<1>1. QueueInv => LockedQueueHolds
  <2> SUFFICES ASSUME QueueInv, ~unlocked
               PROVE  /\ current_num_elements = pushes - pops
                      /\ current_num_elements \in 0..max_elements
                      /\ \A k \in 1..current_num_elements : slots[tail + k - 1] = pops + k
                      /\ \A t \in Threads :
                            qpc[t] = "store" /\ position[t] \notin DOMAIN slots =>
                                op[t] = "push" /\ pushes = max_elements
    BY DEF LockedQueueHolds
  <2>1. QueueTypeOK /\ Balanced /\ CallInProgress
    BY DEF QueueInv
  <2>2. ASSUME NEW k \in 1..current_num_elements PROVE slots[tail + k - 1] = pops + k
    <3>1. /\ tail + k - 1 \in tail..(head - 1) /\ (tail + k - 1) + 1 = pops + k
      BY <2>1 DEF Balanced, QueueTypeOK
    <3> QED
      BY <2>1, <3>1 DEF Balanced
  <2>3. ASSUME NEW t \in Threads, qpc[t] = "store", position[t] \notin DOMAIN slots
        PROVE  op[t] = "push" /\ pushes = max_elements
    <3>1. DOMAIN slots = 0..(max_elements - 1) /\ op[t] \in {"push", "pop"}
      BY <2>1 DEF QueueTypeOK
    <3>2. position[t] = (IF op[t] = "push" THEN head ELSE tail) /\ Granted(t)
      BY <2>1, <2>3 DEF CallInProgress
    <3> QED
      BY <2>1, <2>3, <3>1, <3>2 DEF Balanced, Granted, QueueTypeOK
  <2> QED
    BY <2>1, <2>2, <2>3 DEF Balanced
<1> QED
  BY <1>1, QueueInitInv, QueueNextInv, PTL DEF OsSpec

-----------------------------------------------------------------------------
(* The bits                                                                *)

\* Until they are upset, a loaded word that is not old is the one there is.
BitsInv ==
    /\ bpc = [t \in Threads |-> bpc[t]] /\ loaded = [t \in Threads |-> loaded[t]]
    /\ upset \in BOOLEAN
    /\ ~upset =>
          /\ bits = asked
          /\ \A t \in Threads : bpc[t] = "store" /\ t \notin overtaken => loaded[t] = bits

LEMMA BitsInit == OsInit => BitsInv
BY DEF OsInit, BitsInv

\* The queue and the semaphore are no part of the bits.
LEMMA BitsStutter == ASSUME BitsInv, UNCHANGED setbits PROVE BitsInv'
BY DEF setbits, BitsInv

\* A signal loads the word and stores it with its bit; a clear stores none.
LEMMA BitCallKeeps ==
  ASSUME BitsInv, NEW t \in Threads, BitCall(t)
  PROVE  BitsInv'
<1> USE DEF BitsInv, BitAt
<1>1. ASSUME NEW b \in Bits, SignalLoad(t, b) PROVE BitsInv'
  BY <1>1 DEF SignalLoad
<1>2. CASE SignalStore(t)
  <2>1. /\ bpc[t] = "store" /\ bpc' = [bpc EXCEPT ![t] = "look"]
        /\ bits' = loaded[t] \cup {bit[t]} /\ asked' = asked \cup {bit[t]}
        /\ Overtakes(t) /\ UNCHANGED <<bit, loaded>>
    BY <1>2 DEF SignalStore
  <2>2. upset' = (upset \/ t \in overtaken)
    BY <1>2 DEF SignalStore
  <2>3. upset' \in BOOLEAN /\ (~upset' => ~upset /\ t \notin overtaken)
    BY <2>2, Zenon
  <2>4. \A u \in Threads : bpc'[u] = "store" => u \in overtaken'
    BY <2>1 DEF Overtakes
  <2> QED
    BY <2>1, <2>3, <2>4
<1>3. ASSUME NEW b \in Bits, os_clearbits(t, b) PROVE BitsInv'
  <2>1. /\ bpc[t] = "idle" /\ bpc' = [bpc EXCEPT ![t] = "look"]
        /\ bits' = {} /\ asked' = asked \ {b}
        /\ Overtakes(t) /\ UNCHANGED <<bit, loaded>>
    BY <1>3 DEF os_clearbits
  <2>2. upset' = (upset \/ bits \ {b} # {})
    BY <1>3 DEF os_clearbits
  <2>3. upset' \in BOOLEAN /\ (~upset' => ~upset /\ bits \ {b} = {})
    BY <2>2, Zenon
  <2>4. \A u \in Threads : bpc'[u] = "store" => u \in overtaken'
    BY <2>1 DEF Overtakes
  <2> QED
    BY <2>1, <2>3, <2>4
<1>4. CASE LookForWaiter(t)
  BY <1>4 DEF LookForWaiter
<1>5. CASE PostWaiter(t)
  BY <1>5 DEF PostWaiter
<1>6. CASE os_waitbits(t)
  BY <1>6, BitsStutter DEF os_waitbits
<1> QED
  BY <1>1, <1>2, <1>3, <1>4, <1>5, <1>6 DEF BitCall

\* Every step keeps the invariant.
LEMMA BitsNextInv == BitsInv /\ [OsNext]_ovars => BitsInv'
<1> SUFFICES ASSUME BitsInv, [OsNext]_ovars PROVE BitsInv'
  OBVIOUS
<1>1. ASSUME NEW t \in Threads, QueueCall(t) PROVE BitsInv'
  <2>1. UNCHANGED setbits
    BY <1>1 DEF QueueCall, os_queue_push_timeout, os_queue_push_indefinite,
       os_queue_pop_timeout, os_queue_pop_indefinite, Begin, QueueCheck, QueueLoad,
       push_element, pop_element, os_mut_exit
  <2> QED
    BY <2>1, BitsStutter
<1>2. ASSUME NEW t \in Threads, BitCall(t) PROVE BitsInv'
  BY <1>2, BitCallKeeps
<1>3. CASE os_sem_entry \/ os_sem_entry_wait_indefinite \/ UNCHANGED ovars
  BY <1>3, BitsStutter DEF os_sem_entry, os_sem_entry_wait_indefinite, ovars
<1> QED
  BY <1>1, <1>2, <1>3 DEF OsNext

\* Until a signal stores an old word or a clear takes more than its bit, the
\* word holds what was signalled and not cleared, for any threads and bits
\* (os_setbits_signal, os_clearbits).
THEOREM BitsHoldSignals == OsSpec => []WordHoldsSignals
<1>1. BitsInv => WordHoldsSignals
  BY DEF BitsInv, WordHoldsSignals
<1> QED
  BY <1>1, BitsInit, BitsNextInv, PTL DEF OsSpec

-----------------------------------------------------------------------------
(* Handles and descriptors: a handle in use has a descriptor of the device *)
(* its begin opens                                                         *)

HIDE OsAssumption
USE DevicesAssumption DEF Fd, Handles

FilesTypeOK ==
    /\ opened = [n \in 0..MaxFd |-> opened[n]]
    /\ fd \in [Handles -> -1..MaxFd]
    /\ inUse \subseteq Handles \ Uart   \* no UART handle ever is

\* A handle in use has a descriptor with its device, and no other handle in
\* use has that descriptor.
InUseOpen ==
    /\ \A h \in inUse : fd[h] \in Fd /\ opened[fd[h]] = Own(h)
    /\ \A g, h \in inUse : fd[g] = fd[h] => g = h

FilesInv == FilesTypeOK /\ (~misused => InUseOpen)

-----------------------------------------------------------------------------
(* Opening and closing                                                     *)

\* What each kind of handle opens; a free descriptor is none of it.
LEMMA OwnFacts ==
  /\ \A h \in Handles \ Uart : Own(h) # "none"
  /\ \A h \in Adc : Own(h) = "hpadc0"
  /\ \A h \in I2c : Own(h) = "i2c0"
  /\ \A h \in Spi : Own(h) = "spi0"
BY DEF Own, Adc, I2c, Spi, Uart

\* An open that succeeds takes a descriptor nobody in use has; the handle is
\* in use with it from then on.
LEMMA OpenKeeps ==
  ASSUME FilesTypeOK, InUseOpen, NEW h \in Handles \ Uart, NEW n \in Fd \cup {-1},
         Open(Own(h), n), Keeps(h, n), Begun(h, n)
  PROVE  FilesTypeOK' /\ InUseOpen'
<1> USE DEF Open, Keeps, Begun, Lowest, Free
<1>1. n \in -1..MaxFd
  OBVIOUS
<1>2. FilesTypeOK'
  BY <1>1 DEF FilesTypeOK
<1>3. /\ fd'[h] = n
      /\ \A g \in Handles \ {h} : fd'[g] = fd[g]
  BY DEF FilesTypeOK
<1>4. CASE n = -1
  BY <1>3, <1>4 DEF FilesTypeOK, InUseOpen
<1>5. CASE n # -1
  <2>1. /\ n \in Fd /\ opened[n] = "none"
        /\ opened'[n] = Own(h)
        /\ \A k \in Fd \ {n} : opened'[k] = opened[k]
        /\ inUse' = inUse \cup {h}
    BY <1>5 DEF FilesTypeOK
  <2>2. \A g \in inUse : fd[g] # n
    BY <2>1, OwnFacts DEF FilesTypeOK, InUseOpen
  <2>3. \A g \in inUse \ {h} : fd'[g] = fd[g] /\ opened'[fd[g]] = opened[fd[g]]
    BY <1>3, <2>1, <2>2 DEF FilesTypeOK, InUseOpen
  <2>4. ASSUME NEW g \in inUse' PROVE fd'[g] \in Fd /\ opened'[fd'[g]] = Own(g)
    BY <1>3, <2>1, <2>3 DEF InUseOpen
  <2>5. ASSUME NEW f \in inUse', NEW g \in inUse', fd'[f] = fd'[g] PROVE f = g
    BY <1>3, <2>1, <2>2, <2>3, <2>5 DEF InUseOpen
  <2> QED
    BY <1>2, <2>4, <2>5 DEF InUseOpen
<1> QED
  BY <1>2, <1>4, <1>5

\* A handle that is given up keeps its number, which names nothing of the
\* handles that stay in use.
LEMMA GiveUpKeeps ==
  ASSUME FilesTypeOK, InUseOpen, NEW h \in Handles, NEW n \in -1..MaxFd,
         Keeps(h, n), inUse' = inUse \ {h}, UNCHANGED opened
  PROVE  FilesTypeOK' /\ InUseOpen'
BY DEF FilesTypeOK, InUseOpen, Keeps

\* Closing the descriptor of a handle in use closes no other handle's.
LEMMA CloseKeeps ==
  ASSUME FilesTypeOK, InUseOpen, NEW h \in inUse, Close(fd[h]),
         inUse' = inUse \ {h}, UNCHANGED fd
  PROVE  FilesTypeOK' /\ InUseOpen'
<1>1. fd[h] \in Fd /\ \A k \in Fd \ {fd[h]} : opened'[k] = opened[k]
  BY DEF FilesTypeOK, InUseOpen, Close
<1>2. FilesTypeOK'
  BY <1>1 DEF FilesTypeOK, Close
<1>3. \A g \in inUse' : g \in inUse /\ fd[g] \in Fd \ {fd[h]}
  BY DEF InUseOpen
<1> QED
  BY <1>1, <1>2, <1>3 DEF InUseOpen

-----------------------------------------------------------------------------
(* The calls                                                               *)

\* Kinds of handles do not overlap.
LEMMA Kinds == (Adc \cup I2c \cup Spi) \cap Uart = {}
BY DEF Adc, I2c, Spi, Uart

\* The files are as they were.
LEMMA FilesStutter == ASSUME FilesInv, UNCHANGED files PROVE FilesInv'
BY DEF FilesInv, FilesTypeOK, InUseOpen, files

\* Beginning an ADC handle.
LEMMA AdcBeginKeeps == ASSUME FilesInv, NEW h \in Adc, os_adc_begin(h) PROVE FilesInv'
<1>1. h \in Handles \ Uart /\ "hpadc0" = Own(h) /\ misused' = misused
  BY Kinds, OwnFacts DEF os_adc_begin
<1>2. \/ \E n \in Fd \cup {-1} : Open("hpadc0", n) /\ Keeps(h, n) /\ Begun(h, n)
      \/ \E n \in Fd : Keeps(h, n) /\ inUse' = inUse \ {h} /\ UNCHANGED opened
  BY DEF os_adc_begin
<1>3. FilesTypeOK'
  BY <1>1, <1>2 DEF FilesInv, FilesTypeOK, Open, Keeps, Begun
<1>4. ASSUME ~misused PROVE InUseOpen'
  BY <1>1, <1>2, <1>4, OpenKeeps, GiveUpKeeps DEF FilesInv
<1> QED
  BY <1>1, <1>3, <1>4 DEF FilesInv

\* Beginning an I2C handle.
LEMMA I2cBeginKeeps == ASSUME FilesInv, NEW h \in I2c, os_i2c_begin(h) PROVE FilesInv'
<1>1. h \in Handles \ Uart /\ "i2c0" = Own(h) /\ misused' = misused
  BY Kinds, OwnFacts DEF os_i2c_begin
<1>2. \E n \in Fd \cup {-1} : Open("i2c0", n) /\ Keeps(h, n) /\ Begun(h, n)
  BY DEF os_i2c_begin
<1>3. FilesTypeOK'
  BY <1>1, <1>2 DEF FilesInv, FilesTypeOK, Open, Keeps, Begun
<1>4. ASSUME ~misused PROVE InUseOpen'
  BY <1>1, <1>2, <1>4, OpenKeeps DEF FilesInv
<1> QED
  BY <1>1, <1>3, <1>4 DEF FilesInv

\* The first begin of an SPI handle opens bus 0, which is one of its own.
LEMMA SpiBeginKeeps == ASSUME FilesInv, NEW h \in Spi, os_spi_begin(h) PROVE FilesInv'
<1>1. h \in Handles \ Uart /\ "spi0" = Own(h)
  BY Kinds, OwnFacts
<1>2. \/ /\ \E n \in Fd \cup {-1}, device \in {"spi0", "spi3", "spi4", "spi5"} :
               Open(device, n) /\ Keeps(h, n) /\ (fd[h] = 0 => device = Own(h))
         /\ Begun(h, fd'[h])
      \/ UNCHANGED <<opened, fd>> /\ Begun(h, fd'[h]) /\ fd[h] # 0
  BY <1>1 DEF os_spi_begin
<1>3. FilesTypeOK'
  BY <1>1, <1>2 DEF FilesInv, FilesTypeOK, Open, Keeps, Begun
<1>4. ASSUME ~misused' PROVE ~misused /\ fd[h] = 0
  BY <1>4 DEF os_spi_begin
<1>5. ASSUME ~misused' PROVE InUseOpen'
  <2>1. ~misused /\ fd[h] = 0 /\ FilesTypeOK /\ InUseOpen
    BY <1>4, <1>5 DEF FilesInv
  <2>2. PICK n \in Fd \cup {-1} : Open(Own(h), n) /\ Keeps(h, n) /\ Begun(h, fd'[h])
    BY <1>2, <2>1
  <2>3. fd'[h] = n
    BY <1>1, <2>1, <2>2 DEF Keeps, FilesTypeOK
  <2> QED
    BY <1>1, <2>1, <2>2, <2>3, OpenKeeps
<1> QED
  BY <1>3, <1>5 DEF FilesInv

\* Ending any handle: either it was in use or this is misuse.
LEMMA EndKeeps ==
  ASSUME FilesInv, NEW h \in Handles, os_adc_end(h) \/ os_i2c_end(h)
  PROVE  FilesInv'
<1>1. \/ /\ Close(fd[h]) /\ inUse' = inUse \ {h}
         /\ misused' = (misused \/ h \notin inUse)
      \/ UNCHANGED <<opened, inUse, misused>>
  BY DEF os_adc_end, os_i2c_end
<1>2. UNCHANGED fd
  BY DEF os_adc_end, os_i2c_end
<1>3. CASE UNCHANGED <<opened, inUse, misused>>
  BY <1>2, <1>3 DEF FilesInv, FilesTypeOK, InUseOpen
<1>4. CASE /\ Close(fd[h]) /\ inUse' = inUse \ {h}
           /\ misused' = (misused \/ h \notin inUse)
  <2>1. FilesTypeOK'
    BY <1>2, <1>4 DEF FilesInv, FilesTypeOK, Close
  <2>2. ASSUME ~misused' PROVE ~misused /\ h \in inUse
    BY <1>4, <2>2
  <2>3. ASSUME ~misused' PROVE InUseOpen'
    BY <1>2, <1>4, <2>2, <2>3, CloseKeeps DEF FilesInv
  <2> QED
    BY <2>1, <2>3 DEF FilesInv
<1> QED
  BY <1>1, <1>3, <1>4

\* A UART handle opens free descriptors and is never in use.
LEMMA UartBeginKeeps == ASSUME FilesInv, NEW h \in Uart, os_uart_begin(h) PROVE FilesInv'
<1>1. PICK granted \in SUBSET (IF h = "uart_zero" THEN {"ttyS0", "ttyS2"} ELSE {"ttyS2"}) :
         \E place \in Injection(granted, Free) : Occupy(granted, place)
  BY Zenon DEF os_uart_begin
<1>2. PICK place \in [granted -> Free] : Occupy(granted, place)
  BY <1>1 DEF Injection
<1>3. \A n \in 0..MaxFd : opened[n] # "none" => opened'[n] = opened[n]
  BY <1>2 DEF FilesInv, FilesTypeOK, Free, Occupy
<1>4. h \in Handles /\ h \notin inUse /\ UNCHANGED <<inUse, misused>> /\ Keeps(h, -1)
  BY DEF os_uart_begin, FilesInv, FilesTypeOK
<1>5. FilesTypeOK'
  BY <1>2, <1>4 DEF FilesInv, FilesTypeOK, Keeps, Occupy
<1>6. ASSUME ~misused PROVE InUseOpen'
  BY <1>3, <1>4, <1>6, OwnFacts DEF FilesInv, FilesTypeOK, InUseOpen, Keeps
<1> QED
  BY <1>4, <1>5, <1>6 DEF FilesInv

\* Every step keeps the invariant.
LEMMA FilesNextInv == FilesInv /\ [DevicesNext]_dvars => FilesInv'
<1> SUFFICES ASSUME FilesInv, [DevicesNext]_dvars PROVE FilesInv'
  OBVIOUS
<1>1. ASSUME NEW h \in Adc, os_adc_begin(h) \/ os_adc_end(h) \/ os_adc_read(h)
      PROVE  FilesInv'
  BY <1>1, AdcBeginKeeps, EndKeeps, FilesStutter DEF os_adc_read
<1>2. ASSUME NEW h \in Handles, Ioctl(h) PROVE FilesInv'
  BY <1>2 DEF Ioctl, FilesInv, FilesTypeOK, InUseOpen
<1>3. ASSUME NEW h \in I2c, \/ os_i2c_begin(h) \/ os_i2c_end(h)
                            \/ os_i2c_send(h) \/ os_i2c_recieve(h)
      PROVE  FilesInv'
  BY <1>2, <1>3, I2cBeginKeeps, EndKeeps DEF os_i2c_send, os_i2c_recieve
<1>4. ASSUME NEW h \in Spi, NEW size \in Sizes,
             os_spi_transfer(h, size) \/ os_spi_send(h, size) \/ os_spi_recieve(h, size)
      PROVE  FilesInv'
  BY <1>2, <1>4 DEF os_spi_transfer, os_spi_send, os_spi_recieve
<1>5. ASSUME NEW h \in Uart, os_uart_begin(h) \/ os_uart_transfer(h) PROVE FilesInv'
  BY <1>5, UartBeginKeeps, FilesStutter DEF os_uart_transfer
<1>6. ASSUME NEW h \in Spi, os_spi_begin(h) \/ os_spi_end(h) PROVE FilesInv'
  BY <1>6, SpiBeginKeeps, EndKeeps DEF os_spi_end
<1>7. CASE GpioCall \/ UNCHANGED dvars
  BY <1>7, FilesStutter DEF GpioCall, os_gpio_config, os_gpio_isr_config,
     os_gpio_get_config, os_gpio_get_isr_conf, os_gpio_enable_int, Board, dvars
<1> QED
  BY <1>1, <1>3, <1>4, <1>5, <1>6, <1>7 DEF DevicesNext, FileCall

\* A handle in use has a descriptor of the device its begin opens unless one was
\* misused (os_adc_begin, os_i2c_begin, os_spi_begin and the ends), for a
\* table of any size.
THEOREM HandlesHaveTheirDevices == DevicesSpec => []HandleHasItsDevice
<1>1. DevicesInit => FilesInv
  BY DEF DevicesInit, FilesInv, FilesTypeOK, InUseOpen
<1>2. FilesInv => HandleHasItsDevice
  BY DEF FilesInv, InUseOpen, HandleHasItsDevice
<1> QED
  BY <1>1, <1>2, FilesNextInv, PTL DEF DevicesSpec

-----------------------------------------------------------------------------
(* The pins                                                                *)

\* The board holds what was asked for, in its own codes; a pin whose edge was
\* never set has no mode.
PinsInv ==
    /\ board \in [Pins -> [input : BOOLEAN, high_drive : BOOLEAN, pull : 0..3,
                           mode : 0..7, enabled : BOOLEAN]]
    /\ set \in [Pins -> [drive : Drives, strength : {"NORMAL", "HIGH"}, edge : Edges]]
    /\ \A p \in Pins :
          /\ board[p].pull = Pull(set[p].drive)
          /\ board[p].high_drive <=> set[p].strength = "HIGH"
          /\ board[p].mode \in {0, Mode(set[p].edge)}

\* No two drives, and no two edges, have one code.
LEMMA Codes ==
  /\ \A drive \in Drives : Pull(drive) \in 0..3
  /\ \A one, other \in Drives : Pull(one) = Pull(other) => one = other
  /\ \A edge \in Edges : Mode(edge) \in {2, 3, 4, 5, 7}
<1>1. /\ Pull("FLOAT") = 0 /\ Pull("PULL_UP") = 1
      /\ Pull("PULL_DOWN") = 2 /\ Pull("BUSKEEPER") = 3
  BY DEF Pull
<1>2. /\ Mode("HIGH") = 2 /\ Mode("LOW") = 3 /\ Mode("RISING") = 4
      /\ Mode("FALLING") = 5 /\ Mode("BOTH") = 7
  BY DEF Mode
<1>3. \A one, other \in Drives : Pull(one) = Pull(other) => one = other
  BY <1>1 DEF Drives
<1> QED
  BY <1>1, <1>2, <1>3 DEF Drives, Edges

LEMMA PinsStutter == ASSUME PinsInv, UNCHANGED <<board, set>> PROVE PinsInv'
BY DEF PinsInv

\* The whole structure of a pin is written, the caller's strength and drive.
LEMMA ConfigKeeps ==
  ASSUME PinsInv, NEW p \in Pins, NEW dir, NEW strength \in {"NORMAL", "HIGH"},
         NEW drive \in Drives, os_gpio_config(p, dir, strength, drive)
  PROVE  PinsInv'
<1> DEFINE config == [board[p] EXCEPT !.input = (dir # "OUTPUT"), !.pull = Pull(drive),
                                      !.high_drive = (strength = "HIGH")]
           wanted == [set[p] EXCEPT !.drive = drive, !.strength = strength]
<1>1. CASE UNCHANGED <<board, set>>
  BY <1>1, PinsStutter
<1>2. CASE board' = [board EXCEPT ![p] = config] /\ set' = [set EXCEPT ![p] = wanted]
  <2>1. /\ config \in [input : BOOLEAN, high_drive : BOOLEAN, pull : 0..3,
                       mode : 0..7, enabled : BOOLEAN]
        /\ config.pull = Pull(drive) /\ config.mode = board[p].mode
        /\ config.high_drive <=> strength = "HIGH"
    <3>1. /\ board[p] \in [input : BOOLEAN, high_drive : BOOLEAN, pull : 0..3,
                           mode : 0..7, enabled : BOOLEAN]
          /\ Pull(drive) \in 0..3
      BY Codes DEF PinsInv
    <3> QED
      BY <3>1
  <2>2. /\ wanted \in [drive : Drives, strength : {"NORMAL", "HIGH"}, edge : Edges]
        /\ wanted.drive = drive /\ wanted.strength = strength
        /\ wanted.edge = set[p].edge
    BY DEF PinsInv
  <2> HIDE DEF config, wanted
  <2> QED
    BY <1>2, <2>1, <2>2 DEF PinsInv
<1> QED
  BY <1>1, <1>2 DEF os_gpio_config, Board

LEMMA IsrConfigKeeps ==
  ASSUME PinsInv, NEW p \in Pins, NEW edge \in Edges, os_gpio_isr_config(p, edge)
  PROVE  PinsInv'
<1> DEFINE config == [board[p] EXCEPT !.mode = Mode(edge)]
           wanted == [set[p] EXCEPT !.edge = edge]
<1>1. CASE UNCHANGED <<board, set>>
  BY <1>1, PinsStutter
<1>2. CASE board' = [board EXCEPT ![p] = config] /\ set' = [set EXCEPT ![p] = wanted]
  <2>1. /\ config \in [input : BOOLEAN, high_drive : BOOLEAN, pull : 0..3,
                       mode : 0..7, enabled : BOOLEAN]
        /\ config.pull = board[p].pull /\ config.high_drive = board[p].high_drive
        /\ config.mode = Mode(edge)
    BY Codes DEF PinsInv
  <2>2. /\ wanted \in [drive : Drives, strength : {"NORMAL", "HIGH"}, edge : Edges]
        /\ wanted.drive = set[p].drive /\ wanted.strength = set[p].strength
        /\ wanted.edge = edge
    BY DEF PinsInv
  <2> HIDE DEF config, wanted
  <2> QED
    BY <1>2, <2>1, <2>2 DEF PinsInv
<1> QED
  BY <1>1, <1>2 DEF os_gpio_isr_config, Board

LEMMA EnableKeeps ==
  ASSUME PinsInv, NEW p \in Pins, NEW en \in BOOLEAN, os_gpio_enable_int(p, en)
  PROVE  PinsInv'
<1> DEFINE config == [board[p] EXCEPT !.enabled = en]
<1>1. CASE UNCHANGED <<board, set>>
  BY <1>1, PinsStutter
<1>2. CASE board' = [board EXCEPT ![p] = config] /\ set' = [set EXCEPT ![p] = set[p]]
  <2>1. /\ config \in [input : BOOLEAN, high_drive : BOOLEAN, pull : 0..3,
                       mode : 0..7, enabled : BOOLEAN]
        /\ config.pull = board[p].pull /\ config.high_drive = board[p].high_drive
        /\ config.mode = board[p].mode
    BY DEF PinsInv
  <2> HIDE DEF config
  <2> QED
    BY <1>2, <2>1 DEF PinsInv
<1> QED
  BY <1>1, <1>2 DEF os_gpio_enable_int, Board

\* Every pin reads back the drive, the strength and the edge it was last given,
\* for any pins and any sequence of calls (os_gpio_config, os_gpio_isr_config).
THEOREM PinsKeepTheirSettings == DevicesSpec => []PinsReadBack
<1>1. DevicesInit => PinsInv
  BY Codes DEF DevicesInit, PinsInv, Unconfigured, Drives, Edges, Pull
<1>2. PinsInv /\ [DevicesNext]_dvars => PinsInv'
  <2> SUFFICES ASSUME PinsInv, [DevicesNext]_dvars PROVE PinsInv'
    OBVIOUS
  <2>1. CASE FileCall
    BY <2>1, PinsStutter DEF FileCall, os_adc_begin, os_adc_end, os_adc_read,
       os_i2c_begin, os_i2c_end, os_i2c_send, os_i2c_recieve, os_spi_begin, os_spi_end,
       os_spi_transfer, os_spi_send, os_spi_recieve, os_uart_begin, os_uart_transfer,
       Call, Ioctl, gpio
  <2>2. CASE GpioCall
    BY <2>2, PinsStutter, ConfigKeeps, IsrConfigKeeps, EnableKeeps
       DEF GpioCall, os_gpio_get_config, os_gpio_get_isr_conf
  <2>3. CASE UNCHANGED dvars
    BY <2>3, PinsStutter DEF dvars, gpio
  <2> QED
    BY <2>1, <2>2, <2>3 DEF DevicesNext
<1>3. PinsInv => PinsReadBack
  <2> SUFFICES ASSUME PinsInv, NEW p \in Pins
               PROVE  /\ DriveOf(p) = set[p].drive /\ StrengthOf(p) = set[p].strength
                      /\ EdgeOf(p, set[p].edge) = set[p].edge
    BY DEF PinsReadBack
  <2>1. /\ set[p].drive \in Drives /\ board[p].pull = Pull(set[p].drive)
        /\ set[p].strength \in {"NORMAL", "HIGH"} /\ set[p].edge \in Edges
        /\ board[p].high_drive <=> set[p].strength = "HIGH"
        /\ board[p].mode \in {0, Mode(set[p].edge)}
    BY DEF PinsInv
  <2>2. DriveOf(p) = set[p].drive
    BY <2>1 DEF DriveOf, Drives, Pull
  <2>3. StrengthOf(p) = set[p].strength
    BY <2>1 DEF StrengthOf
  <2>4. EdgeOf(p, set[p].edge) = set[p].edge
    BY <2>1 DEF EdgeOf, Edges, Mode
  <2> QED
    BY <2>2, <2>3, <2>4
<1> QED
  BY <1>1, <1>2, <1>3, PTL DEF DevicesSpec

-----------------------------------------------------------------------------
(* The strip: the colours on the wire                                      *)

Colour == [h : Byte, s : Byte, v : Byte]

\* The greatest of a set of integers that has one.
LEMMA GreatestIsMax ==
  ASSUME NEW S \in SUBSET Int, NEW m \in S, \A x \in S : x <= m
  PROVE  Max(S) = m
<1>1. \A x \in S : (\A y \in S : x >= y) <=> x = m
  OBVIOUS
<1> QED
  BY <1>1 DEF Max

LEMMA LeastIsMin ==
  ASSUME NEW S \in SUBSET Int, NEW m \in S, \A x \in S : m <= x
  PROVE  Min(S) = m
<1>1. \A x \in S : (\A y \in S : x <= y) <=> x = m
  OBVIOUS
<1> QED
  BY <1>1 DEF Min

\* A byte is not clamped.
LEMMA ClampsNoByte ==
  ASSUME NEW x \in Byte
  PROVE  Clamp(x) = x
<1>1. Min({x, 255}) = x
  BY LeastIsMin DEF Byte
<1>2. Max({x, 0}) = x
  BY GreatestIsMax DEF Byte
<1> QED
  BY <1>1, <1>2 DEF Clamp

\* n of d parts of the brightness are no more than the brightness.
Part(v, n, d) == (v * n) \div d

\* What the saturation and the place in a sextant, multiplied, are parts of.
Scale == 256 * 43

LEMMA PartOfBrightness ==
  ASSUME NEW v \in Byte, NEW n \in Nat
  PROVE  /\ n <= 256 => Part(v, n, 256) \in 0..v
         /\ n = 256 => Part(v, n, 256) = v
         /\ n <= Scale => Part(v, n, Scale) \in 0..v
         /\ n = Scale => Part(v, n, Scale) = v
<1> DEFINE x == v * n
<1>1. x \in Int /\ x >= 0
  BY DEF Byte
<1>2. ASSUME NEW d \in Nat, n <= d PROVE x <= v * d
  <2>1. v * d - x = v * (d - n) /\ v * (d - n) >= 0
    BY <1>2 DEF Byte
  <2> QED
    BY <1>1, <2>1 DEF Byte
<1>3. n <= 256 => x <= v * 256
  BY <1>2
<1>4. n <= Scale => x <= v * Scale
  BY <1>2 DEF Scale
<1>5. /\ n = 256 => x = v * 256
      /\ n = Scale => x = v * Scale
  OBVIOUS
<1> HIDE DEF x
<1>6. /\ n <= 256 => x \div 256 \in 0..v
      /\ n = 256 => x \div 256 = v
  BY <1>1, <1>3, <1>5 DEF Byte
<1>7. /\ n <= Scale => x \div Scale \in 0..v
      /\ n = Scale => x \div Scale = v
  BY <1>1, <1>4, <1>5 DEF Byte, Scale
<1> QED
  BY <1>6, <1>7 DEF x, Part

\* The saturation takes no more from the brightness than there is.
LEMMA SaturationTakes ==
  ASSUME NEW s \in Byte, NEW f \in 0..43
  PROVE  Scale - s * f \in 0..Scale /\ (s = 0 => Scale - s * f = Scale)
<1> DEFINE x == s * f
<1>1. x \in Int /\ x >= 0
  BY DEF Byte
<1>2. x <= s * 43
  <2>1. s * 43 - x = s * (43 - f) /\ s * (43 - f) >= 0
    BY DEF Byte
  <2> QED
    BY <1>1, <2>1 DEF Byte
<1>3. s = 0 => x = 0
  OBVIOUS
<1> HIDE DEF x
<1>4. Scale - x \in 0..Scale /\ (s = 0 => Scale - x = Scale)
  BY <1>1, <1>2, <1>3 DEF Byte, Scale
<1> QED
  BY <1>4 DEF x

\* The six sextants of the hue, and how far into one a hue can be.
LEMMA SextantOfHue ==
  ASSUME NEW h \in Byte
  PROVE  LET sextant == (h * 6) \div 256
         IN  /\ sextant \in 0..5
             /\ h - (sextant * 256) \div 6 \in 0..43
             /\ (h < 43 \/ h >= 214) <=> sextant \in {0, 5}
             /\ h \in 43..127 <=> sextant \in {1, 2}
             /\ h \in 128..213 <=> sextant \in {3, 4}
<1> DEFINE sextant == (h * 6) \div 256
<1>1. sextant \in 0..5
  BY DEF Byte
<1>2. h - (sextant * 256) \div 6 \in 0..43
  BY SMTT(60) DEF Byte
<1>3. (h < 43 \/ h >= 214) <=> sextant \in {0, 5}
  BY SMTT(60) DEF Byte
<1>4. h \in 43..127 <=> sextant \in {1, 2}
  BY SMTT(60) DEF Byte
<1>5. h \in 128..213 <=> sextant \in {3, 4}
  BY SMTT(60) DEF Byte
<1> QED
  BY <1>1, <1>2, <1>3, <1>4, <1>5

\* hsv2rgb: the component of the hue's third has the brightness, the others
\* have no more, and without saturation they have as much.
LEMMA ColourOfHsv ==
  ASSUME NEW c \in Colour
  PROVE  LET rgb == hsv2rgb(c)
         IN  /\ rgb.r \in 0..c.v /\ rgb.g \in 0..c.v /\ rgb.b \in 0..c.v
             /\ (c.h < 43 \/ c.h >= 214) => rgb.r = c.v
             /\ c.h \in 43..127 => rgb.g = c.v
             /\ c.h \in 128..213 => rgb.b = c.v
             /\ c.s = 0 => rgb.r = c.v /\ rgb.g = c.v /\ rgb.b = c.v
<1>0. c.h \in Byte /\ c.s \in Byte /\ c.v \in Byte
  BY DEF Colour
<1> DEFINE sextant == (c.h * 6) \div 256
           f == c.h - (sextant * 256) \div 6
           p == Clamp((c.v * (256 - c.s)) \div 256)
           q == Clamp((c.v * (256 * 43 - c.s * f)) \div (256 * 43))
           t == Clamp((c.v * (256 * 43 - c.s * (43 - f))) \div (256 * 43))
<1>1. /\ sextant \in 0..5 /\ f \in 0..43
      /\ (c.h < 43 \/ c.h >= 214) <=> sextant \in {0, 5}
      /\ c.h \in 43..127 <=> sextant \in {1, 2}
      /\ c.h \in 128..213 <=> sextant \in {3, 4}
  BY <1>0, SextantOfHue
<1>2. hsv2rgb(c) = [r |-> <<c.v, q, p, p, t, c.v>>[sextant + 1],
                    g |-> <<t, c.v, c.v, q, p, p>>[sextant + 1],
                    b |-> <<p, p, t, c.v, c.v, q>>[sextant + 1]]
  BY Zenon DEF hsv2rgb
<1> HIDE DEF f, sextant
<1>3. \A x \in 0..c.v : x \in Byte /\ Clamp(x) = x
  BY <1>0, ClampsNoByte DEF Byte
<1>4. p \in 0..c.v /\ (c.s = 0 => p = c.v)
  <2> DEFINE n == 256 - c.s
  <2>1. n \in 0..256 /\ (c.s = 0 => n = 256)
    BY <1>0 DEF Byte
  <2> HIDE DEF n
  <2>3. Part(c.v, n, 256) \in 0..c.v /\ (n = 256 => Part(c.v, n, 256) = c.v)
    BY <1>0, <2>1, PartOfBrightness
  <2>4. Clamp(Part(c.v, n, 256)) \in 0..c.v /\ (c.s = 0 => Clamp(Part(c.v, n, 256)) = c.v)
    BY <1>3, <2>1, <2>3
  <2> QED
    BY <2>4, Zenon DEF n, Part
<1>5. ASSUME NEW g \in 0..43
      PROVE  LET x == Clamp((c.v * (256 * 43 - c.s * g)) \div (256 * 43))
             IN  x \in 0..c.v /\ (c.s = 0 => x = c.v)
  <2> DEFINE n == Scale - c.s * g
  <2>1. n \in 0..Scale /\ (c.s = 0 => n = Scale)
    BY <1>0, SaturationTakes
  <2> HIDE DEF n
  <2>2. Part(c.v, n, Scale) \in 0..c.v
        /\ (n = Scale => Part(c.v, n, Scale) = c.v)
    <3>1. n \in Nat /\ n <= Scale
      BY <2>1 DEF Scale
    <3> QED
      BY <1>0, <3>1, PartOfBrightness, Zenon
  <2>3. Clamp(Part(c.v, n, Scale)) \in 0..c.v
        /\ (c.s = 0 => Clamp(Part(c.v, n, Scale)) = c.v)
    BY <1>3, <2>1, <2>2
  <2> QED
    BY <2>3, Zenon DEF n, Part, Scale
<1>6. q \in 0..c.v /\ (c.s = 0 => q = c.v)
  BY <1>1, <1>5
<1>7. t \in 0..c.v /\ (c.s = 0 => t = c.v)
  <2>1. 43 - f \in 0..43
    BY <1>1
  <2> QED
    BY <2>1, <1>5
<1> HIDE DEF p, q, t
<1>8. c.v \in 0..c.v
  BY <1>0 DEF Byte
<1>9. sextant \in {0, 1, 2, 3, 4, 5}
  BY <1>1
<1> QED
  BY <1>1, <1>2, <1>4, <1>6, <1>7, <1>8, <1>9

\* A colour in the buffer's twelve bytes.
Pattern(c) == [j \in 0..11 |-> get_protocol_eq(<<c.g, c.r, c.b>>[j \div 4 + 1], j % 4)]

\* The bits of a byte are a nibble each, the highest first.
LEMMA NibbleIsBit ==
  ASSUME NEW bytes, NEW data \in Byte, NEW first \in {0, 8, 16}, NEW k \in 0..7,
         \A pos \in 0..3 : bytes[first \div 2 + pos] = get_protocol_eq(data, pos)
  PROVE  (Nibble(bytes, first + k) = 14) <=> Bit(data, 7 - k) = 1
<1> DEFINE pos == k \div 2
           high == IF Bit(data, 2 * (3 - pos)) = 1 THEN 14 ELSE 8
           low == IF Bit(data, 2 * (3 - pos) + 1) = 1 THEN 14 ELSE 8
<1>1. pos \in 0..3 /\ (first + k) \div 2 = first \div 2 + pos /\ (first + k) % 2 = k % 2
  OBVIOUS
<1>2. bytes[(first + k) \div 2] = get_protocol_eq(data, pos)
  BY <1>1
<1>3. high \in {14, 8} /\ low \in {14, 8}
  OBVIOUS
<1>4. get_protocol_eq(data, pos) = high + low * 16
  BY DEF get_protocol_eq
<1>5. k % 2 = 0 => 2 * (3 - pos) + 1 = 7 - k
  OBVIOUS
<1>6. k % 2 # 0 => 2 * (3 - pos) = 7 - k
  OBVIOUS
<1>7. (k % 2 = 0 /\ low = 14) => Bit(data, 7 - k) = 1
  BY <1>5
<1>8. (k % 2 = 0 /\ low # 14) => Bit(data, 7 - k) # 1
  BY <1>5
<1>9. (k % 2 # 0 /\ high = 14) => Bit(data, 7 - k) = 1
  BY <1>6
<1>10. (k % 2 # 0 /\ high # 14) => Bit(data, 7 - k) # 1
  BY <1>6
<1> HIDE DEF high, low, pos
<1>11. (high + low * 16) \div 16 = low /\ (high + low * 16) % 16 = high
  BY <1>3
<1>12. Nibble(bytes, first + k) = IF k % 2 = 0 THEN low ELSE high
  BY <1>1, <1>2, <1>4, <1>11 DEF Nibble
<1> QED
  BY <1>7, <1>8, <1>9, <1>10, <1>12

\* So the strip reads what was written.
LEMMA ReadsTheByte ==
  ASSUME NEW bytes, NEW data \in Byte, NEW first \in {0, 8, 16},
         \A pos \in 0..3 : bytes[first \div 2 + pos] = get_protocol_eq(data, pos)
  PROVE  Component(bytes, first) = data
<1> DEFINE high(k) == Nibble(bytes, first + k) = 14
<1>1. \A k \in 0..7 : high(k) <=> Bit(data, 7 - k) = 1
  BY NibbleIsBit
<1> HIDE DEF high
<1>2. /\ high(0) <=> (data \div 128) % 2 = 1
      /\ high(1) <=> (data \div 64) % 2 = 1
      /\ high(2) <=> (data \div 32) % 2 = 1
      /\ high(3) <=> (data \div 16) % 2 = 1
      /\ high(4) <=> (data \div 8) % 2 = 1
      /\ high(5) <=> (data \div 4) % 2 = 1
      /\ high(6) <=> (data \div 2) % 2 = 1
      /\ high(7) <=> (data \div 1) % 2 = 1
  BY <1>1 DEF Bit, Weight
<1>3. Component(bytes, first) =
        (IF high(0) THEN 128 ELSE 0) + (IF high(1) THEN 64 ELSE 0)
        + (IF high(2) THEN 32 ELSE 0) + (IF high(3) THEN 16 ELSE 0)
        + (IF high(4) THEN 8 ELSE 0) + (IF high(5) THEN 4 ELSE 0)
        + (IF high(6) THEN 2 ELSE 0) + (IF high(7) THEN 1 ELSE 0)
  BY DEF Component, Weight, high
<1>4. data = (IF (data \div 128) % 2 = 1 THEN 128 ELSE 0) + (IF (data \div 64) % 2 = 1 THEN 64 ELSE 0)
        + (IF (data \div 32) % 2 = 1 THEN 32 ELSE 0) + (IF (data \div 16) % 2 = 1 THEN 16 ELSE 0)
        + (IF (data \div 8) % 2 = 1 THEN 8 ELSE 0) + (IF (data \div 4) % 2 = 1 THEN 4 ELSE 0)
        + (IF (data \div 2) % 2 = 1 THEN 2 ELSE 0) + (IF (data \div 1) % 2 = 1 THEN 1 ELSE 0)
  BY SMTT(60) DEF Byte
<1> QED
  BY <1>2, <1>3, <1>4

\* The strip shows a colour whose pattern is in its bytes.
LEMMA ShowsThePattern ==
  ASSUME NEW c, c.r \in Byte, c.g \in Byte, c.b \in Byte
  PROVE  Shown(Pattern(c)) = [g |-> c.g, r |-> c.r, b |-> c.b]
<1> DEFINE bytes == Pattern(c)
<1>1. \A j \in 0..11 : bytes[j] = get_protocol_eq(<<c.g, c.r, c.b>>[j \div 4 + 1], j % 4)
  BY DEF Pattern
<1> HIDE DEF bytes
<1>2. Component(bytes, 0) = c.g
  <2>1. ASSUME NEW pos \in 0..3 PROVE bytes[0 \div 2 + pos] = get_protocol_eq(c.g, pos)
    <3>1. 0 \div 2 + pos = pos /\ pos \in 0..11 /\ pos \div 4 = 0 /\ pos % 4 = pos
      OBVIOUS
    <3> QED
      BY <1>1, <3>1
  <2> QED
    BY <2>1, ReadsTheByte
<1>3. Component(bytes, 8) = c.r
  <2>1. ASSUME NEW pos \in 0..3 PROVE bytes[8 \div 2 + pos] = get_protocol_eq(c.r, pos)
    <3>1. /\ 8 \div 2 + pos = 4 + pos /\ 4 + pos \in 0..11
          /\ (4 + pos) \div 4 = 1 /\ (4 + pos) % 4 = pos
      OBVIOUS
    <3> QED
      BY <1>1, <3>1
  <2> QED
    BY <2>1, ReadsTheByte
<1>4. Component(bytes, 16) = c.b
  <2>1. ASSUME NEW pos \in 0..3 PROVE bytes[16 \div 2 + pos] = get_protocol_eq(c.b, pos)
    <3>1. /\ 16 \div 2 + pos = 8 + pos /\ 8 + pos \in 0..11
          /\ (8 + pos) \div 4 = 2 /\ (8 + pos) % 4 = pos
      OBVIOUS
    <3> QED
      BY <1>1, <3>1
  <2> QED
    BY <2>1, ReadsTheByte
<1> QED
  BY <1>2, <1>3, <1>4, Zenon DEF Shown, bytes

\* Every LED that was set has the pattern of its colour.
PatternInv ==
    /\ DOMAIN txbuff = Led /\ hsv \in [Led -> Colour \cup {NotSet}]
    /\ \A led \in Led : hsv[led] # NotSet => txbuff[led] = Pattern(hsv2rgb(hsv[led]))

\* No brightness is black.
LEMMA BlackIsDark == hsv2rgb(Black).r = 0 /\ hsv2rgb(Black).g = 0 /\ hsv2rgb(Black).b = 0
<1>1. Black \in Colour /\ Black.v = 0
  BY DEF Black, Colour, Byte
<1> QED
  BY <1>1, ColourOfHsv

\* The colours that are set reach the wire: an LED shows the brightness it was
\* set to, in the third of the circle its hue is in, and grey without
\* saturation (hsv2rgb, get_protocol_eq, set_ws2812b_strip_rgb), for every
\* colour and any number of LEDs.
THEOREM StripShowsWhatWasSet == LedSpec => []StripShowsColours
<1>1. LedInit => PatternInv
  BY DEF LedInit, setup_ws2812b_strip, PatternInv
<1>2. PatternInv /\ [LedNext]_lvars => PatternInv'
  <2> SUFFICES ASSUME PatternInv, [LedNext]_lvars PROVE PatternInv'
    OBVIOUS
  <2>1. ASSUME NEW pos \in Led, NEW c \in Colours, set_ws2812b_strip_hsv(pos, c)
        PROVE  PatternInv'
    <3>1. c \in Colour
      BY ColourAssumption DEF Colour, Byte
    <3>2. hsv' = [hsv EXCEPT ![pos] = c] /\ txbuff' = [txbuff EXCEPT ![pos] = Pattern(hsv2rgb(c))]
      BY <2>1 DEF set_ws2812b_strip_hsv, set_ws2812b_strip_rgb, Pattern
    <3> QED
      BY <3>1, <3>2 DEF PatternInv
  <2>2. CASE clear_ws2812b_strip
    <3> DEFINE dark == [r |-> 0, g |-> 0, b |-> 0]
    <3>1. Pattern(dark) = Pattern(hsv2rgb(Black))
      BY BlackIsDark DEF Pattern
    <3>2. ASSUME NEW led \in Led
          PROVE  set_ws2812b_strip_rgb(txbuff, led, dark)[led] = Pattern(dark)
      BY DEF set_ws2812b_strip_rgb, Pattern, PatternInv
    <3>3. Black \in Colour
      BY DEF Black, Colour, Byte
    <3>4. /\ txbuff' = [led \in Led |-> set_ws2812b_strip_rgb(txbuff, led, dark)[led]]
          /\ hsv' = [led \in Led |-> Black]
      BY <2>2 DEF clear_ws2812b_strip
    <3> HIDE DEF dark
    <3> QED
      BY <3>1, <3>2, <3>3, <3>4 DEF PatternInv
  <2>3. CASE UNCHANGED <<txbuff, hsv>>
    BY <2>3 DEF PatternInv
  <2> QED
    BY <2>1, <2>2, <2>3
       DEF LedNext, StripNext, MatrixNext, update_ws2812b_strip, lvars, strip, matrix_commit,
           set_pixel, clear_pixel, set_column
<1>3. PatternInv => StripShowsColours
  <2> SUFFICES ASSUME PatternInv, NEW led \in Led, hsv[led] # NotSet
               PROVE  LET c == Shown(txbuff[led])
                          h == hsv[led].h
                      IN  /\ Max({c.r, c.g, c.b}) = hsv[led].v
                          /\ hsv[led].s = 0 => c.r = c.g /\ c.g = c.b
                          /\ hsv[led].v = CASE h < 43 \/ h >= 214 -> c.r
                                            [] h \in 43..127 -> c.g
                                            [] h \in 128..213 -> c.b
    BY DEF StripShowsColours
  <2>1. hsv[led] \in Colour /\ txbuff[led] = Pattern(hsv2rgb(hsv[led]))
    BY DEF PatternInv
  <2> DEFINE of == hsv[led]
             rgb == hsv2rgb(of)
             c == Shown(txbuff[led])
  <2>2. of.h \in Byte /\ of.v \in Byte
    BY <2>1 DEF Colour
  <2>3. /\ rgb.r \in 0..of.v /\ rgb.g \in 0..of.v /\ rgb.b \in 0..of.v
        /\ (of.h < 43 \/ of.h >= 214) => rgb.r = of.v
        /\ of.h \in 43..127 => rgb.g = of.v
        /\ of.h \in 128..213 => rgb.b = of.v
        /\ of.s = 0 => rgb.r = of.v /\ rgb.g = of.v /\ rgb.b = of.v
    BY <2>1, ColourOfHsv
  <2> HIDE DEF rgb
  <2>4. rgb.r \in Byte /\ rgb.g \in Byte /\ rgb.b \in Byte
    <3>1. 0..of.v \subseteq Byte
      BY <2>2 DEF Byte
    <3> QED
      BY <2>3, <3>1
  <2>5. c = [g |-> rgb.g, r |-> rgb.r, b |-> rgb.b]
    BY <2>1, <2>4, ShowsThePattern DEF rgb
  <2> HIDE DEF c, of
  <2>6. c.r = rgb.r /\ c.g = rgb.g /\ c.b = rgb.b
    BY <2>5
  <2>7. /\ c.r \in 0..of.v /\ c.g \in 0..of.v /\ c.b \in 0..of.v
        /\ of.v \in {c.r, c.g, c.b}
    BY <2>2, <2>3, <2>6 DEF Byte
  <2>8. Max({c.r, c.g, c.b}) = of.v
    <3> DEFINE S == {c.r, c.g, c.b}
    <3>1. S \in SUBSET Int /\ of.v \in S /\ \A x \in S : x <= of.v
      BY <2>2, <2>7 DEF Byte
    <3> HIDE DEF S
    <3>2. Max(S) = of.v
      BY <3>1, GreatestIsMax
    <3> QED
      BY <3>2 DEF S
  <2>10. of.v = CASE of.h < 43 \/ of.h >= 214 -> c.r
                 [] of.h \in 43..127 -> c.g
                 [] of.h \in 128..213 -> c.b
    BY <2>2, <2>3, <2>6 DEF Byte
  <2>11. of.s = 0 => c.r = c.g /\ c.g = c.b
    BY <2>3, <2>6
  <2> QED
    BY <2>8, <2>10, <2>11 DEF c, of
<1> QED
  BY <1>1, <1>2, <1>3, PTL DEF LedSpec
=============================================================================
