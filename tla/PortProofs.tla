--------------------------- MODULE PortProofs ---------------------------------
(***************************************************************************)
(* The program on its two other boards: the ring of the Linux port for any *)
(* size and any messages, and the Pico's strip threads for any number and  *)
(* length of strips and any number of frames.                              *)
(***************************************************************************)
EXTENDS LinuxPort, PicoStrips, SequenceTheorems, TLAPS

-----------------------------------------------------------------------------
(* The ring of the Linux port                                              *)

USE RingAssumption

LinuxNode == [id : Nat, len : Int, buffer : BOOLEAN, callback : BOOLEAN]

\* The k-th place after a tail, and the place of the i-th node of the ring.
After(tail, k) == (tail + k) % RingSize
Slot(i) == After(tail_pos, i - 1)

\* Nodes handed over, but for the one nobody pushed that the mutex was kept with.
Given == IF node_muttx = "publish" THEN Len(handed) - 1 ELSE Len(handed)

LinuxTypeOK ==
    /\ node_list \in [0..(RingSize - 1) -> LinuxNode \cup {Undefined}]
    /\ head_pos \in 0..(RingSize - 1) /\ tail_pos \in 0..(RingSize - 1)
    /\ current_size \in 0..RingSize
    /\ accepted \in Seq(LinuxNode) /\ handed \in Seq(LinuxNode \cup {Undefined})
    /\ at = [app |-> at.app, consume |-> at.consume, publish |-> at.publish]
    /\ app_next \in Nat /\ (at.app = "push" => app_next < Len(AppNodes))

LinuxOrderInv ==
    /\ node_muttx = "publish" => handed # <<>> /\ handed[Len(handed)] = Undefined
    /\ Len(accepted) = Given + current_size
    /\ \A i \in 1..Given : handed[i] = accepted[i]
    /\ \A i \in 1..current_size : node_list[Slot(i)] = accepted[Given + i]

LinuxInv ==
    /\ LinuxTypeOK /\ head_pos = Slot(current_size + 1)
    /\ LinuxOrderInv

\* Positions follow each other round the ring, and none is met twice.
LEMMA RingSlots ==
  ASSUME NEW tail \in 0..(RingSize - 1)
  PROVE  /\ After(tail, 0) = tail
         /\ \A i \in 0..RingSize : After(tail, i) \in 0..(RingSize - 1)
         /\ \A i \in 0..(RingSize - 1), j \in 0..(RingSize - 1) :
               i # j => After(tail, i) # After(tail, j)
         /\ \A i \in 0..(RingSize - 1) :
               /\ (After(tail, i) + 1) % RingSize = After(tail, i + 1)
               /\ After((tail + 1) % RingSize, i) = After(tail, i + 1)
         /\ (tail + 1) % RingSize = After(tail, 1)
<1>1. \A x \in 0..(2 * RingSize - 1) :
         x % RingSize = IF x < RingSize THEN x ELSE x - RingSize
  <2>1. \A x \in 0..(RingSize - 1) : x % RingSize = x
    OBVIOUS
  <2>2. \A x \in RingSize..(2 * RingSize - 1) : x % RingSize = x - RingSize
    OBVIOUS
  <2> QED
    BY <2>1, <2>2
<1> DEFINE Mod(x) == x % RingSize
<1>2. \A x \in 0..(2 * RingSize - 1) : Mod(x) = IF x < RingSize THEN x ELSE x - RingSize
  BY <1>1
<1> HIDE DEF Mod
<1>3. Mod(tail) = tail
  BY <1>2
<1>4. \A i \in 0..RingSize : Mod(tail + i) \in 0..(RingSize - 1)
  BY <1>2
<1>5. \A i \in 0..(RingSize - 1), j \in 0..(RingSize - 1) :
         i # j => Mod(tail + i) # Mod(tail + j)
  BY <1>2
<1>6. ASSUME NEW i \in 0..(RingSize - 1)
      PROVE  /\ Mod(Mod(tail + i) + 1) = Mod(tail + (i + 1))
             /\ Mod(Mod(tail + 1) + i) = Mod(tail + (i + 1))
  BY <1>2
<1> QED
  <2>1. \A t, i : After(t, i) = Mod(t + i)
    BY DEF After, Mod
  <2>2. After(tail, 0) = tail
    BY <1>3, <2>1
  <2>3. \A i \in 0..(RingSize - 1) : (Mod(tail + i) + 1) % RingSize = Mod(Mod(tail + i) + 1)
        /\ (tail + 1) % RingSize = Mod(tail + 1)
    BY DEF Mod
  <2> QED
    BY <1>4, <1>5, <1>6, <2>1, <2>2, <2>3

\* A node that was published has an id, so it is not what nobody wrote.
LEMMA LinuxNodes ==
  /\ LinuxAck \in LinuxNode /\ Undefined \notin LinuxNode
  /\ AppNodes \in Seq(LinuxNode)
BY AppAssumption DEF LinuxAck, IPC_TYPE_ACK, Undefined, LinuxNode

\* The invariant holds of what init leaves behind.
LEMMA LinuxInitInv == LinuxInit => LinuxInv
<1> SUFFICES ASSUME LinuxInit PROVE LinuxInv
  OBVIOUS
<1>1. LinuxTypeOK
  BY DEF LinuxInit, LinuxTypeOK
<1>2. head_pos = Slot(current_size + 1)
  <2>1. head_pos = 0 /\ tail_pos = 0 /\ current_size = 0
    BY DEF LinuxInit
  <2>2. After(0, 0) = 0 /\ 0 + 1 - 1 = 0
    BY RingSlots
  <2> QED
    BY <2>1, <2>2 DEF Slot
<1>3. LinuxOrderInv
  BY DEF LinuxInit, LinuxOrderInv, Given
<1> QED
  BY <1>1, <1>2, <1>3 DEF LinuxInv

\* A push appends to the ring, or keeps the mutex if the ring is full.
LEMMA PushKeeps ==
  ASSUME LinuxInv, NEW t \in {"app", "consume"}, NEW new \in LinuxNode, NEW next,
         Push(t, new, next), app_next' \in Nat, at'.app = "push" => app_next' < Len(AppNodes)
  PROVE  LinuxInv'
<1> USE DEF LinuxInv, Push
<1>1. at' = [app |-> at'.app, consume |-> at'.consume, publish |-> at'.publish]
  BY DEF LinuxTypeOK
<1>2. CASE current_size = RingSize
  <2>1. LinuxTypeOK'
    BY <1>1, <1>2 DEF LinuxTypeOK
  <2>2. Given' = Given /\ head_pos' = Slot(current_size + 1)'
    BY <1>2 DEF Given, Slot
  <2>3. LinuxOrderInv'
    BY <1>2, <2>2 DEF LinuxOrderInv, Slot
  <2> QED
    BY <2>1, <2>2, <2>3
<1>3. CASE current_size # RingSize
  <2>1. /\ node_list' = [node_list EXCEPT ![head_pos] = new]
        /\ head_pos' = (head_pos + 1) % RingSize
        /\ current_size' = current_size + 1 /\ current_size + 1 \in 1..RingSize
        /\ accepted' = Append(accepted, new)
        /\ UNCHANGED <<tail_pos, node_muttx, handed>> /\ node_muttx = "nobody"
    BY <1>3 DEF LinuxTypeOK
  <2>2. /\ accepted' \in Seq(LinuxNode) /\ Len(accepted') = Len(accepted) + 1
        /\ \A i \in 1..Len(accepted) : accepted'[i] = accepted[i]
        /\ accepted'[Len(accepted) + 1] = new
    BY <2>1 DEF LinuxTypeOK
  <2>3. /\ tail_pos \in 0..(RingSize - 1) /\ current_size \in 0..(RingSize - 1)
        /\ head_pos = After(tail_pos, current_size)
    BY <2>1 DEF LinuxTypeOK, Slot
  <2>4. head_pos' = Slot(current_size + 1)' /\ head_pos' \in 0..(RingSize - 1)
    <3>1. (head_pos + 1) % RingSize = After(tail_pos, current_size + 1)
      BY <2>3, RingSlots
    <3>2. After(tail_pos, current_size + 1) \in 0..(RingSize - 1)
      BY <2>3, RingSlots
    <3>3. Slot(current_size + 1)' = After(tail_pos, current_size + 1)
      BY <2>1, <2>3 DEF Slot
    <3> QED
      BY <2>1, <3>1, <3>2, <3>3
  <2>5. \A i \in 1..current_size : Slot(i) # head_pos /\ Slot(i)' = Slot(i)
    <3> SUFFICES ASSUME NEW i \in 1..current_size PROVE Slot(i) # head_pos /\ Slot(i)' = Slot(i)
      OBVIOUS
    <3>1. i - 1 \in 0..(RingSize - 1) /\ i - 1 # current_size
      BY <2>3
    <3>2. Slot(i)' = Slot(i)
      BY <2>1 DEF Slot
    <3>3. After(tail_pos, i - 1) # After(tail_pos, current_size)
      BY <2>3, <3>1, RingSlots
    <3> QED
      BY <2>3, <3>2, <3>3 DEF Slot
  <2>6. LinuxTypeOK'
    BY <1>1, <2>1, <2>2, <2>4 DEF LinuxTypeOK
  <2>7. Given' = Given /\ Given = Len(handed) /\ Len(handed) \in Nat
    BY <2>1 DEF Given, LinuxTypeOK
  <2>8. \A i \in 1..current_size' : node_list'[Slot(i)'] = accepted'[Given' + i]
    <3> SUFFICES ASSUME NEW i \in 1..(current_size + 1)
                 PROVE  node_list'[Slot(i)'] = accepted'[Given + i]
      BY <2>1, <2>7
    <3>1. node_list \in [0..(RingSize - 1) -> LinuxNode \cup {Undefined}]
          /\ head_pos \in 0..(RingSize - 1)
      BY DEF LinuxTypeOK
    <3>2. CASE i = current_size + 1
      <4>1. Slot(i)' = head_pos
        <5>1. i - 1 = current_size
          BY <2>3, <3>2
        <5> QED
          BY <2>1, <2>3, <5>1 DEF Slot
      <4> QED
        <5>1. node_list'[head_pos] = new
          BY <2>1, <3>1
        <5>2. Given + i = Len(accepted) + 1
          BY <2>3, <2>7, <3>2 DEF LinuxOrderInv
        <5> QED
          BY <2>2, <4>1, <5>1, <5>2
    <3>3. CASE i # current_size + 1
      <4>1. i \in 1..current_size
        BY <2>3, <3>3
      <4>2. Slot(i) \in 0..(RingSize - 1)
        <5>1. i - 1 \in 0..RingSize
          BY <2>3, <4>1
        <5> QED
          BY <2>3, <5>1, RingSlots DEF Slot
      <4>3. node_list'[Slot(i)'] = node_list[Slot(i)]
        BY <2>1, <2>5, <3>1, <4>1, <4>2
      <4>4. accepted'[Given + i] = accepted[Given + i]
        <5>1. Len(accepted) = Given + current_size /\ Given \in Nat
          BY <2>7 DEF LinuxOrderInv
        <5>2. Given + i \in 1..Len(accepted)
          BY <2>3, <4>1, <5>1
        <5> QED
          BY ONLY <2>2, <5>2
      <4> QED
        BY <4>1, <4>3, <4>4 DEF LinuxOrderInv
    <3> QED
      BY <3>2, <3>3
  <2>9. /\ Len(accepted') = Given' + current_size'
        /\ \A i \in 1..Given' : handed'[i] = accepted'[i]
    BY <2>1, <2>2, <2>3, <2>7 DEF LinuxOrderInv
  <2>10. LinuxOrderInv'
    BY <2>1, <2>8, <2>9 DEF LinuxOrderInv
  <2> QED
    BY <2>4, <2>6, <2>10
<1> QED
  BY <1>2, <1>3

\* A pop takes the oldest node, or keeps the mutex if there is none.
LEMMA PopKeeps == ASSUME LinuxInv, BlockConsume PROVE LinuxInv'
<1> USE DEF LinuxInv, BlockConsume, Pop
<1>1. at' = [app |-> at.app, consume |-> at.consume, publish |-> "write"]
  BY DEF LinuxTypeOK
<1>2. /\ node_muttx = "nobody" /\ handed' = Append(handed, event_node')
      /\ UNCHANGED <<node_list, head_pos, accepted, app_next>>
  OBVIOUS
<1>3. Given = Len(handed) /\ Len(handed) \in Nat
  BY <1>2 DEF Given, LinuxTypeOK
<1>4. CASE current_size = 0
  <2>1. /\ event_node' = Undefined /\ node_muttx' = "publish"
        /\ UNCHANGED <<tail_pos, current_size>>
    BY <1>4
  <2>2. /\ handed' \in Seq(LinuxNode \cup {Undefined}) /\ Len(handed') = Len(handed) + 1
        /\ \A i \in 1..Len(handed) : handed'[i] = handed[i]
        /\ handed'[Len(handed) + 1] = Undefined
    BY <1>2, <2>1 DEF LinuxTypeOK
  <2>3. LinuxTypeOK'
    BY <1>1, <1>2, <2>1, <2>2 DEF LinuxTypeOK
  <2>4. Given' = Given
    BY <1>3, <2>1, <2>2 DEF Given
  <2>5. LinuxOrderInv'
    BY <1>2, <1>3, <1>4, <2>1, <2>2, <2>4 DEF LinuxOrderInv
  <2>6. head_pos' = Slot(current_size + 1)'
    BY <1>2, <2>1 DEF Slot
  <2> QED
    BY <2>3, <2>5, <2>6
<1>5. CASE current_size # 0
  <2>1. /\ event_node' = node_list[tail_pos] /\ current_size' = current_size - 1
        /\ tail_pos' = (tail_pos + 1) % RingSize /\ node_muttx' = "nobody"
    BY <1>2, <1>5
  <2> HIDE DEF BlockConsume, Pop
  <2>2. tail_pos \in 0..(RingSize - 1) /\ current_size \in 1..RingSize
    BY <1>5 DEF LinuxTypeOK
  <2>3. tail_pos = Slot(1)
    <3>1. Slot(1) = After(tail_pos, 0)
      BY DEF Slot
    <3> QED
      BY <2>2, <3>1, RingSlots
  <2>4. event_node' = accepted[Len(handed) + 1] /\ event_node' \in LinuxNode
    <3>1. node_list[Slot(1)] = accepted[Given + 1] /\ Len(accepted) = Given + current_size
      BY <2>2 DEF LinuxOrderInv
    <3>2. Len(handed) + 1 \in 1..Len(accepted)
      BY <1>3, <2>2, <3>1
    <3> QED
      BY <1>3, <2>1, <2>3, <3>1, <3>2 DEF LinuxTypeOK
  <2>5. /\ handed' \in Seq(LinuxNode \cup {Undefined}) /\ Len(handed') = Len(handed) + 1
        /\ \A i \in 1..Len(handed) : handed'[i] = handed[i]
        /\ handed'[Len(handed) + 1] = accepted[Len(handed) + 1]
    BY <1>2, <2>4 DEF LinuxTypeOK
  <2>6. tail_pos' \in 0..(RingSize - 1)
    <3>1. After(tail_pos, 1) \in 0..(RingSize - 1)
      BY <2>2, RingSlots
    <3> QED
      BY <2>1, <2>2, <3>1, RingSlots
  <2>7. LinuxTypeOK'
    BY <1>1, <1>2, <2>1, <2>2, <2>5, <2>6 DEF LinuxTypeOK
  <2>8. Given' = Len(handed) + 1
    BY <2>1, <2>5 DEF Given
  <2>9. \A i \in 1..current_size : Slot(i)' = Slot(i + 1)
    <3> SUFFICES ASSUME NEW i \in 1..current_size PROVE Slot(i)' = Slot(i + 1)
      OBVIOUS
    <3>1. i - 1 \in 0..(RingSize - 1) /\ (i - 1) + 1 = (i + 1) - 1
      BY <2>2
    <3>2. After((tail_pos + 1) % RingSize, i - 1) = After(tail_pos, (i - 1) + 1)
      BY <2>2, <3>1, RingSlots
    <3> QED
      BY <2>1, <3>1, <3>2 DEF Slot
  <2>10. head_pos' = Slot(current_size + 1)'
    BY <1>2, <2>1, <2>2, <2>9
  <2>11. \A i \in 1..current_size' : node_list'[Slot(i)'] = accepted'[Given' + i]
    <3> SUFFICES ASSUME NEW i \in 1..(current_size - 1)
                 PROVE  node_list[Slot(i + 1)] = accepted[Len(handed) + 1 + i]
      BY <1>2, <2>1, <2>2, <2>8, <2>9
    <3>1. i + 1 \in 1..current_size /\ Given + (i + 1) = Len(handed) + 1 + i
      BY <1>3, <2>2
    <3> QED
      BY <3>1 DEF LinuxOrderInv
  <2>12. /\ Len(accepted') = Given' + current_size'
         /\ \A i \in 1..Given' : handed'[i] = accepted'[i]
    <3>1. Len(accepted) = Given + current_size
          /\ \A i \in 1..Given : handed[i] = accepted[i]
      BY DEF LinuxOrderInv
    <3>2. Len(accepted') = Given' + current_size'
      BY <1>2, <1>3, <2>1, <2>2, <2>8, <3>1
    <3>3. ASSUME NEW i \in 1..(Len(handed) + 1) PROVE handed'[i] = accepted[i]
      <4>1. CASE i \in 1..Len(handed)
        BY <1>3, <2>5, <3>1, <4>1
      <4>2. CASE i = Len(handed) + 1
        BY <2>5, <4>2
      <4> QED
        BY <1>3, <4>1, <4>2
    <3> QED
      BY <1>2, <2>8, <3>2, <3>3
  <2>13. LinuxOrderInv'
    BY <2>1, <2>11, <2>12 DEF LinuxOrderInv
  <2> QED
    BY <2>7, <2>10, <2>13
<1> QED
  BY <1>4, <1>5

\* The other steps leave the ring alone.
LEMMA LinuxStutter ==
  ASSUME LinuxInv, UNCHANGED <<ring, app_next>>,
         at' = [app |-> at'.app, consume |-> at'.consume, publish |-> at'.publish],
         at'.app = "push" => at.app = "push" \/ app_next < Len(AppNodes)
  PROVE  LinuxInv'
<1>1. LinuxTypeOK' /\ head_pos' = Slot(current_size + 1)'
  BY DEF LinuxInv, LinuxTypeOK, Slot, ring
<1>2. LinuxOrderInv'
  BY DEF LinuxInv, LinuxOrderInv, Given, Slot, ring
<1> QED
  BY <1>1, <1>2 DEF LinuxInv

\* Every step keeps the invariant.
LEMMA LinuxNextInv == LinuxInv /\ [LinuxNext]_linuxvars => LinuxInv'
<1> SUFFICES ASSUME LinuxInv, [LinuxNext]_linuxvars PROVE LinuxInv'
  OBVIOUS
<1>1. at = [app |-> at.app, consume |-> at.consume, publish |-> at.publish]
      /\ app_next \in Nat /\ (at.app = "push" => app_next < Len(AppNodes))
  BY DEF LinuxInv, LinuxTypeOK
<1>2. CASE AppPushes
  <2>1. AppNodes[app_next + 1] \in LinuxNode
    BY <1>1, <1>2, LinuxNodes DEF AppPushes
  <2>2. app_next' \in Nat /\ at'.app = "idle"
    BY <1>1, <1>2 DEF AppPushes, Push
  <2> QED
    BY <1>2, <2>1, <2>2, PushKeeps DEF AppPushes
<1>3. CASE AckPushes
  <2>1. app_next' \in Nat /\ at'.app = at.app /\ app_next' = app_next
    BY <1>1, <1>3 DEF AckPushes, Push
  <2> QED
    BY <1>1, <1>3, <2>1, LinuxNodes, PushKeeps DEF AckPushes
<1>4. CASE BlockConsume
  BY <1>4, PopKeeps
<1>5. CASE WaitForSize \/ WaitForEvent \/ SpuriousWake \/ WriteNode
  <2>1. UNCHANGED <<ring, app_next>> /\ \E l : at' = [at EXCEPT !.publish = l]
    BY <1>5 DEF WaitForSize, WaitForEvent, SpuriousWake, WriteNode
  <2> QED
    BY <1>1, <2>1, LinuxStutter
<1>6. CASE GetHeader \/ GetBody \/ LinuxFlush \/ RunList
  <2>1. UNCHANGED <<ring, app_next>> /\ \E l : at' = [at EXCEPT !.consume = l]
    BY <1>6 DEF GetHeader, GetBody, LinuxFlush, RunList
  <2> QED
    BY <1>1, <2>1, LinuxStutter
<1>7. CASE AppSignals \/ AckSignals
  <2>1. /\ UNCHANGED <<ring, app_next>>
        /\ at' = [app |-> at'.app, consume |-> at'.consume, publish |-> at'.publish]
        /\ at'.app = "push" => at.app = "push" \/ app_next < Len(AppNodes)
    BY <1>1, <1>7 DEF AppSignals, AckSignals, Signal
  <2> QED
    BY <2>1, LinuxStutter
<1>8. CASE LinuxAttach \/ UNCHANGED linuxvars
  <2>1. UNCHANGED <<ring, app_next, at>>
    BY <1>8 DEF LinuxAttach, linuxvars
  <2> QED
    BY <1>1, <2>1, LinuxStutter
<1> QED
  BY <1>2, <1>3, <1>4, <1>5, <1>6, <1>7, <1>8 DEF LinuxNext

\* A node nobody wrote is handed over exactly when its taker keeps the mutex.
LEMMA TakenKeepsMutex ==
  ASSUME LinuxInv
  PROVE  EmptyTaken <=> node_muttx = "publish"
<1>1. /\ handed \in Seq(LinuxNode \cup {Undefined}) /\ Len(handed) \in Nat
      /\ accepted \in Seq(LinuxNode) /\ Len(accepted) \in Nat
      /\ current_size \in Nat
  BY DEF LinuxInv, LinuxTypeOK
<1>2. ASSUME handed # <<>>, node_muttx # "publish" PROVE Last(handed) # Undefined
  <2>1. Given = Len(handed) /\ Len(handed) \in 1..Given
    BY <1>1, <1>2 DEF Given
  <2>2. handed[Len(handed)] = accepted[Len(handed)] /\ Len(handed) \in 1..Len(accepted)
    BY <1>1, <2>1 DEF LinuxInv, LinuxOrderInv
  <2>3. accepted[Len(handed)] \in LinuxNode
    BY <1>1, <2>2
  <2> QED
    BY <2>2, <2>3, LinuxNodes DEF Last
<1> QED
  BY <1>2 DEF LinuxInv, LinuxOrderInv, EmptyTaken, Last

\* What was handed over is the beginning of what was accepted.
LEMMA HandedOverSeq ==
  ASSUME LinuxInv
  PROVE  /\ Given \in Nat /\ Len(HandedOver) = Given
         /\ HandedOver \in Seq(LinuxNode \cup {Undefined})
         /\ \A i \in 1..Given : HandedOver[i] = accepted[i]
<1>1. handed \in Seq(LinuxNode \cup {Undefined})
  BY DEF LinuxInv, LinuxTypeOK
<1>2. /\ HandedOver \in Seq(LinuxNode \cup {Undefined}) /\ Len(HandedOver) = Given
      /\ \A i \in 1..Given : HandedOver[i] = handed[i]
  <2>1. CASE EmptyTaken
    <3>1. node_muttx = "publish" /\ handed # <<>>
      BY <2>1, TakenKeepsMutex DEF EmptyTaken
    <3>2. HandedOver = SubSeq(handed, 1, Len(handed) - 1) /\ Given = Len(handed) - 1
      BY <2>1, <3>1 DEF HandedOver, Given, Front
    <3>3. Len(handed) \in Nat \ {0}
      BY <1>1, <3>1
    <3> QED
      BY <1>1, <3>2, <3>3
  <2>2. CASE ~EmptyTaken
    BY <1>1, <2>2, TakenKeepsMutex DEF HandedOver, Given
  <2> QED
    BY <2>1, <2>2
<1>3. \A i \in 1..Given : handed[i] = accepted[i]
  BY DEF LinuxInv, LinuxOrderInv
<1> QED
  BY <1>2, <1>3

\* A function on 1..n is a sequence of n elements.
LEMMA NodeSeq ==
  ASSUME NEW S, NEW n \in Nat, NEW f \in [1..n -> S]
  PROVE  f \in Seq(S) /\ Len(f) = n
OBVIOUS

\* The ring, oldest node first, is the rest of what was accepted.
LEMMA InRingSeq ==
  ASSUME LinuxInv
  PROVE  /\ InRing \in Seq(LinuxNode \cup {Undefined}) /\ Len(InRing) = current_size
         /\ \A i \in 1..current_size : InRing[i] = accepted[Given + i]
         /\ Len(accepted) = Given + current_size
<1>1. /\ accepted \in Seq(LinuxNode) /\ Len(accepted) = Given + current_size
      /\ current_size \in Nat /\ Given \in Nat
  BY HandedOverSeq DEF LinuxInv, LinuxTypeOK, LinuxOrderInv
<1>2. \A i \in 1..current_size : accepted[Given + i] \in LinuxNode
  BY <1>1
<1>3. \A i \in 1..current_size : InRing[i] = accepted[Given + i]
  <2>1. \A i \in 1..current_size : tail_pos + i - 1 = tail_pos + (i - 1)
    BY DEF LinuxInv, LinuxTypeOK
  <2>2. \A i \in 1..current_size : InRing[i] = node_list[Slot(i)]
    BY <2>1 DEF InRing, Slot, After
  <2> QED
    BY <2>2 DEF LinuxInv, LinuxOrderInv
<1>4. InRing \in [1..current_size -> LinuxNode \cup {Undefined}]
  <2>1. InRing = [i \in 1..current_size |-> InRing[i]]
    BY DEF InRing
  <2> QED
    BY <1>2, <1>3, <2>1
<1> QED
  BY <1>1, <1>3, <1>4, NodeSeq

\* The same in a form that carries over to the next state.
RingRest ==
    /\ InRing \in Seq(LinuxNode \cup {Undefined}) /\ Len(InRing) = current_size
    /\ \A i \in 1..current_size : InRing[i] = accepted[Given + i]
    /\ EmptyTaken <=> node_muttx = "publish"

LEMMA RingRestHolds == LinuxInv => RingRest
BY InRingSeq, TakenKeepsMutex DEF RingRest

\* Whatever signals were lost and whoever kept the mutex, what was pushed is
\* handed over once and in order or is still in the ring (_ipc_push_message_queue,
\* _ipc_pop_message_queue), for any size of the ring and any messages.
THEOREM LinuxKeepsOrder == LinuxSpec => []LinuxOrder
<1>1. LinuxInv => LinuxOrder
  <2> SUFFICES ASSUME LinuxInv PROVE LinuxOrder
    OBVIOUS
  <2>1. accepted \in Seq(LinuxNode \cup {Undefined}) /\ current_size \in Nat
    BY DEF LinuxInv, LinuxTypeOK
  <2>2. HandedOver \o InRing = accepted
    <3>1. HandedOver \o InRing \in Seq(LinuxNode \cup {Undefined})
          /\ Len(HandedOver \o InRing) = Len(accepted)
      BY HandedOverSeq, InRingSeq
    <3>2. ASSUME NEW i \in 1..Len(accepted) PROVE (HandedOver \o InRing)[i] = accepted[i]
      <4>1. CASE i <= Given
        BY <4>1, HandedOverSeq, InRingSeq
      <4>2. CASE i > Given
        <5>1. i - Given \in 1..current_size /\ Given + (i - Given) = i
          BY <2>1, <4>2, HandedOverSeq, InRingSeq
        <5>2. (HandedOver \o InRing)[i] = InRing[i - Given]
          BY <2>1, <4>2, HandedOverSeq, InRingSeq
        <5> QED
          BY <5>1, <5>2, InRingSeq
      <4>3. i <= Given \/ i > Given
        BY HandedOverSeq
      <4> QED
        BY <4>1, <4>2, <4>3, Zenon
    <3> QED
      BY <2>1, <3>1, <3>2, SeqEqual
  <2> QED
    BY <2>2, TakenKeepsMutex DEF LinuxOrder
<1> QED
  BY <1>1, LinuxInitInv, LinuxNextInv, PTL DEF LinuxSpec

-----------------------------------------------------------------------------
(* The ring of the Linux port implements MessageFifo                       *)

\* A push that finds room is the fifo's Publish.
LEMMA PushPublishes ==
  ASSUME LinuxInv, LinuxInv', NEW t, NEW next, NEW new \in Range(AppNodes) \cup {LinuxAck},
         Push(t, new, next), current_size # RingSize
  PROVE  LinuxFifo!Publish(new)
<1>1. /\ current_size \in 0..(RingSize - 1) /\ current_size' = current_size + 1
      /\ accepted' = Append(accepted, new) /\ UNCHANGED <<node_muttx, handed>>
  BY DEF Push, LinuxInv, LinuxTypeOK
<1>2. new \in LinuxNode /\ accepted \in Seq(LinuxNode)
  <2>1. \A i \in DOMAIN AppNodes : AppNodes[i] \in LinuxNode
    BY LinuxNodes
  <2> QED
    BY <2>1, LinuxNodes DEF Range, LinuxInv, LinuxTypeOK
<1>3. /\ Len(accepted) \in Nat
      /\ \A i \in 1..Len(accepted) : accepted'[i] = accepted[i]
      /\ accepted'[Len(accepted) + 1] = new
  BY <1>1, <1>2, AppendProperties
<1>4. Given' = Given /\ HandedOver' = HandedOver /\ EmptyTaken' = EmptyTaken
  BY <1>1 DEF Given, HandedOver, EmptyTaken
<1>5. /\ InRing \in Seq(LinuxNode \cup {Undefined}) /\ Len(InRing) = current_size
      /\ \A i \in 1..current_size : InRing[i] = accepted[Given + i]
      /\ Len(accepted) = Given + current_size /\ Given \in Nat
  BY HandedOverSeq, InRingSeq
<1>6. /\ InRing' \in Seq(LinuxNode \cup {Undefined}) /\ Len(InRing') = current_size + 1
      /\ \A i \in 1..(current_size + 1) : InRing'[i] = accepted'[Given + i]
  <2>1. RingRest'
    BY RingRestHolds, PTL
  <2> QED
    BY <1>1, <1>4, <2>1 DEF RingRest
<1>7. /\ Append(InRing, new) \in Seq(LinuxNode \cup {Undefined})
      /\ Len(Append(InRing, new)) = current_size + 1
      /\ \A i \in 1..current_size : Append(InRing, new)[i] = InRing[i]
      /\ Append(InRing, new)[current_size + 1] = new
  BY <1>2, <1>5, AppendProperties, SMTT(30)
<1>8. ASSUME NEW i \in 1..(current_size + 1) PROVE InRing'[i] = Append(InRing, new)[i]
  <2>1. CASE i \in 1..current_size
    <3>1. Given + i \in 1..Len(accepted)
      BY <1>1, <1>5, <2>1
    <3> QED
      BY <1>3, <1>5, <1>6, <1>7, <2>1, <3>1
  <2>2. CASE i = current_size + 1
    <3>1. Given + i = Len(accepted) + 1
      BY <1>1, <1>5, <2>2
    <3> QED
      BY <1>3, <1>6, <1>7, <2>2, <3>1
  <2>3. i \in 1..current_size \/ i = current_size + 1
    BY <1>1
  <2> QED
    BY <2>1, <2>2, <2>3
<1>9. InRing' = Append(InRing, new)
  BY <1>6, <1>7, <1>8, SeqEqual
<1>10. Len(InRing) < RingSize
  BY <1>1, <1>5
<1> QED
  BY <1>4, <1>9, <1>10 DEF LinuxFifo!Publish

\* A step that leaves the ring alone, the mutex apart, is a stutter of the fifo.
LEMMA LinuxFifoStutter ==
  ASSUME UNCHANGED <<node_list, tail_pos, current_size, handed>>
  PROVE  UNCHANGED LinuxFifo!vars
BY DEF LinuxFifo!vars, InRing, HandedOver, EmptyTaken

\* A pop is the fifo's Consume, or its ReturnUndefined if there is no node.
LEMMA PopConsumes ==
  ASSUME LinuxInv, LinuxInv', BlockConsume
  PROVE  LinuxFifo!Next
<1>1. /\ node_muttx = "nobody" /\ handed' = Append(handed, event_node')
      /\ accepted' = accepted /\ handed \in Seq(LinuxNode \cup {Undefined})
  BY DEF BlockConsume, Pop, LinuxInv, LinuxTypeOK
<1>2. ~EmptyTaken /\ HandedOver = handed /\ Given = Len(handed)
  BY <1>1, TakenKeepsMutex DEF HandedOver, Given
<1>3. /\ InRing \in Seq(LinuxNode \cup {Undefined}) /\ Len(InRing) = current_size
      /\ \A i \in 1..current_size : InRing[i] = accepted[Given + i]
      /\ Len(accepted) = Given + current_size /\ Given \in Nat
  BY HandedOverSeq, InRingSeq
<1>4. /\ InRing' \in Seq(LinuxNode \cup {Undefined}) /\ Len(InRing') = current_size'
      /\ \A i \in 1..current_size' : InRing'[i] = accepted'[Given' + i]
      /\ (EmptyTaken' <=> node_muttx' = "publish")
  <2>1. RingRest'
    BY RingRestHolds, PTL
  <2> QED
    BY <2>1 DEF RingRest
<1>5. CASE current_size = 0
  <2>1. event_node' = Undefined /\ node_muttx' = "publish" /\ current_size' = 0
    BY <1>5 DEF BlockConsume, Pop
  <2>2. InRing = <<>> /\ InRing' = <<>>
    BY <1>3, <1>4, <1>5, <2>1
  <2>3. EmptyTaken' /\ HandedOver' = handed
    <3>1. /\ handed' \in Seq(LinuxNode \cup {Undefined}) /\ Len(handed') = Len(handed) + 1
          /\ \A i \in 1..Len(handed) : handed'[i] = handed[i]
      BY <1>1, <2>1, AppendProperties
    <3>2. Front(handed') \in Seq(LinuxNode \cup {Undefined})
          /\ Len(Front(handed')) = Len(handed)
          /\ \A i \in 1..Len(handed) : Front(handed')[i] = handed[i]
      BY <1>1, <3>1 DEF Front
    <3>3. Front(handed') = handed
      BY <1>1, <3>2, SeqEqual
    <3> QED
      BY <1>4, <2>1, <3>3 DEF HandedOver
  <2>4. LinuxFifo!ReturnUndefined
    BY <1>2, <2>2, <2>3 DEF LinuxFifo!ReturnUndefined
  <2> QED
    BY <2>4 DEF LinuxFifo!Next
<1>6. CASE current_size # 0
  <2>1. /\ event_node' = node_list[tail_pos] /\ current_size' = current_size - 1
        /\ node_muttx' = "nobody" /\ current_size \in 1..RingSize
    BY <1>1, <1>6 DEF BlockConsume, Pop, LinuxInv, LinuxTypeOK
  <2>2. ~EmptyTaken' /\ HandedOver' = handed'
    BY <1>4, <2>1 DEF HandedOver
  <2>3. InRing # <<>> /\ Head(InRing) = event_node'
    <3>1. InRing[1] = node_list[(tail_pos + 1 - 1) % RingSize]
      BY <2>1 DEF InRing
    <3>2. (tail_pos + 1 - 1) % RingSize = tail_pos
      <4>1. tail_pos \in 0..(RingSize - 1) /\ tail_pos + 1 - 1 = tail_pos + 0
        BY DEF LinuxInv, LinuxTypeOK
      <4> QED
        BY <4>1, RingSlots DEF After
    <3> QED
      BY <1>3, <2>1, <3>1, <3>2
  <2>4. Given' = Given + 1
    <3>1. Len(handed') = Len(handed) + 1
      BY <1>1, <1>3, <2>1, <2>3, AppendProperties
    <3> QED
      BY <1>2, <2>1, <3>1 DEF Given
  <2>5. /\ Tail(InRing) \in Seq(LinuxNode \cup {Undefined})
        /\ Len(Tail(InRing)) = current_size - 1
        /\ \A i \in 1..(current_size - 1) : Tail(InRing)[i] = InRing[i + 1]
    BY <1>3, <2>3, HeadTailProperties
  <2>6. ASSUME NEW i \in 1..(current_size - 1) PROVE InRing'[i] = Tail(InRing)[i]
    <3>1. /\ i + 1 \in 1..current_size /\ Given + (i + 1) = Given' + i
          /\ i \in 1..current_size'
      BY <1>3, <2>1, <2>4
    <3>2. InRing[i + 1] = accepted[Given + (i + 1)] /\ Tail(InRing)[i] = InRing[i + 1]
      BY <1>3, <2>5, <3>1
    <3>3. InRing'[i] = accepted'[Given' + i]
      BY <1>4, <3>1
    <3> QED
      BY <1>1, <3>1, <3>2, <3>3
  <2>7. InRing' = Tail(InRing)
    BY <1>4, <2>1, <2>5, <2>6, SeqEqual
  <2>8. LinuxFifo!Consume
    BY <1>1, <1>2, <2>2, <2>3, <2>7 DEF LinuxFifo!Consume
  <2> QED
    BY <2>8 DEF LinuxFifo!Next
<1> QED
  BY <1>5, <1>6

\* Every step of the port is a step of the fifo or leaves it alone.
LEMMA LinuxNextFifo ==
  LinuxInv /\ LinuxInv' /\ [LinuxNext]_linuxvars => [LinuxFifo!Next]_(LinuxFifo!vars)
<1> SUFFICES ASSUME LinuxInv, LinuxInv', [LinuxNext]_linuxvars
             PROVE  [LinuxFifo!Next]_(LinuxFifo!vars)
  OBVIOUS
<1>1. ASSUME NEW t, NEW next, NEW new \in Range(AppNodes) \cup {LinuxAck}, Push(t, new, next)
      PROVE  [LinuxFifo!Next]_(LinuxFifo!vars)
  <2>1. CASE current_size = RingSize
    BY <1>1, <2>1, LinuxFifoStutter DEF Push
  <2>2. CASE current_size # RingSize
    BY <1>1, <2>2, PushPublishes DEF LinuxFifo!Next
  <2> QED
    BY <2>1, <2>2
<1>2. CASE AppPushes
  <2>1. AppNodes[app_next + 1] \in Range(AppNodes)
    <3>1. app_next + 1 \in DOMAIN AppNodes
      BY <1>2, LinuxNodes DEF AppPushes, LinuxInv, LinuxTypeOK
    <3> QED
      BY <3>1 DEF Range
  <2> QED
    BY <1>1, <1>2, <2>1 DEF AppPushes
<1>3. CASE AckPushes
  BY <1>1, <1>3 DEF AckPushes
<1>4. CASE BlockConsume
  BY <1>4, PopConsumes
<1>5. CASE WaitForSize \/ WaitForEvent \/ SpuriousWake \/ WriteNode
  BY <1>5, LinuxFifoStutter DEF WaitForSize, WaitForEvent, SpuriousWake, WriteNode, ring
<1>6. CASE GetHeader \/ GetBody \/ LinuxFlush \/ RunList
  BY <1>6, LinuxFifoStutter DEF GetHeader, GetBody, LinuxFlush, RunList, ring
<1>7. CASE AppSignals \/ AckSignals \/ LinuxAttach \/ UNCHANGED linuxvars
  BY <1>7, LinuxFifoStutter DEF AppSignals, AckSignals, LinuxAttach, linuxvars, ring
<1> QED
  BY <1>2, <1>3, <1>4, <1>5, <1>6, <1>7 DEF LinuxNext

\* The Linux port's queue implements the bounded fifo of MessageFifo, although
\* its signals are lost and its mutex is kept (_ipc_push_message_queue,
\* _ipc_pop_message_queue), for any size of the ring and any messages.
THEOREM LinuxRingIsFifo == LinuxSpec => LinuxImplementsFifo
<1>1. LinuxInit => LinuxFifo!Init
  BY DEF LinuxInit, LinuxFifo!Init, InRing, HandedOver, EmptyTaken
<1> QED
  BY <1>1, LinuxInitInv, LinuxNextInv, LinuxNextFifo, PTL
     DEF LinuxSpec, LinuxImplementsFifo, LinuxFifo!Spec

HIDE RingAssumption

-----------------------------------------------------------------------------
(* The Pico's strip threads: the bit never tears a frame                   *)

USE PicoAssumption DEF Strips

\* A thread that has begun with the buffer and has not shown it yet.
Reading == {"take", "copy", "update"}

\* One frame that arrived fills the strip's buffer.
WholeBuffer(s) ==
    \E f \in 1..MaxSerialFrames : \A x \in 1..StripBytes : strip_buffer[s][x] = f

PicoTypeOK ==
    /\ input_frame \in 0..MaxSerialFrames
    /\ serial_at \in 0..NUM_STRIPS /\ copied \in 0..StripBytes
    /\ strip_buffer \in [Strips -> [1..StripBytes -> 0..MaxSerialFrames]]
    /\ new_data \subseteq Strips /\ overwritten \subseteq Strips
    /\ strip_at \in [Strips -> {"clear", "wait"} \cup Reading]
    /\ pixels \in [Strips -> Seq(0..MaxSerialFrames)]

\* The serial thread has copied a frame that arrived.
CopyInProgress ==
    serial_at \in Strips =>
        /\ input_frame \in 1..MaxSerialFrames
        /\ \A x \in 1..copied : strip_buffer[serial_at][x] = input_frame

\* A strip that was told, or acts on being told, has a whole frame.
ToldOfWhole ==
    \A s \in Strips \ overwritten :
       s \in new_data \/ strip_at[s] \in Reading => WholeBuffer(s)

\* What a strip's thread has read is what the buffer still holds.
ReadInProgress ==
    \A s \in Strips :
       /\ strip_at[s] = "copy" => Len(pixels[s]) < StripBytes
       /\ strip_at[s] = "update" => Len(pixels[s]) = StripBytes
       /\ strip_at[s] \in {"copy", "update"} /\ s \notin overwritten =>
             \A x \in 1..Len(pixels[s]) : pixels[s][x] = strip_buffer[s][x]

PicoInv == PicoTypeOK /\ CopyInProgress /\ ToldOfWhole /\ ReadInProgress

-----------------------------------------------------------------------------
(* The start, and the steps of the serial thread                           *)

\* A buffer that did not change holds the frame it held.
LEMMA WholeBufferStays ==
  ASSUME NEW s \in Strips, strip_buffer'[s] = strip_buffer[s], WholeBuffer(s)
  PROVE  WholeBuffer(s)'
BY DEF WholeBuffer

\* The invariant holds of what serial_communication_setup leaves behind.
LEMMA PicoInitInv == PicoInit => PicoInv
BY DEF PicoInit, PicoInv, PicoTypeOK, CopyInProgress, ToldOfWhole, ReadInProgress, Reading

\* Reading a frame leaves every strip's buffer alone.
LEMMA SerialReadKeeps == ASSUME PicoInv, SerialRead PROVE PicoInv'
BY DEF SerialRead, PicoInv, PicoTypeOK, CopyInProgress, ToldOfWhole, ReadInProgress,
       WholeBuffer, Reading, stripvars

\* A copied byte belongs to the frame that was read, and a buffer that
\* changes is no longer the one its strip was told of.
LEMMA CopyByteKeeps == ASSUME PicoInv, NEW s \in Strips, CopyByte(s) PROVE PicoInv'
<1> DEFINE Bytes == [1..StripBytes -> 0..MaxSerialFrames]
<1> USE DEF PicoInv, CopyByte, stripvars
<1>1. /\ strip_buffer[s] \in Bytes
      /\ copied \in Nat /\ copied + 1 \in 1..StripBytes
      /\ strip_buffer'[s] = [strip_buffer[s] EXCEPT ![copied + 1] = input_frame]
      /\ \A t \in Strips \ {s} : strip_buffer'[t] = strip_buffer[t]
  BY DEF PicoTypeOK
<1>2. strip_buffer'[s] \in Bytes
  BY <1>1 DEF PicoTypeOK
<1>3. PicoTypeOK'
  <2>1. strip_buffer' \in [Strips -> Bytes]
    BY <1>2 DEF PicoTypeOK
  <2>2. copied' \in 0..StripBytes /\ overwritten' \subseteq Strips
    BY <1>1 DEF PicoTypeOK
  <2>3. UNCHANGED <<input_frame, serial_at, new_data, strip_at, pixels>>
    OBVIOUS
  <2> HIDE DEF CopyByte
  <2> QED
    BY <2>1, <2>2, <2>3 DEF PicoTypeOK
<1>4. CopyInProgress'
  <2>1. \A x \in 1..(copied + 1) :
           strip_buffer'[s][x] = IF x = copied + 1 THEN input_frame ELSE strip_buffer[s][x]
    BY <1>1
  <2> QED
    BY <2>1, <1>1 DEF CopyInProgress
<1>5. \A t \in Strips \ overwritten' : t # s /\ strip_buffer'[t] = strip_buffer[t]
  BY <1>1
<1>6. ToldOfWhole'
  BY <1>5, WholeBufferStays DEF ToldOfWhole
<1>7. ReadInProgress'
  BY <1>5 DEF ReadInProgress
<1> QED
  BY <1>3, <1>4, <1>6, <1>7

\* A strip is told when the whole of its part is copied.
LEMMA NotifyKeeps == ASSUME PicoInv, NEW s \in Strips, Notify(s) PROVE PicoInv'
<1> USE DEF PicoInv, Notify, stripvars
<1>1. PicoTypeOK'
  BY SMTT(30) DEF PicoTypeOK
<1>2. CopyInProgress'
  BY DEF PicoTypeOK, CopyInProgress
<1>3. ToldOfWhole'
  <2>1. WholeBuffer(s)
    BY DEF CopyInProgress, WholeBuffer
  <2>2. \A t \in Strips \ {s} : t \in overwritten' <=> t \in overwritten
    OBVIOUS
  <2> QED
    BY <2>1, <2>2, WholeBufferStays DEF ToldOfWhole, Reading
<1>4. ReadInProgress'
  BY DEF PicoTypeOK, ReadInProgress
<1> QED
  BY <1>1, <1>2, <1>3, <1>4

-----------------------------------------------------------------------------
(* The steps of a strip's thread                                           *)

\* A thread begins to read only when it was told, and with nothing read.
LEMMA BeginKeeps ==
  ASSUME PicoInv, NEW s \in Strips, ClearStrip(s) \/ WaitBits(s) \/ TakeMutex(s)
  PROVE  PicoInv'
<1> USE DEF PicoInv
<1>1. CASE ClearStrip(s)
  <2>1. PicoTypeOK' /\ CopyInProgress' /\ ReadInProgress'
    BY <1>1 DEF ClearStrip, PicoTypeOK, CopyInProgress, ReadInProgress
  <2>2. ToldOfWhole'
    BY <1>1, WholeBufferStays DEF ClearStrip, PicoTypeOK, ToldOfWhole, Reading
  <2> QED
    BY <2>1, <2>2
<1>2. CASE WaitBits(s)
  <2>1. PicoTypeOK' /\ CopyInProgress' /\ ReadInProgress'
    BY <1>2 DEF WaitBits, PicoTypeOK, CopyInProgress, ReadInProgress, Reading
  <2>2. ToldOfWhole'
    BY <1>2, WholeBufferStays DEF WaitBits, PicoTypeOK, ToldOfWhole
  <2> QED
    BY <2>1, <2>2
<1>3. CASE TakeMutex(s)
  <2>1. PicoTypeOK' /\ CopyInProgress'
    BY <1>3, SMTT(30) DEF TakeMutex, PicoTypeOK, CopyInProgress, Reading
  <2>2. pixels'[s] = <<>> /\ \A t \in Strips \ {s} : pixels'[t] = pixels[t]
    BY <1>3 DEF TakeMutex, PicoTypeOK
  <2>3. ReadInProgress'
    BY <1>3, <2>2, SMTT(30) DEF TakeMutex, PicoTypeOK, ReadInProgress
  <2>4. ToldOfWhole'
    BY <1>3, WholeBufferStays DEF TakeMutex, PicoTypeOK, ToldOfWhole, Reading
  <2> QED
    BY <2>1, <2>3, <2>4
<1> QED
  BY <1>1, <1>2, <1>3

\* The next byte is read from a buffer that did not change since.
LEMMA ReadPixelKeeps == ASSUME PicoInv, NEW s \in Strips, ReadPixel(s) PROVE PicoInv'
<1> DEFINE x == Len(pixels[s]) + 1
           byte == strip_buffer[s][x]
<1> USE DEF PicoInv, ReadPixel
<1>1. /\ pixels[s] \in Seq(0..MaxSerialFrames)
      /\ x \in 1..StripBytes /\ byte \in 0..MaxSerialFrames
  BY DEF PicoTypeOK, ReadInProgress
<1>2. /\ pixels'[s] = Append(pixels[s], byte)
      /\ pixels'[s] \in Seq(0..MaxSerialFrames)
      /\ Len(pixels'[s]) = x
      /\ \A k \in 1..x : pixels'[s][k] = IF k = x THEN byte ELSE pixels[s][k]
  BY <1>1, AppendProperties, SMTT(30) DEF PicoTypeOK
<1>3. \A t \in Strips \ {s} : pixels'[t] = pixels[t] /\ strip_at'[t] = strip_at[t]
  BY DEF PicoTypeOK
<1>4. strip_at'[s] = IF x = StripBytes THEN "update" ELSE "copy"
  BY DEF PicoTypeOK
<1>5. PicoTypeOK'
  BY <1>1, <1>2 DEF PicoTypeOK, Reading
<1>6. CopyInProgress'
  BY DEF CopyInProgress
<1>7. ToldOfWhole'
  <2>1. \A t \in Strips : strip_at'[t] \in Reading => strip_at[t] \in Reading
    BY <1>3, <1>4 DEF Reading
  <2> QED
    BY <2>1, WholeBufferStays DEF ToldOfWhole
<1>8. ReadInProgress'
  <2> SUFFICES ASSUME NEW t \in Strips
               PROVE  /\ strip_at'[t] = "copy" => Len(pixels'[t]) < StripBytes
                      /\ strip_at'[t] = "update" => Len(pixels'[t]) = StripBytes
                      /\ strip_at'[t] \in {"copy", "update"} /\ t \notin overwritten =>
                            \A k \in 1..Len(pixels'[t]) : pixels'[t][k] = strip_buffer[t][k]
    BY DEF ReadInProgress
  <2>1. CASE t # s
    BY <2>1, <1>3 DEF ReadInProgress
  <2>2. CASE t = s
    <3>1. ASSUME s \notin overwritten, NEW k \in 1..x
          PROVE  pixels'[s][k] = strip_buffer[s][k]
      BY <3>1, <1>1, <1>2 DEF ReadInProgress
    <3> QED
      BY <2>2, <3>1, <1>1, <1>2, <1>4
  <2> QED
    BY <2>1, <2>2
<1> QED
  BY <1>5, <1>6, <1>7, <1>8

\* A strip that was shown waits to be told again.
LEMMA UpdateStripKeeps == ASSUME PicoInv, NEW s \in Strips, UpdateStrip(s) PROVE PicoInv'
<1> USE DEF PicoInv, UpdateStrip
<1>1. PicoTypeOK' /\ CopyInProgress'
  BY DEF PicoTypeOK, CopyInProgress
<1>2. ToldOfWhole'
  BY WholeBufferStays DEF PicoTypeOK, ToldOfWhole, Reading
<1>3. ReadInProgress'
  BY DEF PicoTypeOK, ReadInProgress
<1> QED
  BY <1>1, <1>2, <1>3

-----------------------------------------------------------------------------
(* The theorem                                                             *)

\* Every step keeps the invariant.
LEMMA PicoNextInv == PicoInv /\ [PicoNext]_picovars => PicoInv'
<1> SUFFICES ASSUME PicoInv, [PicoNext]_picovars PROVE PicoInv'
  OBVIOUS
<1>1. CASE serial_commuincation_thread
  BY <1>1, SerialReadKeeps, CopyByteKeeps, NotifyKeeps DEF serial_commuincation_thread
<1>2. ASSUME NEW s \in Strips, update_strip_thread(s) PROVE PicoInv'
  BY <1>2, BeginKeeps, ReadPixelKeeps, UpdateStripKeeps DEF update_strip_thread
<1>3. CASE UNCHANGED picovars
  BY <1>3 DEF picovars, stripvars, PicoInv, PicoTypeOK, CopyInProgress, ToldOfWhole,
              ReadInProgress, WholeBuffer
<1> QED
  BY <1>1, <1>2, <1>3 DEF PicoNext

\* A strip that went through its buffer has seen one whole frame that arrived
\* unless the serial thread wrote to the buffer meanwhile
\* (update_strip_thread), for any number and length of strips.
THEOREM PicoReadsWholeFrames == PicoSpec => []PicoFrameWhole
<1>1. PicoInv => PicoFrameWhole
  BY DEF PicoInv, ToldOfWhole, ReadInProgress, PicoFrameWhole, WholeBuffer, Reading
<1> QED
  BY <1>1, PicoInitInv, PicoNextInv, PTL DEF PicoSpec

=============================================================================
