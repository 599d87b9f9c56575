---------------------------- MODULE UartLinkProofs ----------------------------
(***************************************************************************)
(* What the publish thread writes to the port, for all messages and all    *)
(* frames of the peer: flushes and short writes lose bytes, and what is    *)
(* left goes out in the order of publication.                              *)
(***************************************************************************)
EXTENDS UartLink, SequenceTheorems, FiniteSetTheorems, TLAPS

Byte == Nat \X Int

\* A later byte of the sequence was written later.
Ordered(s) == \A i, j \in 1..Len(s) : i < j => Before(s[i], s[j])

\* A publish thread at this place of this turn has written the byte.
Past(b, turn, place) ==
    /\ b[1] <= turn
    /\ place = "header" => b[1] < turn
    /\ place = "body" /\ b[1] = turn => b[2] <= HeaderSize

QueueTypeOK ==
    /\ pending \in Seq(Message) /\ delivered \in Seq(Message)
    /\ published \in Nat
    /\ ppc \in {"header", "body"} => Turn > 0

WireInv ==
    /\ QueueTypeOK
    /\ tx \in Seq(Byte) /\ out \in Seq(Byte)
    /\ Ordered(tx) /\ Ordered(out)
    /\ \A i \in 1..Len(out), j \in 1..Len(tx) : Before(out[i], tx[j])
    /\ \A i \in 1..Len(out) : Past(out[i], Turn, ppc)
    /\ \A j \in 1..Len(tx) : Past(tx[j], Turn, ppc)

-----------------------------------------------------------------------------

\* A function on 1..n to bytes is a sequence of n bytes.
LEMMA ByteSeq ==
  ASSUME NEW n \in Nat, NEW f \in [1..n -> Byte]
  PROVE  f \in Seq(Byte) /\ Len(f) = n
OBVIOUS

\* The length of a message is a number.
LEMMA LengthsAreNumbers == \A m \in Message : m.message_len \in Int
<1> DEFINE Record == [message_len : Int, buffer : BOOLEAN, ack : {FALSE}]
<1>1. \A i \in DOMAIN AppMessages : AppMessages[i] \in Record
  <2>1. \A S : \A s \in Seq(S) : \A i \in DOMAIN s : s[i] \in S
    OBVIOUS
  <2>2. AppMessages \in Seq(Record)
    BY MessageAssumption
  <2> HIDE DEF Record
  <2> QED
    BY <2>1, <2>2
<1>2. \A r \in Record : r.message_len \in Int
  OBVIOUS
<1>3. Ack.message_len \in Int
  BY DEF Ack
<1> HIDE DEF Record
<1> QED
  BY <1>1, <1>2, <1>3 DEF Message, Range

\* The invariant holds at the start.
LEMMA WireInitInv == Init => WireInv
BY DEF Init, Queue!Init, WireInv, QueueTypeOK, Ordered

\* A step that leaves the publish thread and the port alone keeps the order;
\* so does a flush, which takes what was not transmitted.
LEMMA QuietKeeps ==
  ASSUME WireInv, UNCHANGED <<ppc, delivered, out>>, tx' = tx \/ tx' = <<>>,
         pending' \in Seq(Message), published' \in Nat
  PROVE  WireInv'
<1> USE DEF WireInv
<1>1. QueueTypeOK' /\ Turn' = Turn
  BY DEF QueueTypeOK, Turn
<1>2. CASE tx' = tx
  BY <1>1, <1>2 DEF Ordered, Past
<1>3. CASE tx' = <<>>
  BY <1>1, <1>3 DEF Ordered, Past
<1> QED
  BY <1>2, <1>3

\* What the queue accepts is a message.
LEMMA QueuePublishKeeps ==
  ASSUME WireInv, NEW m \in Message, Queue!Publish(m) \/ UNCHANGED queue
  PROVE  pending' \in Seq(Message) /\ UNCHANGED delivered
<1>1. pending \in Seq(Message)
  BY DEF WireInv, QueueTypeOK
<1>2. Append(pending, m) \in Seq(Message)
  BY <1>1, AppendProperties
<1> QED
  BY <1>1, <1>2 DEF Queue!Publish, queue

\* The port transmits the oldest byte.
LEMMA TransmitKeeps == ASSUME WireInv, Transmit PROVE WireInv'
<1> USE DEF WireInv
<1>1. /\ Head(tx) = tx[1] /\ tx[1] \in Byte /\ Len(tx) \in Nat /\ Len(tx) > 0
      /\ Tail(tx) \in Seq(Byte) /\ Len(Tail(tx)) = Len(tx) - 1
      /\ \A i \in 1..(Len(tx) - 1) : Tail(tx)[i] = tx[i + 1]
  BY HeadTailProperties DEF Transmit
<1>2. /\ out' \in Seq(Byte) /\ Len(out') = Len(out) + 1 /\ Len(out) \in Nat
      /\ \A i \in 1..Len(out) : out'[i] = out[i]
      /\ out'[Len(out) + 1] = tx[1]
  BY <1>1, AppendProperties DEF Transmit
<1>3. /\ tx' \in Seq(Byte) /\ Len(tx') = Len(tx) - 1
      /\ \A i \in 1..Len(tx') : tx'[i] = tx[i + 1]
  BY <1>1 DEF Transmit
<1>4. QueueTypeOK' /\ (\A b : Past(b, Turn', ppc') <=> Past(b, Turn, ppc))
  BY DEF Transmit, QueueTypeOK, Past, Turn, queue, sender
<1>5. Ordered(out')
  BY <1>1, <1>2 DEF Ordered
<1>6. Ordered(tx')
  <2> SUFFICES ASSUME NEW i \in 1..Len(tx'), NEW j \in 1..Len(tx'), i < j
               PROVE  Before(tx'[i], tx'[j])
    BY DEF Ordered
  <2>1. i + 1 \in 1..Len(tx) /\ j + 1 \in 1..Len(tx) /\ i + 1 < j + 1
    BY <1>1, <1>3
  <2> QED
    BY <1>3, <2>1 DEF Ordered
<1>7. \A i \in 1..Len(out'), j \in 1..Len(tx') : Before(out'[i], tx'[j])
  <2> SUFFICES ASSUME NEW i \in 1..Len(out'), NEW j \in 1..Len(tx')
               PROVE  Before(out'[i], tx'[j])
    OBVIOUS
  <2>1. j + 1 \in 1..Len(tx) /\ 1 < j + 1 /\ 1 \in 1..Len(tx) /\ tx'[j] = tx[j + 1]
    BY <1>1, <1>3
  <2>2. CASE i \in 1..Len(out)
    BY <1>2, <2>1, <2>2
  <2>3. CASE i = Len(out) + 1
    BY <1>2, <2>1, <2>3 DEF Ordered
  <2> QED
    BY <1>2, <2>2, <2>3
<1>8. \A i \in 1..Len(out') : Past(out'[i], Turn', ppc')
  BY <1>1, <1>2, <1>4
<1>9. \A j \in 1..Len(tx') : Past(tx'[j], Turn', ppc')
  BY <1>1, <1>3, <1>4
<1> QED
  BY <1>2, <1>3, <1>4, <1>5, <1>6, <1>7, <1>8, <1>9 DEF Ordered

\* A write appends bytes of this turn behind everything that was written.
LEMMA WriteKeeps ==
  ASSUME WireInv, NEW n \in Nat, NEW skip \in Nat, Write(skip, n),
         UNCHANGED <<queue, published, out>>, Turn > 0,
         ppc' \in {"body", "ack"}, ppc' = "body" => skip + n <= HeaderSize,
         \A i \in 1..Len(out) : out[i][1] < Turn \/ out[i][2] <= skip,
         \A i \in 1..Len(tx) : tx[i][1] < Turn \/ tx[i][2] <= skip
  PROVE  WireInv'
<1> DEFINE new == [i \in 1..n |-> <<Turn, skip + i>>]
<1> USE DEF WireInv
<1>1. Turn \in Nat /\ Turn' = Turn
  BY DEF Turn, QueueTypeOK, queue
<1>2. new \in Seq(Byte) /\ Len(new) = n
  <2>1. new \in [1..n -> Byte]
    BY <1>1 DEF Byte
  <2> QED
    BY <2>1, ByteSeq
<1>3. /\ tx' \in Seq(Byte) /\ Len(tx') = Len(tx) + n /\ Len(tx) \in Nat
      /\ \A i \in 1..Len(tx) : tx'[i] = tx[i]
      /\ \A i \in (Len(tx) + 1)..(Len(tx) + n) : tx'[i] = <<Turn, skip + (i - Len(tx))>>
  <2>1. tx' = tx \o new /\ tx \in Seq(Byte)
    BY DEF Write, Part
  <2>2. \A k \in 1..n : new[k] = <<Turn, skip + k>>
    OBVIOUS
  <2> HIDE DEF new
  <2>3. /\ tx' \in Seq(Byte) /\ Len(tx') = Len(tx) + n /\ Len(tx) \in Nat
        /\ \A i \in 1..(Len(tx) + n) :
              tx'[i] = IF i <= Len(tx) THEN tx[i] ELSE new[i - Len(tx)]
    <3>1. new \in Seq(Byte) /\ Len(new) = n
      BY <1>2
    <3>2. /\ tx \o new \in Seq(Byte) /\ Len(tx \o new) = Len(tx) + Len(new)
          /\ \A i \in 1..(Len(tx) + Len(new)) :
                (tx \o new)[i] = IF i <= Len(tx) THEN tx[i] ELSE new[i - Len(tx)]
      BY <2>1, <3>1, ConcatProperties
    <3> QED
      BY <2>1, <3>1, <3>2
  <2>4. \A i \in (Len(tx) + 1)..(Len(tx) + n) :
           /\ i \in 1..(Len(tx) + n) /\ ~(i <= Len(tx))
           /\ i - Len(tx) \in 1..n
    BY <2>3
  <2>5. \A i \in 1..Len(tx) : i \in 1..(Len(tx) + n) /\ i <= Len(tx)
    BY <2>3
  <2>6. \A i \in (Len(tx) + 1)..(Len(tx) + n) : tx'[i] = new[i - Len(tx)]
    BY <2>3, <2>4
  <2>7. \A i \in 1..Len(tx) : tx'[i] = tx[i]
    BY <2>3, <2>5
  <2> QED
    BY <2>2, <2>3, <2>4, <2>6, <2>7
<1>4. QueueTypeOK'
  BY DEF QueueTypeOK, Turn, queue
<1>5. /\ \A i \in 1..Len(out) : out[i] \in Byte /\ Past(out[i], Turn, ppc)
      /\ \A i \in 1..Len(tx) : tx[i] \in Byte /\ Past(tx[i], Turn, ppc)
      /\ Len(out) \in Nat
  OBVIOUS
<1>6. \A b \in Byte : Past(b, Turn, ppc) /\ (b[1] < Turn \/ b[2] <= skip) => Past(b, Turn', ppc')
  BY <1>1, SizeAssumption DEF Past, Byte
<1>7. \A b \in Byte : \A k \in 1..n :
         Past(b, Turn, ppc) /\ (b[1] < Turn \/ b[2] <= skip) => Before(b, <<Turn, skip + k>>)
  BY <1>1 DEF Past, Before, Byte
<1>8. \A k \in 1..n : Past(<<Turn, skip + k>>, Turn', ppc')
  BY <1>1, SizeAssumption DEF Past
<1>9. \A i \in 1..Len(out') : Past(out'[i], Turn', ppc')
  BY <1>5, <1>6
<1>10. \A i \in (Len(tx) + 1)..(Len(tx) + n) :
          i - Len(tx) \in 1..n /\ tx'[i] = <<Turn, skip + (i - Len(tx))>>
  BY <1>3
<1>11. \A i \in 1..Len(tx') : i \in 1..Len(tx) \/ i \in (Len(tx) + 1)..(Len(tx) + n)
  BY <1>3
<1>12. \A i \in 1..Len(tx') : Past(tx'[i], Turn', ppc')
  BY <1>3, <1>5, <1>6, <1>8, <1>10, <1>11
<1>13. \A i \in 1..Len(out'), j \in 1..Len(tx') : Before(out'[i], tx'[j])
  BY <1>3, <1>5, <1>7, <1>10, <1>11
<1>14. Ordered(tx')
  <2> SUFFICES ASSUME NEW i \in 1..Len(tx'), NEW j \in 1..Len(tx'), i < j
               PROVE  Before(tx'[i], tx'[j])
    BY DEF Ordered
  <2>1. CASE i \in 1..Len(tx) /\ j \in 1..Len(tx)
    BY <1>3, <2>1 DEF Ordered
  <2>2. CASE i \in 1..Len(tx) /\ j \in (Len(tx) + 1)..(Len(tx) + n)
    BY <1>3, <1>5, <1>7, <1>10, <2>2
  <2>3. CASE i \in (Len(tx) + 1)..(Len(tx) + n) /\ j \in (Len(tx) + 1)..(Len(tx) + n)
    BY <1>1, <1>3, <1>10, <2>3 DEF Before
  <2> QED
    BY <1>3, <1>11, <2>1, <2>2, <2>3
<1> QED
  BY <1>3, <1>4, <1>9, <1>12, <1>13, <1>14 DEF Ordered

\* A turn's header comes after everything of the turns before.
LEMMA HeaderKeeps == ASSUME WireInv, WriteHeader PROVE WireInv'
<1>1. PICK n \in Written(HeaderSize) : Write(0, n)
  BY DEF WriteHeader
<1>2. n \in 0..HeaderSize
  BY SizeAssumption DEF Written
<1>3. Turn > 0 /\ ppc = "header" /\ ppc' \in {"body", "ack"}
  BY DEF WriteHeader, WireInv, QueueTypeOK
<1>4. UNCHANGED <<queue, published, out>>
  BY DEF WriteHeader
<1>5. /\ \A i \in 1..Len(out) : out[i][1] < Turn
      /\ \A i \in 1..Len(tx) : tx[i][1] < Turn
  BY <1>3 DEF WireInv, Past
<1>6. 0 \in Nat /\ n \in Nat /\ 0 + n <= HeaderSize
  BY <1>2, SizeAssumption
<1> QED
  BY <1>1, <1>3, <1>4, <1>5, <1>6, WriteKeeps

\* Its body comes after its header.
LEMMA BodyKeeps == ASSUME WireInv, WriteBody PROVE WireInv'
<1>1. Turn > 0 /\ ppc = "body" /\ ppc' = "ack" /\ UNCHANGED <<queue, published, out>>
  BY DEF WriteBody, WireInv, QueueTypeOK
<1>2. node.message_len \in Int
  BY <1>1, LengthsAreNumbers DEF node, Turn, WireInv, QueueTypeOK
<1>3. PICK n \in Written(node.message_len) : Write(HeaderSize, n)
  BY DEF WriteBody
<1>4. \A b \in Byte : Past(b, Turn, ppc) => b[1] < Turn \/ b[2] <= HeaderSize
  BY <1>1 DEF Past, Byte, Turn, WireInv, QueueTypeOK
<1>5. /\ \A i \in 1..Len(out) : out[i][1] < Turn \/ out[i][2] <= HeaderSize
      /\ \A i \in 1..Len(tx) : tx[i][1] < Turn \/ tx[i][2] <= HeaderSize
  BY <1>4 DEF WireInv
<1>6. HeaderSize \in Nat
  BY SizeAssumption
<1>7. CASE n \in Nat
  BY <1>1, <1>3, <1>5, <1>6, <1>7, WriteKeeps
<1>8. CASE n \in Int \ Nat
  <2>1. 1..n = 1..0
    BY <1>8
  <2>2. Write(HeaderSize, 0)
    BY <1>3, <2>1 DEF Write, Part
  <2> QED
    BY <1>1, <1>5, <1>6, <2>2, WriteKeeps
<1>9. n \in Int
  BY <1>2 DEF Written
<1> QED
  BY <1>7, <1>8, <1>9

\* The next turn begins with nothing of it written.
LEMMA ConsumeKeeps == ASSUME WireInv, ConsumeEvent PROVE WireInv'
<1> USE DEF WireInv, ConsumeEvent, Queue!Consume
<1>1. /\ Head(pending) \in Message /\ Tail(pending) \in Seq(Message)
      /\ delivered' \in Seq(Message) /\ Turn \in Nat /\ Turn' = Turn + 1
  BY HeadTailProperties, AppendProperties DEF QueueTypeOK, Turn
<1>2. QueueTypeOK'
  BY <1>1 DEF QueueTypeOK
<1>3. \A b \in Byte : Past(b, Turn, ppc) => Past(b, Turn', ppc')
  BY <1>1 DEF Past, Byte
<1> QED
  BY <1>2, <1>3 DEF Ordered

\* A turn ends with all of it written.
LEMMA WaitAckKeeps == ASSUME WireInv, WaitAck PROVE WireInv'
<1>1. QueueTypeOK' /\ (\A b : Past(b, Turn, ppc) => Past(b, Turn', ppc'))
  BY DEF WireInv, WaitAck, QueueTypeOK, Past, Turn, queue
<1> QED
  BY <1>1 DEF WireInv, WaitAck, Ordered

\* The consume thread touches the port only by flushing it.
LEMMA ReceiverKeeps == ASSUME WireInv, Consume PROVE WireInv'
<1> USE DEF sender, queue
<1>1. Ack \in Message /\ pending \in Seq(Message) /\ published \in Nat
  BY DEF Message, WireInv, QueueTypeOK
<1>2. CASE RunSubscribers
  <2>1. \E m \in Message : Queue!Publish(m) \/ UNCHANGED queue
    BY <1>1, <1>2 DEF RunSubscribers, Acknowledge
  <2> QED
    BY <1>1, <1>2, <2>1, QueuePublishKeeps, QuietKeeps DEF RunSubscribers
<1>3. CASE ReadHeader \/ LetPass \/ FlushBeforeBody \/ ReadBody
           \/ BodyRead \/ SleepAndFlush \/ FlushAfterFrame
  BY <1>1, <1>3, QuietKeeps DEF ReadHeader, LetPass, FlushBeforeBody, ReadBody, BodyRead,
     SleepAndFlush, FlushAfterFrame, Flush
<1> QED
  BY <1>2, <1>3 DEF Consume

\* Another thread's message changes the queue only.
LEMMA AppPublishKeeps == ASSUME WireInv, AppPublish PROVE WireInv'
<1>1. published \in Nat /\ published + 1 \in DOMAIN AppMessages
  BY DEF AppPublish, WireInv, QueueTypeOK
<1>2. AppMessages[published + 1] \in Message
  BY <1>1, MessageAssumption DEF Message, Range
<1>3. \E m \in Message : Queue!Publish(m) \/ UNCHANGED queue
  BY <1>2 DEF AppPublish
<1> QED
  BY <1>1, <1>3, QueuePublishKeeps, QuietKeeps DEF AppPublish, sender

\* Every step keeps the order.
LEMMA WireNextInv == WireInv /\ [Next]_vars => WireInv'
<1> SUFFICES ASSUME WireInv, [Next]_vars PROVE WireInv'
  OBVIOUS
<1>1. CASE PeerSends \/ UNCHANGED vars
  BY <1>1, QuietKeeps DEF PeerSends, vars, queue, sender, WireInv, QueueTypeOK
<1>2. CASE Publish
  BY <1>2, HeaderKeeps, BodyKeeps, ConsumeKeeps, WaitAckKeeps DEF Publish
<1> QED
  BY <1>1, <1>2, TransmitKeeps, ReceiverKeeps, AppPublishKeeps DEF Next

\* What goes out keeps the order of publication, header before body, although
\* the consume thread flushes the port between any two writes of the publish
\* thread (ipc_uart_publish_thread, ipc_uart_consume_thread).
THEOREM WireKeepsOrder == Spec => []WireInOrder
<1>1. WireInv => WireInOrder
  BY DEF WireInv, Ordered, WireInOrder
<1> QED
  BY <1>1, WireInitInv, WireNextInv, PTL DEF Spec

-----------------------------------------------------------------------------
(* The type invariant                                                      *)

PeerByte == Nat \X Nat

SentOK ==
    \/ sent = <<0, 0>>
    \/ sent[1] \in Frames /\ sent[2] \in 1..FrameLen(sent[1])

ReceiverOK ==
    /\ rx \in Seq(PeerByte) /\ got \in Seq(PeerByte)
    /\ rpc \in {"header", "let_pass", "flush", "body", "sleep", "run", "end"}
    /\ header \in Header
    /\ rpc = "header" => Len(got) < HeaderBytes
    /\ rpc = "body" => Len(got) <= Greatest(header.message_len, 0)

Status == {Success, Fail, "IPC_MESSAGE_COMPLETE_FAIL_TIMEOUT"}

SenderOK ==
    /\ published \in 0..Len(AppMessages)
    /\ Len(pending) <= Capacity
    /\ ppc \in {"consume", "header", "body", "ack"}
    /\ ipc_status \in Status /\ reported \in Seq(Status)
    /\ Len(reported) = IF ppc = "consume" THEN Turn ELSE Turn - 1

LinkInv == WireInv /\ SentOK /\ ReceiverOK /\ SenderOK

\* The frames are numbered from one and their headers are headers.
LEMMA FramesAreHeaders ==
  /\ Len(PeerFrames) \in Nat /\ Frames = 1..Len(PeerFrames)
  /\ \A f \in Frames : /\ PeerFrames[f] \in Header
                       /\ PeerFrames[f].message_len \in Int
                       /\ BodyLen(f) \in Nat /\ FrameLen(f) \in Nat
                       /\ FrameLen(f) >= HeaderBytes
<1>1. PeerFrames \in Seq(Header)
  BY FrameAssumption
<1>2. Len(PeerFrames) \in Nat /\ Frames = 1..Len(PeerFrames)
  BY <1>1 DEF Frames
<1>3. \A f \in Frames : PeerFrames[f] \in Header
  BY <1>1, <1>2
<1>4. \A h \in Header : h.message_len \in Int
  BY DEF Header
<1>5. \A f \in Frames : PeerFrames[f].message_len \in Int
  BY <1>3, <1>4
<1>6. \A f \in Frames : BodyLen(f) \in Nat
  BY <1>5 DEF BodyLen, Greatest
<1>7. \A f \in Frames : FrameLen(f) \in Nat /\ FrameLen(f) >= HeaderBytes
  BY <1>6, SizeAssumption DEF FrameLen
<1> QED
  BY <1>2, <1>3, <1>5, <1>6, <1>7

\* One read takes what has arrived, in order, and no more than it may.
LEMMA ReadTakes ==
  ASSUME rx \in Seq(PeerByte), got \in Seq(PeerByte), NEW n \in Nat \ {0}, Read(n)
  PROVE  /\ got' \in Seq(PeerByte) /\ rx' \in Seq(PeerByte)
         /\ got' \o rx' = got \o rx
         /\ Len(got') <= Len(got) + n
<1> DEFINE k == Least(n, Len(rx))
           first == SubSeq(rx, 1, k)
           rest == SubSeq(rx, k + 1, Len(rx))
<1>1. got' = got \o first /\ rx' = rest /\ rx # <<>>
  BY DEF Read
<1>2. k \in 1..Len(rx) /\ k <= n /\ Len(rx) \in Nat
  BY <1>1 DEF Least
<1> HIDE DEF k
<1>3. /\ first \in Seq(PeerByte) /\ Len(first) = k /\ rest \in Seq(PeerByte)
  BY <1>2, SubSeqProperties
<1>4. first \o rest = SubSeq(rx, 1, Len(rx))
  BY <1>2, ConcatAdjacentSubSeq
<1>5. SubSeq(rx, 1, Len(rx)) = rx
  BY SubSeqFull
<1> HIDE DEF first, rest
<1>6. (got \o first) \o rest = got \o (first \o rest)
  BY <1>3, ConcatAssociative, SMTT(30)
<1>7. got \o first \in Seq(PeerByte) /\ Len(got \o first) = Len(got) + Len(first)
  BY <1>3, ConcatProperties
<1>8. got' \o rx' = got \o rx
  BY <1>1, <1>4, <1>5, <1>6
<1>9. Len(got') <= Len(got) + n
  BY <1>1, <1>2, <1>3, <1>7
<1> QED
  BY <1>1, <1>3, <1>7, <1>8, <1>9

\* What a header becomes is a header.
LEMMA DeserializeMakesHeaders == \A bytes : Deserialize(bytes) \subseteq Header
BY FrameAssumption, FramesAreHeaders DEF Deserialize

\* The next byte of the peer belongs to a frame of it.
LEMMA PeerKeepsType ==
  ASSUME SentOK, rx \in Seq(PeerByte), PeerSends
  PROVE  /\ SentOK' /\ rx' \in Seq(PeerByte) /\ Coming \in PeerByte
         /\ Coming[1] \in Frames /\ Coming[2] \in 1..FrameLen(Coming[1])
         /\ sent' = Coming
<1>1. Coming[1] \in Frames /\ sent' = Coming /\ rx' = Append(rx, Coming)
  BY DEF PeerSends
<1>2. Coming[1] \in Nat
  BY <1>1, FramesAreHeaders
<1>3. Coming[2] \in 1..FrameLen(Coming[1]) /\ Coming \in PeerByte
  <2>1. CASE sent[1] \in Frames /\ sent[2] < FrameLen(sent[1])
    <3>1. Coming = <<sent[1], sent[2] + 1>>
      BY <2>1 DEF Coming
    <3>2. sent[1] \in Nat /\ FrameLen(sent[1]) \in Nat
      BY <2>1, FramesAreHeaders
    <3>3. sent[2] \in Nat
      BY <3>2 DEF SentOK
    <3> QED
      BY <2>1, <3>1, <3>2, <3>3 DEF PeerByte
  <2>2. CASE ~(sent[1] \in Frames /\ sent[2] < FrameLen(sent[1]))
    <3>1. Coming = <<sent[1] + 1, 1>>
      BY <2>2 DEF Coming
    <3>2. FrameLen(Coming[1]) \in Nat /\ FrameLen(Coming[1]) >= 1
      BY <1>1, FramesAreHeaders, SizeAssumption
    <3>3. sent[1] + 1 \in Nat
      BY <1>2, <3>1
    <3> QED
      BY <3>1, <3>2, <3>3 DEF PeerByte
  <2> QED
    BY <2>1, <2>2
<1>4. rx' \in Seq(PeerByte)
  BY <1>1, <1>3, AppendProperties
<1> QED
  BY <1>1, <1>3, <1>4 DEF SentOK

\* The consume thread keeps the types of what it reads.
LEMMA ReceiverKeepsType ==
  ASSUME ReceiverOK, Consume
  PROVE  ReceiverOK'
<1> USE DEF ReceiverOK
<1>1. CASE ReadHeader
  <2>1. HeaderBytes - Len(got) \in Nat \ {0}
    BY <1>1, SizeAssumption DEF ReadHeader
  <2>2. got' \in Seq(PeerByte) /\ rx' \in Seq(PeerByte)
    BY <1>1, <2>1, ReadTakes DEF ReadHeader
  <2>3. CASE Len(got') < HeaderBytes
    BY <1>1, <2>2, <2>3 DEF ReadHeader
  <2>4. CASE ~(Len(got') < HeaderBytes)
    <3>1. header' \in Deserialize(got') /\ rpc' \in {"let_pass", "flush"}
      BY <1>1, <2>4 DEF ReadHeader
    <3> QED
      BY <2>2, <3>1, DeserializeMakesHeaders
  <2> QED
    BY <2>3, <2>4
<1>2. CASE ReadBody
  <2>1. header.message_len \in Int
    BY DEF Header
  <2>2. header.message_len - Len(got) \in Nat \ {0} /\ header.message_len > 0
    BY <1>2, <2>1 DEF ReadBody
  <2>3. /\ got' \in Seq(PeerByte) /\ rx' \in Seq(PeerByte)
        /\ Len(got') <= Len(got) + (header.message_len - Len(got))
    BY <1>2, <2>2, ReadTakes DEF ReadBody
  <2> QED
    BY <1>2, <2>1, <2>2, <2>3 DEF ReadBody, Greatest
<1>3. CASE LetPass \/ FlushAfterFrame \/ SleepAndFlush
  <2>1. /\ rx' = <<>> /\ header' = header
        /\ \/ rpc' = "header" /\ got' = <<>>
           \/ rpc' = "end" /\ got' = got
    BY <1>3 DEF LetPass, FlushAfterFrame, SleepAndFlush, Flush
  <2>2. CASE rpc' = "header" /\ got' = <<>>
    <3>1. Len(got') < HeaderBytes
      BY <2>2, SizeAssumption
    <3> QED
      BY <2>1, <2>2, <3>1
  <2>3. CASE rpc' = "end" /\ got' = got
    BY <2>1, <2>3
  <2> QED
    BY <2>1, <2>2, <2>3
<1>4. CASE FlushBeforeBody
  <2>1. header.message_len \in Int
    BY DEF Header
  <2> QED
    BY <1>4, <2>1 DEF FlushBeforeBody, Flush, Greatest
<1>5. CASE BodyRead
  BY <1>5 DEF BodyRead
<1>6. CASE RunSubscribers
  BY <1>6 DEF RunSubscribers
<1> QED
  BY <1>1, <1>2, <1>3, <1>4, <1>5, <1>6 DEF Consume

\* A message that finds room leaves the queue within its capacity.
LEMMA PublishKeepsRoom ==
  ASSUME pending \in Seq(Message), Len(pending) <= Capacity, NEW m \in Message,
         (Len(pending) < Capacity /\ Queue!Publish(m)) \/ UNCHANGED queue
  PROVE  Len(pending') <= Capacity /\ delivered' = delivered
BY SizeAssumption, AppendProperties DEF Queue!Publish, queue

\* The publish thread and the queue keep the types of what they carry.
LEMMA SenderKeepsType ==
  ASSUME WireInv, SenderOK, Next
  PROVE  SenderOK'
<1> USE DEF SenderOK
<1>1. /\ pending \in Seq(Message) /\ delivered \in Seq(Message)
      /\ Ack \in Message /\ Turn \in Nat
  BY DEF WireInv, QueueTypeOK, Turn, Message
<1>2. CASE PeerSends \/ Transmit
  BY <1>2 DEF PeerSends, Transmit, sender, queue, Turn
<1>3. CASE Consume
  <2>1. (Len(pending) < Capacity /\ Queue!Publish(Ack)) \/ UNCHANGED queue
    BY <1>3 DEF Consume, ReadHeader, LetPass, FlushBeforeBody, ReadBody, BodyRead,
       SleepAndFlush, RunSubscribers, FlushAfterFrame, Acknowledge
  <2>2. Len(pending') <= Capacity /\ delivered' = delivered
    BY <1>1, <2>1, PublishKeepsRoom
  <2>3. UNCHANGED <<published, ppc, ipc_status, reported>>
    BY <1>3 DEF Consume, ReadHeader, LetPass, FlushBeforeBody, ReadBody, BodyRead,
       SleepAndFlush, RunSubscribers, FlushAfterFrame, sender
  <2> QED
    BY <2>2, <2>3 DEF Turn
<1>4. CASE AppPublish
  <2>1. published + 1 \in DOMAIN AppMessages /\ published' \in 0..Len(AppMessages)
    BY <1>4, MessageAssumption DEF AppPublish
  <2>2. AppMessages[published + 1] \in Message
    BY <2>1 DEF Message, Range
  <2>3. Len(pending') <= Capacity /\ delivered' = delivered
    BY <1>1, <1>4, <2>2, PublishKeepsRoom DEF AppPublish
  <2> QED
    BY <1>4, <2>1, <2>3 DEF AppPublish, sender, Turn
<1>5. CASE ConsumeEvent
  <2>1. /\ Len(pending') <= Capacity /\ Turn' = Turn + 1
    BY <1>1, <1>5, HeadTailProperties, AppendProperties, SizeAssumption
       DEF ConsumeEvent, Queue!Consume, Turn
  <2> QED
    BY <1>1, <1>5, <2>1 DEF ConsumeEvent, Status
<1>6. CASE WriteHeader
  BY <1>6 DEF WriteHeader, queue, Turn, Status
<1>7. CASE WriteBody
  BY <1>7 DEF WriteBody, queue, Turn, Status
<1>8. CASE WaitAck
  <2>1. ipc_status' \in Status
    BY <1>8 DEF WaitAck, Status
  <2>2. reported' \in Seq(Status) /\ Len(reported') = Len(reported) + 1
    BY <1>8, <2>1, AppendProperties DEF WaitAck
  <2> QED
    BY <1>1, <1>8, <2>1, <2>2 DEF WaitAck, queue, Turn
<1> QED
  BY <1>2, <1>3, <1>4, <1>5, <1>6, <1>7, <1>8 DEF Next, Publish

\* The types hold at the start.
LEMMA LinkInitInv == Init => LinkInv
<1>1. NoHeader \in Header
  BY DEF NoHeader, Header
<1>2. Len(AppMessages) \in Nat
  BY MessageAssumption
<1> QED
  BY <1>1, <1>2, WireInitInv, SizeAssumption DEF Init, LinkInv, SentOK, ReceiverOK, SenderOK, Status,
     Queue!Init, Turn

\* Every step keeps them.
LEMMA LinkNextInv == LinkInv /\ [Next]_vars => LinkInv'
<1> SUFFICES ASSUME LinkInv, [Next]_vars PROVE LinkInv'
  OBVIOUS
<1>1. WireInv'
  BY WireNextInv DEF LinkInv
<1>2. CASE UNCHANGED vars
  BY <1>1, <1>2 DEF LinkInv, vars, receiver, queue, sender, SentOK, ReceiverOK, SenderOK, Turn
<1>3. CASE Next
  <2>1. SenderOK'
    BY <1>3, SenderKeepsType DEF LinkInv
  <2>2. CASE PeerSends
    <3>1. SentOK' /\ rx' \in Seq(PeerByte)
      BY <2>2, PeerKeepsType DEF LinkInv, ReceiverOK
    <3>2. ReceiverOK'
      BY <2>2, <3>1 DEF LinkInv, ReceiverOK, PeerSends, receiver
    <3> QED
      BY <1>1, <2>1, <3>1, <3>2 DEF LinkInv
  <2>3. CASE Consume
    <3>1. ReceiverOK'
      BY <2>3, ReceiverKeepsType DEF LinkInv
    <3>2. sent' = sent
      BY <2>3 DEF Consume, ReadHeader, LetPass, FlushBeforeBody, ReadBody, BodyRead,
         SleepAndFlush, RunSubscribers, FlushAfterFrame
    <3> QED
      BY <1>1, <2>1, <3>1, <3>2 DEF LinkInv, SentOK
  <2>4. CASE Transmit \/ AppPublish \/ Publish
    <3>1. UNCHANGED <<sent, rx, receiver>>
      BY <2>4 DEF Transmit, AppPublish, Publish, ConsumeEvent, WriteHeader, WriteBody, WaitAck
    <3> QED
      BY <1>1, <2>1, <3>1 DEF LinkInv, SentOK, ReceiverOK, receiver
  <2> QED
    BY <1>3, <2>2, <2>3, <2>4 DEF Next
<1> QED
  BY <1>2, <1>3

\* The counters of the two read loops agree with the header they serve and the
\* callbacks with the turns of the publish thread, whatever the peer sends
\* (ipc_uart_consume_thread, ipc_uart_publish_thread).
THEOREM LinkTypeCorrect == Spec => []TypeOK
<1>1. LinkInv => TypeOK
  BY DEF LinkInv, WireInv, QueueTypeOK, SentOK, ReceiverOK, SenderOK, TypeOK, Range
<1> QED
  BY <1>1, LinkInitInv, LinkNextInv, PTL DEF Spec

-----------------------------------------------------------------------------
(* The acknowledgements                                                    *)

AcksInv ==
    /\ LinkInv
    /\ ran \in Seq(Header \X Seq(PeerByte))
    /\ AcksOwed

\* A set of numbers up to n + 1 has one more than its part up to n, or no more.
LEMMA OneMore ==
  ASSUME NEW n \in Nat, NEW T, NEW U, T \subseteq 1..(n + 1),
         U = {k \in T : k \in 1..n}
  PROVE  /\ Cardinality(T) = Cardinality(U) + (IF n + 1 \in T THEN 1 ELSE 0)
         /\ Cardinality(U) \in Nat
<1>1. IsFiniteSet(1..n)
  <2>1. 1 \in Int /\ n \in Int
    OBVIOUS
  <2> QED
    BY ONLY <2>1, FS_Interval
<1>2. U \in SUBSET (1..n) /\ U \subseteq T
  OBVIOUS
<1>3. IsFiniteSet(U)
  BY ONLY <1>1, <1>2, FS_Subset
<1>4. Cardinality(U) \in Nat
  BY ONLY <1>3, FS_CardinalityType
<1>5. \A k \in T : k \in U \/ k = n + 1
  OBVIOUS
<1>6. n + 1 \notin U
  OBVIOUS
<1> DEFINE last == n + 1
<1>7. \A k \in T : k \in U \/ k = last
  BY <1>5
<1>8. last \notin U
  BY <1>6
<1> HIDE DEF last
<1>9. CASE last \in T
  <2>1. T = U \cup {last}
    BY ONLY <1>2, <1>7, <1>9
  <2>2. Cardinality(T) = Cardinality(U) + 1
    BY ONLY <1>3, <1>8, <2>1, FS_AddElement
  <2> QED
    BY <1>4, <1>9, <2>2 DEF last
<1>10. CASE last \notin T
  <2>1. T = U
    BY ONLY <1>2, <1>7, <1>10
  <2>2. Cardinality(T) = Cardinality(U)
    BY ONLY <2>1
  <2>3. n + 1 \notin T
    BY ONLY <1>10 DEF last
  <2>4. (IF n + 1 \in T THEN 1 ELSE 0) = 0
    BY ONLY <2>3
  <2> QED
    BY ONLY <1>4, <2>2, <2>4
<1> QED
  BY <1>9, <1>10

\* One message more is one acknowledgement more, or none.
LEMMA AckCountAppend ==
  ASSUME NEW s \in Seq(Message), NEW m \in Message
  PROVE  /\ AckCount(s) \in Nat
         /\ AckCount(Append(s, m)) = AckCount(s) + (IF m = Ack THEN 1 ELSE 0)
<1> DEFINE n == Len(s)
           t == Append(s, m)
           T == {k \in DOMAIN t : t[k] = Ack}
           U == {k \in DOMAIN s : s[k] = Ack}
<1>1. n \in Nat /\ DOMAIN s = 1..n
  OBVIOUS
<1>2. t \in Seq(Message) /\ Len(t) = n + 1 /\ (\A i \in 1..n : t[i] = s[i]) /\ t[n + 1] = m
  BY AppendProperties
<1>3. DOMAIN t = 1..(n + 1)
  BY <1>2
<1> HIDE DEF n, t
<1>4. T \subseteq 1..(n + 1) /\ (n + 1 \in T <=> m = Ack)
  BY <1>1, <1>2, <1>3
<1>5. U = {k \in T : k \in 1..n}
  BY <1>1, <1>2, <1>3
<1> HIDE DEF T, U
<1>6. Cardinality(T) = Cardinality(U) + (IF n + 1 \in T THEN 1 ELSE 0) /\ Cardinality(U) \in Nat
  BY <1>1, <1>4, <1>5, OneMore
<1>7. AckCount(t) = Cardinality(T) /\ AckCount(s) = Cardinality(U)
  BY DEF AckCount, T, U
<1> QED
  BY <1>4, <1>6, <1>7 DEF t

\* One frame more is one answer more, or none.
LEMMA AnsweredAppend ==
  ASSUME ran \in Seq(Header \X Seq(PeerByte)), NEW h \in Header, NEW body \in Seq(PeerByte),
         ran' = Append(ran, <<h, body>>)
  PROVE  /\ ran' \in Seq(Header \X Seq(PeerByte))
         /\ Answered \in Nat
         /\ Answered' = Answered + (IF h.ack THEN 0 ELSE 1)
<1> DEFINE n == Len(ran)
           T == {k \in DOMAIN ran' : ~ran'[k][1].ack}
           U == {k \in DOMAIN ran : ~ran[k][1].ack}
<1>1. n \in Nat /\ DOMAIN ran = 1..n
  OBVIOUS
<1>2. <<h, body>> \in Header \X Seq(PeerByte)
  OBVIOUS
<1>3. /\ ran' \in Seq(Header \X Seq(PeerByte)) /\ Len(ran') = n + 1
      /\ (\A i \in 1..n : ran'[i] = ran[i]) /\ ran'[n + 1] = <<h, body>>
  BY <1>2, AppendProperties
<1>4. DOMAIN ran' = 1..(n + 1)
  BY <1>3
<1> HIDE DEF n
<1>5. T \subseteq 1..(n + 1) /\ (n + 1 \in T <=> ~h.ack)
  BY <1>1, <1>3, <1>4
<1>6. U = {k \in T : k \in 1..n}
  BY <1>1, <1>3, <1>4
<1>7. Answered' = Cardinality(T) /\ Answered = Cardinality(U)
  BY DEF Answered
<1> HIDE DEF T, U
<1>8. Cardinality(T) = Cardinality(U) + (IF n + 1 \in T THEN 1 ELSE 0) /\ Cardinality(U) \in Nat
  BY <1>1, <1>5, <1>6, OneMore
<1>9. h.ack \in BOOLEAN
  BY DEF Header
<1> QED
  BY <1>3, <1>5, <1>7, <1>8, <1>9

\* A published message is the last of all that were.
LEMMA PublishAppends ==
  ASSUME pending \in Seq(Message), delivered \in Seq(Message), NEW m \in Message,
         Queue!Publish(m)
  PROVE  (delivered \o pending)' = Append(delivered \o pending, m)
<1>1. pending' = Append(pending, m) /\ delivered' = delivered
  BY DEF Queue!Publish
<1>2. /\ Append(pending, m) = pending \o <<m>> /\ <<m>> \in Seq(Message)
      /\ Append(delivered \o pending, m) = (delivered \o pending) \o <<m>>
  BY AppendIsConcat, ConcatProperties
<1>3. (delivered \o pending) \o <<m>> = delivered \o (pending \o <<m>>)
  BY <1>2, ConcatAssociative
<1> QED
  BY <1>1, <1>2, <1>3

\* A consumed message stays where it was among them.
LEMMA ConsumeMovesOne ==
  ASSUME pending \in Seq(Message), delivered \in Seq(Message), Queue!Consume
  PROVE  (delivered \o pending)' = delivered \o pending
<1> DEFINE m == Head(pending)
           t == Tail(pending)
<1>1. pending # <<>> /\ pending' = t /\ delivered' = Append(delivered, m)
  BY DEF Queue!Consume
<1>2. m \in Message /\ t \in Seq(Message) /\ <<m>> \in Seq(Message)
  BY <1>1, HeadTailProperties
<1>3. pending = <<m>> \o t
  <2>1. /\ <<m>> \o t \in Seq(Message) /\ Len(<<m>> \o t) = 1 + Len(t)
        /\ \A i \in 1..(1 + Len(t)) : (<<m>> \o t)[i] = IF i <= 1 THEN m ELSE t[i - 1]
    BY <1>2, ConcatProperties
  <2>2. Len(t) = Len(pending) - 1 /\ (\A i \in 1..Len(t) : t[i] = pending[i + 1]) /\ m = pending[1]
    BY <1>1, HeadTailProperties
  <2> HIDE DEF m, t
  <2>3. \A i \in 1..Len(pending) : pending[i] = (<<m>> \o t)[i]
    BY <2>1, <2>2
  <2>4. Len(pending) = Len(<<m>> \o t)
    BY <2>1, <2>2
  <2> QED
    BY <2>1, <2>3, <2>4, SeqEqual
<1> HIDE DEF m, t
<1>4. Append(delivered, m) = delivered \o <<m>>
  BY <1>2, AppendIsConcat
<1>5. (delivered \o <<m>>) \o t = delivered \o (<<m>> \o t)
  BY <1>2, ConcatAssociative
<1> QED
  BY <1>1, <1>3, <1>4, <1>5

\* An application's message is no acknowledgement.
LEMMA AppMessagesAreNoAcks ==
  \A i \in DOMAIN AppMessages : AppMessages[i] \in Message /\ AppMessages[i] # Ack
<1>1. \A i \in DOMAIN AppMessages : AppMessages[i] \in [message_len : Int, buffer : BOOLEAN, ack : {FALSE}]
  <2>1. \A S : \A s \in Seq(S) : \A i \in DOMAIN s : s[i] \in S
    OBVIOUS
  <2> QED
    BY ONLY MessageAssumption, <2>1 DEF MessageAssumption
<1>2. \A r \in [message_len : Int, buffer : BOOLEAN, ack : {FALSE}] : r.ack = FALSE
  OBVIOUS
<1>3. Ack.ack = TRUE
  BY DEF Ack
<1> QED
  BY <1>1, <1>2, <1>3 DEF Message, Range

\* Every step keeps acknowledgements and answers apart.
LEMMA AcksNextInv == AcksInv /\ [Next]_vars => AcksInv'
<1> SUFFICES ASSUME AcksInv, [Next]_vars PROVE AcksInv'
  OBVIOUS
<1> DEFINE all == delivered \o pending
<1>1. LinkInv'
  BY LinkNextInv DEF AcksInv
<1>2. /\ pending \in Seq(Message) /\ delivered \in Seq(Message) /\ Ack \in Message
      /\ header \in Header /\ got \in Seq(PeerByte)
      /\ ran \in Seq(Header \X Seq(PeerByte))
  BY DEF AcksInv, LinkInv, WireInv, QueueTypeOK, ReceiverOK, Message
<1>3. all \in Seq(Message) /\ AckCount(all) <= Answered
  BY <1>2, ConcatProperties DEF AcksInv, AcksOwed
<1> HIDE DEF all
<1>4. ASSUME UNCHANGED ran, all' = all PROVE AcksInv'
  BY <1>1, <1>2, <1>3, <1>4 DEF AcksInv, AcksOwed, Answered, AckCount, all
<1>5. CASE RunSubscribers
  <2>1. CASE header.message_id \in 0..(IdLimit - 1)
    <3>1. ran' = Append(ran, <<header, got>>)
      BY <1>5, <2>1 DEF RunSubscribers
    <3>2. /\ ran' \in Seq(Header \X Seq(PeerByte)) /\ Answered \in Nat
          /\ Answered' = Answered + (IF header.ack THEN 0 ELSE 1)
      BY <1>2, <3>1, AnsweredAppend
    <3>3. /\ AckCount(all) \in Nat
          /\ AckCount(Append(all, Ack)) = AckCount(all) + 1
      BY <1>2, <1>3, AckCountAppend
    <3>4. UNCHANGED queue \/ (~header.ack /\ Queue!Publish(Ack))
      BY <1>5, <2>1 DEF RunSubscribers, Acknowledge
    <3>5. CASE UNCHANGED queue
      <4>1. all' = all
        BY <3>5 DEF queue, all
      <4> QED
        BY <1>1, <1>3, <3>2, <3>3, <4>1 DEF AcksInv, AcksOwed, all
    <3>6. CASE ~header.ack /\ Queue!Publish(Ack)
      <4>1. all' = Append(all, Ack)
        BY <1>2, <3>6, PublishAppends DEF all
      <4>2. AckCount(all') <= Answered'
        BY <1>3, <3>2, <3>3, <3>6, <4>1
      <4>3. AcksOwed'
        BY <4>2 DEF AcksOwed, all
      <4> QED
        BY <1>1, <3>2, <4>3 DEF AcksInv
    <3> QED
      BY <3>4, <3>5, <3>6
  <2>2. CASE header.message_id \notin 0..(IdLimit - 1)
    BY <1>4, <1>5, <2>2 DEF RunSubscribers, queue, all
  <2> QED
    BY <2>1, <2>2
<1>6. CASE AppPublish
  <2>1. UNCHANGED ran
    BY <1>6 DEF AppPublish, receiver
  <2>2. published + 1 \in DOMAIN AppMessages
    BY <1>6, MessageAssumption DEF AppPublish, AcksInv, LinkInv, SenderOK
  <2> DEFINE m == AppMessages[published + 1]
  <2>3. m \in Message /\ m # Ack
    BY <2>2, AppMessagesAreNoAcks
  <2>4. Queue!Publish(m) \/ UNCHANGED queue
    BY <1>6 DEF AppPublish
  <2> HIDE DEF m
  <2>5. CASE Queue!Publish(m)
    <3>1. all' = Append(all, m)
      BY <1>2, <2>3, <2>5, PublishAppends DEF all
    <3>2. AckCount(all') = AckCount(all)
      BY <1>3, <2>3, <3>1, AckCountAppend
    <3>3. Answered' = Answered
      BY <2>1 DEF Answered
    <3>4. AckCount((delivered \o pending)') <= Answered'
      BY <1>3, <3>2, <3>3 DEF all
    <3>5. AcksOwed'
      BY <3>4 DEF AcksOwed, AckCount
    <3> QED
      BY <1>1, <1>2, <2>1, <3>5 DEF AcksInv
  <2>6. CASE UNCHANGED queue
    BY <1>4, <2>1, <2>6 DEF queue, all
  <2> QED
    BY <2>4, <2>5, <2>6
<1>7. CASE ConsumeEvent
  <2>1. UNCHANGED ran /\ Queue!Consume
    BY <1>7 DEF ConsumeEvent, receiver
  <2>2. all' = all
    BY <1>2, <2>1, ConsumeMovesOne DEF all
  <2> QED
    BY <1>4, <2>1, <2>2
<1>8. CASE \/ UNCHANGED vars \/ PeerSends \/ Transmit \/ WriteHeader \/ WriteBody \/ WaitAck
           \/ ReadHeader \/ LetPass \/ FlushBeforeBody \/ ReadBody
           \/ BodyRead \/ SleepAndFlush \/ FlushAfterFrame
  <2>1. UNCHANGED ran /\ UNCHANGED queue
    BY <1>8 DEF vars, PeerSends, Transmit, WriteHeader, WriteBody, WaitAck, ReadHeader, LetPass,
       FlushBeforeBody, ReadBody, BodyRead, SleepAndFlush, FlushAfterFrame, receiver
  <2>2. all' = all
    BY <2>1 DEF queue, all
  <2> QED
    BY <1>4, <2>1, <2>2
<1> QED
  BY <1>5, <1>6, <1>7, <1>8 DEF Next, Consume, Publish

\* "If the message we received isn't an ACK, then we have to send an ACK", and
\* only then: there are never more acknowledgements than frames that asked for
\* one, however frames, publishers and flushes interleave (ipc_run_all_sub_cb).
THEOREM AcksAreAnswers == Spec => []AcksOwed
<1>1. Init => AcksInv
  <2> SUFFICES ASSUME Init PROVE AcksInv
    OBVIOUS
  <2>1. delivered \o pending = <<>> /\ ran = <<>>
    BY DEF Init, Queue!Init
  <2>2. AckCount(<<>>) = 0 /\ Answered = 0
    BY <2>1, FS_EmptySet DEF AckCount, Answered
  <2> QED
    BY <2>1, <2>2, LinkInitInv DEF AcksInv, AcksOwed
<1>2. AcksInv => AcksOwed
  BY DEF AcksInv
<1> QED
  BY <1>1, <1>2, AcksNextInv, PTL DEF Spec

-----------------------------------------------------------------------------
(* A peer that pauses                                                      *)

Cur == sent[1]
SentAll == sent = <<0, 0>> \/ sent[2] = FrameLen(Cur)
InHand == got \o rx

\* Between two frames nothing has arrived.
Idle == SentAll /\ rx = <<>> /\ got = <<>> /\ Len(ran) = Nth(Cur)

\* What has arrived of a header is its first bytes.
InHeader ==
    /\ Cur \in Frames /\ sent[2] <= HeaderBytes
    /\ InHand = Part(Cur, 0, sent[2])
    /\ Len(got) < HeaderBytes
    /\ Len(ran) = Nth(Cur - 1)

\* After the header the thread and the peer are in the same frame.
InFrame ==
    /\ Cur \in Frames /\ header = PeerFrames[Cur] /\ sent[2] >= HeaderBytes
    /\ Len(ran) = Nth(Cur - 1)

Place ==
    \/ rpc = "header" /\ (Idle \/ InHeader)
    \/ rpc = "let_pass" /\ InFrame /\ header.message_len > MaxBody
    \/ /\ rpc = "flush" /\ InFrame /\ header.message_len <= MaxBody
       /\ sent[2] = HeaderBytes /\ rx = <<>>
    \/ /\ rpc = "body" /\ InFrame /\ header.message_len <= MaxBody
       /\ InHand = Part(Cur, HeaderBytes, sent[2] - HeaderBytes)
    \/ /\ rpc = "run" /\ InFrame /\ header.message_len \in 0..MaxBody
       /\ SentAll /\ rx = <<>> /\ got = BodyOf(Cur)
    \/ rpc = "sleep" /\ InFrame /\ header.message_len < 0 /\ SentAll /\ rx = <<>>
    \/ rpc = "end" /\ SentAll /\ rx = <<>> /\ Len(ran) = Nth(Cur)

PacedInv ==
    /\ LinkInv
    /\ ran \in Seq(Header \X Seq(PeerByte))
    /\ WholeFrames
    /\ Place

\* A part is a sequence of that many bytes; the byte after it makes it longer.
LEMMA PartProperties ==
  ASSUME NEW f \in Nat, NEW skip \in Nat, NEW n \in Nat
  PROVE  /\ Part(f, skip, n) \in Seq(PeerByte) /\ Len(Part(f, skip, n)) = n
         /\ Append(Part(f, skip, n), <<f, skip + n + 1>>) = Part(f, skip, n + 1)
<1>1. \A k \in Nat : Part(f, skip, k) \in Seq(PeerByte) /\ Len(Part(f, skip, k)) = k
  <2> TAKE k \in Nat
  <2>1. Part(f, skip, k) \in [1..k -> PeerByte]
    BY DEF Part, PeerByte
  <2> QED
    BY <2>1
<1>2. \A k \in Nat : \A i \in 1..k : Part(f, skip, k)[i] = <<f, skip + i>>
  BY DEF Part
<1> DEFINE old == Part(f, skip, n)
           new == Part(f, skip, n + 1)
           byte == <<f, skip + n + 1>>
<1>3. byte \in PeerByte /\ byte = <<f, skip + (n + 1)>>
  BY DEF PeerByte
<1>4. /\ old \in Seq(PeerByte) /\ Len(old) = n /\ new \in Seq(PeerByte) /\ Len(new) = n + 1
      /\ \A i \in 1..n : old[i] = new[i]
      /\ new[n + 1] = byte
  <2>1. n \in Nat /\ n + 1 \in Nat
    OBVIOUS
  <2>2. old \in Seq(PeerByte) /\ Len(old) = n /\ new \in Seq(PeerByte) /\ Len(new) = n + 1
    BY ONLY <1>1, <2>1
  <2>3. \A i \in 1..n : i \in 1..(n + 1)
    OBVIOUS
  <2>4. \A i \in 1..n : old[i] = new[i]
    BY ONLY <1>2, <2>1, <2>3
  <2>5. new[n + 1] = byte
    BY <1>2, <1>3, <2>1
  <2> QED
    BY <2>2, <2>4, <2>5
<1> HIDE DEF old, new, byte
<1>5. /\ Append(old, byte) \in Seq(PeerByte) /\ Len(Append(old, byte)) = n + 1
      /\ \A i \in 1..(n + 1) : Append(old, byte)[i] = new[i]
  BY <1>3, <1>4, AppendProperties
<1>6. Append(old, byte) = new
  BY <1>4, <1>5, SeqEqual
<1> QED
  BY <1>1, <1>6 DEF old, new, byte

\* No byte of a frame is an empty part.
LEMMA EmptyPart == \A f, skip : Part(f, skip, 0) = <<>>
BY DEF Part

\* How far the peer is.
LEMMA ComingIsNext ==
  ASSUME SentOK
  PROVE  /\ Cur \in Nat /\ sent[2] \in Nat
         /\ SentAll \/ Cur \in Frames
         /\ SentAll => Coming = <<Cur + 1, 1>>
         /\ ~SentAll => Coming = <<Cur, sent[2] + 1>>
         /\ ~SentAll => sent[2] + 1 <= FrameLen(Cur)
         /\ SentAll <=> Coming[2] = 1
<1>1. CASE sent = <<0, 0>>
  <2>1. 0 \notin Frames
    BY FramesAreHeaders
  <2>2. Coming = <<1, 1>>
    BY <1>1, <2>1 DEF Coming
  <2> QED
    BY <1>1, <2>2 DEF Cur, SentAll
<1>2. CASE sent # <<0, 0>>
  <2>1. Cur \in Frames /\ sent[2] \in 1..FrameLen(Cur)
    BY <1>2 DEF SentOK, Cur
  <2>2. Cur \in Nat /\ FrameLen(Cur) \in Nat
    BY <2>1, FramesAreHeaders
  <2>3. SentAll <=> ~(sent[2] < FrameLen(Cur))
    BY <1>2, <2>1, <2>2 DEF SentAll
  <2>4. SentAll => Coming = <<Cur + 1, 1>>
    BY <2>3 DEF Coming, Cur
  <2>5. ~SentAll => Coming = <<Cur, sent[2] + 1>>
    BY <2>1, <2>3 DEF Coming, Cur
  <2>6. ~SentAll => sent[2] + 1 <= FrameLen(Cur) /\ sent[2] + 1 # 1
    BY <2>1, <2>2, <2>3
  <2> QED
    BY <2>1, <2>2, <2>4, <2>5, <2>6
<1> QED
  BY <1>1, <1>2

\* A good frame is one more, another frame is not.
LEMMA NthStep ==
  ASSUME NEW f \in Frames
  PROVE  /\ Nth(f - 1) \in Nat
         /\ Good(f) => Nth(f) = Nth(f - 1) + 1
         /\ ~Good(f) => Nth(f) = Nth(f - 1)
<1> DEFINE n == f - 1
           T == {g \in 1..f : Good(g)}
           U == {g \in 1..(f - 1) : Good(g)}
<1>1. n \in Nat /\ f = n + 1
  BY FramesAreHeaders
<1>2. T \subseteq 1..(n + 1) /\ (f \in T <=> Good(f))
  BY <1>1
<1>3. U = {k \in T : k \in 1..n}
  BY <1>1
<1>4. Nth(f) = Cardinality(T) /\ Nth(n) = Cardinality(U)
  BY DEF Nth
<1> HIDE DEF n, T, U
<1>5. Cardinality(T) = Cardinality(U) + (IF n + 1 \in T THEN 1 ELSE 0) /\ Cardinality(U) \in Nat
  BY <1>1, <1>2, <1>3, OneMore
<1> QED
  BY <1>1, <1>2, <1>4, <1>5 DEF n

\* A whole header is understood.
LEMMA DeserializeReads ==
  ASSUME NEW f \in Frames
  PROVE  Deserialize(HeaderOf(f)) = {PeerFrames[f]}
<1>1. \A g \in Frames : HeaderOf(f) = HeaderOf(g) => f = g
  <2> TAKE g \in Frames
  <2>1. 1 \in 1..HeaderBytes
    BY SizeAssumption
  <2>2. HeaderOf(f)[1] = <<f, 0 + 1>> /\ HeaderOf(g)[1] = <<g, 0 + 1>>
    BY <2>1 DEF HeaderOf, Part
  <2> QED
    BY <2>2
<1>2. {g \in Frames : HeaderOf(f) = HeaderOf(g)} = {f}
  BY <1>1
<1> QED
  BY <1>2 DEF Deserialize

\* The peer goes on where the consume thread waits for it.
LEMMA PeerKeepsPlace ==
  ASSUME Paced, PacedInv, PeerSends
  PROVE  Place'
<1>1. /\ SentOK /\ rx \in Seq(PeerByte) /\ got \in Seq(PeerByte)
      /\ UNCHANGED <<rpc, got, header, ran>>
  BY DEF PacedInv, LinkInv, ReceiverOK, PeerSends, receiver
<1>2. /\ Coming \in PeerByte /\ sent' = Coming /\ Coming[1] \in Frames
      /\ rx' = Append(rx, Coming) /\ Awaited(Coming)
  BY <1>1, PeerKeepsType DEF PeerSends
<1>3. /\ Cur \in Nat /\ sent[2] \in Nat /\ HeaderBytes \in Nat \ {0}
      /\ SentAll => Coming = <<Cur + 1, 1>>
      /\ ~SentAll => Coming = <<Cur, sent[2] + 1>> /\ Cur \in Frames
  BY <1>1, ComingIsNext, SizeAssumption
<1>4. InHand' = Append(InHand, Coming) /\ InHand \in Seq(PeerByte)
  <2>1. got \o rx \in Seq(PeerByte)
    BY <1>1, ConcatProperties
  <2>2. /\ Append(rx, Coming) = rx \o <<Coming>> /\ <<Coming>> \in Seq(PeerByte)
        /\ Append(got \o rx, Coming) = (got \o rx) \o <<Coming>>
    BY <1>1, <1>2, <2>1, AppendIsConcat
  <2>3. (got \o rx) \o <<Coming>> = got \o (rx \o <<Coming>>)
    BY <1>1, <2>2, ConcatAssociative
  <2> QED
    BY <1>1, <1>2, <2>1, <2>2, <2>3 DEF InHand
<1>5. SentAll => rpc = "header" /\ rx = <<>>
  BY <1>2, <1>3 DEF Awaited
<1>6. ~SentAll /\ sent[2] = HeaderBytes => rpc \in {"body", "let_pass"}
  <2> SUFFICES ASSUME ~SentAll, sent[2] = HeaderBytes PROVE rpc \in {"body", "let_pass"}
    OBVIOUS
  <2>1. Coming[2] = HeaderBytes + 1 /\ Coming[2] # 1
    BY <1>3
  <2> QED
    BY <1>2, <2>1 DEF Awaited
<1>7. CASE rpc = "header" /\ Idle
  <2>1. Coming = <<Cur + 1, 1>> /\ InHand = <<>> /\ Len(ran) = Nth(Cur)
    BY <1>3, <1>7 DEF Idle, InHand
  <2>2. InHand' = Part(Cur + 1, 0, 1)
    <3>1. Part(Cur + 1, 0, 0) = InHand
      BY <2>1, EmptyPart
    <3>2. Append(Part(Cur + 1, 0, 0), <<Cur + 1, 0 + 0 + 1>>) = Part(Cur + 1, 0, 0 + 1)
      <4>1. Cur + 1 \in Nat /\ 0 \in Nat
        BY <1>3
      <4> QED
        BY ONLY <4>1, PartProperties
    <3> QED
      BY <1>4, <2>1, <3>1, <3>2
  <2>3. Cur' = Cur + 1 /\ sent'[2] = 1 /\ Cur' - 1 = Cur /\ Cur' \in Frames
    BY <1>2, <1>3, <2>1 DEF Cur
  <2>4. Len(got') < HeaderBytes
    BY <1>1, <1>3, <1>7 DEF Idle
  <2>5. InHeader'
    BY <1>1, <1>3, <2>1, <2>2, <2>3, <2>4 DEF InHeader
  <2> QED
    BY <1>1, <1>7, <2>5 DEF Place
<1>8. ASSUME NEW skip \in Nat, NEW n \in Nat, ~SentAll, InHand = Part(Cur, skip, n), skip + n = sent[2]
      PROVE  InHand' = Part(Cur, skip, n + 1)
  <2>1. Coming = <<Cur, skip + n + 1>>
    BY <1>3, <1>8
  <2> QED
    BY <1>3, <1>4, <1>8, <2>1, PartProperties
<1>9. CASE rpc = "header" /\ InHeader
  <2>1. ~SentAll
    <3> SUFFICES ASSUME SentAll PROVE FALSE
      OBVIOUS
    <3>1. InHand = got
      BY <1>1, <1>5, ConcatEmptySeq DEF InHand
    <3>2. Len(InHand) = sent[2]
      BY <1>3, <1>9, PartProperties DEF InHeader
    <3>3. sent[2] = FrameLen(Cur) /\ FrameLen(Cur) >= HeaderBytes
      <4>1. sent # <<0, 0>>
        BY <1>9, FramesAreHeaders DEF InHeader, Cur
      <4> QED
        BY <1>9, <4>1, FramesAreHeaders DEF InHeader, SentAll
    <3> QED
      BY <1>3, <1>9, <3>1, <3>2, <3>3 DEF InHeader
  <2>2. sent' = <<Cur, sent[2] + 1>> /\ sent[2] + 1 <= HeaderBytes
    BY <1>2, <1>3, <1>6, <1>9, <2>1 DEF InHeader
  <2>3. Cur' = Cur /\ sent'[2] = sent[2] + 1
    BY <2>2 DEF Cur
  <2>4. InHand' = Part(Cur, 0, sent[2] + 1)
    BY <1>3, <1>8, <1>9, <2>1 DEF InHeader
  <2>5. InHeader'
    BY <1>1, <1>9, <2>2, <2>3, <2>4 DEF InHeader
  <2> QED
    BY <1>1, <1>9, <2>5 DEF Place
<1>10. ASSUME ~SentAll, InFrame PROVE InFrame' /\ Cur' = Cur /\ sent'[2] = sent[2] + 1
  BY <1>1, <1>2, <1>3, <1>10 DEF InFrame, Cur
<1>11. CASE rpc = "let_pass" /\ InFrame /\ header.message_len > MaxBody
  BY <1>1, <1>5, <1>10, <1>11 DEF Place
<1>12. CASE /\ rpc = "body" /\ InFrame /\ header.message_len <= MaxBody
            /\ InHand = Part(Cur, HeaderBytes, sent[2] - HeaderBytes)
  <2>1. ~SentAll
    BY <1>5, <1>12
  <2>2. sent[2] - HeaderBytes \in Nat /\ HeaderBytes + (sent[2] - HeaderBytes) = sent[2]
    BY <1>3, <1>12 DEF InFrame
  <2>3. InHand' = Part(Cur, HeaderBytes, (sent[2] - HeaderBytes) + 1)
    BY <1>3, <1>8, <1>12, <2>1, <2>2
  <2>4. InFrame' /\ Cur' = Cur /\ sent'[2] - HeaderBytes = (sent[2] - HeaderBytes) + 1
    BY <1>3, <1>10, <1>12, <2>1
  <2>5. InHand' = Part(Cur', HeaderBytes, sent'[2] - HeaderBytes)
    BY <2>3, <2>4
  <2> QED
    BY <1>1, <1>12, <2>4, <2>5 DEF Place
<1>13. CASE rpc = "flush" /\ sent[2] = HeaderBytes
  BY <1>5, <1>6, <1>13
<1>14. CASE rpc \in {"run", "sleep", "end"} /\ SentAll
  BY <1>5, <1>14
<1> QED
  BY <1>7, <1>9, <1>11, <1>12, <1>13, <1>14 DEF PacedInv, Place

\* A whole header decides where the thread goes.
LEMMA HeaderKeepsPlace ==
  ASSUME PacedInv, ReadHeader
  PROVE  Place'
<1>1. /\ rpc = "header" /\ rx # <<>> /\ UNCHANGED <<sent, ran>>
      /\ Read(HeaderBytes - Len(got))
  BY DEF ReadHeader, Read
<1>2. /\ rx \in Seq(PeerByte) /\ got \in Seq(PeerByte) /\ SentOK /\ Len(got) < HeaderBytes
      /\ Len(got) \in Nat /\ HeaderBytes \in Nat \ {0}
  BY <1>1, SizeAssumption DEF PacedInv, LinkInv, ReceiverOK
<1>3. InHeader
  BY <1>1 DEF PacedInv, Place, Idle
<1>4. /\ got' \in Seq(PeerByte) /\ rx' \in Seq(PeerByte)
      /\ InHand' = InHand
      /\ Len(got') <= HeaderBytes
  <2>1. HeaderBytes - Len(got) \in Nat \ {0}
    BY <1>2
  <2>2. Len(got) + (HeaderBytes - Len(got)) = HeaderBytes
    BY <1>2
  <2> QED
    BY <1>1, <1>2, <2>1, <2>2, ReadTakes DEF InHand
<1>5. Cur \in Nat /\ sent[2] \in Nat /\ Cur' = Cur
  BY <1>1, <1>2, ComingIsNext DEF Cur
<1>6. CASE Len(got') < HeaderBytes
  <2>1. rpc' = "header"
    BY <1>1, <1>6 DEF ReadHeader
  <2>2. InHeader'
    BY <1>1, <1>3, <1>4, <1>5, <1>6 DEF InHeader
  <2> QED
    BY <2>1, <2>2 DEF Place
<1>7. CASE ~(Len(got') < HeaderBytes)
  <2>1. Len(got') = HeaderBytes
    BY <1>2, <1>4, <1>7
  <2>2. got' \o rx' = Part(Cur, 0, sent[2]) /\ Len(got' \o rx') = Len(got') + Len(rx')
    BY <1>3, <1>4, ConcatProperties DEF InHeader, InHand
  <2>3. Len(got' \o rx') = sent[2] /\ sent[2] <= HeaderBytes
    <3>1. 0 \in Nat /\ Cur \in Nat /\ sent[2] \in Nat
      BY <1>5
    <3>2. Len(Part(Cur, 0, sent[2])) = sent[2]
      BY ONLY <3>1, PartProperties
    <3> QED
      BY <1>3, <2>2, <3>2 DEF InHeader
  <2>4. Len(rx') = 0 /\ sent[2] = HeaderBytes
    <3>1. Len(rx') \in Nat
      BY <1>4
    <3> QED
      BY <1>2, <1>5, <2>1, <2>2, <2>3, <3>1
  <2>5. rx' = <<>>
    BY <1>4, <2>4
  <2>6. got' = HeaderOf(Cur)
    <3>1. got' \o rx' = got'
      BY <1>4, <2>5, ConcatEmptySeq
    <3> QED
      BY <2>2, <2>4, <3>1 DEF HeaderOf
  <2>7. /\ header' \in Deserialize(got')
        /\ rpc' = IF header'.message_len > MaxBody THEN "let_pass" ELSE "flush"
    BY <1>7 DEF ReadHeader
  <2>8. Cur \in Frames /\ header' = PeerFrames[Cur]
    BY <1>3, <2>6, <2>7, DeserializeReads DEF InHeader
  <2>9. InFrame' /\ sent'[2] = HeaderBytes
    BY <1>1, <1>2, <1>3, <1>5, <2>4, <2>8 DEF InFrame, InHeader
  <2>10. header'.message_len \in Int /\ MaxBody \in Nat
    BY <2>8, FramesAreHeaders, SizeAssumption
  <2>11. CASE header'.message_len > MaxBody
    BY <2>7, <2>9, <2>11 DEF Place
  <2>12. CASE ~(header'.message_len > MaxBody)
    <3>1. header'.message_len <= MaxBody
      BY <2>10, <2>12
    <3> QED
      BY <2>5, <2>7, <2>9, <2>12, <3>1 DEF Place
  <2> QED
    BY <2>11, <2>12
<1> QED
  BY <1>6, <1>7

\* A body that was read is whole, and nothing is left behind it.
LEMMA BodyKeepsPlace ==
  ASSUME PacedInv, BodyRead
  PROVE  Place'
<1>1. /\ rpc = "body" /\ UNCHANGED <<sent, rx, got, header, ran>>
      /\ Len(got) >= header.message_len
      /\ rpc' = IF Len(got) = header.message_len THEN "run" ELSE "sleep"
  BY DEF BodyRead
<1>2. /\ InFrame /\ header.message_len <= MaxBody
      /\ InHand = Part(Cur, HeaderBytes, sent[2] - HeaderBytes)
  BY <1>1 DEF PacedInv, Place
<1>3. /\ rx \in Seq(PeerByte) /\ got \in Seq(PeerByte) /\ SentOK
      /\ Len(got) <= Greatest(header.message_len, 0)
      /\ Len(rx) \in Nat /\ Len(got) \in Nat
      /\ HeaderBytes \in Nat \ {0} /\ MaxBody \in Nat
  BY <1>1, SizeAssumption DEF PacedInv, LinkInv, ReceiverOK
<1>4. /\ Cur \in Frames /\ Cur \in Nat /\ header.message_len \in Int
      /\ BodyLen(Cur) = Greatest(header.message_len, 0)
      /\ BodyLen(Cur) \in Nat
      /\ FrameLen(Cur) = HeaderBytes + BodyLen(Cur)
      /\ sent[2] \in HeaderBytes..FrameLen(Cur)
  <2>1. Cur \in Frames /\ Cur # 0 /\ header = PeerFrames[Cur] /\ sent[2] >= HeaderBytes
    BY <1>2, FramesAreHeaders DEF InFrame
  <2>2. Cur \in Nat /\ header.message_len \in Int /\ BodyLen(Cur) \in Nat
    BY <2>1, FramesAreHeaders
  <2>3. FrameLen(Cur) = HeaderBytes + BodyLen(Cur) /\ BodyLen(Cur) = Greatest(header.message_len, 0)
    BY <2>1 DEF FrameLen, BodyLen
  <2>4. sent[2] \in 1..FrameLen(Cur)
    BY <1>3, <2>1 DEF SentOK, Cur
  <2> QED
    BY <1>3, <2>1, <2>2, <2>3, <2>4
<1>5. Len(got) + Len(rx) = sent[2] - HeaderBytes
  <2>1. sent[2] - HeaderBytes \in Nat
    BY <1>3, <1>4
  <2>2. Len(InHand) = sent[2] - HeaderBytes
    BY <1>2, <1>3, <1>4, <2>1, PartProperties
  <2>3. Len(InHand) = Len(got) + Len(rx)
    BY <1>3, ConcatProperties DEF InHand
  <2> QED
    BY <2>2, <2>3
<1>6. Len(rx) = 0 /\ sent[2] = FrameLen(Cur)
  <2>1. CASE header.message_len >= 0
    <3>1. Len(got) = BodyLen(Cur)
      BY <1>1, <1>3, <1>4, <2>1 DEF Greatest
    <3> QED
      BY <1>3, <1>4, <1>5, <3>1
  <2>2. CASE header.message_len < 0
    <3>1. BodyLen(Cur) = 0
      BY <1>4, <2>2 DEF Greatest
    <3> QED
      BY <1>3, <1>4, <1>5, <3>1
  <2> QED
    BY <1>4, <2>1, <2>2
<1>7. rx = <<>> /\ SentAll /\ rx' = <<>> /\ SentAll' /\ InFrame'
  <2>1. rx = <<>>
    BY <1>3, <1>6
  <2> QED
    BY <1>1, <1>2, <1>6, <2>1 DEF SentAll, InFrame, Cur
<1>8. got = Part(Cur, HeaderBytes, BodyLen(Cur))
  <2>1. InHand = got
    BY <1>3, <1>7, ConcatEmptySeq DEF InHand
  <2>2. sent[2] - HeaderBytes = BodyLen(Cur)
    BY <1>3, <1>4, <1>6
  <2> QED
    BY <1>2, <2>1, <2>2
<1>9. CASE Len(got) = header.message_len
  <2>1. rpc' = "run" /\ header'.message_len \in 0..MaxBody
    BY <1>1, <1>2, <1>3, <1>9
  <2>2. got' = BodyOf(Cur')
    BY <1>1, <1>8 DEF BodyOf, Cur
  <2> QED
    BY <1>7, <2>1, <2>2 DEF Place
<1>10. CASE Len(got) # header.message_len
  <2>1. header.message_len < 0
    BY <1>1, <1>3, <1>4, <1>10 DEF Greatest
  <2>2. rpc' = "sleep" /\ header'.message_len < 0
    BY <1>1, <1>10, <2>1
  <2> QED
    BY <1>7, <2>2 DEF Place
<1> QED
  BY <1>9, <1>10

\* The subscribers are run with the frame in hand, which is the next good one.
LEMMA RunKeepsPlace ==
  ASSUME PacedInv, RunSubscribers
  PROVE  /\ Place' /\ WholeFrames'
         /\ ran' \in Seq(Header \X Seq(PeerByte))
<1>1. /\ rpc = "run" /\ rpc' = "end" /\ UNCHANGED <<sent, rx>>
  BY DEF RunSubscribers
<1>2. /\ InFrame /\ header.message_len \in 0..MaxBody /\ SentAll /\ rx = <<>>
      /\ got = BodyOf(Cur)
  BY <1>1 DEF PacedInv, Place
<1>3. Cur \in Frames /\ header = PeerFrames[Cur] /\ Len(ran) = Nth(Cur - 1)
  BY <1>2 DEF InFrame
<1>4. /\ header \in Header /\ got \in Seq(PeerByte)
      /\ ran \in Seq(Header \X Seq(PeerByte)) /\ WholeFrames
  BY DEF PacedInv, LinkInv, ReceiverOK
<1>5. Good(Cur) <=> header.message_id \in 0..(IdLimit - 1)
  BY <1>2, <1>3 DEF Good
<1>6. SentAll' /\ rx' = <<>> /\ Cur' = Cur
  BY <1>1, <1>2 DEF SentAll, Cur
<1>7. CASE Good(Cur)
  <2>1. ran' = Append(ran, <<header, got>>)
    BY <1>5, <1>7 DEF RunSubscribers
  <2> DEFINE r == <<header, got>>
  <2>2. r \in Header \X Seq(PeerByte) /\ ran' = Append(ran, r)
    BY <1>4, <2>1
  <2>3. r = <<PeerFrames[Cur], BodyOf(Cur)>>
    BY <1>2, <1>3
  <2> HIDE DEF r
  <2>4. /\ ran' \in Seq(Header \X Seq(PeerByte)) /\ Len(ran') = Len(ran) + 1
        /\ (\A i \in 1..Len(ran) : ran'[i] = ran[i]) /\ ran'[Len(ran) + 1] = r
    BY <1>4, <2>2, AppendProperties
  <2>5. Nth(Cur) = Nth(Cur - 1) + 1 /\ Nth(Cur - 1) \in Nat
    BY <1>3, <1>7, NthStep
  <2>6. WholeFrames'
    <3>1. DOMAIN ran = 1..Len(ran) /\ DOMAIN ran' = 1..(Len(ran) + 1) /\ Len(ran) \in Nat
      BY <1>4, <2>4
    <3>2. SUFFICES ASSUME NEW i \in 1..(Len(ran) + 1)
                   PROVE  \E f \in Frames :
                      Good(f) /\ Nth(f) = i /\ ran'[i] = <<PeerFrames[f], BodyOf(f)>>
      BY <3>1 DEF WholeFrames
    <3>3. CASE i \in 1..Len(ran)
      BY <1>4, <2>4, <3>1, <3>3 DEF WholeFrames
    <3>4. CASE i = Len(ran) + 1
      <4>1. Good(Cur) /\ Nth(Cur) = i /\ ran'[i] = <<PeerFrames[Cur], BodyOf(Cur)>>
        BY <1>3, <1>7, <2>3, <2>4, <2>5, <3>4
      <4> QED
        BY <1>3, <4>1
    <3> QED
      BY <3>1, <3>3, <3>4
  <2>7. Len(ran') = Nth(Cur')
    BY <1>3, <1>6, <2>4, <2>5
  <2> QED
    BY <1>1, <1>6, <2>4, <2>6, <2>7 DEF Place
<1>8. CASE ~Good(Cur)
  <2>1. ran' = ran
    BY <1>5, <1>8 DEF RunSubscribers
  <2>2. Len(ran') = Nth(Cur')
    BY <1>3, <1>6, <1>8, <2>1, NthStep
  <2> QED
    BY <1>1, <1>4, <1>6, <2>1, <2>2 DEF Place, WholeFrames
<1> QED
  BY <1>7, <1>8

\* The other steps of the consume thread throw away what is no frame.
LEMMA OthersKeepPlace ==
  ASSUME Paced, PacedInv,
         ReadBody \/ LetPass \/ FlushBeforeBody \/ SleepAndFlush \/ FlushAfterFrame
  PROVE  Place' /\ ran' = ran
<1>1. UNCHANGED <<sent, header, ran>> /\ Cur' = Cur
  BY DEF ReadBody, LetPass, FlushBeforeBody, SleepAndFlush, FlushAfterFrame, Cur
<1>2. /\ rx \in Seq(PeerByte) /\ got \in Seq(PeerByte) /\ SentOK /\ Len(got) \in Nat
      /\ header.message_len \in Int /\ MaxBody \in Nat /\ Place
      /\ HeaderBytes \in Nat \ {0}
  BY SizeAssumption DEF PacedInv, LinkInv, ReceiverOK, Header
<1>3. InFrame => InFrame'
  BY <1>1 DEF InFrame
<1>4. SentAll => SentAll'
  BY <1>1 DEF SentAll
<1>5. InFrame /\ (header.message_len > MaxBody \/ header.message_len < 0) => Len(ran) = Nth(Cur)
  <2> SUFFICES ASSUME InFrame, header.message_len > MaxBody \/ header.message_len < 0
               PROVE  Len(ran) = Nth(Cur)
    OBVIOUS
  <2>1. Cur \in Frames /\ header = PeerFrames[Cur] /\ Len(ran) = Nth(Cur - 1)
    BY DEF InFrame
  <2>2. ~Good(Cur)
    BY <1>2, <2>1 DEF Good
  <2> QED
    BY <2>1, <2>2, NthStep
<1>6. CASE ReadBody
  <2>1. rpc = "body" /\ rpc' = "body" /\ Read(header.message_len - Len(got))
        /\ header.message_len - Len(got) \in Nat \ {0}
    BY <1>2, <1>6 DEF ReadBody
  <2>2. InHand' = InHand
    BY <1>2, <2>1, ReadTakes DEF InHand
  <2>3. /\ InFrame /\ header.message_len <= MaxBody
        /\ InHand = Part(Cur, HeaderBytes, sent[2] - HeaderBytes)
    BY <1>2, <2>1 DEF Place
  <2>4. InHand' = Part(Cur', HeaderBytes, sent'[2] - HeaderBytes)
    BY <1>1, <2>2, <2>3
  <2> QED
    BY <1>1, <1>3, <2>1, <2>3, <2>4 DEF Place
<1>7. CASE LetPass
  <2>1. rpc = "let_pass" /\ rpc' = "header" /\ rx' = <<>> /\ got' = <<>> /\ Coming[2] = 1
    BY <1>7 DEF LetPass, Flush
  <2>2. SentAll
    BY <1>2, <2>1, ComingIsNext
  <2>3. InFrame /\ header.message_len > MaxBody
    BY <1>2, <2>1 DEF Place
  <2>4. Idle'
    BY <1>1, <1>4, <1>5, <2>1, <2>2, <2>3 DEF Idle
  <2> QED
    BY <1>1, <2>1, <2>4 DEF Place
<1>8. CASE FlushBeforeBody
  <2>1. rpc = "flush" /\ rpc' = "body" /\ rx' = <<>> /\ got' = <<>>
    BY <1>8 DEF FlushBeforeBody, Flush
  <2>2. InFrame /\ header.message_len <= MaxBody /\ sent[2] = HeaderBytes
    BY <1>2, <2>1 DEF Place
  <2>3. InHand' = <<>> /\ sent'[2] - HeaderBytes = 0
    BY <1>1, <1>2, <2>1, <2>2 DEF InHand
  <2>4. InHand' = Part(Cur', HeaderBytes, sent'[2] - HeaderBytes)
    BY <2>3, EmptyPart
  <2> QED
    BY <1>1, <1>3, <2>1, <2>2, <2>4 DEF Place
<1>9. CASE SleepAndFlush
  <2>1. rpc = "sleep" /\ rpc' = "end" /\ rx' = <<>>
    BY <1>9 DEF SleepAndFlush, Flush
  <2>2. InFrame /\ header.message_len < 0 /\ SentAll
    BY <1>2, <2>1 DEF Place
  <2> QED
    BY <1>1, <1>4, <1>5, <2>1, <2>2 DEF Place
<1>10. CASE FlushAfterFrame
  <2>1. rpc = "end" /\ rpc' = "header" /\ rx' = <<>> /\ got' = <<>>
    BY <1>10 DEF FlushAfterFrame, Flush
  <2>2. SentAll /\ Len(ran) = Nth(Cur)
    BY <1>2, <2>1 DEF Place
  <2>3. Idle'
    BY <1>1, <1>4, <2>1, <2>2 DEF Idle
  <2> QED
    BY <1>1, <2>1, <2>3 DEF Place
<1> QED
  BY <1>6, <1>7, <1>8, <1>9, <1>10

\* Every step keeps the thread and a pausing peer together.
LEMMA PacedNextInv == ASSUME Paced PROVE PacedInv /\ [Next]_vars => PacedInv'
<1> SUFFICES ASSUME PacedInv, [Next]_vars PROVE PacedInv'
  OBVIOUS
<1>1. LinkInv'
  BY LinkNextInv DEF PacedInv
<1>2. ASSUME ran' = ran, Place' PROVE PacedInv'
  BY <1>1, <1>2 DEF PacedInv, WholeFrames
<1>3. CASE Transmit \/ AppPublish \/ Publish \/ UNCHANGED vars
  <2>1. UNCHANGED <<sent, rx, rpc, got, header, ran>>
    BY <1>3 DEF Transmit, AppPublish, Publish, ConsumeEvent, WriteHeader, WriteBody, WaitAck,
       receiver, vars
  <2>2. Place'
    BY <2>1 DEF PacedInv, Place, Idle, InHeader, InFrame, InHand, SentAll, Cur
  <2> QED
    BY <1>2, <2>1, <2>2
<1>4. CASE PeerSends
  BY <1>2, <1>4, PeerKeepsPlace DEF PeerSends, receiver
<1>5. CASE ReadHeader
  BY <1>2, <1>5, HeaderKeepsPlace DEF ReadHeader
<1>6. CASE BodyRead
  BY <1>2, <1>6, BodyKeepsPlace DEF BodyRead
<1>7. CASE RunSubscribers
  BY <1>1, <1>7, RunKeepsPlace DEF PacedInv
<1>8. CASE ReadBody \/ LetPass \/ FlushBeforeBody \/ SleepAndFlush \/ FlushAfterFrame
  BY <1>2, <1>8, OthersKeepPlace
<1> QED
  BY <1>3, <1>4, <1>5, <1>6, <1>7, <1>8 DEF Next, Consume

\* A peer that pauses where the consume thread flushes is understood: the i-th
\* run of the subscribers is with its i-th good frame, whole, although every
\* frame ends in a flush and overlong and negative lengths are thrown away in
\* between (ipc_get_header_from_uart, ipc_uart_consume_thread).
THEOREM PausingPeerIsUnderstood == ASSUME Paced PROVE Spec => []WholeFrames
<1>1. Init => PacedInv
  <2> SUFFICES ASSUME Init PROVE PacedInv
    OBVIOUS
  <2>1. ran = <<>> /\ rx = <<>> /\ got = <<>> /\ sent = <<0, 0>> /\ rpc = "header"
    BY DEF Init
  <2>2. Nth(0) = 0
    <3>1. {g \in 1..0 : Good(g)} = {}
      OBVIOUS
    <3> QED
      BY <3>1, FS_EmptySet DEF Nth
  <2>3. Idle
    BY <2>1, <2>2 DEF Idle, SentAll, Cur
  <2> QED
    BY <2>1, <2>3, LinkInitInv DEF PacedInv, Place, WholeFrames
<1>2. PacedInv /\ [Next]_vars => PacedInv'
  BY PacedNextInv
<1>3. PacedInv => WholeFrames
  BY DEF PacedInv
<1> QED
  BY <1>1, <1>2, <1>3, PTL DEF Spec

-----------------------------------------------------------------------------
(* Any peer                                                                *)

\* Every byte of s was sent before every byte of t.
Precedes(s, t) == \A x \in 1..Len(s), y \in 1..Len(t) : Before(s[x], t[y])

\* Every byte of s was sent.
Sent(s) == \A x \in 1..Len(s) : Before(s[x], sent) \/ s[x] = sent

\* A run of the subscribers with the bytes its header asks for, in order.
RunOK(r) ==
    /\ r[1].message_len \in 0..MaxBody /\ Len(r[2]) = r[1].message_len
    /\ r[1].message_id \in 0..(IdLimit - 1)
    /\ Ordered(r[2])

RunsOK ==
    /\ ran \in Seq(Header \X Seq(PeerByte))
    /\ \A i \in 1..Len(ran) : RunOK(ran[i]) /\ Sent(ran[i][2])
    /\ \A i, j \in 1..Len(ran) : i < j => Precedes(ran[i][2], ran[j][2])

\* What the thread has in hand is in order and after all it has handed on,
\* until the frame ends: the flush that ends it throws away what it handed on.
HandOK ==
    /\ Ordered(InHand) /\ Sent(InHand)
    /\ rpc # "end" => \A i \in 1..Len(ran) : Precedes(ran[i][2], InHand)

\* The length of a body that is read fits the buffer.
LengthOK ==
    /\ rpc \in {"flush", "body", "run"} => header.message_len <= MaxBody
    /\ rpc = "run" => Len(got) = header.message_len

FastInv == LinkInv /\ RunsOK /\ HandOK /\ LengthOK

\* The parts of what is in hand.
LEMMA HandParts ==
  ASSUME LinkInv
  PROVE  /\ InHand \in Seq(PeerByte) /\ Len(InHand) = Len(got) + Len(rx)
         /\ Len(got) \in Nat /\ Len(rx) \in Nat /\ Len(InHand) \in Nat
         /\ \A x \in 1..Len(got) : InHand[x] = got[x] /\ x \in 1..Len(InHand)
BY ConcatProperties DEF LinkInv, ReceiverOK, InHand

\* The bytes read are in order too, and so is every part of the hand.
LEMMA GotInOrder ==
  ASSUME LinkInv, HandOK
  PROVE  /\ Ordered(got) /\ Sent(got)
         /\ \A s : Precedes(s, InHand) => Precedes(s, got)
BY HandParts DEF HandOK, Ordered, Sent, Precedes

\* The byte the peer sends next comes after all it has sent.
LEMMA ComingIsLater ==
  ASSUME SentOK, NEW b \in PeerByte, Before(b, sent) \/ b = sent
  PROVE  Before(b, Coming)
<1>1. /\ Cur \in Nat /\ sent[2] \in Nat
      /\ Coming = <<Cur + 1, 1>> \/ Coming = <<Cur, sent[2] + 1>>
  BY ComingIsNext
<1>2. b[1] \in Nat /\ b[2] \in Nat
  BY DEF PeerByte
<1>3. CASE Coming = <<Cur + 1, 1>>
  BY <1>1, <1>2, <1>3 DEF Before, Cur
<1>4. CASE Coming = <<Cur, sent[2] + 1>>
  BY <1>1, <1>2, <1>4 DEF Before, Cur
<1> QED
  BY <1>1, <1>3, <1>4

\* What was sent by now comes before the next byte, and is sent after it too.
LEMMA SentStays ==
  ASSUME SentOK, NEW s \in Seq(PeerByte), Sent(s), sent' = Coming
  PROVE  (\A x \in 1..Len(s) : Before(s[x], Coming)) /\ Sent(s)'
<1>1. ASSUME NEW x \in 1..Len(s) PROVE Before(s[x], Coming)
  BY ComingIsLater DEF Sent
<1> QED
  BY <1>1 DEF Sent

\* A byte after all others goes to the end.
LEMMA AppendInOrder ==
  ASSUME NEW s \in Seq(PeerByte), NEW b \in PeerByte,
         \A x \in 1..Len(s) : Before(s[x], b)
  PROVE  /\ Ordered(s) => Ordered(Append(s, b))
         /\ \A r : Precedes(r, s) /\ (\A x \in 1..Len(r) : Before(r[x], b))
                     => Precedes(r, Append(s, b))
<1>1. /\ Len(Append(s, b)) = Len(s) + 1 /\ Len(s) \in Nat
      /\ \A x \in 1..Len(s) : Append(s, b)[x] = s[x]
      /\ Append(s, b)[Len(s) + 1] = b
  BY AppendProperties
<1>2. \A x \in 1..(Len(s) + 1) : x \in 1..Len(s) \/ x = Len(s) + 1
  BY <1>1
<1>3. ASSUME Ordered(s) PROVE Ordered(Append(s, b))
  <2> SUFFICES ASSUME NEW i \in 1..(Len(s) + 1), NEW j \in 1..(Len(s) + 1), i < j
               PROVE  Before(Append(s, b)[i], Append(s, b)[j])
    BY <1>1 DEF Ordered
  <2>1. i \in 1..Len(s)
    BY <1>1
  <2>2. CASE j \in 1..Len(s)
    BY <1>1, <1>3, <2>1, <2>2 DEF Ordered
  <2>3. CASE j = Len(s) + 1
    BY <1>1, <2>1, <2>3
  <2> QED
    BY <1>2, <2>2, <2>3
<1>4. ASSUME NEW r, Precedes(r, s), \A x \in 1..Len(r) : Before(r[x], b)
      PROVE  Precedes(r, Append(s, b))
  BY <1>1, <1>2, <1>4 DEF Precedes
<1> QED
  BY <1>3, <1>4

\* A byte that arrives is the last of what is in hand.
LEMMA PeerKeepsOrder ==
  ASSUME FastInv, PeerSends
  PROVE  RunsOK' /\ HandOK' /\ LengthOK'
<1>1. /\ SentOK /\ rx \in Seq(PeerByte) /\ got \in Seq(PeerByte) /\ InHand \in Seq(PeerByte)
      /\ UNCHANGED <<rpc, got, header, ran>> /\ RunsOK /\ HandOK /\ LengthOK
  BY HandParts DEF FastInv, LinkInv, ReceiverOK, PeerSends, receiver
<1>2. Coming \in PeerByte /\ sent' = Coming /\ rx' = Append(rx, Coming)
  BY <1>1, PeerKeepsType DEF PeerSends
<1>3. InHand' = Append(InHand, Coming)
  <2>1. /\ Append(rx, Coming) = rx \o <<Coming>> /\ <<Coming>> \in Seq(PeerByte)
        /\ Append(got \o rx, Coming) = (got \o rx) \o <<Coming>>
    BY <1>1, <1>2, AppendIsConcat DEF InHand
  <2>2. got \o (rx \o <<Coming>>) = (got \o rx) \o <<Coming>>
    BY <1>1, <2>1, ConcatAssociative, SMTT(30)
  <2> QED
    BY <1>1, <1>2, <2>1, <2>2 DEF InHand
<1>4. /\ \A x \in 1..Len(InHand) : Before(InHand[x], Coming)
      /\ Sent(InHand)'
  <2>1. \A x \in 1..Len(InHand) : Before(InHand[x], Coming)
    BY <1>1, <1>2, SentStays DEF HandOK
  <2>2. /\ Len(InHand') = Len(InHand) + 1 /\ Len(InHand) \in Nat
        /\ \A x \in 1..Len(InHand) : InHand'[x] = InHand[x]
        /\ InHand'[Len(InHand) + 1] = Coming
    BY <1>1, <1>2, <1>3, AppendProperties
  <2>3. ASSUME NEW x \in 1..(Len(InHand) + 1)
        PROVE  Before(InHand'[x], Coming) \/ InHand'[x] = Coming
    BY <2>1, <2>2
  <2> QED
    BY <1>2, <2>1, <2>2, <2>3 DEF Sent
<1>5. \A i \in 1..Len(ran) : /\ ran[i][2] \in Seq(PeerByte) /\ Sent(ran[i][2])
                             /\ \A x \in 1..Len(ran[i][2]) : Before(ran[i][2][x], Coming)
  <2> TAKE i \in 1..Len(ran)
  <2>1. ran[i] \in Header \X Seq(PeerByte) /\ Sent(ran[i][2])
    BY <1>1 DEF RunsOK
  <2> QED
    BY <1>1, <1>2, <2>1, SentStays
<1>6. RunsOK'
  <2>1. \A i \in 1..Len(ran) : Sent(ran[i][2])'
    BY <1>1, <1>2, <1>5 DEF Sent
  <2> QED
    BY <1>1, <2>1 DEF RunsOK, RunOK
<1>7. HandOK'
  <2>1. Ordered(InHand')
    BY <1>1, <1>2, <1>3, <1>4, AppendInOrder DEF HandOK
  <2>2. ASSUME rpc # "end", NEW i \in 1..Len(ran) PROVE Precedes(ran[i][2], InHand')
    BY <1>1, <1>2, <1>3, <1>4, <1>5, <2>2, AppendInOrder DEF HandOK
  <2> QED
    BY <1>1, <1>4, <2>1, <2>2 DEF HandOK
<1> QED
  BY <1>1, <1>6, <1>7 DEF LengthOK

\* A read moves bytes within the hand.
LEMMA ReadsKeepOrder ==
  ASSUME FastInv, LinkInv', ReadHeader \/ ReadBody
  PROVE  RunsOK' /\ HandOK' /\ LengthOK'
<1>1. /\ rx \in Seq(PeerByte) /\ got \in Seq(PeerByte) /\ UNCHANGED <<sent, ran>>
      /\ header.message_len \in Int /\ Len(got) \in Nat
      /\ HeaderBytes \in Nat /\ MaxBody \in Nat
  BY SizeAssumption DEF FastInv, LinkInv, ReceiverOK, ReadHeader, ReadBody, Header
<1>2. InHand' = InHand
  <2>1. CASE ReadHeader
    <3>1. HeaderBytes - Len(got) \in Nat \ {0}
      BY <1>1, <2>1 DEF ReadHeader, FastInv, LinkInv, ReceiverOK
    <3> QED
      BY <1>1, <2>1, <3>1, ReadTakes DEF ReadHeader, InHand
  <2>2. CASE ReadBody
    <3>1. header.message_len - Len(got) \in Nat \ {0}
      BY <1>1, <2>2 DEF ReadBody
    <3> QED
      BY <1>1, <2>2, <3>1, ReadTakes DEF ReadBody, InHand
  <2> QED
    BY <2>1, <2>2
<1>3. rpc # "end" /\ LengthOK'
  <2>1. CASE ReadHeader
    <3>1. CASE Len(got') < HeaderBytes
      BY <2>1, <3>1 DEF ReadHeader, LengthOK
    <3>2. CASE ~(Len(got') < HeaderBytes)
      <4>1. header'.message_len \in Int
        BY DEF LinkInv, ReceiverOK, Header
      <4>2. rpc' = IF header'.message_len > MaxBody THEN "let_pass" ELSE "flush"
        BY <2>1, <3>2 DEF ReadHeader
      <4> QED
        BY <1>1, <2>1, <4>1, <4>2 DEF LengthOK, ReadHeader
    <3> QED
      BY <3>1, <3>2
  <2>2. CASE ReadBody
    BY <2>2 DEF ReadBody, FastInv, LengthOK
  <2> QED
    BY <2>1, <2>2
<1>4. RunsOK'
  BY <1>1 DEF FastInv, RunsOK, RunOK, Sent
<1>5. HandOK'
  BY <1>1, <1>2, <1>3 DEF FastInv, HandOK, Sent
<1> QED
  BY <1>3, <1>4, <1>5

\* A flush empties the hand, or leaves of it what was read.
LEMMA FlushesKeepOrder ==
  ASSUME FastInv, LetPass \/ FlushBeforeBody \/ SleepAndFlush \/ FlushAfterFrame
  PROVE  RunsOK' /\ HandOK' /\ LengthOK'
<1>1. /\ UNCHANGED <<sent, ran, header>> /\ rx' = <<>> /\ got \in Seq(PeerByte)
      /\ \/ got' = <<>> /\ rpc' = "header"
         \/ got' = <<>> /\ rpc' = "body" /\ rpc = "flush"
         \/ got' = got /\ rpc' = "end"
  BY DEF FastInv, LinkInv, ReceiverOK, LetPass, FlushBeforeBody, SleepAndFlush, FlushAfterFrame,
     Flush
<1>2. RunsOK'
  BY <1>1 DEF FastInv, RunsOK, RunOK, Sent
<1>3. HandOK'
  <2>1. CASE got' = <<>>
    <3>1. InHand' = <<>> /\ Len(<<>>) = 0
      BY <1>1, <2>1 DEF InHand
    <3> QED
      BY <3>1 DEF HandOK, Ordered, Sent, Precedes
  <2>2. CASE got' = got /\ rpc' = "end"
    <3>1. InHand' = got
      BY <1>1, <2>2, ConcatEmptySeq DEF InHand
    <3> QED
      BY <1>1, <2>2, <3>1, GotInOrder DEF FastInv, HandOK, Sent
  <2> QED
    BY <1>1, <2>1, <2>2
<1>4. LengthOK'
  BY <1>1 DEF FastInv, LengthOK
<1> QED
  BY <1>2, <1>3, <1>4

\* The end of the body's loop: as many bytes as the header says.
LEMMA BodyReadKeepsOrder ==
  ASSUME FastInv, BodyRead
  PROVE  RunsOK' /\ HandOK' /\ LengthOK'
<1>1. /\ rpc = "body" /\ UNCHANGED <<sent, rx, got, header, ran>>
      /\ rpc' = IF Len(got) = header.message_len THEN "run" ELSE "sleep"
  BY DEF BodyRead
<1>2. RunsOK'
  BY <1>1 DEF FastInv, RunsOK, RunOK, Sent
<1>3. HandOK'
  BY <1>1 DEF FastInv, HandOK, InHand, Sent
<1> QED
  BY <1>1, <1>2, <1>3 DEF FastInv, LengthOK

\* A run is with bytes that come after those of all runs before.
LEMMA RunKeepsOrder ==
  ASSUME FastInv, RunSubscribers
  PROVE  RunsOK' /\ HandOK' /\ LengthOK'
<1>1. rpc = "run" /\ rpc' = "end" /\ UNCHANGED <<sent, rx, got, header>>
  BY DEF RunSubscribers
<1>2. HandOK' /\ LengthOK'
  BY <1>1 DEF FastInv, HandOK, LengthOK, InHand, Sent
<1>3. CASE ran' = ran
  BY <1>1, <1>2, <1>3 DEF FastInv, RunsOK, RunOK, Sent
<1>4. CASE /\ header.message_id \in 0..(IdLimit - 1)
           /\ ran' = Append(ran, <<header, got>>)
  <2> DEFINE r == <<header, got>>
  <2>1. /\ header \in Header /\ got \in Seq(PeerByte) /\ Len(got) \in Nat
        /\ header.message_len <= MaxBody /\ Len(got) = header.message_len
        /\ MaxBody \in Nat
    BY <1>1, SizeAssumption DEF FastInv, LinkInv, ReceiverOK, LengthOK
  <2>2. r \in Header \X Seq(PeerByte) /\ ran' = Append(ran, r) /\ r[1] = header /\ r[2] = got
    BY <1>4, <2>1
  <2>3. Ordered(got) /\ Sent(got) /\ \A i \in 1..Len(ran) : Precedes(ran[i][2], got)
    BY <1>1, GotInOrder DEF FastInv, HandOK
  <2>4. RunOK(r)
    BY <1>4, <2>1, <2>2, <2>3 DEF RunOK
  <2> HIDE DEF r
  <2>5. /\ ran \in Seq(Header \X Seq(PeerByte)) /\ Len(ran) \in Nat
        /\ \A i \in 1..Len(ran) : RunOK(ran[i]) /\ Sent(ran[i][2])
        /\ \A i, j \in 1..Len(ran) : i < j => Precedes(ran[i][2], ran[j][2])
    BY DEF FastInv, RunsOK
  <2>6. /\ ran' \in Seq(Header \X Seq(PeerByte)) /\ Len(ran') = Len(ran) + 1
        /\ (\A i \in 1..Len(ran) : ran'[i] = ran[i]) /\ ran'[Len(ran) + 1] = r
    BY <2>2, <2>5, AppendProperties
  <2>7. \A i \in 1..(Len(ran) + 1) : i \in 1..Len(ran) \/ i = Len(ran) + 1
    BY <2>5
  <2>8. \A i \in 1..(Len(ran) + 1) : RunOK(ran'[i]) /\ Sent(ran'[i][2])
    <3> TAKE i \in 1..(Len(ran) + 1)
    <3>1. CASE i \in 1..Len(ran)
      BY <2>5, <2>6, <3>1
    <3>2. CASE i = Len(ran) + 1
      BY <2>2, <2>3, <2>4, <2>6, <3>2
    <3> QED
      BY <2>7, <3>1, <3>2
  <2>9. ASSUME NEW i \in 1..(Len(ran) + 1), NEW j \in 1..(Len(ran) + 1), i < j
        PROVE  Precedes(ran'[i][2], ran'[j][2])
    <3>1. i \in 1..Len(ran)
      BY <2>5, <2>9
    <3>2. CASE j \in 1..Len(ran)
      BY <2>5, <2>6, <2>9, <3>1, <3>2
    <3>3. CASE j = Len(ran) + 1
      BY <2>2, <2>3, <2>6, <3>1, <3>3
    <3> QED
      BY <2>7, <3>2, <3>3
  <2>10. \A i \in 1..Len(ran') :
            /\ RunOK(ran'[i])
            /\ \A x \in 1..Len(ran'[i][2]) : Before(ran'[i][2][x], sent') \/ ran'[i][2][x] = sent'
    <3>1. Len(ran') = Len(ran) + 1 /\ sent' = sent
      BY <1>1, <2>6
    <3> QED
      BY <2>8, <3>1 DEF Sent
  <2>11. \A i, j \in 1..Len(ran') : i < j => Precedes(ran'[i][2], ran'[j][2])
    BY <2>6, <2>9
  <2>12. RunsOK'
    BY <2>6, <2>10, <2>11 DEF RunsOK, RunOK, Sent
  <2> QED
    BY <1>2, <2>12
<1> QED
  BY <1>2, <1>3, <1>4 DEF RunSubscribers

\* Every step keeps the bytes in order.
LEMMA FastNextInv == FastInv /\ [Next]_vars => FastInv'
<1> SUFFICES ASSUME FastInv, [Next]_vars PROVE FastInv'
  OBVIOUS
<1>1. LinkInv'
  BY LinkNextInv DEF FastInv
<1>2. CASE Transmit \/ AppPublish \/ Publish \/ UNCHANGED vars
  <2>1. UNCHANGED <<sent, rx, rpc, got, header, ran>>
    BY <1>2 DEF Transmit, AppPublish, Publish, ConsumeEvent, WriteHeader, WriteBody, WaitAck,
       receiver, vars
  <2>2. RunsOK'
    BY <2>1 DEF FastInv, RunsOK, RunOK, Sent
  <2>3. HandOK' /\ LengthOK'
    BY <2>1 DEF FastInv, HandOK, LengthOK, InHand, Sent
  <2> QED
    BY <1>1, <2>2, <2>3 DEF FastInv
<1>3. CASE PeerSends
  BY <1>1, <1>3, PeerKeepsOrder DEF FastInv
<1>4. CASE ReadHeader \/ ReadBody
  BY <1>1, <1>4, ReadsKeepOrder DEF FastInv
<1>5. CASE LetPass \/ FlushBeforeBody \/ SleepAndFlush \/ FlushAfterFrame
  BY <1>1, <1>5, FlushesKeepOrder DEF FastInv
<1>6. CASE BodyRead
  BY <1>1, <1>6, BodyReadKeepsOrder DEF FastInv
<1>7. CASE RunSubscribers
  BY <1>1, <1>7, RunKeepsOrder DEF FastInv
<1> QED
  BY <1>2, <1>3, <1>4, <1>5, <1>6, <1>7 DEF Next, Consume

\* Whatever the peer's pace, no byte reaches the subscribers twice or before
\* an earlier one, and no run is with more or fewer bytes than its header says
\* and the buffer holds (ipc_get_header_from_uart, ipc_uart_consume_thread).
THEOREM AnyPeerInOrder == Spec => []BodiesInOrder
<1>1. Init => FastInv
  <2> SUFFICES ASSUME Init PROVE FastInv
    OBVIOUS
  <2>1. ran = <<>> /\ rx = <<>> /\ got = <<>> /\ rpc = "header" /\ InHand = <<>>
    BY DEF Init, InHand
  <2>2. RunsOK /\ HandOK /\ LengthOK
    BY <2>1 DEF RunsOK, HandOK, LengthOK, Ordered, Sent
  <2> QED
    BY <2>2, LinkInitInv DEF FastInv
<1>2. FastInv => BodiesInOrder
  <2> SUFFICES ASSUME FastInv, NEW i \in DOMAIN ran
               PROVE  /\ RunOK(ran[i])
                      /\ \A j \in DOMAIN ran :
                           \A x \in DOMAIN ran[i][2], y \in DOMAIN ran[j][2] :
                              i < j \/ (i = j /\ x < y) => Before(ran[i][2][x], ran[j][2][y])
    BY DEF BodiesInOrder, RunOK
  <2>1. /\ DOMAIN ran = 1..Len(ran)
        /\ \A k \in 1..Len(ran) : DOMAIN ran[k][2] = 1..Len(ran[k][2]) /\ RunOK(ran[k])
        /\ \A k, j \in 1..Len(ran) : k < j => Precedes(ran[k][2], ran[j][2])
    <3>1. \A k \in 1..Len(ran) : ran[k] \in Header \X Seq(PeerByte)
      BY DEF FastInv, RunsOK
    <3>2. \A k \in 1..Len(ran) : ran[k][2] \in Seq(PeerByte)
      BY <3>1
    <3> QED
      BY <3>2 DEF FastInv, RunsOK
  <2> QED
    BY <2>1 DEF RunOK, Ordered, Precedes
<1> QED
  BY <1>1, <1>2, FastNextInv, PTL DEF Spec

=============================================================================
