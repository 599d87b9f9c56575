------------------------------ MODULE UartLink -------------------------------
(***************************************************************************)
(* The two UART threads of the Spresense firmware                          *)
(* (uart_eventpublish/ipc_thread.cxx, ipc.cxx) between the publish queue   *)
(* and the port, with the acknowledgement that a received frame causes     *)
(* (ipc_message_subscribequeue.cxx) and a peer that sends frames.          *)
(*                                                                         *)
(* The queue is the abstract MessageFifo, which PublishQueue implements,   *)
(* up to the first node nobody published.  A byte the peer sends is the    *)
(* frame it belongs to and its place in it; a byte the firmware writes is  *)
(* the turn of the publish thread and its place.  Reads of the port return *)
(* what has arrived, at least one byte.                                    *)
(***************************************************************************)
EXTENDS Integers, Sequences, SequencesExt, FiniteSets

CONSTANTS
    PeerFrames,     \* the headers of the frames the peer sends, in order
    WildHeaders,    \* what bytes that are no header may be taken for
    AppMessages,    \* what the other threads publish, in order
    HeaderBytes,    \* IPC_MESSAGE_HANDLER_SIZE
    HeaderSize,     \* sizeof(ipc_message_header_t)
    MaxBody,        \* BUFF_ARR_MAX_SIZE
    IdLimit,        \* IPC_TYPE_ENUM_LEN
    Capacity,       \* IPC_QUEUE_MAX_NUM_ELEMENTS
    AckWaiting,     \* ack_waiting: init clears it and nothing sets it
    MayBeShort,     \* a write may take fewer bytes than it was given
    Paced           \* the peer pauses after each header and each frame

Header == [message_len : Int, message_id : Int, ack : BOOLEAN]

ASSUME FrameAssumption ==
    /\ PeerFrames \in Seq(Header)
    /\ WildHeaders \subseteq Header /\ WildHeaders # {}
\* Only ipc_run_all_sub_cb makes acknowledgements.
ASSUME MessageAssumption ==
    AppMessages \in Seq([message_len : Int, buffer : BOOLEAN, ack : {FALSE}])
ASSUME SizeAssumption ==
    /\ HeaderBytes \in Nat \ {0} /\ HeaderSize \in Nat \ {0}
    /\ AckWaiting \in BOOLEAN /\ MaxBody \in Nat /\ IdLimit \in Nat /\ Capacity \in Nat \ {0}

Greatest(a, b) == IF a > b THEN a ELSE b
Least(a, b) == IF a < b THEN a ELSE b

Frames == DOMAIN PeerFrames

\* n bytes of a frame or of a turn, after the first `skip'.
Part(f, skip, n) == [i \in 1..n |-> <<f, skip + i>>]
BodyLen(f) == Greatest(PeerFrames[f].message_len, 0)
FrameLen(f) == HeaderBytes + BodyLen(f)
HeaderOf(f) == Part(f, 0, HeaderBytes)
BodyOf(f) == Part(f, HeaderBytes, BodyLen(f))

Ack == [message_len |-> 0, buffer |-> FALSE, ack |-> TRUE]
Message == Range(AppMessages) \cup {Ack}

Success == "IPC_MESSAGE_COMPLETE_SUCCESS"
Fail    == "IPC_MESSAGE_COMPLETE_FAIL"

NoHeader == [message_len |-> -1, message_id |-> -1, ack |-> FALSE]

VARIABLES
    sent,          \* the byte the peer sent last
    rx,            \* bytes that arrived and were not read
    rpc,           \* where the consume thread is
    got,           \* the bytes of the header or body read so far
    header,        \* the header of the frame it is receiving
    ran,           \* history: what the subscribers were run with
    published,     \* app messages published so far
    pending, delivered, undefined_returns,   \* the queue
    ppc,           \* where the publish thread is
    ack_msg,       \* ack_msg_mp: the semaphore's count
    ipc_status,    \* what the callback of its message will be told
    reported,      \* history: what callbacks were told, turn by turn
    tx,            \* bytes written and not transmitted
    out            \* history: bytes transmitted

Queue == INSTANCE MessageFifo

receiver == <<rpc, got, header, ran>>
queue    == <<pending, delivered, undefined_returns>>
sender   == <<ppc, ipc_status, ack_msg, reported>>
vars == <<sent, rx, receiver, published, queue, sender, tx, out>>

Init ==
    /\ sent = <<0, 0>> /\ rx = <<>>
    /\ rpc = "header" /\ got = <<>> /\ header = NoHeader /\ ran = <<>>
    /\ published = 0
    /\ Queue!Init
    /\ ppc = "consume" /\ ipc_status = Success /\ ack_msg = 0 /\ reported = <<>>
    /\ tx = <<>> /\ out = <<>>

-----------------------------------------------------------------------------
(* The port and the peer                                                   *)

\* The byte the peer sends next, one frame after the other.
Coming ==
    IF sent[1] \in Frames /\ sent[2] < FrameLen(sent[1])
    THEN <<sent[1], sent[2] + 1>>
    ELSE <<sent[1] + 1, 1>>

\* A peer that pauses sends a header when the firmware waits for one, a body
\* when the firmware waits for it or sleeps the second that lets it pass.
Awaited(byte) ==
    CASE byte[2] = 1               -> rpc = "header" /\ rx = <<>>
      [] byte[2] = HeaderBytes + 1 -> rpc \in {"body", "let_pass"}
      [] OTHER                     -> TRUE

PeerSends ==
    /\ Coming[1] \in Frames
    /\ Paced => Awaited(Coming)
    /\ sent' = Coming
    /\ rx' = Append(rx, Coming)
    /\ UNCHANGED <<receiver, published, queue, sender, tx, out>>

Transmit ==
    /\ tx # <<>>
    /\ out' = Append(out, Head(tx))
    /\ tx' = Tail(tx)
    /\ UNCHANGED <<sent, rx, receiver, published, queue, sender>>

\* tcflush(uart_fd, TCIOFLUSH)
Flush == rx' = <<>> /\ tx' = <<>>

-----------------------------------------------------------------------------
(* The consume thread                                                      *)

\* One read of at most n bytes, which blocks for the first.
Read(n) ==
    /\ rx # <<>>
    /\ LET k == Least(n, Len(rx))
       IN  /\ got' = got \o SubSeq(rx, 1, k)
           /\ rx' = SubSeq(rx, k + 1, Len(rx))

\* deserialize_message_header: bytes that are no header make some header.
Deserialize(bytes) ==
    IF \E f \in Frames : bytes = HeaderOf(f)
    THEN {PeerFrames[f] : f \in {g \in Frames : bytes = HeaderOf(g)}}
    ELSE WildHeaders

\* ipc_get_header_from_uart, one read at a time.
ReadHeader ==
    /\ rpc = "header"
    /\ Read(HeaderBytes - Len(got))
    /\ IF Len(got') < HeaderBytes
       THEN UNCHANGED <<rpc, header>>
       ELSE /\ header' \in Deserialize(got')
            /\ rpc' = IF header'.message_len > MaxBody THEN "let_pass" ELSE "flush"
    /\ UNCHANGED <<sent, ran, published, queue, sender, tx, out>>

\* Mutant: the body of a frame that is too long is not thrown away.
LetPassUnflushed ==
    /\ rpc = "let_pass"
    /\ Paced => Coming[2] = 1
    /\ rpc' = "header" /\ got' = <<>>
    /\ UNCHANGED <<sent, rx, tx, header, ran, published, queue, sender, out>>

\* The frame is too long: sleep for a second and flush.
LetPass ==
    /\ rpc = "let_pass"
    /\ Paced => Coming[2] = 1
    /\ Flush
    /\ rpc' = "header" /\ got' = <<>>
    /\ UNCHANGED <<sent, header, ran, published, queue, sender, out>>

FlushBeforeBody ==
    /\ rpc = "flush"
    /\ Flush
    /\ rpc' = "body" /\ got' = <<>>
    /\ UNCHANGED <<sent, header, ran, published, queue, sender, out>>

\* Mutant: a later read of the body goes before what was read.
ReadBodyBefore ==
    /\ rpc = "body"
    /\ Len(got) < header.message_len
    /\ rx # <<>>
    /\ LET k == Least(header.message_len - Len(got), Len(rx))
       IN  /\ got' = SubSeq(rx, 1, k) \o got
           /\ rx' = SubSeq(rx, k + 1, Len(rx))
    /\ UNCHANGED <<sent, rpc, header, ran, published, queue, sender, tx, out>>

ReadBody ==
    /\ rpc = "body"
    /\ Len(got) < header.message_len
    /\ Read(header.message_len - Len(got))
    /\ UNCHANGED <<sent, rpc, header, ran, published, queue, sender, tx, out>>

\* Mutant: the read loop ends one byte early.
BodyReadEarly ==
    /\ rpc = "body"
    /\ Len(got) >= header.message_len - 1
    /\ rpc' = "run"
    /\ UNCHANGED <<sent, rx, got, header, ran, published, queue, sender, tx, out>>

\* Only a negative length differs from what was read.
BodyRead ==
    /\ rpc = "body"
    /\ Len(got) >= header.message_len
    /\ rpc' = IF Len(got) = header.message_len THEN "run" ELSE "sleep"
    /\ UNCHANGED <<sent, rx, got, header, ran, published, queue, sender, tx, out>>

SleepAndFlush ==
    /\ rpc = "sleep"
    /\ Flush
    /\ rpc' = "end"
    /\ UNCHANGED <<sent, got, header, ran, published, queue, sender, out>>

\* Mutant: acknowledgements are acknowledged too.
AcknowledgeAlways ==
    /\ IF Len(pending) < Capacity THEN Queue!Publish(Ack) ELSE UNCHANGED queue
    /\ UNCHANGED ack_msg

\* _ipc_msg_ack_cmd_recv.  Nobody raises ack_waiting, so the branch is never
\* taken; that it also lowers the queue's flag `waiting' is left out.
AckReceived == ack_msg' = IF AckWaiting THEN ack_msg + 1 ELSE ack_msg

\* A frame is answered, by a message that a full queue drops; an
\* acknowledgement is passed on to the publish thread.
Acknowledge ==
    IF header.ack
    THEN AckReceived /\ UNCHANGED queue
    ELSE /\ IF Len(pending) < Capacity THEN Queue!Publish(Ack) ELSE UNCHANGED queue
         /\ UNCHANGED ack_msg

\* ipc_run_all_sub_cb; the walk of the list is in SubscribeRegistry.
RunSubscribers ==
    /\ rpc = "run"
    /\ IF header.message_id \in 0..(IdLimit - 1)
       THEN Acknowledge /\ ran' = Append(ran, <<header, got>>)
       ELSE UNCHANGED <<queue, ack_msg, ran>>
    /\ rpc' = "end"
    /\ UNCHANGED <<sent, rx, got, header, published, ppc, ipc_status, reported, tx, out>>

\* Mutant: the count of bytes read is not set back for the next header.
FlushAfterFrameOnly ==
    /\ rpc = "end"
    /\ Flush
    /\ rpc' = "header" /\ got' = got
    /\ UNCHANGED <<sent, header, ran, published, queue, sender, out>>

FlushAfterFrame ==
    /\ rpc = "end"
    /\ Flush
    /\ rpc' = "header" /\ got' = <<>>
    /\ UNCHANGED <<sent, header, ran, published, queue, sender, out>>

Consume ==
    \/ ReadHeader \/ LetPass \/ FlushBeforeBody \/ ReadBody
    \/ BodyRead \/ SleepAndFlush \/ RunSubscribers \/ FlushAfterFrame

-----------------------------------------------------------------------------
(* The publish thread and the other publishers                             *)

\* ipc_publish_message by another thread; a full queue drops the message.
AppPublish ==
    /\ published < Len(AppMessages)
    /\ published' = published + 1
    /\ IF Len(pending) < Capacity
       THEN Queue!Publish(AppMessages[published + 1])
       ELSE UNCHANGED queue
    /\ UNCHANGED <<sent, rx, receiver, sender, tx, out>>

Turn == Len(delivered)
node == delivered[Turn]

Written(n) == IF MayBeShort THEN 0..n ELSE {n}

\* n bytes of this turn, after the first `skip'.
Write(skip, n) == tx' = tx \o Part(Turn, skip, n)

ConsumeEvent ==
    /\ ppc = "consume"
    /\ Queue!Consume
    /\ ppc' = "header" /\ ipc_status' = Success
    /\ UNCHANGED <<sent, rx, receiver, published, ack_msg, reported, tx, out>>

WriteHeader ==
    /\ ppc = "header"
    /\ \E n \in Written(HeaderSize) :
          /\ Write(0, n)
          /\ ipc_status' = IF n = HeaderSize THEN ipc_status ELSE Fail
    /\ ppc' = IF node.message_len > 0 \/ node.buffer THEN "body" ELSE "ack"
    /\ UNCHANGED <<sent, rx, receiver, published, queue, ack_msg, reported, out>>

\* Mutant: the body overtakes what is still in the port.
WriteBodyFirst ==
    /\ ppc = "body"
    /\ \E n \in Written(node.message_len) :
          /\ tx' = Part(Turn, HeaderSize, n) \o tx
          /\ ipc_status' = IF n = HeaderSize THEN ipc_status ELSE Fail
    /\ ppc' = "ack"
    /\ UNCHANGED <<sent, rx, receiver, published, queue, ack_msg, reported, out>>

\* The body, whose size is compared with the size of a header.  The bytes
\* written are those of the pointer and what follows it, not the buffer's:
\* data, which is left out.
WriteBody ==
    /\ ppc = "body"
    /\ \E n \in Written(node.message_len) :
          /\ Write(HeaderSize, n)
          /\ ipc_status' = IF n = HeaderSize THEN ipc_status ELSE Fail
    /\ ppc' = "ack"
    /\ UNCHANGED <<sent, rx, receiver, published, queue, ack_msg, reported, out>>

\* Mutant: every message does wait for an acknowledgement of its own.
WaitForAck ==
    /\ ppc = "ack"
    /\ Len(SelectSeq(ran, LAMBDA r : r[1].ack)) >= Turn
    /\ ipc_status' = Success
    /\ reported' = Append(reported, ipc_status')
    /\ ppc' = "consume"
    /\ UNCHANGED <<sent, rx, receiver, published, queue, ack_msg, tx, out>>

\* _ipc_msg_wait_recieve_cmd_ack: five seconds after the epoch have passed,
\* so sem_timedwait takes a token that is there or times out at once.
AckWait ==
    ack_msg' = IF AckWaiting /\ ack_msg > 0 THEN ack_msg - 1 ELSE ack_msg

\* ipc_msg_wait_recieve_cmd_ack returns no value: what the switch finds is 0,
\* ETIMEDOUT or neither, whatever the wait returned.
WaitAck ==
    /\ ppc = "ack"
    /\ AckWait
    /\ ipc_status' \in {ipc_status, Success, "IPC_MESSAGE_COMPLETE_FAIL_TIMEOUT"}
    /\ reported' = Append(reported, ipc_status')
    /\ ppc' = "consume"
    /\ UNCHANGED <<sent, rx, receiver, published, queue, tx, out>>

Publish == ConsumeEvent \/ WriteHeader \/ WriteBody \/ WaitAck

Next == PeerSends \/ Transmit \/ Consume \/ AppPublish \/ Publish

Spec == Init /\ [][Next]_vars

\* The threads and the port go on; the peer sends what it has.
Fairness ==
    /\ WF_vars(Consume) /\ WF_vars(Publish)
    /\ WF_vars(Transmit) /\ WF_vars(PeerSends)

FairSpec == Spec /\ Fairness

-----------------------------------------------------------------------------
(* Properties                                                              *)

Good(f) ==
    /\ PeerFrames[f].message_len \in 0..MaxBody
    /\ PeerFrames[f].message_id \in 0..(IdLimit - 1)

\* How many of the first frames are good.
Nth(f) == Cardinality({g \in 1..f : Good(g)})
GoodFrames == Nth(Len(PeerFrames))

AckCount(messages) == Cardinality({k \in DOMAIN messages : messages[k] = Ack})

Answered == Cardinality({k \in DOMAIN ran : ~ran[k][1].ack})

Before(a, b) == a[1] < b[1] \/ (a[1] = b[1] /\ a[2] < b[2])

\* Every variable of the link has its type, and a thread has read no more
\* than what it is reading: the counters of the two read loops agree with
\* the header they serve.
TypeOK ==
    /\ \/ sent = <<0, 0>>
       \/ sent[1] \in Frames /\ sent[2] \in 1..FrameLen(sent[1])
    /\ published \in 0..Len(AppMessages)
    /\ rpc \in {"header", "let_pass", "flush", "body", "sleep", "run", "end"}
    /\ ppc \in {"consume", "header", "body", "ack"}
    /\ header \in Header
    /\ rpc = "header" => Len(got) < HeaderBytes
    /\ rpc = "body" => Len(got) <= Greatest(header.message_len, 0)
    /\ Range(pending) \cup Range(delivered) \subseteq Message
    /\ Len(pending) <= Capacity
    /\ Len(reported) = IF ppc = "consume" THEN Turn ELSE Turn - 1

\* A peer that pauses where the consume thread flushes is understood: the
\* subscribers are run with its frames, whole and in order, and with nothing
\* else, although every frame ends in a flush and overlong and negative
\* lengths are thrown away in between.
WholeFrames ==
    \A i \in DOMAIN ran : \E f \in Frames :
        Good(f) /\ Nth(f) = i /\ ran[i] = <<PeerFrames[f], BodyOf(f)>>

\* Whatever the peer's pace, and although a flush may throw away any of its
\* bytes and leave a body to be taken for a header: the subscribers are run
\* with as many bytes as their header says and the buffer holds, and the bytes
\* they get are in the order they were sent, none twice, over all runs.
BodiesInOrder ==
    \A i \in DOMAIN ran :
       LET len == ran[i][1].message_len
       IN  /\ len \in 0..MaxBody /\ Len(ran[i][2]) = len
           /\ ran[i][1].message_id \in 0..(IdLimit - 1)
           /\ \A j \in DOMAIN ran : \A x \in DOMAIN ran[i][2], y \in DOMAIN ran[j][2] :
                 i < j \/ (i = j /\ x < y) => Before(ran[i][2][x], ran[j][2][y])

\* "If the message we received isn't an ACK, then we have to send an ACK"
\* (ipc_message_subscribequeue.cxx:56), and only then: two of these devices
\* would answer each other for ever if an acknowledgement were answered.
AcksOwed == AckCount(delivered \o pending) <= Answered

\* What goes out keeps the order of publication, header before body, even
\* when a flush of the consume thread takes bytes from the middle.
WireInOrder ==
    \A i \in 1..(Len(out) - 1) : Before(out[i], out[i + 1])

\* The link recovers: whatever frame was thrown away before, every frame the
\* firmware can accept reaches its subscribers.
AllDelivered == <>(WholeFrames /\ Len(ran) = GoodFrames)

\* No frame, flush or missing acknowledgement stops the publish thread: what
\* the queue accepted is worked off and every callback is told something.
Drains == <>[](pending = <<>> /\ Len(reported) = Turn)

\* Each frame that asks for an acknowledgement gets one.
EveryFrameAcked ==
    \A n \in 1..GoodFrames :
        (Answered >= n) ~>
            (Cardinality({t \in DOMAIN delivered :
                /\ delivered[t] = Ack
                /\ <<t, HeaderSize>> \in Range(out)}) >= n)

=============================================================================
