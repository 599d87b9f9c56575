----------------------------- MODULE MCUartLink ------------------------------
(* The UART link for TLC: a paced peer that sends an acknowledgement, an   *)
(* overlong frame, a negative length, an id out of range and two messages. *)
EXTENDS UartLink

Frame(len, id, ack) == [message_len |-> len, message_id |-> id, ack |-> ack]

MCPeerFrames ==
    << Frame(2, 1, FALSE), Frame(3, 1, FALSE), Frame(-1, 0, FALSE),
       Frame(0, 0, TRUE), Frame(1, 2, FALSE), Frame(1, 0, FALSE) >>

\* One frame and nothing else to publish.
NoMessages == <<>>
FewFrames == << Frame(1, 1, FALSE) >>

MCWildHeaders == { Frame(1, 0, FALSE) }

\* A peer that does not pause: bodies may be taken for headers of any kind.
FastFrames == << Frame(2, 1, FALSE), Frame(3, 1, FALSE), Frame(1, 0, TRUE), Frame(2, 0, FALSE) >>
AnyHeaders == { Frame(2, 0, FALSE), Frame(3, 1, TRUE), Frame(1, 2, FALSE), Frame(-1, 1, FALSE) }

MCAppMessages == << [message_len |-> 1, buffer |-> TRUE, ack |-> FALSE] >>

=============================================================================
