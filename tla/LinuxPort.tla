------------------------------ MODULE LinuxPort ------------------------------
(***************************************************************************)
(* The Linux port of the UART layer (uart_eventpublish_linux_test/src):    *)
(* the same ring as the firmware's, but its event is a condition variable  *)
(* that a publisher signals before it pushes, and the wait for it looks at *)
(* the size first, lets go of the mutex and only then waits.  The mutex is *)
(* glibc's normal one: an owner that locks it again waits for ever.        *)
(*                                                                         *)
(* A critical section that gives the mutex back is one step.               *)
(***************************************************************************)
EXTENDS Integers, Sequences, SequencesExt, FiniteSets

CONSTANTS
    RingSize,       \* IPC_QUEUE_MAX_NUM_ELEMENTS
    AppNodes,       \* what an application thread publishes, in order
    LinuxHeaders,   \* the headers the bytes of the port may make
    BuffArrMaxSize, \* BUFF_ARR_MAX_SIZE
    HeaderStruct,   \* sizeof(ipc_message_header_t)
    MaxFrames       \* bound: frames received

ASSUME RingAssumption == RingSize \in Nat \ {0}

\* What the application publishes are nodes, with the id of a message.
ASSUME AppAssumption ==
    AppNodes \in Seq([id : Nat, len : Int, buffer : BOOLEAN, callback : BOOLEAN])

\* IPC_TYPE_ACK, and the node that carries it.
IPC_TYPE_ACK == 0
LinuxAck == [id |-> IPC_TYPE_ACK, len |-> 0, buffer |-> FALSE, callback |-> FALSE]

\* What a node that nobody wrote holds, as far as anyone looks at it.
Undefined == [id |-> -1, len |-> 0, buffer |-> FALSE, callback |-> FALSE]

VARIABLES
    node_list, head_pos, tail_pos, current_size,   \* the ring
    node_muttx,   \* who holds ipc_message_node_muttx
    ipc_publish_queue_module,   \* what the pointer to the ring holds
    at,           \* where each thread is
    app_next,     \* nodes the application has published
    frame,        \* the header of the frame the consume thread received
    frames,       \* frames received
    list_head,    \* the subscriber list of an id: "null" or whatever malloc left
    event_node, event_status,   \* the publish thread's node and its status
    accepted,     \* history: nodes pushed
    handed        \* history: nodes popped

ring == <<node_list, head_pos, tail_pos, current_size, node_muttx, accepted, handed>>
linuxvars == <<ipc_publish_queue_module, ring, at, app_next, frame, frames, list_head,
               event_node, event_status>>

\* _ipc_message_queue_init sets up a ring and returns no value, which
\* init_ipc_message_queue stores: the pointer is the ring's, if the register
\* still holds it, or something else.
LinuxInit ==
    /\ ipc_publish_queue_module \in {"module", "garbage"}
    /\ node_list = [i \in 0..RingSize - 1 |-> Undefined]
    /\ head_pos = 0 /\ tail_pos = 0 /\ current_size = 0
    /\ node_muttx = "nobody"
    /\ at = [app |-> "idle", consume |-> "header", publish |-> "wait"]
    /\ app_next = 0 /\ frame = [len |-> -1, id |-> -1] /\ frames = 0
    /\ list_head \in {"null", "garbage"}
    /\ event_node = Undefined /\ event_status = "none"
    /\ accepted = <<>> /\ handed = <<>>

-----------------------------------------------------------------------------
(* The queue                                                               *)

\* To use another pointer than the ring's is undefined: the thread takes no
\* further step.
QueueIsThere ==
    ipc_publish_queue_module = "module" /\ UNCHANGED ipc_publish_queue_module

\* _signal_new_event: whoever waits now is woken, nobody else ever is.
Signal(t, next) ==
    /\ QueueIsThere
    /\ at' = [at EXCEPT ![t] = next,
                        !.publish = IF @ = "cond_wait" THEN "pop" ELSE @]

\* Mutant: a full ring is not looked for and its oldest node is overwritten.
PushUnchecked(t, node, next) ==
    /\ QueueIsThere /\ node_muttx = "nobody"
    /\ at' = [at EXCEPT ![t] = next]
    /\ node_list' = [node_list EXCEPT ![head_pos] = node]
    /\ head_pos' = (head_pos + 1) % RingSize
    /\ current_size' = current_size + 1
    /\ accepted' = Append(accepted, node)
    /\ UNCHANGED <<tail_pos, node_muttx, handed>>

\* _ipc_push_message_queue.  A full ring keeps the mutex.
Push(t, node, next) ==
    /\ QueueIsThere /\ node_muttx = "nobody"
    /\ at' = [at EXCEPT ![t] = next]
    /\ IF current_size = RingSize
       THEN /\ node_muttx' = t
            /\ UNCHANGED <<node_list, head_pos, tail_pos, current_size, accepted, handed>>
       ELSE /\ node_list' = [node_list EXCEPT ![head_pos] = node]
            /\ head_pos' = (head_pos + 1) % RingSize
            /\ current_size' = current_size + 1
            /\ accepted' = Append(accepted, node)
            /\ UNCHANGED <<tail_pos, node_muttx, handed>>

\* _ipc_msg_queue_wait_new_event, up to the unlock and after it.
WaitForSize ==
    /\ QueueIsThere
    /\ at.publish = "wait" /\ node_muttx = "nobody"
    /\ at' = [at EXCEPT !.publish = IF current_size = 0 THEN "before_wait" ELSE "pop"]
    /\ UNCHANGED <<ring, app_next, frame, frames, list_head, event_node, event_status>>

WaitForEvent ==
    /\ at.publish = "before_wait"
    /\ at' = [at EXCEPT !.publish = "cond_wait"]
    /\ UNCHANGED <<ipc_publish_queue_module, ring, app_next, frame, frames, list_head,
                   event_node, event_status>>

\* A condition variable may wake its waiter for nothing.
SpuriousWake ==
    /\ at.publish = "cond_wait"
    /\ at' = [at EXCEPT !.publish = "pop"]
    /\ UNCHANGED <<ipc_publish_queue_module, ring, app_next, frame, frames, list_head,
                   event_node, event_status>>

\* Mutant: the tail stays on the node that was taken.
PopKeepingTail ==
    /\ QueueIsThere /\ node_muttx = "nobody"
    /\ at' = [at EXCEPT !.publish = "write"]
    /\ event_node' = IF current_size = 0 THEN Undefined ELSE node_list[tail_pos]
    /\ handed' = Append(handed, event_node')
    /\ IF current_size = 0
       THEN /\ node_muttx' = "publish" /\ UNCHANGED current_size
       ELSE /\ current_size' = current_size - 1 /\ UNCHANGED node_muttx
    /\ UNCHANGED <<node_list, head_pos, tail_pos, accepted>>

\* _ipc_pop_message_queue.  An empty ring keeps the mutex and writes no node.
Pop ==
    /\ QueueIsThere /\ node_muttx = "nobody"
    /\ at' = [at EXCEPT !.publish = "write"]
    /\ IF current_size = 0
       THEN /\ event_node' = Undefined
            /\ node_muttx' = "publish"
            /\ UNCHANGED <<tail_pos, current_size>>
       ELSE /\ event_node' = node_list[tail_pos]
            /\ current_size' = current_size - 1
            /\ tail_pos' = (tail_pos + 1) % RingSize
            /\ UNCHANGED node_muttx
    /\ handed' = Append(handed, event_node')
    /\ UNCHANGED <<node_list, head_pos, accepted>>

BlockConsume ==
    /\ at.publish = "pop"
    /\ Pop
    /\ UNCHANGED <<app_next, frame, frames, list_head, event_status>>

-----------------------------------------------------------------------------
(* The publish thread after its wait                                       *)

\* Whether a write took as many bytes as it is compared with: it takes any
\* part of what is wanted, and a negative length wants all there is.
Written(wanted, compared) ==
    {k = compared : k \in -1..(IF wanted < 0 THEN compared ELSE wanted)}

\* The length of a body is compared with the size of a header.
WriteNode ==
    /\ at.publish = "write"
    /\ \E whole_header \in Written(HeaderStruct, HeaderStruct) :
       \E whole_body \in IF event_node.len > 0 \/ event_node.buffer
                         THEN Written(event_node.len, HeaderStruct) ELSE {TRUE} :
          LET status == IF whole_header /\ whole_body THEN "SUCCESS" ELSE "FAIL"
          IN  event_status' = IF event_node.callback THEN status ELSE event_status
    /\ at' = [at EXCEPT !.publish = "wait"]
    /\ UNCHANGED <<ipc_publish_queue_module, ring, app_next, frame, frames, list_head,
                   event_node>>

-----------------------------------------------------------------------------
(* Threads that publish                                                    *)

AppSignals ==
    /\ at.app = "idle" /\ app_next < Len(AppNodes)
    /\ Signal("app", "push")
    /\ UNCHANGED <<ring, app_next, frame, frames, list_head, event_node, event_status>>

AppPushes ==
    /\ at.app = "push"
    /\ Push("app", AppNodes[app_next + 1], "idle")
    /\ app_next' = app_next + 1
    /\ UNCHANGED <<frame, frames, list_head, event_node, event_status>>

\* _ipc_attach_cb works on a copy of the list head, whose mutex nobody
\* initialised: attaching to an empty list leaves it empty.
LinuxAttach ==
    /\ at.app = "idle" /\ list_head = "null"
    /\ UNCHANGED linuxvars

\* ipc_get_header_from_uart: one read, whole or not, makes the header.
GetHeader ==
    /\ at.consume = "header" /\ frames < MaxFrames
    /\ frame' \in LinuxHeaders \cup {[len |-> -1, id |-> -1]}
    /\ frames' = frames + 1
    /\ at' = [at EXCEPT !.consume = IF frame'.len > BuffArrMaxSize THEN "flush" ELSE "body"]
    /\ UNCHANGED <<ipc_publish_queue_module, ring, app_next, list_head,
                   event_node, event_status>>

\* The read of the body: what it returns is compared with the length.
GetBody ==
    /\ at.consume = "body"
    /\ \E read \in -1..frame.len :
          at' = [at EXCEPT !.consume = IF read # frame.len THEN "flush"
                                       ELSE IF frame.id < 0 THEN "header"
                                       ELSE IF frame.id = IPC_TYPE_ACK THEN "ack"
                                       ELSE "subscribers"]
    /\ UNCHANGED <<ipc_publish_queue_module, ring, app_next, frame, frames, list_head,
                   event_node, event_status>>

\* Let the message pass for a second and throw the port's bytes away.
LinuxFlush ==
    /\ at.consume = "flush"
    /\ at' = [at EXCEPT !.consume = "header"]
    /\ UNCHANGED <<ipc_publish_queue_module, ring, app_next, frame, frames, list_head,
                   event_node, event_status>>

\* _ipc_run_all_sub_cb answers an acknowledgement, and nothing else, with one.
AckSignals ==
    /\ at.consume = "ack"
    /\ Signal("consume", "ack_push")
    /\ UNCHANGED <<ring, app_next, frame, frames, list_head, event_node, event_status>>

AckPushes ==
    /\ at.consume = "ack_push"
    /\ Push("consume", LinuxAck, "subscribers")
    /\ UNCHANGED <<app_next, frame, frames, list_head, event_node, event_status>>

\* Then it follows the list from a head that nobody initialised.
RunList ==
    /\ at.consume = "subscribers"
    /\ at' = [at EXCEPT !.consume = IF list_head = "null" THEN "header" ELSE "lost"]
    /\ UNCHANGED <<ipc_publish_queue_module, ring, app_next, frame, frames, list_head,
                   event_node, event_status>>

LinuxNext ==
    \/ WaitForSize \/ WaitForEvent \/ SpuriousWake \/ BlockConsume \/ WriteNode
    \/ AppSignals \/ AppPushes \/ LinuxAttach
    \/ GetHeader \/ GetBody \/ LinuxFlush \/ AckSignals \/ AckPushes \/ RunList

LinuxSpec == LinuxInit /\ [][LinuxNext]_linuxvars

-----------------------------------------------------------------------------
(* Properties                                                              *)

\* The nodes in the ring, oldest first.
InRing == [i \in 1..current_size |-> node_list[(tail_pos + i - 1) % RingSize]]

\* The publish thread was handed a node nobody wrote; what it was handed
\* before that.
EmptyTaken == handed # <<>> /\ Last(handed) = Undefined
HandedOver == IF EmptyTaken THEN Front(handed) ELSE handed

\* Signals lost or for nothing, a full ring, a mutex that is never given back:
\* whatever happened, every node that was pushed was handed to the publish
\* thread once, in order, or is still in the ring.  A node nobody pushed is
\* handed over at most once and as the last, the mutex kept by its taker
\* (_ipc_push_message_queue, _ipc_pop_message_queue).
LinuxOrder ==
    HandedOver \o InRing = accepted /\ (EmptyTaken => node_muttx = "publish")

\* The port's ring is the bounded fifo of MessageFifo too, whose messages are
\* the application's and the acknowledgement: each step of a thread is a
\* publish below the ring's size, a consume of the oldest node, the one
\* return of a node nobody wrote, from an empty ring, or none of these.
LinuxFifo == INSTANCE MessageFifo
    WITH Message <- Range(AppNodes) \cup {LinuxAck}, Capacity <- RingSize,
         pending <- InRing, delivered <- HandedOver,
         undefined_returns <- IF EmptyTaken THEN 1 ELSE 0
LinuxImplementsFifo == LinuxFifo!Spec

=============================================================================
