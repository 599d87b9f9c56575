-------------------------- MODULE SubscribeRegistry --------------------------
(***************************************************************************)
(* The subscribers of the UART layer                                       *)
(* (uart_eventpublish/ipc_message_subscribequeue.cxx): for each message id *)
(* a linked list of callbacks that the consume thread walks, and the two   *)
(* functions with which other threads attach to it.                        *)
(*                                                                         *)
(* Every list has a mutex, but run and attach lock a copy of it on their   *)
(* own stack, and _ipc_attach_ipc_cb locks nothing: only loads and stores  *)
(* are atomic, and each of shared memory is a step.  Junk is what malloc   *)
(* left in a node; following it or a null pointer is undefined, and a      *)
(* thread that does takes no further step.                                 *)
(***************************************************************************)
EXTENDS Integers, Sequences

CONSTANTS
    Ids,         \* 0..IPC_TYPE_ENUM_LEN - 1
    Attachers,   \* threads that attach callbacks
    MaxNodes,    \* bound: nodes that are ever allocated
    MaxAttach,   \* bound: callbacks that are ever attached
    MaxWalks     \* bound: messages that are run

ASSUME RegistryAssumption ==
    /\ Ids \subseteq Nat
    /\ MaxNodes \in Nat /\ MaxAttach \in Nat /\ MaxWalks \in Nat

Node == 1..MaxNodes
Null == 0
Junk == MaxNodes + 1

\* A callback is told apart by its list and the number of its attachment.
Callback == [id : Ids, n : 1..MaxAttach]
NoCallback == [id |-> -1, n |-> 0]
JunkCallback == [id |-> -2, n |-> 0]

\* An attacher between two calls.
Resting == [node |-> Null, cb |-> NoCallback, ipc |-> FALSE]

VARIABLES
    msg_sub_heads_list,   \* the head of each list
    next,                 \* the next node of each node
    sub_cb,               \* the callback of each node
    used,                 \* nodes allocated so far
    apc, target,          \* each attacher's label; its node, callback and function
    wpc, node, walk_id,   \* where the walk is: label, node and list
    walks,                \* walks begun
    visited,              \* nodes whose callback this walk has run
    quiet,                \* history: no store since this walk began
    owner,                \* history: the list a node was allocated for
    attached,             \* history: attachments begun
    returned,             \* history: callbacks whose attachment has returned
    displaced,            \* history: callbacks that are lost without any race
    contested             \* history: lists in which two attachments raced

memory   == <<msg_sub_heads_list, next, sub_cb, used, owner>>
attacher == <<apc, target, attached>>
fate     == <<returned, displaced, contested>>
walker   == <<wpc, node, walk_id, walks, visited>>
rvars == <<memory, attacher, fate, walker, quiet>>

RegistryInit ==
    /\ msg_sub_heads_list = [i \in Ids |-> Null]
    /\ next = [n \in Node |-> Null] /\ sub_cb = [n \in Node |-> NoCallback]
    /\ used = 0 /\ owner = [n \in Node |-> -1]
    /\ apc = [t \in Attachers |-> "idle"]
    /\ target = [t \in Attachers |-> Resting]
    /\ attached = 0 /\ returned = {} /\ displaced = {} /\ contested = {}
    /\ wpc = "idle" /\ node = Null /\ walk_id = 0 /\ walks = 0 /\ visited = <<>>
    /\ quiet = TRUE

-----------------------------------------------------------------------------
(* Lists                                                                   *)

Place == Node \cup {Null, Junk}

\* Places that a loop over `next' does not leave: Null and Junk end it.
Closed(S) == \A n \in S \cap Node : next[n] \in S

\* The nodes that such a loop passes when it begins at n, itself included.
From(n) == {m \in Node : \A S \in SUBSET Place : n \in S /\ Closed(S) => m \in S}
Behind(n) == From(next[n])

InList(i) == From(msg_sub_heads_list[i])

\* malloc, for list i: the node's fields are what the memory held.
Allocate(n, i) ==
    /\ n = used + 1 /\ n \in Node
    /\ used' = n /\ owner' = [owner EXCEPT ![n] = i]
    /\ \E c \in {NoCallback, JunkCallback} : sub_cb' = [sub_cb EXCEPT ![n] = c]

-----------------------------------------------------------------------------
(* Attaching                                                               *)

List(t) == target[t].cb.id

\* A call of either function for list i begins, at node n.
Begin(t, i, ipc, n, l) ==
    /\ apc[t] = "idle" /\ attached < MaxAttach
    /\ attached' = attached + 1
    /\ target' = [target EXCEPT ![t] =
                      [node |-> n, cb |-> [id |-> i, n |-> attached + 1], ipc |-> ipc]]
    /\ apc' = [apc EXCEPT ![t] = l]

\* Thread t goes on at label l with node n.
GoOn(t, l, n) ==
    /\ apc' = [apc EXCEPT ![t] = l]
    /\ target' = [target EXCEPT ![t].node = n]
    /\ UNCHANGED attached

\* The call returns: its callback counts as attached.
Return(t) ==
    /\ apc' = [apc EXCEPT ![t] = "idle"]
    /\ target' = [target EXCEPT ![t] = Resting]
    /\ returned' = returned \cup {target[t].cb}
    /\ UNCHANGED attached

\* The next store of t cuts off what another attachment has linked since t
\* looked: a head, a node behind the last one, or one behind t's new node.
Races(t) ==
    \/ apc[t] = "malloc" /\ msg_sub_heads_list[List(t)] # Null
    \/ apc[t] \in {"link", "end"} /\ next[target[t].node] \in Node

NoteRace(t, race) == contested' = IF race THEN contested \cup {List(t)} ELSE contested

\* _ipc_attach_ipc_cb looks whether the list is empty.
AttachIpcBegin(t, i) ==
    /\ Begin(t, i, TRUE, Null,
             IF msg_sub_heads_list[i] = Null THEN "malloc" ELSE "head")
    /\ UNCHANGED <<memory, fate, walker, quiet>>

\* An empty list gets a head whose fields are left as they were.
AttachIpcMalloc(t) ==
    /\ apc[t] = "malloc"
    /\ \E n \in Node, junk \in {Null, Junk} :
          /\ Allocate(n, List(t))
          /\ next' = [next EXCEPT ![n] = junk]
          /\ msg_sub_heads_list' = [msg_sub_heads_list EXCEPT ![List(t)] = n]
    /\ GoOn(t, "reread", Null) /\ NoteRace(t, Races(t)) /\ quiet' = FALSE
    /\ UNCHANGED <<returned, displaced, walker>>

\* The head is read again: it is the new node or begins the loop.
AttachIpcHead(t) ==
    /\ apc[t] \in {"reread", "head"}
    /\ GoOn(t, IF apc[t] = "reread" THEN "set" ELSE "test", msg_sub_heads_list[List(t)])
    /\ UNCHANGED <<memory, fate, walker, quiet>>

\* The loop to the last node, the same in both functions: next is tested
\* and read again.
AttachTest(t) ==
    /\ apc[t] = "test" /\ target[t].node \in Node
    /\ GoOn(t, IF next[target[t].node] # Null THEN "move"
               ELSE IF target[t].ipc THEN "set" ELSE "link", target[t].node)
    /\ UNCHANGED <<memory, fate, walker, quiet>>

AttachMove(t) ==
    /\ apc[t] = "move"
    /\ GoOn(t, "test", next[target[t].node])
    /\ UNCHANGED <<memory, fate, walker, quiet>>

\* _ipc_attach_ipc_cb stores in the node it found, whose callback is lost.
AttachIpcSet(t) ==
    /\ apc[t] = "set"
    /\ sub_cb' = [sub_cb EXCEPT ![target[t].node] = target[t].cb]
    /\ displaced' = displaced \cup ({sub_cb[target[t].node]} \cap Callback)
    /\ Return(t) /\ quiet' = FALSE
    /\ UNCHANGED <<msg_sub_heads_list, next, used, owner, contested, walker>>

\* _ipc_attach_cb copies the head.  The first node of an empty list is
\* stored in the copy and lost, and the call returns.
AttachLost(t, i) ==
    /\ apc[t] = "idle" /\ msg_sub_heads_list[i] = Null
    /\ attached < MaxAttach /\ attached' = attached + 1
    /\ used < MaxNodes /\ used' = used + 1
    /\ LET cb == [id |-> i, n |-> attached + 1]
       IN  returned' = returned \cup {cb} /\ displaced' = displaced \cup {cb}
    /\ UNCHANGED <<msg_sub_heads_list, next, sub_cb, owner, apc, target, contested,
                   walker, quiet>>

AttachBegin(t, i) ==
    /\ msg_sub_heads_list[i] # Null
    /\ Begin(t, i, FALSE, msg_sub_heads_list[i], "test")
    /\ UNCHANGED <<memory, fate, walker, quiet>>

\* Mutant: the new node's next is the list's head.
AttachLinkBack(t) ==
    /\ apc[t] = "link"
    /\ \E n \in Node :
          /\ Allocate(n, List(t))
          /\ next' = [next EXCEPT ![target[t].node] = n,
                                  ![n] = msg_sub_heads_list[List(t)]]
    /\ GoOn(t, "relink", target[t].node) /\ NoteRace(t, Races(t)) /\ quiet' = FALSE
    /\ UNCHANGED <<msg_sub_heads_list, returned, displaced, walker>>

\* Mutant: the new node is linked behind the head, whatever was there.
AttachLinkAtHead(t) ==
    /\ apc[t] = "link"
    /\ \E n \in Node, junk \in {Null, Junk} :
          /\ Allocate(n, List(t))
          /\ next' = [next EXCEPT ![msg_sub_heads_list[List(t)]] = n, ![n] = junk]
    /\ GoOn(t, "relink", target[t].node) /\ NoteRace(t, Races(t)) /\ quiet' = FALSE
    /\ UNCHANGED <<msg_sub_heads_list, returned, displaced, walker>>

\* The new node is in the list before its fields are set.
AttachLink(t) ==
    /\ apc[t] = "link"
    /\ \E n \in Node, junk \in {Null, Junk} :
          /\ Allocate(n, List(t))
          /\ next' = [next EXCEPT ![target[t].node] = n, ![n] = junk]
    /\ GoOn(t, "relink", target[t].node) /\ NoteRace(t, Races(t)) /\ quiet' = FALSE
    /\ UNCHANGED <<msg_sub_heads_list, returned, displaced, walker>>

AttachRelink(t) ==
    /\ apc[t] = "relink"
    /\ GoOn(t, "end", next[target[t].node])
    /\ UNCHANGED <<memory, fate, walker, quiet>>

\* Mutant: the end of the list is not set.
AttachEndOpen(t) ==
    /\ apc[t] = "end" /\ target[t].node \in Node
    /\ GoOn(t, "fill", target[t].node) /\ NoteRace(t, Races(t)) /\ quiet' = FALSE
    /\ UNCHANGED <<memory, returned, displaced, walker>>

AttachEnd(t) ==
    /\ apc[t] = "end" /\ target[t].node \in Node
    /\ next' = [next EXCEPT ![target[t].node] = Null]
    /\ GoOn(t, "fill", target[t].node) /\ NoteRace(t, Races(t)) /\ quiet' = FALSE
    /\ UNCHANGED <<msg_sub_heads_list, sub_cb, used, owner, returned, displaced, walker>>

\* Mutant: the end of the list is set last.
AttachFillEnds(t) ==
    /\ apc[t] = "fill"
    /\ next' = [next EXCEPT ![target[t].node] = Null]
    /\ sub_cb' = [sub_cb EXCEPT ![target[t].node] = target[t].cb]
    /\ NoteRace(t, sub_cb[target[t].node] \in Callback)
    /\ Return(t) /\ quiet' = FALSE
    /\ UNCHANGED <<msg_sub_heads_list, used, owner, displaced, walker>>

\* A callback that is there already is that of a racing attachment.
AttachFill(t) ==
    /\ apc[t] = "fill"
    /\ sub_cb' = [sub_cb EXCEPT ![target[t].node] = target[t].cb]
    /\ NoteRace(t, sub_cb[target[t].node] \in Callback)
    /\ Return(t) /\ quiet' = FALSE
    /\ UNCHANGED <<msg_sub_heads_list, next, used, owner, displaced, walker>>

Attach(t) ==
    \/ \E i \in Ids : AttachIpcBegin(t, i) \/ AttachLost(t, i) \/ AttachBegin(t, i)
    \/ AttachIpcMalloc(t) \/ AttachIpcHead(t) \/ AttachTest(t) \/ AttachMove(t)
    \/ AttachIpcSet(t) \/ AttachLink(t) \/ AttachRelink(t) \/ AttachEnd(t) \/ AttachFill(t)

-----------------------------------------------------------------------------
(* The walk of _ipc_run_all_sub_cb                                         *)

\* A message of id i; the copy of the list is its head.
WalkStart(i) ==
    /\ wpc = "idle" /\ walks < MaxWalks
    /\ walks' = walks + 1 /\ walk_id' = i
    /\ node' = msg_sub_heads_list[i] /\ wpc' = "visit"
    /\ visited' = <<>> /\ quiet' = TRUE
    /\ UNCHANGED <<memory, attacher, fate>>

\* A node whose callback is not set is passed over.
WalkVisit ==
    /\ wpc = "visit" /\ node \in Node
    /\ sub_cb[node] # JunkCallback
    /\ visited' = IF sub_cb[node] = NoCallback THEN visited ELSE Append(visited, node)
    /\ wpc' = "advance"
    /\ UNCHANGED <<memory, attacher, fate, node, walk_id, walks, quiet>>

\* Mutant: the second node of each pair is passed over.
WalkAdvanceTwice ==
    /\ wpc = "advance"
    /\ node' = IF next[node] \in Node THEN next[next[node]] ELSE next[node]
    /\ wpc' = "visit"
    /\ UNCHANGED <<memory, attacher, fate, walk_id, walks, visited, quiet>>

WalkAdvance ==
    /\ wpc = "advance"
    /\ node' = next[node] /\ wpc' = "visit"
    /\ UNCHANGED <<memory, attacher, fate, walk_id, walks, visited, quiet>>

WalkEnd ==
    /\ wpc = "visit" /\ node = Null
    /\ wpc' = "idle"
    /\ UNCHANGED <<memory, attacher, fate, node, walk_id, walks, visited, quiet>>

Walk == (\E i \in Ids : WalkStart(i)) \/ WalkVisit \/ WalkAdvance \/ WalkEnd

RegistryNext == (\E t \in Attachers : Attach(t)) \/ Walk

RegistrySpec == RegistryInit /\ [][RegistryNext]_rvars

-----------------------------------------------------------------------------
(* Properties                                                              *)

\* The node that thread t has put into a list and is about to set, or that it
\* has found there and is about to give its callback.
UnderWay(t) == {n \in Node :
    \/ apc[t] = "reread" /\ n = msg_sub_heads_list[List(t)]
    \/ apc[t] = "relink" /\ n = next[target[t].node]
    \/ apc[t] \in {"set", "end", "fill"} /\ n = target[t].node}

InProgress == {n \in Node : \E t \in Attachers : n \in UnderWay(t)}

\* The registry's variables have their types, and no interleaving of
\* attachments closes a list into a ring, in which a walk would never end: a
\* node is never behind itself, nor in front of one allocated before it.
RegistryTypeOK ==
    /\ msg_sub_heads_list \in [Ids -> {Null} \cup Node]
    /\ next \in [Node -> {Null, Junk} \cup Node]
    /\ sub_cb \in [Node -> Callback \cup {NoCallback, JunkCallback}]
    /\ used \in 0..MaxNodes
    /\ \A n \in Node : n \notin Behind(n) /\ (next[n] \in Node => n < next[n])

\* Only two things leave junk where a walk can find it: an attachment that
\* is under way, and the open end of a head that _ipc_attach_ipc_cb made.
JunkIsHeadOrInProgress ==
    \A i \in Ids : \A n \in InList(i) \ InProgress :
        /\ sub_cb[n] \in Callback
        /\ next[n] = Junk => n = msg_sub_heads_list[i]

\* A walk during which nobody attached has run every callback of its list,
\* once and in the order of the list.
QuietWalkRunsAll ==
    wpc = "visit" /\ node = Null /\ quiet =>
        /\ {visited[k] : k \in DOMAIN visited} =
               {n \in InList(walk_id) : sub_cb[n] # NoCallback}
        /\ \A j, k \in DOMAIN visited : j < k => visited[k] \in Behind(visited[j])

\* A node leaves its list only by the store of an attachment to that list
\* that races with another: two found the list empty and the second head
\* replaces the first; two found the same last node and the second links
\* over the first; or one sets the end of its new node after another linked
\* behind it.
OnlyRaceLoses ==
    [][\A i \in Ids : \A n \in InList(i) :
          n \notin InList(i)' =>
              \E t \in Attachers : Races(t) /\ List(t) = i /\ apc'[t] # apc[t]]_rvars

\* A callback whose attachment returned is in its list for good, with three
\* exceptions: the first of a list that _ipc_attach_cb attached, one in
\* whose node a later _ipc_attach_ipc_cb stored instead of appending, and
\* those of a list in which attachments raced.
OnlyKnownLosses ==
    \A c \in returned \ displaced :
        c.id \in contested \/ \E n \in InList(c.id) : sub_cb[n] = c

=============================================================================
