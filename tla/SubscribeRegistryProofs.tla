------------------------ MODULE SubscribeRegistryProofs -----------------------
(***************************************************************************)
(* The subscribers' lists, for any number of lists, threads and nodes: no  *)
(* ring, junk only where an attachment left it, nodes and callbacks lost   *)
(* only in the ways that are named, and a quiet walk that runs every       *)
(* callback.                                                               *)
(***************************************************************************)
EXTENDS SubscribeRegistry, TLAPS

\* What a node or a place is stands in every proof below.
USE RegistryAssumption DEF Node, Place, Null, Junk

Heads == {msg_sub_heads_list[i] : i \in Ids}
Linked(n) == n \in Heads \/ \E m \in Node : next[m] = n

\* Labels with a node in hand, and those where it may still be none.
AtNode == {"move", "set", "link", "relink", "fill"}
AtPlace == {"test", "end"} \cup AtNode
Label == {"idle", "malloc", "reread", "head"} \cup AtPlace

MemoryTypeOK ==
    /\ msg_sub_heads_list \in [Ids -> {Null} \cup Node]
    /\ next \in [Node -> Place]
    /\ sub_cb \in [Node -> Callback \cup {NoCallback, JunkCallback}]
    /\ used \in 0..MaxNodes
    /\ owner \in [Node -> Ids \cup {-1}]
    /\ apc \in [Attachers -> Label]
    /\ target \in [Attachers -> [node : Place, cb : Callback \cup {NoCallback}, ipc : BOOLEAN]]
    /\ attached \in 0..MaxAttach

\* Lists are made of allocated nodes, each in front of later ones and behind
\* one at most, and a head is behind nothing.
ListsAscend ==
    /\ \A n \in Node : next[n] \in Node => n < next[n] /\ next[n] <= used
    /\ \A n \in Node : n > used => next[n] = Null
    /\ \A i \in Ids : /\ msg_sub_heads_list[i] <= used
                      /\ \A m \in Node : next[m] # Null => next[m] # msg_sub_heads_list[i]
    /\ \A m, n \in Node : next[m] \in Node /\ next[m] = next[n] => m = n

\* A node stays with the list it was allocated for.
OwnersKept ==
    /\ \A i \in Ids : msg_sub_heads_list[i] \in Node => owner[msg_sub_heads_list[i]] = i
    /\ \A n \in Node : next[n] \in Node => owner[next[n]] = owner[n]

Aimed(t) ==
    /\ apc[t] # "idle" => target[t].cb \in Callback
    /\ apc[t] \in {"reread", "head"} => msg_sub_heads_list[List(t)] \in Node
    /\ apc[t] \in AtNode => target[t].node \in Node
    /\ apc[t] \in AtPlace /\ target[t].node \in Node =>
          target[t].node <= used /\ owner[target[t].node] = List(t)
AimedAtNode == \A t \in Attachers : Aimed(t)

\* The node in which thread t has still to set the end of the list.
Ending(t) == {n \in Node :
    \/ apc[t] = "relink" /\ n = next[target[t].node]
    \/ apc[t] = "end" /\ n = target[t].node}

JunkIsKnown ==
    \A n \in Node : Linked(n) =>
       /\ sub_cb[n] \in Callback \/ n \in InProgress
       /\ next[n] = Junk => n \in Heads \/ \E t \in Attachers : n \in Ending(t)

MemoryInv == MemoryTypeOK /\ ListsAscend /\ OwnersKept /\ AimedAtNode /\ JunkIsKnown

-----------------------------------------------------------------------------
(* Lists                                                                   *)

\* A list begins with its first node and goes on with what is behind it.
LEMMA FromNode ==
  ASSUME next \in [Node -> Place], NEW n \in Node
  PROVE  From(n) = {n} \cup Behind(n)
<1>1. n \in From(n)
  BY DEF From
<1>2. ASSUME NEW m \in Behind(n) PROVE m \in From(n)
  <2> SUFFICES ASSUME NEW S \in SUBSET Place, n \in S, Closed(S) PROVE m \in S
    BY DEF From, Behind
  <2>1. next[n] \in S
    BY DEF Closed
  <2> QED
    BY <2>1 DEF From, Behind
<1>3. ASSUME NEW m \in From(n), m # n PROVE m \in Behind(n)
  <2> SUFFICES ASSUME NEW S \in SUBSET Place, next[n] \in S, Closed(S) PROVE m \in S
    BY DEF From, Behind
  <2>1. Closed(S \cup {n}) /\ S \cup {n} \in SUBSET Place
    BY DEF Closed
  <2>2. m \in S \cup {n}
    BY <2>1 DEF From
  <2> QED
    BY <1>3, <2>2
<1> QED
  BY <1>1, <1>2, <1>3

\* Behind the end of a list there is nothing.
LEMMA FromEnd ==
  ASSUME NEW n \in {Null, Junk}
  PROVE  From(n) = {}
<1>1. {n} \in SUBSET Place /\ Closed({n})
  BY DEF Closed
<1> QED
  BY <1>1 DEF From

\* Whoever is in a list has what is behind it in the list.
LEMMA FromIsClosed ==
  ASSUME next \in [Node -> Place], NEW a \in Place, NEW n \in From(a)
  PROVE  From(n) \subseteq From(a) /\ Behind(n) \subseteq From(a)
<1>1. ASSUME NEW m \in From(n) PROVE m \in From(a)
  <2> SUFFICES ASSUME NEW S \in SUBSET Place, a \in S, Closed(S) PROVE m \in S
    BY DEF From
  <2>1. n \in S
    BY DEF From
  <2> QED
    BY <2>1 DEF From
<1>2. n \in Node
  BY DEF From
<1> QED
  BY <1>1, <1>2, FromNode

\* What is behind a node was allocated after it.
LEMMA BehindIsLater ==
  ASSUME MemoryTypeOK, ListsAscend, NEW n \in Node, NEW m \in Behind(n)
  PROVE  n < m /\ m <= used
<1> DEFINE S == {k \in Node : n < k /\ k <= used} \cup {Null, Junk}
<1>1. Closed(S) /\ S \in SUBSET Place
  BY DEF Closed, ListsAscend, MemoryTypeOK
<1>2. next[n] \in S
  BY DEF ListsAscend, MemoryTypeOK
<1>3. m \in Node /\ m \in S
  BY <1>1, <1>2 DEF Behind, From
<1> QED
  BY <1>3

\* The nodes of a list are its head and nodes behind others.
LEMMA ListedIsLinked ==
  ASSUME MemoryTypeOK, NEW i \in Ids, NEW n \in InList(i)
  PROVE  n \in Node /\ (n = msg_sub_heads_list[i] \/ \E m \in Node : next[m] = n)
<1> DEFINE S == {k \in Node : k = msg_sub_heads_list[i] \/ \E m \in Node : next[m] = k}
                   \cup {Null, Junk}
<1>1. Closed(S) /\ S \in SUBSET Place /\ msg_sub_heads_list[i] \in S
  BY DEF Closed, MemoryTypeOK
<1>2. n \in Node /\ n \in S
  BY <1>1 DEF InList, From
<1> QED
  BY <1>2

\* A list is made of allocated nodes, all of them its own.
LEMMA ListedIsOwned ==
  ASSUME MemoryTypeOK, ListsAscend, OwnersKept, NEW i \in Ids, NEW n \in InList(i)
  PROVE  n \in Node /\ n <= used /\ owner[n] = i
<1> DEFINE S == {k \in Node : owner[k] = i /\ k <= used} \cup {Null, Junk}
<1>1. Closed(S) /\ S \in SUBSET Place /\ msg_sub_heads_list[i] \in S
  BY DEF Closed, MemoryTypeOK, OwnersKept, ListsAscend
<1>2. n \in Node /\ n \in S
  BY <1>1 DEF InList, From
<1> QED
  BY <1>2

\* Links that stay keep every node in its list.
LEMMA KeptLinksKeepLists ==
  ASSUME MemoryTypeOK, NEW i \in Ids,
         msg_sub_heads_list[i] # Null => msg_sub_heads_list'[i] = msg_sub_heads_list[i],
         \A m \in InList(i) : next[m] \in Node => next'[m] = next[m]
  PROVE  InList(i) \subseteq InList(i)'
<1> DEFINE head == msg_sub_heads_list[i]
<1> SUFFICES ASSUME NEW n \in InList(i), NEW T \in SUBSET Place,
                    msg_sub_heads_list'[i] \in T, Closed(T)'
             PROVE  n \in T
  BY DEF InList, From
<1>1. head \in Node /\ n \in From(head)
  BY FromEnd DEF InList, MemoryTypeOK
<1> DEFINE S == (T \cap From(head)) \cup {Null, Junk}
<1>2. S \in SUBSET Place
  OBVIOUS
<1>3. head \in S
  BY <1>1, FromNode DEF MemoryTypeOK
<1>4. ASSUME NEW m \in S \cap Node PROVE next[m] \in S
  <2>1. m \in T /\ m \in From(head)
    BY <1>4
  <2>2. CASE next[m] \in Node
    <3>1. next[m] \in T
      BY <2>1, <2>2 DEF Closed, InList
    <3>2. next[m] \in From(head)
      <4>1. next[m] \in Behind(m)
        BY <2>2, FromNode DEF Behind, MemoryTypeOK
      <4> QED
        BY <1>1, <2>1, <4>1, FromIsClosed DEF MemoryTypeOK
    <3> QED
      BY <3>1, <3>2
  <2>3. CASE next[m] \notin Node
    BY <2>3 DEF MemoryTypeOK
  <2> QED
    BY <2>2, <2>3
<1>5. Closed(S)
  BY <1>4 DEF Closed
<1> HIDE DEF S
<1>6. n \in S
  BY <1>1, <1>2, <1>3, <1>5 DEF From
<1> QED
  BY <1>1, <1>6 DEF S, From

\* A list begins with its head.
LEMMA HeadInList ==
  ASSUME MemoryTypeOK, NEW i \in Ids, msg_sub_heads_list[i] \in Node
  PROVE  msg_sub_heads_list[i] \in InList(i)
BY FromNode DEF InList, MemoryTypeOK

\* What a listed node links to is listed.
LEMMA NextInList ==
  ASSUME MemoryTypeOK, NEW i \in Ids, NEW n \in InList(i), next[n] \in Node
  PROVE  next[n] \in InList(i)
<1>1. n \in Node /\ msg_sub_heads_list[i] \in Place
  BY DEF InList, From, MemoryTypeOK
<1>2. next[n] \in Behind(n)
  BY <1>1, FromNode DEF Behind, MemoryTypeOK
<1> QED
  BY <1>1, <1>2, FromIsClosed DEF InList, MemoryTypeOK

-----------------------------------------------------------------------------
(* The memory: attachments keep the invariant                              *)

\* The next node malloc returns is in no list yet, and nobody aims at it.
LEMMA FreshNode ==
  ASSUME MemoryInv, NEW n \in Node, n = used + 1
  PROVE  /\ next[n] = Null /\ ~ Linked(n)
         /\ \A i \in Ids : msg_sub_heads_list[i] # n
         /\ \A t \in Attachers : apc[t] \in AtPlace => target[t].node # n
<1>1. next[n] = Null /\ \A m \in Node : next[m] # n
  BY DEF MemoryInv, MemoryTypeOK, ListsAscend
<1>2. ASSUME NEW i \in Ids PROVE msg_sub_heads_list[i] # n
  <2>1. msg_sub_heads_list[i] <= used /\ used \in Nat
    BY DEF MemoryInv, MemoryTypeOK, ListsAscend
  <2> QED
    BY <2>1
<1>3. ASSUME NEW t \in Attachers, apc[t] \in AtPlace, target[t].node = n PROVE FALSE
  <2>1. target[t].node <= used /\ used \in Nat
    BY <1>3 DEF MemoryInv, MemoryTypeOK, AimedAtNode, Aimed
  <2> QED
    BY <1>3, <2>1
<1> QED
  BY <1>1, <1>2, <1>3 DEF Linked, Heads

\* What a thread does to its label and its node alone.
LEMMA LocalStep ==
  ASSUME MemoryInv, NEW t \in Attachers, UNCHANGED memory,
         NEW l \in Label, NEW r \in [node : Place, cb : Callback \cup {NoCallback}, ipc : BOOLEAN],
         apc' = [apc EXCEPT ![t] = l], target' = [target EXCEPT ![t] = r],
         attached' \in 0..MaxAttach, Aimed(t)',
         UnderWay(t) \subseteq UnderWay(t)', Ending(t) \subseteq Ending(t)'
  PROVE  MemoryInv'
<1>1. UNCHANGED <<msg_sub_heads_list, next, sub_cb, used, owner>>
  BY DEF memory
<1>2. MemoryTypeOK'
  BY <1>1 DEF MemoryInv, MemoryTypeOK
<1>3. ListsAscend' /\ OwnersKept'
  BY <1>1 DEF MemoryInv, ListsAscend, OwnersKept
<1>4. \A u \in Attachers \ {t} : apc'[u] = apc[u] /\ target'[u] = target[u]
  BY DEF MemoryInv, MemoryTypeOK
<1>5. AimedAtNode'
  <2> SUFFICES ASSUME NEW u \in Attachers, u # t PROVE Aimed(u)'
    BY DEF AimedAtNode
  <2> QED
    BY <1>1, <1>4 DEF MemoryInv, AimedAtNode, Aimed, List
<1>6. ASSUME NEW u \in Attachers
      PROVE  UnderWay(u) \subseteq UnderWay(u)' /\ Ending(u) \subseteq Ending(u)'
  BY <1>1, <1>4 DEF UnderWay, Ending, List
<1>7. JunkIsKnown'
  <2> SUFFICES ASSUME NEW n \in Node, Linked(n)'
               PROVE  /\ sub_cb'[n] \in Callback \/ n \in InProgress'
                      /\ next'[n] = Junk =>
                            n \in Heads' \/ \E u \in Attachers : n \in Ending(u)'
    BY DEF JunkIsKnown
  <2>1. Linked(n) /\ Heads' = Heads
    BY <1>1 DEF Linked, Heads
  <2>2. ASSUME n \in InProgress PROVE n \in InProgress'
    <3>1. PICK u \in Attachers : n \in UnderWay(u)
      BY <2>2 DEF InProgress
    <3>2. n \in UnderWay(u)'
      BY <1>6, <3>1
    <3> QED
      BY <3>2 DEF InProgress
  <2>3. ASSUME next[n] = Junk, n \notin Heads PROVE \E u \in Attachers : n \in Ending(u)'
    <3>1. PICK u \in Attachers : n \in Ending(u)
      BY <2>1, <2>3 DEF MemoryInv, JunkIsKnown
    <3> QED
      BY <1>6, <3>1
  <2> QED
    BY <1>1, <2>1, <2>2, <2>3 DEF MemoryInv, JunkIsKnown
<1> QED
  BY <1>2, <1>3, <1>5, <1>7 DEF MemoryInv

\* A thread that goes on at label l with node n, which is of its list.
LEMMA GoOnKeeps ==
  ASSUME MemoryInv, NEW t \in Attachers, NEW l \in Label, NEW n \in Place,
         GoOn(t, l, n), UNCHANGED memory, apc[t] # "idle",
         l \in AtNode => n \in Node, l \notin {"reread", "head"},
         l \in AtPlace /\ n \in Node => n <= used /\ owner[n] = List(t),
         \A m \in Node : m \in UnderWay(t) => l \in {"set", "end", "fill"} /\ n = m,
         \A m \in Node : m \in Ending(t) => l = "end" /\ n = m
  PROVE  MemoryInv'
<1>0. /\ MemoryTypeOK /\ Aimed(t)
      /\ target[t] \in [node : Place, cb : Callback \cup {NoCallback}, ipc : BOOLEAN]
      /\ apc' = [apc EXCEPT ![t] = l] /\ target' = [target EXCEPT ![t].node = n]
      /\ UNCHANGED <<attached, msg_sub_heads_list, next, sub_cb, used, owner>>
  BY DEF MemoryInv, AimedAtNode, MemoryTypeOK, GoOn, memory
<1> DEFINE r == [target[t] EXCEPT !.node = n]
<1>1. /\ target' = [target EXCEPT ![t] = r]
      /\ r \in [node : Place, cb : Callback \cup {NoCallback}, ipc : BOOLEAN]
      /\ target'[t] = r /\ r.node = n /\ r.cb = target[t].cb /\ apc'[t] = l
  BY <1>0 DEF MemoryTypeOK
<1> HIDE DEF r
<1>2. Aimed(t)'
  BY <1>0, <1>1 DEF Aimed, List
<1>3. UnderWay(t) \subseteq UnderWay(t)' /\ Ending(t) \subseteq Ending(t)'
  BY <1>1 DEF UnderWay, Ending
<1>4. attached' \in 0..MaxAttach
  BY <1>0 DEF MemoryTypeOK
<1> QED
  BY <1>0, <1>1, <1>2, <1>3, <1>4, LocalStep

\* A call begins: its thread aims at nothing, or at the head of its list.
LEMMA BeginKeeps ==
  ASSUME MemoryInv, NEW t \in Attachers, NEW i \in Ids,
         AttachIpcBegin(t, i) \/ AttachBegin(t, i)
  PROVE  MemoryInv'
<1> USE DEF Label, AtPlace, AtNode
<1>1. PICK l \in {"malloc", "head", "test"}, n \in Place, ipc \in BOOLEAN :
        /\ Begin(t, i, ipc, n, l) /\ UNCHANGED memory
        /\ l = "head" => msg_sub_heads_list[i] # Null
        /\ l = "test" => n = msg_sub_heads_list[i]
  BY DEF AttachIpcBegin, AttachBegin, MemoryInv, MemoryTypeOK
<1> DEFINE cb == [id |-> i, n |-> attached + 1]
           r == [node |-> n, cb |-> cb, ipc |-> ipc]
<1>2. attached + 1 \in 1..MaxAttach
  BY <1>1 DEF Begin, MemoryInv, MemoryTypeOK
<1>3. cb \in Callback /\ cb.id = i
  BY <1>2 DEF Callback
<1>4. /\ apc[t] = "idle" /\ apc' = [apc EXCEPT ![t] = l] /\ attached' \in 0..MaxAttach
      /\ target' = [target EXCEPT ![t] = r]
      /\ UNCHANGED <<msg_sub_heads_list, next, sub_cb, used, owner>>
  BY <1>1, <1>2 DEF Begin, memory
<1> HIDE DEF cb
<1>5. /\ r \in [node : Place, cb : Callback \cup {NoCallback}, ipc : BOOLEAN]
      /\ r.cb = cb /\ r.node = n
  BY <1>3
<1> HIDE DEF r
<1>6. target'[t] = r /\ apc'[t] = l
  BY <1>4 DEF MemoryInv, MemoryTypeOK
<1>7. Aimed(t)'
  BY <1>1, <1>3, <1>4, <1>5, <1>6
     DEF Aimed, List, MemoryInv, MemoryTypeOK, ListsAscend, OwnersKept
<1>8. UnderWay(t) = {} /\ Ending(t) = {}
  BY <1>4 DEF UnderWay, Ending
<1>9. l \in Label
  OBVIOUS
<1> QED
  BY <1>1, <1>4, <1>5, <1>7, <1>8, <1>9, LocalStep

\* The other ways a thread goes on without a store.
LEMMA LocalStepsKeep ==
  ASSUME MemoryInv, NEW t \in Attachers,
         AttachIpcHead(t) \/ AttachTest(t) \/ AttachMove(t) \/ AttachRelink(t)
  PROVE  MemoryInv'
<1> USE DEF Label, AtPlace, AtNode
<1>0. MemoryTypeOK /\ Aimed(t) /\ ListsAscend /\ OwnersKept
  BY DEF MemoryInv, AimedAtNode
<1>1. CASE AttachIpcHead(t)
  <2> DEFINE n == msg_sub_heads_list[List(t)]
             l == IF apc[t] = "reread" THEN "set" ELSE "test"
  <2>1. n \in Node /\ n <= used /\ owner[n] = List(t)
    BY <1>0, <1>1 DEF AttachIpcHead, Aimed, List, Callback, OwnersKept, ListsAscend
  <2>2. apc[t] \in {"reread", "head"} /\ GoOn(t, l, n) /\ UNCHANGED memory /\ l \in {"set", "test"}
    BY <1>1 DEF AttachIpcHead
  <2>3. \A m \in Node : m \in UnderWay(t) => l = "set" /\ n = m
    BY <2>2 DEF UnderWay
  <2>4. \A m \in Node : m \notin Ending(t)
    BY <2>2 DEF Ending
  <2> HIDE DEF n, l
  <2> QED
    BY <2>1, <2>2, <2>3, <2>4, GoOnKeeps
<1>2. CASE AttachTest(t)
  <2> DEFINE n == target[t].node
             l == IF next[n] # Null THEN "move" ELSE IF target[t].ipc THEN "set" ELSE "link"
  <2>1. apc[t] = "test" /\ n \in Node /\ GoOn(t, l, n) /\ UNCHANGED memory
        /\ l \in {"move", "set", "link"}
    BY <1>2 DEF AttachTest
  <2>2. n <= used /\ owner[n] = List(t)
    BY <1>0, <2>1 DEF Aimed
  <2>3. \A m \in Node : m \notin UnderWay(t) /\ m \notin Ending(t)
    BY <2>1 DEF UnderWay, Ending
  <2> HIDE DEF n, l
  <2> QED
    BY <2>1, <2>2, <2>3, GoOnKeeps
<1>3. CASE AttachMove(t) \/ AttachRelink(t)
  <2> DEFINE n == next[target[t].node]
             l == IF apc[t] = "move" THEN "test" ELSE "end"
  <2>1. apc[t] \in {"move", "relink"} /\ GoOn(t, l, n) /\ UNCHANGED memory
        /\ l \in {"test", "end"}
    BY <1>3 DEF AttachMove, AttachRelink
  <2>2. n \in Place /\ (n \in Node => n <= used /\ owner[n] = List(t))
    BY <1>0, <2>1 DEF Aimed, MemoryTypeOK, ListsAscend, OwnersKept
  <2>3. \A m \in Node : m \in UnderWay(t) \/ m \in Ending(t) => l = "end" /\ n = m
    BY <2>1 DEF UnderWay, Ending
  <2> HIDE DEF n, l
  <2> QED
    BY <2>1, <2>2, <2>3, GoOnKeeps
<1> QED
  BY <1>1, <1>2, <1>3

\* A store that leaves links, heads and what a thread aims at alone.
LEMMA CallbackStored ==
  ASSUME MemoryInv, NEW t \in Attachers, NEW n \in Node, NEW c \in Callback,
         sub_cb' = [sub_cb EXCEPT ![n] = c], UnderWay(t) = {n}, Ending(t) = {},
         apc' = [apc EXCEPT ![t] = "idle"], target' = [target EXCEPT ![t] = Resting],
         UNCHANGED <<msg_sub_heads_list, next, used, owner, attached>>
  PROVE  MemoryInv'
<1> USE DEF Label, AtPlace, AtNode
<1>1. MemoryTypeOK'
  BY DEF MemoryInv, MemoryTypeOK, Resting
<1>2. ListsAscend' /\ OwnersKept'
  BY DEF MemoryInv, ListsAscend, OwnersKept
<1>3. /\ apc'[t] = "idle"
      /\ \A u \in Attachers \ {t} : apc'[u] = apc[u] /\ target'[u] = target[u]
  BY DEF MemoryInv, MemoryTypeOK
<1>4. AimedAtNode'
  <2> SUFFICES ASSUME NEW u \in Attachers PROVE Aimed(u)'
    BY DEF AimedAtNode
  <2>1. CASE u = t
    BY <1>3, <2>1 DEF Aimed
  <2>2. CASE u # t
    BY <1>3, <2>2 DEF MemoryInv, AimedAtNode, Aimed, List
  <2> QED
    BY <2>1, <2>2
<1>5. ASSUME NEW u \in Attachers, u # t PROVE UnderWay(u)' = UnderWay(u) /\ Ending(u)' = Ending(u)
  BY <1>3, <1>5 DEF UnderWay, Ending, List
<1>6. JunkIsKnown'
  <2> SUFFICES ASSUME NEW m \in Node, Linked(m)'
               PROVE  /\ sub_cb'[m] \in Callback \/ m \in InProgress'
                      /\ next'[m] = Junk =>
                            m \in Heads' \/ \E u \in Attachers : m \in Ending(u)'
    BY DEF JunkIsKnown
  <2>1. Linked(m) /\ Heads' = Heads
    BY DEF Linked, Heads
  <2>2. ASSUME m # n, m \in InProgress PROVE m \in InProgress'
    <3>1. PICK u \in Attachers : m \in UnderWay(u)
      BY <2>2 DEF InProgress
    <3>2. m \in UnderWay(u)'
      BY <1>5, <2>2, <3>1
    <3> QED
      BY <3>2 DEF InProgress
  <2>3. /\ sub_cb'[n] = c /\ \A k \in Node \ {n} : sub_cb'[k] = sub_cb[k]
    BY DEF MemoryInv, MemoryTypeOK
  <2>4. ASSUME next[m] = Junk, m \notin Heads PROVE \E u \in Attachers : m \in Ending(u)'
    <3>1. PICK u \in Attachers : m \in Ending(u)
      BY <2>1, <2>4 DEF MemoryInv, JunkIsKnown
    <3> QED
      BY <1>5, <3>1
  <2> QED
    BY <2>1, <2>2, <2>3, <2>4 DEF MemoryInv, JunkIsKnown
<1> QED
  BY <1>1, <1>2, <1>4, <1>6 DEF MemoryInv

LEMMA AttachIpcSetKeeps ==
  ASSUME MemoryInv, NEW t \in Attachers, AttachIpcSet(t) \/ AttachFill(t)
  PROVE  MemoryInv'
<1>1. /\ apc[t] \in {"set", "fill"}
      /\ sub_cb' = [sub_cb EXCEPT ![target[t].node] = target[t].cb]
      /\ apc' = [apc EXCEPT ![t] = "idle"] /\ target' = [target EXCEPT ![t] = Resting]
      /\ UNCHANGED <<msg_sub_heads_list, next, used, owner, attached>>
  BY DEF AttachIpcSet, AttachFill, Return
<1>2. target[t].node \in Node /\ target[t].cb \in Callback
  BY <1>1 DEF MemoryInv, AimedAtNode, Aimed, AtNode
<1>3. UnderWay(t) = {target[t].node} /\ Ending(t) = {}
  BY <1>1, <1>2 DEF UnderWay, Ending
<1> QED
  BY <1>1, <1>2, <1>3, CallbackStored

\* A node that is linked to no list costs a number.
LEMMA AttachLostKeeps ==
  ASSUME MemoryInv, NEW t \in Attachers, NEW i \in Ids, AttachLost(t, i)
  PROVE  MemoryInv'
<1>1. /\ used < MaxNodes /\ used' = used + 1
      /\ attached < MaxAttach /\ attached' = attached + 1
      /\ UNCHANGED <<msg_sub_heads_list, next, sub_cb, owner, apc, target>>
  BY DEF AttachLost
<1>2. MemoryTypeOK'
  BY <1>1 DEF MemoryInv, MemoryTypeOK
<1>3. ListsAscend'
  <2>1. used \in Nat /\ \A j \in Ids : msg_sub_heads_list[j] \in Nat
    BY DEF MemoryInv, MemoryTypeOK
  <2>2. \A n \in Node : next[n] \in Node => n < next[n] /\ next[n] <= used + 1
    BY <2>1 DEF MemoryInv, ListsAscend
  <2>3. \A n \in Node : n > used + 1 => next[n] = Null
    BY <2>1 DEF MemoryInv, ListsAscend
  <2>4. ASSUME NEW j \in Ids PROVE msg_sub_heads_list[j] <= used + 1
    <3>1. msg_sub_heads_list[j] <= used /\ msg_sub_heads_list[j] \in Nat
      BY <2>1 DEF MemoryInv, ListsAscend
    <3> QED
      BY <2>1, <3>1
  <2> QED
    BY <1>1, <2>2, <2>3, <2>4 DEF MemoryInv, ListsAscend
<1>6. OwnersKept'
  BY <1>1 DEF MemoryInv, OwnersKept
<1>4. AimedAtNode'
  <2> SUFFICES ASSUME NEW u \in Attachers PROVE Aimed(u)'
    BY DEF AimedAtNode
  <2> QED
    BY <1>1 DEF MemoryInv, MemoryTypeOK, AimedAtNode, Aimed, List
<1>5. JunkIsKnown'
  <2>1. /\ InProgress' = InProgress /\ Heads' = Heads
        /\ \A u \in Attachers : Ending(u)' = Ending(u)
        /\ \A m \in Node : Linked(m)' => Linked(m)
    BY <1>1 DEF InProgress, UnderWay, List, Heads, Ending, Linked
  <2> QED
    BY <1>1, <2>1 DEF MemoryInv, JunkIsKnown
<1> QED
  BY <1>2, <1>3, <1>4, <1>5, <1>6 DEF MemoryInv

\* What thread t goes on with when a store lets it go on.
LEMMA GoOnType ==
  ASSUME MemoryInv, NEW t \in Attachers, NEW l \in Label, NEW n \in Place, GoOn(t, l, n),
         apc[t] # "idle"
  PROVE  /\ apc' \in [Attachers -> Label] /\ apc'[t] = l
         /\ target' \in [Attachers -> [node : Place, cb : Callback \cup {NoCallback}, ipc : BOOLEAN]]
         /\ target'[t].node = n /\ target'[t].cb = target[t].cb /\ target[t].cb \in Callback
         /\ attached' = attached
         /\ \A u \in Attachers \ {t} : apc'[u] = apc[u] /\ target'[u] = target[u]
<1>1. /\ apc \in [Attachers -> Label]
      /\ target \in [Attachers -> [node : Place, cb : Callback \cup {NoCallback}, ipc : BOOLEAN]]
      /\ target[t].cb \in Callback
  BY DEF MemoryInv, MemoryTypeOK, AimedAtNode, Aimed
<1>2. /\ apc' = [apc EXCEPT ![t] = l] /\ target' = [target EXCEPT ![t].node = n]
      /\ attached' = attached
  BY DEF GoOn
<1> QED
  BY <1>1, <1>2

LEMMA AttachIpcMallocKeeps ==
  ASSUME MemoryInv, NEW t \in Attachers, AttachIpcMalloc(t)
  PROVE  MemoryInv'
<1> USE DEF Label, AtPlace, AtNode
<1> DEFINE i == List(t)
<1>0. MemoryTypeOK /\ ListsAscend /\ OwnersKept /\ JunkIsKnown
  BY DEF MemoryInv
<1>1. PICK n \in Node, junk \in {Null, Junk} :
        /\ n = used + 1 /\ used' = n /\ owner' = [owner EXCEPT ![n] = i]
        /\ \E c \in {NoCallback, JunkCallback} : sub_cb' = [sub_cb EXCEPT ![n] = c]
        /\ next' = [next EXCEPT ![n] = junk]
        /\ msg_sub_heads_list' = [msg_sub_heads_list EXCEPT ![i] = n]
  BY DEF AttachIpcMalloc, Allocate
<1>2. apc[t] = "malloc" /\ GoOn(t, "reread", Null)
  BY DEF AttachIpcMalloc
<1>3. /\ apc' \in [Attachers -> Label] /\ apc'[t] = "reread"
      /\ target' \in [Attachers -> [node : Place, cb : Callback \cup {NoCallback}, ipc : BOOLEAN]]
      /\ target'[t].cb = target[t].cb /\ target[t].cb \in Callback
      /\ attached' = attached
      /\ \A u \in Attachers \ {t} : apc'[u] = apc[u] /\ target'[u] = target[u]
  BY <1>2, GoOnType
<1>4. i \in Ids /\ List(t)' = i
  BY <1>3 DEF List, Callback
<1> HIDE DEF i
<1>5. /\ next[n] = Null /\ ~ Linked(n) /\ \A j \in Ids : msg_sub_heads_list[j] # n
      /\ \A u \in Attachers : apc[u] \in AtPlace => target[u].node # n
  BY <1>1, FreshNode
<1>6. /\ msg_sub_heads_list'[i] = n
      /\ \A j \in Ids \ {i} : msg_sub_heads_list'[j] = msg_sub_heads_list[j]
      /\ next'[n] = junk /\ \A m \in Node \ {n} : next'[m] = next[m]
      /\ owner'[n] = i /\ \A m \in Node \ {n} : owner'[m] = owner[m]
      /\ \A m \in Node \ {n} : sub_cb'[m] = sub_cb[m]
  BY <1>0, <1>1, <1>4 DEF MemoryTypeOK
<1>7. MemoryTypeOK'
  <2>1. msg_sub_heads_list' \in [Ids -> {Null} \cup Node] /\ next' \in [Node -> Place]
    BY <1>0, <1>1 DEF MemoryTypeOK
  <2>2. /\ sub_cb' \in [Node -> Callback \cup {NoCallback, JunkCallback}]
        /\ used' \in 0..MaxNodes /\ owner' \in [Node -> Ids \cup {-1}]
    BY <1>0, <1>1, <1>4 DEF MemoryTypeOK
  <2> QED
    BY <1>0, <1>3, <2>1, <2>2 DEF MemoryTypeOK
<1>8. ListsAscend'
  <2>1. \A m \in Node : next'[m] \in Node => m # n /\ next'[m] = next[m]
    BY <1>6
  <2>2. \A m \in Node : next[m] # n
    BY <1>5 DEF Linked
  <2>3. \A m \in Node : next'[m] \in Node => m < next'[m] /\ next'[m] <= used'
    BY <1>0, <1>1, <2>1 DEF ListsAscend, MemoryTypeOK
  <2>4. \A m \in Node : m > used' => next'[m] = Null
    BY <1>0, <1>1, <1>6 DEF ListsAscend, MemoryTypeOK
  <2>5. ASSUME NEW j \in Ids
        PROVE  /\ msg_sub_heads_list'[j] <= used'
               /\ \A m \in Node : next'[m] # Null => next'[m] # msg_sub_heads_list'[j]
    <3>1. /\ msg_sub_heads_list[j] \in {Null} \cup Node /\ msg_sub_heads_list[j] <= used
          /\ \A m \in Node : next[m] # Null => next[m] # msg_sub_heads_list[j]
      BY <1>0 DEF ListsAscend, MemoryTypeOK
    <3>2. msg_sub_heads_list'[j] = n \/ msg_sub_heads_list'[j] = msg_sub_heads_list[j]
      BY <1>6
    <3>3. used' = used + 1 /\ used \in Nat
      BY <1>0, <1>1 DEF MemoryTypeOK
    <3> QED
      BY <1>1, <1>6, <2>2, <3>1, <3>2, <3>3
  <2>6. \A k, m \in Node : next'[m] \in Node /\ next'[m] = next'[k] => m = k
    BY <1>0, <2>1 DEF ListsAscend
  <2> QED
    BY <2>3, <2>4, <2>5, <2>6 DEF ListsAscend
<1>9. OwnersKept'
  <2>1. \A m \in Node : next'[m] \in Node => m # n /\ next'[m] = next[m] /\ next[m] # n
    BY <1>5, <1>6 DEF Linked
  <2>2. \A j \in Ids : msg_sub_heads_list'[j] \in Node => owner'[msg_sub_heads_list'[j]] = j
    BY <1>0, <1>4, <1>5, <1>6 DEF OwnersKept
  <2>3. \A m \in Node : next'[m] \in Node => owner'[next'[m]] = owner'[m]
    BY <1>0, <1>6, <2>1 DEF OwnersKept
  <2> QED
    BY <2>2, <2>3 DEF OwnersKept
<1>10. AimedAtNode'
  <2> SUFFICES ASSUME NEW u \in Attachers PROVE Aimed(u)'
    BY DEF AimedAtNode
  <2>1. CASE u = t
    BY <1>3, <1>4, <1>6, <2>1 DEF Aimed
  <2>2. CASE u # t
    <3>1. Aimed(u) /\ apc'[u] = apc[u] /\ target'[u] = target[u] /\ List(u)' = List(u)
      BY <1>3, <2>2 DEF MemoryInv, AimedAtNode, List
    <3>2. apc[u] \in {"reread", "head"} => List(u) \in Ids
      BY <3>1 DEF Aimed, List, Callback
    <3>3. apc[u] \in AtPlace /\ target[u].node \in Node => owner'[target[u].node] = owner[target[u].node]
      BY <1>5, <1>6
    <3>4. used' = used + 1 /\ used \in Nat
      BY <1>0, <1>1 DEF MemoryTypeOK
    <3>5. apc[u] \in {"reread", "head"} => msg_sub_heads_list'[List(u)] \in Node
      BY <1>6, <3>1, <3>2 DEF Aimed
    <3>6. apc[u] \in AtPlace /\ target[u].node \in Node => target[u].node <= used'
      BY <3>1, <3>4 DEF Aimed
    <3> QED
      BY <3>1, <3>3, <3>5, <3>6 DEF Aimed
  <2> QED
    BY <2>1, <2>2
<1>11. JunkIsKnown'
  <2> SUFFICES ASSUME NEW m \in Node, Linked(m)'
               PROVE  /\ sub_cb'[m] \in Callback \/ m \in InProgress'
                      /\ next'[m] = Junk =>
                            m \in Heads' \/ \E u \in Attachers : m \in Ending(u)'
    BY DEF JunkIsKnown
  <2>1. CASE m = n
    <3>1. m \in UnderWay(t)' /\ m \in Heads'
      BY <1>3, <1>4, <1>6, <2>1 DEF UnderWay, Heads
    <3> QED
      BY <3>1 DEF InProgress
  <2>2. CASE m # n
    <3>1. Linked(m) /\ m # msg_sub_heads_list[i]
      <4>1. CASE m \in Heads'
        <5>1. PICK j \in Ids : m = msg_sub_heads_list'[j]
          BY <4>1 DEF Heads
        <5>2. j # i /\ m = msg_sub_heads_list[j]
          BY <1>6, <2>2, <5>1
        <5> QED
          BY <1>0, <1>4, <5>2 DEF Linked, Heads, OwnersKept
      <4>2. CASE \E k \in Node : next'[k] = m
        <5>1. PICK k \in Node : next[k] = m
          BY <1>6, <4>2
        <5> QED
          BY <1>0, <1>4, <5>1 DEF Linked, ListsAscend
      <4> QED
        BY <4>1, <4>2 DEF Linked
    <3>2. ASSUME NEW u \in Attachers
          PROVE  /\ m \in UnderWay(u) => m \in UnderWay(u)'
                 /\ m \in Ending(u) => m \in Ending(u)'
      <4>1. CASE u = t
        BY <1>2, <4>1 DEF UnderWay, Ending
      <4>2. CASE u # t
        <5>1. apc'[u] = apc[u] /\ target'[u] = target[u] /\ List(u)' = List(u) /\ Aimed(u)
          BY <1>3, <4>2 DEF MemoryInv, AimedAtNode, List
        <5>2. apc[u] = "relink" => next'[target[u].node] = next[target[u].node]
          BY <1>5, <1>6, <5>1 DEF Aimed
        <5>3. apc[u] = "reread" /\ m = msg_sub_heads_list[List(u)] => m = msg_sub_heads_list'[List(u)]
          BY <1>6, <3>1, <5>1 DEF Aimed, List, Callback
        <5> QED
          BY <5>1, <5>2, <5>3 DEF UnderWay, Ending
      <4> QED
        BY <4>1, <4>2
    <3>3. ASSUME m \in InProgress PROVE m \in InProgress'
      <4>1. PICK u \in Attachers : m \in UnderWay(u)
        BY <3>3 DEF InProgress
      <4>2. m \in UnderWay(u)'
        BY <3>2, <4>1
      <4> QED
        BY <4>2 DEF InProgress
    <3>4. ASSUME m \in Heads PROVE m \in Heads'
      BY <1>6, <3>1, <3>4 DEF Heads
    <3>5. ASSUME next[m] = Junk, m \notin Heads PROVE \E u \in Attachers : m \in Ending(u)'
      <4>1. PICK u \in Attachers : m \in Ending(u)
        BY <1>0, <3>1, <3>5 DEF JunkIsKnown
      <4> QED
        BY <3>2, <4>1
    <3> QED
      BY <1>0, <1>6, <2>2, <3>1, <3>3, <3>4, <3>5 DEF JunkIsKnown
  <2> QED
    BY <2>1, <2>2
<1> QED
  BY <1>7, <1>8, <1>9, <1>10, <1>11 DEF MemoryInv

LEMMA AttachLinkKeeps ==
  ASSUME MemoryInv, NEW t \in Attachers, AttachLink(t)
  PROVE  MemoryInv'
<1> USE DEF Label, AtPlace, AtNode
<1> DEFINE before == target[t].node
<1>0. MemoryTypeOK /\ ListsAscend /\ OwnersKept /\ JunkIsKnown /\ Aimed(t)
  BY DEF MemoryInv, AimedAtNode
<1>1. PICK n \in Node, junk \in {Null, Junk} :
        /\ n = used + 1 /\ used' = n /\ owner' = [owner EXCEPT ![n] = List(t)]
        /\ \E c \in {NoCallback, JunkCallback} : sub_cb' = [sub_cb EXCEPT ![n] = c]
        /\ next' = [next EXCEPT ![before] = n, ![n] = junk]
  BY DEF AttachLink, Allocate
<1>2. apc[t] = "link" /\ GoOn(t, "relink", before) /\ UNCHANGED msg_sub_heads_list
  BY DEF AttachLink
<1>3. /\ before \in Node /\ before <= used /\ owner[before] = List(t)
      /\ List(t) \in Ids /\ before # n
  <2>1. target[t].cb \in Callback /\ before \in Node /\ before <= used /\ owner[before] = List(t)
    BY <1>0, <1>2 DEF Aimed
  <2> QED
    BY <1>0, <1>1, <2>1 DEF List, Callback, MemoryTypeOK
<1>4. /\ apc' \in [Attachers -> Label] /\ apc'[t] = "relink"
      /\ target' \in [Attachers -> [node : Place, cb : Callback \cup {NoCallback}, ipc : BOOLEAN]]
      /\ target'[t].node = before /\ target'[t].cb = target[t].cb /\ target[t].cb \in Callback
      /\ attached' = attached
      /\ \A u \in Attachers \ {t} : apc'[u] = apc[u] /\ target'[u] = target[u]
  BY <1>2, <1>3, GoOnType
<1>5. /\ next[n] = Null /\ ~ Linked(n) /\ \A j \in Ids : msg_sub_heads_list[j] # n
      /\ \A u \in Attachers : apc[u] \in AtPlace => target[u].node # n
  BY <1>1, FreshNode
<1> HIDE DEF before
<1>6. /\ next'[n] = junk /\ next'[before] = n
      /\ \A m \in Node \ {before, n} : next'[m] = next[m]
      /\ owner'[n] = List(t) /\ \A m \in Node \ {n} : owner'[m] = owner[m]
      /\ \A m \in Node \ {n} : sub_cb'[m] = sub_cb[m]
  BY <1>0, <1>1, <1>3 DEF MemoryTypeOK
<1>7. MemoryTypeOK'
  <2>1. next' \in [Node -> Place]
    BY <1>0, <1>1, <1>3 DEF MemoryTypeOK
  <2>2. /\ sub_cb' \in [Node -> Callback \cup {NoCallback, JunkCallback}]
        /\ used' \in 0..MaxNodes /\ owner' \in [Node -> Ids \cup {-1}]
    BY <1>0, <1>1, <1>3 DEF MemoryTypeOK
  <2> QED
    BY <1>0, <1>2, <1>4, <2>1, <2>2 DEF MemoryTypeOK
<1>8. \A m \in Node : next'[m] \in Node =>
          \/ m = before /\ next'[m] = n
          \/ m \notin {before, n} /\ next'[m] = next[m] /\ next[m] # n
  BY <1>5, <1>6 DEF Linked
<1>9. ListsAscend'
  <2>0. used' = used + 1 /\ used \in Nat
    BY <1>0, <1>1 DEF MemoryTypeOK
  <2>1. ASSUME NEW m \in Node, next'[m] \in Node PROVE m < next'[m] /\ next'[m] <= used'
    <3>1. CASE m = before /\ next'[m] = n
      BY <1>1, <1>3, <2>0, <3>1
    <3>2. CASE next'[m] = next[m]
      <4>1. m < next[m] /\ next[m] <= used
        BY <1>0, <2>1, <3>2 DEF ListsAscend
      <4> QED
        BY <2>0, <2>1, <3>2, <4>1
    <3> QED
      BY <1>8, <2>1, <3>1, <3>2
  <2>2. ASSUME NEW m \in Node, m > used' PROVE next'[m] = Null
    <3>1. m > used /\ m # before /\ m # n
      BY <1>1, <1>3, <2>0, <2>2
    <3> QED
      BY <1>0, <1>6, <3>1 DEF ListsAscend
  <2>3. ASSUME NEW j \in Ids
        PROVE  /\ msg_sub_heads_list'[j] <= used'
               /\ \A m \in Node : next'[m] # Null => next'[m] # msg_sub_heads_list'[j]
    <3>1. /\ msg_sub_heads_list[j] \in {Null} \cup Node /\ msg_sub_heads_list[j] <= used
          /\ \A m \in Node : next[m] # Null => next[m] # msg_sub_heads_list[j]
      BY <1>0 DEF ListsAscend, MemoryTypeOK
    <3>2. msg_sub_heads_list'[j] = msg_sub_heads_list[j] /\ msg_sub_heads_list[j] # n
      BY <1>2, <1>5
    <3> QED
      BY <1>6, <2>0, <3>1, <3>2
  <2>4. \A k, m \in Node : next'[m] \in Node /\ next'[m] = next'[k] => m = k
    BY <1>0, <1>8 DEF ListsAscend
  <2> QED
    BY <2>1, <2>2, <2>3, <2>4 DEF ListsAscend
<1>10. OwnersKept'
  <2>1. \A j \in Ids : msg_sub_heads_list'[j] \in Node => owner'[msg_sub_heads_list'[j]] = j
    BY <1>0, <1>2, <1>5, <1>6 DEF OwnersKept
  <2>2. \A m \in Node : next'[m] \in Node => owner'[next'[m]] = owner'[m]
    BY <1>0, <1>3, <1>6, <1>8 DEF OwnersKept
  <2> QED
    BY <2>1, <2>2 DEF OwnersKept
<1>11. AimedAtNode'
  <2> SUFFICES ASSUME NEW u \in Attachers PROVE Aimed(u)'
    BY DEF AimedAtNode
  <2>1. Aimed(u) /\ List(u)' = List(u)
    BY <1>4 DEF MemoryInv, AimedAtNode, List
  <2>6. u # t => apc'[u] = apc[u] /\ target'[u] = target[u]
    BY <1>4
  <2>2. used' = used + 1 /\ used \in Nat
    BY <1>0, <1>1 DEF MemoryTypeOK
  <2>3. apc[u] \in AtPlace /\ target[u].node \in Node =>
            target[u].node <= used' /\ owner'[target[u].node] = List(u)
    BY <1>5, <1>6, <2>1, <2>2 DEF Aimed
  <2>4. CASE u = t
    <3>1. before = target[t].node
      BY DEF before
    <3> QED
      BY <1>2, <1>3, <1>4, <2>1, <2>3, <2>4, <3>1 DEF Aimed
  <2>5. CASE u # t
    <3>1. /\ apc'[u] = apc[u] /\ target'[u] = target[u]
          /\ msg_sub_heads_list' = msg_sub_heads_list
      BY <1>2, <2>5, <2>6
    <3> QED
      BY <2>1, <2>3, <3>1 DEF Aimed
  <2> QED
    BY <2>4, <2>5
<1>12. JunkIsKnown'
  <2> SUFFICES ASSUME NEW m \in Node, Linked(m)'
               PROVE  /\ sub_cb'[m] \in Callback \/ m \in InProgress'
                      /\ next'[m] = Junk =>
                            m \in Heads' \/ \E u \in Attachers : m \in Ending(u)'
    BY DEF JunkIsKnown
  <2>1. CASE m = n
    <3>1. m \in UnderWay(t)' /\ m \in Ending(t)'
      BY <1>4, <1>6, <2>1 DEF UnderWay, Ending
    <3> QED
      BY <3>1 DEF InProgress
  <2>2. CASE m # n
    <3>1. /\ Linked(m) /\ Heads' = Heads
          /\ m \in Heads \/ \E k \in Node \ {before} : next[k] = m
      BY <1>2, <1>8, <2>2 DEF Linked, Heads
    <3>2. m # next[before]
      <4>1. m \notin Heads \/ next[before] = Null \/ m # next[before]
        BY <1>0, <1>3 DEF ListsAscend, Heads
      <4> QED
        BY <1>0, <1>3, <3>1, <4>1 DEF ListsAscend
    <3>3. ASSUME NEW u \in Attachers
          PROVE  /\ m \in UnderWay(u) => m \in UnderWay(u)'
                 /\ m \in Ending(u) => m \in Ending(u)'
      <4>1. CASE u = t
        BY <1>2, <4>1 DEF UnderWay, Ending
      <4>2. CASE u # t
        <5>1. apc'[u] = apc[u] /\ target'[u] = target[u] /\ List(u)' = List(u) /\ Aimed(u)
          BY <1>4, <4>2 DEF MemoryInv, AimedAtNode, List
        <5>2. apc[u] = "relink" /\ m = next[target[u].node] => m = next'[target[u].node]
          BY <1>5, <1>6, <3>2, <5>1 DEF Aimed
        <5> QED
          BY <1>2, <5>1, <5>2 DEF UnderWay, Ending
      <4> QED
        BY <4>1, <4>2
    <3>4. ASSUME m \in InProgress PROVE m \in InProgress'
      <4>1. PICK u \in Attachers : m \in UnderWay(u)
        BY <3>4 DEF InProgress
      <4>2. m \in UnderWay(u)'
        BY <3>3, <4>1
      <4> QED
        BY <4>2 DEF InProgress
    <3>5. ASSUME next'[m] = Junk, m \notin Heads PROVE \E u \in Attachers : m \in Ending(u)'
      <4>1. next[m] = Junk
        BY <1>6, <2>2, <3>5
      <4>2. PICK u \in Attachers : m \in Ending(u)
        BY <1>0, <3>1, <3>5, <4>1 DEF JunkIsKnown
      <4> QED
        BY <3>3, <4>2
    <3> QED
      BY <1>0, <1>6, <2>2, <3>1, <3>4, <3>5 DEF JunkIsKnown
  <2> QED
    BY <2>1, <2>2
<1> QED
  BY <1>7, <1>9, <1>10, <1>11, <1>12 DEF MemoryInv

LEMMA AttachEndKeeps ==
  ASSUME MemoryInv, NEW t \in Attachers, AttachEnd(t)
  PROVE  MemoryInv'
<1> USE DEF Label, AtPlace, AtNode
<1> DEFINE n == target[t].node
<1>0. MemoryTypeOK /\ ListsAscend /\ OwnersKept /\ JunkIsKnown /\ Aimed(t)
  BY DEF MemoryInv, AimedAtNode
<1>1. /\ apc[t] = "end" /\ n \in Node /\ GoOn(t, "fill", n)
      /\ next' = [next EXCEPT ![n] = Null]
      /\ UNCHANGED <<msg_sub_heads_list, sub_cb, used, owner>>
  BY DEF AttachEnd
<1>2. /\ apc' \in [Attachers -> Label] /\ apc'[t] = "fill"
      /\ target' \in [Attachers -> [node : Place, cb : Callback \cup {NoCallback}, ipc : BOOLEAN]]
      /\ target'[t].node = n /\ target'[t].cb = target[t].cb /\ target[t].cb \in Callback
      /\ attached' = attached
      /\ \A u \in Attachers \ {t} : apc'[u] = apc[u] /\ target'[u] = target[u]
  BY <1>1, GoOnType
<1>3. /\ UnderWay(t) = {n} /\ UnderWay(t)' = {n} /\ Ending(t) = {n}
      /\ n <= used /\ owner[n] = List(t) /\ List(t)' = List(t)
  BY <1>0, <1>1, <1>2 DEF UnderWay, Ending, Aimed, List
<1> HIDE DEF n
<1>4. next'[n] = Null /\ \A m \in Node \ {n} : next'[m] = next[m]
  BY <1>0, <1>1 DEF MemoryTypeOK
<1>5. MemoryTypeOK'
  BY <1>0, <1>1, <1>2 DEF MemoryTypeOK
<1>6. ListsAscend' /\ OwnersKept'
  BY <1>0, <1>1, <1>4 DEF ListsAscend, OwnersKept
<1>7. AimedAtNode'
  <2> SUFFICES ASSUME NEW u \in Attachers PROVE Aimed(u)'
    BY DEF AimedAtNode
  <2>1. CASE u = t
    BY <1>1, <1>2, <1>3, <2>1 DEF Aimed
  <2>2. CASE u # t
    BY <1>1, <1>2, <2>2 DEF MemoryInv, AimedAtNode, Aimed, List
  <2> QED
    BY <2>1, <2>2
<1>8. JunkIsKnown'
  <2> SUFFICES ASSUME NEW m \in Node, Linked(m)'
               PROVE  /\ sub_cb'[m] \in Callback \/ m \in InProgress'
                      /\ next'[m] = Junk =>
                            m \in Heads' \/ \E u \in Attachers : m \in Ending(u)'
    BY DEF JunkIsKnown
  <2>1. /\ Linked(m) /\ Heads' = Heads
        /\ m \in Heads \/ \E k \in Node \ {n} : next[k] = m
    BY <1>1, <1>4 DEF Linked, Heads
  <2>2. m # next[n]
    <3>1. m \notin Heads \/ next[n] = Null \/ m # next[n]
      BY <1>0, <1>1 DEF ListsAscend, Heads
    <3> QED
      BY <1>0, <1>1, <2>1, <3>1 DEF ListsAscend
  <2>3. ASSUME NEW u \in Attachers
        PROVE  /\ m \in UnderWay(u) => m \in UnderWay(u)'
               /\ m # n /\ m \in Ending(u) => m \in Ending(u)'
    <3>1. CASE u = t
      BY <1>3, <3>1
    <3>2. CASE u # t
      <4>1. apc'[u] = apc[u] /\ target'[u] = target[u] /\ List(u)' = List(u) /\ Aimed(u)
        BY <1>2, <3>2 DEF MemoryInv, AimedAtNode, List
      <4>2. apc[u] = "relink" /\ m = next[target[u].node] => m = next'[target[u].node]
        BY <1>4, <2>2, <4>1 DEF Aimed
      <4> QED
        BY <1>1, <4>1, <4>2 DEF UnderWay, Ending
    <3> QED
      BY <3>1, <3>2
  <2>4. ASSUME m \in InProgress PROVE m \in InProgress'
    <3>1. PICK u \in Attachers : m \in UnderWay(u)
      BY <2>4 DEF InProgress
    <3>2. m \in UnderWay(u)'
      BY <2>3, <3>1
    <3> QED
      BY <3>2 DEF InProgress
  <2>5. ASSUME next'[m] = Junk, m \notin Heads PROVE \E u \in Attachers : m \in Ending(u)'
    <3>1. next[m] = Junk /\ m # n
      BY <1>4, <2>5
    <3>2. PICK u \in Attachers : m \in Ending(u)
      BY <1>0, <2>1, <2>5, <3>1 DEF JunkIsKnown
    <3> QED
      BY <2>3, <3>1, <3>2
  <2> QED
    BY <1>0, <1>1, <2>1, <2>4, <2>5 DEF JunkIsKnown
<1> QED
  BY <1>5, <1>6, <1>7, <1>8 DEF MemoryInv

LEMMA MemoryInit == RegistryInit => MemoryInv
<1> SUFFICES ASSUME RegistryInit PROVE MemoryInv
  OBVIOUS
<1>1. MemoryTypeOK
  BY DEF RegistryInit, MemoryTypeOK, Resting, Label
<1>2. ListsAscend /\ OwnersKept /\ AimedAtNode /\ JunkIsKnown
  BY DEF RegistryInit, ListsAscend, OwnersKept, AimedAtNode, Aimed, AtPlace, AtNode,
         JunkIsKnown, Linked, Heads
<1> QED
  BY <1>1, <1>2 DEF MemoryInv

LEMMA MemoryStutter ==
  ASSUME MemoryInv, UNCHANGED <<memory, attacher>>
  PROVE  MemoryInv'
<1>1. UNCHANGED <<msg_sub_heads_list, next, sub_cb, used, owner, apc, target, attached>>
  BY DEF memory, attacher
<1>2. MemoryTypeOK' /\ ListsAscend' /\ OwnersKept'
  BY <1>1 DEF MemoryInv, MemoryTypeOK, ListsAscend, OwnersKept
<1>3. AimedAtNode'
  BY <1>1 DEF MemoryInv, AimedAtNode, Aimed, List
<1>4. JunkIsKnown'
  BY <1>1 DEF MemoryInv, JunkIsKnown, Linked, Heads, InProgress, UnderWay, Ending, List
<1> QED
  BY <1>2, <1>3, <1>4 DEF MemoryInv

LEMMA MemoryStep == MemoryInv /\ [RegistryNext]_rvars => MemoryInv'
<1> SUFFICES ASSUME MemoryInv, [RegistryNext]_rvars PROVE MemoryInv'
  OBVIOUS
<1>1. ASSUME NEW t \in Attachers, Attach(t) PROVE MemoryInv'
  BY <1>1, BeginKeeps, LocalStepsKeep, AttachIpcMallocKeeps, AttachIpcSetKeeps,
     AttachLostKeeps, AttachLinkKeeps, AttachEndKeeps DEF Attach
<1>2. CASE Walk \/ UNCHANGED rvars
  BY <1>2, MemoryStutter DEF Walk, WalkStart, WalkVisit, WalkAdvance, WalkEnd, rvars
<1> QED
  BY <1>1, <1>2 DEF RegistryNext

\* Any number of attachments, in any order, keep the memory invariant.
THEOREM RegistryMemory == RegistrySpec => []MemoryInv
BY MemoryInit, MemoryStep, PTL DEF RegistrySpec


-----------------------------------------------------------------------------
(* What the invariant says of the lists                                    *)

\* Whatever order the stores of any number of attachments take, the registry's
\* variables keep their types and no list is a ring.
THEOREM RegistryTypeCorrect == RegistrySpec => []RegistryTypeOK
<1>1. MemoryInv => RegistryTypeOK
  <2> SUFFICES ASSUME MemoryInv PROVE RegistryTypeOK
    OBVIOUS
  <2>1. ASSUME NEW n \in Node PROVE n \notin Behind(n) /\ (next[n] \in Node => n < next[n])
    <3>1. n \notin Behind(n)
      <4> SUFFICES ASSUME n \in Behind(n) PROVE FALSE
        OBVIOUS
      <4>1. n < n
        BY BehindIsLater DEF MemoryInv
      <4> QED
        BY <4>1
    <3> QED
      BY <3>1 DEF MemoryInv, ListsAscend
  <2>2. next \in [Node -> {Null, Junk} \cup Node]
    BY DEF MemoryInv, MemoryTypeOK
  <2> QED
    BY <2>1, <2>2 DEF MemoryInv, MemoryTypeOK, RegistryTypeOK
<1> QED
  BY <1>1, RegistryMemory, PTL

\* However attachments interleave, a walk meets junk only in a node under way
\* and behind a head that _ipc_attach_ipc_cb made.
THEOREM JunkStaysKnown == RegistrySpec => []JunkIsHeadOrInProgress
<1>1. MemoryInv => JunkIsHeadOrInProgress
  <2> SUFFICES ASSUME MemoryInv, NEW i \in Ids, NEW n \in InList(i), n \notin InProgress
               PROVE  sub_cb[n] \in Callback /\ (next[n] = Junk => n = msg_sub_heads_list[i])
    BY DEF JunkIsHeadOrInProgress
  <2>1. n \in Node /\ (n = msg_sub_heads_list[i] \/ \E m \in Node : next[m] = n)
    BY ListedIsLinked DEF MemoryInv
  <2>2. Linked(n)
    BY <2>1 DEF Linked, Heads
  <2>3. sub_cb[n] \in Callback
    BY <2>1, <2>2 DEF MemoryInv, JunkIsKnown
  <2>4. ASSUME next[n] = Junk PROVE n = msg_sub_heads_list[i]
    <3>1. \A t \in Attachers : n \notin Ending(t)
      BY <2>1 DEF InProgress, UnderWay, Ending
    <3>2. n \in Heads
      BY <2>1, <2>2, <2>4, <3>1 DEF MemoryInv, JunkIsKnown
    <3>3. ~ \E m \in Node : next[m] = n
      BY <2>1, <3>2 DEF MemoryInv, ListsAscend, Heads
    <3> QED
      BY <2>1, <3>3
  <2> QED
    BY <2>3, <2>4
<1> QED
  BY <1>1, RegistryMemory, PTL

-----------------------------------------------------------------------------
(* What a step may take out of a list                                      *)

\* A step of thread t that does not race keeps every list, and one that
\* races every other list than its own.
LEMMA AttachKeepsList ==
  ASSUME MemoryInv, NEW t \in Attachers, Attach(t), NEW i \in Ids,
         Races(t) /\ apc'[t] # apc[t] => List(t) # i
  PROVE  InList(i) \subseteq InList(i)'
<1>0. MemoryTypeOK /\ ListsAscend /\ OwnersKept /\ Aimed(t) /\ apc \in [Attachers -> Label]
  BY DEF MemoryInv, AimedAtNode, MemoryTypeOK
<1>1. CASE UNCHANGED <<msg_sub_heads_list, next>>
  BY <1>1 DEF InList, From, Closed
<1>2. CASE AttachIpcMalloc(t)
  <2>1. PICK n \in Node, junk \in {Null, Junk} :
          /\ n = used + 1 /\ next' = [next EXCEPT ![n] = junk]
          /\ msg_sub_heads_list' = [msg_sub_heads_list EXCEPT ![List(t)] = n]
    BY <1>2 DEF AttachIpcMalloc, Allocate
  <2>2. next[n] = Null
    BY <2>1, FreshNode
  <2>3. apc[t] = "malloc" /\ apc' = [apc EXCEPT ![t] = "reread"]
    BY <1>2 DEF AttachIpcMalloc, GoOn
  <2>4. apc'[t] # apc[t]
    BY <1>0, <2>3
  <2>5. List(t) = i => msg_sub_heads_list[i] = Null
    BY <2>3, <2>4 DEF Races
  <2>6. msg_sub_heads_list[i] # Null => msg_sub_heads_list'[i] = msg_sub_heads_list[i]
    BY <1>0, <2>1, <2>5 DEF MemoryTypeOK
  <2>7. ASSUME NEW m \in Node, next[m] \in Node PROVE next'[m] = next[m]
    <3>1. m # n
      BY <2>2, <2>7
    <3> QED
      BY <1>0, <2>1, <3>1 DEF MemoryTypeOK
  <2>8. \A m \in InList(i) : next[m] \in Node => next'[m] = next[m]
    BY <2>7 DEF InList, From
  <2> QED
    BY <1>0, <2>6, <2>8, KeptLinksKeepLists
<1>3. CASE AttachLink(t) \/ AttachEnd(t)
  <2> DEFINE before == target[t].node
  <2>1. PICK l \in {"relink", "fill"} :
          /\ apc[t] \in {"link", "end"} /\ apc' = [apc EXCEPT ![t] = l]
          /\ UNCHANGED msg_sub_heads_list
          /\ \A m \in Node \ {before} : next[m] \in Node => next'[m] = next[m]
    <3>1. CASE AttachEnd(t)
      BY <1>0, <3>1 DEF AttachEnd, GoOn, MemoryTypeOK
    <3>2. CASE AttachLink(t)
      <4>1. PICK n \in Node, junk \in {Null, Junk} :
              n = used + 1 /\ next' = [next EXCEPT ![before] = n, ![n] = junk]
        BY <3>2 DEF AttachLink, Allocate
      <4>2. next[n] = Null
        BY <4>1, FreshNode
      <4>3. \A m \in Node \ {before} : next[m] \in Node => next'[m] = next[m]
        BY <1>0, <4>1, <4>2 DEF MemoryTypeOK
      <4> HIDE DEF before
      <4> QED
        BY <3>2, <4>3 DEF AttachLink, GoOn
    <3> QED
      BY <1>3, <3>1, <3>2
  <2>2. apc'[t] # apc[t]
    BY <1>0, <2>1
  <2>3. before \in Node /\ owner[before] = List(t)
    BY <1>0, <1>3 DEF AttachLink, AttachEnd, Aimed, AtNode, AtPlace
  <2>4. List(t) = i => next[before] \notin Node
    BY <2>1, <2>2 DEF Races
  <2> HIDE DEF before
  <2>5. ASSUME NEW m \in InList(i), next[m] \in Node PROVE next'[m] = next[m]
    <3>1. m \in Node /\ owner[m] = i
      BY <1>0, ListedIsOwned
    <3> QED
      BY <2>1, <2>3, <2>4, <2>5, <3>1
  <2> QED
    BY <1>0, <2>1, <2>5, KeptLinksKeepLists
<1> QED
  BY <1>1, <1>2, <1>3
     DEF Attach, AttachIpcBegin, AttachIpcHead, AttachTest, AttachMove, AttachIpcSet,
         AttachLost, AttachBegin, AttachRelink, AttachFill, memory

\* A node is only lost by the store of an attachment to its list that cuts
\* off what another attachment has linked.
THEOREM LossNeedsARace == RegistrySpec => OnlyRaceLoses
<1> DEFINE Lost == \A i \in Ids : \A n \in InList(i) :
                       n \notin InList(i)' =>
                           \E t \in Attachers : Races(t) /\ List(t) = i /\ apc'[t] # apc[t]
<1>1. MemoryInv /\ [RegistryNext]_rvars => [Lost]_rvars
  <2> SUFFICES ASSUME MemoryInv, [RegistryNext]_rvars, NEW i \in Ids,
                      ~ \E t \in Attachers : Races(t) /\ List(t) = i /\ apc'[t] # apc[t]
               PROVE  InList(i) \subseteq InList(i)'
    OBVIOUS
  <2>1. ASSUME NEW t \in Attachers, Attach(t) PROVE InList(i) \subseteq InList(i)'
    BY <2>1, AttachKeepsList
  <2>2. CASE Walk \/ UNCHANGED rvars
    <3>1. UNCHANGED <<msg_sub_heads_list, next>>
      BY <2>2 DEF Walk, WalkStart, WalkVisit, WalkAdvance, WalkEnd, rvars, memory
    <3> QED
      BY <3>1 DEF InList, From, Closed
  <2> QED
    BY <2>1, <2>2 DEF RegistryNext
<1> QED
  BY <1>1, RegistryMemory, PTL DEF OnlyRaceLoses, RegistrySpec

-----------------------------------------------------------------------------
(* What becomes of a callback                                              *)

\* Where no attachments raced, the node a thread has in hand is in its list.
PlaceInList ==
    \A t \in Attachers :
        apc[t] \in AtPlace /\ target[t].node \in Node /\ List(t) \notin contested =>
            target[t].node \in InList(List(t))

FateInv == returned \subseteq Callback /\ PlaceInList /\ OnlyKnownLosses

\* Where no attachments raced so far, a step keeps the list.
LEMMA UnracedListGrows ==
  ASSUME MemoryInv, NEW t \in Attachers, Attach(t)
  PROVE  /\ contested \subseteq contested'
         /\ \A i \in Ids : i \notin contested' => InList(i) \subseteq InList(i)'
<1>1. contested \subseteq contested'
  BY DEF Attach, AttachIpcBegin, AttachIpcMalloc, AttachIpcHead, AttachTest, AttachMove,
         AttachIpcSet, AttachLost, AttachBegin, AttachLink, AttachRelink, AttachEnd,
         AttachFill, NoteRace, fate
<1>2. ASSUME NEW i \in Ids, i \notin contested', Races(t), apc'[t] # apc[t], List(t) = i PROVE FALSE
  <2>1. apc[t] \in {"malloc", "link", "end"}
    BY <1>2 DEF Races
  <2>2. AttachIpcMalloc(t) \/ AttachLink(t) \/ AttachEnd(t) \/ \E j \in Ids : AttachLost(t, j)
    BY <2>1 DEF Attach, AttachIpcBegin, AttachIpcHead, AttachTest, AttachMove,
                AttachIpcSet, AttachBegin, AttachRelink, AttachFill, Begin
  <2>3. ~ \E j \in Ids : AttachLost(t, j)
    BY <1>2 DEF AttachLost
  <2>4. NoteRace(t, Races(t))
    BY <2>2, <2>3 DEF AttachIpcMalloc, AttachLink, AttachEnd
  <2> QED
    BY <1>2, <2>4 DEF NoteRace
<1> QED
  BY <1>1, <1>2, AttachKeepsList

\* A thread comes to a node of its list, if it had one before.
LEMMA PlaceFound ==
  ASSUME MemoryInv, PlaceInList, NEW t \in Attachers, Attach(t),
         apc'[t] \in AtPlace, target'[t].node \in Node, target'[t].cb.id \notin contested
  PROVE  target'[t].cb.id \in Ids /\ target'[t].node \in InList(target'[t].cb.id)
<1> USE DEF AtPlace, AtNode
<1>0. MemoryTypeOK /\ Aimed(t) /\ OwnersKept
  BY DEF MemoryInv, AimedAtNode
<1>1. ASSUME NEW i \in Ids, AttachBegin(t, i)
      PROVE  target'[t].cb.id \in Ids /\ target'[t].node \in InList(target'[t].cb.id)
  <2>1. target'[t].cb.id = i /\ target'[t].node = msg_sub_heads_list[i]
    BY <1>0, <1>1 DEF AttachBegin, Begin, MemoryTypeOK
  <2> QED
    BY <1>0, <2>1, HeadInList
<1>2. ASSUME NEW i \in Ids, AttachIpcBegin(t, i) PROVE FALSE
  <2>1. apc'[t] \in {"malloc", "head"}
    BY <1>0, <1>2 DEF AttachIpcBegin, Begin, MemoryTypeOK
  <2> QED
    BY <2>1
<1>3. ASSUME NEW i \in Ids, AttachLost(t, i) PROVE FALSE
  BY <1>3 DEF AttachLost
<1>4. CASE AttachIpcSet(t) \/ AttachFill(t) \/ AttachIpcMalloc(t)
  <2>1. apc'[t] \in {"idle", "reread"}
    BY <1>0, <1>4 DEF AttachIpcSet, AttachFill, AttachIpcMalloc, Return, GoOn, MemoryTypeOK
  <2> QED
    BY <2>1
<1>5. ASSUME NEW l \in Label, NEW n \in Place, GoOn(t, l, n), apc[t] # "idle",
             n \in Node => \/ n = msg_sub_heads_list[List(t)]
                           \/ /\ apc[t] \in AtPlace /\ target[t].node \in Node
                              /\ n \in {target[t].node, next[target[t].node]}
      PROVE  target'[t].cb.id \in Ids /\ target'[t].node \in InList(target'[t].cb.id)
  <2>1. target'[t].node = n /\ target'[t].cb = target[t].cb /\ target[t].cb \in Callback
    BY <1>5, GoOnType
  <2>2. List(t) \in Ids /\ List(t) \notin contested /\ n \in Node
    BY <2>1 DEF List, Callback
  <2>3. n \in InList(List(t))
    <3>1. CASE n = msg_sub_heads_list[List(t)]
      BY <1>0, <2>2, <3>1, HeadInList
    <3>2. CASE /\ apc[t] \in AtPlace /\ target[t].node \in Node
               /\ n \in {target[t].node, next[target[t].node]}
      <4>1. target[t].node \in InList(List(t))
        BY <2>2, <3>2 DEF PlaceInList
      <4> QED
        BY <1>0, <2>2, <3>2, <4>1, NextInList
    <3> QED
      BY <1>5, <2>2, <3>1, <3>2
  <2> QED
    BY <2>1, <2>2, <2>3 DEF List
<1>6. CASE AttachIpcHead(t)
  <2>1. /\ apc[t] \in {"reread", "head"}
        /\ GoOn(t, IF apc[t] = "reread" THEN "set" ELSE "test", msg_sub_heads_list[List(t)])
    BY <1>6 DEF AttachIpcHead
  <2>2. msg_sub_heads_list[List(t)] \in Place
    BY <1>0, <2>1 DEF Aimed
  <2>3. PICK l \in Label, n \in Place :
          n = msg_sub_heads_list[List(t)] /\ GoOn(t, l, n) /\ apc[t] # "idle"
    BY <2>1, <2>2 DEF Label
  <2> QED
    BY <1>5, <2>3
<1>7. CASE AttachTest(t) \/ AttachLink(t) \/ AttachEnd(t)
  <2>1. PICK l \in {"move", "set", "link", "relink", "fill"} :
          apc[t] \in {"test", "link", "end"} /\ GoOn(t, l, target[t].node)
    BY <1>7 DEF AttachTest, AttachLink, AttachEnd
  <2>2. l \in Label /\ target[t].node \in Place
    BY <1>0 DEF Label, MemoryTypeOK
  <2> QED
    BY <1>5, <2>1, <2>2
<1>8. CASE AttachMove(t) \/ AttachRelink(t)
  <2>1. PICK l \in {"test", "end"} :
          apc[t] \in {"move", "relink"} /\ GoOn(t, l, next[target[t].node])
    BY <1>8 DEF AttachMove, AttachRelink
  <2>2. target[t].node \in Node
    BY <1>0, <2>1 DEF Aimed
  <2>3. l \in Label /\ next[target[t].node] \in Place
    BY <1>0, <2>2 DEF Label, MemoryTypeOK
  <2>4. /\ apc[t] \in AtPlace /\ apc[t] # "idle"
        /\ next[target[t].node] \in {target[t].node, next[target[t].node]}
    BY <2>1
  <2> HIDE DEF AtPlace
  <2> QED
    BY <1>5, <2>1, <2>2, <2>3, <2>4
<1> QED
  BY <1>1, <1>2, <1>3, <1>4, <1>6, <1>7, <1>8 DEF Attach

LEMMA PlaceStep ==
  ASSUME MemoryInv, PlaceInList, NEW t \in Attachers, Attach(t)
  PROVE  PlaceInList'
<1> SUFFICES ASSUME NEW u \in Attachers, apc'[u] \in AtPlace, target'[u].node \in Node,
                    target'[u].cb.id \notin contested'
             PROVE  (target[u].node \in InList(List(u)))'
  BY DEF PlaceInList, List
<1>1. PICK i : i = target'[u].cb.id
  OBVIOUS
<1>2. i \notin contested /\ i \notin contested'
  BY <1>1, UnracedListGrows
<1>3. i \in Ids /\ target'[u].node \in InList(i)
  <2>1. CASE u = t
    BY <1>1, <1>2, <2>1, PlaceFound
  <2>2. CASE u # t
    <3>1. apc'[u] = apc[u] /\ target'[u] = target[u]
      BY <2>2 DEF Attach, AttachIpcBegin, AttachIpcMalloc, AttachIpcHead, AttachTest,
             AttachMove, AttachIpcSet, AttachLost, AttachBegin, AttachLink, AttachRelink,
             AttachEnd, AttachFill, GoOn, Begin, Return, MemoryInv, MemoryTypeOK
    <3>2. target[u].cb \in Callback
      BY <3>1 DEF MemoryInv, AimedAtNode, Aimed, AtPlace, AtNode
    <3> QED
      BY <1>1, <1>2, <3>1, <3>2 DEF PlaceInList, List, Callback
  <2> QED
    BY <2>1, <2>2
<1>4. target'[u].node \in InList(i)'
  BY <1>2, <1>3, UnracedListGrows
<1>5. (target[u].node \in InList(target[u].cb.id))'
  BY <1>1, <1>4
<1> QED
  BY <1>5 DEF List

\* A callback keeps its node, but for a store to it that counts as a loss or
\* as a race.
LEMMA CallbackKept ==
  ASSUME MemoryInv, NEW t \in Attachers, Attach(t), NEW c \in Callback, c.id \in Ids,
         c \notin displaced', c.id \notin contested',
         NEW n \in InList(c.id), sub_cb[n] = c
  PROVE  sub_cb'[n] = c
<1>0. MemoryTypeOK /\ Aimed(t) /\ n \in Node /\ n <= used /\ owner[n] = c.id
  BY ListedIsOwned DEF MemoryInv, AimedAtNode
<1>1. CASE UNCHANGED sub_cb
  BY <1>1
<1>2. CASE AttachIpcMalloc(t) \/ AttachLink(t)
  <2>1. PICK m \in Node : /\ m = used + 1
                          /\ \E k \in {NoCallback, JunkCallback} : sub_cb' = [sub_cb EXCEPT ![m] = k]
    BY <1>2 DEF AttachIpcMalloc, AttachLink, Allocate
  <2>2. m # n
    BY <1>0, <2>1 DEF MemoryTypeOK
  <2> QED
    BY <1>0, <2>1, <2>2 DEF MemoryTypeOK
<1>3. CASE AttachIpcSet(t)
  <2>1. target[t].node # n
    BY <1>3 DEF AttachIpcSet
  <2> QED
    BY <1>0, <1>3, <2>1 DEF AttachIpcSet, MemoryTypeOK
<1>4. CASE AttachFill(t)
  <2>1. owner[target[t].node] = List(t) /\ target[t].node \in Node
    BY <1>0, <1>4 DEF AttachFill, Aimed, AtPlace, AtNode
  <2>2. target[t].node # n
    BY <1>0, <1>4, <2>1 DEF AttachFill, NoteRace
  <2> QED
    BY <1>0, <1>4, <2>2 DEF AttachFill, MemoryTypeOK
<1> QED
  BY <1>1, <1>2, <1>3, <1>4
     DEF Attach, AttachIpcBegin, AttachIpcHead, AttachTest, AttachMove, AttachLost,
         AttachBegin, AttachRelink, AttachEnd, memory

\* A callback counts as attached when it is in its node, or lost.
LEMMA CallbackPlaced ==
  ASSUME MemoryInv, FateInv, NEW t \in Attachers, Attach(t),
         NEW c \in returned' \ displaced', c \notin returned, c.id \notin contested
  PROVE  c \in Callback /\ \E n \in InList(c.id) : sub_cb'[n] = c
<1>0. MemoryTypeOK /\ Aimed(t)
  BY DEF MemoryInv, AimedAtNode
<1>1. /\ apc[t] \in {"set", "fill"} /\ returned' = returned \cup {target[t].cb}
      /\ sub_cb' = [sub_cb EXCEPT ![target[t].node] = target[t].cb]
  <2>1. ~ \E i \in Ids : AttachLost(t, i)
    BY DEF AttachLost
  <2>2. AttachIpcSet(t) \/ AttachFill(t)
    BY <2>1 DEF Attach, AttachIpcBegin, AttachIpcMalloc, AttachIpcHead, AttachTest,
                AttachMove, AttachBegin, AttachLink, AttachRelink, AttachEnd, fate
  <2> QED
    BY <2>2 DEF AttachIpcSet, AttachFill, Return
<1>2. c = target[t].cb /\ c \in Callback /\ target[t].node \in Node
  BY <1>0, <1>1 DEF Aimed, AtNode
<1>3. target[t].node \in InList(c.id)
  BY <1>1, <1>2 DEF FateInv, PlaceInList, List, AtPlace, AtNode
<1> QED
  BY <1>0, <1>1, <1>2, <1>3 DEF MemoryTypeOK

LEMMA FateStep ==
  ASSUME MemoryInv, FateInv, NEW t \in Attachers, Attach(t)
  PROVE  FateInv'
<1>1. returned' \subseteq Callback
  <2>1. ASSUME NEW i \in Ids, AttachLost(t, i) PROVE returned' \subseteq Callback
    <3>1. attached + 1 \in 1..MaxAttach
      BY <2>1 DEF AttachLost, MemoryInv, MemoryTypeOK
    <3>2. [id |-> i, n |-> attached + 1] \in Callback
      BY <3>1 DEF Callback
    <3> QED
      BY <2>1, <3>2 DEF AttachLost, FateInv
  <2>2. CASE AttachIpcSet(t) \/ AttachFill(t)
    <3>1. target[t].cb \in Callback
      BY <2>2 DEF AttachIpcSet, AttachFill, MemoryInv, AimedAtNode, Aimed
    <3> QED
      BY <2>2, <3>1 DEF AttachIpcSet, AttachFill, Return, FateInv
  <2> QED
    BY <2>1, <2>2
       DEF Attach, AttachIpcBegin, AttachIpcMalloc, AttachIpcHead, AttachTest,
           AttachMove, AttachBegin, AttachLink, AttachRelink, AttachEnd, fate, FateInv
<1>2. PlaceInList'
  BY PlaceStep DEF FateInv
<1>3. displaced \subseteq displaced'
  BY DEF Attach, AttachIpcBegin, AttachIpcMalloc, AttachIpcHead, AttachTest, AttachMove,
         AttachIpcSet, AttachLost, AttachBegin, AttachLink, AttachRelink, AttachEnd,
         AttachFill, fate
<1>4. ASSUME NEW c \in returned' \ displaced', c.id \notin contested'
      PROVE  \E n \in InList(c.id)' : sub_cb'[n] = c
  <2>1. c \in Callback /\ c.id \in Ids /\ c.id \notin contested
    BY <1>1, <1>4, UnracedListGrows DEF Callback
  <2>2. PICK n \in InList(c.id) : sub_cb'[n] = c
    <3>1. CASE c \in returned
      <4>1. PICK n \in InList(c.id) : sub_cb[n] = c
        BY <1>3, <2>1, <3>1 DEF FateInv, OnlyKnownLosses
      <4> QED
        BY <1>4, <2>1, <4>1, CallbackKept
    <3>2. CASE c \notin returned
      BY <2>1, <3>2, CallbackPlaced
    <3> QED
      BY <3>1, <3>2
  <2>3. n \in InList(c.id)'
    BY <1>4, <2>1, <2>2, UnracedListGrows
  <2> QED
    BY <2>2, <2>3
<1>5. OnlyKnownLosses'
  BY <1>4 DEF OnlyKnownLosses
<1> QED
  BY <1>1, <1>2, <1>5 DEF FateInv

\* A callback whose attachment has returned stays in its list, where no
\* attachments raced, unless it is the first that _ipc_attach_cb attached or
\* one that _ipc_attach_ipc_cb stored another over.
THEOREM CallbacksStay == RegistrySpec => []OnlyKnownLosses
<1>1. RegistryInit => FateInv
  BY DEF RegistryInit, FateInv, PlaceInList, OnlyKnownLosses, AtPlace, AtNode
<1>2. MemoryInv /\ FateInv /\ [RegistryNext]_rvars => FateInv'
  <2> SUFFICES ASSUME MemoryInv, FateInv, [RegistryNext]_rvars PROVE FateInv'
    OBVIOUS
  <2>1. CASE Walk \/ UNCHANGED rvars
    <3>1. UNCHANGED <<msg_sub_heads_list, next, sub_cb, apc, target, returned, displaced, contested>>
      BY <2>1 DEF Walk, WalkStart, WalkVisit, WalkAdvance, WalkEnd, rvars, memory,
                  attacher, fate
    <3>2. PlaceInList'
      BY <3>1 DEF FateInv, PlaceInList, List, InList, From, Closed
    <3>3. OnlyKnownLosses'
      BY <3>1 DEF FateInv, OnlyKnownLosses, InList, From, Closed
    <3> QED
      BY <3>1, <3>2, <3>3 DEF FateInv
  <2> QED
    BY <2>1, FateStep DEF RegistryNext
<1>3. FateInv => OnlyKnownLosses
  BY DEF FateInv
<1> QED
  BY <1>1, <1>2, <1>3, RegistryMemory, PTL DEF RegistrySpec

-----------------------------------------------------------------------------
(* The walk                                                                *)

\* The part of the list that the walk has still to run.
Rest == IF wpc = "visit" THEN From(node) ELSE Behind(node)

WalkTypeOK ==
    /\ wpc \in {"idle", "visit", "advance"}
    /\ wpc = "advance" => node \in Node
    /\ node \in Place
    /\ visited \in Seq(Node)

\* A walk that nobody disturbed has run what lies before the rest of its list.
QuietWalkInv ==
    quiet /\ wpc # "idle" =>
        /\ walk_id \in Ids /\ Rest \subseteq InList(walk_id)
        /\ \A n \in Node :
              (\E k \in DOMAIN visited : visited[k] = n) <=>
                  n \in InList(walk_id) \ Rest /\ sub_cb[n] # NoCallback
        /\ \A k \in DOMAIN visited : Rest \subseteq Behind(visited[k])
        /\ \A j, k \in DOMAIN visited : j < k => visited[k] \in Behind(visited[j])

WalkInv == WalkTypeOK /\ QuietWalkInv

\* Attachments that store nothing leave the walk where it is; a store ends
\* what is known of it.
LEMMA AttachKeepsWalk ==
  ASSUME WalkInv, NEW t \in Attachers, Attach(t)
  PROVE  WalkInv'
<1>1. UNCHANGED walker
  BY DEF Attach, AttachIpcBegin, AttachIpcMalloc, AttachIpcHead, AttachTest, AttachMove,
         AttachIpcSet, AttachLost, AttachBegin, AttachLink, AttachRelink, AttachEnd,
         AttachFill
<1>2. WalkTypeOK'
  BY <1>1 DEF WalkInv, WalkTypeOK, walker
<1>3. quiet' = FALSE \/ UNCHANGED <<msg_sub_heads_list, next, sub_cb, quiet>>
  BY DEF Attach, AttachIpcBegin, AttachIpcMalloc, AttachIpcHead, AttachTest, AttachMove,
         AttachIpcSet, AttachLost, AttachBegin, AttachLink, AttachRelink, AttachEnd,
         AttachFill, memory
<1>4. CASE quiet' = FALSE
  BY <1>2, <1>4 DEF WalkInv, QuietWalkInv
<1>5. CASE UNCHANGED <<msg_sub_heads_list, next, sub_cb, quiet>>
  BY <1>1, <1>2, <1>5 DEF WalkInv, QuietWalkInv, walker, Rest, InList, Behind, From, Closed
<1> QED
  BY <1>3, <1>4, <1>5

LEMMA WalkStartKeeps ==
  ASSUME MemoryInv, WalkInv, NEW i \in Ids, WalkStart(i)
  PROVE  WalkInv'
<1>1. /\ walk_id' = i /\ node' = msg_sub_heads_list[i] /\ wpc' = "visit" /\ visited' = <<>>
      /\ UNCHANGED <<msg_sub_heads_list, next, sub_cb>>
  BY DEF WalkStart, memory
<1>2. WalkTypeOK'
  BY <1>1 DEF MemoryInv, MemoryTypeOK, WalkTypeOK
<1>3. Rest' = InList(walk_id)'
  BY <1>1 DEF Rest, InList, From, Closed
<1>4. QuietWalkInv'
  BY <1>1, <1>3 DEF QuietWalkInv, InList, From
<1> QED
  BY <1>2, <1>4 DEF WalkInv

LEMMA WalkVisitKeeps ==
  ASSUME MemoryInv, WalkInv, WalkVisit
  PROVE  WalkInv'
<1>1. /\ wpc = "visit" /\ node \in Node /\ wpc' = "advance"
      /\ visited' = IF sub_cb[node] = NoCallback THEN visited ELSE Append(visited, node)
      /\ UNCHANGED <<msg_sub_heads_list, next, sub_cb, node, walk_id, quiet>>
  BY DEF WalkVisit, memory
<1>2. WalkTypeOK'
  <2>1. visited \in Seq(Node)
    BY DEF WalkInv, WalkTypeOK
  <2>2. visited' \in Seq(Node)
    <3>1. CASE sub_cb[node] = NoCallback
      BY <1>1, <2>1, <3>1
    <3>2. CASE sub_cb[node] # NoCallback
      BY <1>1, <2>1, <3>2
    <3> QED
      BY <3>1, <3>2
  <2> QED
    BY <1>1, <2>2 DEF WalkTypeOK
<1> DEFINE L == InList(walk_id)  R == Behind(node)
<1>3. L' = L /\ Rest' = R /\ \A n \in Node : Behind(n)' = Behind(n)
  BY <1>1 DEF InList, Rest, Behind, From, Closed
<1>4. Rest = {node} \cup R /\ node \notin R
  <2>1. Rest = {node} \cup R
    BY <1>1, FromNode DEF Rest, MemoryInv, MemoryTypeOK
  <2>2. node \in R => node < node
    BY <1>1, BehindIsLater DEF MemoryInv
  <2> QED
    BY <1>1, <2>1, <2>2
<1> HIDE DEF L, R
<1>5. ASSUME quiet
      PROVE  /\ walk_id \in Ids /\ Rest \subseteq L
             /\ \A n \in Node : (\E k \in DOMAIN visited : visited[k] = n) <=>
                                    n \in L \ Rest /\ sub_cb[n] # NoCallback
             /\ \A k \in DOMAIN visited : Rest \subseteq Behind(visited[k])
             /\ \A j, k \in DOMAIN visited : j < k => visited[k] \in Behind(visited[j])
  BY <1>1, <1>5 DEF WalkInv, QuietWalkInv, L
<1>6. visited \in Seq(Node)
  BY DEF WalkInv, WalkTypeOK
<1>7. ASSUME quiet, sub_cb[node] = NoCallback PROVE QuietWalkInv'
  <2>1. visited' = visited
    BY <1>1, <1>7
  <2> QED
    BY <1>1, <1>3, <1>4, <1>5, <1>6, <1>7, <2>1 DEF QuietWalkInv, L
<1>8. ASSUME quiet, sub_cb[node] # NoCallback PROVE QuietWalkInv'
  <2> DEFINE last == Len(visited) + 1
  <2>1. /\ DOMAIN visited' = DOMAIN visited \cup {last} /\ last \notin DOMAIN visited
        /\ visited'[last] = node
        /\ \A k \in DOMAIN visited : visited'[k] = visited[k] /\ visited[k] \in Node /\ k < last
    BY <1>1, <1>6, <1>8
  <2> HIDE DEF last
  <2>2. \A n \in Node : (\E k \in DOMAIN visited' : visited'[k] = n) <=>
                            n \in L \ R /\ sub_cb[n] # NoCallback
    <3>1. \A n \in Node : (\E k \in DOMAIN visited' : visited'[k] = n) <=>
                              n = node \/ \E k \in DOMAIN visited : visited[k] = n
      BY <2>1
    <3> QED
      BY <1>1, <1>4, <1>5, <1>8, <3>1
  <2>3. \A k \in DOMAIN visited' : R \subseteq Behind(visited'[k])
    BY <1>4, <1>5, <1>8, <2>1 DEF R
  <2>4. ASSUME NEW j \in DOMAIN visited', NEW k \in DOMAIN visited', j < k
        PROVE  visited'[k] \in Behind(visited'[j])
    <3>1. j # last
      <4>1. last \in Nat /\ DOMAIN visited \subseteq Nat
        BY <1>6 DEF last
      <4> QED
        BY <2>1, <2>4, <4>1
    <3>2. CASE k = last
      BY <1>4, <1>5, <1>8, <2>1, <3>1, <3>2
    <3>3. CASE k # last
      BY <1>5, <1>8, <2>1, <2>4, <3>1, <3>3
    <3> QED
      BY <3>2, <3>3
  <2>5. \A k \in DOMAIN visited' : visited'[k] \in Node
    BY <1>1, <2>1
  <2> QED
    BY <1>1, <1>3, <1>4, <1>5, <1>8, <2>2, <2>3, <2>4, <2>5 DEF QuietWalkInv, L
<1>9. ASSUME ~ quiet PROVE QuietWalkInv'
  BY <1>1, <1>9 DEF QuietWalkInv
<1>10. QuietWalkInv'
  BY <1>7, <1>8, <1>9, Zenon
<1> QED
  BY <1>2, <1>10, Zenon DEF WalkInv

LEMMA WalkAdvanceKeeps ==
  ASSUME MemoryInv, WalkInv, WalkAdvance
  PROVE  WalkInv'
<1>1. /\ wpc = "advance" /\ node' = next[node] /\ wpc' = "visit" /\ node \in Node
      /\ UNCHANGED <<msg_sub_heads_list, next, sub_cb, walk_id, visited, quiet>>
  BY DEF WalkAdvance, memory, WalkInv, WalkTypeOK
<1>2. WalkTypeOK'
  BY <1>1 DEF WalkInv, WalkTypeOK, MemoryInv, MemoryTypeOK
<1>3. Rest' = Rest
  BY <1>1 DEF Rest, Behind, From, Closed
<1>4. QuietWalkInv'
  BY <1>1, <1>3 DEF WalkInv, QuietWalkInv, InList, Behind, From, Closed
<1> QED
  BY <1>2, <1>4 DEF WalkInv

LEMMA WalkInit == RegistryInit => WalkInv
BY DEF RegistryInit, WalkInv, WalkTypeOK, QuietWalkInv

LEMMA WalkStep == MemoryInv /\ WalkInv /\ [RegistryNext]_rvars => WalkInv'
<1> SUFFICES ASSUME MemoryInv, WalkInv, [RegistryNext]_rvars PROVE WalkInv'
  OBVIOUS
<1>1. CASE WalkEnd
  BY <1>1 DEF WalkEnd, WalkInv, WalkTypeOK, QuietWalkInv
<1>2. CASE UNCHANGED rvars
  BY <1>2 DEF rvars, memory, walker, WalkInv, WalkTypeOK, QuietWalkInv, Rest, InList,
              Behind, From, Closed
<1> QED
  BY <1>1, <1>2, AttachKeepsWalk, WalkStartKeeps, WalkVisitKeeps, WalkAdvanceKeeps
     DEF RegistryNext, Walk

\* A walk that no store of an attachment crosses runs each callback of its list
\* once and in order, whatever state earlier attachments left the list in.
THEOREM QuietWalkIsComplete == RegistrySpec => []QuietWalkRunsAll
<1>1. MemoryInv /\ WalkInv => QuietWalkRunsAll
  <2> SUFFICES ASSUME MemoryInv, WalkInv, wpc = "visit", node = Null, quiet
               PROVE  /\ {visited[k] : k \in DOMAIN visited} =
                             {n \in InList(walk_id) : sub_cb[n] # NoCallback}
                      /\ \A j, k \in DOMAIN visited :
                            j < k => visited[k] \in Behind(visited[j])
    BY DEF QuietWalkRunsAll
  <2>1. Rest = {}
    BY FromEnd DEF Rest
  <2>2. InList(walk_id) \subseteq Node
    BY DEF InList, From
  <2>3. \A k \in DOMAIN visited : visited[k] \in Node
    BY DEF WalkInv, WalkTypeOK
  <2>4. \A n \in Node : (\E k \in DOMAIN visited : visited[k] = n) <=>
                            n \in InList(walk_id) /\ sub_cb[n] # NoCallback
    BY <2>1 DEF WalkInv, QuietWalkInv
  <2>5. {visited[k] : k \in DOMAIN visited} =
            {n \in InList(walk_id) : sub_cb[n] # NoCallback}
    BY <2>2, <2>3, <2>4
  <2> QED
    BY <2>5 DEF WalkInv, QuietWalkInv
<1> QED
  BY <1>1, RegistryMemory, WalkInit, WalkStep, PTL DEF RegistrySpec
=============================================================================
