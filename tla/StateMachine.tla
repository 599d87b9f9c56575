---------------------------- MODULE StateMachine ----------------------------
(***************************************************************************)
(* The state machine library (statemachine/statemachine.cxx): a table of   *)
(* states, each with the events it takes, and the two calls that leave one *)
(* state for another.  Exit, event and entry functions belong to the       *)
(* caller: they may redirect the transition through their pointer to       *)
(* next_state, and they may call the machine again before they return.     *)
(***************************************************************************)
EXTENDS Integers, Sequences

CONSTANTS
    StateLists,    \* the tables a program may have
    UsedEvents,    \* events that are submitted
    MaxDepth,      \* bound: calls under way at once
    MaxCalls       \* bound: calls ever made

ASSUME StateMachineAssumption ==
    /\ MaxDepth \in Nat \ {0} /\ MaxCalls \in Nat
    /\ \A list \in StateLists : 0 \in DOMAIN list   \* the state it starts in

NullState == -1
NullEvent == -1

VARIABLES
    states_list,      \* the table: [num_events, events_list] of each state
    current_state,
    num_events,       \* malloc's: no function ever sets it
    stack,            \* the calls under way, innermost last
    calls,            \* calls made
    status,           \* what the last call returned
    entered,          \* history: the state whose entry function ran last
    diverted          \* history: that state need not be the one stored, see RunEntry

history == <<entered, diverted>>
machine == <<states_list, current_state, num_events>>
smvars  == <<machine, stack, calls, status, history>>

State == DOMAIN states_list
Top == stack[Len(stack)]
\* The innermost call goes on at a label, to a state.
GoOn(label, next) ==
    stack' = [stack EXCEPT ![Len(stack)] =
                 [by |-> Top.by, event |-> Top.event, at |-> label,
                  from |-> Top.from, next |-> next]]

\* Lists start at 0; the last entry of one is the sentinel.
Entry(event, next) == [event_id |-> event, next_state |-> next]
Sentinel == Entry(NullEvent, NullState)
EventList(a, b, c) ==
    [n \in 0..3 |-> CASE n = 0 -> Entry(0, a) [] n = 1 -> Entry(1, b)
                      [] n = 2 -> Entry(2, c) [] n = 3 -> Sentinel]
Listed(l) == [num_events |-> 3, events_list |-> l]

\* The table of the library's own test.
test_state_list ==
    [s \in 0..2 |-> CASE s = 0 -> Listed(EventList(1, 0, 2))
                      [] s = 1 -> Listed(EventList(0, 1, 2))
                      [] s = 2 -> Listed(EventList(0, 0, 1))]

\* What num_events holds lets statemachine_set_state pass every state, none,
\* or those up to one.
init_new_statemachine(list, init_state) ==
    /\ states_list = list
    /\ current_state = init_state
    /\ num_events \in {0} \cup {s + 1 : s \in DOMAIN list}
    /\ stack = <<>> /\ calls = 0 /\ status = "MK_OK"
    /\ entered = init_state /\ diverted = FALSE

SMInit == \E list \in StateLists : init_new_statemachine(list, 0)

-----------------------------------------------------------------------------
(* Submitting an event                                                     *)

\* The position at which the loop over a state's events stops.
Matches(s, event) ==
    {n \in 0..(states_list[s].num_events - 1) :
        states_list[s].events_list[n].event_id \in {event, NullEvent}}
Found(s, event) ==
    LET n == CHOOSE n \in Matches(s, event) : \A k \in Matches(s, event) : n <= k
    IN  states_list[s].events_list[n]

\* The caller may be a function of the call under way.
MayCall ==
    /\ calls < MaxCalls /\ calls' = calls + 1
    /\ \/ stack = <<>>
       \/ stack # <<>> /\ Len(stack) < MaxDepth /\ Top.at # "exit"

\* Refused: no function runs.
SubmitRefused(event) ==
    /\ MayCall
    /\ \/ /\ Matches(current_state, event) = {}
          /\ status' = "MK_INVALID_PARAM"
       \/ /\ Matches(current_state, event) # {}
          /\ Found(current_state, event).event_id # event
          /\ status' = "MK_NOT_INITED"
    /\ UNCHANGED <<machine, stack, history>>

StartSubmit(event) ==
    /\ MayCall
    /\ Matches(current_state, event) # {}
    /\ Found(current_state, event).event_id = event
    /\ stack' = Append(stack,
          [by |-> "submit", event |-> event, at |-> "exit", from |-> current_state,
           next |-> Found(current_state, event).next_state])
    /\ UNCHANGED <<machine, status, history>>

\* An exit function may change where the transition goes.
RunExit ==
    /\ stack # <<>> /\ Top.at = "exit"
    /\ \E next \in State :
          GoOn(IF Top.by = "submit" THEN "event" ELSE "entry", next)
    /\ UNCHANGED <<machine, calls, status, history>>

\* The event's id, not its position, is the index of its function; a
\* sentinel has none.  An id past the list is undefined: no step.
RunEvent ==
    /\ stack # <<>> /\ Top.at = "event"
    /\ LET list == states_list[Top.from].events_list
       IN  /\ Top.event \in DOMAIN list
           /\ \/ list[Top.event].event_id = NullEvent /\ GoOn("entry", Top.next)
              \/ /\ list[Top.event].event_id # NullEvent
                 /\ \E next \in State : GoOn("entry", next)
    /\ UNCHANGED <<machine, calls, status, history>>

\* A call below the innermost that has its next state and will store it.
Storing == \E k \in 1..Len(stack) - 1 : stack[k].at = "store"

\* An entry function that redirects changes the state that is stored, and the
\* entry function of that state does not run.  statemachine_set_state does not
\* store at all, and a call whose entry function made this one stores last.
RunEntry ==
    /\ stack # <<>> /\ Top.at = "entry"
    /\ entered' = Top.next
    /\ \E next \in State :
          /\ GoOn("store", next)
          /\ diverted' = (next # Top.next \/ Top.by = "set" \/ Storing)
    /\ UNCHANGED <<machine, calls, status>>

\* Mutant: the state stored is the one the table lists.
StoreListed ==
    /\ stack # <<>> /\ Top.at = "store" /\ Top.by = "submit"
    /\ current_state' = Found(Top.from, Top.event).next_state
    /\ status' = "MK_OK" /\ stack' = SubSeq(stack, 1, Len(stack) - 1)
    /\ UNCHANGED <<states_list, num_events, calls, history>>

Store ==
    /\ stack # <<>> /\ Top.at = "store" /\ Top.by = "submit"
    /\ current_state' = Top.next
    /\ status' = "MK_OK" /\ stack' = SubSeq(stack, 1, Len(stack) - 1)
    /\ UNCHANGED <<states_list, num_events, calls, history>>

statemachine_submit_event(event) ==
    SubmitRefused(event) \/ StartSubmit(event)

-----------------------------------------------------------------------------
(* Setting a state                                                         *)

SetRefused(next) ==
    /\ MayCall /\ num_events <= next
    /\ status' = "MK_INT_ERR"
    /\ UNCHANGED <<machine, stack, history>>

StartSet(next) ==
    /\ MayCall /\ num_events > next
    /\ stack' = Append(stack, [by |-> "set", event |-> NullEvent, at |-> "exit",
                               from |-> current_state, next |-> next])
    /\ UNCHANGED <<machine, status, history>>

\* The state that was entered is not stored.
SetReturn ==
    /\ stack # <<>> /\ Top.at = "store" /\ Top.by = "set"
    /\ status' = "MK_OK" /\ stack' = SubSeq(stack, 1, Len(stack) - 1)
    /\ UNCHANGED <<machine, calls, history>>

statemachine_set_state(next) == SetRefused(next) \/ StartSet(next)

SMNext ==
    \/ \E event \in UsedEvents : statemachine_submit_event(event)
    \/ \E next \in State : statemachine_set_state(next)
    \/ RunExit \/ RunEvent \/ RunEntry \/ Store \/ SetReturn

SMSpec == SMInit /\ [][SMNext]_smvars

-----------------------------------------------------------------------------
(* Properties                                                              *)

\* Between calls the machine is in the state whose entry function ran last,
\* whatever exit and event functions redirected, whatever calls they made and
\* whatever happened in earlier calls, unless that entry function redirected,
\* the state was set, or an entry function made the call.
InStateEnteredLast ==
    stack = <<>> /\ ~diverted => current_state = entered

=============================================================================
