------------------------------ MODULE MCDevices -------------------------------
(***************************************************************************)
(* The libraries below the services, which share no state, checked side by *)
(* side: a behaviour is one of the component in focus.  What a component   *)
(* finds in memory at the start is left open only where it is in focus.    *)
(***************************************************************************)
EXTENDS StateMachine, OsLayer, Devices, LedDrivers

VARIABLE focus
libvars == <<focus, smvars, ovars, dvars, lvars>>

\* The test's table, one in another order, and one whose sentinel comes early.
Reversed ==
    [s \in 0..2 |-> Listed([n \in 0..3 |-> CASE n = 0 -> Entry(2, 0) [] n = 1 -> Entry(1, 2)
                                             [] n = 2 -> Entry(0, 1) [] n = 3 -> Sentinel])]
Sparse ==
    [s \in 0..2 |-> [num_events |-> 3,
                     events_list |-> [n \in 0..2 |-> CASE n = 0 -> Entry(0, 1)
                                                       [] n = 1 -> Entry(2, 2)
                                                       [] n = 2 -> Sentinel]]]
Tables == {test_state_list, Reversed, Sparse}

\* Hues on both sides of the borders of their sextants.
SomeColours == [h : {0, 42, 43, 85, 128, 171, 255}, s : {0, 128, 255}, v : {0, 1, 200}]

LibInit ==
    /\ focus \in {"statemachine", "queue", "bits", "semaphore", "files", "gpio", "strip", "matrix"}
    /\ SMInit /\ OsInit /\ DevicesInit /\ LedInit
    /\ focus # "statemachine" => states_list = test_state_list /\ num_events = 0
    /\ focus # "bits" => ~sem_wait
    /\ focus # "gpio" => conf.pin = 1 /\ conf.drive = "FLOAT" /\ conf.edge = "HIGH"
    /\ focus # "strip" => ~sent
    /\ focus # "matrix" => number_of_devices = 0 /\ cols = [c \in Column |-> 0]

LibNext ==
    /\ UNCHANGED focus
    /\ \/ focus = "statemachine" /\ SMNext /\ UNCHANGED <<ovars, dvars, lvars>>
       \/ /\ \/ focus = "queue" /\ \E t \in Threads : QueueCall(t)
             \/ focus = "bits" /\ \E t \in Threads : BitCall(t)
             \/ focus = "semaphore" /\ (os_sem_entry \/ os_sem_entry_wait_indefinite)
          /\ UNCHANGED <<smvars, dvars, lvars>>
       \/ /\ \/ focus = "files" /\ FileCall
             \/ focus = "gpio" /\ GpioCall
          /\ UNCHANGED <<smvars, ovars, lvars>>
       \/ /\ \/ focus = "strip" /\ StripNext
             \/ focus = "matrix" /\ MatrixNext
          /\ UNCHANGED <<smvars, ovars, dvars>>

LibSpec == LibInit /\ [][LibNext]_libvars

=============================================================================
