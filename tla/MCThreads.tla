------------------------------ MODULE MCThreads ------------------------------
(***************************************************************************)
(* Four groups of threads that share no state, checked side by side: the   *)
(* registry and the audio pipeline of the firmware, the UART threads of    *)
(* the Linux port and the strip threads of the Pico.  A behaviour is one   *)
(* of the group in focus.  The ADC thread and the FFT thread are scheduled *)
(* fairly (round robin).                                                   *)
(***************************************************************************)
EXTENDS SubscribeRegistry, AudioPipeline, LinuxPort, PicoStrips

VARIABLE focus   \* the group of this behaviour

threadvars == <<focus, rvars, avars, linuxvars, picovars>>

\* More nodes than the ring holds; an acknowledgement, a frame for the
\* subscribers and one that does not fit.
LinuxNode(len, buffer, callback) ==
    [id |-> 1, len |-> len, buffer |-> buffer, callback |-> callback]
LinuxNodes ==
    << LinuxNode(0, FALSE, FALSE), LinuxNode(2, TRUE, TRUE),
       LinuxNode(0, FALSE, TRUE), LinuxNode(3, TRUE, TRUE) >>
SomeHeaders == {[len |-> 0, id |-> 0], [len |-> 1, id |-> 1], [len |-> 9, id |-> 1]}

ThreadsInit ==
    /\ focus \in {"registry", "audio", "linux", "pico"}
    /\ RegistryInit /\ AudioInit /\ LinuxInit /\ PicoInit
    /\ focus # "audio" => fd = "none"
    /\ focus # "linux" => list_head = "null" /\ ipc_publish_queue_module = "module"

ThreadsNext ==
    /\ UNCHANGED focus
    /\ \/ focus = "registry" /\ RegistryNext /\ UNCHANGED <<avars, linuxvars, picovars>>
       \/ focus = "audio" /\ AudioNext /\ UNCHANGED <<rvars, linuxvars, picovars>>
       \/ focus = "linux" /\ LinuxNext /\ UNCHANGED <<rvars, avars, picovars>>
       \/ focus = "pico" /\ PicoNext /\ UNCHANGED <<rvars, avars, linuxvars>>

others == <<focus, rvars, linuxvars, picovars>>

AudioFairness ==
    /\ WF_threadvars(focus = "audio" /\ adc_runtime_thread /\ UNCHANGED others)
    /\ WF_threadvars(focus = "audio" /\ fft_primary_task /\ UNCHANGED others)

ThreadsSpec == ThreadsInit /\ [][ThreadsNext]_threadvars /\ AudioFairness
=============================================================================
