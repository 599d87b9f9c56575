---------------------------- MODULE AudioPipeline ----------------------------
(***************************************************************************)
(* From the microphone to the beat counter: the ADC thread                 *)
(* (adc_runtime/adc_runtime_main.cxx) filters windows of samples and       *)
(* broadcasts, the FFT thread (fft_runtime/fft_runtime.cxx) waits for them *)
(* and transforms them, the copy thread (fft_runtime/fft_copy_thread.cxx)  *)
(* hands the spectrum on and the beat thread with its periodic job         *)
(* (beat_detection/beat_detection.cxx) counts.                             *)
(*                                                                         *)
(* A sample is not a number: an element of a window records the pass that  *)
(* filtered it and whether the device ever delivered it.  A section under  *)
(* a mutex is one step unless another thread waits inside it.              *)
(***************************************************************************)
EXTENDS Integers

CONSTANTS
    DataSize,     \* samples of a window
    MaxPasses,    \* bound: passes of the ADC thread
    MaxCount      \* bound: beats counted between two checks

ASSUME AudioAssumption ==
    DataSize \in Nat /\ DataSize >= 2 /\ MaxPasses \in Nat /\ MaxCount \in Nat

VARIABLES
    fd,              \* "open", "none" (refused), or "closed" by a failed ioctl
    data,            \* of each element: has the device ever delivered it
    filtered_data,   \* of each element: [pass, sampled]
    lock,            \* who holds adc->lock
    pass, filling,   \* the ADC thread's pass and the element it filters
    adcpc, fftpc,
    woken,           \* history: the pass that was broadcast to the FFT thread
    short,           \* history: a read delivered less than a window
    input_buffer,    \* the FFT thread's copy
    output,          \* what the FFT thread computed last
    copypc, fft_data, shared_buffer,   \* of the copy thread
    beatpc, register,          \* the beat thread's label, and num_increment as read
    num_increment,
    since, raced     \* history: beats since the last check, and an unsafe one

adc     == <<fd, data, filtered_data, pass, filling, adcpc, short>>
fft     == <<input_buffer, output>>
copier  == <<copypc, fft_data, shared_buffer>>
beats   == <<beatpc, register, num_increment, since, raced>>
sync    == <<lock, fftpc, woken>>
avars   == <<adc, fft, copier, beats, sync>>

Element == 0..(DataSize - 1)
Unset == [pass |-> 0, sampled |-> FALSE]

\* init_adc_reading: a failed ioctl closes the device and the rest goes on with
\* its number.
AudioInit ==
    /\ fd \in {"open", "none", "closed"}
    /\ data = [n \in Element |-> FALSE]
    /\ filtered_data = [n \in Element |-> Unset]
    /\ lock = "free" /\ pass = 0 /\ filling = 0
    /\ adcpc = "read" /\ fftpc = "lock" /\ woken = 0 /\ short = FALSE
    /\ input_buffer = [n \in Element |-> Unset]
    /\ output = "zero"
    /\ copypc = "copy" /\ fft_data = "zero" /\ shared_buffer = "zero"
    /\ beatpc = "look" /\ register = 0 /\ num_increment = 0
    /\ since = 0 /\ raced = FALSE

-----------------------------------------------------------------------------
(* The ADC thread                                                          *)

\* Mutant: no window is read.
read_adc_data_late ==
    /\ adcpc = "read" /\ pass < MaxPasses
    /\ pass' = pass + 1 /\ adcpc' = "filter"
    /\ UNCHANGED <<fd, data, short, filtered_data, filling, fft, copier, beats, sync>>

\* Whatever the first read returned, the second one's window goes on: all of
\* it, its beginning, or none.  A closed number may be that of another device
\* that was opened since, whose bytes are no samples.
read_adc_data ==
    /\ adcpc = "read" /\ pass < MaxPasses
    /\ pass' = pass + 1 /\ adcpc' = "filter"
    /\ \E nbytes \in 0..DataSize :
          /\ fd = "none" => nbytes = 0
          /\ data' = [n \in Element |-> IF n < nbytes THEN fd = "open" ELSE data[n]]
          /\ short' = (short \/ nbytes < DataSize)
    /\ UNCHANGED <<fd, filtered_data, filling, fft, copier, beats, sync>>

filter_lock ==
    /\ adcpc = "filter" /\ lock = "free"
    /\ lock' = "adc" /\ filling' = 0 /\ adcpc' = "fill"
    /\ UNCHANGED <<fd, data, filtered_data, pass, short, fft, copier, beats, fftpc, woken>>

filter_element ==
    /\ adcpc = "fill" /\ filling < DataSize
    /\ filtered_data' = [filtered_data EXCEPT ![filling] =
                            [pass |-> pass, sampled |-> data[filling]]]
    /\ filling' = filling + 1
    /\ UNCHANGED <<fd, data, pass, adcpc, short, fft, copier, beats, sync>>

\* Mutant: the mutex is released before the last element is written.
filter_unlock_early ==
    /\ adcpc = "fill" /\ filling = DataSize \div 2 - 1
    /\ lock' = "free" /\ adcpc' = "broadcast"
    /\ UNCHANGED <<fd, data, filtered_data, pass, filling, short, fft, copier, beats, fftpc, woken>>

filter_unlock ==
    /\ adcpc = "fill" /\ filling = DataSize
    /\ lock' = "free" /\ adcpc' = "broadcast"
    /\ UNCHANGED <<fd, data, filtered_data, pass, filling, short, fft, copier, beats, fftpc, woken>>

\* Mutant: the waiting thread is not woken.
adc_copy_data_silent ==
    /\ adcpc = "broadcast" /\ adcpc' = "read"
    /\ UNCHANGED <<fd, data, filtered_data, pass, filling, short, fft, copier, beats, sync>>

\* Without the mutex: a thread that is about to wait misses it.
adc_copy_data_complete ==
    /\ adcpc = "broadcast" /\ adcpc' = "read"
    /\ IF fftpc = "waiting" THEN fftpc' = "woken" /\ woken' = pass
                            ELSE UNCHANGED <<fftpc, woken>>
    /\ UNCHANGED <<fd, data, filtered_data, pass, filling, short, lock, fft, copier, beats>>

adc_runtime_thread ==
    \/ read_adc_data \/ filter_lock \/ filter_element \/ filter_unlock
    \/ adc_copy_data_complete

-----------------------------------------------------------------------------
(* The FFT thread                                                          *)

\* pthread_cond_wait releases the mutex at once.
adc_copy_wait ==
    /\ fftpc = "lock" /\ lock = "free" /\ fftpc' = "waiting"
    /\ UNCHANGED <<adc, fft, copier, beats, lock, woken>>

\* The caller's size counts elements where the copy counts bytes: half.
adc_copy_filtered_data ==
    /\ fftpc = "woken" /\ lock = "free" /\ fftpc' = "compute"
    /\ input_buffer' = [n \in Element |->
          IF 2 * n < DataSize THEN filtered_data[n] ELSE input_buffer[n]]
    /\ UNCHANGED <<adc, output, copier, beats, lock, woken>>

fft_compute ==
    /\ fftpc = "compute" /\ fftpc' = "lock"
    /\ output' = "spectrum"
    /\ UNCHANGED <<adc, input_buffer, copier, beats, lock, woken>>

fft_primary_task == adc_copy_wait \/ adc_copy_filtered_data \/ fft_compute

-----------------------------------------------------------------------------
(* The copy thread, the beat thread and its periodic job                   *)

fft_copy_data ==
    /\ copypc = "copy" /\ copypc' = "abs"
    /\ fft_data' = output
    /\ UNCHANGED <<adc, fft, shared_buffer, beats, sync>>

\* The arguments are source, then destination: the spectrum is overwritten.
\* The length counts bytes, so the copy runs on behind both buffers, and if
\* shared_buffer lies there it gets what lies behind itself.
fft_abs ==
    /\ copypc = "abs" /\ copypc' = "copy"
    /\ fft_data' = shared_buffer
    /\ shared_buffer' \in {shared_buffer, "other"}
    /\ UNCHANGED <<adc, fft, beats, sync>>

fft_copy_thread == fft_copy_data \/ fft_abs

\* Silence is below the threshold.
beat_look ==
    /\ beatpc = "look" /\ num_increment < MaxCount
    /\ shared_buffer # "zero"
    /\ register' = num_increment /\ beatpc' = "add"
    /\ UNCHANGED <<adc, fft, copier, sync, num_increment, since, raced>>

beat_add ==
    /\ beatpc = "add" /\ beatpc' = "look"
    /\ num_increment' = register + 1
    /\ since' = since + 1
    /\ UNCHANGED <<adc, fft, copier, sync, register, raced>>

beat_detection_thread == beat_look \/ beat_add

\* Mutant: the count goes on.
beat_checks_keep ==
    /\ since' = 0 /\ raced' = (beatpc = "add")
    /\ UNCHANGED <<adc, fft, copier, sync, beatpc, register, num_increment>>

beat_checks_wq ==
    /\ num_increment' = 0
    /\ since' = 0 /\ raced' = (beatpc = "add")
    /\ UNCHANGED <<adc, fft, copier, sync, beatpc, register>>

AudioNext ==
    \/ adc_runtime_thread \/ fft_primary_task \/ fft_copy_thread
    \/ beat_detection_thread \/ beat_checks_wq

AudioSpec == AudioInit /\ [][AudioNext]_avars

-----------------------------------------------------------------------------
(* Properties                                                              *)

\* What the FFT thread copied is one window, not parts of two, and at least
\* as new as the one whose broadcast woke it.
CopyIsOneFreshWindow ==
    fftpc = "compute" =>
        \A n \in Element : 2 * n < DataSize =>
            /\ input_buffer[n].pass = input_buffer[0].pass
            /\ input_buffer[n].pass >= woken

\* The device was not closed and has delivered whole windows.
WholeReads == fd # "closed" /\ ~short

\* Only a device that was closed or delivered less than a window makes the FFT
\* thread transform memory that was never sampled: nothing stops the
\* pipeline then.
SampledUnlessShort ==
    fftpc = "compute" /\ WholeReads =>
        \A n \in Element : 2 * n < DataSize => input_buffer[n].sampled

\* Although a broadcast is lost on a thread that is not waiting yet, a wait
\* ends as long as further passes come.
EveryWaitEnds == fftpc = "waiting" /\ pass < MaxPasses ~> fftpc = "compute"

\* The count is the number of beats since the periodic check, unless that
\* check came between a beat's read of the count and its store.
CountIsSinceCheck == ~raced => num_increment = since

=============================================================================
