------------------------- MODULE AudioPipelineProofs --------------------------
(***************************************************************************)
(* The audio pipeline, for windows of any size and any number of passes:   *)
(* a copy is one window that was sampled, and the count of beats is right  *)
(* but for the unsafe check.                                               *)
(***************************************************************************)
EXTENDS AudioPipeline, TLAPS

USE AudioAssumption DEF Element, WholeReads

Sample == [pass : Nat, sampled : BOOLEAN]

\* The pass of the window a thread finds that takes the mutex.
WindowPass == IF adcpc \in {"filter", "fill"} THEN pass - 1 ELSE pass

\* The half of a window that is copied.
Copied == {n \in Element : 2 * n < DataSize}

WindowTypeOK ==
    /\ pass \in Nat /\ filling \in 0..DataSize /\ woken \in Nat
    /\ adcpc \in {"read", "filter", "fill", "broadcast"}
    /\ fftpc \in {"lock", "waiting", "woken", "compute"}
    /\ short \in BOOLEAN /\ fd \in {"open", "none", "closed"}
    /\ data \in [Element -> BOOLEAN]
    /\ filtered_data \in [Element -> Sample]
    /\ input_buffer \in [Element -> Sample]

\* The ADC thread has the mutex exactly while it fills, in a pass.
FillsLocked ==
    /\ lock = "adc" <=> adcpc = "fill"
    /\ adcpc # "read" => pass > 0
    /\ pass > 0 /\ WholeReads => \A n \in Element : data[n]

\* Unless it fills there is one window; while it fills, one up to `filling'.
OneWindow ==
    /\ adcpc # "fill" => \A n \in Element : filtered_data[n].pass = WindowPass
    /\ adcpc = "fill" => \A n \in 0..(filling - 1) : filtered_data[n].pass = pass

SampledWindow ==
    WholeReads =>
       /\ adcpc # "fill" /\ WindowPass > 0 => \A n \in Element : filtered_data[n].sampled
       /\ adcpc = "fill" => \A n \in 0..(filling - 1) : filtered_data[n].sampled

\* A broadcast is never newer than the window that is there to copy.
WokenForWindow ==
    /\ woken <= WindowPass
    /\ fftpc = "woken" => woken > 0

WindowInv ==
    /\ WindowTypeOK /\ FillsLocked /\ OneWindow /\ SampledWindow /\ WokenForWindow
    /\ CopyIsOneFreshWindow /\ SampledUnlessShort

CountInv ==
    /\ num_increment \in Int /\ since \in Int /\ register \in Int
    /\ ~raced /\ beatpc = "add" => register = num_increment
    /\ CountIsSinceCheck

-----------------------------------------------------------------------------
(* The window                                                              *)

\* The invariant holds of what init_adc_reading leaves behind.
LEMMA WindowInitInv == AudioInit => WindowInv
<1> SUFFICES ASSUME AudioInit PROVE WindowInv
  OBVIOUS
<1>1. filtered_data \in [Element -> Sample] /\ input_buffer \in [Element -> Sample]
  BY DEF AudioInit, Unset, Sample
<1>2. WindowTypeOK
  <2>1. /\ data \in [Element -> BOOLEAN] /\ short \in BOOLEAN
        /\ fd \in {"open", "none", "closed"}
    BY Zenon DEF AudioInit
  <2> QED
    BY <1>1, <2>1 DEF AudioInit, WindowTypeOK
<1>3. FillsLocked /\ SampledWindow /\ WokenForWindow
  BY DEF AudioInit, FillsLocked, SampledWindow, WokenForWindow, WindowPass
<1>4. OneWindow
  BY DEF AudioInit, OneWindow, WindowPass, Unset
<1>5. CopyIsOneFreshWindow /\ SampledUnlessShort
  BY DEF AudioInit, CopyIsOneFreshWindow, SampledUnlessShort
<1> QED
  BY <1>2, <1>3, <1>4, <1>5 DEF WindowInv

\* A step that touches neither window nor threads keeps it.
LEMMA WindowStutter ==
  ASSUME WindowInv, UNCHANGED <<adc, input_buffer, sync>>
  PROVE  WindowInv'
BY DEF WindowInv, WindowTypeOK, FillsLocked, OneWindow, SampledWindow, WokenForWindow,
       WindowPass, CopyIsOneFreshWindow, SampledUnlessShort, adc, sync

\* A pass begins with new samples, all of them unless the read was short.
LEMMA ReadKeeps == ASSUME WindowInv, read_adc_data PROVE WindowInv'
<1> USE DEF WindowInv, read_adc_data, fft, sync
<1>1. PICK nbytes \in 0..DataSize :
        /\ fd = "none" => nbytes = 0
        /\ data' = [n \in Element |-> IF n < nbytes THEN fd = "open" ELSE data[n]]
        /\ short' = (short \/ nbytes < DataSize)
  OBVIOUS
<1>2. data' \in [Element -> BOOLEAN]
      /\ (WholeReads' => WholeReads /\ \A n \in Element : data'[n])
  <2> DEFINE new(n) == IF n < nbytes THEN fd = "open" ELSE data[n]
  <2>1. \A n \in Element : new(n) \in BOOLEAN
    BY DEF WindowTypeOK
  <2>2. ~(nbytes < DataSize) /\ fd # "closed" =>
           fd = "open" /\ \A n \in Element : n < nbytes
    BY <1>1 DEF WindowTypeOK
  <2>3. fd = "open" /\ (\A n \in Element : n < nbytes) => \A n \in Element : new(n)
    BY Zenon
  <2> HIDE DEF new
  <2>4. [n \in Element |-> new(n)] \in [Element -> BOOLEAN]
    BY <2>1
  <2>5. data' = [n \in Element |-> new(n)]
    BY <1>1, Zenon DEF new
  <2>6. WholeReads' => WholeReads /\ ~(nbytes < DataSize) /\ fd # "closed"
    <3>1. fd' = fd
      OBVIOUS
    <3> QED
      BY <1>1, <3>1, Zenon DEF WholeReads
  <2> QED
    BY <2>2, <2>3, <2>4, <2>5, <2>6
<1>3. WindowTypeOK' /\ FillsLocked'
  BY <1>1, <1>2 DEF WindowTypeOK, FillsLocked
<1>4. OneWindow' /\ SampledWindow' /\ WokenForWindow'
  BY <1>2 DEF WindowTypeOK, OneWindow, SampledWindow, WokenForWindow, WindowPass
<1>5. CopyIsOneFreshWindow' /\ SampledUnlessShort'
  BY <1>2 DEF CopyIsOneFreshWindow, SampledUnlessShort
<1> QED
  BY <1>3, <1>4, <1>5

\* Nothing is filled yet when the mutex is taken.
LEMMA LockKeeps == ASSUME WindowInv, filter_lock PROVE WindowInv'
BY DEF WindowInv, filter_lock, fft, WindowTypeOK, FillsLocked, OneWindow, SampledWindow,
       WokenForWindow, WindowPass, CopyIsOneFreshWindow, SampledUnlessShort

\* One more element is of this pass, and sampled if all reads were whole.
LEMMA ElementKeeps == ASSUME WindowInv, filter_element PROVE WindowInv'
<1> USE DEF WindowInv, filter_element, fft, sync
<1>1. /\ filling \in Element /\ pass \in Nat /\ pass > 0
      /\ data[filling] \in BOOLEAN /\ (WholeReads => data[filling])
  BY DEF WindowTypeOK, FillsLocked
<1>2. /\ filtered_data' \in [Element -> Sample]
      /\ filtered_data'[filling] = [pass |-> pass, sampled |-> data[filling]]
      /\ \A n \in Element \ {filling} : filtered_data'[n] = filtered_data[n]
  BY <1>1 DEF WindowTypeOK, Sample
<1>3. \A n \in 0..filling : n = filling \/ n \in (Element \ {filling}) \cap 0..(filling - 1)
  BY <1>1
<1>4. WindowTypeOK' /\ FillsLocked'
  BY <1>1, <1>2 DEF WindowTypeOK, FillsLocked
<1>5. OneWindow'
  BY <1>1, <1>2, <1>3 DEF OneWindow, WindowTypeOK
<1>6. SampledWindow'
  BY <1>1, <1>2, <1>3 DEF SampledWindow, WindowTypeOK
<1>7. WokenForWindow' /\ CopyIsOneFreshWindow' /\ SampledUnlessShort'
  BY DEF WokenForWindow, WindowPass, CopyIsOneFreshWindow, SampledUnlessShort
<1> QED
  BY <1>4, <1>5, <1>6, <1>7

\* The mutex is given back with a whole window of this pass.
LEMMA UnlockKeeps == ASSUME WindowInv, filter_unlock PROVE WindowInv'
<1> USE DEF WindowInv, filter_unlock, fft
<1>1. WindowTypeOK' /\ FillsLocked'
  BY DEF WindowTypeOK, FillsLocked
<1>2. OneWindow' /\ SampledWindow' /\ WokenForWindow'
  BY DEF WindowTypeOK, FillsLocked, OneWindow, SampledWindow, WokenForWindow, WindowPass
<1>3. CopyIsOneFreshWindow' /\ SampledUnlessShort'
  BY DEF CopyIsOneFreshWindow, SampledUnlessShort
<1> QED
  BY <1>1, <1>2, <1>3

\* The broadcast wakes for the window that is there.
LEMMA BroadcastKeeps == ASSUME WindowInv, adc_copy_data_complete PROVE WindowInv'
BY DEF WindowInv, adc_copy_data_complete, fft, WindowTypeOK, FillsLocked, OneWindow,
       SampledWindow, WokenForWindow, WindowPass, CopyIsOneFreshWindow, SampledUnlessShort

\* The FFT thread copies under the mutex: one window, at least the one that
\* woke it.
LEMMA CopyKeeps == ASSUME WindowInv, adc_copy_filtered_data PROVE WindowInv'
<1> USE DEF WindowInv, adc_copy_filtered_data, adc
<1>1. /\ adcpc # "fill" /\ 0 \in Copied /\ Copied \subseteq Element
      /\ woken > 0 /\ woken <= WindowPass /\ WindowPass \in Int
  BY DEF FillsLocked, Copied, WokenForWindow, WindowPass, WindowTypeOK
<1>2. \A n \in Copied : input_buffer'[n] = filtered_data[n]
  BY DEF Copied
<1>3. input_buffer' \in [Element -> Sample]
  BY DEF WindowTypeOK
<1>4. WindowTypeOK' /\ FillsLocked'
  BY <1>3 DEF WindowTypeOK, FillsLocked
<1>5. OneWindow' /\ SampledWindow' /\ WokenForWindow'
  BY DEF OneWindow, SampledWindow, WokenForWindow, WindowPass
<1>6. CopyIsOneFreshWindow'
  BY <1>1, <1>2 DEF CopyIsOneFreshWindow, OneWindow, Copied
<1>7. SampledUnlessShort'
  BY <1>1, <1>2 DEF SampledUnlessShort, SampledWindow, WindowTypeOK, Copied
<1> QED
  BY <1>4, <1>5, <1>6, <1>7

\* Waiting and computing leave the windows alone.
LEMMA FftKeeps == ASSUME WindowInv, adc_copy_wait \/ fft_compute PROVE WindowInv'
BY DEF WindowInv, adc_copy_wait, fft_compute, adc, fft, WindowTypeOK, FillsLocked, OneWindow,
       SampledWindow, WokenForWindow, WindowPass, CopyIsOneFreshWindow, SampledUnlessShort

\* Every step of the pipeline keeps the invariant of the window.
LEMMA WindowNextInv == WindowInv /\ [AudioNext]_avars => WindowInv'
<1> SUFFICES ASSUME WindowInv, [AudioNext]_avars PROVE WindowInv'
  OBVIOUS
<1>1. CASE adc_runtime_thread
  BY <1>1, ReadKeeps, LockKeeps, ElementKeeps, UnlockKeeps, BroadcastKeeps
  DEF adc_runtime_thread
<1>2. CASE fft_primary_task
  BY <1>2, CopyKeeps, FftKeeps DEF fft_primary_task
<1>3. CASE fft_copy_thread \/ beat_detection_thread \/ beat_checks_wq \/ UNCHANGED avars
  BY <1>3, WindowStutter DEF fft_copy_thread, fft_copy_data, fft_abs, beat_detection_thread,
     beat_look, beat_add, beat_checks_wq, avars, fft
<1> QED
  BY <1>1, <1>2, <1>3 DEF AudioNext

\* What the FFT thread copies is one window, at least as new as the one whose
\* broadcast woke it (adc_copy_filtered_data), for a window of any size.
THEOREM CopiesOneFreshWindow == AudioSpec => []CopyIsOneFreshWindow
<1>1. WindowInv => CopyIsOneFreshWindow
  BY DEF WindowInv
<1> QED
  BY <1>1, WindowInitInv, WindowNextInv, PTL DEF AudioSpec

\* It is a window the device delivered, unless that was closed or a read was
\* short (init_adc_reading, read_adc_data).
THEOREM CopiesSamples == AudioSpec => []SampledUnlessShort
<1>1. WindowInv => SampledUnlessShort
  BY DEF WindowInv
<1> QED
  BY <1>1, WindowInitInv, WindowNextInv, PTL DEF AudioSpec

-----------------------------------------------------------------------------
(* The count of beats                                                      *)

\* Only the beat thread and its periodic job touch the count.
LEMMA CountNextInv == CountInv /\ [AudioNext]_avars => CountInv'
<1> SUFFICES ASSUME CountInv, [AudioNext]_avars PROVE CountInv'
  OBVIOUS
<1>1. CASE beat_look
  BY <1>1 DEF CountInv, CountIsSinceCheck, beat_look
<1>2. CASE beat_add
  BY <1>2 DEF CountInv, CountIsSinceCheck, beat_add
<1>3. CASE beat_checks_wq
  <2>1. ~raced' /\ beatpc' = "add" => FALSE
    BY <1>3, Zenon DEF beat_checks_wq
  <2> QED
    BY <1>3, <2>1 DEF CountInv, CountIsSinceCheck, beat_checks_wq
<1>4. CASE UNCHANGED beats
  BY <1>4 DEF CountInv, CountIsSinceCheck, beats
<1>5. CASE adc_runtime_thread
  BY <1>5, <1>4 DEF adc_runtime_thread, read_adc_data, filter_lock, filter_element,
     filter_unlock, adc_copy_data_complete
<1>6. CASE fft_primary_task \/ fft_copy_thread
  BY <1>6, <1>4 DEF fft_primary_task, fft_copy_thread, adc_copy_wait, fft_compute,
     adc_copy_filtered_data, fft_copy_data, fft_abs
<1>7. CASE UNCHANGED avars
  BY <1>7, <1>4 DEF avars
<1> QED
  BY <1>1, <1>2, <1>3, <1>5, <1>6, <1>7 DEF AudioNext, beat_detection_thread

\* The count is the number of beats since the check of the periodic job,
\* unless that came between a beat's read and store (beat_detection_thread).
THEOREM CountsBeats == AudioSpec => []CountIsSinceCheck
<1>1. AudioInit => CountInv
  BY DEF AudioInit, CountInv, CountIsSinceCheck
<1>2. CountInv => CountIsSinceCheck
  BY DEF CountInv
<1> QED
  BY <1>1, <1>2, CountNextInv, PTL DEF AudioSpec

=============================================================================
