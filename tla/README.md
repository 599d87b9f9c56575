# Interactive Rave Lights: a formal model

The repository holds the firmware of a light show: a Spresense board (NuttX) samples a microphone, computes
its spectrum, paints an LED strip from it, and exchanges messages with other processors over a UART. This
directory models the parts of that firmware whose correctness depends on the order in which its threads run,
checks them with TLC and proves the central ones with TLAPS.

Paths below are relative to `src/InteractiveRaveLights/InteractiveRaveLights/` unless they begin with `src/`.

## The system

`thread_init/thread_init.cxx` runs the init function of each of the twelve entries of `THREAD_LIST` in order
and then creates twelve threads with default attributes: one priority, and round robin, because the build sets
`CONFIG_RR_INTERVAL=200` (`sdk.config:440`). All threads share one address space, and the build is an SMP one
(`CONFIG_SMP=y`, six CPUs, `sdk.config:431`), so they may also run in parallel. So `Init` of every module is the state
after all init functions have run, and every interleaving of the threads' loads and stores is possible. That memory is
sequentially consistent is assumed.

| Component | State | Operations | Talks to |
|---|---|---|---|
| publish queue (`uart_eventpublish/ipc_message_publishqueue.cxx`) | ring of message nodes, head, tail, size; flag `waiting`; two semaphores; a mutex | publish = push + signal, consume = wait + pop, acknowledge | publishers call it from any thread; the UART publish thread consumes |
| UART threads (`uart_eventpublish/ipc_thread.cxx`, `ipc.cxx`) | file descriptor, content buffer, `ack_waiting` and its semaphore | publish thread: consume, write header and body, wait for the acknowledgement, call back. Consume thread: read header, flush, read body, run subscribers, flush | queue, registry, the port |
| subscribe registry (`ipc_message_subscribequeue.cxx`) | a list of callbacks and a mutex for each message id | two ways to attach, run all (which publishes an acknowledgement) | called by the consume thread, publishes to the queue |
| LED strip (`strip_animation_module`, `strip_update_module`, `led_strip_threads`) | colours of all LEDs and their mutex; for each animation module its type, flag, matrices and mutex | a frame of each animation, set up, stop, set and get an LED, copy the strip to the driver | each module reads the spectrum and paints a segment |
| audio pipeline (`adc_runtime`, `fft_runtime`, `beat_detection`) | ADC buffers with a mutex and a condition variable, spectrum, shared spectrum, beat counter | sample, filter, broadcast; transform; copy; count beats | in a chain, each through one locked buffer |
| state machine library (`statemachine`) | current state, table of states and events | submit event, set state, with callbacks that may change the next state or call again | used by its test only |
| OS abstraction (`CSAL`) | a queue, event bits, mutex and semaphore wrappers, conversion of errors | push and pop with and without a timeout; signal, clear and wait for bits; take a semaphore | used by nothing yet |
| hardware abstraction (`CHAL`), `i2s_mic` | one descriptor for each ADC, I2C, SPI and UART handle, GPIO configuration | begin, end, transfer, configure, read back | the board |
| LED drivers (`ws2812b`, `max7219_led_driver`, `matrix_animation_thread`) | byte buffers of the strip and of the matrix | set and clear a colour or pixel, send | the SPI port |
| Linux port (`src/uart_eventpublish_linux_test`) | a ring with a condition variable, its own two threads and registry | as the UART layer | a PC; its `main` starts none of the threads |
| Pico strip co-processor (`src/stripCoProcessor`) | a frame buffer, a buffer, an event group and a mutex for each strip | read a frame, copy, notify; wait, show | receives colours from a serial port |

What is hard, and what makes each component correct:

* **Publish queue.** Push and signal are two critical sections, and the waiting loop reads its flag without
  the mutex. Correct means: first in first out across the wrap-around, no wakeup lost, a sleeper finds its
  token, every accepted message is delivered, every call returns unlocked, and a consumer gets messages only.
* **LED strip.** A frame is many short critical sections, two modules and the update thread interleave LED by
  LED, and an animation can be stopped between any two steps. Correct means: a module paints its own segment,
  a frame has the arrays it uses, a fade ends, a stopped segment goes blank.
* **UART threads.** Header and body are two writes, the reader flushes the port around each frame, and what
  the callback is told is computed from several results. Correct means: a frame that was sent is delivered or
  reported failed, an acknowledgement is not thrown away, success is reported only for what succeeded.
* **Registry.** Lists changed while they are walked, and a head handled as a copy. Correct means: every
  attached callback runs once for every message of its id, in the order of attachment.
* **Audio pipeline.** A condition variable without a predicate, an unlocked counter, buffers copied between
  threads. Correct means: a consumer never sees half of a window, eventually sees a new one, and a beat is
  counted once.
* **State machine.** Callbacks rewrite the transition while it runs. Correct means: exit, event and entry
  functions belong to the transition that is taken, and the state afterwards is the one that was entered.
* **OS abstraction.** Its mutex call fails without anybody looking. Correct means: its queue and its bits do what
  their headers say at their limits and under concurrent calls.
* **Hardware abstraction.** Numbers of closed descriptors are given out again. Correct means: a handle in use has
  the device it opened, and a pin reads back as it was configured.
* **LED drivers.** Bit patterns and shared byte buffers. Correct means: the wire carries the colour that was set,
  and a chip of the matrix gets the register and the data meant for it (it does not, see Findings).
* **Ports.** Signals before pushes, a wait outside the lock, mutexes that are not given back. Correct means what
  it means for the firmware; the models say which part of it is left.

## Modules

| Module | Models | Role |
|---|---|---|
| `MessageFifo` | what a publish queue promises | abstract specification of both queues, the firmware's and the Linux port's: a bounded fifo |
| `PublishQueue` | `ipc_message_publishqueue.cxx` | detailed specification, its properties, its refinement mapping |
| `PublishQueueProofs` | | theorems about `PublishQueue` |
| `MCPublishQueue` | | TLC instance |
| `StripAnimation` | `strip_animation_module.cxx`, `strip_update_module.cxx` | specification and properties |
| `StripAnimationProofs` | | theorems |
| `MCStripAnimation` | `led_strip_threads` | TLC instances: the modules and their segments |
| `UartLink` | `ipc_thread.cxx`, `ipc.cxx`, the acknowledgements of both queues | both UART threads composed with `MessageFifo`, the port and a peer |
| `UartLinkProofs`, `MCUartLink` | | theorems; TLC instances |
| `SubscribeRegistry` | `ipc_message_subscribequeue.cxx` | specification and properties |
| `SubscribeRegistryProofs` | | theorems |
| `AudioPipeline` | `adc_runtime`, `fft_runtime`, `beat_detection` | four threads and a periodic job, and their properties |
| `AudioPipelineProofs` | | theorems |
| `LinuxPort` | `src/uart_eventpublish_linux_test` | queue, both threads, registry; refinement mapping of its ring |
| `PicoStrips` | `src/stripCoProcessor/src/serial_communication_thread.cpp` | serial thread and strip threads |
| `PortProofs` | | theorems about the two |
| `MCThreads` | | TLC instance of the registry, the pipeline and the two ports, one of them in focus |
| `StateMachine` | `statemachine` | both calls, re-entered; table of its test |
| `OsLayer` | `CSAL` | queue, bits, semaphore, errors |
| `Devices` | `CHAL` | descriptors and GPIO |
| `LedDrivers` | `ws2812b`, `max7219_led_driver` | colours on the wire, frames of the matrix |
| `LibraryProofs` | | theorems about the last four |
| `InductionLemmas` | | induction in terms of sets, the type of a flattened sequence; lemmas of the proofs |
| `MCDevices` | | TLC instance of the same four, one of them in focus |

### PublishQueue

One action is what a thread does between two points where another thread can interfere: taking the mutex,
each store to the ring, the update of positions and sizes together with the unlock, the unlocked test of
`waiting`, the semaphore.

* A producer runs `PushLock`, then `PushFull` (the early return) or `PushStore` and `PushAdvance`, and then
  `SignalLock` and `Signal`. The result of the push is ignored by `_ipc_publish_message`, so a publish that
  was dropped signals too.
* The consumer runs `WaitLock`, `WaitCheck`, then `WaitTest` and `SemWait` for as long as the flag is up, then
  `PopLock`, and `PopEmpty` (the early return) or `PopLoad` and `PopAdvance`.
* `mutex` holds its owner, because both early returns keep it. What a lock by the owner does depends on the
  RTOS build: it blocks, or returns an error that no caller looks at. Which of the two the firmware meets is
  decided by `CONFIG_PTHREAD_MUTEX_ROBUST` and `CONFIG_PTHREAD_MUTEX_TYPES` (`sdk.config:448`); the constant
  `RelockBlocks` stands for both, and the theorems hold for both.
* `accepted`, `delivered`, `undefined_returns` are history variables; `node` is the consumer's local node,
  `Undefined` until it is set.

Assumed: functions that lack a `return` return normally (their callers ignore the value), `malloc` succeeds,
each message is published once by one producer. What happens to a node that was never set, once it was handed
out, is outside the module.

### StripAnimation

A runtime thread repeats `CopyFft`, `Setup`, `LockAnimation`, one `Frame...` action, one `SetLed` (or
`FadeRead` and `SetLed`) for each LED, `EndFrame`. `StopAnimation` can happen whenever the animation mutex is
free, `UpdateStrip` whenever the strip's mutex is. A frame computes its list of `strip_set_leds` calls (`todo`)
in one step: it depends only on the module's own arrays, which only its thread touches while the animation
mutex is held. Fades are the exception, since they read the strip; each of their reads is a step.

The data is abstracted: a colour is the level it was computed from, all samples of one frame have one level,
and levels after division are small numbers. `DropBars` is the 12 that `strip_peak_drop_decrement` has for the number of bars it
lowers, and `FftSize` the number of samples of a module: the peak animation paints nothing with fewer samples than LEDs
(`FrameThreeShort`). The peak animation (`TYPE_THREE`) drops a level a frame for the
code's 60 counts of 2048. `strip_cols` has one cell before and one after the array, since the code's bound
check lets those indices through. Two kinds of undefined behaviour end the model's steps or widen them: a frame
over a freed matrix has no step, and neither has `TYPE_THREE` in a module whose lower bound is not 0 (it adds
the bound to the pointer of the strip, `strip_animation_module.cxx:235`); a sample past the end of `fft_data`
is any level. `animation_type_rainbow_one` and `peak_management_wq` are called by nothing and left out.

### UartLink

The two threads run loop by loop over the abstract queue, which `PublishQueue` is proved to implement, up to the
first node that nobody published: after one, the publish thread writes whatever memory held, or blocks on the
mutex it kept. A byte of the port is the frame it belongs to and its place in it, so a property can say which
bytes a header was made of; bytes that are no header make any header of `WildHeaders`.
The peer's frames are a sequence of headers; `sent` is the byte it sent last, `Coming` the next one, in the same
frame or in the one after it.

* The consume thread is `ReadHeader` (one `read` at a time), `LetPass` for an overlong frame,
  `FlushBeforeBody`, `ReadBody`, `BodyRead`, `SleepAndFlush`, `RunSubscribers`, `FlushAfterFrame`. A flush empties
  both directions, as `TCIOFLUSH` does.
* The publish thread is `ConsumeEvent`, `WriteHeader`, `WriteBody`, `WaitAck`. Each write may be short. The body's
  result is compared with the size of a header, as in the code.
* `AckWaiting` is the flag `ack_waiting`, which the init function clears and nothing sets. So the wait neither
  takes a token nor waits, and since `ipc_msg_wait_recieve_cmd_ack` has no `return`, the status after it is any
  of the three.
* `AppPublish` stands for a call of `ipc_publish_message` by any other thread. The firmware at this commit starts
  none that publishes: the entry for `test_thread` in `THREAD_LIST` starts its init function. What an application
  publishes is no acknowledgement (`MessageAssumption`): only `_ipc_run_all_sub_cb` makes those.
* Assumed: a read delivers at least one byte; the peer waits between a header and its body, and after a frame,
  until the firmware reads again (`Paced`). Without that pause the flushes lose parts of frames by design.

### SubscribeRegistry

Nodes are numbers in the order of allocation. The loops over `next` become sets: `From(n)` is what every set that has
`n` and is closed under `next` has, so that no recursion stands between the lists and the provers. Each load and each store
of a head or of a node is a step, because the mutex that `_ipc_attach_cb` and the walk take is in a copy of the list, and
`_ipc_attach_ipc_cb` takes none: the test of the head, the store of a new one and its second read (`AttachIpcBegin`,
`AttachIpcMalloc`, `AttachIpcHead`); the test of `next` and its second read in the loop of both functions (`AttachTest`,
`AttachMove`); the link, its second read, the end and the callback of a new node (`AttachLink`, `AttachRelink`, `AttachEnd`,
`AttachFill`). What `malloc` left in a node is `Junk`, and a thread that follows it or a null pointer takes no further step.
`_ipc_attach_ipc_cb` puts a node only into an empty list and otherwise overwrites the callback of the last node
(`AttachIpcSet`); `_ipc_attach_cb` loses the first callback of a list (`AttachLost`). `displaced` keeps the callbacks lost in
these two ways, `contested` the lists in which one attachment's store undid another's. The acknowledgement a walk begins
with is in `UartLink`.

### AudioPipeline

An element of a window is the pass that filtered it and whether the device ever delivered it; a spectrum is zero,
computed, or other memory. The ADC thread filters under the mutex element by element and broadcasts after it let
go; the FFT thread waits without a predicate and copies half of the window, because a count of elements is used as
a count of bytes. `fft_abs` has the arguments of `arm_abs_q15` in the code's order, so the spectrum is replaced by
the shared buffer. The beat thread's increment is a read and a store, between which the periodic job may clear.
`init_adc_reading` returns when the device cannot be opened (`fd` is `"none"`); after a failed `ioctl` it closes it, keeps the number and
goes on: `fd` is `"closed"`, and a read from it fails or delivers what some other file holds, which is no sample.

### LinuxPort and PicoStrips

`LinuxPort`: `_ipc_message_queue_init` sets up a ring and has no `return`, so the pointer through which all threads use it is
the ring's or something else (`ipc_publish_queue_module`), and in the second case a thread stops at its first use
(`QueueIsThere`). The application's nodes are any sequence (`AppAssumption`), the ring has one slot at least
(`RingAssumption`); publishers signal (`AppSignals`, `AckSignals`) and push later; the publish thread looks at the size
(`WaitForSize`), lets go, and waits (`WaitForEvent`), with spurious wakes. A full ring at a push and an empty one at a
pop keep a normal mutex, so `node_muttx` holds its owner and nobody goes on. Its `main` starts no thread; the
library is modelled as its threads would run.

`PicoStrips`: what a strip's thread reads is not shown, since the call that sets a pixel is commented out
(`serial_communication_thread.cpp:118`); the model says what it has read. Bytes of a strip's buffer are the frame they came from, and both loops over a buffer interleave byte by
byte, since the calls that take the mutex around the copy are commented out. `TakeMutex` has no counterpart. The
`THREAD_LIST` of the Pico starts the two IPC threads, whose loops are commented out; the serial thread and the strip
threads are modelled as `serial_communication_setup` would create them.

### StateMachine, OsLayer, Devices, LedDrivers

`StateMachine` keeps a stack of calls: an exit, event or entry function may redirect the transition, and it may
call the machine again before it returns. `num_events` is what `malloc` left, as no function sets it: every value that
lets `statemachine_set_state` pass other states. In `OsLayer` a push or pop is `os_mut_entry` (a timed lock that fails
leaves the caller going on), the check, a load and a store; `slots` is the memory of the queue, and a store past it, which
the positions that never wrap come to, has no step. A bit is signalled by a load and a store of the shared word. `Devices` has one table of descriptors in which `open`
gives out the lowest free number, the handles of all four kinds (`Own` is the device that the first begin opens, which is
`/dev/spi0` for every SPI handle), and the GPIO calls with the four tables, each as the code has it, that map edges and
drives to the chip's codes and back. `LedDrivers` has the colours as numbers 0..255, since its properties are
about the arithmetic of the conversion and the bits on the wire; a colour's three fields are bytes, as in `hsv_color`
(`ColourAssumption`). `rgb2hsv` is called by nothing and left out. Its matrix has up to four chips: the frame that the driver sends from has room for no more, and beyond it
the driver would write over `number_of_devices`, which nothing sets (`ChipAssumption`). Data that is only transferred is left out.

## Runs

| Run | Instance | Checks |
|---|---|---|
| `queue_errorcheck` | 2 producers, 2 messages each, 2 slots, relock returns an error | wakeups, token, refinement of `MessageFifo`, delivery, publish returns |
| `queue_blocking` | 2 producers (symmetric), 3 messages each, 2 slots, relock blocks | the inductive invariant of the proofs (types and order among it), who may own the mutex, stuck states |
| `queue_spurious` | as `queue_errorcheck`, 3 messages each | finding: a consume that returns without a message |
| `strip_bars` | 2 modules with 2 bars of 2 LEDs each, 1 stop | segments, arrays survive a stop |
| `strip_fade` | a fade over the segment of a bar or peak animation, 1 stop | type, segments and how far bars go beyond them, what is stored past the strip, a fade ends, a stopped segment is blank in silence |
| `strip_stop` | 2 modules, 1 bar each, 1 stop | finding: a stopped segment need not go blank |
| `strip_fade_end` | as `strip_fade`, no stop | finding: the frame after a fade has no matrix |
| `uart_link` | 6 frames (2 good, an overlong one, a negative length, an unknown id, an acknowledgement), 1 message, short writes | frames understood whole, acknowledgements owed, order on the wire, delivery, the publish thread drains |
| `uart_any_peer` | 4 frames, no pause, any header from any bytes | what the subscribers get from a peer that does not wait |
| `uart_ack` | 1 good frame | finding: an acknowledgement that never goes out |
| `threads` | registry: 2 attachers, 2 ids, 3 nodes, 1 walk; audio: 4 elements, 3 passes; Linux: 2 slots, 4 nodes, 3 frames; Pico: 2 strips of 3 bytes, 2 frames | what each group keeps although its locks do not lock, which callbacks the registry loses, that the Linux ring is the abstract fifo, and that a wait for samples ends |
| `devices` | 3 tables, calls nested twice; 2 threads on a queue of 2, 5 operations; 5 begins and ends over 4 descriptors; 1 pin; 63 colours on 2 LEDs; 1 chip | states, what the queue holds and where it leaves its memory, bits, descriptors, pins, colours |

`MCThreads` and `MCDevices` hold several components that share no state. The variable `focus` chooses the one that
runs in a behaviour, so that the state spaces add up instead of multiplying; since the components do not interact,
no interleaving of two of them could change what either does.

Why the bounds are enough. Two slots and four or six messages make the ring full, empty, and wrap several times,
with both producers in the middle of a publish; the code treats producers alike and no variable counts them, so a
third adds no new kind of conflict; and what matters is proved for every size. One bar is enough to reach each
boundary of the painting loops; two bars and two segments distinguish an LED of the next bar, of the next segment
and outside the strip. One level below and one above the size of a bar are the two cases of `calculate_bar_hsv`. A
second stop finds the module as the first one left it. The frames of `uart_link` take every path through the consume
thread, bad ones in front of good ones. In `uart_any_peer` what is read as a header may be made of any bytes and be
any of `AnyHeaders`, so that a reader that lost its place meets every length there is. Three nodes are a head, a
tail and one that two attachers fight over, and enough for two heads of one list. Five operations push past a queue of
two. Four elements make a half window of two, which can be torn; three passes
let a broadcast be lost, overtake a copy, and come once more. Four nodes for a ring of two fill it, empty it and
wrap. A second frame on the Pico overwrites the first at every byte. Two nested calls of the state machine are one
inside the other; a third is to the second what that is to the first. Four free descriptors are fewer than the six
handles. The colours lie on both sides of every border of the hue's sextants.

`CHECK_DEADLOCK FALSE` stands where a system stops because what is bounded is used up: messages published and
consumed, frames sent, passes, nodes, calls. In `threads` it also covers a Pico strip that waits for the mutex it
holds, and a registry walk in undefined memory. `StuckOnlyByKeptMutex` says in which other states the publish queue
may stop. The strip never stops, and deadlock is checked.

### Findings

* `queue_spurious`: the consumer can be woken by the signal for a message it took before, and then returns a
  node that nothing set ("Blocks until there's an event in queue, then consumes that event",
  `ipc_message_publishqueue.h:137`).
* `strip_stop`: OFF falls through into TYPE_ONE, so a stopped segment goes on playing ("makes strip segment go
  blank", `strip_animation_module.h:120`). It does go blank in silence: `SilentStopBlanks`.
* `strip_fade_end`: a finished fade leaves the module in OFF without the matrix that OFF paints from.
* `uart_ack`: the flush after a frame discards the acknowledgement just queued for it, when the publish thread was
  quick enough to write it ("we have to send an ACK back through the IPC layer",
  `ipc_message_subscribequeue.cxx:56`).

Met while translating, each stated in the model by what the code does, without a run of its own:

* The early returns of push and pop keep the mutex ("Thread safe!!!", `ipc_message_publishqueue.h:49`): `PushFull`,
  `PopEmpty`. `MutexKeptByEarlyReturns` proves that nothing else does, `queue_blocking` checks that this is the only
  way for the queue's threads to get stuck, `queue_errorcheck` that with an error-checking mutex everything still
  flows.
* `ipc_attach_ipc_cb` overwrites the last callback instead of appending ("Append to end of node",
  `ipc_message_subscribequeue.cxx:33`), and `_ipc_attach_cb` loses the first callback of a list: `AttachIpcSet`,
  `AttachLost`. `OnlyKnownLosses` proves that these and races are all.
* The peak animation sets `num_intervals` to the number of LEDs and nothing sets it back: once it is stopped, OFF paints
  that many bars, beyond its segment ("highest segment of strip we are using", `strip_animation_module.h:75`):
  `IntervalsFor`. `KeepsToSegment` says how far: to the end of the last of those bars.
* `statemachine_set_state` returns `MK_OK` and stores nothing ("we can switch states", `statemachine.h:79`): `SetReturn`.
* `fft_copy_thread` gives `arm_abs_q15` its buffers in the wrong order: `fft_abs`.
* `os_queue_push_indefinite` and its pop wait for the mutex and not for the queue (`os_queue.h:36`, `:50`): `QueueCheck`.
* `os_clearbits` clears every bit and the waits for a bit never wait (`os_setbits.h:29`, `:35`): `os_clearbits`,
  `os_waitbits`.
* `_ipc_message_queue_init` of the Linux port has no `return` and its value becomes the queue
  (`ipc_message_publishqueue.c:113`, `:117`): `LinuxInit`.
* A state machine looks up an event's function by the event's id, in a list whose order is the caller's ("Then next event
  index value", `statemachine.cxx:48`, used at `:71`): `RunEvent`.
* The queue of the OS layer never wraps and writes past its memory (`os_queue.cxx:6`): `Place`. `LockedQueueHolds` says
  when.
* `os_spi_begin` chooses the bus by the descriptor (`os_spi.cxx:46`) and an end keeps the number it closed (`:76`):
  `os_spi_begin`, `os_spi_end`.
* Every frame of the LED matrix addresses register 0 ("not in shutdown mode (ie. start it up)",
  `max7219_led_driver.cxx:67`, `:92`, `:93`): `send_byte_device`.
* The failure of a short write is reported as a success when the wait for the acknowledgement, which does not wait, returns
  0 ("say we failed to publish!", `ipc_thread.cxx:41`, `:61`): `WaitAck`.
* The body of a message is written from the address of the pointer to it (`ipc_thread.cxx:50`), so other bytes go out than
  the buffer's; the model does not tell them apart.
* The Linux port can lose the wakeup for a message, and answers acknowledgements and nothing else
  (`ipc_message_subscribequeue.c:24`, `:27`): `WaitForEvent`, `AckSignals`.
* The Pico's copy is not "Threadsafe" (`serial_communication_thread.cpp:140`): `CopyByte`. A strip
  thread takes its mutex for a frame and never gives it back, so it answers one notification ("Notify strip that it can
  push data now", `serial_communication_thread.cpp:154`) and no second one: `TakeMutex`.

### Fairness

Every thread of the firmware runs at one priority under round robin, on one CPU or on several, so a thread that can run
does run:
weak fairness on each thread's next step. A lock is never contended forever in the instances checked: each
critical section ends by itself, and no property needs strong fairness. Nothing is assumed of the environment:
a producer need not publish, nobody need stop an animation, the music need not change. `Delivery` and
`PublishReturns` are checked for the error-checking mutex only, since with a blocking one the kept mutex
stops them. `SilentStopBlanks` and `FadeEndsInSilence` state the environment they need (silence) as premise.

`UartLink` adds the port, which transmits what it holds, and a peer that sends what it has; both are what
delivery means. `EveryWaitEnds` assumes the ADC thread and the FFT thread are scheduled, and nothing of the other
components: it is the passes still to come that end a wait.

## Proofs

`PublishQueueProofs` proves, for any set of producers, any capacity, any number of messages and both mutex
behaviours:

* `Invariance`: `Spec => []IndInv`, and from it `TypeCorrect`, `FifoCorrect`, `WakeupCorrect`, `TokenCorrect`;
* `QueueImplementsFifo`: `Spec => Fifo!Spec`, the queue of the code refines `MessageFifo`;
* `MutexKeptByEarlyReturns` and from it `NoOtherDeadlock`: the threads are never all blocked, except when the work is
  done or one of them waits for the mutex it kept; with an error-checking mutex, only when the work is done.

`FifoOrder` and `NoLostWakeup` are not inductive alone. The order needs to know where the head is relative to
the tail (`HeadAfterNewest`), that nobody else moves the ring while a thread is between a lock and its unlock
(`MutexHeld`), and what a thread in the middle of a push or pop has done so far (`PushInProgress`,
`PopInProgress`). The wakeup needs the same mutual exclusion: the flag goes up only while the ring is empty and
locked, so a message that comes later still has its signal before it. `IndInv` is their conjunction; TLC checks
it first, in `queue_blocking`. The proof has one lemma per action and, under it, one step per conjunct that the
action disturbs; `SlotFacts`, `SlotAfterPop`, `OldestIsMessage` and `RingUntouched` are the facts about ring
positions they share. The deadlock theorem speaks of
`AllBlocked`, the waits of all threads written as a state predicate. The argument needs one more invariant, `KeptMutex`: an owner
of the mutex is between a lock and its unlock, where nothing blocks it, or kept the mutex on an early return. So if the
mutex is owned and all are blocked, the owner waits for itself; and if it is free, the consumer sleeps, the producers
have finished, and `IndInv` says that the ring is empty.
The refinement uses `IndInv` and shows action by action that `PushAdvance` is `Publish`,
`PopAdvance` is `Consume`, `PopEmpty` is `ReturnUndefined` and everything else stutters.

The proofs assume the named assumptions of `PublishQueue`: a positive capacity, a natural bound on messages,
that the consumer is not a producer, and that the three special values are distinct from threads and messages.

The other proofs are over the specifications of the components alone, without `focus`:

| Theorem | For every | Strengthening |
|---|---|---|
| `StripTypeCorrect`, `FramesKeepToTheirSegment`, `StoresStayClose`, `StopKeepsTheBars` (`StripAnimationProofs`) | modules, segments, levels, fades, number of stops | `StripInv`: a module that is not freed has an entry in its matrices for each of its bars, of which there are `Intervals` or as many as LEDs (`MatricesOK`); an animation finds the matrices its type needs (`AnimationOK`); what is left of a frame lies in the segment or darkens the LED before it, or ends with the module's last bar where it has more of them than it was created with (`WritesOK`). `StoresStayClose` follows: what is not refused and not on the strip is one of two cells |
| `LinkTypeCorrect` (`UartLinkProofs`) | frames, messages, sizes | what the peer sent last is a byte of a frame; what the thread has in hand fits what it reads; `reported` has one entry for each turn that ended |
| `WireKeepsOrder` (`UartLinkProofs`) | the same | what is in the port is ordered too and comes after what was transmitted, and all of it lies before the place the publish thread has reached (`Past`); a flush removes bytes and keeps this |
| `AcksAreAnswers` (`UartLinkProofs`) | the same | `AcksOwed` with the types; one more run or one more acknowledgement is one more position in the set that is counted (`OneMore`) |
| `PausingPeerIsUnderstood` (`UartLinkProofs`) | the same, with `Paced` | `PacedInv`: at each label of the thread, the bytes in its hand followed by those in the port are exactly the first bytes of the header or of the body the peer is sending, and the subscribers ran once for each good frame before it (`Place`) |
| `AnyPeerInOrder` (`UartLinkProofs`) | the same, whatever the peer's pace | `FastInv`: what is in the thread's hand, followed by the port, is in the order of sending, nothing of it is later than `sent`, and it comes after the bytes of every run so far (`HandOK`, `RunsOK`); a flush, a short read and a body taken for a header take bytes away and exchange none; the length read agrees with the header at each label (`LengthOK`) |
| `RegistryTypeCorrect`, `JunkStaysKnown`, `LossNeedsARace` (`SubscribeRegistryProofs`) | threads, ids, nodes | `MemoryInv`: `next` leads to a node allocated later and never to a head (`ListsAscend`), an attachment aims at an allocated node, junk is in a node under way or behind a head. So a list never closes, and a node leaves it only where one attachment's store cuts off what another linked |
| `CallbacksStay` (`SubscribeRegistryProofs`) | the same | `FateInv`: in a list that is not contested, the node an attachment has in hand is in the list (`PlaceInList`), and a list that is not contested only grows. So a callback that was put in its node stays there until `_ipc_attach_ipc_cb` stores over it, which `displaced` records |
| `QuietWalkIsComplete` (`SubscribeRegistryProofs`) | the same | `QuietWalkInv`: while no store crossed the walk, the nodes it ran and the rest of the list from where it is are the list, and each node it ran has the later ones and the rest behind it |
| `CopiesOneFreshWindow`, `CopiesSamples` (`AudioPipelineProofs`) | size of a window, number of passes | whenever the mutex is free the filtered window is of one pass; while it is held, the elements up to the one being filled are of the current pass; a thread that was woken copies no older pass than the broadcast |
| `CountsBeats` (`AudioPipelineProofs`) | bound of the count | the value the beat thread has read is the count, unless the periodic check came between |
| `LinuxKeepsOrder` (`PortProofs`) | ring, nodes, frames | `LinuxInv`: the head is as many slots after the tail as the ring holds nodes, and those slots hold what was accepted and not handed over, in order; the one node nobody pushed is the last one handed over, and the mutex was kept with it |
| `LinuxRingIsFifo` (`PortProofs`) | the same | `LinuxInv` gives the mapping its value: the abstract queue is what was accepted and not handed over (`InRingSeq`), the pushes of a full ring and the pops of an empty one map to a stutter and to `ReturnUndefined`, one push is one `Publish`, one pop one `Consume`; everything the two threads do with signals, waits and wakes is a stutter |
| `PicoReadsWholeFrames` (`PortProofs`) | number of strips, bytes, frames | a buffer that was not written to since its bit was set holds one frame, and the bytes read so far are of it |
| `LockedQueueIsRight` (`LibraryProofs`) | threads, size of the queue | mutual exclusion while no call went on without the mutex; what a thread loaded is still true until it stores; the head is the number of pushes and the tail that of pops, and the slots between them hold the elements in order |
| `BitsHoldSignals` (`LibraryProofs`) | threads, bits | the word a signal loaded is still the word unless the thread is `overtaken` |
| `HandlesHaveTheirDevices` (`LibraryProofs`) | size of the table | two handles in use have different numbers, and a number in use is open; a begin takes only a free number |
| `PinsKeepTheirSettings` (`LibraryProofs`) | pins | `PinsInv`: the chip's codes are those of what was set; no two drives, and no two edges, have one code |
| `StoresWhatItEntered` (`LibraryProofs`) | table, depth and number of calls | `EnteredStored`: while nothing diverts the machine, the outermost call that has its next state is a submit and will store the state entered last |
| `StripShowsWhatWasSet` (`LibraryProofs`) | colours of three bytes, LEDs | `PatternInv`: an LED that was set has the pattern of its colour. Under it, `ColourOfHsv`: the division of each sextant leaves every component at most the brightness, and the hue's own at the brightness; `ReadsTheByte`: eight nibbles give back the byte |

They assume the named assumptions of their modules: sizes are natural numbers (a window has two elements at least), a
message is a record with an integer length, `"free"` is no thread, a table has the state 0 in which the machine
starts, a segment lies on the strip, a module has at least the bars that each frame lowers
(`DropAssumption`), and what the sections above say of `UartLink`, `LinuxPort` and `LedDrivers`.
`PausingPeerIsUnderstood` also assumes `Paced`, and says so in its statement: without the pause the flushes lose parts of
frames by design.

Induction. A frame of the strip is a concatenation of the frames of its bars, which the community modules
define by recursion. The library's induction theorems take an operator as a parameter, which the provers cannot
instantiate; `InductionLemmas` therefore derives induction over sets of numbers from the least element of a set, and with
it shows that the function exists (`UnfoldsExists`) and what it yields (`FlattenSeqType`).

Model-checked only: liveness (`Delivery`, `PublishReturns`, `SilentStopBlanks`, `FadeEndsInSilence`, `AllDelivered`,
`Drains`, `EveryWaitEnds`), which needs fairness. Every other property of a passing run is a theorem.

## Not modelled

* `thread_init`: sequential and finished before any thread runs; its effect is the `Init` of the modules.
* In `CHAL`: the `*_setbus` calls, which store one field, data that is read or written, the level of a pin. In
  `CSAL`: `os_thread.cxx`, a wrapper of `pthread_create`. `i2s_mic` is a stub, and the LED matrix thread idles.
* Called by nothing: `animation_type_rainbow_one`, `peak_management_wq`, `serialize_message_header`, the MAX7219's
  `send_byte`, `rgb2hsv`; never reached: `close_adc_reading`.
* The Pico's copy of the UART layer: both loops are commented out and nothing publishes.
* The transform itself, and the arithmetic of the filter.
* `src/InteractiveRaveLights/adc_runtime`, `src/InteractiveRaveLights/uart_eventpublish`: older copies of files
  above, in no build. `src/V2`, `src/ml_training`: stubs. `src/ipc_test`: a test program for another board.
* Memory exhaustion, and weak memory ordering: a load sees the last store, also between two CPUs.

## What could follow

The system's own logic is modelled, and the properties the provers can reach are proved. What is left are liveness
proofs, for which the installed provers have no `ENABLED`; and, when the code changes, these places first: the two early
returns of the queue, the copies of the list heads in the registry, `num_intervals` after a peak animation, and the mutex of
the Pico's strip threads. Each has a run or a theorem that says what holds today.
