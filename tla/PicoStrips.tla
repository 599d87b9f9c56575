----------------------------- MODULE PicoStrips ------------------------------
(***************************************************************************)
(* The strip threads of the Pico co-processor                              *)
(* (stripCoProcessor/src/serial_communication_thread.cpp): one thread      *)
(* reads frames of colours from the serial port and copies each strip's    *)
(* part into that strip's buffer, one thread per strip waits for a bit and *)
(* goes through the buffer; the call that would show a pixel is commented  *)
(* out.  The two mutex calls around the copy are commented out too; the    *)
(* strip's thread takes its mutex and never gives it.                      *)
(*                                                                         *)
(* A byte of a buffer is the frame it came from; 0 is what the allocator   *)
(* left.  The threads have one priority and the scheduler slices time, so  *)
(* the loops over a buffer interleave byte by byte.                        *)
(***************************************************************************)
EXTENDS Naturals, Sequences

CONSTANTS
    NUM_STRIPS,
    StripBytes,     \* NUM_PIXELS_PER_STRIP * NUM_COLS_PER_PIXEL
    MaxSerialFrames \* bound: frames that arrive

ASSUME PicoAssumption ==
    /\ NUM_STRIPS \in Nat \ {0} /\ StripBytes \in Nat \ {0} /\ MaxSerialFrames \in Nat

Strips == 0..NUM_STRIPS - 1

VARIABLES
    input_frame,    \* input_buffer: the frame the serial thread read last
    serial_at,      \* the strip it copies to, NUM_STRIPS while it reads
    copied,         \* bytes of that strip's part copied so far
    strip_buffer,   \* each strip's bytes
    new_data,       \* BIT_0 of each strip's event group
    strip_mutex,    \* strips whose mutex is taken
    strip_at,       \* where each strip's thread is
    pixels,         \* the bytes it has read of its buffer
    overwritten     \* history: its buffer changed since the bit it answers was set

stripvars == <<strip_mutex, strip_at, pixels>>
picovars == <<input_frame, serial_at, copied, strip_buffer, new_data, stripvars, overwritten>>

\* serial_communication_setup makes the structures and creates the threads.
PicoInit ==
    /\ input_frame = 0 /\ serial_at = NUM_STRIPS /\ copied = 0
    /\ strip_buffer = [s \in Strips |-> [x \in 1..StripBytes |-> 0]]
    /\ new_data = {} /\ strip_mutex = {}
    /\ strip_at = [s \in Strips |-> "clear"]
    /\ pixels = [s \in Strips |-> <<>>]
    /\ overwritten = {}

-----------------------------------------------------------------------------
(* The serial thread                                                       *)

\* uart_read_blocking_threadsafe returns with a whole frame.
SerialRead ==
    /\ serial_at = NUM_STRIPS /\ input_frame < MaxSerialFrames
    /\ input_frame' = input_frame + 1
    /\ serial_at' = 0 /\ copied' = 0
    /\ UNCHANGED <<strip_buffer, new_data, stripvars, overwritten>>

CopyByte(s) ==
    /\ serial_at = s /\ copied < StripBytes
    /\ strip_buffer' = [strip_buffer EXCEPT ![s][copied + 1] = input_frame]
    /\ copied' = copied + 1
    /\ overwritten' = overwritten \cup {s}
    /\ UNCHANGED <<input_frame, serial_at, new_data, stripvars>>

\* Mutant: the bit is set when all but the last byte is copied.
NotifyBeforeLast(s) ==
    /\ serial_at = s /\ copied >= StripBytes - 1
    /\ new_data' = new_data \cup {s}
    /\ copied' = IF copied < StripBytes THEN copied ELSE 0
    /\ serial_at' = IF copied < StripBytes THEN s
                    ELSE s + 1
    /\ overwritten' = IF strip_at[s] \in {"take", "copy", "update"} THEN overwritten
                      ELSE overwritten \ {s}
    /\ UNCHANGED <<input_frame, strip_buffer, stripvars>>

\* The bit is set once the strip's part is copied.
Notify(s) ==
    /\ serial_at = s /\ copied = StripBytes
    /\ new_data' = new_data \cup {s}
    /\ copied' = 0
    /\ serial_at' = s + 1
    /\ overwritten' = IF strip_at[s] \in {"take", "copy", "update"} THEN overwritten
                      ELSE overwritten \ {s}
    /\ UNCHANGED <<input_frame, strip_buffer, stripvars>>

serial_commuincation_thread == SerialRead \/ \E s \in Strips : CopyByte(s) \/ Notify(s)

-----------------------------------------------------------------------------
(* A strip's thread                                                        *)

ClearStrip(s) ==
    /\ strip_at[s] = "clear"
    /\ strip_at' = [strip_at EXCEPT ![s] = "wait"]
    /\ UNCHANGED <<input_frame, serial_at, copied, strip_buffer, new_data, strip_mutex,
                   pixels, overwritten>>

\* xEventGroupWaitBits clears the bit it waited for.
WaitBits(s) ==
    /\ strip_at[s] = "wait" /\ s \in new_data
    /\ new_data' = new_data \ {s}
    /\ strip_at' = [strip_at EXCEPT ![s] = "take"]
    /\ UNCHANGED <<input_frame, serial_at, copied, strip_buffer, strip_mutex, pixels,
                   overwritten>>

\* Nobody gives this mutex back, its holder included.
TakeMutex(s) ==
    /\ strip_at[s] = "take" /\ s \notin strip_mutex
    /\ strip_mutex' = strip_mutex \cup {s}
    /\ strip_at' = [strip_at EXCEPT ![s] = "copy"]
    /\ pixels' = [pixels EXCEPT ![s] = <<>>]
    /\ UNCHANGED <<input_frame, serial_at, copied, strip_buffer, new_data, overwritten>>

ReadPixel(s) ==
    /\ strip_at[s] = "copy"
    /\ LET x == Len(pixels[s]) + 1
       IN  /\ pixels' = [pixels EXCEPT ![s] = Append(@, strip_buffer[s][x])]
           /\ strip_at' = [strip_at EXCEPT ![s] = IF x = StripBytes THEN "update" ELSE "copy"]
    /\ UNCHANGED <<input_frame, serial_at, copied, strip_buffer, new_data, strip_mutex,
                   overwritten>>

UpdateStrip(s) ==
    /\ strip_at[s] = "update"
    /\ strip_at' = [strip_at EXCEPT ![s] = "wait"]
    /\ UNCHANGED <<input_frame, serial_at, copied, strip_buffer, new_data, strip_mutex,
                   pixels, overwritten>>

update_strip_thread(s) ==
    ClearStrip(s) \/ WaitBits(s) \/ TakeMutex(s) \/ ReadPixel(s) \/ UpdateStrip(s)

PicoNext == serial_commuincation_thread \/ \E s \in Strips : update_strip_thread(s)

PicoSpec == PicoInit /\ [][PicoNext]_picovars

-----------------------------------------------------------------------------
(* Properties                                                              *)

\* A strip that has gone through its buffer has seen one frame, a frame that
\* arrived, unless the serial thread wrote to the buffer in between: only the
\* commented-out mutex can tear a frame, the bit never does
\* (serial_commuincation_thread, update_strip_thread).
PicoFrameWhole ==
    \A s \in Strips :
       strip_at[s] = "update" /\ s \notin overwritten =>
          \E f \in 1..MaxSerialFrames : \A x \in 1..StripBytes : pixels[s][x] = f

=============================================================================
