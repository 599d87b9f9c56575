---------------------------- MODULE StripAnimation -----------------------------
(***************************************************************************)
(* The LED strip of the Spresense firmware: one array of colours           *)
(* (strip_update_module.cxx) that several animation modules                *)
(* (strip_animation_module.cxx) paint, each in its own segment and its own *)
(* thread, and that the strip update thread copies to the LED driver.      *)
(*                                                                         *)
(* A frame of an animation is a sequence of calls of strip_set_leds, each  *)
(* of which takes the strip's mutex for one LED, so other threads see every *)
(* prefix of a frame.  A colour is the level (0 is black) it was computed  *)
(* from; the samples of one frame are one level, and a sample past the end *)
(* of fft_data is any level.  A frame that would use an array that was     *)
(* freed has no step: the behaviour is undefined there.                    *)
(***************************************************************************)
EXTENDS Integers, Sequences, SequencesExt

CONSTANTS
    Mods,        \* the animation modules
    NumLeds,     \* NUM_LEDS
    Lower,       \* strip_pos_lower_bounds of each module
    Upper,       \* strip_pos_upper_bounds of each module
    Intervals,   \* num_intervals a module is created with
    DropBars,    \* bars that strip_peak_drop_decrement lowers: 12
    FftSize,     \* fft_data_size of each module
    Levels,      \* what a sample is worth after high_freq_divider
    InitTypes,   \* the animations each module may be created with
    MaxStops     \* bound: calls of stop_animation

ASSUME SegmentAssumption ==
    /\ NumLeds \in Nat /\ Intervals \in Nat \ {0} /\ MaxStops \in Nat
    /\ \A m \in Mods :
          Lower[m] \in Nat /\ Upper[m] \in 0..NumLeds /\ Lower[m] < Upper[m]
\* With fewer bars than it lowers it would write past the array of bars.
ASSUME DropAssumption == DropBars \in 0..Intervals /\ \A m \in Mods : FftSize[m] \in Nat
ASSUME LevelAssumption == Levels \subseteq Nat /\ 0 \in Levels

Off == "OFF"
One == "TYPE_ONE"
Two == "TYPE_TWO"
Three == "TYPE_THREE"
FadeOut == "FADE_OUT"
FadeRainbow == "FADE_RAINBOW"
RainbowOne == "RAINBOW_ONE"
Types == {Off, One, Two, Three, FadeOut, FadeRainbow, RainbowOne}

\* "The matrix is freed" and "one less than what the LED shows now".
Null == <<>>
Fade == -1

VARIABLES
    pc,                  \* where each runtime thread is
    current_animation,
    animation_changed,
    num_intervals,
    values_matrix,       \* the height of each bar
    peaks_matrix,        \* the peak of each LED
    leds_strip_active,   \* fade_out_vals: some LED was still lit
    fft_data,            \* the level of the samples of this frame
    todo,                \* strip_set_leds calls left in this frame
    strip_cols,          \* the strip, with the cell before and after it
    shown,               \* what the LED driver was given last
    stops                \* calls of stop_animation so far

mod  == <<num_intervals, values_matrix, peaks_matrix>>
vars == <<pc, current_animation, animation_changed, mod, leds_strip_active,
          fft_data, todo, strip_cols, shown, stops>>

\* Indices strip_set_leds can be handed and not refuse.
Cells == -1..NumLeds
Strip == 0..(NumLeds - 1)

Segment(m) == Lower[m]..(Upper[m] - 1)
SegmentLeds(m) == Upper[m] - Lower[m]
BarSize(m) == SegmentLeds(m) \div Intervals

At(m, l) == pc[m] = l
Goto(m, l) == pc' = [pc EXCEPT ![m] = l]

\* The animation mutex of m is held during a frame.
AnimationLocked(m) == pc[m] \in {"frame", "write"}

-----------------------------------------------------------------------------
(* setup_animation_variables                                               *)

BarTypes == {Off, One, Two}

Zeros(n) == [i \in 0..(n - 1) |-> 0]

\* Mutant: OFF does not allocate what the TYPE_ONE it falls into needs.
ValuesForNotOff(type, n) == IF type \in {One, Two} THEN Zeros(n) ELSE Null

ValuesFor(type, n) == IF type \in BarTypes THEN Zeros(n) ELSE Null

PeaksFor(m, type, n) ==
    CASE type \in BarTypes -> Zeros(n)
      [] type = Three      -> Zeros(SegmentLeds(m))
      [] OTHER             -> Null

IntervalsFor(m, type, n) == IF type = Three THEN SegmentLeds(m) ELSE n

\* new_strip_processing_mod ends in setup_animation_variables.
Init ==
    /\ pc = [m \in Mods |-> "copy"]
    /\ current_animation \in [Mods -> Types]
    /\ \A m \in Mods : current_animation[m] \in InitTypes[m]
    /\ animation_changed = [m \in Mods |-> FALSE]
    /\ num_intervals =
         [m \in Mods |-> IntervalsFor(m, current_animation[m], Intervals)]
    /\ values_matrix =
         [m \in Mods |-> ValuesFor(current_animation[m], Intervals)]
    /\ peaks_matrix =
         [m \in Mods |-> PeaksFor(m, current_animation[m], Intervals)]
    /\ leds_strip_active =
         [m \in Mods |-> current_animation[m] \in {FadeOut, FadeRainbow}]
    /\ fft_data = [m \in Mods |-> 0]
    /\ todo = [m \in Mods |-> <<>>]
    /\ strip_cols = [i \in Cells |-> 0]
    /\ shown = [i \in Strip |-> 0]
    /\ stops = 0

-----------------------------------------------------------------------------
(* strip_processing_runtime                                                *)

CopyFft(m) ==
    /\ At(m, "copy")
    /\ \E level \in Levels : fft_data' = [fft_data EXCEPT ![m] = level]
    /\ Goto(m, "setup")
    /\ UNCHANGED <<current_animation, animation_changed, mod,
                   leds_strip_active, todo, strip_cols, shown, stops>>

\* Runs before the animation mutex is taken, and never lowers the flag.
Setup(m) ==
    /\ At(m, "setup")
    /\ IF animation_changed[m]
       THEN LET type == current_animation[m]
                n    == IntervalsFor(m, type, num_intervals[m])
            IN  /\ num_intervals' = [num_intervals EXCEPT ![m] = n]
                /\ values_matrix' = [values_matrix EXCEPT ![m] = ValuesFor(type, n)]
                /\ peaks_matrix' = [peaks_matrix EXCEPT ![m] = PeaksFor(m, type, n)]
                /\ leds_strip_active' = [leds_strip_active EXCEPT
                                           ![m] = @ \/ type \in {FadeOut, FadeRainbow}]
       ELSE UNCHANGED <<mod, leds_strip_active>>
    /\ Goto(m, "lock")
    /\ UNCHANGED <<current_animation, animation_changed, fft_data, todo,
                   strip_cols, shown, stops>>

LockAnimation(m) ==
    /\ At(m, "lock")
    /\ Goto(m, "frame")
    /\ UNCHANGED <<current_animation, animation_changed, mod,
                   leds_strip_active, fft_data, todo, strip_cols, shown, stops>>

-----------------------------------------------------------------------------
(* The frames                                                              *)

Least(a, b) == IF a < b THEN a ELSE b
Greatest(a, b) == IF a > b THEN a ELSE b

\* LEDs from..to of bar n of m, in colour c, in the order of the loop.
Paint(m, n, from, to, c) ==
    [k \in 1..(to - from + 1) |->
        <<Lower[m] + n * BarSize(m) + from + k - 1, c>>]

\* strip_peak_drop_decrement lowers a fixed number of bars, then
\* calculate_bar_hsv raises each bar to its sample; a bar the module was not
\* created with has its sample past the end of fft_data.
NextBars(m, past) ==
    [n \in 0..(num_intervals[m] - 1) |->
        LET v == values_matrix[m][n]
            dropped == IF n < DropBars THEN Greatest(v - 1, 0) ELSE v
            sample  == IF n < Intervals THEN fft_data[m] ELSE past
        IN  Greatest(dropped, Least(sample, BarSize(m)))]

\* Mutant: the loop that darkens goes on to the first LED of the next bar.
BarTypeOneLong(m, n, v) ==
    Paint(m, n, 0, v - 1, v) \o Paint(m, n, v - 1, BarSize(m), 0)

BarTypeOne(m, n, v) ==
    Paint(m, n, 0, v - 1, v) \o Paint(m, n, v - 1, BarSize(m) - 2, 0)

BarTypeTwo(m, n, v) == Paint(m, n, 0, BarSize(m) - 2, v)

Bar(m, n, v) ==
    IF current_animation[m] = Two THEN BarTypeTwo(m, n, v) ELSE BarTypeOne(m, n, v)

Bars(m, heights) ==
    FlattenSeq([i \in 1..num_intervals[m] |-> Bar(m, i - 1, heights[i - 1])])

ClearStrip(m) ==
    [k \in 1..SegmentLeds(m) |-> <<Lower[m] + k - 1, 0>>]

PaintFrame(m, writes) ==
    /\ todo' = [todo EXCEPT ![m] = writes]
    /\ Goto(m, "write")
    /\ UNCHANGED <<current_animation, animation_changed, num_intervals,
                   fft_data, strip_cols, shown, stops>>

\* A frame of bars, after the writes of `first'.
BarFrame(m, first) ==
    /\ values_matrix[m] # Null
    /\ \E past \in Levels :
          /\ values_matrix' = [values_matrix EXCEPT ![m] = NextBars(m, past)]
          /\ PaintFrame(m, first \o Bars(m, NextBars(m, past)))
    /\ UNCHANGED <<peaks_matrix, leds_strip_active>>

\* Mutant: OFF does not clear the segment first.
FrameOffUncleared(m) ==
    /\ At(m, "frame")
    /\ current_animation[m] = Off
    /\ BarFrame(m, <<>>)

\* The case of OFF has no break: it clears and goes on as TYPE_ONE.
FrameOff(m) ==
    /\ At(m, "frame")
    /\ current_animation[m] = Off
    /\ BarFrame(m, ClearStrip(m))

FrameOne(m) ==
    /\ At(m, "frame")
    /\ current_animation[m] = One
    /\ BarFrame(m, <<>>)

FrameTwo(m) ==
    /\ At(m, "frame")
    /\ current_animation[m] = Two
    /\ BarFrame(m, <<>>)

\* Mutant: a peak drops below zero.
FrameThreeNoFloor(m) ==
    /\ At(m, "frame")
    /\ current_animation[m] = Three
    /\ FftSize[m] >= SegmentLeds(m)
    /\ Lower[m] = 0
    /\ LET peaks == [n \in DOMAIN peaks_matrix[m] |->
                       Greatest(fft_data[m], peaks_matrix[m][n]) - 1]
       IN  /\ peaks_matrix' = [peaks_matrix EXCEPT ![m] = peaks]
           /\ PaintFrame(m, [k \in 1..SegmentLeds(m) |-> <<k - 1, peaks[k - 1]>>])
    /\ UNCHANGED <<values_matrix, leds_strip_active>>

\* With fewer samples than LEDs the frame is over.
FrameThreeShort(m) ==
    /\ At(m, "frame")
    /\ current_animation[m] = Three
    /\ FftSize[m] < SegmentLeds(m)
    /\ PaintFrame(m, <<>>)
    /\ UNCHANGED <<values_matrix, peaks_matrix, leds_strip_active>>

\* The writes go to "strip + lower bound", a strip only for the module whose
\* lower bound is 0.
FrameThree(m) ==
    /\ At(m, "frame")
    /\ current_animation[m] = Three
    /\ FftSize[m] >= SegmentLeds(m)
    /\ Lower[m] = 0
    /\ LET peaks == [n \in DOMAIN peaks_matrix[m] |->
                       Greatest(Greatest(fft_data[m], peaks_matrix[m][n]) - 1, 0)]
       IN  /\ peaks_matrix' = [peaks_matrix EXCEPT ![m] = peaks]
           /\ PaintFrame(m, [k \in 1..SegmentLeds(m) |-> <<k - 1, peaks[k - 1]>>])
    /\ UNCHANGED <<values_matrix, leds_strip_active>>

\* FADE_OUT, and every type the switch has no case for.
Fades(type) == type \notin {Off, One, Two, Three}

\* Mutant: the fade's loop goes one LED too far.
FrameFadeLong(m) ==
    /\ At(m, "frame")
    /\ Fades(current_animation[m])
    /\ leds_strip_active' = [leds_strip_active EXCEPT ![m] = FALSE]
    /\ PaintFrame(m, IF leds_strip_active[m]
                     THEN [k \in 1..(SegmentLeds(m) + 1) |-> <<Lower[m] + k - 1, Fade>>]
                     ELSE <<>>)
    /\ UNCHANGED <<values_matrix, peaks_matrix>>

FrameFade(m) ==
    /\ At(m, "frame")
    /\ Fades(current_animation[m])
    /\ leds_strip_active' = [leds_strip_active EXCEPT ![m] = FALSE]
    /\ PaintFrame(m, IF leds_strip_active[m]
                     THEN [k \in 1..SegmentLeds(m) |-> <<Lower[m] + k - 1, Fade>>]
                     ELSE <<>>)
    /\ UNCHANGED <<values_matrix, peaks_matrix>>

-----------------------------------------------------------------------------
(* One LED of a frame, and the end of the frame                            *)

\* Mutant: a dark LED counts as lit.
FadeReadDark(m) ==
    /\ At(m, "write")
    /\ todo[m] # <<>>
    /\ Head(todo[m])[2] = Fade
    /\ LET i == Head(todo[m])[1]
       IN  todo' = [todo EXCEPT ![m] =
                       <<<<i, Greatest(strip_cols[i] - 1, 0)>>>> \o Tail(@)]
    /\ leds_strip_active' = [leds_strip_active EXCEPT ![m] = TRUE]
    /\ UNCHANGED <<pc, current_animation, animation_changed, mod, fft_data,
                   strip_cols, shown, stops>>

\* strip_get_leds_rgb reads the LED without the strip's mutex.
FadeRead(m) ==
    /\ At(m, "write")
    /\ todo[m] # <<>>
    /\ Head(todo[m])[2] = Fade
    /\ LET i == Head(todo[m])[1]
           lit == strip_cols[i] > 0
       IN  /\ todo' = [todo EXCEPT ![m] =
                 <<<<i, IF lit THEN strip_cols[i] - 1 ELSE 0>>>> \o Tail(@)]
           /\ leds_strip_active' = [leds_strip_active EXCEPT ![m] = @ \/ lit]
    /\ UNCHANGED <<pc, current_animation, animation_changed, mod, fft_data,
                   strip_cols, shown, stops>>

\* Mutant: the test is gone.
NoneRefused(i) == FALSE

\* strip_set_leds refuses an index above NumLeds, and no other.
Refused(i) == NumLeds < i

SetLed(m) ==
    /\ At(m, "write")
    /\ todo[m] # <<>>
    /\ Head(todo[m])[2] # Fade
    /\ LET i == Head(todo[m])[1]
       IN  strip_cols' = IF Refused(i)
                         THEN strip_cols
                         ELSE [strip_cols EXCEPT ![i] = Head(todo[m])[2]]
    /\ todo' = [todo EXCEPT ![m] = Tail(@)]
    /\ UNCHANGED <<pc, current_animation, animation_changed, mod,
                   leds_strip_active, fft_data, shown, stops>>

\* A fade that found every LED dark turns itself off; the flag that would
\* set the variables of OFF up stays down.
EndFrame(m) ==
    /\ At(m, "write")
    /\ todo[m] = <<>>
    /\ current_animation' =
         IF Fades(current_animation[m]) /\ ~leds_strip_active[m]
         THEN [current_animation EXCEPT ![m] = Off]
         ELSE current_animation
    /\ Goto(m, "copy")
    /\ UNCHANGED <<animation_changed, mod, leds_strip_active, fft_data, todo,
                   strip_cols, shown, stops>>

-----------------------------------------------------------------------------
(* The other threads                                                       *)

StopAnimation(m) ==
    /\ stops < MaxStops
    /\ ~AnimationLocked(m)
    /\ current_animation' = [current_animation EXCEPT ![m] = Off]
    /\ animation_changed' = [animation_changed EXCEPT ![m] = TRUE]
    /\ stops' = stops + 1
    /\ UNCHANGED <<pc, mod, leds_strip_active, fft_data, todo, strip_cols, shown>>

\* The strip update thread copies the strip while it holds the strip's mutex.
UpdateStrip ==
    /\ shown' = [i \in Strip |-> strip_cols[i]]
    /\ UNCHANGED <<pc, current_animation, animation_changed, mod,
                   leds_strip_active, fft_data, todo, strip_cols, stops>>

Runtime(m) ==
    \/ CopyFft(m) \/ Setup(m) \/ LockAnimation(m)
    \/ FrameOff(m) \/ FrameOne(m) \/ FrameTwo(m) \/ FrameThreeShort(m) \/ FrameThree(m)
    \/ FrameFade(m)
    \/ FadeRead(m) \/ SetLed(m) \/ EndFrame(m)

Next ==
    \/ \E m \in Mods : Runtime(m) \/ StopAnimation(m)
    \/ UpdateStrip

Spec == Init /\ [][Next]_vars

\* Every thread keeps running; nothing obliges anyone to stop an animation.
Fairness ==
    /\ \A m \in Mods : WF_vars(Runtime(m))
    /\ WF_vars(UpdateStrip)

FairSpec == Spec /\ Fairness

-----------------------------------------------------------------------------
(* Properties                                                              *)

\* A level, or less, or the height of a bar.
Colours == {c \in Nat : c <= NumLeds \/ \E level \in Levels : c <= level}

\* Every variable of the strip and of its animations holds a value of its
\* type; in particular no bar is taller than its size, and a matrix that is
\* not freed has one entry for each bar or LED it is used for.
TypeOK ==
    /\ pc \in [Mods -> {"copy", "setup", "lock", "frame", "write"}]
    /\ current_animation \in [Mods -> Types]
    /\ animation_changed \in [Mods -> BOOLEAN]
    /\ \A m \in Mods :
          /\ num_intervals[m] \in {Intervals, SegmentLeds(m)}
          /\ \/ values_matrix[m] = Null
             \/ values_matrix[m] \in [0..(num_intervals[m] - 1) -> 0..BarSize(m)]
          /\ \/ peaks_matrix[m] = Null
             \/ peaks_matrix[m] \in [0..(num_intervals[m] - 1) -> Colours]
          /\ \A k \in DOMAIN todo[m] : todo[m][k] \in Int \X (Colours \cup {Fade})
    /\ leds_strip_active \in [Mods -> BOOLEAN]
    /\ fft_data \in [Mods -> Levels]
    /\ strip_cols \in [Cells -> Colours]
    /\ shown \in [Strip -> Colours]
    /\ stops \in 0..MaxStops

\* A module stopped while it was TYPE_THREE has a bar for each of its LEDs.
Overgrown(m) == current_animation[m] = Off /\ num_intervals[m] # Intervals

\* The LED after the last of k bars.
BarsEnd(m, k) == Lower[m] + k * BarSize(m)

\* The frames of a module leave the neighbour's segment alone, whatever the
\* animation and wherever the stop falls: each call of strip_set_leds is for
\* an LED of the segment, or darkens the one LED before it (the second loop of
\* TYPE_ONE starts at values_matrix[n] - 1).  Only a module with more bars
\* than it was created with goes on past its segment, to the end of its bars.
KeepsToSegment ==
    \A m \in Mods : \A w \in Range(todo[m]) :
        \/ w[1] \in Segment(m)
        \/ w[1] = Lower[m] - 1 /\ w[2] = 0
        \/ Overgrown(m) /\ w[1] \in Lower[m]..(BarsEnd(m, num_intervals[m]) - 1)

\* The test in strip_set_leds lets the index NumLeds and the negative ones
\* through.  What it lets through past the strip is no more than a black LED
\* before the first, and, from a module with more bars than it was created
\* with, the one cell after the last.
StrayStores ==
    \A m \in Mods : \A w \in Range(todo[m]) :
        \/ Refused(w[1]) \/ w[1] \in Strip
        \/ w[1] = -1 /\ w[2] = 0
        \/ w[1] = NumLeds /\ Overgrown(m)

\* setup_animation_variables runs outside the animation mutex, so a stop can
\* fall between it and the frame: a module created with a bar animation
\* still finds the heights of its bars in every frame it paints.
BarsOutliveStop ==
    \A m \in Mods :
        InitTypes[m] \subseteq BarTypes /\ At(m, "frame") => values_matrix[m] # Null

\* The "engine" a fade turns off (comment of animation_type_fade_out) goes on
\* as OFF, and a frame that is not a fade needs the matrix it paints from.
FramesHaveTheirArrays ==
    \A m \in Mods :
        At(m, "frame") /\ current_animation[m] \in BarTypes => values_matrix[m] # Null

\* The music is over, and no frame takes a sample from past its end.
Silence == \A m \in Mods : fft_data[m] = 0 /\ ~Overgrown(m)

Dark(m) == \A i \in Segment(m) : shown[i] = 0

\* The header's "Stops the animation, makes strip segment go blank": after a
\* stop the driver is given a black segment.
StopBlanks ==
    \A m \in Mods : (current_animation[m] = Off ~> Dark(m))

\* What does follow a stop: once the music is over, the segment of a stopped
\* module goes blank and stays blank, however the frames, the neighbour's
\* frames and the strip update thread interleave.
SilentStopBlanks ==
    \A m \in Mods :
        <>[](current_animation[m] = Off /\ Silence) => <>[]Dark(m)

\* "Will decrement LED brightness until they are all off" (comment of
\* animation_type_fade_out): once the music is over a fade ends, although it
\* reads an LED without the strip's mutex and writes it back one darker in a
\* later step, over what another module may have painted there since.
FadeEndsInSilence ==
    \A m \in Mods :
        <>[]Silence => (Fades(current_animation[m]) ~> current_animation[m] = Off)

=============================================================================
