------------------------- MODULE StripAnimationProofs -------------------------
(***************************************************************************)
(* The strip, for any animation modules on segments of any size, any       *)
(* number of bars and any samples: types, segments and the arrays of bars. *)
(***************************************************************************)
EXTENDS StripAnimation, InductionLemmas

-----------------------------------------------------------------------------
(* Sequences                                                               *)

\* A function on the first j numbers is a sequence, if j is negative too.
LEMMA FunctionIsSequence ==
  ASSUME NEW S, NEW j \in Int, NEW f \in [1..j -> S]
  PROVE  f \in Seq(S)
<1>1. CASE j >= 0
  BY <1>1
<1>2. CASE j < 0
  <2>1. 1..j = 1..0
    BY <1>2
  <2>2. f \in [1..0 -> S]
    BY <2>1
  <2> QED
    BY <2>2
<1> QED
  BY <1>1, <1>2

-----------------------------------------------------------------------------
(* The inductive invariant                                                 *)

\* Calls of strip_set_leds a frame may be made of, whatever else goes wrong:
\* only an LED of the segment is read to be faded.
Sane(m) ==
    {w \in Int \X (Colours \cup {Fade}) : w[2] = Fade => w[1] \in Segment(m)}

\* Those of a frame that keeps to its segment.
Allowed(m) ==
    {w \in Sane(m) : w[1] \in Segment(m) \/ (w[1] = Lower[m] - 1 /\ w[2] = 0)}

\* Those of a frame of k bars, which may be more than the segment holds.
Reached(m, k) ==
    {w \in Sane(m) : w \in Allowed(m) \/ w[1] \in Lower[m]..(BarsEnd(m, k) - 1)}

StripTypeOK ==
    /\ pc \in [Mods -> {"copy", "setup", "lock", "frame", "write"}]
    /\ current_animation \in [Mods -> Types]
    /\ animation_changed \in [Mods -> BOOLEAN]
    /\ DOMAIN num_intervals = Mods /\ DOMAIN todo = Mods
    /\ DOMAIN values_matrix = Mods /\ DOMAIN peaks_matrix = Mods
    /\ leds_strip_active \in [Mods -> BOOLEAN]
    /\ fft_data \in [Mods -> Levels]
    /\ strip_cols \in [Cells -> Colours]
    /\ shown \in [Strip -> Colours]
    /\ stops \in 0..MaxStops

\* The matrices have an entry for each of the n bars, or are freed.
MatricesOK(m, n, values, peaks) ==
    /\ n \in {Intervals, SegmentLeds(m)}
    /\ values # Null => values \in [0..(n - 1) -> 0..BarSize(m)]
    /\ peaks # Null => peaks \in [0..(n - 1) -> Colours]

\* What an animation of some type finds when its frame begins.
AnimationOK(m, type, n, values, peaks) ==
    /\ type \in {One, Two} => n = Intervals
    /\ type = Three => n = SegmentLeds(m) /\ peaks # Null
    /\ InitTypes[m] \subseteq BarTypes => type \in BarTypes /\ values # Null

\* What is left of a frame.
WritesOK(m, l, type, n, writes) ==
    /\ writes \in Seq(Reached(m, n))
    /\ ~ (type = Off /\ n # Intervals) => writes \in Seq(Allowed(m))
    /\ l # "write" => writes = <<>>

ModuleOK(m) ==
    /\ MatricesOK(m, num_intervals[m], values_matrix[m], peaks_matrix[m])
    /\ AnimationOK(m, current_animation[m], num_intervals[m], values_matrix[m],
                   peaks_matrix[m])
    /\ WritesOK(m, pc[m], current_animation[m], num_intervals[m], todo[m])

StripInv == StripTypeOK /\ \A m \in Mods : ModuleOK(m)

-----------------------------------------------------------------------------
(* Colours, bars and the writes that paint them                            *)

LEMMA ColoursAreLevels ==
  /\ Levels \subseteq Colours /\ 0..NumLeds \subseteq Colours
  /\ Colours \subseteq Nat
  /\ \A c \in Colours : \A d \in Nat : d <= c => d \in Colours
<1>1. Levels \subseteq Colours
  BY LevelAssumption DEF Colours
<1>2. 0..NumLeds \subseteq Colours
  BY SegmentAssumption DEF Colours
<1>3. Colours \subseteq Nat
  BY DEF Colours
<1>4. ASSUME NEW c \in Colours, NEW d \in Nat, d <= c PROVE d \in Colours
  <2>1. CASE c <= NumLeds
    BY <1>4, <2>1, <1>3, SegmentAssumption DEF Colours
  <2>2. CASE \E level \in Levels : c <= level
    <3>1. PICK level \in Levels : c <= level
      BY <2>2
    <3>2. level \in Nat /\ c \in Nat /\ d <= level
      BY <1>3, <1>4, <3>1, LevelAssumption
    <3> QED
      BY <3>2 DEF Colours
  <2> QED
    BY <2>1, <2>2 DEF Colours
<1> QED
  BY <1>1, <1>2, <1>3, <1>4

LEMMA FadeIsNoColour == Fade \notin Colours /\ Fade \in Int
BY DEF Fade, Colours

LEMMA SegmentsAreOnTheStrip ==
  ASSUME NEW m \in Mods
  PROVE  /\ Lower[m] \in Nat /\ Upper[m] \in 0..NumLeds /\ Lower[m] < Upper[m]
         /\ SegmentLeds(m) \in 1..NumLeds
         /\ Segment(m) \subseteq Strip
         /\ \A k \in 0..(SegmentLeds(m) - 1) : Lower[m] + k \in Segment(m)
BY SegmentAssumption DEF SegmentLeds, Segment, Strip

LEMMA Quotient ==
  ASSUME NEW a \in Nat, NEW b \in Nat \ {0}
  PROVE  a \div b \in 0..a /\ b * (a \div b) <= a
OBVIOUS

LEMMA BarsFitTheSegment ==
  ASSUME NEW m \in Mods
  PROVE  /\ BarSize(m) \in 0..SegmentLeds(m)
         /\ Intervals * BarSize(m) \in 0..SegmentLeds(m)
<1>1. SegmentLeds(m) \in Nat /\ Intervals \in Nat \ {0}
  BY SegmentsAreOnTheStrip, SegmentAssumption
<1> QED
  BY <1>1, Quotient DEF BarSize

\* Bar n of k ends where the next one begins, or where the last one ends.
LEMMA BarsAscend ==
  ASSUME NEW b \in Nat, NEW k \in Nat, NEW n \in 0..(k - 1)
  PROVE  /\ n * b \in Nat /\ n * b + b <= k * b
         /\ n > 0 => n * b >= b
<1>1. (n + 1) * b = n * b + b /\ (n + 1) * b <= k * b
  OBVIOUS
<1>2. n > 0 => n * b >= b
  OBVIOUS
<1> QED
  BY <1>1, <1>2

\* The bars a module was created with end in its segment.
LEMMA IntervalsKeepToSegment ==
  ASSUME NEW m \in Mods
  PROVE  Reached(m, Intervals) \subseteq Allowed(m)
<1>1. Intervals * BarSize(m) \in Nat /\ Intervals * BarSize(m) <= SegmentLeds(m)
  BY BarsFitTheSegment, SegmentsAreOnTheStrip
<1>2. Lower[m] \in Nat /\ Upper[m] \in Nat /\ SegmentLeds(m) = Upper[m] - Lower[m]
  BY SegmentsAreOnTheStrip DEF SegmentLeds
<1>3. Lower[m]..(BarsEnd(m, Intervals) - 1) \subseteq Segment(m)
  BY <1>1, <1>2 DEF Segment, BarsEnd
<1> QED
  BY <1>3 DEF Reached, Allowed

LEMMA PaintIsReached ==
  ASSUME NEW m \in Mods, NEW q \in Nat, NEW n \in 0..(q - 1),
         NEW from \in Int, NEW to \in Int, NEW c \in Colours,
         to < BarSize(m),
         from >= 0 \/ (from = -1 /\ c = 0 /\ to < BarSize(m) - 1)
  PROVE  Paint(m, n, from, to, c) \in Seq(Reached(m, q))
<1> DEFINE at == n * BarSize(m)
           end == q * BarSize(m)
<1>1. /\ at \in Nat /\ end \in Nat /\ BarSize(m) \in Nat /\ at + BarSize(m) <= end
      /\ at = 0 \/ at >= BarSize(m)
  <2>1. BarSize(m) \in Nat
    BY BarsFitTheSegment, SegmentsAreOnTheStrip
  <2>2. at \in Nat /\ at + BarSize(m) <= end /\ (n > 0 => at >= BarSize(m))
    BY <2>1, BarsAscend
  <2>3. n = 0 => at = 0
    BY <2>1
  <2>4. end \in Nat
    BY <2>1
  <2> QED
    BY <2>1, <2>2, <2>3, <2>4
<1>2. c \in Nat /\ c # Fade
  BY ColoursAreLevels, FadeIsNoColour
<1>3. BarsEnd(m, q) = Lower[m] + end
  BY DEF BarsEnd
<1> HIDE DEF at, end
<1>4. ASSUME NEW k \in 1..(to - from + 1)
      PROVE  <<Lower[m] + at + from + k - 1, c>> \in Reached(m, q)
  <2> DEFINE i == Lower[m] + at + from + k - 1
  <2>1. i \in Int /\ Lower[m] \in Nat
    BY <1>1, SegmentsAreOnTheStrip
  <2>2. i < Lower[m] + end
    BY <1>1, <2>1
  <2>3. i >= Lower[m] \/ (i = Lower[m] - 1 /\ c = 0)
    <3>1. CASE from >= 0
      BY <1>1, <2>1, <3>1
    <3>2. CASE from = -1 /\ c = 0
      BY <1>1, <2>1, <3>2
    <3> QED
      BY <3>1, <3>2
  <2> HIDE DEF i
  <2>4. <<i, c>> \in Sane(m)
    BY <1>2, <2>1 DEF Sane
  <2>5. i \in Lower[m]..(Lower[m] + end - 1) \/ (i = Lower[m] - 1 /\ c = 0)
    BY <1>1, <2>1, <2>2, <2>3
  <2>6. i \in Lower[m]..(BarsEnd(m, q) - 1) \/ (i = Lower[m] - 1 /\ c = 0)
    BY <1>1, <1>3, <2>1, <2>5
  <2>7. <<i, c>> \in Reached(m, q)
    <3> DEFINE w == <<i, c>>
    <3>1. w \in Sane(m) /\ w[1] = i /\ w[2] = c
      BY <2>4
    <3> HIDE DEF w
    <3>2. w \in Allowed(m) \/ w[1] \in Lower[m]..(BarsEnd(m, q) - 1)
      BY <2>6, <3>1 DEF Allowed
    <3>3. w \in Reached(m, q)
      BY <3>1, <3>2 DEF Reached
    <3> QED
      BY <3>3 DEF w
  <2> QED
    BY <2>7 DEF i
<1>5. Paint(m, n, from, to, c) \in [1..(to - from + 1) -> Reached(m, q)]
  BY <1>4 DEF Paint, at
<1> QED
  BY <1>5, FunctionIsSequence

LEMMA BarIsReached ==
  ASSUME NEW m \in Mods, NEW q \in Nat, NEW n \in 0..(q - 1), NEW v \in 0..BarSize(m)
  PROVE  Bar(m, n, v) \in Seq(Reached(m, q))
<1>1. BarSize(m) \in 0..NumLeds /\ NumLeds \in Nat
  BY BarsFitTheSegment, SegmentsAreOnTheStrip, SegmentAssumption
<1>2. v \in Colours /\ 0 \in Colours /\ v \in Nat
  BY <1>1, ColoursAreLevels
<1>3. Paint(m, n, 0, v - 1, v) \in Seq(Reached(m, q))
  BY <1>1, <1>2, PaintIsReached
<1>4. Paint(m, n, v - 1, BarSize(m) - 2, 0) \in Seq(Reached(m, q))
  BY <1>1, <1>2, PaintIsReached
<1>5. Paint(m, n, 0, BarSize(m) - 2, v) \in Seq(Reached(m, q))
  BY <1>1, <1>2, PaintIsReached
<1> QED
  BY <1>3, <1>4, <1>5, ConcatProperties DEF Bar, BarTypeOne, BarTypeTwo

LEMMA BarsAreReached ==
  ASSUME NEW m \in Mods, num_intervals[m] \in Nat,
         NEW heights \in [0..(num_intervals[m] - 1) -> 0..BarSize(m)]
  PROVE  Bars(m, heights) \in Seq(Reached(m, num_intervals[m]))
<1> DEFINE bars == [i \in 1..num_intervals[m] |-> Bar(m, i - 1, heights[i - 1])]
<1>1. ASSUME NEW i \in 1..num_intervals[m]
      PROVE  Bar(m, i - 1, heights[i - 1]) \in Seq(Reached(m, num_intervals[m]))
  <2>1. i - 1 \in 0..(num_intervals[m] - 1)
    OBVIOUS
  <2> QED
    BY <2>1, BarIsReached
<1>2. bars \in [1..num_intervals[m] -> Seq(Reached(m, num_intervals[m]))]
  BY <1>1
<1> HIDE DEF bars
<1>3. bars \in Seq(Seq(Reached(m, num_intervals[m])))
  BY <1>2, FunctionIsSequence
<1>4. FlattenSeq(bars) \in Seq(Reached(m, num_intervals[m]))
  BY <1>3, FlattenSeqType
<1> QED
  BY <1>4 DEF Bars, bars

-----------------------------------------------------------------------------
(* The matrices setup_animation_variables allocates, and the next heights  *)

LEMMA TypesDiffer ==
  /\ Types = {Off, One, Two, Three, FadeOut, FadeRainbow, RainbowOne}
  /\ BarTypes = {Off, One, Two}
  /\ Off \notin {One, Two, Three} /\ Three \notin {One, Two}
BY DEF Types, BarTypes, Off, One, Two, Three

LEMMA ZerosAreAllocated ==
  ASSUME NEW n \in Nat \ {0}, NEW S, 0 \in S
  PROVE  Zeros(n) # Null /\ Zeros(n) \in [0..(n - 1) -> S]
<1>1. Zeros(n) \in [0..(n - 1) -> S]
  BY DEF Zeros
<1>2. 0 \in DOMAIN Zeros(n)
  BY DEF Zeros
<1>3. DOMAIN Null = {}
  BY DEF Null
<1> QED
  BY <1>1, <1>2, <1>3

LEMMA NothingIsAllocated ==
  ASSUME NEW n \in Nat \ {0}, NEW S
  PROVE  Null \notin [0..(n - 1) -> S]
<1>1. DOMAIN Null = {}
  BY DEF Null
<1>2. 0 \in 0..(n - 1)
  OBVIOUS
<1> QED
  BY <1>1, <1>2

LEMMA SetupAllocates ==
  ASSUME NEW m \in Mods, NEW type \in Types,
         NEW n \in {Intervals, SegmentLeds(m)},
         type \in {One, Two} => n = Intervals,
         InitTypes[m] \subseteq BarTypes => type \in BarTypes,
         NEW k, k = IntervalsFor(m, type, n)
  PROVE  /\ MatricesOK(m, k, ValuesFor(type, k), PeaksFor(m, type, k))
         /\ AnimationOK(m, type, k, ValuesFor(type, k), PeaksFor(m, type, k))
<1>1. SegmentLeds(m) \in Nat \ {0} /\ Intervals \in Nat \ {0}
  BY SegmentsAreOnTheStrip, SegmentAssumption
<1>2. 0 \in 0..BarSize(m) /\ 0 \in Colours
  BY <1>1, BarsFitTheSegment, LevelAssumption, ColoursAreLevels
<1>3. k \in {Intervals, SegmentLeds(m)} /\ k \in Nat \ {0}
  BY <1>1 DEF IntervalsFor
<1>4. Zeros(k) # Null
  BY <1>2, <1>3, ZerosAreAllocated
<1>5. Zeros(k) \in [0..(k - 1) -> 0..BarSize(m)]
  BY <1>2, <1>3, ZerosAreAllocated
<1>6. Zeros(k) \in [0..(k - 1) -> Colours]
  BY <1>2, <1>3, ZerosAreAllocated
<1>7. CASE type \in BarTypes
  <2>1. type # Three
    BY <1>7, TypesDiffer
  <2>2. k = n /\ ValuesFor(type, k) = Zeros(k) /\ PeaksFor(m, type, k) = Zeros(k)
    BY <1>7, <2>1 DEF IntervalsFor, ValuesFor, PeaksFor
  <2>3. MatricesOK(m, k, Zeros(k), Zeros(k))
    BY <1>3, <1>5, <1>6 DEF MatricesOK
  <2>4. AnimationOK(m, type, k, Zeros(k), Zeros(k))
    BY <1>4, <1>7, <2>1, <2>2 DEF AnimationOK
  <2> QED
    BY <2>2, <2>3, <2>4
<1>8. CASE type = Three
  <2>1. type \notin BarTypes /\ type \notin {One, Two}
    BY <1>8, TypesDiffer
  <2>2. k = SegmentLeds(m) /\ ValuesFor(type, k) = Null /\ PeaksFor(m, type, k) = Zeros(k)
    BY <1>8, <2>1 DEF IntervalsFor, ValuesFor, PeaksFor
  <2>3. MatricesOK(m, k, Null, Zeros(k))
    BY <1>3, <1>6 DEF MatricesOK
  <2>4. AnimationOK(m, type, k, Null, Zeros(k))
    BY <1>4, <2>1, <2>2 DEF AnimationOK
  <2> QED
    BY <2>2, <2>3, <2>4
<1>9. CASE type \notin BarTypes /\ type # Three
  <2>1. k = n /\ ValuesFor(type, k) = Null /\ PeaksFor(m, type, k) = Null
    BY <1>9 DEF IntervalsFor, ValuesFor, PeaksFor
  <2>2. MatricesOK(m, k, Null, Null)
    BY <1>3 DEF MatricesOK
  <2>3. AnimationOK(m, type, k, Null, Null)
    BY <1>9, <2>1 DEF AnimationOK
  <2> QED
    BY <2>1, <2>2, <2>3
<1> QED
  BY <1>7, <1>8, <1>9

LEMMA NextBarsFit ==
  ASSUME NEW m \in Mods, NEW past \in Levels, fft_data[m] \in Levels,
         num_intervals[m] \in Nat \ {0},
         values_matrix[m] \in [0..(num_intervals[m] - 1) -> 0..BarSize(m)]
  PROVE  /\ NextBars(m, past) \in [0..(num_intervals[m] - 1) -> 0..BarSize(m)]
         /\ NextBars(m, past) # Null
<1>1. BarSize(m) \in Nat
  BY BarsFitTheSegment, SegmentsAreOnTheStrip
<1>. past \in Nat /\ fft_data[m] \in Nat
  BY LevelAssumption
<1>2. ASSUME NEW v \in 0..BarSize(m), NEW dropped \in {v, Greatest(v - 1, 0)},
             NEW sample \in {past, fft_data[m]}
      PROVE  Greatest(dropped, Least(sample, BarSize(m))) \in 0..BarSize(m)
  BY <1>1, <1>2 DEF Greatest, Least
<1>3. ASSUME NEW n \in 0..(num_intervals[m] - 1)
      PROVE  LET v == values_matrix[m][n]
                 dropped == IF n < DropBars THEN Greatest(v - 1, 0) ELSE v
                 sample  == IF n < Intervals THEN fft_data[m] ELSE past
             IN  Greatest(dropped, Least(sample, BarSize(m))) \in 0..BarSize(m)
  BY <1>2
<1>4. NextBars(m, past) \in [0..(num_intervals[m] - 1) -> 0..BarSize(m)]
  BY <1>3, Zenon DEF NextBars
<1> QED
  BY <1>4, NothingIsAllocated

-----------------------------------------------------------------------------
(* Every step keeps the invariant                                          *)

\* A thread, or the stop of a module, leaves the other modules alone.
LEMMA OthersKept ==
  ASSUME StripInv, NEW m \in Mods, Runtime(m) \/ StopAnimation(m),
         NEW n \in Mods, n # m
  PROVE  ModuleOK(n)'
<1> USE DEF StripInv, StripTypeOK, mod, Goto
<1>1. /\ pc'[n] = pc[n] /\ current_animation'[n] = current_animation[n]
      /\ num_intervals'[n] = num_intervals[n] /\ values_matrix'[n] = values_matrix[n]
      /\ peaks_matrix'[n] = peaks_matrix[n] /\ todo'[n] = todo[n]
  <2>1. CASE CopyFft(m)
    BY <2>1 DEF CopyFft
  <2>2. CASE Setup(m)
    BY <2>2 DEF Setup
  <2>3. CASE LockAnimation(m)
    BY <2>3 DEF LockAnimation
  <2>4. CASE FrameOff(m)
    BY <2>4 DEF FrameOff, BarFrame, PaintFrame
  <2>5. CASE FrameOne(m)
    BY <2>5 DEF FrameOne, BarFrame, PaintFrame
  <2>6. CASE FrameTwo(m)
    BY <2>6 DEF FrameTwo, BarFrame, PaintFrame
  <2>7. CASE FrameThree(m)
    BY <2>7 DEF FrameThree, PaintFrame
  <2>8. CASE FrameFade(m)
    BY <2>8 DEF FrameFade, PaintFrame
  <2>9. CASE FadeRead(m)
    BY <2>9 DEF FadeRead
  <2>10. CASE SetLed(m)
    BY <2>10 DEF SetLed
  <2>11. CASE EndFrame(m)
    BY <2>11 DEF EndFrame
  <2>12. CASE StopAnimation(m)
    BY <2>12 DEF StopAnimation
  <2>13. CASE FrameThreeShort(m)
    BY <2>13 DEF FrameThreeShort, PaintFrame
  <2> QED
    BY <2>1, <2>2, <2>3, <2>4, <2>5, <2>6, <2>7, <2>8, <2>9, <2>10, <2>11,
       <2>12, <2>13 DEF Runtime
<1> QED
  BY <1>1 DEF ModuleOK

LEMMA CopyAndLockKeep ==
  ASSUME StripInv, NEW m \in Mods, CopyFft(m) \/ LockAnimation(m)
  PROVE  StripTypeOK' /\ ModuleOK(m)'
<1> USE DEF StripInv, StripTypeOK, mod, Goto, At
<1>1. CASE CopyFft(m)
  <2>1. StripTypeOK'
    BY <1>1 DEF CopyFft
  <2>2. todo[m] = <<>>
    BY <1>1 DEF CopyFft, ModuleOK, WritesOK
  <2> QED
    BY <1>1, <2>1, <2>2 DEF CopyFft, ModuleOK, WritesOK
<1>2. CASE LockAnimation(m)
  <2>1. StripTypeOK'
    BY <1>2 DEF LockAnimation
  <2>2. todo[m] = <<>>
    BY <1>2 DEF LockAnimation, ModuleOK, WritesOK
  <2> QED
    BY <1>2, <2>1, <2>2 DEF LockAnimation, ModuleOK, WritesOK
<1> QED
  BY <1>1, <1>2

LEMMA NoWritesOK ==
  ASSUME NEW m, NEW l, NEW type, NEW n
  PROVE  WritesOK(m, l, type, n, <<>>)
BY DEF WritesOK

LEMMA SetupKeeps ==
  ASSUME StripInv, NEW m \in Mods, Setup(m)
  PROVE  StripTypeOK' /\ ModuleOK(m)'
<1> USE DEF StripInv, StripTypeOK, Goto, At
<1>1. StripTypeOK'
  BY DEF Setup, mod
<1>2. todo'[m] = <<>> /\ current_animation'[m] = current_animation[m]
  BY DEF Setup, ModuleOK, WritesOK
<1>3. CASE animation_changed[m]
  <2> DEFINE type == current_animation[m]
             n    == IntervalsFor(m, type, num_intervals[m])
  <2>1. /\ num_intervals'[m] = n
        /\ values_matrix'[m] = ValuesFor(type, n)
        /\ peaks_matrix'[m] = PeaksFor(m, type, n)
    BY <1>3 DEF Setup
  <2>2. type \in Types
    OBVIOUS
  <2>3. /\ num_intervals[m] \in {Intervals, SegmentLeds(m)}
        /\ type \in {One, Two} => num_intervals[m] = Intervals
        /\ InitTypes[m] \subseteq BarTypes => type \in BarTypes
    BY DEF ModuleOK, MatricesOK, AnimationOK
  <2> HIDE DEF type
  <2>4. /\ MatricesOK(m, n, ValuesFor(type, n), PeaksFor(m, type, n))
        /\ AnimationOK(m, type, n, ValuesFor(type, n), PeaksFor(m, type, n))
    BY <2>2, <2>3, SetupAllocates
  <2> HIDE DEF n
  <2> QED
    BY <1>1, <1>2, <2>1, <2>4, NoWritesOK DEF ModuleOK, type
<1>4. CASE ~ animation_changed[m]
  <2>1. UNCHANGED <<num_intervals, values_matrix, peaks_matrix>>
    BY <1>4 DEF Setup, mod
  <2> QED
    BY <1>1, <1>2, <2>1, NoWritesOK DEF ModuleOK
<1> QED
  BY <1>3, <1>4

LEMMA EndAndStopKeep ==
  ASSUME StripInv, NEW m \in Mods, EndFrame(m) \/ StopAnimation(m)
  PROVE  StripTypeOK' /\ ModuleOK(m)'
<1> USE DEF StripInv, StripTypeOK, Goto, At
<1>1. Off \in Types /\ Off \in BarTypes /\ Off \notin {One, Two, Three}
  BY TypesDiffer
<1>2. StripTypeOK'
  <2>1. CASE EndFrame(m)
    BY <1>1, <2>1 DEF EndFrame, mod
  <2>2. CASE StopAnimation(m)
    BY <1>1, <2>2, SegmentAssumption DEF StopAnimation, mod
  <2> QED
    BY <2>1, <2>2
<1>3. todo'[m] = <<>>
  BY DEF EndFrame, StopAnimation, AnimationLocked, ModuleOK, WritesOK
<1>4. /\ num_intervals'[m] = num_intervals[m] /\ values_matrix'[m] = values_matrix[m]
      /\ peaks_matrix'[m] = peaks_matrix[m]
  BY DEF EndFrame, StopAnimation, mod
<1>5. current_animation'[m] \in {current_animation[m], Off}
  BY DEF EndFrame, StopAnimation
<1>6. AnimationOK(m, current_animation'[m], num_intervals[m], values_matrix[m],
                  peaks_matrix[m])
  BY <1>1, <1>5 DEF ModuleOK, AnimationOK
<1> QED
  BY <1>2, <1>3, <1>4, <1>6, NoWritesOK DEF ModuleOK

LEMMA ClearStripIsAllowed ==
  ASSUME NEW m \in Mods
  PROVE  ClearStrip(m) \in Seq(Allowed(m))
<1>1. SegmentLeds(m) \in Nat /\ 0 \in Colours /\ 0 # Fade
  BY SegmentsAreOnTheStrip, ColoursAreLevels, LevelAssumption DEF Fade
<1>2. ASSUME NEW k \in 1..SegmentLeds(m)
      PROVE  <<Lower[m] + k - 1, 0>> \in Allowed(m)
  <2>1. k - 1 \in 0..(SegmentLeds(m) - 1) /\ Lower[m] + (k - 1) = Lower[m] + k - 1
        /\ Lower[m] + k - 1 \in Int
    BY <1>1, SegmentsAreOnTheStrip
  <2>2. Lower[m] + k - 1 \in Segment(m)
    BY <2>1, SegmentsAreOnTheStrip
  <2> QED
    BY <1>1, <2>1, <2>2 DEF Allowed, Sane
<1>3. ClearStrip(m) \in [1..SegmentLeds(m) -> Allowed(m)]
  BY <1>2 DEF ClearStrip
<1> QED
  BY <1>1, <1>3, FunctionIsSequence

LEMMA AllowedIsReached ==
  ASSUME NEW m, NEW k, NEW s \in Seq(Allowed(m))
  PROVE  s \in Seq(Reached(m, k))
<1>1. Allowed(m) \subseteq Reached(m, k)
  BY DEF Allowed, Reached
<1> QED
  BY <1>1

LEMMA BarFrameKeeps ==
  ASSUME StripInv, NEW m \in Mods, current_animation[m] \in BarTypes,
         NEW first \in Seq(Allowed(m)), BarFrame(m, first)
  PROVE  StripTypeOK' /\ ModuleOK(m)'
<1> USE DEF StripInv, StripTypeOK, Goto
<1>1. PICK past \in Levels :
        /\ values_matrix' = [values_matrix EXCEPT ![m] = NextBars(m, past)]
        /\ PaintFrame(m, first \o Bars(m, NextBars(m, past)))
  BY DEF BarFrame
<1> DEFINE n == num_intervals[m]
           heights == NextBars(m, past)
           writes == first \o Bars(m, heights)
<1>2. StripTypeOK'
  BY <1>1 DEF BarFrame, PaintFrame
<1>3. /\ values_matrix'[m] = heights /\ todo'[m] = writes
      /\ num_intervals'[m] = n /\ peaks_matrix'[m] = peaks_matrix[m]
      /\ current_animation'[m] = current_animation[m]
  BY <1>1 DEF BarFrame, PaintFrame
<1>4. pc'[m] = "write"
  BY <1>1 DEF PaintFrame
<1>5. /\ n \in {Intervals, SegmentLeds(m)} /\ n \in Nat \ {0}
      /\ fft_data[m] \in Levels
  BY SegmentsAreOnTheStrip, SegmentAssumption DEF ModuleOK, MatricesOK
<1>6. values_matrix[m] \in [0..(n - 1) -> 0..BarSize(m)]
  BY DEF BarFrame, ModuleOK, MatricesOK
<1>7. heights \in [0..(n - 1) -> 0..BarSize(m)] /\ heights # Null
  BY <1>5, <1>6, NextBarsFit
<1> HIDE DEF heights
<1>8. Bars(m, heights) \in Seq(Reached(m, n))
  BY <1>5, <1>7, BarsAreReached
<1>9. n = Intervals => Bars(m, heights) \in Seq(Allowed(m))
  <2> HIDE DEF n
  <2> QED
    BY <1>8, IntervalsKeepToSegment
<1>10. writes \in Seq(Reached(m, n)) /\ (n = Intervals => writes \in Seq(Allowed(m)))
  <2>1. first \in Seq(Reached(m, n))
    BY AllowedIsReached
  <2> HIDE DEF n
  <2> QED
    BY <1>8, <1>9, <2>1, ConcatProperties
<1>11. current_animation[m] \in BarTypes /\ current_animation[m] # Off => n = Intervals
  BY TypesDiffer DEF ModuleOK, AnimationOK
<1>12. MatricesOK(m, n, heights, peaks_matrix[m])
  BY <1>7 DEF ModuleOK, MatricesOK
<1>13. AnimationOK(m, current_animation[m], n, heights, peaks_matrix[m])
  BY <1>7 DEF ModuleOK, AnimationOK
<1> HIDE DEF writes, n
<1>14. WritesOK(m, "write", current_animation[m], n, writes)
  BY <1>10, <1>11 DEF WritesOK
<1> QED
  BY <1>2, <1>3, <1>4, <1>12, <1>13, <1>14 DEF ModuleOK

LEMMA BarFramesKeep ==
  ASSUME StripInv, NEW m \in Mods, FrameOff(m) \/ FrameOne(m) \/ FrameTwo(m)
  PROVE  StripTypeOK' /\ ModuleOK(m)'
<1>1. current_animation[m] \in BarTypes
  BY TypesDiffer DEF FrameOff, FrameOne, FrameTwo
<1>2. <<>> \in Seq(Allowed(m)) /\ ClearStrip(m) \in Seq(Allowed(m))
  BY ClearStripIsAllowed
<1>3. BarFrame(m, <<>>) \/ BarFrame(m, ClearStrip(m))
  BY DEF FrameOff, FrameOne, FrameTwo
<1> QED
  BY <1>1, <1>2, <1>3, BarFrameKeeps

LEMMA FrameThreeShortKeeps ==
  ASSUME StripInv, NEW m \in Mods, FrameThreeShort(m)
  PROVE  StripTypeOK' /\ ModuleOK(m)'
<1>1. StripTypeOK'
  BY DEF StripInv, StripTypeOK, FrameThreeShort, PaintFrame, Goto
<1>2. /\ values_matrix'[m] = values_matrix[m] /\ peaks_matrix'[m] = peaks_matrix[m]
      /\ num_intervals'[m] = num_intervals[m]
      /\ current_animation'[m] = current_animation[m]
      /\ todo'[m] = <<>> /\ pc'[m] = "write"
  BY DEF StripInv, StripTypeOK, FrameThreeShort, PaintFrame, Goto
<1>3. WritesOK(m, "write", current_animation[m], num_intervals[m], <<>>)
  BY NoWritesOK
<1> QED
  BY <1>1, <1>2, <1>3 DEF StripInv, ModuleOK

LEMMA FrameThreeKeeps ==
  ASSUME StripInv, NEW m \in Mods, FrameThree(m)
  PROVE  StripTypeOK' /\ ModuleOK(m)'
<1> USE DEF StripInv, StripTypeOK, Goto
<1> DEFINE s == SegmentLeds(m)
           peaks == [n \in DOMAIN peaks_matrix[m] |->
                       Greatest(Greatest(fft_data[m], peaks_matrix[m][n]) - 1, 0)]
           writes == [k \in 1..SegmentLeds(m) |-> <<k - 1, peaks[k - 1]>>]
<1>1. current_animation[m] = Three /\ Lower[m] = 0
  BY DEF FrameThree
<1>2. peaks_matrix' = [peaks_matrix EXCEPT ![m] = peaks]
  BY DEF FrameThree
<1>3. PaintFrame(m, writes)
  BY DEF FrameThree
<1>4. UNCHANGED <<values_matrix, leds_strip_active>>
  BY DEF FrameThree
<1>5. s \in Nat \ {0} /\ num_intervals[m] = s /\ fft_data[m] \in Colours
  <2>1. SegmentLeds(m) \in Nat \ {0}
    BY SegmentsAreOnTheStrip
  <2>2. num_intervals[m] = SegmentLeds(m)
    BY <1>1 DEF ModuleOK, AnimationOK
  <2>3. fft_data[m] \in Levels
    OBVIOUS
  <2> QED
    BY <2>1, <2>2, <2>3, ColoursAreLevels
<1>6. peaks_matrix[m] \in [0..(s - 1) -> Colours]
  BY <1>1, <1>5 DEF ModuleOK, AnimationOK, MatricesOK
<1>7. ASSUME NEW a \in Colours, NEW b \in Colours
      PROVE  Greatest(Greatest(a, b) - 1, 0) \in Colours
  <2>1. a \in Nat /\ b \in Nat
    BY ColoursAreLevels
  <2>2. /\ Greatest(Greatest(a, b) - 1, 0) \in Nat
        /\ \/ Greatest(Greatest(a, b) - 1, 0) <= a
           \/ Greatest(Greatest(a, b) - 1, 0) <= b
    BY <2>1 DEF Greatest
  <2> QED
    BY <2>2, ColoursAreLevels
<1>8. peaks \in [0..(s - 1) -> Colours]
  BY <1>5, <1>6, <1>7
<1> HIDE DEF peaks, s
<1>9. peaks # Null
  <2>1. Null \notin [0..(s - 1) -> Colours]
    BY <1>5, NothingIsAllocated
  <2> QED
    BY <1>8, <2>1
<1>10. ASSUME NEW k \in 1..s
       PROVE  <<k - 1, peaks[k - 1]>> \in Allowed(m)
  <2>1. k - 1 \in 0..(s - 1) /\ Lower[m] + (k - 1) = k - 1
    BY <1>1, <1>5
  <2>2. k - 1 \in Segment(m)
    BY <2>1, SegmentsAreOnTheStrip DEF s
  <2>3. peaks[k - 1] \in Colours /\ peaks[k - 1] # Fade
    BY <2>1, <1>8, FadeIsNoColour
  <2> QED
    BY <2>1, <2>2, <2>3 DEF Allowed, Sane
<1>11. writes \in Seq(Allowed(m))
  <2>1. writes \in [1..s -> Allowed(m)]
    BY <1>10 DEF s
  <2> HIDE DEF writes
  <2> QED
    BY <1>5, <2>1, FunctionIsSequence
<1> HIDE DEF writes
<1>12. StripTypeOK'
  BY <1>2, <1>3, <1>4 DEF PaintFrame
<1>13. /\ values_matrix'[m] = values_matrix[m] /\ todo'[m] = writes
       /\ num_intervals'[m] = s /\ peaks_matrix'[m] = peaks
       /\ current_animation'[m] = Three /\ pc'[m] = "write"
  BY <1>1, <1>2, <1>3, <1>4, <1>5 DEF PaintFrame
<1>14. MatricesOK(m, s, values_matrix[m], peaks)
  BY <1>5, <1>8 DEF ModuleOK, MatricesOK, s
<1>15. AnimationOK(m, Three, s, values_matrix[m], peaks)
  BY <1>1, <1>5, <1>9, TypesDiffer DEF ModuleOK, AnimationOK, s
<1>16. WritesOK(m, "write", Three, s, writes)
  BY <1>11, AllowedIsReached DEF WritesOK
<1> QED
  BY <1>12, <1>13, <1>14, <1>15, <1>16 DEF ModuleOK

LEMMA FrameFadeKeeps ==
  ASSUME StripInv, NEW m \in Mods, FrameFade(m)
  PROVE  StripTypeOK' /\ ModuleOK(m)'
<1> USE DEF StripInv, StripTypeOK, Goto
<1> DEFINE lit == [k \in 1..SegmentLeds(m) |-> <<Lower[m] + k - 1, Fade>>]
<1>1. ASSUME NEW k \in 1..SegmentLeds(m)
      PROVE  <<Lower[m] + k - 1, Fade>> \in Allowed(m)
  <2>1. k - 1 \in 0..(SegmentLeds(m) - 1) /\ Lower[m] + (k - 1) = Lower[m] + k - 1
        /\ Lower[m] + k - 1 \in Int
    BY SegmentsAreOnTheStrip
  <2>2. Lower[m] + k - 1 \in Segment(m)
    BY <2>1, SegmentsAreOnTheStrip
  <2> QED
    BY <2>1, <2>2 DEF Allowed, Sane
<1>2. lit \in Seq(Allowed(m))
  <2>1. lit \in [1..SegmentLeds(m) -> Allowed(m)] /\ SegmentLeds(m) \in Int
    BY <1>1, SegmentsAreOnTheStrip
  <2> HIDE DEF lit
  <2> QED
    BY <2>1, FunctionIsSequence
<1>3. PICK writes \in {lit, <<>>} : PaintFrame(m, writes)
  BY DEF FrameFade
<1>4. writes \in Seq(Allowed(m)) /\ writes \in Seq(Reached(m, num_intervals[m]))
  <2>1. <<>> \in Seq(Allowed(m))
    OBVIOUS
  <2> HIDE DEF lit
  <2>2. writes = lit \/ writes = <<>>
    OBVIOUS
  <2>3. writes \in Seq(Allowed(m))
    BY <1>2, <2>1, <2>2
  <2> QED
    BY <2>3, AllowedIsReached
<1>5. StripTypeOK'
  BY <1>3 DEF FrameFade, PaintFrame
<1>6. /\ values_matrix'[m] = values_matrix[m] /\ peaks_matrix'[m] = peaks_matrix[m]
      /\ num_intervals'[m] = num_intervals[m]
      /\ current_animation'[m] = current_animation[m]
      /\ todo'[m] = writes /\ pc'[m] = "write"
  BY <1>3 DEF FrameFade, PaintFrame
<1>7. WritesOK(m, "write", current_animation[m], num_intervals[m], writes)
  BY <1>4 DEF WritesOK
<1> QED
  BY <1>5, <1>6, <1>7 DEF ModuleOK

\* The first write of a frame that is not over, and the rest.
LEMMA NextWrite ==
  ASSUME StripInv, NEW m \in Mods, todo[m] # <<>>
  PROVE  /\ Head(todo[m]) \in Sane(m)
         /\ Tail(todo[m]) \in Seq(Reached(m, num_intervals[m]))
         /\ todo[m] \in Seq(Allowed(m)) =>
              Head(todo[m]) \in Allowed(m) /\ Tail(todo[m]) \in Seq(Allowed(m))
         /\ pc[m] = "write"
<1>1. todo[m] \in Seq(Reached(m, num_intervals[m])) /\ pc[m] = "write"
  BY DEF StripInv, ModuleOK, WritesOK
<1>2. ASSUME NEW S, todo[m] \in Seq(S)
      PROVE  Head(todo[m]) \in S /\ Tail(todo[m]) \in Seq(S)
  BY <1>2
<1>3. Head(todo[m]) \in Reached(m, num_intervals[m])
  BY <1>1, <1>2
<1> QED
  BY <1>1, <1>2, <1>3 DEF Reached

LEMMA FadeReadKeeps ==
  ASSUME StripInv, NEW m \in Mods, FadeRead(m)
  PROVE  StripTypeOK' /\ ModuleOK(m)'
<1> USE DEF StripInv, StripTypeOK
<1> DEFINE i == Head(todo[m])[1]
           c == IF strip_cols[i] > 0 THEN strip_cols[i] - 1 ELSE 0
           rest == <<<<i, c>>>> \o Tail(todo[m])
<1>1. todo[m] # <<>> /\ Head(todo[m])[2] = Fade
  BY DEF FadeRead
<1>2. i \in Int /\ i \in Segment(m)
  <2>1. Head(todo[m]) \in Sane(m)
    BY <1>1, NextWrite
  <2> QED
    BY <1>1, <2>1 DEF Sane
<1>3. strip_cols[i] \in Colours
  <2>1. Segment(m) \subseteq Cells
    BY SegmentsAreOnTheStrip, SegmentAssumption DEF Strip, Cells
  <2> QED
    BY <1>2, <2>1
<1> HIDE DEF i
<1>4. c \in Colours /\ c # Fade
  <2>1. strip_cols[i] \in Nat /\ 0 \in Colours
    BY <1>3, ColoursAreLevels, LevelAssumption
  <2>2. c \in Nat /\ (c <= strip_cols[i] \/ c = 0)
    BY <2>1
  <2> HIDE DEF c
  <2> QED
    BY <1>3, <2>1, <2>2, ColoursAreLevels, FadeIsNoColour
<1> HIDE DEF c
<1>5. <<i, c>> \in Reached(m, num_intervals[m]) /\ <<i, c>> \in Allowed(m)
  BY <1>2, <1>4 DEF Sane, Allowed, Reached
<1>6. rest \in Seq(Reached(m, num_intervals[m]))
  BY <1>1, <1>5, NextWrite, ConcatProperties
<1>7. todo[m] \in Seq(Allowed(m)) => rest \in Seq(Allowed(m))
  BY <1>1, <1>5, NextWrite, ConcatProperties
<1>8. todo' = [todo EXCEPT ![m] = rest]
  BY DEF FadeRead, c, i
<1> HIDE DEF rest
<1>9. StripTypeOK'
  <2>1. leds_strip_active' \in [Mods -> BOOLEAN]
    <3>1. ASSUME NEW b, leds_strip_active' = [leds_strip_active EXCEPT ![m] = b],
                 b \in BOOLEAN
          PROVE  leds_strip_active' \in [Mods -> BOOLEAN]
      BY <3>1
    <3>2. (leds_strip_active[m] \/ strip_cols[i] > 0) \in BOOLEAN
      OBVIOUS
    <3> QED
      BY <3>1, <3>2, Zenon DEF FadeRead, i
  <2> QED
    BY <1>8, <2>1 DEF FadeRead, mod
<1>10. /\ UNCHANGED <<pc, current_animation, num_intervals, values_matrix, peaks_matrix>>
       /\ todo'[m] = rest
  BY <1>8 DEF FadeRead, mod
<1>11. WritesOK(m, pc[m], current_animation[m], num_intervals[m], rest)
  BY <1>1, <1>6, <1>7, NextWrite DEF ModuleOK, WritesOK
<1> QED
  BY <1>9, <1>10, <1>11 DEF ModuleOK

LEMMA SetLedKeeps ==
  ASSUME StripInv, NEW m \in Mods, SetLed(m)
  PROVE  StripTypeOK' /\ ModuleOK(m)'
<1> USE DEF StripInv, StripTypeOK
<1>1. todo[m] # <<>> /\ Head(todo[m])[2] # Fade
  BY DEF SetLed
<1>2. Head(todo[m])[2] \in Colours
  <2>1. Head(todo[m]) \in Sane(m)
    BY <1>1, NextWrite
  <2> QED
    BY <1>1, <2>1 DEF Sane
<1>3. StripTypeOK'
  BY <1>2 DEF SetLed, mod
<1>4. /\ UNCHANGED <<pc, current_animation, num_intervals, values_matrix, peaks_matrix>>
      /\ todo'[m] = Tail(todo[m])
  BY DEF SetLed, mod
<1>5. WritesOK(m, pc[m], current_animation[m], num_intervals[m], Tail(todo[m]))
  BY <1>1, NextWrite DEF ModuleOK, WritesOK
<1> QED
  BY <1>3, <1>4, <1>5 DEF ModuleOK

LEMMA StripInit == Init => StripInv
<1> SUFFICES ASSUME Init PROVE StripInv
  OBVIOUS
<1>1. StripTypeOK
  <2>1. 0 \in Levels /\ 0 \in Colours
    BY LevelAssumption, ColoursAreLevels
  <2>2. leds_strip_active \in [Mods -> BOOLEAN]
    <3> DEFINE lit == [m \in Mods |-> current_animation[m] \in {FadeOut, FadeRainbow}]
    <3>1. ASSUME NEW m \in Mods
          PROVE  (current_animation[m] \in {FadeOut, FadeRainbow}) \in BOOLEAN
      OBVIOUS
    <3>2. lit \in [Mods -> BOOLEAN]
      BY <3>1, Zenon
    <3> QED
      BY <3>2, Zenon DEF Init
  <2> QED
    BY <2>1, <2>2, SegmentAssumption DEF Init, StripTypeOK
<1>2. ASSUME NEW m \in Mods PROVE ModuleOK(m)
  <2> DEFINE type == current_animation[m]
             n    == num_intervals[m]
  <2>1. type \in Types /\ type \in InitTypes[m]
    BY DEF Init
  <2>2. n = IntervalsFor(m, type, Intervals)
    BY DEF Init
  <2>3. values_matrix[m] = ValuesFor(type, n) /\ peaks_matrix[m] = PeaksFor(m, type, n)
    BY TypesDiffer DEF Init, ValuesFor, PeaksFor, IntervalsFor
  <2>4. todo[m] = <<>>
    BY DEF Init
  <2> HIDE DEF type, n
  <2>5. /\ MatricesOK(m, n, ValuesFor(type, n), PeaksFor(m, type, n))
        /\ AnimationOK(m, type, n, ValuesFor(type, n), PeaksFor(m, type, n))
    BY <2>1, <2>2, SetupAllocates
  <2> QED
    BY <2>3, <2>4, <2>5, NoWritesOK DEF ModuleOK, type, n
<1> QED
  BY <1>1, <1>2 DEF StripInv

LEMMA StripStep == StripInv /\ [Next]_vars => StripInv'
<1> SUFFICES ASSUME StripInv, [Next]_vars PROVE StripInv'
  OBVIOUS
<1>1. ASSUME NEW m \in Mods, Runtime(m) \/ StopAnimation(m) PROVE StripInv'
  <2>1. StripTypeOK' /\ ModuleOK(m)'
    BY <1>1, CopyAndLockKeep, SetupKeeps, BarFramesKeep, FrameThreeShortKeeps,
       FrameThreeKeeps, FrameFadeKeeps, FadeReadKeeps, SetLedKeeps, EndAndStopKeep DEF Runtime
  <2>2. \A n \in Mods : n # m => ModuleOK(n)'
    BY <1>1, OthersKept
  <2> QED
    BY <2>1, <2>2 DEF StripInv
<1>2. CASE UpdateStrip
  <2>1. StripTypeOK'
    <3>1. Strip \subseteq Cells
      BY SegmentAssumption DEF Strip, Cells
    <3> QED
      BY <1>2, <3>1 DEF UpdateStrip, mod, StripInv, StripTypeOK
  <2>2. \A m \in Mods : ModuleOK(m)'
    BY <1>2 DEF UpdateStrip, mod, StripInv, ModuleOK
  <2> QED
    BY <2>1, <2>2 DEF StripInv
<1>3. CASE UNCHANGED vars
  <2>1. StripTypeOK'
    BY <1>3 DEF vars, mod, StripInv, StripTypeOK
  <2>2. \A m \in Mods : ModuleOK(m)'
    BY <1>3 DEF vars, mod, StripInv, ModuleOK
  <2> QED
    BY <2>1, <2>2 DEF StripInv
<1> QED
  BY <1>1, <1>2, <1>3 DEF Next

\* What every step keeps holds in every state.
THEOREM StripInvariant == Spec => []StripInv
BY StripInit, StripStep, PTL DEF Spec

-----------------------------------------------------------------------------
(* The properties                                                          *)

\* Every variable of the strip and of its animations keeps its type, and a
\* matrix that is not freed has an entry for each bar or LED.
THEOREM StripTypeCorrect == Spec => []TypeOK
<1>1. StripInv => TypeOK
  <2> SUFFICES ASSUME StripInv PROVE TypeOK
    OBVIOUS
  <2>1. ASSUME NEW m \in Mods
        PROVE  /\ num_intervals[m] \in {Intervals, SegmentLeds(m)}
               /\ \/ values_matrix[m] = Null
                  \/ values_matrix[m] \in [0..(num_intervals[m] - 1) -> 0..BarSize(m)]
               /\ \/ peaks_matrix[m] = Null
                  \/ peaks_matrix[m] \in [0..(num_intervals[m] - 1) -> Colours]
    BY DEF StripInv, ModuleOK, MatricesOK
  <2>2. ASSUME NEW m \in Mods, NEW k \in DOMAIN todo[m]
        PROVE  todo[m][k] \in Int \X (Colours \cup {Fade})
    <3>1. todo[m] \in Seq(Reached(m, num_intervals[m]))
      BY DEF StripInv, ModuleOK, WritesOK
    <3>2. todo[m][k] \in Reached(m, num_intervals[m])
      BY <3>1
    <3> QED
      BY <3>2 DEF Reached, Sane
  <2> QED
    BY <2>1, <2>2 DEF StripInv, StripTypeOK, TypeOK
<1> QED
  BY <1>1, StripInvariant, PTL

\* The frames of a module stay in its segment, but for the one LED before it
\* that TYPE_ONE darkens; those of a module that has more bars than it was
\* created with end with its last bar.
THEOREM FramesKeepToTheirSegment == Spec => []KeepsToSegment
<1>1. StripInv => KeepsToSegment
  <2> SUFFICES ASSUME StripInv, NEW m \in Mods, NEW w \in Range(todo[m])
               PROVE  \/ w[1] \in Segment(m)
                      \/ w[1] = Lower[m] - 1 /\ w[2] = 0
                      \/ /\ Overgrown(m)
                         /\ w[1] \in Lower[m]..(BarsEnd(m, num_intervals[m]) - 1)
    BY DEF KeepsToSegment
  <2>1. CASE ~ Overgrown(m)
    <3>1. todo[m] \in Seq(Allowed(m))
      BY <2>1 DEF StripInv, ModuleOK, WritesOK, Overgrown
    <3>2. w \in Allowed(m)
      BY <3>1 DEF Range
    <3> QED
      BY <3>2 DEF Allowed
  <2>2. CASE Overgrown(m)
    <3>1. todo[m] \in Seq(Reached(m, num_intervals[m]))
      BY DEF StripInv, ModuleOK, WritesOK
    <3>2. w \in Reached(m, num_intervals[m])
      BY <3>1 DEF Range
    <3>3. w \in Allowed(m) \/ w[1] \in Lower[m]..(BarsEnd(m, num_intervals[m]) - 1)
      BY <3>2 DEF Reached
    <3> QED
      BY <2>2, <3>3 DEF Allowed
  <2> QED
    BY <2>1, <2>2
<1> QED
  BY <1>1, StripInvariant, PTL

\* What strip_set_leds lets through past the strip is black and before the first
\* LED, or from a module with more bars than it was created with and in the one
\* cell after the last, for strips and segments of any size.
THEOREM StoresStayClose == Spec => []StrayStores
<1>1. StripInv => StrayStores
  <2> SUFFICES ASSUME StripInv, NEW m \in Mods, NEW w \in Range(todo[m]), ~ Refused(w[1])
               PROVE  \/ w[1] \in Strip
                      \/ w[1] = -1 /\ w[2] = 0
                      \/ w[1] = NumLeds /\ Overgrown(m)
    BY DEF StrayStores
  <2>1. /\ Lower[m] \in Nat /\ Upper[m] \in 0..NumLeds /\ NumLeds \in Nat
        /\ Lower[m] < Upper[m]
    BY SegmentAssumption
  <2>2. todo[m] \in Seq(Reached(m, num_intervals[m]))
    BY DEF StripInv, ModuleOK, WritesOK
  <2>3. w \in Reached(m, num_intervals[m]) /\ w[1] \in Int
    BY <2>2 DEF Range, Reached, Sane
  <2>4. w[1] <= NumLeds
    BY <2>1, <2>3 DEF Refused
  <2>5. CASE w \in Allowed(m)
    <3>1. w[1] \in Lower[m]..(Upper[m] - 1) \/ (w[1] = Lower[m] - 1 /\ w[2] = 0)
      BY <2>5 DEF Allowed, Segment
    <3> QED
      BY <2>1, <3>1 DEF Strip
  <2>6. CASE w \notin Allowed(m)
    <3>1. Overgrown(m)
      <4>1. ~ Overgrown(m) => todo[m] \in Seq(Allowed(m))
        BY DEF StripInv, ModuleOK, WritesOK, Overgrown
      <4>2. todo[m] \in Seq(Allowed(m)) => w \in Allowed(m)
        BY DEF Range
      <4> QED
        BY <2>6, <4>1, <4>2
    <3>2. w[1] \in Int /\ w[1] >= Lower[m]
      <4>1. w[1] \in Lower[m]..(BarsEnd(m, num_intervals[m]) - 1)
        BY <2>3, <2>6 DEF Reached
      <4> QED
        BY <2>1, <2>3, <4>1
    <3> QED
      BY <2>1, <2>3, <2>4, <3>1, <3>2 DEF Strip
  <2> QED
    BY <2>5, <2>6
<1> QED
  BY <1>1, StripInvariant, PTL

\* A module created with a bar animation has the heights of its bars in every
\* frame, wherever the stop falls between setup_animation_variables and it.
THEOREM StopKeepsTheBars == Spec => []BarsOutliveStop
<1>1. StripInv => BarsOutliveStop
  BY DEF StripInv, ModuleOK, AnimationOK, BarsOutliveStop
<1> QED
  BY <1>1, StripInvariant, PTL

=============================================================================
