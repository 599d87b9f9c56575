-------------------------- MODULE MCStripAnimation ---------------------------
(* The LED strip for TLC: modules `one' and `two', as in the firmware.     *)
EXTENDS StripAnimation

CONSTANTS one, two

BothMods == {one, two}

\* Two bars of two LEDs in each of two segments, as wide as the strip.
BarLower == (one :> 0) @@ (two :> 4)
BarUpper == (one :> 4) @@ (two :> 8)
BarInitTypes == (one :> {"TYPE_ONE", "TYPE_TWO"}) @@ (two :> {"TYPE_ONE"})

\* One bar in each segment, for the liveness of a stop.
StopLower == (one :> 0) @@ (two :> 2)
StopUpper == (one :> 2) @@ (two :> 4)

\* A module that fades the segment another one paints.
FadeLower == [m \in BothMods |-> 0]
FadeUpper == [m \in BothMods |-> 2]
FadeInitTypes ==
    (one :> {"TYPE_TWO", "TYPE_THREE"})
        @@ (two :> {"FADE_OUT", "FADE_RAINBOW", "RAINBOW_ONE", "TYPE_THREE"})

\* Samples enough for module `one' to be of TYPE_THREE, and too few for `two'.
FftSizes == (one :> 8) @@ (two :> 1)

=============================================================================
