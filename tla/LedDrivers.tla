----------------------------- MODULE LedDrivers -----------------------------
(***************************************************************************)
(* The two LED drivers: the WS2812 strip, whose colours are sent as a      *)
(* pattern of SPI bytes (ws2812b/ws2812_led.cxx, hsv2rgb.cxx), and the     *)
(* MAX7219 matrix (max7219_led_driver/max7219_led_driver.cxx).             *)
(***************************************************************************)
EXTENDS Integers, Sequences, FiniteSetsExt

CONSTANTS
    num_leds,            \* of the strip
    Colours,             \* the hsv colours that are set, each in 0..255
    Chips,             \* chips of the matrix that init has memory for
    ChipCounts,        \* what number_of_devices may hold: nothing sets it
    ColumnValues         \* bytes that a column is set to

ASSUME LedAssumption == num_leds \in Nat /\ Chips \in Nat

\* The driver has room for the frame of four chips (out_buffer): with more, it
\* would write over number_of_devices itself.
ASSUME ChipAssumption == ChipCounts \subseteq 0..4

\* The fields of hsv_color are bytes.
ASSUME ColourAssumption == Colours \subseteq [h : 0..255, s : 0..255, v : 0..255]

VARIABLES
    txbuff,              \* the strip's buffer in front of its 200 reset bytes
    sent,                \* the buffer as it is has been sent
    hsv,                 \* history: the colour each LED was set to
    number_of_devices,
    cols,                \* a byte of each column
    spidata              \* the data sent last

strip  == <<txbuff, sent, hsv>>
matrix == <<number_of_devices, cols, spidata>>
lvars  == <<strip, matrix>>

Byte == 0..255
Led == 0..(num_leds - 1)
Column == 0..(8 * Chips - 1)
Weight == <<1, 2, 4, 8, 16, 32, 64, 128>>
Bit(byte, n) == (byte \div Weight[n + 1]) % 2
Black == [h |-> 0, s |-> 0, v |-> 0]
NotSet == [h |-> 0, s |-> 0, v |-> -1]

-----------------------------------------------------------------------------
(* Colours                                                                 *)

Clamp(x) == Max({Min({x, 255}), 0})

\* Nothing divided here is negative.
hsv2rgb(c) ==
    LET sextant == (c.h * 6) \div 256
        f == c.h - (sextant * 256) \div 6
        p == Clamp((c.v * (256 - c.s)) \div 256)
        q == Clamp((c.v * (256 * 43 - c.s * f)) \div (256 * 43))
        t == Clamp((c.v * (256 * 43 - c.s * (43 - f))) \div (256 * 43))
    IN  [r |-> <<c.v, q, p, p, t, c.v>>[sextant + 1],
         g |-> <<t, c.v, c.v, q, p, p>>[sextant + 1],
         b |-> <<p, p, t, c.v, c.v, q>>[sextant + 1]]

-----------------------------------------------------------------------------
(* The strip                                                               *)

\* Mutant: both bits of a pair are sent in the wrong order.
get_protocol_eq_swapped(data, pos) ==
    (IF Bit(data, 2 * (3 - pos) + 1) = 1 THEN 14 ELSE 8)
    + (IF Bit(data, 2 * (3 - pos)) = 1 THEN 14 * 16 ELSE 8 * 16)

\* Two bits of a colour as one byte: the higher one first, 1110 or 1000.
get_protocol_eq(data, pos) ==
    (IF Bit(data, 2 * (3 - pos)) = 1 THEN 14 ELSE 8)
    + (IF Bit(data, 2 * (3 - pos) + 1) = 1 THEN 14 * 16 ELSE 8 * 16)

\* The buffer is cleared, not filled with the pattern of black, and sent.
setup_ws2812b_strip ==
    /\ txbuff = [led \in Led |-> [j \in 0..11 |-> 0]] /\ sent \in BOOLEAN
    /\ hsv = [led \in Led |-> NotSet]

\* Green, red, blue.
set_ws2812b_strip_rgb(buffer, pos, c) ==
    [buffer EXCEPT ![pos] = [j \in 0..11 |->
        get_protocol_eq(<<c.g, c.r, c.b>>[j \div 4 + 1], j % 4)]]

\* A position past the end is refused.
set_ws2812b_strip_hsv(pos, c) ==
    /\ pos < num_leds
    /\ txbuff' = set_ws2812b_strip_rgb(txbuff, pos, hsv2rgb(c))
    /\ hsv' = [hsv EXCEPT ![pos] = c]
    /\ sent' = FALSE /\ UNCHANGED matrix

clear_ws2812b_strip ==
    /\ txbuff' = [led \in Led |->
          set_ws2812b_strip_rgb(txbuff, led, [r |-> 0, g |-> 0, b |-> 0])[led]]
    /\ hsv' = [led \in Led |-> Black]
    /\ sent' = FALSE /\ UNCHANGED matrix

\* The transfer may fail.
update_ws2812b_strip ==
    /\ sent' \in {TRUE, sent}
    /\ UNCHANGED <<txbuff, hsv, matrix>>

StripNext ==
    \/ \E pos \in Led, c \in Colours : set_ws2812b_strip_hsv(pos, c)
    \/ clear_ws2812b_strip \/ update_ws2812b_strip

-----------------------------------------------------------------------------
(* The matrix                                                              *)

\* The data of all chips: zeros but for one.  The register is stored where the
\* data goes and overwritten, so every chip gets register 0, which does nothing.
send_byte_device(before, to) ==
    [n \in 0..7 |-> IF n = to.device THEN to.data
                    ELSE IF n < number_of_devices THEN 0 ELSE before[n]]

\* The data after each send of a sequence of them.
After(before, sends) ==
    LET f[k \in 0..Len(sends)] ==
            IF k = 0 THEN before ELSE send_byte_device(f[k - 1], sends[k])
    IN  f

\* Five settings of each chip: scan limit, decoding, test, intensity, start.
init_matrix ==
    [k \in 1..(5 * number_of_devices) |->
        [device |-> (k - 1) \div 5, data |-> <<7, 0, 0, 0, 1>>[((k - 1) % 5) + 1]]]

init_led_matrix ==
    LET nothing == [n \in 0..7 |-> 0]
    IN  /\ number_of_devices \in ChipCounts
        /\ cols \in {[c \in Column |-> junk] : junk \in ColumnValues}
        /\ spidata = After(nothing, init_matrix)[Len(init_matrix)]

\* 1 >> new_y is a bit only where new_y is 0, in every eighth column of pixels.
set_pixel(x, y) ==
    /\ cols' = [cols EXCEPT ![(7 - (y % 8)) + (x \div 8) * 8] =
                   IF x % 8 = 7 /\ Bit(@, 0) = 0 THEN @ + 1 ELSE @]
    /\ UNCHANGED <<number_of_devices, spidata, strip>>

\* Or-ing a zero clears nothing.
clear_pixel(x, y) == UNCHANGED lvars

\* A column of a chip that init had no memory for is not one of cols.
set_column(column, value) ==
    /\ column < number_of_devices * 8
    /\ cols' = [c \in Column |-> IF c = column THEN value ELSE cols[c]]
    /\ UNCHANGED <<number_of_devices, spidata, strip>>

\* As many columns as there are chips, not eight times as many.
matrix_commit ==
    LET sends == [k \in 1..number_of_devices |->
                     [device |-> (k - 1) \div 8, data |-> cols[k - 1]]]
    IN  /\ spidata' = After(spidata, sends)[Len(sends)]
        /\ UNCHANGED <<number_of_devices, cols, strip>>

MatrixNext ==
    \/ matrix_commit
    \/ \E x, y \in Column : set_pixel(x, y) \/ clear_pixel(x, y)
    \/ \E c \in Column, value \in ColumnValues : set_column(c, value)

LedInit == setup_ws2812b_strip /\ init_led_matrix

LedNext == StripNext \/ MatrixNext

LedSpec == LedInit /\ [][LedNext]_lvars

-----------------------------------------------------------------------------
(* Properties                                                              *)

\* The colour that a strip reads off the bytes of an LED: a nibble is a bit,
\* one if it is high for longer than low.
Nibble(bytes, k) ==
    LET byte == bytes[k \div 2] IN IF k % 2 = 0 THEN byte \div 16 ELSE byte % 16
Component(bytes, first) ==
    LET bit(k) == IF Nibble(bytes, first + k) = 14 THEN Weight[8 - k] ELSE 0
    IN  bit(0) + bit(1) + bit(2) + bit(3) + bit(4) + bit(5) + bit(6) + bit(7)
Shown(bytes) ==
    [g |-> Component(bytes, 0), r |-> Component(bytes, 8), b |-> Component(bytes, 16)]

\* Every LED that was set shows, bit by bit on the wire, a colour of the
\* brightness set; without saturation it is grey, and with it the strongest
\* component is that of the hue's third of the circle.  No LED's bytes are
\* disturbed by another's.
StripShowsColours ==
    \A led \in Led : hsv[led] # NotSet =>
        LET c == Shown(txbuff[led])
            h == hsv[led].h
        IN  /\ Max({c.r, c.g, c.b}) = hsv[led].v
            /\ hsv[led].s = 0 => c.r = c.g /\ c.g = c.b
            /\ hsv[led].v = CASE h < 43 \/ h >= 214 -> c.r
                              [] h \in 43..127 -> c.g
                              [] h \in 128..213 -> c.b

=============================================================================
