------------------------------- MODULE Devices -------------------------------
(***************************************************************************)
(* The hardware abstraction (CHAL): ADC, I2C, SPI and UART handles, each a *)
(* file descriptor that its begin opens and its end closes, and the GPIO   *)
(* pins.  Descriptors are numbers of one table and the lowest free one is  *)
(* given out, so a handle that keeps a closed number may name the device   *)
(* that another handle opened since.  What is read and written is left out.*)
(***************************************************************************)
EXTENDS Integers, Functions

CONSTANTS
    MaxFd,       \* the table has descriptors 3..MaxFd besides the standard ones
    Sizes,       \* lengths of SPI transfers
    PointerSize,
    Pins,
    MaxDeviceCalls     \* bound: begins and ends ever called

ASSUME DevicesAssumption == MaxFd \in Nat /\ MaxFd >= 3 /\ MaxDeviceCalls \in Nat

Adc == {"adc_one"}
I2c == {"i2c"}
Spi == {"spi_zero", "spi_four"}
Uart == {"uart_zero", "uart_two"}
Handles == Adc \cup I2c \cup Spi \cup Uart

\* The devices that know the ioctls of a handle.
Kind(h) ==
    CASE h \in Adc -> {"hpadc0"} [] h \in I2c -> {"i2c0"}
      [] h \in Spi -> {"spi0", "spi3", "spi4", "spi5"}

\* The device that the first begin of a handle opens: bus 0, of whatever bus
\* an SPI handle is.
Own(h) == CASE h \in Adc -> "hpadc0" [] h \in I2c -> "i2c0" [] h \in Spi -> "spi0"

VARIABLES
    opened,     \* the device of each descriptor
    fd,         \* of each handle; 0 before its begin
    nwords,     \* of the last SPI transfer: asked for and moved
    device_calls, answer,
    inUse,      \* history: handles whose begin succeeded, until their end
    misused,    \* history: see os_i2c_end, os_spi_begin and os_spi_end
    board,      \* of each pin: what the chip is configured to
    set,        \* history: of each pin, the configuration asked for
    conf        \* the caller's structure: the last configuration read back

files == <<opened, fd, nwords, inUse, misused, device_calls>>
gpio  == <<board, set, conf>>
dvars == <<files, gpio, answer>>

Fd == 3..MaxFd
Drives == {"FLOAT", "PULL_UP", "PULL_DOWN", "BUSKEEPER"}
Edges == {"HIGH", "LOW", "RISING", "FALLING", "BOTH"}
Unconfigured == [drive |-> "FLOAT", strength |-> "NORMAL", edge |-> "HIGH"]

DevicesInit ==
    /\ opened = [n \in 0..MaxFd |-> IF n < 3 THEN "std" ELSE "none"]
    /\ fd = [h \in Handles |-> 0]
    /\ nwords = [asked |-> 0, moved |-> 0]
    /\ device_calls = 0 /\ answer = "OK" /\ inUse = {} /\ misused = FALSE
    /\ board = [p \in Pins |-> [input |-> TRUE, high_drive |-> FALSE, pull |-> 0,
                                mode |-> 0, enabled |-> FALSE]]
    /\ set = [p \in Pins |-> Unconfigured]
    /\ conf \in [pin : Pins, dir : {"INPUT"}, drive : Drives, strength : {"NORMAL"},
                 edge : Edges]

-----------------------------------------------------------------------------
(* Descriptors                                                             *)

Free == {k \in Fd : opened[k] = "none"}
Lowest(n) == n \in Free /\ \A k \in Free : n <= k

\* open: the lowest free number, or -1 when there is none or the driver refuses.
Open(device, n) ==
    \/ n = -1 /\ UNCHANGED opened
    \/ Lowest(n) /\ opened' = [opened EXCEPT ![n] = device]

Close(n) == opened' = [opened EXCEPT ![n] = "none"]

Call == device_calls < MaxDeviceCalls /\ device_calls' = device_calls + 1 /\ UNCHANGED <<nwords, gpio>>
Keeps(h, n) == fd' = [fd EXCEPT ![h] = n]
Begun(h, n) ==
    inUse' = IF n < 0 THEN inUse \ {h} ELSE inUse \cup {h}

\* Mutant: after a failed ioctl and the close it goes on.
os_adc_begin_goes_on(h) ==
    /\ Call
    /\ \/ \E n \in Fd \cup {-1} :
             /\ Open("hpadc0", n) /\ Keeps(h, n) /\ Begun(h, n)
             /\ answer' = IF n < 0 THEN "NO_MORE_RESOURCES" ELSE "OK"
       \/ /\ \E n \in Fd : Lowest(n) /\ Keeps(h, n)
          /\ inUse' = inUse \cup {h}
          /\ answer' = "OK" /\ UNCHANGED opened
    /\ UNCHANGED misused

\* Any of three ioctls may fail: the handle keeps the number that is closed.
os_adc_begin(h) ==
    /\ Call
    /\ \/ \E n \in Fd \cup {-1} :
             /\ Open("hpadc0", n) /\ Keeps(h, n) /\ Begun(h, n)
             /\ answer' = IF n < 0 THEN "NO_MORE_RESOURCES" ELSE "OK"
       \/ /\ \E n \in Fd : Lowest(n) /\ Keeps(h, n)
          /\ inUse' = inUse \ {h}
          /\ answer' \in {"LOW_MEM_ERROR", "UNDEFINED_ERROR"} /\ UNCHANGED opened
    /\ UNCHANGED misused

\* Another device does not know the ioctl that comes before the close.
os_adc_end(h) ==
    /\ Call
    /\ \/ /\ fd[h] >= 0 /\ opened[fd[h]] = "hpadc0"
          /\ Close(fd[h]) /\ inUse' = inUse \ {h} /\ answer' = "OK"
          /\ misused' = (misused \/ h \notin inUse)
       \/ answer' = "INT_ERR" /\ UNCHANGED <<opened, inUse, misused>>
    /\ UNCHANGED fd

os_i2c_begin(h) ==
    /\ Call
    /\ \E n \in Fd \cup {-1} :
          /\ Open("i2c0", n) /\ Keeps(h, n) /\ Begun(h, n)
          /\ answer' = IF n < 0 THEN "IO_ERROR" ELSE "OK"
    /\ UNCHANGED misused

\* Whatever has the number now is closed, and the handle keeps the number:
\* misuse, from a handle that is not in use.
os_i2c_end(h) ==
    /\ Call
    /\ \/ /\ fd[h] > 0
          /\ Close(fd[h]) /\ inUse' = inUse \ {h} /\ answer' = "OK"
          /\ misused' = (misused \/ h \notin inUse)
       \/ fd[h] <= 0 /\ answer' = "INT_ERR" /\ UNCHANGED <<opened, inUse, misused>>
    /\ UNCHANGED fd

\* The descriptor is asked for the bus: 0 opens bus 0 whatever the handle's
\* bus is, and a number past 5 opens nothing.  Every begin but a handle's
\* first is misuse.
os_spi_begin(h) ==
    /\ Call
    /\ \/ /\ fd[h] \in {0, 3, 4, 5}
          /\ \E n \in Fd \cup {-1} :
                Open(CASE fd[h] = 0 -> "spi0" [] fd[h] = 3 -> "spi3"
                       [] fd[h] = 4 -> "spi4" [] fd[h] = 5 -> "spi5", n) /\ Keeps(h, n)
       \/ fd[h] \notin {0, 3, 4, 5} /\ UNCHANGED <<opened, fd>>
    /\ Begun(h, fd'[h]) /\ answer' = IF fd'[h] < 0 THEN "IO_ERROR" ELSE "OK"
    /\ misused' = (misused \/ fd[h] # 0)

os_spi_end(h) == os_i2c_end(h)

\* Each device granted gets its place.
Occupy(granted, place) ==
    opened' = [n \in DOMAIN opened |->
                  IF \E d \in granted : place[d] = n
                  THEN CHOOSE d \in granted : place[d] = n ELSE opened[n]]

\* Without a break, bus 0 opens two devices and bus 2 one; the handle keeps
\* none of them.
os_uart_begin(h) ==
    /\ Call
    /\ \E granted \in SUBSET (IF h = "uart_zero" THEN {"ttyS0", "ttyS2"} ELSE {"ttyS2"}) :
          \E place \in Injection(granted, Free) :
             /\ \A d \in granted : \A n \in Free : n < place[d] =>
                   \E e \in granted : place[e] = n /\ e # d
             /\ granted = {"ttyS0", "ttyS2"} => place["ttyS0"] < place["ttyS2"]
             /\ Occupy(granted, place)
    /\ Keeps(h, -1) /\ answer' = "INVALID_PARAM" /\ UNCHANGED <<inUse, misused>>

\* An ioctl reaches the handle's own kind of device, or fails.
Ioctl(h) ==
    /\ IF fd[h] >= 0 /\ opened[fd[h]] \in Kind(h) THEN answer' \in {"OK", "IO_ERROR"}
                                                 ELSE answer' = "IO_ERROR"
    /\ UNCHANGED <<opened, fd, device_calls, inUse, misused, gpio>>

os_i2c_send(h)    == Ioctl(h) /\ UNCHANGED nwords
os_i2c_recieve(h) == Ioctl(h) /\ UNCHANGED nwords

\* The transfer is as long as a pointer, whatever the buffer's size.
SpiWords(size) == nwords' = [asked |-> size, moved |-> PointerSize]

os_spi_transfer(h, size) == Ioctl(h) /\ SpiWords(size)
os_spi_send(h, size)     == Ioctl(h) /\ SpiWords(size)
os_spi_recieve(h, size)  == Ioctl(h) /\ SpiWords(size)

\* What read and write return is not looked at.
os_adc_read(h)      == answer' = "OK" /\ UNCHANGED <<files, gpio>>
os_uart_transfer(h) == answer' = "OK" /\ UNCHANGED <<files, gpio>>

FileCall ==
    \/ \E h \in Adc : os_adc_begin(h) \/ os_adc_end(h) \/ os_adc_read(h)
    \/ \E h \in I2c : \/ os_i2c_begin(h) \/ os_i2c_end(h)
                      \/ os_i2c_send(h) \/ os_i2c_recieve(h)
    \/ \E h \in Spi : \/ os_spi_begin(h) \/ os_spi_end(h)
                      \/ \E size \in Sizes : \/ os_spi_transfer(h, size)
                                             \/ os_spi_send(h, size)
                                             \/ os_spi_recieve(h, size)
    \/ \E h \in Uart : os_uart_begin(h) \/ os_uart_transfer(h)

-----------------------------------------------------------------------------
(* GPIO                                                                    *)

Pull(drive) ==
    CASE drive = "FLOAT" -> 0 [] drive = "PULL_UP" -> 1
      [] drive = "PULL_DOWN" -> 2 [] drive = "BUSKEEPER" -> 3

\* Mutant: the two slopes are exchanged.
ModeExchanged(edge) ==
    CASE edge = "HIGH" -> 2 [] edge = "LOW" -> 3 [] edge = "RISING" -> 5
      [] edge = "FALLING" -> 4 [] edge = "BOTH" -> 7

Mode(edge) ==
    CASE edge = "HIGH" -> 2 [] edge = "LOW" -> 3 [] edge = "RISING" -> 4
      [] edge = "FALLING" -> 5 [] edge = "BOTH" -> 7

\* What a pin reads back as; a mode without an edge leaves the caller's.
DriveOf(p) ==
    CASE board[p].pull = 0 -> "FLOAT" [] board[p].pull = 1 -> "PULL_UP"
      [] board[p].pull = 2 -> "PULL_DOWN" [] board[p].pull = 3 -> "BUSKEEPER"
StrengthOf(p) == IF board[p].high_drive THEN "HIGH" ELSE "NORMAL"
EdgeOf(p, edge) ==
    CASE board[p].mode = 2 -> "HIGH" [] board[p].mode = 3 -> "LOW"
      [] board[p].mode = 4 -> "RISING" [] board[p].mode = 5 -> "FALLING"
      [] board[p].mode = 7 -> "BOTH" [] OTHER -> edge

\* The board may refuse a pin.
Board(p, config, asked) ==
    /\ \/ /\ board' = [board EXCEPT ![p] = config]
          /\ set' = [set EXCEPT ![p] = asked] /\ answer' = "OK"
       \/ UNCHANGED <<board, set>> /\ answer' = "INT_ERR"
    /\ UNCHANGED <<files, conf>>

os_gpio_config(p, dir, strength, drive) ==
    Board(p, [board[p] EXCEPT !.input = (dir # "OUTPUT"), !.pull = Pull(drive),
                              !.high_drive = (strength = "HIGH")],
             [set[p] EXCEPT !.drive = drive, !.strength = strength])

os_gpio_isr_config(p, edge) ==
    Board(p, [board[p] EXCEPT !.mode = Mode(edge)], [set[p] EXCEPT !.edge = edge])

\* The caller's pin is overwritten with one that was never set.  Whether the
\* pin drives its output is the board's to say.
os_gpio_get_config ==
    /\ \/ /\ \E pin \in Pins, output \in BOOLEAN :
                conf' = [conf EXCEPT !.pin = pin,
                            !.dir = CASE output -> "OUTPUT"
                                      [] ~output /\ board[conf.pin].input -> "INPUT"
                                      [] OTHER -> @,
                            !.drive = DriveOf(conf.pin), !.strength = StrengthOf(conf.pin)]
          /\ answer' = "OK"
       \/ UNCHANGED conf /\ answer' = "INT_ERR"
    /\ UNCHANGED <<files, board, set>>

os_gpio_get_isr_conf ==
    /\ \/ conf' = [conf EXCEPT !.edge = EdgeOf(conf.pin, conf.edge)] /\ answer' = "OK"
       \/ UNCHANGED conf /\ answer' = "INT_ERR"
    /\ UNCHANGED <<files, board, set>>

os_gpio_enable_int(p, en) == Board(p, [board[p] EXCEPT !.enabled = en], set[p])

GpioCall ==
    \/ \E p \in Pins :
          \/ \E dir \in {"INPUT", "OUTPUT"}, strength \in {"NORMAL", "HIGH"}, drive \in Drives :
                os_gpio_config(p, dir, strength, drive)
          \/ \E edge \in Edges : os_gpio_isr_config(p, edge)
          \/ \E en \in BOOLEAN : os_gpio_enable_int(p, en)
    \/ os_gpio_get_config \/ os_gpio_get_isr_conf

DevicesNext == FileCall \/ GpioCall

DevicesSpec == DevicesInit /\ [][DevicesNext]_dvars

-----------------------------------------------------------------------------
(* Properties                                                              *)

\* A handle in use has a descriptor of the device its begin opens, as long as
\* no handle was ended that was not in use and no SPI handle was begun again:
\* failed begins, repeated begins and reused numbers do not get in the way.
HandleHasItsDevice ==
    ~misused => \A h \in inUse : opened[fd[h]] = Own(h)

\* A pin reads back as it was configured, which takes the four tables of
\* drives and edges to fit together.
PinsReadBack ==
    \A p \in Pins :
        /\ DriveOf(p) = set[p].drive /\ StrengthOf(p) = set[p].strength
        /\ EdgeOf(p, set[p].edge) = set[p].edge

=============================================================================
