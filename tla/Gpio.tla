-------------------------------- MODULE Gpio ---------------------------------
(***************************************************************************)
(* GpioLib: pin functions, pulls, drive strengths, directions and output   *)
(* levels, as functions of the register file.  Four pins share a function  *)
(* register, eight a pull register, two a drive register and sixteen a     *)
(* data or direction register; only the write mask keeps them apart.       *)
(***************************************************************************)
EXTENDS Soc, Sequences, SequencesExt

PA(n) == n
PB(n) == 8 + n
PC(n) == 16 + n
PD(n) == 24 + n

PullNone == 0
PullUp   == 1
DriveDefault == 255
InputSchmitt == 2

\* A field of `width' bits in a register that holds `count' of them.
PinField(r, kind, Group, Pin, count, width, pitch, value) ==
    LET shift == (Pin % count) * pitch
    IN  HiwordWrite(r, <<kind, Group, Pin \div count>>,
                    shift..(shift + width - 1), Bits(value, shift))

GpioPinSetDirection(r, Group, Pin, out) == PinField(r, "DDR", Group, Pin, 16, 1, 1, out)
GpioPinWrite(r, Group, Pin, Value)      == PinField(r, "DR", Group, Pin, 16, 1, 1, Value)
GpioPinSetFunction(r, Group, Pin, Function) ==
    PinField(r, "IOMUX", Group, Pin, 4, 3, 4, Function)
GpioPinSetPull(r, Group, Pin, Pull)     == PinField(r, "P", Group, Pin, 8, 2, 2, Pull)
GpioPinSetDrive(r, Group, Pin, Drive)   == PinField(r, "DS", Group, Pin, 2, 6, 8, Drive)
GpioPinSetInput(r, Group, Pin, Enable)  == PinField(r, "IE", Group, Pin, 8, 2, 2, Enable)

\* It reads the output latch: the level driven, not the level on the pin.
GpioPinRead(r, Group, Pin) == <<<<"DR", Group, Pin \div 16>>, Pin % 16>> \in r

Output(r, Group, Pin, Value) ==
    GpioPinWrite(GpioPinSetDirection(r, Group, Pin, 1), Group, Pin, Value)

GpioSetPin(r, mux) ==
    LET f == GpioPinSetFunction(r, mux.group, mux.pin, mux.function)
        p == GpioPinSetPull(f, mux.group, mux.pin, mux.pull)
    IN  IF mux.drive = DriveDefault THEN p
        ELSE GpioPinSetDrive(p, mux.group, mux.pin, mux.drive)

\* A row of an iomux table.
Mux(group, pin, function, pull, drive) ==
    [group |-> group, pin |-> pin, function |-> function, pull |-> pull, drive |-> drive]

Rows(group, pins, function, pull, drive) ==
    [i \in DOMAIN pins |-> Mux(group, pins[i], function, pull, drive)]

\* Configs is a sequence: a pin listed twice keeps its last entry.
GpioSetIomuxConfig(r, Configs) == FoldLeft(GpioSetPin, r, Configs)

\* What a pin is set to, and whether all pins of a table still are as it says.
PinFunction(r, Group, Pin) ==
    Field(r, <<"IOMUX", Group, Pin \div 4>>, (Pin % 4) * 4, (Pin % 4) * 4 + 2)
PinPull(r, Group, Pin) ==
    Field(r, <<"P", Group, Pin \div 8>>, (Pin % 8) * 2, (Pin % 8) * 2 + 1)

PinsKept(r, Configs) ==
    \A m \in Range(Configs) : /\ PinFunction(r, m.group, m.pin) = m.function
                              /\ PinPull(r, m.group, m.pin) = m.pull
==============================================================================
