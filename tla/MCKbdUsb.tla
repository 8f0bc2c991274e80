------------------------------ MODULE MCKbdUsb ------------------------------
(* TLC instances of KbdUsb: reports of four bytes.                         *)
EXTENDS KbdUsb

Report(mod, key) == <<87, 171, 136, 4, 0, mod, 0, key>>
Release   == Report(0, 0)
KeyA      == Report(0, 4)
ShiftB    == Report(2, 5)
ShiftOnly == Report(2, 0)
CapsKey   == Report(0, 57)

\* Every kind of frame of kbd_poll, an unknown one included.
AllFrames == {Release, KeyA, ShiftB, ShiftOnly, CapsKey,
              <<87, 171, 129, 1, 2, 87, 171>>, <<87, 171, 129, 1, 0>>,
              <<87, 171, 130, 163>>, <<87, 171, 133, 1>>, <<87, 171, 135>>,
              <<87, 171, 136, 0>>}
=============================================================================
