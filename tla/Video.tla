------------------------------- MODULE Video -------------------------------
(***************************************************************************)
(* The video controller (video/mod.rs): the palette written through the    *)
(* I/O ports, and the window onto the four bit planes that a byte written  *)
(* to VRAM goes through.  A plane's bytes are kept as a sparse function of *)
(* <<plane, offset>>: what is outside its domain is still zero.            *)
(***************************************************************************)
EXTENDS Integers

Nibble == 0 .. 15
PlaneSize == 32000
Cells == (0 .. 3) \X (0 .. PlaneSize - 1)

Red == 1
Green == 2
Blue == 3

\* The digital RGB default: bit 0 blue, bit 1 red, bit 2 green, bit 3 bright.
DefaultPalette ==
  LET Bit(i, b) == (i \div b) % 2 = 1
      Level(i, on) == IF Bit(i, 8) THEN (IF on THEN 255 ELSE 85)
                                   ELSE (IF on THEN 170 ELSE 0)
  IN [i \in Nibble |-> [c \in 1 .. 3 |->
        Level(i, Bit(i, <<2, 4, 1>>[c]))]]

VideoNew == [planes |-> [c \in {} |-> 0],
             palette |-> DefaultPalette,
             index |-> 0]

\* Where in the planes a physical address falls; {} if it is not VRAM.
VramCells(addr) ==
  LET Window(base, plane) ==
        IF base <= addr /\ addr <= base + 32767 /\ addr - base < PlaneSize
        THEN {<<plane, addr - base>>} ELSE {}
  IN Window(688128, 0) \cup Window(720896, 1)
       \cup Window(753664, 2) \cup Window(917504, 3)

\* The plane byte a write to VRAM updates.
WriteCell(v, cell, val) ==
  [v EXCEPT !.planes = [c \in DOMAIN @ \cup {cell} |->
                          IF c = cell THEN val ELSE @[c]]]

\* Ports A8h (palette index), AAh (blue), ACh (red) and AEh (green).
SetColour(v, colour, val) ==
  LET entry == [v.palette[v.index] EXCEPT ![colour] = 17 * (val % 16)]
  IN [v EXCEPT !.palette = [@ EXCEPT ![v.index] = entry]]

WritePort(v, port, val) ==
  CASE port = 168 -> [v EXCEPT !.index = val % 16]
    [] port = 170 -> SetColour(v, Blue, val)
    [] port = 172 -> SetColour(v, Red, val)
    [] port = 174 -> SetColour(v, Green, val)
    [] OTHER -> v

\* What a byte of a plane and a level of a colour hold.
Octet == 0 .. 255
IsVideo(v) == /\ DOMAIN v.planes \subseteq Cells
              /\ v = [planes |-> v.planes, palette |-> v.palette,
                      index |-> v.index]
              /\ v.planes \in [DOMAIN v.planes -> Octet]
              /\ v.palette \in [Nibble -> [1 .. 3 -> Octet]]
              /\ v.index \in Nibble

=============================================================================
