------------------------------- MODULE Memory -------------------------------
(***************************************************************************)
(* The one megabyte of real-mode memory: address formation, the byte and   *)
(* word accessors, the bulk load and the interrupt vector table.           *)
(*                                                                         *)
(* A memory is the function of the bytes written since Runtime::new laid   *)
(* out the stub BIOS: an address outside its domain still holds what that  *)
(* layout put there (Blank).  The whole 1 MB is therefore modelled, and a  *)
(* memory that a short program has touched stays a small value.            *)
(***************************************************************************)
EXTENDS Integers, Sequences

WordSize == 65536
Byte == 0 .. 255
Word == 0 .. WordSize - 1

MemSize == 1048576
Addr == 0 .. MemSize - 1

\* Sixteen-bit wrap-around, and the two halves of a little-endian word.
Wrap16(x) == x % WordSize
Lo(v) == v % 256
Hi(v) == v \div 256

\* Physical address of segment:offset; the sum wraps at one megabyte.
Phys(seg, off) == (seg * 16 + off) % MemSize

StubSeg == 61440
StubOff == 256
IRET == 207

\* Memory as Runtime::new leaves it: every vector points at an IRET.
Blank(a) ==
  IF a < 1024
  THEN <<Lo(StubOff), Hi(StubOff), Lo(StubSeg), Hi(StubSeg)>>[(a % 4) + 1]
  ELSE IF a = Phys(StubSeg, StubOff) THEN IRET ELSE 0

IsMem(m) == /\ DOMAIN m \subseteq Addr
            /\ m \in [DOMAIN m -> Byte]

EmptyMem == [a \in {} |-> 0]

ReadU8(m, a) == IF a \in DOMAIN m THEN m[a] ELSE Blank(a)

WriteU8(m, a, v) ==
  [x \in DOMAIN m \cup {a} |-> IF x = a THEN v ELSE m[x]]

ReadU16(m, a) == ReadU8(m, a) + 256 * ReadU8(m, (a + 1) % MemSize)

WriteU16(m, a, v) ==
  WriteU8(WriteU8(m, a, Lo(v)), (a + 1) % MemSize, Hi(v))

\* Copy bytes to consecutive addresses, wrapping at one megabyte: of the bytes
\* that fall on one address the last one stays.
LoadBytes(m, addr, bytes) ==
  LET First(x) == (x - addr) % MemSize
      Last(x) == First(x) + MemSize * ((Len(bytes) - 1 - First(x)) \div MemSize)
      Target == {(addr + i) % MemSize : i \in 0 .. Len(bytes) - 1}
  IN [x \in DOMAIN m \cup Target |->
        IF First(x) < Len(bytes) THEN bytes[Last(x) + 1] ELSE m[x]]

SetIvt(m, v, seg, off) == WriteU16(WriteU16(m, 4 * v, off), 4 * v + 2, seg)
IvtOff(m, v) == ReadU16(m, 4 * v)
IvtSeg(m, v) == ReadU16(m, 4 * v + 2)

=============================================================================
