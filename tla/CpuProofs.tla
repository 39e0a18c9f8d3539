----------------------------- MODULE CpuProofs -----------------------------
(***************************************************************************)
(* What the accessors of memory and of the register file return and keep.  *)
(* The sizes of memory and of a word stay folded: the provers enumerate an *)
(* interval between two numerals, so what they are told of Word and Byte   *)
(* is the pair of inequalities in WordRange and ByteRange.                 *)
(***************************************************************************)
EXTENDS Cpu, TLAPS

LEMMA ModBound ==
  ASSUME NEW x \in Int, NEW n \in Nat \ {0}
  PROVE  x % n \in 0 .. n - 1
  BY SMT

LEMMA SmallMod ==
  ASSUME NEW n \in Nat \ {0}, NEW i \in 0 .. n - 1
  PROVE  i % n = i
  BY SMT

LEMMA DivMod ==
  ASSUME NEW n \in Int, n > 0, NEW x \in Int
  PROVE  x \div n \in Int /\ x % n = x - n * (x \div n)
<1>1. x \div n \in Int
  BY SMT
<1>2. x % n = x - n * (x \div n)
  BY Z3
<1>. QED  BY <1>1, <1>2

LEMMA ModShift ==
  ASSUME NEW n \in Nat \ {0}, NEW q \in Int, NEW r \in 0 .. n - 1
  PROVE  (n * q + r) % n = r
  BY SMT

LEMMA ModAtMost ==
  ASSUME NEW n \in Nat \ {0}, NEW x \in Nat
  PROVE  x % n <= x
<1>1. x \div n >= 0 /\ x \div n \in Int
  BY SMT
<1>2. n * (x \div n) >= 0
  BY <1>1
<1>. QED  BY <1>2, DivMod

\* The distance of a wrapped sum from its start is at most what was added.
LEMMA ModDifference ==
  ASSUME NEW n \in Nat \ {0}, NEW a \in Nat, NEW i \in Nat
  PROVE  (((a + i) % n) - a) % n <= i
<1>. DEFINE q == (a + i) \div n
            p == i \div n
            r == i % n
<1>1. q \in Int /\ p \in Int /\ r \in 0 .. n - 1
  BY DivMod, ModBound
<1>2. (a + i) % n = a + i - n * q /\ i = n * p + r
  BY DivMod, <1>1
<1>3. ((a + i) % n) - a = n * (p - q) + r
  BY <1>1, <1>2
<1>4. r <= i
  BY ModAtMost
<1>. HIDE DEF q, p, r
<1>5. p - q \in Int
  BY <1>1
<1>6. (n * (p - q) + r) % n = r
  BY <1>1, <1>5, ModShift
<1>. QED  BY <1>3, <1>4, <1>6

\* The last number below a length that leaves a given remainder.
LEMMA LastBelow ==
  ASSUME NEW n \in Nat \ {0}, NEW f \in Nat, NEW len \in Nat, f < len
  PROVE  /\ f + n * ((len - 1 - f) \div n) \in 0 .. len - 1
         /\ len <= n => f + n * ((len - 1 - f) \div n) = f
<1>. DEFINE x == len - 1 - f
            q == x \div n
<1>1. x \in Nat
  OBVIOUS
<1>. HIDE DEF x
<1>2. q \in Int /\ q >= 0
  BY <1>1, SMT
<1>3. x % n = x - n * q /\ x % n >= 0
  BY <1>1, DivMod, ModBound
<1>4. n * q \in Int /\ n * q >= 0 /\ n * q <= x
  BY <1>1, <1>2, <1>3
<1>5. ASSUME len <= n  PROVE q = 0
  BY <1>1, <1>5, SMT DEF x
<1>. HIDE DEF q
<1>6. f + n * q \in 0 .. len - 1
  BY <1>4, <1>2 DEF x
<1>7. len <= n => f + n * q = f
  BY <1>5
<1>. QED  BY <1>6, <1>7 DEF q, x

LEMMA DivShift ==
  ASSUME NEW n \in Nat \ {0}, NEW q \in Int, NEW r \in 0 .. n - 1
  PROVE  (n * q + r) \div n = q
<1>1. PICK x \in Int : x = n * q + r
  OBVIOUS
<1>2. PICK p \in Int : p = x \div n
  BY DivMod
<1>3. x % n = r
  BY <1>1, ModShift
<1>4. x % n = x - n * p
  BY <1>2, DivMod
<1>5. n * p = n * q
  BY <1>1, <1>3, <1>4
<1>6. n * (p - q) = 0
  BY <1>5
<1>7. p = q
  BY <1>6
<1>. QED  BY <1>1, <1>2, <1>7

LEMMA Products ==
  /\ \A a, b \in Nat : a * b \in Nat
  /\ \A a, b, c \in Int : (a + b) * c = a * c + b * c
  /\ \A a, b \in Int : a * b = b * a
<1>1. ASSUME NEW a \in Nat, NEW b \in Nat  PROVE a * b \in Nat
  BY Z3
<1>2. ASSUME NEW a \in Int, NEW b \in Int, NEW c \in Int
      PROVE  (a + b) * c = a * c + b * c
  BY Z3
<1>3. ASSUME NEW a \in Int, NEW b \in Int  PROVE a * b = b * a
  BY Z3
<1>. QED  BY <1>1, <1>2, <1>3, Zenon

\* The quotient of a natural number, and what it bounds.
LEMMA Quotient ==
  ASSUME NEW n \in Nat \ {0}, NEW x \in Nat
  PROVE  /\ x \div n \in Nat /\ x % n \in 0 .. n - 1
         /\ x = n * (x \div n) + (x % n)
         /\ n * (x \div n) \in Nat
<1>1. PICK q \in Int : q = x \div n
  BY DivMod
<1>2. x % n = x - n * q /\ x % n \in 0 .. n - 1
  BY <1>1, DivMod, ModBound
<1>3. q >= 0
  <2>. SUFFICES ASSUME q <= -1  PROVE FALSE
    BY <1>1
  <2>1. n * q <= -n
    <3>1. PICK k \in Nat : q = -1 - k
      BY <1>1
    <3>2. n * q = -n - n * k /\ n * k >= 0
      BY <3>1
    <3>. QED  BY <3>2
  <2>. QED  BY <1>2, <2>1
<1>4. n * q \in Nat /\ x = n * q + (x % n)
  BY <1>1, <1>2, <1>3
<1>5. q \in Nat
  BY <1>3
<1>. QED  BY <1>1, <1>2, <1>4, <1>5, Zenon

LEMMA ModIs ==
  ASSUME NEW n \in Nat \ {0}, NEW x \in Int
  PROVE  \E q \in Int : x % n = x - n * q
  BY DivMod

LEMMA ModLess ==
  ASSUME NEW n \in Nat \ {0}, NEW x \in Int, NEW q \in Int
  PROVE  (x - n * q) % n = x % n
<1>1. PICK p \in Int, r \in 0 .. n - 1 : x = n * p + r /\ r = x % n
  <2>1. x \div n \in Int /\ x % n \in 0 .. n - 1 /\ x = n * (x \div n) + (x % n)
    BY DivMod, ModBound
  <2>. QED  BY <2>1
<1>2. x - n * q = n * (p - q) + r /\ p - q \in Int
  <2>1. \A a, b \in Int : n * (a - b) = n * a - n * b
    BY Z3
  <2>. QED  BY <1>1, <2>1
<1>3. (n * (p - q) + r) % n = r
  BY <1>2, ModShift
<1>. QED  BY <1>1, <1>2, <1>3

LEMMA ModAdd ==
  ASSUME NEW n \in Nat \ {0}, NEW x \in Int, NEW y \in Int
  PROVE  ((x % n) + y) % n = (x + y) % n
<1>1. PICK q \in Int : x % n = x - n * q
  BY ModIs
<1>2. PICK t \in Int : t = n * q
  BY <1>1
<1>3. (x - t) + y = (x + y) - t
  BY <1>2
<1>4. x + y \in Int
  OBVIOUS
<1>5. ((x + y) - n * q) % n = (x + y) % n
  BY <1>4, ModLess
<1>. QED  BY <1>1, <1>2, <1>3, <1>5, Zenon

\* A larger factor makes no smaller product.
LEMMA Monotone ==
  ASSUME NEW n \in Nat, NEW a \in Nat, NEW b \in Nat, a <= b
  PROVE  n * a <= n * b
<1>1. PICK k \in Nat : b = a + k
  <2>1. b - a \in Nat /\ b = a + (b - a)
    OBVIOUS
  <2>. QED  BY <2>1
<1>2. PICK x \in Nat, y \in Nat : x = n * a /\ y = n * k
  BY Products
<1>3. (a + k) * n = a * n + k * n
  BY Products
<1>4. n * b = b * n /\ n * a = a * n /\ n * k = k * n
  BY Products
<1>5. n * b = x + y
  BY <1>1, <1>2, <1>3, <1>4
<1>. QED  BY <1>2, <1>5

\* Digits in a mixed radix are read back from the number they make.
LEMMA Digits ==
  ASSUME NEW n \in Nat \ {0}, NEW a \in Nat, NEW u \in 0 .. n - 1,
         NEW b \in Nat, NEW v \in 0 .. n - 1, n * a + u = n * b + v
  PROVE  a = b /\ u = v
<1>1. (n * a + u) % n = u /\ (n * b + v) % n = v
  BY ModShift
<1>2. (n * a + u) \div n = a /\ (n * b + v) \div n = b
  BY DivShift
<1>. QED  BY <1>1, <1>2

\* A number of two digits is below the product of their radices.
LEMMA DigitsBelow ==
  ASSUME NEW n \in Nat \ {0}, NEW m \in Nat, NEW a \in Nat, a < m, NEW u \in 0 .. n - 1
  PROVE  n * a + u \in Nat /\ n * a + u < n * m
<1>1. PICK x \in Nat, y \in Nat : x = n * a /\ y = n * (a + 1)
  BY Products
<1>2. (a + 1) * n = a * n + 1 * n /\ n * (a + 1) = (a + 1) * n /\ n * a = a * n
  BY Products
<1>3. y = x + n
  BY <1>1, <1>2
<1>4. n * (a + 1) <= n * m
  BY Monotone
<1>5. PICK z \in Nat : z = n * m
  BY Products
<1>. QED  BY <1>1, <1>3, <1>4, <1>5

LEMMA MemSizeNat == MemSize \in Nat \ {0} /\ 65536 < MemSize
  BY SMT DEF MemSize

LEMMA WordSizeNat ==
  WordSize \in Nat \ {0} /\ \A x \in Int : x < WordSize <=> x <= 65535
  BY SMT DEF WordSize

LEMMA WordRange == \A x : x \in Word <=> x \in Int /\ 0 <= x /\ x <= 65535
<1>1. \A x : x \in Word <=> x \in Int /\ 0 <= x /\ x < WordSize
  BY WordSizeNat DEF Word
<1>. QED  BY <1>1, WordSizeNat

LEMMA ByteRange == \A x : x \in Byte <=> x \in Int /\ 0 <= x /\ x <= 255
  BY SMT DEF Byte

LEMMA AddrRange == \A x : x \in Addr <=> x \in Int /\ 0 <= x /\ x < MemSize
  BY MemSizeNat DEF Addr

LEMMA WordAddr == Word \subseteq Addr
  BY WordRange, AddrRange, MemSizeNat

\* Every wrapped sum is an address.
LEMMA ModAddr == ASSUME NEW x \in Int PROVE x % MemSize \in Addr
  BY ModBound, MemSizeNat DEF Addr

\* A physical address, whatever the segment and the offset.
LEMMA PhysInAddr ==
  ASSUME NEW seg \in Int, NEW off \in Int
  PROVE  Phys(seg, off) \in Addr
  BY ModAddr DEF Phys

LEMMA AddrInt == Addr \subseteq Nat
  BY MemSizeNat DEF Addr

\* The halves of a word are bytes and make it up again.
LEMMA Halves ==
  ASSUME NEW v \in Word
  PROVE  Lo(v) \in Byte /\ Hi(v) \in Byte /\ Lo(v) + 256 * Hi(v) = v
<1>1. v \in Int /\ 0 <= v /\ v <= 65535
  BY WordRange
<1>2. v \div 256 \in Int /\ v % 256 = v - 256 * (v \div 256)
  BY <1>1, DivMod
<1>3. 0 <= v % 256 /\ v % 256 <= 255
  BY <1>1, Z3
<1>. QED  BY <1>1, <1>2, <1>3, ByteRange DEF Lo, Hi

LEMMA Words ==
  ASSUME NEW lo \in Byte, NEW hi \in Byte
  PROVE  lo + 256 * hi \in Word
  BY WordRange, ByteRange

LEMMA WrapInWord == ASSUME NEW x \in Int PROVE Wrap16(x) \in Word
  BY ModBound, WordSizeNat DEF Wrap16, Word

\* Wrapping leaves a word alone.
LEMMA WrapWord == ASSUME NEW v \in Word PROVE Wrap16(v) = v
  BY SmallMod, WordSizeNat DEF Wrap16, Word

LEMMA WordInt == Word \subseteq Nat
  BY WordRange

\* Memory nothing has been written to holds bytes.
LEMMA BlankIsByte == ASSUME NEW a \in Addr PROVE Blank(a) \in Byte
<1>1. Lo(StubOff) = 0 /\ Hi(StubOff) = 1 /\ Lo(StubSeg) = 0
      /\ Hi(StubSeg) = 240
  BY SMT DEF Lo, Hi, StubOff, StubSeg
<1>2. (a % 4) + 1 \in 1 .. 4
  BY SMT, AddrInt
<1>. QED  BY SMT, <1>1, <1>2 DEF Blank, Byte, IRET

LEMMA ReadU8IsByte ==
  ASSUME NEW m, IsMem(m), NEW a \in Addr
  PROVE  ReadU8(m, a) \in Byte
  BY BlankIsByte DEF ReadU8, IsMem

LEMMA ReadU16IsWord ==
  ASSUME NEW m, IsMem(m), NEW a \in Addr
  PROVE  ReadU16(m, a) \in Word
<1>1. (a + 1) % MemSize \in Addr
  BY ModAddr, AddrInt
<1>. QED  BY <1>1, ReadU8IsByte, Words DEF ReadU16

LEMMA WriteU8IsMem ==
  ASSUME NEW m, IsMem(m), NEW a \in Addr, NEW v \in Byte
  PROVE  IsMem(WriteU8(m, a, v))
  BY DEF IsMem, WriteU8

LEMMA WriteU16IsMem ==
  ASSUME NEW m, IsMem(m), NEW a \in Addr, NEW v \in Word
  PROVE  IsMem(WriteU16(m, a, v))
<1>1. (a + 1) % MemSize \in Addr
  BY ModAddr, AddrInt
<1>. QED  BY <1>1, WriteU8IsMem, Halves DEF WriteU16

\* A bulk load writes bytes at addresses only.
LEMMA LoadBytesIsMem ==
  ASSUME NEW m, IsMem(m), NEW a \in Addr, NEW bytes \in Seq(Byte)
  PROVE  IsMem(LoadBytes(m, a, bytes))
<1>. DEFINE Index(x) == (x - a) % MemSize
            Last(x) ==
              Index(x) + MemSize * ((Len(bytes) - 1 - Index(x)) \div MemSize)
            Target == {(a + i) % MemSize : i \in 0 .. Len(bytes) - 1}
            Image(x) == IF Index(x) < Len(bytes) THEN bytes[Last(x) + 1]
                                                 ELSE m[x]
<1>1. Target \subseteq Addr
  BY ModAddr, AddrInt
<1>2. ASSUME NEW x \in DOMAIN m \cup Target  PROVE Image(x) \in Byte
  <2>1. x \in Addr
    BY <1>1, <1>2 DEF IsMem
  <2>2. Index(x) \in Nat
    BY <2>1, ModAddr, AddrInt
  <2>3. CASE Index(x) < Len(bytes)
    <3>1. Last(x) \in 0 .. Len(bytes) - 1
      <4>. DEFINE i == Index(x)
                  n == Len(bytes)
      <4>1. i \in Nat /\ n \in Nat /\ i < n
        BY <2>2, <2>3
      <4>. HIDE DEF i, n
      <4>2. i + MemSize * ((n - 1 - i) \div MemSize) \in 0 .. n - 1
        BY SMTT(60), <4>1, LastBelow, MemSizeNat
      <4>. QED  BY <4>2 DEF i, n
    <3>2. bytes[Last(x) + 1] \in Byte
      <4>. HIDE DEF Last
      <4>. QED  BY <3>1
    <3>. QED  BY <2>3, <3>2
  <2>4. CASE ~(Index(x) < Len(bytes))
    <3>1. ASSUME NEW i \in 0 .. Len(bytes) - 1, x = (a + i) % MemSize
          PROVE  FALSE
      <4>1. a \in Nat /\ i \in Nat
        BY <3>1, AddrInt
      <4>2. (((a + i) % MemSize) - a) % MemSize <= i
        <5>1. MemSize \in Nat \ {0}
          BY MemSizeNat
        <5>. QED  BY Zenon, <4>1, <5>1, ModDifference
      <4>3. Index(x) <= i
        BY <3>1, <4>2
      <4>. QED  BY <3>1, <4>3, <2>2, <2>4
    <3>2. x \in DOMAIN m
      BY <1>2, <3>1
    <3>. QED  BY <2>4, <3>2 DEF IsMem
  <2>. QED  BY <2>3, <2>4
<1>3. LoadBytes(m, a, bytes) = [x \in DOMAIN m \cup Target |-> Image(x)]
  BY DEF LoadBytes
<1>. HIDE DEF Target, Image
<1>. QED  BY <1>1, <1>2, <1>3 DEF IsMem

-----------------------------------------------------------------------------
\* The register file.

LEMMA RegsNewTyped == RegsNew \in Regs
  BY WordRange, AddrRange, MemSizeNat DEF RegsNew, Regs, SP

LEMMA Get16Word ==
  ASSUME NEW r \in Regs, NEW i \in Reg
  PROVE  Get16(r, i) \in Word
  BY DEF Get16, Regs, Reg

LEMMA Set16Regs ==
  ASSUME NEW r \in Regs, NEW i \in Reg, NEW v \in Word
  PROVE  /\ Set16(r, i, v) \in Regs
         /\ Set16(r, i, v).seg = r.seg
         /\ Set16(r, i, v).ip = r.ip
         /\ Set16(r, i, v).flags = r.flags
         /\ \A j \in Reg :
              Get16(Set16(r, i, v), j) = IF j = i THEN v ELSE Get16(r, j)
  BY DEF Set16, Get16, Regs, Reg

LEMMA HighWord ==
  ASSUME NEW r \in Regs, NEW i \in Reg
  PROVE  GetHigh16(r, i) \in Word
  BY DEF GetHigh16, Regs, Reg

LEMMA Set32Regs ==
  ASSUME NEW r \in Regs, NEW i \in Reg, NEW lo \in Word, NEW hi \in Word
  PROVE  Set32(r, i, lo, hi) \in Regs
  BY DEF Set32, Regs, Reg

\* The bits of a register that count in an address.
LEMMA GetAddrInt ==
  ASSUME NEW r \in Regs, NEW i \in Reg
  PROVE  GetAddr(r, i) \in Int
<1>1. Get16(r, i) \in Int /\ GetHigh16(r, i) \in Int
  BY Get16Word, HighWord, WordRange
<1>2. GetHigh16(r, i) % 16 \in Int
  BY <1>1, SMT
<1>. QED  BY <1>1, <1>2, WordSizeNat DEF GetAddr

LEMMA Get8Byte ==
  ASSUME NEW r \in Regs, NEW i \in Reg
  PROVE  Get8(r, i) \in Byte
<1>1. Get16(r, IF i < 4 THEN i ELSE i - 4) \in Word
  BY Get16Word DEF Reg
<1>. QED  BY <1>1, Halves DEF Get8

LEMMA Set8Regs ==
  ASSUME NEW r \in Regs, NEW i \in Reg, NEW v \in Byte
  PROVE  Set8(r, i, v) \in Regs
<1>1. CASE i < 4
  <2>1. Get16(r, i) \in Word
    BY Get16Word
  <2>2. Hi(Get16(r, i)) \in Byte
    BY <2>1, Halves
  <2>3. v + 256 * Hi(Get16(r, i)) \in Word
    BY <2>2, Words
  <2>4. 256 * Hi(Get16(r, i)) + v \in Word
    BY <2>2, <2>3, ByteRange
  <2>. QED  BY <1>1, <2>4, Set16Regs DEF Set8
<1>2. CASE ~(i < 4)
  <2>1. i - 4 \in Reg
    BY <1>2 DEF Reg
  <2>2. Get16(r, i - 4) \in Word
    BY <2>1, Get16Word
  <2>3. Lo(Get16(r, i - 4)) \in Byte
    BY <2>2, Halves
  <2>4. Lo(Get16(r, i - 4)) + 256 * v \in Word
    BY <2>3, Words
  <2>5. 256 * v + Lo(Get16(r, i - 4)) \in Word
    BY <2>3, <2>4, ByteRange
  <2>. QED  BY <1>2, <2>1, <2>5, Set16Regs DEF Set8
<1>. QED  BY <1>1, <1>2

\* The halves of a word that is made of two bytes.
LEMMA JoinHalves ==
  ASSUME NEW lo \in Byte, NEW hi \in Byte
  PROVE  /\ 256 * hi + lo \in Word
         /\ Lo(256 * hi + lo) = lo /\ Hi(256 * hi + lo) = hi
<1>1. lo \in Int /\ hi \in Int /\ 0 <= lo /\ lo <= 255 /\ 256 * hi + lo = lo + 256 * hi
  BY ByteRange
<1>2. PICK v \in Word : v = 256 * hi + lo
  BY <1>1, Words
<1>3. v % 256 = lo /\ v \div 256 = hi
  BY <1>1, <1>2, WordInt
<1>. QED  BY <1>2, <1>3 DEF Lo, Hi

\* A byte register that is set holds what it was set to, and no other changes.
LEMMA Set8Get8 ==
  ASSUME NEW r \in Regs, NEW i \in Reg, NEW v \in Byte, NEW j \in Reg
  PROVE  Get8(Set8(r, i, v), j) = IF j = i THEN v ELSE Get8(r, j)
<1>. DEFINE Pair(k) == IF k < 4 THEN k ELSE k - 4
<1>1. \A k \in Reg : Pair(k) \in Reg
  BY DEF Reg
<1>2. PICK w \in Word : w = Get16(r, Pair(i))
  BY <1>1, Get16Word
<1>3. PICK lo \in Byte, hi \in Byte : lo = Lo(w) /\ hi = Hi(w)
  BY Halves
<1>4. CASE i < 4
  <2>1. Set8(r, i, v) = Set16(r, i, 256 * hi + v)
    BY <1>2, <1>3, <1>4 DEF Set8
  <2>2. PICK x \in Word : x = 256 * hi + v /\ Lo(x) = v /\ Hi(x) = hi
    BY JoinHalves
  <2>3. \A k \in Reg : Get16(Set8(r, i, v), k) = IF k = i THEN x ELSE Get16(r, k)
    BY SMTT(60), <2>1, <2>2, Set16Regs
  <2>4. CASE j < 4
    BY <1>4, <2>2, <2>3, <2>4 DEF Get8
  <2>5. CASE ~(j < 4)
    <3>1. j - 4 \in Reg /\ j # i /\ (j - 4 = i => Get16(r, j - 4) = w)
      BY <1>2, <1>4, <2>5 DEF Reg
    <3>. QED  BY <1>3, <2>2, <2>3, <2>5, <3>1 DEF Get8
  <2>. QED  BY <2>4, <2>5
<1>5. CASE ~(i < 4)
  <2>1. PICK p \in Reg : p = i - 4 /\ Get16(r, p) = w
    BY <1>1, <1>2, <1>5
  <2>2. Set8(r, i, v) = Set16(r, p, 256 * v + lo)
    BY <1>3, <1>5, <2>1, ZenonT(90) DEF Set8
  <2>3. PICK x \in Word : x = 256 * v + lo /\ Lo(x) = lo /\ Hi(x) = v
    BY JoinHalves
  <2>4. \A k \in Reg : Get16(Set8(r, i, v), k) = IF k = p THEN x ELSE Get16(r, k)
    <3>1. \A k \in Reg : Get16(Set16(r, p, x), k) = IF k = p THEN x ELSE Get16(r, k)
      BY Set16Regs
    <3>. QED  BY <2>2, <2>3, <3>1, ZenonT(90)
  <2>5. CASE j < 4
    <3>1. j # i /\ (j = p => Get16(r, j) = w)
      BY <1>5, <2>1, <2>5
    <3>. QED  BY <1>3, <2>3, <2>4, <2>5, <3>1 DEF Get8
  <2>6. CASE ~(j < 4)
    <3>1. PICK q \in Reg : q = j - 4 /\ (q = p <=> j = i)
      BY <2>1, <2>6 DEF Reg
    <3>. QED  BY <2>3, <2>4, <2>6, <3>1 DEF Get8
  <2>. QED  BY <2>5, <2>6
<1>. QED  BY <1>4, <1>5

LEMMA SetSegRegs ==
  ASSUME NEW r \in Regs, NEW i \in SegReg, NEW v \in Word
  PROVE  /\ SetSeg(r, i, v) \in Regs
         /\ GetSeg(SetSeg(r, i, v), i) = v
         /\ SetSeg(r, i, v).ip = r.ip
         /\ \A j \in SegReg \ {i} : GetSeg(SetSeg(r, i, v), j) = GetSeg(r, j)
         /\ \A j \in Reg : Get16(SetSeg(r, i, v), j) = Get16(r, j)
  BY DEF SetSeg, GetSeg, Get16, Regs

LEMMA GetSegWord ==
  ASSUME NEW r \in Regs, NEW i \in SegReg
  PROVE  GetSeg(r, i) \in Word
  BY DEF GetSeg, Regs

\* An offset into any segment, and an instruction pointer moved and wrapped.
LEMMA SegPhys ==
  ASSUME NEW r \in Regs, NEW i \in SegReg, NEW off \in Addr
  PROVE  Phys(GetSeg(r, i), off) \in Addr
<1>1. GetSeg(r, i) \in Word
  BY GetSegWord
<1>2. GetSeg(r, i) \in Int /\ off \in Int
  BY <1>1, WordRange, AddrRange
<1>. QED  BY <1>2, PhysInAddr

LEMMA MoveIp ==
  ASSUME NEW ip \in Addr, NEW k \in Int
  PROVE  Wrap16(ip + k) \in Word /\ Wrap16(ip + k) \in Addr
<1>1. ip + k \in Int
  BY AddrInt
<1>. QED  BY <1>1, WrapInWord, WordAddr

LEMMA SetIpRegs ==
  ASSUME NEW r \in Regs, NEW a \in Addr
  PROVE  SetIp(r, a) \in Regs
  BY DEF SetIp, Regs

LEMMA FlagsRegs ==
  ASSUME NEW r \in Regs, NEW v \in Word
  PROVE  [r EXCEPT !.flags = v] \in Regs
  BY DEF Regs

\* The flags that the processor names.
Flags == {CarryFlag, ParityFlag, AuxFlag, ZeroFlag, SignFlag, TrapFlag,
          IntFlag, DirFlag, OverflowFlag}

\* Setting or clearing one leaves a word of flags, whatever it is set to.
LEMMA SetFlagRegs ==
  ASSUME NEW r \in Regs, NEW on, NEW f \in Flags
  PROVE  SetFlag(r, f, on) \in Regs
<1>. DEFINE g == r.flags
            cleared == g - f * ((g \div f) % 2)
<1>1. g \in Int /\ 0 <= g /\ g <= 65535
  BY WordRange DEF Regs
<1>2. f \in {1, 4, 16, 64, 128, 256, 512, 1024, 2048}
  BY DEF Flags, CarryFlag, ParityFlag, AuxFlag, ZeroFlag, SignFlag, TrapFlag,
         IntFlag, DirFlag, OverflowFlag
<1>3. cleared \in Int /\ 0 <= cleared /\ cleared + f <= 65535
  <2>1. CASE f = 1
    <3>1. 0 <= g - 1 * ((g \div 1) % 2)
          /\ g - 1 * ((g \div 1) % 2) + 1 <= 65535
      BY <1>1, Z3
    <3>2. (g \div 1) % 2 \in Int
      BY <1>1, SMT
    <3>. QED  BY <2>1, <1>1, <3>1, <3>2
  <2>2. CASE f = 4
    <3>1. 0 <= g - 4 * ((g \div 4) % 2)
          /\ g - 4 * ((g \div 4) % 2) + 4 <= 65535
      BY <1>1, Z3
    <3>2. (g \div 4) % 2 \in Int
      BY <1>1, SMT
    <3>. QED  BY <2>2, <1>1, <3>1, <3>2
  <2>3. CASE f = 16
    <3>1. 0 <= g - 16 * ((g \div 16) % 2)
          /\ g - 16 * ((g \div 16) % 2) + 16 <= 65535
      BY <1>1, Z3
    <3>2. (g \div 16) % 2 \in Int
      BY <1>1, SMT
    <3>. QED  BY <2>3, <1>1, <3>1, <3>2
  <2>4. CASE f = 64
    <3>1. 0 <= g - 64 * ((g \div 64) % 2)
          /\ g - 64 * ((g \div 64) % 2) + 64 <= 65535
      BY <1>1, Z3
    <3>2. (g \div 64) % 2 \in Int
      BY <1>1, SMT
    <3>. QED  BY <2>4, <1>1, <3>1, <3>2
  <2>5. CASE f = 128
    <3>1. 0 <= g - 128 * ((g \div 128) % 2)
          /\ g - 128 * ((g \div 128) % 2) + 128 <= 65535
      BY <1>1, Z3
    <3>2. (g \div 128) % 2 \in Int
      BY <1>1, SMT
    <3>. QED  BY <2>5, <1>1, <3>1, <3>2
  <2>6. CASE f = 256
    <3>1. 0 <= g - 256 * ((g \div 256) % 2)
          /\ g - 256 * ((g \div 256) % 2) + 256 <= 65535
      BY <1>1, Z3
    <3>2. (g \div 256) % 2 \in Int
      BY <1>1, SMT
    <3>. QED  BY <2>6, <1>1, <3>1, <3>2
  <2>7. CASE f = 512
    <3>1. 0 <= g - 512 * ((g \div 512) % 2)
          /\ g - 512 * ((g \div 512) % 2) + 512 <= 65535
      BY <1>1, Z3
    <3>2. (g \div 512) % 2 \in Int
      BY <1>1, SMT
    <3>. QED  BY <2>7, <1>1, <3>1, <3>2
  <2>8. CASE f = 1024
    <3>1. 0 <= g - 1024 * ((g \div 1024) % 2)
          /\ g - 1024 * ((g \div 1024) % 2) + 1024 <= 65535
      BY <1>1, Z3
    <3>2. (g \div 1024) % 2 \in Int
      BY <1>1, SMT
    <3>. QED  BY <2>8, <1>1, <3>1, <3>2
  <2>9. CASE f = 2048
    <3>1. 0 <= g - 2048 * ((g \div 2048) % 2)
          /\ g - 2048 * ((g \div 2048) % 2) + 2048 <= 65535
      BY <1>1, Z3
    <3>2. (g \div 2048) % 2 \in Int
      BY <1>1, SMT
    <3>. QED  BY <2>9, <1>1, <3>1, <3>2
  <2>. QED
    BY <1>2, <2>1, <2>2, <2>3, <2>4, <2>5, <2>6, <2>7, <2>8, <2>9
<1>4. SetFlag(r, f, on) = [r EXCEPT !.flags = cleared + f]
      \/ SetFlag(r, f, on) = [r EXCEPT !.flags = cleared + 0]
  <2>1. CASE on
    BY Zenon, <2>1 DEF SetFlag
  <2>2. CASE ~on
    BY Zenon, <2>2 DEF SetFlag
  <2>. QED  BY Zenon, <2>1, <2>2
<1>. HIDE DEF cleared
<1>5. cleared + f \in Word /\ cleared + 0 \in Word
  BY <1>2, <1>3, WordRange
<1>. QED  BY <1>4, <1>5, FlagsRegs

-----------------------------------------------------------------------------
\* One bit of a number, and the flags.

\* The number with the bit c of value f, h above it and r below.
WithBit(f, h, c, r) == (2 * f) * h + f * c + r

Doubled(f, g, m) == g = (2 * f) * m
Doubles(f, g) == \E m \in Nat \ {0} : Doubled(f, g, m)

LEMMA BitSplit ==
  ASSUME NEW f \in Nat \ {0}, NEW x \in Nat
  PROVE  \E h \in Nat, c \in {0, 1}, r \in 0 .. f - 1 :
           x = WithBit(f, h, c, r) /\ (x \div f) % 2 = c /\ x \div f = 2 * h + c
<1>1. PICK q \in Nat, r \in 0 .. f - 1 : x = f * q + r /\ q = x \div f
  BY Quotient
<1>2. PICK h \in Nat, c \in {0, 1} : q = 2 * h + c /\ c = q % 2
  <2>1. q \div 2 \in Nat /\ q % 2 \in {0, 1} /\ q = 2 * (q \div 2) + (q % 2)
    BY SMT
  <2>. QED  BY <2>1, Zenon
<1>3. f * (2 * h + c) = (2 * f) * h + f * c
  BY <1>2, Z3
<1>4. x = (2 * f) * h + f * c + r
  BY <1>1, <1>2, <1>3, Zenon
<1>. QED  BY <1>1, <1>2, <1>4, Zenon DEF WithBit

LEMMA BitRead ==
  ASSUME NEW f \in Nat \ {0}, NEW h \in Nat, NEW c \in {0, 1}, NEW r \in 0 .. f - 1
  PROVE  /\ WithBit(f, h, c, r) \div f = 2 * h + c
         /\ (WithBit(f, h, c, r) \div f) % 2 = c
<1>1. f * (2 * h + c) = (2 * f) * h + f * c
  BY Z3
<1>2. 2 * h + c \in Int
  OBVIOUS
<1>3. (f * (2 * h + c) + r) \div f = 2 * h + c
  BY <1>2, DivShift
<1>4. (2 * h + c) % 2 = c
  BY ModShift
<1>. QED  BY <1>1, <1>3, <1>4, Zenon DEF WithBit

LEMMA BitHigher ==
  ASSUME NEW f \in Nat \ {0}, NEW h \in Nat, NEW c \in {0, 1}, NEW r \in 0 .. f - 1,
         NEW m \in Nat \ {0}, NEW g, Doubled(f, g, m)
  PROVE  WithBit(f, h, c, r) \div g = h \div m
<1>1. PICK k \in Nat, j \in 0 .. m - 1 : h = m * k + j /\ k = h \div m
  BY Quotient
<1>2. PICK n \in Nat \ {0} : n = 2 * f
  OBVIOUS
<1>3. PICK u \in 0 .. n - 1 : u = f * c + r
  BY <1>2
<1>4. PICK w \in Nat : w = n * j + u /\ w < n * m
  BY DigitsBelow
<1>5. g \in Nat \ {0} /\ g = n * m
  BY <1>2, <1>4, Products DEF Doubled
<1>6. n * (m * k + j) = (n * m) * k + n * j
  BY Z3
<1>7. n * h + u = g * k + w
  <2>1. PICK a \in Nat, y \in Nat : a = g * k /\ y = n * j
    BY <1>5, Products
  <2>. QED  BY <1>1, <1>4, <1>5, <1>6, <2>1
<1>8. (g * k + w) \div g = k
  BY <1>4, <1>5, DivShift
<1>9. WithBit(f, h, c, r) = n * h + u
  <2>1. PICK a \in Nat : a = n * h
    BY <1>2, Products
  <2>2. PICK y \in Nat : y = f * c
    BY Products
  <2>. QED  BY <1>2, <1>3, <2>1, <2>2 DEF WithBit
<1>. QED  BY <1>1, <1>2, <1>5, <1>7, <1>8, <1>9, Zenon

LEMMA BitLower ==
  ASSUME NEW f \in Nat \ {0}, NEW h \in Nat, NEW c \in {0, 1}, NEW r \in 0 .. f - 1,
         NEW g \in Nat \ {0}, NEW m \in Nat \ {0}, Doubled(g, f, m)
  PROVE  (WithBit(f, h, c, r) \div g) % 2 = (r \div g) % 2
<1>1. PICK s \in Nat, u \in 0 .. g - 1 : r = g * s + u /\ s = r \div g
  <2>1. r \in Nat
    OBVIOUS
  <2>. QED  BY <2>1, Quotient, Zenon
<1>2. PICK y \in Nat : y = m * (2 * h + c)
  BY Products
<1>3. (2 * f) * h + f * c = (2 * g) * y
  <2>1. (2 * ((2 * g) * m)) * h + ((2 * g) * m) * c = (2 * g) * (m * (2 * h + c))
    BY Z3
  <2>. QED  BY <1>2, <2>1, Zenon DEF Doubled
<1>4. g * (2 * y + s) = (2 * g) * y + g * s
  BY Z3
<1>5. (2 * f) * h + f * c + r = g * (2 * y + s) + u
  <2>1. PICK a \in Nat, b \in Nat : a = (2 * g) * y /\ b = g * s
    BY Products
  <2>2. PICK d \in Nat, e \in Nat : d = (2 * f) * h /\ e = f * c
    BY Products
  <2>. QED  BY <1>1, <1>3, <1>4, <2>1, <2>2 DEF Doubled
<1>6. (g * (2 * y + s) + u) \div g = 2 * y + s
  <2>1. 2 * y + s \in Int
    OBVIOUS
  <2>. QED  BY <2>1, DivShift, Zenon
<1>7. (2 * y + s) % 2 = s % 2
  BY SMT
<1>. QED  BY <1>1, <1>5, <1>6, <1>7, Zenon DEF WithBit

\* Setting one bit leaves those of the other powers of two.
LEMMA BitApart ==
  ASSUME NEW f \in Nat \ {0}, NEW h \in Nat, NEW c \in {0, 1}, NEW d \in {0, 1},
         NEW r \in 0 .. f - 1, NEW g \in Nat \ {0}, Doubles(f, g) \/ Doubles(g, f)
  PROVE  (WithBit(f, h, d, r) \div g) % 2 = (WithBit(f, h, c, r) \div g) % 2
<1>1. CASE Doubles(f, g)
  <2>1. PICK m \in Nat \ {0} : Doubled(f, g, m)
    BY <1>1 DEF Doubles
  <2>2. ASSUME NEW k \in {0, 1}  PROVE WithBit(f, h, k, r) \div g = h \div m
    BY SMTT(60), <2>1, BitHigher
  <2>. QED  BY <2>1, <2>2, Zenon
<1>2. CASE Doubles(g, f)
  <2>1. PICK m \in Nat \ {0} : Doubled(g, f, m)
    BY <1>2 DEF Doubles
  <2>2. ASSUME NEW k \in {0, 1}
        PROVE  (WithBit(f, h, k, r) \div g) % 2 = (r \div g) % 2
    BY SMTT(60), <2>1, BitLower
  <2>. QED  BY <2>2, Zenon
<1>. QED  BY <1>1, <1>2

LEMMA FlagPowers ==
  ASSUME NEW f \in Flags, NEW g \in Flags
  PROVE  f \in Nat \ {0} /\ (f # g => Doubles(f, g) \/ Doubles(g, f))
<1>. DEFINE Steps == {1, 2, 4, 8, 16, 32, 64, 128, 256, 512, 1024}
<1>1. \A x \in {1, 4, 16, 64, 128, 256, 512, 1024, 2048} :
      \A y \in {1, 4, 16, 64, 128, 256, 512, 1024, 2048} :
         x < y => \E m \in Steps : y = (2 * x) * m
  BY SMT
<1>2. Steps \subseteq Nat \ {0}
  OBVIOUS
<1>. HIDE DEF Steps
<1>3. f \in {1, 4, 16, 64, 128, 256, 512, 1024, 2048}
      /\ g \in {1, 4, 16, 64, 128, 256, 512, 1024, 2048}
  BY DEF Flags, CarryFlag, ParityFlag, AuxFlag, ZeroFlag, SignFlag, TrapFlag,
         IntFlag, DirFlag, OverflowFlag
<1>4. f = g \/ f < g \/ g < f
  BY <1>3
<1>5. f \in Nat \ {0}
  BY <1>3
<1>6. ASSUME f < g  PROVE Doubles(f, g)
  <2>1. PICK m \in Steps : g = (2 * f) * m
    BY <1>1, <1>3, <1>6
  <2>2. m \in Nat \ {0}
    BY <1>2, Zenon
  <2>. QED  BY <2>1, <2>2, Zenon DEF Doubles, Doubled
<1>7. ASSUME g < f  PROVE Doubles(g, f)
  <2>1. PICK m \in Steps : f = (2 * g) * m
    BY <1>1, <1>3, <1>7
  <2>2. m \in Nat \ {0}
    BY <1>2, Zenon
  <2>. QED  BY <2>1, <2>2, Zenon DEF Doubles, Doubled
<1>. QED  BY <1>4, <1>5, <1>6, <1>7, Zenon

LEMMA FlagSet ==
  ASSUME NEW r \in Regs, NEW f \in Flags, NEW on
  PROVE  /\ Flag(SetFlag(r, f, on), f) <=> on
         /\ \A g \in Flags : g # f => (Flag(SetFlag(r, f, on), g) <=> Flag(r, g))
<1>1. f \in Nat \ {0}
  BY FlagPowers
<1>2. r.flags \in Nat
  BY WordInt DEF Regs
<1>3. PICK h \in Nat, c \in {0, 1}, q \in 0 .. f - 1 :
        /\ r.flags = WithBit(f, h, c, q)
        /\ (r.flags \div f) % 2 = c /\ r.flags \div f = 2 * h + c
  BY <1>1, <1>2, BitSplit, ZenonT(90)
<1>4. PICK d \in {0, 1} : d = IF on THEN 1 ELSE 0
  OBVIOUS
<1>5. SetFlag(r, f, on).flags = WithBit(f, h, d, q)
  <2>1. SetFlag(r, f, on).flags = r.flags - f * c + (IF on THEN f ELSE 0)
    BY <1>3 DEF SetFlag, Regs
  <2>2. PICK a \in Nat : a = (2 * f) * h
    BY <1>1, Products
  <2>3. f * c = (IF c = 1 THEN f ELSE 0) /\ f * d = (IF on THEN f ELSE 0)
    BY <1>1, <1>4
  <2>. QED  BY <1>1, <1>3, <2>1, <2>2, <2>3 DEF WithBit
<1>6. Flag(SetFlag(r, f, on), f) <=> on
  <2>1. (WithBit(f, h, d, q) \div f) % 2 = d
    BY <1>1, BitRead
  <2>. QED  BY <1>4, <1>5, <2>1 DEF Flag
<1>7. ASSUME NEW g \in Flags, g # f
      PROVE  Flag(SetFlag(r, f, on), g) <=> Flag(r, g)
  <2>1. g \in Nat \ {0} /\ (Doubles(f, g) \/ Doubles(g, f))
    BY <1>7, FlagPowers
  <2>2. (WithBit(f, h, d, q) \div g) % 2 = (WithBit(f, h, c, q) \div g) % 2
    BY <1>1, <2>1, BitApart
  <2>3. (SetFlag(r, f, on).flags \div g) % 2 = (r.flags \div g) % 2
    BY ONLY <1>3, <1>5, <2>2, Zenon
  <2>. QED  BY <2>3, Zenon DEF Flag
<1>. QED  BY <1>6, <1>7

-----------------------------------------------------------------------------
\* The words of an interrupt frame, which wraps within its segment and memory.

\* Numbers closer than n, and not equal, differ modulo n.
LEMMA ModApart ==
  ASSUME NEW n \in Nat \ {0}, NEW x \in Int, NEW y \in Int,
         x # y, x - y < n, y - x < n
  PROVE  x % n # y % n
<1>. DEFINE q == x \div n
            p == y \div n
<1>1. q \in Int /\ x % n = x - n * q /\ p \in Int /\ y % n = y - n * p
  BY DivMod
<1>. HIDE DEF q, p
<1>. SUFFICES ASSUME x % n = y % n  PROVE FALSE
  OBVIOUS
<1>2. PICK k \in Int : k = q - p
  BY <1>1
<1>3. x - y = n * k
  BY <1>1, <1>2
<1>4. n * k \in Int
  BY <1>2
<1>5. CASE k >= 1
  <2>1. n * k >= n
    BY <1>2, <1>5
  <2>. QED  BY <1>3, <1>4, <2>1
<1>6. CASE k <= -1
  <2>1. n * k <= -n
    BY <1>2, <1>6
  <2>. QED  BY <1>3, <1>4, <2>1
<1>7. CASE k = 0
  BY <1>3, <1>7
<1>. QED  BY <1>2, <1>5, <1>6, <1>7

\* A remainder and its successor.
LEMMA ModNext ==
  ASSUME NEW n \in Nat \ {0}, NEW z \in Int
  PROVE  ((z % n) + 1) % n = (z + 1) % n
<1>. DEFINE q == z \div n
            p == (z + 1) \div n
            r == (z + 1) % n
<1>1. q \in Int /\ z % n = z - n * q
  BY DivMod
<1>2. p \in Int /\ r = z + 1 - n * p /\ r \in 0 .. n - 1
  BY DivMod, ModBound
<1>. HIDE DEF q, p, r
<1>3. (z % n) + 1 = n * (p - q) + r
  BY <1>1, <1>2
<1>4. (n * (p - q) + r) % n = r
  <2>1. p - q \in Int
    BY <1>1, <1>2
  <2>. QED  BY <1>2, <2>1, ModShift, Zenon
<1>. QED  BY <1>3, <1>4 DEF r

\* Both facts for addresses.
LEMMA MemApart ==
  \A i, j \in Int : i # j /\ i - j < MemSize /\ j - i < MemSize =>
                     i % MemSize # j % MemSize
<1>1. \A n \in Nat \ {0} : \A i, j \in Int :
        i # j /\ i - j < n /\ j - i < n => i % n # j % n
  <2>. TAKE n \in Nat \ {0}
  <2>. TAKE i \in Int, j \in Int
  <2>. HAVE i # j /\ i - j < n /\ j - i < n
  <2>. QED  BY ModApart
<1>2. PICK n \in Nat \ {0} : n = MemSize
  BY MemSizeNat
<1>3. \A i, j \in Int : i # j /\ i - j < n /\ j - i < n => i % n # j % n
  BY <1>1, Zenon
<1>. QED  BY <1>2, <1>3, Zenon

LEMMA MemNext ==
  \A i \in Int : ((i % MemSize) + 1) % MemSize = (i + 1) % MemSize
<1>1. \A n \in Nat \ {0} : \A i \in Int : ((i % n) + 1) % n = (i + 1) % n
  <2>. TAKE n \in Nat \ {0}
  <2>. TAKE i \in Int
  <2>. QED  BY ModNext
<1>2. PICK n \in Nat \ {0} : n = MemSize
  BY MemSizeNat
<1>3. \A i \in Int : ((i % n) + 1) % n = (i + 1) % n
  BY <1>1, Zenon
<1>. QED  BY <1>2, <1>3, Zenon

\* A byte that was written is read back, and the others stay.
LEMMA WriteReadU8 ==
  ASSUME NEW m, NEW a, NEW b, NEW v
  PROVE  ReadU8(WriteU8(m, a, v), b) = IF b = a THEN v ELSE ReadU8(m, b)
  BY DEF ReadU8, WriteU8

\* A word that was written is read back.
LEMMA WriteReadU16 ==
  ASSUME NEW m, NEW a \in Addr, NEW v \in Word
  PROVE  ReadU16(WriteU16(m, a, v), a) = v
<1>1. (a + 1) % MemSize # a
  <2>1. a % MemSize = a /\ a \in Int /\ 1 < MemSize /\ MemSize \in Nat \ {0}
    BY AddrRange, MemSizeNat, SmallMod
  <2>. QED  BY <2>1, ModApart
<1>2. ReadU8(WriteU16(m, a, v), a) = Lo(v)
  BY <1>1, WriteReadU8 DEF WriteU16
<1>3. ReadU8(WriteU16(m, a, v), (a + 1) % MemSize) = Hi(v)
  BY WriteReadU8 DEF WriteU16
<1>. QED  BY <1>2, <1>3, Halves DEF ReadU16

\* Two words are apart when none of their bytes is the other's.
Apart(a, b) ==
  {a, (a + 1) % MemSize} \cap {b, (b + 1) % MemSize} = {}

LEMMA WriteKeepsU16 ==
  ASSUME NEW m, NEW a, NEW b, NEW v, Apart(a, b)
  PROVE  ReadU16(WriteU16(m, a, v), b) = ReadU16(m, b)
<1>1. b # a /\ b # (a + 1) % MemSize /\ (b + 1) % MemSize # a
      /\ (b + 1) % MemSize # (a + 1) % MemSize
  BY DEF Apart
<1>2. \A x : x # a /\ x # (a + 1) % MemSize =>
        ReadU8(WriteU16(m, a, v), x) = ReadU8(m, x)
  BY WriteReadU8 DEF WriteU16
<1>. QED  BY <1>1, <1>2 DEF ReadU16

\* Words of the stack two or four bytes apart, however the offset wraps.
LEMMA StackApart ==
  ASSUME NEW seg \in Word, NEW x \in Word, NEW y \in Word,
         x - y \in {2, 4, -65534, -65532}
  PROVE  Apart(Phys(seg, x), Phys(seg, y))
<1>1. x \in Int /\ y \in Int /\ seg \in Int
  BY WordRange
<1>2. PICK u \in Int : u = seg * 16 + x
  BY <1>1
<1>3. PICK w \in Int : w = seg * 16 + y
  BY <1>1
<1>4. u - w = x - y
  BY <1>1, <1>2, <1>3
<1>5. /\ u # w /\ u # w + 1 /\ u + 1 # w /\ u + 1 # w + 1
      /\ u - w < 65536 /\ w - u < 65536 /\ u - (w + 1) < 65536
      /\ (w + 1) - u < 65536 /\ (u + 1) - w < 65536 /\ w - (u + 1) < 65536
  BY <1>4
<1>6. MemSize \in Nat \ {0} /\ 65536 < MemSize
  BY MemSizeNat
<1>7. /\ u - w < MemSize /\ w - u < MemSize /\ u - (w + 1) < MemSize
      /\ (w + 1) - u < MemSize /\ (u + 1) - w < MemSize
      /\ w - (u + 1) < MemSize /\ (u + 1) - (w + 1) < MemSize
      /\ (w + 1) - (u + 1) < MemSize /\ u + 1 \in Int /\ w + 1 \in Int
  BY <1>5, <1>6
<1>8. /\ u % MemSize # w % MemSize /\ u % MemSize # (w + 1) % MemSize
      /\ (u + 1) % MemSize # w % MemSize
      /\ (u + 1) % MemSize # (w + 1) % MemSize
  <2>1. \A i, j \in Int : i # j /\ i - j < MemSize /\ j - i < MemSize =>
          i % MemSize # j % MemSize
    BY MemApart
  <2>2. u % MemSize # w % MemSize
    BY ONLY <1>5, <1>7, <2>1, u \in Int, w \in Int
  <2>3. u % MemSize # (w + 1) % MemSize
    BY ONLY <1>5, <1>7, <2>1, u \in Int, w \in Int
  <2>4. (u + 1) % MemSize # w % MemSize
    BY ONLY <1>5, <1>7, <2>1, u \in Int, w \in Int
  <2>5. (u + 1) % MemSize # (w + 1) % MemSize
    BY ONLY <1>5, <1>7, <2>1, u \in Int, w \in Int
  <2>. QED  BY <2>2, <2>3, <2>4, <2>5
<1>9. /\ ((u % MemSize) + 1) % MemSize = (u + 1) % MemSize
      /\ ((w % MemSize) + 1) % MemSize = (w + 1) % MemSize
  <2>1. \A i \in Int : ((i % MemSize) + 1) % MemSize = (i + 1) % MemSize
    BY MemNext
  <2>. QED  BY <2>1
<1>10. Phys(seg, x) = u % MemSize /\ Phys(seg, y) = w % MemSize
  BY <1>2, <1>3 DEF Phys
<1>11. \A a0, a1, b0, b1 : a0 # b0 /\ a0 # b1 /\ a1 # b0 /\ a1 # b1 =>
         {a0, a1} \cap {b0, b1} = {}
  OBVIOUS
<1>12. {u % MemSize, (u + 1) % MemSize} \cap {w % MemSize, (w + 1) % MemSize} = {}
  <2>. DEFINE a0 == u % MemSize
              a1 == (u + 1) % MemSize
              b0 == w % MemSize
              b1 == (w + 1) % MemSize
  <2>1. a0 # b0 /\ a0 # b1 /\ a1 # b0 /\ a1 # b1
    BY <1>8
  <2>. HIDE DEF a0, a1, b0, b1
  <2>2. {a0, a1} \cap {b0, b1} = {}
    BY <2>1
  <2>. QED  BY <2>2 DEF a0, a1, b0, b1
<1>. QED  BY <1>9, <1>10, <1>12 DEF Apart

\* A stack pointer two lower, and where it goes back to.
LEMMA StackOffsets ==
  ASSUME NEW x \in Word
  PROVE  /\ Wrap16(x - 2) \in Word
         /\ x - Wrap16(x - 2) \in {2, -65534}
         /\ Wrap16(Wrap16(x - 2) + 2) = x
<1>1. x \in Int /\ 0 <= x /\ x <= 65535
  BY WordRange
<1>2. Wrap16(x - 2) = IF x >= 2 THEN x - 2 ELSE x + 65534
  BY <1>1, Z3 DEF Wrap16, WordSize
<1>3. \A y \in Int : y >= 0 /\ y <= 65535 =>
        Wrap16(y + 2) = IF y <= 65533 THEN y + 2 ELSE y - 65534
  BY Z3 DEF Wrap16, WordSize
<1>4. Wrap16(x - 2) \in Word
  BY <1>1, WrapInWord
<1>5. x - Wrap16(x - 2) \in {2, -65534}
  BY <1>1, <1>2
<1>6. Wrap16(Wrap16(x - 2) + 2) = x
  BY <1>1, <1>2, <1>3
<1>. QED  BY <1>4, <1>5, <1>6

\* The six bytes of a frame, from its top at a word's offset up, do not meet.
LEMMA FrameOffsets ==
  ASSUME NEW sp \in Word, NEW a, NEW b, NEW c,
         a = Wrap16(sp - 2), b = Wrap16(a - 2), c = Wrap16(b - 2)
  PROVE  /\ a \in Word /\ b \in Word /\ c \in Word
         /\ Wrap16(c + 2) = b /\ Wrap16(b + 2) = a /\ Wrap16(a + 2) = sp
         /\ Wrap16(c + 4) = a
         /\ a - b \in {2, 4, -65534, -65532}
         /\ a - c \in {2, 4, -65534, -65532}
         /\ b - c \in {2, 4, -65534, -65532}
<1>1. a \in Word /\ Wrap16(a + 2) = sp
  BY StackOffsets
<1>2. b \in Word /\ Wrap16(b + 2) = a /\ a - b \in {2, -65534}
  BY <1>1, StackOffsets
<1>3. c \in Word /\ Wrap16(c + 2) = b /\ b - c \in {2, -65534}
  BY <1>2, StackOffsets
<1>4. /\ a \in Int /\ b \in Int /\ c \in Int /\ 0 <= a /\ a <= 65535
      /\ 0 <= c /\ c <= 65535
  BY <1>1, <1>2, <1>3, WordRange
<1>5. a - c \in {4, -65532}
  <2>1. CASE a - b = 2
    BY SMTT(60), <1>3, <1>4, <2>1
  <2>2. CASE a - b = -65534 /\ b - c = 2
    BY <1>4, <2>2
  <2>3. ~(a - b = -65534 /\ b - c = -65534)
    BY <1>4
  <2>. QED  BY <1>2, <1>3, <2>1, <2>2, <2>3
<1>6. \A y \in Int : y >= 0 /\ y <= 65535 =>
        Wrap16(y + 4) = IF y <= 65531 THEN y + 4 ELSE y - 65532
  BY Z3 DEF Wrap16, WordSize
<1>7. Wrap16(c + 4) = a
  BY <1>4, <1>5, <1>6
<1>. QED  BY <1>1, <1>2, <1>3, <1>5, <1>7

=============================================================================
