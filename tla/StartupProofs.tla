--------------------------- MODULE StartupProofs ---------------------------
(***************************************************************************)
(* What TLAPS proves of Runtime::new, for every image file.                *)
(***************************************************************************)
EXTENDS StartupProperties, CpuProofs, FiniteSetTheorems, SequenceTheorems,
        WellFoundedInduction

-----------------------------------------------------------------------------
\* Numbers.  Every set of naturals has a least element, and so a property of
\* zero that each number hands on to the next one is a property of all.

LEMMA LeastNumber ==
  ASSUME NEW T, T \subseteq Nat, T # {}
  PROVE  \E x \in T : \A y \in T : x <= y
<1>. DEFINE R == {ss \in Nat \X Nat : ss[1] < ss[2]}
<1>1. IsWellFoundedOn(R, Nat)
  BY NatLessThanWellFounded DEF OpToRel
<1>2. PICK x \in T : \A y \in T : <<y, x>> \notin R
  <2>. HIDE DEF R
  <2>. QED  BY <1>1, WFMin
<1>3. ASSUME NEW y \in T  PROVE x <= y
  <2>1. x \in Nat /\ y \in Nat /\ <<y, x>> \notin R
    BY <1>2
  <2>. QED  BY <2>1
<1>. QED  BY <1>3

LEMMA Induction ==
  ASSUME NEW S, 0 \in S, \A n \in Nat : n \in S => n + 1 \in S
  PROVE  Nat \subseteq S
<1>. SUFFICES ASSUME Nat \ S # {} PROVE FALSE
  OBVIOUS
<1>1. PICK x \in Nat \ S : \A y \in Nat \ S : x <= y
  BY LeastNumber
<1>2. x - 1 \in Nat /\ x - 1 < x
  BY <1>1
<1>3. x - 1 \in S
  BY <1>1, <1>2
<1>. QED  BY <1>1, <1>2, <1>3

\* The least and the greatest number of a set that has one.
LEMMA MinOf ==
  ASSUME NEW T, T \subseteq Nat, T # {}
  PROVE  Min(T) \in T /\ \A y \in T : Min(T) <= y
<1>1. \E x \in T : \A y \in T : x <= y
  BY LeastNumber
<1>. QED  BY <1>1 DEF Min

LEMMA MaxOf ==
  ASSUME NEW T, T \subseteq Nat, NEW n \in Nat, \A y \in T : y <= n, T # {}
  PROVE  Max(T) \in T /\ \A y \in T : Max(T) >= y
<1>. DEFINE U == {n - y : y \in T}
<1>1. U \subseteq Nat /\ U # {}
  <2>1. ASSUME NEW y \in T  PROVE n - y \in Nat
    <3>1. y \in Nat /\ y <= n
      OBVIOUS
    <3>. QED  BY <3>1
  <2>2. U \subseteq Nat
    BY <2>1, Zenon
  <2>3. U # {}
    BY Zenon
  <2>. QED  BY <2>2, <2>3
<1>2. PICK u \in U : \A v \in U : u <= v
  <2>. HIDE DEF U
  <2>. QED  BY <1>1, LeastNumber
<1>3. PICK x \in T : u = n - x
  BY <1>2
<1>4. \A y \in T : x >= y
  <2>. SUFFICES ASSUME NEW y \in T  PROVE x >= y
    OBVIOUS
  <2>1. n - x <= n - y
    BY <1>2, <1>3
  <2>2. x \in Nat /\ y \in Nat
    BY <1>3
  <2>. QED  BY <2>1, <2>2
<1>5. \E z \in T : \A y \in T : z >= y
  BY <1>3, <1>4
<1>. QED  BY <1>5 DEF Max

\* Of two numbers.
LEMMA MinOfTwo ==
  ASSUME NEW a \in Nat, NEW b \in Nat
  PROVE  Min({a, b}) = IF a <= b THEN a ELSE b
<1>1. Min({a, b}) \in {a, b} /\ \A y \in {a, b} : Min({a, b}) <= y
  BY MinOf
<1>. QED  BY <1>1

LEMMA MaxOfTwo ==
  ASSUME NEW a \in Nat, NEW b \in Nat
  PROVE  Max({a, b}) = IF a >= b THEN a ELSE b
<1>1. \E n \in Nat : a <= n /\ b <= n
  OBVIOUS
<1>2. Max({a, b}) \in {a, b} /\ \A y \in {a, b} : Max({a, b}) >= y
  BY <1>1, MaxOf
<1>. QED  BY <1>2

-----------------------------------------------------------------------------
\* The state of Runtime::new.  Every slot that is listed, queued or read is one
\* of the image; a file system that was found is that of the sector the scan is
\* at; nothing but the loader touches the machine.

Pcs == {"open", "scan", "list", "read", "batch", "execute", "relocate", "boot",
        "done", "failed", "panicked"}

SlotsOf(i) ==
  UNION {{i.root[n][k] : k \in 1 .. Len(i.root[n])} : n \in DOMAIN i.root}

OnDiskPcs == {"scan", "list", "read", "batch", "boot"}
DiskInv ==
  /\ pc \in Pcs /\ IsImageFile(image)
  /\ pc \in OnDiskPcs => ~image.exe /\ disk = LoadDisk(image)
FsInv ==
  /\ lba \in Nat
  /\ fs # NoFs => /\ ~image.exe /\ disk = LoadDisk(image)
                  /\ Detects(disk, lba) /\ fs = FsAt(disk, lba)
  /\ pc \in {"list", "read", "batch"} => fs # NoFs
  /\ pc \in {"open", "scan", "boot"} => fs = NoFs
  /\ pc \in {"execute", "relocate"} /\ ~image.exe => fs # NoFs
FilesInv ==
  /\ next \in Nat \ {0}
  /\ entries \in Seq(SlotsOf(image)) /\ queue \in Seq(SlotsOf(image))
ReadInv ==
  /\ entry \in SlotsOf(image) \cup {NoEntry}
  /\ purpose \in {"batch", "program"}
  /\ cluster \in Nat /\ data \in Seq(Byte) /\ reloc \in Nat
  /\ pc = "open" => data = <<>>
MachineInv == pc \notin {"relocate", "done"} => machine = Blank0

TypeInv == DiskInv /\ FsInv /\ FilesInv /\ ReadInv /\ MachineInv

IsFs(f) ==
  /\ f.fat \in Nat /\ f.root \in Nat /\ f.data \in Nat /\ f.entries \in Nat \ {0}
  /\ f.spc \in Nat \ {0} /\ f.fat12 \in BOOLEAN

LEMMA SizeNat == SectorSize \in Nat \ {0} /\ SectorSize % 2 = 0
  BY SectorSizeAssumption, FatAssumption

\* The disk of an image file.
LEMMA DiskTyped ==
  ASSUME NEW i, IsImageFile(i)
  PROVE  /\ LoadDisk(i).data \in Seq(Byte)
         /\ LoadDisk(i).cyls \in Word
         /\ LoadDisk(i).heads \in Byte /\ LoadDisk(i).spt \in Byte
         /\ LoadDisk(i).bpb = i.bpb /\ LoadDisk(i).root = i.root
<1>. DEFINE g == DetectGeometry(i.raw, i.header)
<1>1. ASSUME NEW o \in Nat, NEW c \in Nat, NEW h \in Nat, NEW s \in Nat,
             g = Geometry(o, c, h, s)
      PROVE  /\ g.offset \in Nat /\ g.cyls \in Word
             /\ g.heads \in Byte /\ g.spt \in Byte
  <2>1. c % 65536 \in Word /\ h % 256 \in Byte /\ s % 256 \in Byte
    BY WordRange, ByteRange
  <2>. QED  BY <1>1, <2>1 DEF Geometry
<1>2. \E o, c, h, s \in Nat : g = Geometry(o, c, h, s)
  <2>1. /\ i.header.offset \in Nat /\ i.header.cyls \in Nat
        /\ i.header.heads \in Nat /\ i.header.spt \in Nat
    BY DEF IsImageFile
  <2>. DEFINE Field(end, there, missing) ==
                IF Len(i.raw) < end THEN missing ELSE there
  <2>2. /\ Field(14, i.header.offset, 4096) \in Nat
        /\ Field(30, i.header.cyls, 615) \in Nat
        /\ Field(26, i.header.heads, 8) \in Nat
        /\ Field(22, i.header.spt, 17) \in Nat
    BY <2>1
  <2>3. g = CASE i.header.magic = "T98HDDIMAGE.R0" ->
                   Geometry(272, i.header.cyls, i.header.heads, i.header.spt)
              [] i.header.magic = "HDI" ->
                   Geometry(Field(14, i.header.offset, 4096),
                            Field(30, i.header.cyls, 615),
                            Field(26, i.header.heads, 8),
                            Field(22, i.header.spt, 17))
              [] OTHER -> Geometry(0, 615, 8, 17)
    BY DEF DetectGeometry
  <2>. HIDE DEF g, Field
  <2>4. CASE i.header.magic = "T98HDDIMAGE.R0"
    BY <2>1, <2>3, <2>4
  <2>5. CASE i.header.magic = "HDI"
    BY <2>2, <2>3, <2>5
  <2>6. CASE i.header.magic \notin {"T98HDDIMAGE.R0", "HDI"}
    BY <2>3, <2>6
  <2>. QED  BY <2>4, <2>5, <2>6
<1>3. /\ g.offset \in Nat /\ g.cyls \in Word
      /\ g.heads \in Byte /\ g.spt \in Byte
  BY <1>1, <1>2
<1>. HIDE DEF g
<1>4. SubSeq(i.raw, g.offset + 1, Len(i.raw)) \in Seq(Byte)
  <2>1. i.raw \in Seq(Byte) /\ Len(i.raw) \in Nat
    BY LenProperties DEF IsImageFile
  <2>2. \A k \in g.offset + 1 .. Len(i.raw) : i.raw[k] \in Byte
    BY <1>3, <2>1, ElementOfSeq
  <2>. QED  BY <1>3, <2>1, <2>2, SubSeqProperties
<1>. QED  BY <1>3, <1>4 DEF LoadDisk, g

\* What a piece of a sequence is.
LEMMA Piece ==
  ASSUME NEW S, NEW s \in Seq(S), NEW from \in Nat, NEW n \in Nat,
         from + n <= Len(s)
  PROVE  /\ SubSeq(s, from + 1, from + n) \in Seq(S)
         /\ Len(SubSeq(s, from + 1, from + n)) = n
         /\ \A k \in 1 .. n :
              /\ from + k \in 1 .. Len(s)
              /\ SubSeq(s, from + 1, from + n)[k] = s[from + k]
<1>1. PICK lo, hi : lo = from + 1 /\ hi = from + n
  OBVIOUS
<1>2. lo \in Int /\ hi \in Int /\ hi - lo + 1 = n /\ Len(s) \in Nat
  BY <1>1, LenProperties
<1>3. \A k \in lo .. hi : s[k] \in S
  BY <1>1, <1>2, ElementOfSeq
<1>4. /\ SubSeq(s, lo, hi) \in Seq(S)
      /\ Len(SubSeq(s, lo, hi)) = IF lo <= hi THEN hi - lo + 1 ELSE 0
      /\ \A k \in 1 .. hi - lo + 1 : SubSeq(s, lo, hi)[k] = s[lo + k - 1]
  BY <1>2, <1>3, SubSeqProperties
<1>5. Len(SubSeq(s, lo, hi)) = n
  BY <1>1, <1>2, <1>4
<1>6. ASSUME NEW k \in 1 .. n
      PROVE  from + k \in 1 .. Len(s) /\ SubSeq(s, lo, hi)[k] = s[from + k]
  <2>1. lo + k - 1 = from + k /\ from + k \in 1 .. Len(s)
    BY <1>1, <1>2
  <2>. QED  BY <1>2, <1>4, <2>1
<1>. QED  BY <1>1, <1>4, <1>5, <1>6

\* Sectors within the image are bytes of it.
LEMMA SectorBytes ==
  ASSUME NEW d, d.data \in Seq(Byte), NEW at \in Nat, NEW n \in Nat,
         InRange(d, at, n)
  PROVE  /\ ReadSectors(d, at, n) \in Seq(Byte)
         /\ Len(ReadSectors(d, at, n)) = n * SectorSize
         /\ \A k \in 1 .. n * SectorSize :
              /\ at * SectorSize + k \in 1 .. Len(d.data)
              /\ ReadSectors(d, at, n)[k] = d.data[at * SectorSize + k]
<1>1. PICK from \in Nat, size \in Nat :
        /\ from = at * SectorSize /\ size = n * SectorSize
        /\ (at + n) * SectorSize = from + size
  BY SizeNat
<1>2. from + size <= Len(d.data)
  BY <1>1 DEF InRange
<1>3. ReadSectors(d, at, n) = SubSeq(d.data, from + 1, from + size)
  BY <1>1 DEF ReadSectors
<1>4. /\ SubSeq(d.data, from + 1, from + size) \in Seq(Byte)
      /\ Len(SubSeq(d.data, from + 1, from + size)) = size
      /\ \A k \in 1 .. size :
           /\ from + k \in 1 .. Len(d.data)
           /\ SubSeq(d.data, from + 1, from + size)[k] = d.data[from + k]
  BY <1>2, Piece
<1>. QED  BY <1>1, <1>3, <1>4, Zenon

-----------------------------------------------------------------------------
\* The arithmetic of a boot sector.

\* A number rounded up to a multiple: the least that is enough.
LEMMA CeilOf ==
  ASSUME NEW x \in Nat, NEW n \in Nat \ {0}
  PROVE  /\ Ceil(x, n) \in Nat
         /\ x <= n * Ceil(x, n)
         /\ \A k \in Nat : x <= n * k => Ceil(x, n) <= k
         /\ \A k \in Nat : n * k < x => k < Ceil(x, n)
<1>1. PICK q \in Nat, r \in 0 .. n - 1 :
        q = Ceil(x, n) /\ x + n - 1 = n * q + r /\ n * q \in Nat
  <2>1. x + n - 1 \in Nat
    OBVIOUS
  <2>. QED  BY <2>1, Quotient DEF Ceil
<1>2. x <= n * q
  BY <1>1
<1>3. ASSUME NEW k \in Nat, x <= n * k  PROVE q <= k
  <2>. SUFFICES ASSUME k + 1 <= q  PROVE FALSE
    BY <1>1
  <2>1. PICK j \in Nat : q = k + 1 + j
    <3>1. q - (k + 1) \in Nat
      BY <1>1
    <3>. QED  BY <3>1
  <2>2. n * q = n * k + n + n * j /\ n * j >= 0
    BY <2>1
  <2>. QED  BY <1>1, <1>3, <2>2
<1>4. ASSUME NEW k \in Nat, n * k < x  PROVE k < q
  <2>. SUFFICES ASSUME q <= k  PROVE FALSE
    BY <1>1
  <2>1. PICK j \in Nat : k = q + j
    <3>1. k - q \in Nat
      BY <1>1
    <3>. QED  BY <3>1
  <2>2. n * k = n * q + n * j /\ n * j >= 0
    BY <2>1
  <2>. QED  BY <1>2, <1>4, <2>2
<1>. QED  BY <1>1, <1>2, <1>3, <1>4

\* A boot sector that is accepted, and the sectors of its file system.
LEMMA MultiplierOf ==
  ASSUME NEW b, IsBpb(b), Reasonable(b)
  PROVE  Multiplier(b) \in {1, 2, 4} /\ b.bps = SectorSize * Multiplier(b)
<1>1. ASSUME NEW m \in {1, 2, 4}, b.bps = SectorSize * m
      PROVE  Multiplier(b) = m
  <2>1. 0 \in 0 .. SectorSize - 1 /\ SectorSize * m + 0 = SectorSize * m
    BY SizeNat
  <2>2. (SectorSize * m + 0) \div SectorSize = m
    BY <2>1, DivShift, SizeNat
  <2>. QED  BY <1>1, <2>1, <2>2 DEF Multiplier
<1>2. \E m \in {1, 2, 4} : b.bps = SectorSize * m
  BY SizeNat DEF Reasonable
<1>. QED  BY <1>1, <1>2

LEMMA FsTyped ==
  ASSUME NEW d, NEW at \in Nat, Detects(d, at), IsBpb(d.bpb[at])
  PROVE  /\ IsFs(FsAt(d, at))
         /\ FsAt(d, at).fat < FsAt(d, at).root
         /\ FsAt(d, at).root + DirectorySectors(FsAt(d, at)) <= FsAt(d, at).data
<1>. DEFINE b == d.bpb[at]
            f == FsAt(d, at)
<1>1. PICK m \in {1, 2, 4} : m = Multiplier(b) /\ b.bps = SectorSize * m
  BY MultiplierOf DEF Detects
<1>2. /\ b.reserved \in Nat /\ b.fats \in 1 .. 2 /\ b.spf \in Nat \ {0}
      /\ b.entries \in Nat \ {0} /\ b.spc \in Nat \ {0}
  BY DEF Detects, Reasonable, IsBpb, ClusterSizes
<1>3. PICK tables \in Nat \ {0} : tables = b.fats * b.spf
  BY <1>2
<1>4. PICK front \in Nat : front = b.reserved * m
  BY <1>2
<1>5. /\ f.fat = at + front
      /\ f.root = at + front + tables * m
      /\ f.data = f.root + RootSectors(b) * m
      /\ f.entries = b.entries /\ f.spc = b.spc * m
      /\ f.fat12 \in BOOLEAN
  <2>1. (b.reserved + tables) * m = front + tables * m
    BY <1>2, <1>3, <1>4
  <2>. QED  BY <1>1, <1>3, <1>4, <2>1 DEF FsAt, RootLba, RootStart
<1>6. PICK unit \in Nat \ {0}, bytes \in Nat :
        unit = b.bps /\ bytes = 32 * b.entries
  BY <1>1, <1>2, SizeNat
<1>7. PICK rows \in Nat : rows = RootSectors(b) /\ bytes <= unit * rows
  BY <1>6, CeilOf DEF RootSectors
<1>8. DirectorySectors(f) <= rows * m
  <2>1. PICK k \in Nat : k = rows * m
    BY <1>1
  <2>2. unit * rows = SectorSize * k
    BY <1>1, <1>6, <2>1, SizeNat
  <2>3. bytes <= SectorSize * k
    BY <1>7, <2>2
  <2>4. Ceil(bytes, SectorSize) <= k
    BY <2>3, CeilOf, SizeNat
  <2>. QED  BY <1>5, <1>6, <2>1, <2>4 DEF DirectorySectors
<1>9. DirectorySectors(f) \in Nat
  BY <1>5, <1>6, CeilOf, SizeNat DEF DirectorySectors
<1>. HIDE DEF f, b
<1>10. tables * m > 0 /\ tables * m \in Nat /\ rows * m \in Nat
  BY <1>1, <1>3
<1>11. b.spc * m \in Nat \ {0}
  BY <1>1, <1>2
<1>12. IsFs(f)
  BY <1>2, <1>5, <1>7, <1>10, <1>11 DEF IsFs
<1>13. f.fat < f.root /\ f.root + DirectorySectors(f) <= f.data
  BY <1>5, <1>7, <1>8, <1>9, <1>10, <1>12 DEF IsFs
<1>. QED  BY <1>12, <1>13 DEF f

-----------------------------------------------------------------------------
\* The entry of a cluster in the table is where the table has it, also when it
\* lies across two sectors.
LEMMA TwelveBits ==
  ASSUME NEW lo \in Byte, NEW hi \in Byte
  PROVE  /\ (lo + 256 * hi) % 4096 = lo + 256 * (hi % 16)
         /\ (lo + 256 * hi) \div 16 = (lo \div 16) + 16 * hi
<1>1. lo \in Nat /\ lo <= 255 /\ hi \in Nat /\ hi <= 255
  BY ByteRange
<1>2. (lo + 256 * hi) % 4096 = lo + 256 * (hi % 16)
  BY <1>1, SMTT(30)
<1>3. (lo + 256 * hi) \div 16 = (lo \div 16) + 16 * hi
  BY <1>1, SMTT(30)
<1>. QED  BY <1>2, <1>3

LEMMA OffsetOf ==
  ASSUME NEW c \in Nat
  PROVE  /\ c % 2 = 0 => (3 * c) \div 2 = 3 * (c \div 2)
         /\ c % 2 # 0 => (3 * c) \div 2 = 3 * (c \div 2) + 1
  BY SMT

\* What a table gives for a cluster is a number.
LEMMA LinkIsNext ==
  ASSUME NEW d, d.data \in Seq(Byte), NEW f, IsFs(f), NEW c \in Nat,
         FatReadable(d, f, c)
  PROVE  NextCluster(d, f, c) = Link(d, f, c) /\ NextCluster(d, f, c) \in Nat
<1>1. f.fat \in Nat /\ f.fat12 \in BOOLEAN
  BY DEF IsFs
<1>2. PICK off \in Nat : off = FatOffset(f, c)
  <2>1. (3 * c) \div 2 \in Nat /\ 2 * c \in Nat
    BY Quotient
  <2>. QED  BY <2>1 DEF FatOffset
<1>3. PICK q \in Nat, at \in 0 .. SectorSize - 1, rows \in Nat :
        /\ q = off \div SectorSize /\ at = off % SectorSize
        /\ rows = SectorSize * q /\ off = rows + at
  <2>1. /\ off \div SectorSize \in Nat /\ off % SectorSize \in 0 .. SectorSize - 1
        /\ off = SectorSize * (off \div SectorSize) + (off % SectorSize)
        /\ SectorSize * (off \div SectorSize) \in Nat
    BY Quotient, SizeNat
  <2>. QED  BY <2>1, Zenon
<1>4. PICK n \in {1, 2} : n = FatSectors(f)
  BY DEF FatSectors
<1>5. PICK at1 \in Nat : at1 = f.fat + q /\ at1 = FatSector(f, c)
  BY <1>1, <1>2, <1>3 DEF FatSector
<1>6. at + 1 \in 1 .. n * SectorSize /\ at + 2 \in 1 .. n * SectorSize
  <2>1. CASE f.fat12
    <3>1. n = 2
      BY <1>4, <2>1 DEF FatSectors
    <3>. QED  BY <3>1, <1>3, SizeNat
  <2>2. CASE ~f.fat12
    <3>1. n = 1 /\ off = 2 * c
      BY <1>2, <1>4, <2>2 DEF FatSectors, FatOffset
    <3>2. PICK half \in Nat : SectorSize = 2 * half
      <4>1. SectorSize = 2 * (SectorSize \div 2) + (SectorSize % 2)
        BY Quotient, SizeNat
      <4>2. SectorSize \div 2 \in Nat
        BY Quotient, SizeNat
      <4>. QED  BY <4>1, <4>2, SizeNat
    <3>3. PICK k \in Int : k = half * q
      OBVIOUS
    <3>4. rows = 2 * k
      <4>1. (half + half) * q = half * q + half * q
        BY Products
      <4>2. half + half = SectorSize
        BY <3>2
      <4>3. rows = half * q + half * q
        BY <1>3, <4>1, <4>2, Zenon
      <4>4. rows = k + k
        BY <3>3, <4>3, Zenon
      <4>. QED  BY <4>4
    <3>5. at = 2 * (c - k)
      <4>1. 2 * c = 2 * k + at
        BY <1>3, <3>1, <3>4
      <4>. QED  BY <4>1
    <3>6. at <= 2 * half - 1
      BY <1>3, <3>2
    <3>7. at + 2 <= 2 * half
      BY <3>5, <3>6
    <3>. QED  BY SMTT(60), <1>3, <3>1, <3>2, <3>7
  <2>. QED  BY <1>1, <2>1, <2>2
<1>7. InRange(d, at1, n)
  BY <1>4, <1>5 DEF FatReadable
<1>8. PICK s : s = ReadSectors(d, at1, n)
  OBVIOUS
<1>9. \A k \in 1 .. n * SectorSize :
        at1 * SectorSize + k \in 1 .. Len(d.data)
        /\ s[k] = d.data[at1 * SectorSize + k]
  BY <1>4, <1>7, <1>8, SectorBytes
<1>10. PICK base \in Nat, from \in Nat :
         /\ base = at1 * SectorSize /\ from = f.fat * SectorSize
         /\ base + at = from + off
  <2>1. PICK from \in Nat : from = f.fat * SectorSize
    <3>1. f.fat * SectorSize \in Nat
      BY <1>1, SizeNat, Products
    <3>. QED  BY <3>1
  <2>2. (f.fat + q) * SectorSize = from + rows
    <3>1. \A a \in Nat : (a + q) * SectorSize = a * SectorSize + q * SectorSize
      BY SizeNat, Products
    <3>2. q * SectorSize = SectorSize * q
      BY SizeNat, Products
    <3>. QED  BY <1>1, <1>3, <2>1, <3>1, <3>2, Zenon
  <2>3. from + rows + at = from + off /\ from + rows \in Nat
    BY SMTT(60), <1>3
  <2>. QED  BY <1>5, <2>1, <2>2, <2>3
<1>11. \A j \in {0, 1} : s[at + j + 1] = TableByte(d, f, off + j)
                        /\ TableByte(d, f, off + j) \in Byte
  <2>. SUFFICES ASSUME NEW j \in {0, 1}
                PROVE  s[at + j + 1] = TableByte(d, f, off + j)
                       /\ TableByte(d, f, off + j) \in Byte
    OBVIOUS
  <2>1. PICK k \in 1 .. n * SectorSize : k = at + j + 1
    BY <1>6
  <2>3. base + k = from + (off + j) + 1
    <3>1. at \in Nat /\ j \in Nat
      BY <1>3
    <3>2. k = at + j + 1 /\ base + at = from + off
      BY <1>10, <2>1
    <3>. QED  BY <3>1, <3>2
  <2>4. s[k] = d.data[from + (off + j) + 1]
        /\ from + (off + j) + 1 \in 1 .. Len(d.data)
    BY <1>9, <1>10, <2>3
  <2>5. s[k] = TableByte(d, f, off + j)
    BY <1>10, <2>4 DEF TableByte
  <2>. QED  BY <2>1, <2>4, <2>5, ElementOfSeq
<1>12. PICK lo \in Byte, hi \in Byte :
         /\ lo = TableByte(d, f, off) /\ hi = TableByte(d, f, off + 1)
         /\ s[at + 1] = lo /\ s[at + 2] = hi
  <2>1. off + 0 = off /\ at + 0 + 1 = at + 1 /\ at + 1 + 1 = at + 2
    BY SMTT(60), <1>3
  <2>. QED  BY <1>11, <2>1
<1>13. NextCluster(d, f, c)
         = IF ~f.fat12 THEN lo + 256 * hi
           ELSE IF c % 2 = 0 THEN (lo + 256 * hi) % 4096
                             ELSE (lo + 256 * hi) \div 16
  <2>1. /\ FatOffset(f, c) % SectorSize = at
        /\ ReadSectors(d, FatSector(f, c), FatSectors(f)) = s
    BY <1>2, <1>3, <1>4, <1>5, <1>8
  <2>. QED  BY <1>12, <2>1 DEF NextCluster
<1>14. /\ (lo + 256 * hi) % 4096 = lo + 256 * (hi % 16)
       /\ (lo + 256 * hi) \div 16 = (lo \div 16) + 16 * hi
  BY TwelveBits
<1>15. CASE ~f.fat12
  <2>1. off = 2 * c
    BY <1>2, <1>15 DEF FatOffset
  <2>2. Link(d, f, c) = lo + 256 * hi
    BY <1>12, <1>15, <2>1 DEF Link
  <2>. QED  BY <1>13, <1>15, <2>2, ByteRange
<1>16. CASE f.fat12 /\ c % 2 = 0
  <2>1. off = 3 * (c \div 2)
    BY <1>2, <1>16, OffsetOf DEF FatOffset
  <2>2. Link(d, f, c) = lo + 256 * (hi % 16)
    BY <1>12, <1>16, <2>1 DEF Link
  <2>3. NextCluster(d, f, c) = lo + 256 * (hi % 16)
    BY <1>13, <1>14, <1>16
  <2>4. lo \in Nat /\ hi \in Nat
    BY ByteRange
  <2>5. hi % 16 \in Nat
    BY <2>4, Quotient
  <2>. QED  BY <2>2, <2>3, <2>4, <2>5
<1>17. CASE f.fat12 /\ c % 2 # 0
  <2>1. off = 3 * (c \div 2) + 1 /\ c \div 2 \in Nat
    BY <1>2, <1>17, OffsetOf, Quotient DEF FatOffset
  <2>2. off + 1 = 3 * (c \div 2) + 2
    BY <2>1
  <2>3. Link(d, f, c) = (lo \div 16) + 16 * hi
    BY <1>12, <1>17, <2>1, <2>2 DEF Link
  <2>4. NextCluster(d, f, c) = (lo \div 16) + 16 * hi
    BY <1>13, <1>14, <1>17
  <2>5. lo \in Nat /\ hi \in Nat
    BY ByteRange
  <2>6. lo \div 16 \in Nat
    BY <2>5, Quotient
  <2>. QED  BY <2>3, <2>4, <2>5, <2>6
<1>. QED  BY <1>1, <1>15, <1>16, <1>17

-----------------------------------------------------------------------------
\* The entry point is a file of the directory, and says what it is.
LEMMA RankOf ==
  ASSUME NEW e
  PROVE  Rank(e) \in 1 .. 5 /\ (Rank(e) < 5 => e.ext = "BAT")
  BY DEF Rank, NoRank, FullName

\* The numbers of a sequence have a bound.
LEMMA BoundOf ==
  ASSUME NEW q, Len(q) \in Nat, \A i \in 1 .. Len(q) : q[i].size \in Nat
  PROVE  \E n \in Nat : \A i \in 1 .. Len(q) : q[i].size <= n
<1>. DEFINE T == {k \in Nat : k <= Len(q) =>
                    \E n \in Nat : \A i \in 1 .. k : q[i].size <= n}
<1>1. 0 \in T
  OBVIOUS
<1>2. ASSUME NEW k \in Nat, k \in T  PROVE k + 1 \in T
  <2>. SUFFICES ASSUME k + 1 <= Len(q)
                PROVE  \E n \in Nat : \A i \in 1 .. k + 1 : q[i].size <= n
    OBVIOUS
  <2>1. PICK n \in Nat : \A i \in 1 .. k : q[i].size <= n
    BY <1>2
  <2>2. PICK m \in Nat : m = q[k + 1].size
    OBVIOUS
  <2>3. ASSUME NEW i \in 1 .. k + 1  PROVE q[i].size <= n + m
    <3>1. CASE i = k + 1
      BY <2>2, <3>1
    <3>2. CASE i \in 1 .. k
      <4>1. q[i].size \in Nat /\ q[i].size <= n
        BY <2>1, <3>2
      <4>. QED  BY <4>1
    <3>. QED  BY <3>1, <3>2
  <2>4. n + m \in Nat
    OBVIOUS
  <2>. QED  BY <2>3, <2>4
<1>3. Nat \subseteq T
  <2>. HIDE DEF T
  <2>. QED  BY <1>1, <1>2, Induction
<1>4. Len(q) \in T /\ Len(q) <= Len(q)
  <2>. HIDE DEF T
  <2>. QED  BY <1>3
<1>. QED  BY <1>4

LEMMA EntrypointIn ==
  ASSUME NEW S, \A e \in S : IsSlot(e), NEW q \in Seq(S), HasEntrypoint(q)
  PROVE  \E i \in 1 .. Len(q) :
           FindEntrypoint(q) = q[i] /\ q[i].ext \in {"BAT", "EXE"}
<1>1. DOMAIN q = 1 .. Len(q) /\ Len(q) \in Nat
  BY LenProperties
<1>. DEFINE ranks == {NoRank} \cup {Rank(q[i]) : i \in DOMAIN q}
            best == Min(ranks)
            sizes == {q[i].size : i \in Executables(q)}
            largest == Max(sizes)
<1>2. ranks \subseteq Nat /\ ranks # {}
  BY RankOf DEF NoRank
<1>3. PICK b \in ranks : b = best /\ \A y \in ranks : b <= y
  <2>. HIDE DEF ranks
  <2>. QED  BY <1>2, MinOf
<1>4. b \in Nat /\ \A i \in 1 .. Len(q) : b <= Rank(q[i])
  BY <1>1, <1>2, <1>3
<1>5. FindEntrypoint(q)
        = IF b < NoRank
          THEN q[SelectInSeq(q, LAMBDA e : Rank(e) = b)]
          ELSE q[SelectLastInSeq(q, LAMBDA e : e.ext = "EXE" /\ e.size = largest)]
  BY <1>3 DEF FindEntrypoint
<1>6. CASE b < NoRank
  <2>. DEFINE I == {i \in 1 .. Len(q) : Rank(q[i]) = b}
  <2>1. I # {} /\ I \subseteq Nat
    <3>1. \E i \in 1 .. Len(q) : Rank(q[i]) = b
      <4>1. b # NoRank
        BY <1>4, <1>6 DEF NoRank
      <4>2. b \in {Rank(q[i]) : i \in DOMAIN q}
        BY <1>3, <4>1
      <4>. QED  BY <1>1, <4>2
    <3>. QED  BY <3>1
  <2>2. FindEntrypoint(q) = q[Min(I)]
    BY <1>5, <1>6, <2>1 DEF SelectInSeq
  <2>3. Min(I) \in I
    <3>. HIDE DEF I
    <3>. QED  BY <2>1, MinOf
  <2>4. Min(I) \in 1 .. Len(q) /\ Rank(q[Min(I)]) < 5
    BY <1>6, <2>3 DEF NoRank
  <2>. HIDE DEF I
  <2>. QED  BY <2>2, <2>4, RankOf
<1>7. CASE ~(b < NoRank)
  <2>1. Executables(q) # {} /\ Executables(q) \subseteq 1 .. Len(q)
    <3>1. \A i \in DOMAIN q : ~(Rank(q[i]) < NoRank)
      BY <1>1, <1>4, <1>7, RankOf DEF NoRank
    <3>. QED  BY <1>1, <3>1 DEF HasEntrypoint, Executables
  <2>2. \A i \in 1 .. Len(q) : q[i].size \in Nat
    BY ElementOfSeq DEF IsSlot
  <2>3. PICK n \in Nat : \A i \in 1 .. Len(q) : q[i].size <= n
    BY <1>1, <2>2, BoundOf
  <2>4. sizes \subseteq Nat /\ sizes # {} /\ \A y \in sizes : y <= n
    BY <2>1, <2>2, <2>3
  <2>5. PICK l \in sizes : l = largest
    <3>. HIDE DEF sizes
    <3>. QED  BY <2>4, MaxOf
  <2>. DEFINE I == {i \in 1 .. Len(q) : q[i].ext = "EXE" /\ q[i].size = l}
  <2>6. I # {} /\ I \subseteq Nat /\ \A y \in I : y <= Len(q)
    <3>1. \E i \in 1 .. Len(q) : q[i].ext = "EXE" /\ q[i].size = l
      BY <1>1, <2>1, <2>5 DEF Executables
    <3>. QED  BY <3>1
  <2>7. FindEntrypoint(q) = q[Max(I)]
    BY <1>5, <1>7, <2>5, <2>6 DEF SelectLastInSeq
  <2>8. Max(I) \in I
    <3>. HIDE DEF I
    <3>. QED  BY <1>1, <2>6, MaxOf
  <2>9. Max(I) \in 1 .. Len(q) /\ q[Max(I)].ext = "EXE"
    BY <2>8
  <2>. HIDE DEF I
  <2>. QED  BY <2>7, <2>9
<1>. QED  BY <1>6, <1>7

-----------------------------------------------------------------------------
\* The slots of an image.
LEMMA SlotTyped ==
  ASSUME NEW i, IsImageFile(i), NEW e \in SlotsOf(i) \cup {NoEntry}
  PROVE  IsSlot(e)
<1>1. CASE e \in SlotsOf(i)
  <2>1. PICK n \in DOMAIN i.root : e \in {i.root[n][k] : k \in 1 .. Len(i.root[n])}
    BY <1>1 DEF SlotsOf
  <2>2. PICK k \in 1 .. Len(i.root[n]) : e = i.root[n][k]
    BY <2>1
  <2>. QED  BY <2>1, <2>2 DEF IsImageFile
<1>2. CASE e = NoEntry
  BY <1>2 DEF NoEntry, IsSlot
<1>. QED  BY <1>1, <1>2

LEMMA SlotIn ==
  ASSUME NEW i, IsImageFile(i), NEW d, d.root = i.root, NEW f,
         NEW n \in Nat \ {0}, HasSlot(d, f, n)
  PROVE  Slots(d, f)[n] \in SlotsOf(i)
<1>1. f.root \in DOMAIN i.root
  BY DEF HasSlot, Slots
<1>2. Slots(d, f) = i.root[f.root]
  BY <1>1 DEF Slots
<1>3. n \in 1 .. Len(i.root[f.root])
  BY <1>1, <1>2 DEF HasSlot, IsImageFile
<1>. QED  BY <1>1, <1>2, <1>3 DEF SlotsOf

\* The file system of the scan, and the cluster it is at.
LEMMA FoundFs ==
  ASSUME DiskInv, FsInv, fs # NoFs
  PROVE  IsFs(fs) /\ disk.data \in Seq(Byte) /\ disk.root = image.root
<1>1. /\ disk = LoadDisk(image) /\ IsImageFile(image)
      /\ Detects(disk, lba) /\ fs = FsAt(disk, lba) /\ lba \in Nat
  BY DEF DiskInv, FsInv
<1>2. disk.data \in Seq(Byte) /\ disk.bpb = image.bpb /\ disk.root = image.root
  BY <1>1, DiskTyped
<1>3. IsBpb(disk.bpb[lba])
  BY <1>1, <1>2 DEF Detects, IsImageFile
<1>. QED  BY <1>1, <1>2, <1>3, FsTyped

LEMMA ClusterBytesRead ==
  ASSUME NEW d, d.data \in Seq(Byte), NEW f, IsFs(f), NEW c \in Nat,
         HasCluster(d, f, c)
  PROVE  /\ ReadCluster(d, f, c) \in Seq(Byte)
         /\ Len(ReadCluster(d, f, c)) = ClusterBytes(f)
         /\ \A k \in 1 .. ClusterBytes(f) :
              ReadCluster(d, f, c)[k] = d.data[ClusterLba(f, c) * SectorSize + k]
<1>1. f.data \in Nat /\ f.spc \in Nat
  BY DEF IsFs
<1>2. c - 2 \in Nat
  BY DEF HasCluster, InChain
<1>3. ClusterLba(f, c) \in Nat
  <2>1. (c - 2) * f.spc \in Nat
    BY <1>1, <1>2, Products
  <2>. QED  BY <1>1, <2>1 DEF ClusterLba
<1>4. InRange(d, ClusterLba(f, c), f.spc)
  BY DEF HasCluster, ClusterReadable
<1>. QED  BY <1>1, <1>3, <1>4, SectorBytes DEF ReadCluster, ClusterBytes

LEMMA CutTyped ==
  ASSUME NEW bytes \in Seq(Byte), entry.size \in Nat
  PROVE  /\ Cut(bytes) \in Seq(Byte)
         /\ Len(Cut(bytes)) = IF Len(bytes) <= entry.size THEN Len(bytes)
                                                          ELSE entry.size
         /\ \A k \in 1 .. Len(Cut(bytes)) : Cut(bytes)[k] = bytes[k]
<1>0. PICK z \in Nat : z = 0
  OBVIOUS
<1>1. Len(bytes) \in Nat
  BY LenProperties
<1>2. PICK n \in Nat : n = Min({Len(bytes), entry.size}) /\ n <= Len(bytes)
                       /\ n = IF Len(bytes) <= entry.size THEN Len(bytes)
                                                          ELSE entry.size
  BY <1>1, MinOfTwo
<1>3. /\ SubSeq(bytes, z + 1, z + n) \in Seq(Byte)
      /\ Len(SubSeq(bytes, z + 1, z + n)) = n
      /\ \A k \in 1 .. n : SubSeq(bytes, z + 1, z + n)[k] = bytes[z + k]
  <2>1. z + n <= Len(bytes)
    BY <1>2, <1>0
  <2>. QED  BY <2>1, Piece
<1>4. z + 1 = 1 /\ z + n = n /\ \A k \in 1 .. n : z + k = k
  BY <1>2, <1>0
<1>5. Cut(bytes) = SubSeq(bytes, z + 1, z + n)
  BY <1>2, <1>4 DEF Cut
<1>. QED  BY <1>2, <1>3, <1>4, <1>5

-----------------------------------------------------------------------------
LEMMA TypeInit == Init => TypeInv
<1>. SUFFICES ASSUME Init  PROVE TypeInv
  OBVIOUS
<1>1. IsImageFile(image)
  BY ImagesAssumption DEF Init
<1>2. <<>> \in Seq(SlotsOf(image)) /\ <<>> \in Seq(Byte)
  BY EmptySeq
<1>3. DiskInv
  BY <1>1 DEF Init, DiskInv, Pcs, OnDiskPcs
<1>4. FsInv
  BY DEF Init, FsInv
<1>5. FilesInv
  BY <1>2 DEF Init, FilesInv
<1>6. ReadInv
  BY <1>2 DEF Init, ReadInv
<1>7. MachineInv
  BY DEF Init, MachineInv
<1>. QED  BY <1>3, <1>4, <1>5, <1>6, <1>7 DEF TypeInv

\* The steps that leave the disk and the files alone.
LEMMA OpenKeepsType == TypeInv /\ Open => TypeInv'
<1>. SUFFICES ASSUME TypeInv, Open  PROVE TypeInv'
  OBVIOUS
<1>. USE DEF TypeInv, DiskInv, FsInv, FilesInv, ReadInv, MachineInv, Pcs,
             OnDiskPcs, found, reading
<1>1. CASE OpenExe
  <2>1. image.raw \in Seq(Byte)
    BY DEF IsImageFile
  <2>. QED  BY <1>1, <2>1 DEF OpenExe
<1>2. CASE OpenDisk
  BY <1>2 DEF OpenDisk
<1>3. CASE OpenFails
  BY <1>3 DEF OpenFails
<1>. QED  BY <1>1, <1>2, <1>3 DEF Open

LEMMA FindKeepsType == TypeInv /\ Find => TypeInv'
<1>. SUFFICES ASSUME TypeInv, Find  PROVE TypeInv'
  OBVIOUS
<1>. USE DEF TypeInv, DiskInv, FsInv, FilesInv, ReadInv, MachineInv, Pcs,
             OnDiskPcs, found, reading
<1>1. CASE Scan
  <2>1. CASE Detects(disk, lba)
    <3>1. FsAt(disk, lba) # NoFs
      <4>1. IsBpb(disk.bpb[lba])
        BY <1>1, <2>1, DiskTyped DEF Scan, Detects, IsImageFile
      <4>2. FsAt(disk, lba).entries # 0
        BY <2>1, <4>1, FsTyped DEF IsFs
      <4>. QED  BY <4>2 DEF NoFs
    <3>. QED  BY <1>1, <2>1, <3>1 DEF Scan
  <2>2. CASE ~Detects(disk, lba)
    BY <1>1, <2>2 DEF Scan
  <2>. QED  BY <2>1, <2>2
<1>2. CASE NotDetected
  BY <1>2 DEF NotDetected
<1>3. CASE BootSector
  BY <1>3 DEF BootSector
<1>. QED  BY <1>1, <1>2, <1>3 DEF Find

LEMMA ListKeepsType == TypeInv /\ List => TypeInv'
<1>. SUFFICES ASSUME TypeInv, List  PROVE TypeInv'
  OBVIOUS
<1>. USE DEF TypeInv, DiskInv, FsInv, FilesInv, ReadInv, MachineInv, Pcs,
             OnDiskPcs, found, reading
<1>1. CASE ListNext
  <2>1. fs # NoFs
    BY <1>1 DEF ListNext
  <2>2. Slots(disk, fs)[next] \in SlotsOf(image)
    BY <1>1, <2>1, FoundFs, SlotIn DEF ListNext
  <2>3. entries' \in Seq(SlotsOf(image)')
    BY <1>1, <2>2 DEF ListNext
  <2>. QED  BY <1>1, <2>3 DEF ListNext
<1>2. CASE ListOver
  <2>1. PICK i \in 1 .. Len(entries) : FindEntrypoint(entries) = entries[i]
    <3>1. \A e \in SlotsOf(image) : IsSlot(e)
      BY SlotTyped
    <3>. QED  BY <1>2, <3>1, EntrypointIn DEF ListOver
  <2>2. FindEntrypoint(entries) \in SlotsOf(image)
    BY <2>1, ElementOfSeq
  <2>3. IsSlot(FindEntrypoint(entries))
    BY <2>2, SlotTyped
  <2>4. <<>> \in Seq(Byte) /\ <<FindEntrypoint(entries)>> \in Seq(SlotsOf(image))
    BY <2>2, EmptySeq
  <2>5. queue' \in Seq(SlotsOf(image)')
    BY <1>2, <2>4 DEF ListOver
  <2>6. /\ entry' \in SlotsOf(image)' /\ purpose' \in {"batch", "program"}
        /\ cluster' \in Nat /\ data' \in Seq(Byte) /\ pc' = "read"
    BY <1>2, <2>2, <2>3, <2>4 DEF ListOver, StartReading, IsSlot
  <2>. QED  BY <1>2, <2>5, <2>6 DEF ListOver
<1>3. CASE ListFails
  BY <1>3 DEF ListFails
<1>. QED  BY <1>1, <1>2, <1>3 DEF List

LEMMA ReadKeepsType == TypeInv /\ ReadStep => TypeInv'
<1>. SUFFICES ASSUME TypeInv, ReadStep  PROVE TypeInv'
  OBVIOUS
<1>. USE DEF TypeInv, DiskInv, FsInv, FilesInv, ReadInv, MachineInv, Pcs,
             OnDiskPcs, found, reading, AfterRead
<1>1. CASE ReadNext
  <2>1. fs # NoFs /\ HasCluster(disk, fs, cluster)
    BY <1>1 DEF ReadNext, HasCluster
  <2>2. IsFs(fs) /\ disk.data \in Seq(Byte)
    BY <2>1, FoundFs
  <2>3. PICK more \in Seq(Byte) : more = data \o ReadCluster(disk, fs, cluster)
    BY <2>1, <2>2, ClusterBytesRead, ConcatProperties
  <2>4. CASE Len(more) >= entry.size
    <3>1. Cut(more) \in Seq(Byte)
      <4>1. entry.size \in Nat
        BY SlotTyped DEF IsSlot
      <4>. QED  BY <4>1, CutTyped
    <3>. QED  BY <1>1, <2>3, <2>4, <3>1 DEF ReadNext
  <2>5. CASE ~(Len(more) >= entry.size)
    <3>1. FatReadable(disk, fs, cluster) => NextCluster(disk, fs, cluster) \in Nat
      BY <2>2, LinkIsNext
    <3>. QED  BY <1>1, <2>3, <2>5, <3>1 DEF ReadNext
  <2>. QED  BY <2>4, <2>5
<1>2. CASE ReadOver
  BY <1>2 DEF ReadOver
<1>3. CASE QueueNext
  <2>1. CASE Runs(Commands[data[next]])
    <3>. DEFINE word == Commands[data[next]]
    <3>1. Named(word) \subseteq Nat /\ Named(word) # {}
          /\ Named(word) \subseteq 1 .. Len(entries)
      BY <2>1, LenProperties DEF Runs, Named
    <3>2. entries[Min(Named(word))] \in SlotsOf(image)
      <4>. HIDE DEF word
      <4>. QED  BY <3>1, MinOf, ElementOfSeq
    <3>. QED  BY <1>3, <2>1, <3>2 DEF QueueNext
  <2>2. CASE ~Runs(Commands[data[next]])
    BY <1>3, <2>2 DEF QueueNext
  <2>. QED  BY <2>1, <2>2
<1>4. CASE QueueOver
  <2>1. queue # <<>> => queue[1] \in SlotsOf(image)
    BY EmptySeq, ElementOfSeq
  <2>2. queue # <<>> => queue[1].cluster \in Nat
    BY <2>1, SlotTyped DEF IsSlot
  <2>3. <<>> \in Seq(Byte)
    BY EmptySeq
  <2>. QED  BY <1>4, <2>1, <2>2, <2>3 DEF QueueOver, StartReading
<1>. QED  BY <1>1, <1>2, <1>3, <1>4 DEF ReadStep

LEMMA LoadKeepsType == TypeInv /\ Load => TypeInv'
<1>. SUFFICES ASSUME TypeInv, Load  PROVE TypeInv'
  OBVIOUS
<1>. USE DEF TypeInv, DiskInv, FsInv, FilesInv, ReadInv, MachineInv, Pcs,
             OnDiskPcs, found, reading
<1>1. CASE ExecuteCom
  BY <1>1 DEF ExecuteCom
<1>2. CASE ExecuteMz
  BY <1>2 DEF ExecuteMz
<1>3. CASE ExecuteFails
  BY <1>3 DEF ExecuteFails
<1>4. CASE RelocateNext
  BY <1>4 DEF RelocateNext
<1>5. CASE Enter
  BY <1>5 DEF Enter
<1>. QED  BY <1>1, <1>2, <1>3, <1>4, <1>5 DEF Load

LEMMA TypeNext == TypeInv /\ [Next]_vars => TypeInv'
<1>1. TypeInv /\ UNCHANGED vars => TypeInv'
  BY DEF TypeInv, DiskInv, FsInv, FilesInv, ReadInv, MachineInv, vars, found,
         reading
<1>2. TypeInv /\ Over => TypeInv'
  BY <1>1 DEF Over
<1>. QED  BY <1>1, <1>2, OpenKeepsType, FindKeepsType, ListKeepsType,
             ReadKeepsType, LoadKeepsType DEF Next

LEMMA TypeAlways == Spec => []TypeInv
BY TypeInit, TypeNext, PTL DEF Spec

\* The table, the directory and the clusters of every file system that is found
\* lie one after the other (FatFileSystem::detect, disk/fat.rs).
THEOREM RegionsTheorem == Spec => []RegionsApart
<1>1. TypeInv => RegionsApart
  <2>. SUFFICES ASSUME TypeInv, fs # NoFs
                PROVE  fs.fat < fs.root /\ fs.root + DirectorySectors(fs) <= fs.data
    BY DEF RegionsApart
  <2>1. /\ disk = LoadDisk(image) /\ IsImageFile(image)
        /\ Detects(disk, lba) /\ fs = FsAt(disk, lba) /\ lba \in Nat
    BY DEF TypeInv, DiskInv, FsInv
  <2>2. IsBpb(disk.bpb[lba])
    BY <2>1, DiskTyped DEF Detects, IsImageFile
  <2>. QED  BY <2>1, <2>2, FsTyped
<1>. QED  BY <1>1, TypeAlways, PTL

-----------------------------------------------------------------------------
\* The words of a file, and the relocations of its table.

LEMMA WordOf ==
  ASSUME NEW d \in Seq(Byte), NEW i \in Nat, i + 2 <= Len(d)
  PROVE  WordAt(d, i) \in Word
<1>1. i + 1 \in 1 .. Len(d) /\ i + 2 \in 1 .. Len(d)
  BY LenProperties
<1>2. d[i + 1] \in Byte /\ d[i + 2] \in Byte
  BY <1>1, ElementOfSeq
<1>. QED  BY <1>2, Words DEF WordAt

\* A program that load_mz takes, and its load module.
LEMMA ModuleTyped ==
  ASSUME NEW d \in Seq(Byte), ~ShortHeader(d), ~NoModule(d)
  PROVE  LoadModule(d) \in Seq(Byte)
<1>1. Len(d) \in Nat /\ Len(d) >= 28
  BY LenProperties DEF ShortHeader
<1>2. WordAt(d, 2) \in Word /\ WordAt(d, 4) \in Word /\ WordAt(d, 8) \in Word
  BY <1>1, WordOf
<1>3. HeaderSize(d) \in Nat
  BY <1>2, WordRange DEF HeaderSize
<1>4. PICK w2 \in Word, w4 \in Word : w2 = WordAt(d, 2) /\ w4 = WordAt(d, 4)
  BY <1>2
<1>5. w2 \in Nat /\ w4 \in Nat
  BY WordRange
<1>6. FileSize(d) \in Int
  BY <1>4, <1>5 DEF FileSize
<1>7. PICK h \in Nat, n \in Nat : h = HeaderSize(d) /\ h + n = FileSize(d)
                                  /\ h + n <= Len(d)
  <2>1. HeaderSize(d) <= FileSize(d) /\ FileSize(d) <= Len(d)
    BY <1>1, <1>3, <1>6 DEF NoModule
  <2>2. FileSize(d) - HeaderSize(d) \in Nat
    BY <1>3, <1>6, <2>1
  <2>3. HeaderSize(d) + (FileSize(d) - HeaderSize(d)) = FileSize(d)
    BY <1>3, <1>6
  <2>. QED  BY <1>3, <2>1, <2>2, <2>3
<1>. QED  BY <1>7, Piece DEF LoadModule

LEMMA RelocsFinite ==
  ASSUME NEW n \in Nat, n = WordAt(data, 6)
  PROVE  /\ Relocs \subseteq Nat /\ IsFiniteSet(Relocs)
         /\ \A i \in Nat : HasReloc(data, i) => i \in Relocs
<1>1. IsFiniteSet(0 .. n - 1)
  BY FS_Interval
<1>2. Relocs \subseteq 0 .. n - 1
  BY DEF Relocs
<1>3. \A i \in Nat : HasReloc(data, i) => i \in Relocs
  BY DEF Relocs, HasReloc
<1>4. IsFiniteSet(Relocs)
  BY <1>1, <1>2, FS_Subset
<1>. HIDE DEF Relocs
<1>5. Relocs \subseteq Nat
  BY <1>2
<1>. QED  BY <1>3, <1>4, <1>5

\* The table ends at its first relocation that is not there.
LEMMA TableEnds ==
  ASSUME NEW r \in Nat, ~HasReloc(data, r), NEW i \in Relocs,
         data \in Seq(Byte), ~ShortHeader(data)
  PROVE  i < r
<1>1. Len(data) \in Nat /\ Len(data) >= 28
  BY LenProperties DEF ShortHeader
<1>2. WordAt(data, 6) \in Nat /\ WordAt(data, 24) \in Nat
  <2>1. 6 + 2 <= Len(data) /\ 24 + 2 <= Len(data)
    BY <1>1
  <2>2. WordAt(data, 6) \in Word /\ WordAt(data, 24) \in Word
    BY <2>1, WordOf
  <2>. QED  BY <2>2, WordInt
<1>3. i \in Nat /\ i < WordAt(data, 6) /\ WordAt(data, 24) + 4 * i + 4 <= Len(data)
  BY <1>2 DEF Relocs, HasReloc, RelocEntry
<1>. SUFFICES ASSUME r <= i  PROVE FALSE
  BY <1>3
<1>4. r < WordAt(data, 6) /\ WordAt(data, 24) + 4 * r + 4 <= Len(data)
  BY SMTT(60), <1>1, <1>2, <1>3
<1>. QED  BY <1>4 DEF HasReloc, RelocEntry

\* What the loader adds to a word is added to its high byte.
LEMMA AddLoadSeg ==
  ASSUME NEW lo \in Byte, NEW hi \in Byte
  PROVE  LET v == Wrap16(lo + 256 * hi + LoadSeg)
         IN v \in Word /\ Lo(v) = lo /\ Hi(v) = (hi + 16) % 256
<1>1. lo \in Nat /\ lo <= 255 /\ hi \in Nat /\ hi <= 255
  BY ByteRange
<1>2. CASE hi <= 239
  <2>1. Wrap16(lo + 256 * hi + LoadSeg) = lo + 256 * (hi + 16)
    BY <1>1, <1>2, SMTT(30) DEF Wrap16, WordSize, LoadSeg
  <2>2. hi + 16 \in Byte /\ (hi + 16) % 256 = hi + 16
    BY <1>1, <1>2, ByteRange
  <2>. QED  BY <1>1, <2>1, <2>2, Words, SMTT(30) DEF Lo, Hi
<1>3. CASE ~(hi <= 239)
  <2>1. Wrap16(lo + 256 * hi + LoadSeg) = lo + 256 * (hi - 240)
    BY <1>1, <1>3, SMTT(30) DEF Wrap16, WordSize, LoadSeg
  <2>2. hi - 240 \in Byte /\ (hi + 16) % 256 = hi - 240
    BY <1>1, <1>3, ByteRange
  <2>. QED  BY <1>1, <2>1, <2>2, Words, SMTT(30) DEF Lo, Hi
<1>. QED  BY <1>2, <1>3

-----------------------------------------------------------------------------
\* Bytes in memory from the load segment on: byte i is at address Place(i).
Place(i) == (Phys(LoadSeg, 0) + i) % MemSize
Laid(bytes) == LoadBytes(EmptyMem, Phys(LoadSeg, 0), bytes)

LEMMA LoadBase == Phys(LoadSeg, 0) = 65536 /\ MemSize = 16 * 65536
  BY SMT DEF Phys, LoadSeg, MemSize

\* A relocation names the word at its offset from the load segment.
LEMMA RelocPlace ==
  ASSUME NEW i, NEW seg \in Word, NEW off \in Word,
         seg = WordAt(data, RelocEntry(data, i) + 2),
         off = WordAt(data, RelocEntry(data, i))
  PROVE  RelocAddr(data, i) = Place(RelocOffset(i)) /\ RelocOffset(i) \in Nat
<1>1. seg \in Nat /\ off \in Nat
  BY WordInt
<1>2. RelocOffset(i) = 16 * seg + off
  BY DEF RelocOffset
<1>3. PICK w \in Int : w = LoadSeg + seg
  BY <1>1 DEF LoadSeg
<1>4. PICK q \in Int : Wrap16(w) = w - WordSize * q
  <2>1. WordSize \in Nat \ {0}
    BY WordSizeNat
  <2>. QED  BY <2>1, ModIs, Zenon DEF Wrap16
<1>5. MemSize * q = (WordSize * q) * 16
  <2>1. PICK n \in Int : n = WordSize
    BY WordSizeNat
  <2>2. (16 * n) * q = (n * q) * 16
    BY <2>1, Z3
  <2>3. MemSize = 16 * n
    BY <2>1, LoadBase DEF WordSize
  <2>. QED  BY <2>1, <2>2, <2>3, Zenon
<1>6. RelocAddr(data, i) = Phys(Wrap16(w), off)
  BY <1>3 DEF RelocAddr
<1>7. PICK x \in Int : x = Phys(LoadSeg, 0) + (16 * seg + off)
  BY <1>1, LoadBase
<1>8. PICK t \in Int : t = WordSize * q
  BY <1>4, WordSizeNat
<1>9. (w - t) * 16 + off = x - t * 16
  BY <1>1, <1>3, <1>7, LoadBase DEF LoadSeg
<1>10. RelocAddr(data, i) = (x - MemSize * q) % MemSize
  BY <1>4, <1>5, <1>6, <1>8, <1>9, Zenon DEF Phys
<1>11. (x - MemSize * q) % MemSize = x % MemSize
  <2>1. MemSize \in Nat \ {0}
    BY MemSizeNat
  <2>. QED  BY <2>1, ModLess, Zenon
<1>12. Place(RelocOffset(i)) = x % MemSize
  BY <1>2, <1>7, Zenon DEF Place
<1>13. RelocOffset(i) \in Nat
  BY <1>1, <1>2
<1>. QED  BY <1>10, <1>11, <1>12, <1>13, Zenon

LEMMA PlaceApart ==
  ASSUME NEW i \in Nat, NEW j \in Nat, i < MemSize, j < MemSize, i # j
  PROVE  Place(i) # Place(j)
<1>1. PICK x \in Int, y \in Int : x = Phys(LoadSeg, 0) + i /\ y = Phys(LoadSeg, 0) + j
  BY LoadBase
<1>2. x # y /\ x - y < MemSize /\ y - x < MemSize
  BY <1>1, LoadBase, MemSizeNat
<1>. QED  BY <1>1, <1>2, MemApart DEF Place

LEMMA PlaceFirst ==
  ASSUME NEW i \in Nat, i < MemSize
  PROVE  (Place(i) - Phys(LoadSeg, 0)) % MemSize = i /\ Place(i) \in Addr
<1>1. MemSize \in Nat \ {0} /\ i \in 0 .. MemSize - 1 /\ i \in Int
  BY MemSizeNat
<1>2. PICK b \in Int : b = Phys(LoadSeg, 0)
  BY LoadBase
<1>3. b + i \in Int
  OBVIOUS
<1>4. PICK q \in Int : (b + i) % MemSize = (b + i) - MemSize * q
  BY <1>1, <1>3, ModIs, Zenon
<1>5. ((b + i) - MemSize * q) - b = i - MemSize * q
  <2>1. PICK t \in Int : t = MemSize * q
    BY <1>1
  <2>. QED  BY <2>1
<1>6. (i - MemSize * q) % MemSize = i % MemSize
  BY <1>1, ModLess, Zenon
<1>7. i % MemSize = i
  BY <1>1, SmallMod, Zenon
<1>8. (b + i) % MemSize \in Addr
  BY <1>3, ModAddr, Zenon
<1>. QED  BY <1>2, <1>4, <1>5, <1>6, <1>7, <1>8, Zenon DEF Place

\* No more bytes than memory has are all where they were put.
LEMMA LaidBytes ==
  ASSUME NEW b \in Seq(Byte), Len(b) <= MemSize
  PROVE  /\ DOMAIN Laid(b) = {Place(i) : i \in 0 .. Len(b) - 1}
         /\ \A i \in 0 .. Len(b) - 1 : Laid(b)[Place(i)] = b[i + 1]
         /\ Laid(b) = [x \in DOMAIN Laid(b) |-> Laid(b)[x]]
<1>. DEFINE First(x) == (x - Phys(LoadSeg, 0)) % MemSize
            LastOf(x) == First(x) + MemSize * ((Len(b) - 1 - First(x)) \div MemSize)
            Target == {(Phys(LoadSeg, 0) + i) % MemSize : i \in 0 .. Len(b) - 1}
<1>1. Laid(b) = [x \in Target |-> IF First(x) < Len(b) THEN b[LastOf(x) + 1]
                                                       ELSE EmptyMem[x]]
  <2>1. Laid(b) = LoadBytes(EmptyMem, Phys(LoadSeg, 0), b)
    BY DEF Laid
  <2>2. DOMAIN EmptyMem \cup Target = Target
    BY DEF EmptyMem
  <2>. QED  BY <2>1, <2>2 DEF LoadBytes
<1>2. Target = {Place(i) : i \in 0 .. Len(b) - 1}
  BY DEF Place
<1>3. ASSUME NEW i \in 0 .. Len(b) - 1  PROVE Laid(b)[Place(i)] = b[i + 1]
  <2>1. i \in Nat /\ i < MemSize /\ Len(b) \in Nat /\ i < Len(b)
    BY LenProperties, MemSizeNat
  <2>2. First(Place(i)) = i
    BY <2>1, PlaceFirst
  <2>3. i + MemSize * ((Len(b) - 1 - i) \div MemSize) = i
    BY <2>1, LastBelow, MemSizeNat
  <2>4. Place(i) \in Target
    <3>. HIDE DEF Target
    <3>. QED  BY <1>2
  <2>. HIDE DEF Target
  <2>. QED  BY <1>1, <2>1, <2>2, <2>3, <2>4
<1>. HIDE DEF First, LastOf, Target
<1>. QED  BY <1>1, <1>2, <1>3

\* A word of the bytes.
LEMMA LaidWord ==
  ASSUME NEW b \in Seq(Byte), Len(b) <= MemSize, NEW o \in Nat, o + 1 < Len(b)
  PROVE  /\ (Place(o) + 1) % MemSize = Place(o + 1)
         /\ Place(o) # Place(o + 1)
         /\ ReadU16(Laid(b), Place(o)) = b[o + 1] + 256 * b[o + 2]
<1>1. /\ o \in 0 .. Len(b) - 1 /\ o + 1 \in 0 .. Len(b) - 1 /\ o + 1 \in Nat
      /\ o < MemSize /\ o + 1 < MemSize /\ o # o + 1
  BY LenProperties, MemSizeNat
<1>2. (Place(o) + 1) % MemSize = Place(o + 1)
  <2>1. PICK x \in Int : x = Phys(LoadSeg, 0) + o
    BY LoadBase
  <2>2. x + 1 = Phys(LoadSeg, 0) + (o + 1)
    BY <2>1, LoadBase
  <2>3. ((x % MemSize) + 1) % MemSize = (x + 1) % MemSize
    BY MemNext
  <2>. QED  BY <2>1, <2>2, <2>3 DEF Place
<1>3. Place(o) # Place(o + 1)
  BY <1>1, PlaceApart
<1>4. /\ DOMAIN Laid(b) = {Place(i) : i \in 0 .. Len(b) - 1}
      /\ \A i \in 0 .. Len(b) - 1 : Laid(b)[Place(i)] = b[i + 1]
  BY LaidBytes
<1>5. Place(o) \in DOMAIN Laid(b) /\ Place(o + 1) \in DOMAIN Laid(b)
  BY <1>1, <1>4
<1>6. Laid(b)[Place(o)] = b[o + 1] /\ Laid(b)[Place(o + 1)] = b[o + 2]
  <2>1. (o + 1) + 1 = o + 2
    OBVIOUS
  <2>. QED  BY <1>1, <1>4, <2>1
<1>7. ReadU16(Laid(b), Place(o))
         = ReadU8(Laid(b), Place(o)) + 256 * ReadU8(Laid(b), Place(o + 1))
  BY <1>2 DEF ReadU16
<1>. QED  BY <1>2, <1>3, <1>5, <1>6, <1>7 DEF ReadU8

\* A relocation in memory is a relocation of the bytes.
LEMMA RelocateLaid ==
  ASSUME NEW b \in Seq(Byte), Len(b) <= MemSize, NEW o \in Nat, o + 1 < Len(b)
  PROVE  WriteU16(Laid(b), Place(o),
                  Wrap16(ReadU16(Laid(b), Place(o)) + LoadSeg))
           = Laid([b EXCEPT ![o + 2] = (b[o + 2] + 16) % 256])
<1>. DEFINE c == [b EXCEPT ![o + 2] = (b[o + 2] + 16) % 256]
<1>1. /\ o + 1 \in 1 .. Len(b) /\ o + 2 \in 1 .. Len(b)
      /\ o \in 0 .. Len(b) - 1 /\ o + 1 \in 0 .. Len(b) - 1
      /\ o < MemSize /\ o + 1 < MemSize /\ Len(b) \in Nat
  BY LenProperties, MemSizeNat
<1>2. b[o + 1] \in Byte /\ b[o + 2] \in Byte
  BY <1>1, ElementOfSeq
<1>3. (b[o + 2] + 16) % 256 \in Byte
  <2>1. \A x \in Int : (x + 16) % 256 \in Byte
    BY ByteRange
  <2>2. b[o + 2] \in Int
    BY <1>2, ByteRange, Zenon
  <2>. QED  BY <2>1, <2>2, Zenon
<1>4. c \in Seq(Byte) /\ Len(c) = Len(b)
  BY <1>1, <1>3, ExceptSeq
<1>5. PICK v \in Word : /\ v = Wrap16(ReadU16(Laid(b), Place(o)) + LoadSeg)
                        /\ Lo(v) = b[o + 1] /\ Hi(v) = (b[o + 2] + 16) % 256
  <2>1. ReadU16(Laid(b), Place(o)) = b[o + 1] + 256 * b[o + 2]
    BY LaidWord
  <2>. QED  BY <1>2, <2>1, AddLoadSeg
<1>6. /\ (Place(o) + 1) % MemSize = Place(o + 1) /\ Place(o) # Place(o + 1)
  BY LaidWord
<1>7. /\ DOMAIN Laid(b) = {Place(i) : i \in 0 .. Len(b) - 1}
      /\ \A i \in 0 .. Len(b) - 1 : Laid(b)[Place(i)] = b[i + 1]
  BY LaidBytes
<1>8. /\ DOMAIN Laid(c) = {Place(i) : i \in 0 .. Len(b) - 1}
      /\ \A i \in 0 .. Len(b) - 1 : Laid(c)[Place(i)] = c[i + 1]
      /\ Laid(c) = [x \in DOMAIN Laid(c) |-> Laid(c)[x]]
  <2>. HIDE DEF c
  <2>. QED  BY <1>4, LaidBytes
<1>9. Place(o) \in DOMAIN Laid(b) /\ Place(o + 1) \in DOMAIN Laid(b)
  BY <1>1, <1>7
<1>10. WriteU16(Laid(b), Place(o), v)
         = [x \in DOMAIN Laid(b) |-> IF x = Place(o + 1) THEN Hi(v)
                                     ELSE IF x = Place(o) THEN Lo(v) ELSE Laid(b)[x]]
  <2>1. PICK m, p, q : m = Laid(b) /\ p = Place(o) /\ q = Place(o + 1)
    OBVIOUS
  <2>2. p \in DOMAIN m /\ q \in DOMAIN m /\ (p + 1) % MemSize = q /\ p # q
    BY <1>6, <1>9, <2>1, Zenon
  <2>3. WriteU16(m, p, v) = [x \in DOMAIN m |-> IF x = q THEN Hi(v)
                                      ELSE IF x = p THEN Lo(v) ELSE m[x]]
    BY <2>2 DEF WriteU16, WriteU8
  <2>. QED  BY <2>1, <2>3, Zenon
<1>11. ASSUME NEW i \in 0 .. Len(b) - 1
       PROVE  Laid(c)[Place(i)] = IF Place(i) = Place(o + 1) THEN Hi(v)
                                  ELSE IF Place(i) = Place(o) THEN Lo(v)
                                  ELSE Laid(b)[Place(i)]
  <2>1. i \in Nat /\ i < MemSize /\ o + 1 \in Nat /\ i + 1 \in 1 .. Len(b)
    BY <1>1, MemSizeNat
  <2>2. Place(i) = Place(o + 1) <=> i = o + 1
    BY <1>1, <2>1, PlaceApart
  <2>3. Place(i) = Place(o) <=> i = o
    BY <1>1, <2>1, PlaceApart
  <2>4. Laid(c)[Place(i)] = c[i + 1] /\ Laid(b)[Place(i)] = b[i + 1]
    BY <1>7, <1>8
  <2>5. c[i + 1] = IF i + 1 = o + 2 THEN (b[o + 2] + 16) % 256 ELSE b[i + 1]
    <3>1. i + 1 \in DOMAIN b
      BY <2>1, SeqDef
    <3>. QED  BY <3>1
  <2>6. (i + 1 = o + 2 <=> i = o + 1) /\ (i = o => i + 1 = o + 1)
    BY <2>1
  <2>. HIDE DEF c
  <2>. QED  BY <1>5, <2>2, <2>3, <2>4, <2>5, <2>6
<1>. HIDE DEF c
<1>12. \A x \in DOMAIN Laid(b) :
         Laid(c)[x] = IF x = Place(o + 1) THEN Hi(v)
                      ELSE IF x = Place(o) THEN Lo(v) ELSE Laid(b)[x]
  BY <1>7, <1>11, Zenon
<1>13. DOMAIN Laid(c) = DOMAIN Laid(b)
  BY <1>7, <1>8, Zenon
<1>14. WriteU16(Laid(b), Place(o), v) = Laid(c)
  BY <1>8, <1>10, <1>12, <1>13, Zenon
<1>15. Laid(c) = Laid([b EXCEPT ![o + 2] = (b[o + 2] + 16) % 256])
  BY Zenon DEF c
<1>. QED  BY <1>5, <1>14, <1>15, Zenon

-----------------------------------------------------------------------------
LEMMA ModByte == ASSUME NEW x \in Int PROVE x % 256 \in Byte
<1>1. x % 256 \in Int /\ 0 <= x % 256 /\ x % 256 <= 255
  OBVIOUS
<1>. QED  BY <1>1, ByteRange

\* The load module with the relocations before number n applied.
Partial(n) ==
  [k \in DOMAIN LoadModule(data) |->
     (LoadModule(data)[k]
        + 16 * Cardinality({i \in Relocs : i < n /\ RelocOffset(i) + 2 = k})) % 256]

LEMMA PartialTyped ==
  ASSUME data \in Seq(Byte), ~ShortHeader(data), ~NoModule(data), NEW n \in Nat
  PROVE  /\ Partial(n) \in Seq(Byte) /\ Len(Partial(n)) = Len(LoadModule(data))
         /\ Partial(0) = LoadModule(data)
<1>. DEFINE m == LoadModule(data)
            Before(j, k) == {i \in Relocs : i < j /\ RelocOffset(i) + 2 = k}
<1>1. m \in Seq(Byte) /\ DOMAIN m = 1 .. Len(m) /\ Len(m) \in Nat
      /\ \A k \in 1 .. Len(m) : m[k] \in Byte
  BY ModuleTyped, LenProperties, ElementOfSeq
<1>2. PICK w \in Nat : w = WordAt(data, 6)
  <2>1. Len(data) \in Nat /\ 6 + 2 <= Len(data)
    BY LenProperties DEF ShortHeader
  <2>. QED  BY <2>1, WordOf, WordInt
<1>3. IsFiniteSet(Relocs) /\ Relocs \subseteq Nat
  BY <1>2, RelocsFinite
<1>4. \A j, k : Cardinality(Before(j, k)) \in Nat
  BY <1>3, FS_Subset, FS_CardinalityType
<1>5. ASSUME NEW k \in 1 .. Len(m)
      PROVE  (m[k] + 16 * Cardinality(Before(n, k))) % 256 \in Byte
  <2>1. m[k] \in Int /\ Cardinality(Before(n, k)) \in Nat
    BY <1>1, <1>4, ByteRange
  <2>. HIDE DEF m, Before
  <2>2. PICK x \in Int : x = m[k] + 16 * Cardinality(Before(n, k))
    BY <2>1
  <2>. QED  BY <2>2, ModByte
<1>6. Partial(n) = [k \in 1 .. Len(m) |-> (m[k] + 16 * Cardinality(Before(n, k))) % 256]
  BY <1>1 DEF Partial
<1>7. Partial(n) \in Seq(Byte) /\ Len(Partial(n)) = Len(m)
  <2>. HIDE DEF m, Before
  <2>1. Partial(n) \in [1 .. Len(m) -> Byte]
    BY <1>5, <1>6
  <2>. QED  BY <1>1, <2>1, SeqDef, LenProperties
<1>8. Partial(0) = m
  <2>1. \A k : Before(0, k) = {}
    <3>1. \A i \in Relocs : ~(i < 0)
      BY <1>3
    <3>. QED  BY <3>1, Zenon
  <2>2. ASSUME NEW k \in 1 .. Len(m)
        PROVE  (m[k] + 16 * Cardinality(Before(0, k))) % 256 = m[k]
    <3>1. Cardinality(Before(0, k)) = 0
      BY <2>1, FS_EmptySet
    <3>2. PICK x \in Byte : x = m[k]
      BY <1>1
    <3>3. x + 16 * 0 = x /\ x % 256 = x
      BY SMTT(60), ByteRange
    <3>. HIDE DEF m, Before
    <3>. QED  BY <3>1, <3>2, <3>3
  <2>3. Partial(0) = [k \in 1 .. Len(m) |-> (m[k] + 16 * Cardinality(Before(0, k))) % 256]
    BY <1>1 DEF Partial
  <2>4. m = [k \in 1 .. Len(m) |-> m[k]]
    BY <1>1
  <2>. HIDE DEF m, Before
  <2>. QED  BY <2>2, <2>3, <2>4
<1>. QED  BY <1>7, <1>8

\* One more relocation changes one byte of it.
LEMMA PartialNext ==
  ASSUME data \in Seq(Byte), ~ShortHeader(data), ~NoModule(data),
         NEW n \in Nat, HasReloc(data, n), RelocOffset(n) \in Nat,
         RelocOffset(n) + 1 < Len(LoadModule(data))
  PROVE  LET k == RelocOffset(n) + 2
         IN Partial(n + 1) = [Partial(n) EXCEPT ![k] = (Partial(n)[k] + 16) % 256]
<1>. DEFINE m == LoadModule(data)
            K == RelocOffset(n) + 2
            Before(j, k) == {i \in Relocs : i < j /\ RelocOffset(i) + 2 = k}
            Sum(j, k) == m[k] + 16 * Cardinality(Before(j, k))
<1>1. m \in Seq(Byte) /\ DOMAIN m = 1 .. Len(m) /\ Len(m) \in Nat
      /\ \A k \in 1 .. Len(m) : m[k] \in Byte
  BY ModuleTyped, LenProperties, ElementOfSeq
<1>2. PICK w \in Nat : w = WordAt(data, 6)
  <2>1. Len(data) \in Nat /\ 6 + 2 <= Len(data)
    BY LenProperties DEF ShortHeader
  <2>. QED  BY <2>1, WordOf, WordInt
<1>3. IsFiniteSet(Relocs) /\ Relocs \subseteq Nat /\ n \in Relocs
  BY <1>2, RelocsFinite
<1>4. \A k : IsFiniteSet(Before(n, k)) /\ Cardinality(Before(n, k)) \in Nat
  BY <1>3, FS_Subset, FS_CardinalityType
<1>5. Before(n + 1, K) = Before(n, K) \cup {n} /\ n \notin Before(n, K)
  <2>1. \A i \in Relocs : i < n + 1 <=> i < n \/ i = n
    BY <1>3
  <2>2. ~(n < n)
    OBVIOUS
  <2>. QED  BY <1>3, <2>1, <2>2
<1>6. Cardinality(Before(n + 1, K)) = Cardinality(Before(n, K)) + 1
  <2>. HIDE DEF Before
  <2>. QED  BY <1>4, <1>5, FS_AddElement
<1>7. \A k : k # K => Before(n + 1, k) = Before(n, k)
  <2>1. \A i \in Relocs : i < n + 1 <=> i < n \/ i = n
    BY <1>3
  <2>. QED  BY <2>1
<1>8. K \in 1 .. Len(m)
  BY <1>1
<1>9. Partial(n) = [k \in 1 .. Len(m) |-> Sum(n, k) % 256]
      /\ Partial(n + 1) = [k \in 1 .. Len(m) |-> Sum(n + 1, k) % 256]
  BY <1>1 DEF Partial
<1>10. Sum(n + 1, K) % 256 = ((Sum(n, K) % 256) + 16) % 256
  <2>. HIDE DEF Before
  <2>1. m[K] \in Int
    BY <1>1, <1>8, ByteRange
  <2>2. PICK a \in Int, c \in Nat : a = m[K] /\ c = Cardinality(Before(n, K))
    BY <1>4, <2>1
  <2>3. a + 16 * (c + 1) = (a + 16 * c) + 16
    OBVIOUS
  <2>4. Sum(n, K) = a + 16 * c /\ Sum(n + 1, K) = (a + 16 * c) + 16
    BY <1>6, <2>2, <2>3
  <2>5. a + 16 * c \in Int
    OBVIOUS
  <2>. QED  BY <2>4, <2>5, ModAdd
<1>11. \A k : k # K => Sum(n + 1, k) = Sum(n, k)
  <2>. HIDE DEF Before
  <2>. QED  BY <1>7
<1>. HIDE DEF Sum
<1>12. Partial(n)[K] = Sum(n, K) % 256
  BY <1>8, <1>9
<1>. HIDE DEF m, K
<1>13. Partial(n + 1) = [Partial(n) EXCEPT ![K] = (Partial(n)[K] + 16) % 256]
  <2>1. PICK f, g, v : /\ f = Partial(n) /\ g = Partial(n + 1)
                       /\ v = (Partial(n)[K] + 16) % 256
    OBVIOUS
  <2>. DEFINE A(k) == Sum(n, k) % 256
              B(k) == Sum(n + 1, k) % 256
              D == 1 .. Len(m)
  <2>2. v = B(K) /\ K \in D
    BY <1>8, <1>10, <1>12, <2>1
  <2>3. \A k : k # K => B(k) = A(k)
    BY <1>11, Zenon
  <2>4. f = [k \in D |-> A(k)] /\ g = [k \in D |-> B(k)]
    BY <1>9, <2>1, Zenon
  <2>5. g = [f EXCEPT ![K] = v]
    <3>. HIDE DEF A, B, D
    <3>. QED  BY <2>2, <2>3, <2>4
  <2>. QED  BY <2>1, <2>5, Zenon
<1>. QED  BY <1>13 DEF K

\* The table has been read: every relocation is applied.
LEMMA PartialLast ==
  ASSUME data \in Seq(Byte), ~ShortHeader(data), NEW n \in Nat, ~HasReloc(data, n)
  PROVE  Partial(n) = Relocated
<1>1. \A i \in Relocs : i < n
  BY TableEnds
<1>2. \A k : {i \in Relocs : i < n /\ RelocOffset(i) + 2 = k}
               = {i \in Relocs : RelocOffset(i) + 2 = k}
  BY <1>1, Zenon
<1>. QED  BY <1>2, Zenon DEF Partial, Relocated

\* Nothing but reading changes what is read.
LEMMA SameData ==
  ASSUME data' = data
  PROVE  /\ RelocsInside' = RelocsInside /\ Relocated' = Relocated
         /\ Partial(reloc)' = Partial(reloc')
<1>1. Relocs' = Relocs /\ \A i : RelocOffset(i)' = RelocOffset(i)
  BY DEF Relocs, RelocOffset
<1>2. RelocsInside' = RelocsInside
  BY <1>1 DEF RelocsInside
<1>3. Relocated' = Relocated
  BY <1>1 DEF Relocated
<1>4. Partial(reloc)' = Partial(reloc')
  BY <1>1 DEF Partial
<1>. QED  BY <1>2, <1>3, <1>4

-----------------------------------------------------------------------------
\* What the machine holds while a program is relocated and once it is ready.
ModuleAt(bytes) == [Blank0 EXCEPT !.mem = Laid(bytes)]

RelocateInv ==
  pc = "relocate" =>
    /\ IsMz(data) /\ ~ShortHeader(data) /\ ~NoModule(data)
    /\ RelocsInside => machine = ModuleAt(Partial(reloc))

BootDone ==
  /\ ~image.exe /\ fs = NoFs
  /\ machine = With8(LoadBootSector(Blank0, ReadSectors(disk, 0, 1)), DL, 128)
ComDone ==
  /\ ~image.exe /\ fs # NoFs /\ ~IsMz(data)
  /\ machine = Ready(LoadCom(Blank0, [code |-> data]))
MzDone ==
  /\ image.exe \/ fs # NoFs
  /\ IsMz(data) /\ ~ShortHeader(data) /\ ~NoModule(data)
  /\ RelocsInside =>
       machine = Ready([ModuleAt(Relocated) EXCEPT !.regs = EntryRegs(@, data)])

DoneInv == pc = "done" => BootDone \/ ComDone \/ MzDone
PanicInv ==
  pc = "panicked" /\ data # <<>> => IsMz(data) /\ ~ShortHeader(data) /\ NoModule(data)

LoadInv == RelocateInv /\ DoneInv /\ PanicInv

LEMMA ExecuteLoads ==
  TypeInv /\ LoadInv /\ (ExecuteCom \/ ExecuteMz \/ ExecuteFails) => LoadInv'
<1>. SUFFICES ASSUME TypeInv, LoadInv, ExecuteCom \/ ExecuteMz \/ ExecuteFails
              PROVE  LoadInv'
  OBVIOUS
<1>1. pc = "execute" /\ machine = Blank0 /\ (image.exe \/ fs # NoFs)
      /\ data \in Seq(Byte)
  BY DEF TypeInv, FsInv, MachineInv, ReadInv, ExecuteCom, ExecuteMz, ExecuteFails
<1>2. data' = data /\ image' = image /\ fs' = fs
  BY DEF ExecuteCom, ExecuteMz, ExecuteFails, found, reading
<1>3. CASE ExecuteCom
  <2>1. pc' = "done" /\ ~image.exe /\ ~IsMz(data)
        /\ machine' = Ready(LoadCom(machine, [code |-> data]))
    BY <1>3 DEF ExecuteCom
  <2>2. machine' = Ready(LoadCom(Blank0, [code |-> data]))'
    BY <1>1, <1>2, <2>1 DEF Ready
  <2>3. ComDone'
    BY <1>1, <1>2, <2>1, <2>2 DEF ComDone
  <2>. QED  BY <2>1, <2>3 DEF LoadInv, RelocateInv, DoneInv, PanicInv
<1>4. CASE ExecuteMz
  <2>1. /\ pc' = "relocate" /\ reloc' = 0 /\ machine' = LoadImage(machine, data)
        /\ IsMz(data) /\ ~ShortHeader(data) /\ ~NoModule(data)
    BY <1>4 DEF ExecuteMz
  <2>2. Partial(0) = LoadModule(data)
    BY <1>1, <2>1, PartialTyped
  <2>3. machine' = ModuleAt(Partial(0))
    BY <1>1, <2>1, <2>2 DEF LoadImage, ModuleAt, Laid, Blank0
  <2>4. Partial(reloc)' = Partial(0)
    BY <1>2, <2>1, SameData
  <2>5. ModuleAt(Partial(reloc))' = ModuleAt(Partial(0))
    BY <2>4 DEF ModuleAt
  <2>6. RelocateInv'
    BY <1>2, <2>1, <2>3, <2>5 DEF RelocateInv
  <2>. QED  BY <2>1, <2>6 DEF LoadInv, DoneInv, PanicInv
<1>5. CASE ExecuteFails
  <2>1. pc' = "failed" \/ (/\ pc' = "panicked" /\ IsMz(data)
                           /\ ~ShortHeader(data) /\ NoModule(data))
    BY <1>5 DEF ExecuteFails
  <2>. QED  BY <1>2, <2>1 DEF LoadInv, RelocateInv, DoneInv, PanicInv
<1>. QED  BY <1>3, <1>4, <1>5

LEMMA RelocateStep ==
  TypeInv /\ LoadInv /\ RelocateNext => LoadInv'
<1>. SUFFICES ASSUME TypeInv, LoadInv, RelocateNext  PROVE LoadInv'
  OBVIOUS
<1>1. /\ pc = "relocate" /\ pc' = "relocate" /\ data' = data
      /\ HasReloc(data, reloc) /\ reloc' = reloc + 1
      /\ machine' = Relocate(machine, data, reloc)
  BY DEF RelocateNext, reading
<1>2. /\ data \in Seq(Byte) /\ reloc \in Nat
      /\ IsMz(data) /\ ~ShortHeader(data) /\ ~NoModule(data)
      /\ RelocsInside => machine = ModuleAt(Partial(reloc))
  BY <1>1 DEF TypeInv, ReadInv, LoadInv, RelocateInv
<1>3. ASSUME RelocsInside
      PROVE  machine' = ModuleAt(Partial(reloc + 1))
  <2>1. PICK w \in Nat : w = WordAt(data, 6)
    <3>1. Len(data) \in Nat /\ 6 + 2 <= Len(data)
      BY <1>2, LenProperties DEF ShortHeader
    <3>. QED  BY <1>2, <3>1, WordOf, WordInt
  <2>2. reloc \in Relocs
    BY <1>1, <1>2, <2>1, RelocsFinite
  <2>3. PICK seg \in Word, off \in Word :
          /\ seg = WordAt(data, RelocEntry(data, reloc) + 2)
          /\ off = WordAt(data, RelocEntry(data, reloc))
    <3>1. Len(data) \in Nat /\ 24 + 2 <= Len(data)
      BY <1>2, LenProperties DEF ShortHeader
    <3>2. WordAt(data, 24) \in Nat
      BY <1>2, <3>1, WordOf, WordInt
    <3>3. PICK e \in Nat : e = RelocEntry(data, reloc)
      BY <1>2, <3>2 DEF RelocEntry
    <3>4. e + 4 <= Len(data)
      BY <1>1, <3>3 DEF HasReloc
    <3>5. e + 2 \in Nat /\ (e + 2) + 2 <= Len(data) /\ e + 2 <= Len(data)
      BY <3>1, <3>4
    <3>6. WordAt(data, e) \in Word /\ WordAt(data, e + 2) \in Word
      BY <1>2, <3>5, WordOf
    <3>. QED  BY <3>3, <3>6
  <2>4. PICK o \in Nat : /\ o = RelocOffset(reloc)
                         /\ RelocAddr(data, reloc) = Place(o)
    BY <2>3, RelocPlace
  <2>5. /\ Len(LoadModule(data)) <= MemSize
        /\ o + 1 < Len(LoadModule(data))
    BY <1>3, <2>2, <2>4 DEF RelocsInside
  <2>6. PICK b \in Seq(Byte) : b = Partial(reloc) /\ Len(b) = Len(LoadModule(data))
    BY <1>2, PartialTyped
  <2>7. Partial(reloc + 1) = [b EXCEPT ![o + 2] = (b[o + 2] + 16) % 256]
    BY <1>1, <1>2, <2>4, <2>5, <2>6, PartialNext
  <2>8. Len(b) <= MemSize /\ o + 1 < Len(b)
    BY <2>5, <2>6
  <2>9. WriteU16(Laid(b), Place(o), Wrap16(ReadU16(Laid(b), Place(o)) + LoadSeg))
          = Laid(Partial(reloc + 1))
    BY <2>7, <2>8, RelocateLaid
  <2>10. machine = ModuleAt(b)
    BY <1>2, <1>3, <2>6
  <2>11. Relocate(machine, data, reloc)
           = [machine EXCEPT !.mem = WriteU16(@, Place(o),
                               Wrap16(ReadU16(@, Place(o)) + LoadSeg))]
    BY <2>4, Zenon DEF Relocate
  <2>12. Relocate(machine, data, reloc) = ModuleAt(Partial(reloc + 1))
    BY <2>9, <2>10, <2>11 DEF ModuleAt, Blank0
  <2>. QED  BY <1>1, <2>12
<1>4. RelocsInside' = RelocsInside /\ Partial(reloc)' = Partial(reloc + 1)
  BY <1>1, SameData
<1>5. ModuleAt(Partial(reloc))' = ModuleAt(Partial(reloc + 1))
  BY <1>4 DEF ModuleAt
<1>6. RelocateInv'
  BY <1>1, <1>2, <1>3, <1>4, <1>5 DEF RelocateInv
<1>. QED  BY <1>1, <1>6 DEF LoadInv, DoneInv, PanicInv

LEMMA EnterLoads ==
  TypeInv /\ LoadInv /\ Enter => LoadInv'
<1>. SUFFICES ASSUME TypeInv, LoadInv, Enter  PROVE LoadInv'
  OBVIOUS
<1>1. /\ pc = "relocate" /\ pc' = "done" /\ data' = data
      /\ ~HasReloc(data, reloc) /\ image' = image /\ fs' = fs
      /\ machine' = Ready([machine EXCEPT !.regs = EntryRegs(@, data)])
  BY DEF Enter, reading, found
<1>2. /\ data \in Seq(Byte) /\ reloc \in Nat
      /\ IsMz(data) /\ ~ShortHeader(data) /\ ~NoModule(data)
      /\ RelocsInside => machine = ModuleAt(Partial(reloc))
      /\ image.exe \/ fs # NoFs
  BY <1>1 DEF TypeInv, ReadInv, FsInv, LoadInv, RelocateInv
<1>3. Partial(reloc) = Relocated
  BY <1>1, <1>2, PartialLast
<1>4. RelocsInside' = RelocsInside /\ Relocated' = Relocated
  BY <1>1, SameData
<1>5. [ModuleAt(Relocated) EXCEPT !.regs = EntryRegs(@, data)]'
        = [ModuleAt(Relocated) EXCEPT !.regs = EntryRegs(@, data)]
  BY <1>1, <1>4, Zenon DEF ModuleAt
<1>6. \A s : Ready(s)' = Ready(s)
  BY <1>1 DEF Ready
<1>7. MzDone'
  BY <1>1, <1>2, <1>3, <1>4, <1>5, <1>6 DEF MzDone
<1>. QED  BY <1>1, <1>7 DEF LoadInv, RelocateInv, DoneInv, PanicInv

LEMMA LoadInit == Init => LoadInv
BY DEF Init, LoadInv, RelocateInv, DoneInv, PanicInv

LEMMA LoadNext == TypeInv /\ LoadInv /\ [Next]_vars => LoadInv'
<1>1. ASSUME TypeInv, LoadInv, Open \/ Find \/ List \/ ReadStep
      PROVE  LoadInv'
  <2>1. CASE BootSector
    <3>1. /\ pc = "boot" /\ image' = image /\ fs' = fs /\ disk' = disk
          /\ pc' = "failed"
             \/ (/\ pc' = "done"
                 /\ machine' = With8(LoadBootSector(machine, ReadSectors(disk, 0, 1)),
                                     DL, 128))
      BY <2>1 DEF BootSector, found
    <3>2. ~image.exe /\ fs = NoFs /\ machine = Blank0
      BY <1>1, <3>1 DEF TypeInv, DiskInv, FsInv, MachineInv, OnDiskPcs
    <3>3. pc' = "done" => BootDone'
      BY <3>1, <3>2 DEF BootDone
    <3>. QED  BY <3>1, <3>3 DEF LoadInv, RelocateInv, DoneInv, PanicInv
  <2>2. CASE OpenFails
    <3>1. pc = "open" /\ pc' \in {"failed", "panicked"} /\ data' = data
      BY <2>2 DEF OpenFails, reading
    <3>2. data = <<>>
      BY <1>1, <3>1 DEF TypeInv, ReadInv
    <3>. QED  BY <3>1, <3>2 DEF LoadInv, RelocateInv, DoneInv, PanicInv
  <2>3. CASE OpenExe \/ OpenDisk \/ Scan \/ NotDetected \/ List \/ ReadStep
    <3>1. TypeInv'
      BY <1>1, TypeNext DEF Next
    <3>2. pc' \notin {"relocate", "done", "panicked"}
      BY <1>1, <2>3 DEF TypeInv, DiskInv, OpenExe, OpenDisk, Scan, NotDetected,
         List, ListNext, ListOver, ListFails, StartReading, ReadStep, ReadNext,
         ReadOver, AfterRead, QueueNext, QueueOver
    <3>. QED  BY <3>2 DEF LoadInv, RelocateInv, DoneInv, PanicInv
  <2>. QED  BY <1>1, <2>1, <2>2, <2>3 DEF Open, Find
<1>2. ASSUME TypeInv, LoadInv, UNCHANGED vars  PROVE LoadInv'
  <2>1. /\ pc' = pc /\ data' = data /\ image' = image /\ fs' = fs
        /\ disk' = disk /\ machine' = machine /\ reloc' = reloc
    BY <1>2 DEF vars, found, reading
  <2>2. RelocsInside' = RelocsInside /\ Relocated' = Relocated
        /\ Partial(reloc)' = Partial(reloc)
    BY <2>1, SameData
  <2>3. RelocateInv'
    BY <1>2, <2>1, <2>2 DEF LoadInv, RelocateInv, ModuleAt
  <2>4. \A s : Ready(s)' = Ready(s)
    BY <2>1 DEF Ready
  <2>5. BootDone' = BootDone /\ ComDone' = ComDone
    BY <2>1, <2>4 DEF BootDone, ComDone
  <2>6. MzDone' = MzDone
    BY <2>1, <2>2, <2>4 DEF MzDone, ModuleAt
  <2>. QED  BY <1>2, <2>1, <2>3, <2>5, <2>6 DEF LoadInv, DoneInv, PanicInv
<1>3. TypeInv /\ LoadInv /\ Over => LoadInv'
  BY <1>2 DEF Over
<1>. QED  BY <1>1, <1>2, <1>3, ExecuteLoads, RelocateStep, EnterLoads DEF Next, Load

LEMMA LoadAlways == Spec => [](TypeInv /\ LoadInv)
<1>1. Init => TypeInv /\ LoadInv
  BY TypeInit, LoadInit
<1>2. (TypeInv /\ LoadInv) /\ [Next]_vars => (TypeInv /\ LoadInv)'
  BY TypeNext, LoadNext
<1>. QED  BY <1>1, <1>2, PTL DEF Spec

\* The start values of an MZ program are what load_mz takes from its header.
LEMMA EntryIsBoot ==
  ASSUME NEW p, p.code = Relocated, p.cs = WordAt(data, 22), p.ip = WordAt(data, 20),
         p.ss = WordAt(data, 14), p.sp = WordAt(data, 16)
  PROVE  [ModuleAt(Relocated) EXCEPT !.regs = EntryRegs(@, data)] = LoadMz(Blank0, p)
BY DEF ModuleAt, Laid, LoadMz, EntryRegs, Blank0

\* Runtime::new implements module Boot, whatever the image: it leaves the machine
\* Boot has for the program read, one relocation at a time or all at once, and
\* fails on the programs Loader says (runtime/mod.rs, cpu/mz.rs).
THEOREM StartsTheorem == Spec => []StartsAsBoot
<1>1. ASSUME TypeInv, LoadInv, pc = "done"
      PROVE  /\ (KindOf = "MZ" => RelocsInside) => machine = Booted(BootRecord)
             /\ BootRecord.kind # "boot" => Loads(Program)
  <2>1. image.exe => fs = NoFs
    BY <1>1 DEF TypeInv, FsInv
  <2>2. BootRecord.kind = IF image.exe THEN "exe" ELSE IF fs = NoFs THEN "boot" ELSE "fat"
    BY DEF BootRecord
  <2>3. CASE BootDone
    <3>1. BootRecord.kind = "boot" /\ BootRecord.disk.data = disk.data
      BY <2>2, <2>3 DEF BootDone, BootRecord
    <3>2. ReadSectors(BootRecord.disk, 0, 1) = ReadSectors(disk, 0, 1)
      BY <3>1, Zenon DEF ReadSectors
    <3>3. Booted(BootRecord)
            = With8(LoadBootSector(Blank0, ReadSectors(BootRecord.disk, 0, 1)), DL, 128)
      BY <3>1 DEF Booted
    <3>. QED  BY <2>3, <3>1, <3>2, <3>3 DEF BootDone
  <2>4. ASSUME ~image.exe, fs # NoFs
        PROVE  Booted(BootRecord) = With8(ExecuteBinary(Blank0, Program), DL, 128)
    <3>1. BootRecord.kind = "fat"
      BY <2>2, <2>4
    <3>2. BootRecord.disk.files[BootRecord.queue[1]] = Program
      BY DEF BootRecord
    <3>. QED  BY <3>1, <3>2 DEF Booted
  <2>5. CASE ComDone
    <3>1. KindOf = "COM" /\ ~image.exe /\ fs # NoFs
      BY <2>5 DEF ComDone, KindOf
    <3>2. Program.kind = "COM" /\ Program.code = data
      BY <3>1 DEF Program
    <3>3. ExecuteBinary(Blank0, Program) = LoadCom(Blank0, [code |-> data])
      BY <3>2 DEF ExecuteBinary, LoadCom
    <3>4. machine = With8(LoadCom(Blank0, [code |-> data]), DL, 128)
      BY <2>5, <3>1 DEF ComDone, Ready
    <3>. QED  BY <2>4, <3>1, <3>2, <3>3, <3>4 DEF Loads
  <2>6. CASE MzDone
    <3>1. KindOf = "MZ"
      BY <2>6 DEF MzDone, KindOf
    <3>2. /\ Program.kind = "MZ" /\ Program.code = Relocated
          /\ Program.cs = WordAt(data, 22) /\ Program.ip = WordAt(data, 20)
          /\ Program.ss = WordAt(data, 14) /\ Program.sp = WordAt(data, 16)
      BY <3>1 DEF Program
    <3>3. RelocsInside => machine = Ready(LoadMz(Blank0, Program))
      BY <2>6, <3>2, EntryIsBoot DEF MzDone
    <3>4. CASE image.exe
      <4>1. BootRecord.kind = "exe" /\ BootRecord.program = Program
        BY <2>2, <3>4 DEF BootRecord
      <4>2. Booted(BootRecord) = LoadMz(Blank0, Program)
        BY <4>1 DEF Booted
      <4>. QED  BY <3>1, <3>2, <3>3, <3>4, <4>2 DEF Ready, Loads
    <3>5. CASE ~image.exe
      <4>1. Booted(BootRecord) = With8(LoadMz(Blank0, Program), DL, 128)
        BY <2>4, <2>6, <3>2, <3>5 DEF MzDone, ExecuteBinary
      <4>. QED  BY <3>1, <3>2, <3>3, <3>5, <4>1 DEF Ready, Loads
    <3>. QED  BY <3>4, <3>5
  <2>. QED  BY <1>1, <2>3, <2>5, <2>6 DEF LoadInv, DoneInv
<1>2. ASSUME LoadInv, pc = "panicked", data # <<>>  PROVE LoadPanics(Program)
  <2>1. KindOf = "TruncatedMZ"
    BY <1>2 DEF LoadInv, PanicInv, KindOf
  <2>. QED  BY <2>1 DEF LoadPanics, Program
<1>3. TypeInv /\ LoadInv => StartsAsBoot
  BY <1>1, <1>2 DEF StartsAsBoot
<1>. QED  BY <1>3, LoadAlways, PTL

-----------------------------------------------------------------------------
\* The chain of a file: the recursive function exists, so that it is what its
\* definition says.

Follow(d, f, c) == IF HasCluster(d, f, c) THEN Link(d, f, c) ELSE 0
IsChain(d, f, first, n, c) ==
  c = [k \in 0 .. n |-> IF k = 0 THEN first ELSE Follow(d, f, c[k - 1])]

LEMMA ChainExists ==
  ASSUME NEW d, NEW f, NEW a, NEW n \in Nat
  PROVE  \E c : IsChain(d, f, a, n, c)
<1>. DEFINE Is(c, m) == IsChain(d, f, a, m, c)
            S == {m \in Nat : \E c : Is(c, m)}
<1>. USE DEF IsChain
<1>1. 0 \in S
  <2>. DEFINE c == [k \in 0 .. 0 |-> a]
  <2>1. 0 .. 0 = {0}
    OBVIOUS
  <2>2. Is(c, 0)
    BY <2>1
  <2>. QED  BY <2>2
<1>2. ASSUME NEW m \in Nat, m \in S  PROVE m + 1 \in S
  <2>1. PICK c : Is(c, m)
    BY <1>2
  <2>. DEFINE b == [k \in 0 .. m + 1 |-> IF k <= m THEN c[k] ELSE Follow(d, f, c[m])]
  <2>2. ASSUME NEW k \in 0 .. m + 1
        PROVE  b[k] = IF k = 0 THEN a ELSE Follow(d, f, b[k - 1])
    <3>1. CASE k = 0
      BY <2>1, <3>1
    <3>2. CASE k # 0 /\ k <= m
      <4>1. k - 1 \in 0 .. m + 1 /\ k - 1 <= m /\ k \in 0 .. m
        BY <3>2
      <4>2. c[k] = Follow(d, f, c[k - 1])
        BY <2>1, <3>2, <4>1
      <4>. QED  BY <3>2, <4>1, <4>2
    <3>3. CASE ~(k <= m)
      <4>1. k - 1 = m /\ k # 0 /\ m \in 0 .. m + 1
        BY <3>3
      <4>. QED  BY <3>3, <4>1
    <3>. QED  BY <3>1, <3>2, <3>3
  <2>3. b = [k \in 0 .. m + 1 |-> b[k]]
    OBVIOUS
  <2>4. Is(b, m + 1)
    <3>. HIDE DEF b
    <3>. QED  BY <2>2, <2>3
  <2>. HIDE DEF b, Is
  <2>. QED  BY <2>4
<1>3. n \in S
  <2>. HIDE DEF S
  <2>. QED  BY <1>1, <1>2, Induction
<1>. QED  BY <1>3

\* At least one cluster of a file is asked for.
LEMMA NeededTyped ==
  ASSUME NEW f, IsFs(f), NEW e, IsSlot(e)
  PROVE  /\ ClusterBytes(f) \in Nat \ {0} /\ Needed(f, e) \in Nat \ {0}
         /\ \A k \in Nat \ {0} : e.size <= k * ClusterBytes(f) => Needed(f, e) <= k
         /\ \A k \in Nat : k # 0 /\ k < Needed(f, e) => k * ClusterBytes(f) < e.size
         /\ \A k \in Nat : k * ClusterBytes(f) < e.size => k < Needed(f, e)
<1>1. PICK n \in Nat \ {0} : n = ClusterBytes(f)
  <2>1. f.spc \in Nat \ {0} /\ SectorSize \in Nat \ {0}
    BY SizeNat DEF IsFs
  <2>2. f.spc * SectorSize \in Nat
    BY <2>1, Products
  <2>3. f.spc * SectorSize # 0
    BY <2>1
  <2>. QED  BY <2>2, <2>3 DEF ClusterBytes
<1>2. PICK c \in Nat : c = Ceil(e.size, n)
  BY CeilOf DEF IsSlot
<1>3. /\ \A k \in Nat : e.size <= n * k => c <= k
      /\ \A k \in Nat : n * k < e.size => k < c
  BY <1>2, CeilOf DEF IsSlot
<1>4. Needed(f, e) = IF 1 >= c THEN 1 ELSE c
  BY <1>1, <1>2, MaxOfTwo DEF Needed
<1>5. \A k \in Nat : k * n = n * k /\ n * k \in Nat
  BY Products
<1>6. e.size \in Nat
  BY DEF IsSlot
<1>7. \A k \in Nat \ {0} : e.size <= k * n => Needed(f, e) <= k
  BY <1>3, <1>4, <1>5
<1>8. \A k \in Nat : k # 0 /\ k < Needed(f, e) => k * n < e.size
  <2>. SUFFICES ASSUME NEW k \in Nat, k # 0, k < Needed(f, e), ~(k * n < e.size)
                PROVE  FALSE
    OBVIOUS
  <2>1. e.size <= n * k
    BY <1>5, <1>6
  <2>2. c <= k
    BY <1>3, <2>1
  <2>. QED  BY <1>4, <2>2
<1>9. \A k \in Nat : k * n < e.size => k < Needed(f, e)
  BY <1>3, <1>4, <1>5
<1>. QED  BY <1>1, <1>4, <1>7, <1>8, <1>9

LEMMA ChainOf ==
  ASSUME NEW d, NEW f, IsFs(f), NEW e, IsSlot(e)
  PROVE  /\ DOMAIN Chain(d, f, e) = 0 .. Needed(f, e) - 1
         /\ Chain(d, f, e)[0] = e.cluster
         /\ \A k \in Nat : k + 1 < Needed(f, e) =>
              Chain(d, f, e)[k + 1] = Follow(d, f, Chain(d, f, e)[k])
<1>1. PICK n \in Nat : n = Needed(f, e) - 1 /\ n + 1 = Needed(f, e)
  BY NeededTyped
<1>2. Chain(d, f, e) = CHOOSE c : IsChain(d, f, e.cluster, n, c)
  BY <1>1 DEF Chain, Follow, IsChain
<1>3. \E c : IsChain(d, f, e.cluster, n, c)
  BY ChainExists
<1>4. IsChain(d, f, e.cluster, n, Chain(d, f, e))
  BY <1>2, <1>3, Zenon
<1>5. PICK c : c = Chain(d, f, e)
  OBVIOUS
<1>6. c = [k \in 0 .. n |-> IF k = 0 THEN e.cluster ELSE Follow(d, f, c[k - 1])]
  BY <1>4, <1>5 DEF IsChain
<1>7. c[0] = e.cluster /\ DOMAIN c = 0 .. n
  <2>1. 0 \in 0 .. n
    OBVIOUS
  <2>. QED  BY <1>6, <2>1
<1>8. ASSUME NEW k \in Nat, k + 1 <= n  PROVE c[k + 1] = Follow(d, f, c[k])
  <2>1. k + 1 \in 0 .. n /\ k + 1 # 0 /\ (k + 1) - 1 = k
    BY <1>8
  <2>2. PICK j \in 0 .. n : j = k + 1
    BY <2>1
  <2>3. c[j] = Follow(d, f, c[j - 1])
    BY <1>6, <2>1, <2>2
  <2>. QED  BY <2>1, <2>2, <2>3
<1>. QED  BY <1>1, <1>5, <1>7, <1>8

\* The clusters of the chain that are there, when the first m are and the next
\* one, if it is asked for, is not.
LEMMA PresentOf ==
  ASSUME NEW d, NEW f, IsFs(f), NEW e, IsSlot(e), NEW m \in Nat,
         m <= Needed(f, e),
         \A j \in 0 .. m - 1 : HasCluster(d, f, Chain(d, f, e)[j]),
         m < Needed(f, e) => ~HasCluster(d, f, Chain(d, f, e)[m])
  PROVE  Present(d, f, e) = m
<1>. DEFINE T == {k \in DOMAIN Chain(d, f, e) :
                    \A j \in 0 .. k : HasCluster(d, f, Chain(d, f, e)[j])}
<1>1. PICK n \in Nat \ {0} : n = Needed(f, e) /\ DOMAIN Chain(d, f, e) = 0 .. n - 1
  <2>1. Needed(f, e) \in Nat \ {0}
    BY NeededTyped
  <2>2. DOMAIN Chain(d, f, e) = 0 .. Needed(f, e) - 1
    BY ChainOf
  <2>. QED  BY <2>1, <2>2
<1>2. \A k \in 0 .. m - 1 : k \in T
  BY <1>1
<1>3. \A k \in T : k \in 0 .. m - 1
  <2>. SUFFICES ASSUME NEW k \in T, ~(k \in 0 .. m - 1)  PROVE FALSE
    OBVIOUS
  <2>1. k \in 0 .. n - 1 /\ k >= m
    BY <1>1
  <2>2. m \in 0 .. k /\ m < n
    BY <2>1
  <2>. QED  BY <1>1, <2>2
<1>4. T = 0 .. m - 1
  <2>. HIDE DEF T
  <2>1. \A k : k \in T <=> k \in 0 .. m - 1
    BY <1>2, <1>3
  <2>. QED  BY <2>1, Zenon
<1>5. Cardinality(0 .. m - 1) = m
  BY FS_Interval
<1>. QED  BY <1>4, <1>5 DEF Present

\* Byte i of a file, counted from zero.
At(d, f, e, i) ==
  d.data[ClusterLba(f, Chain(d, f, e)[i \div ClusterBytes(f)]) * SectorSize
           + (i % ClusterBytes(f)) + 1]

LEMMA ContentsOf ==
  ASSUME NEW d, NEW f, NEW e, NEW s \in Seq(Byte), NEW n,
         n = Present(d, f, e) * ClusterBytes(f), Len(s) = Min({e.size, n}),
         \A i \in 1 .. Len(s) : s[i] = At(d, f, e, i - 1)
  PROVE  s = Contents(d, f, e)
<1>1. s = [i \in 1 .. Len(s) |-> s[i]]
  BY LenProperties
<1>2. Contents(d, f, e) = [i \in 1 .. Len(s) |-> At(d, f, e, i - 1)]
  BY DEF Contents, At
<1>. QED  BY <1>1, <1>2

\* The bytes of the first m clusters of it.
HasRead(d, f, e, s, m) ==
  /\ s \in Seq(Byte) /\ Len(s) = m * ClusterBytes(f)
  /\ \A i \in 1 .. Len(s) : s[i] = At(d, f, e, i - 1)

\* One more cluster of it.
LEMMA MoreBytes ==
  ASSUME NEW d, d.data \in Seq(Byte), NEW f, IsFs(f), NEW e, IsSlot(e),
         NEW m \in Nat, NEW c \in Nat, c = Chain(d, f, e)[m],
         HasCluster(d, f, c), NEW s, HasRead(d, f, e, s, m)
  PROVE  HasRead(d, f, e, s \o ReadCluster(d, f, c), m + 1)
<1>. USE DEF HasRead
<1>. DEFINE r == ReadCluster(d, f, c)
<1>0. PICK t : t = s \o r
  OBVIOUS
<1>1. PICK n \in Nat \ {0} : n = ClusterBytes(f)
  BY NeededTyped
<1>2. PICK base \in Int : base = ClusterLba(f, c) * SectorSize
  <2>1. ClusterLba(f, c) \in Int
    BY SMTT(60) DEF ClusterLba, IsFs
  <2>. QED  BY <2>1, SizeNat
<1>3. /\ r \in Seq(Byte) /\ Len(r) = n
      /\ \A k \in 1 .. n : r[k] = d.data[base + k]
  <2>1. /\ ReadCluster(d, f, c) \in Seq(Byte)
        /\ Len(ReadCluster(d, f, c)) = ClusterBytes(f)
        /\ \A k \in 1 .. ClusterBytes(f) :
             ReadCluster(d, f, c)[k] = d.data[ClusterLba(f, c) * SectorSize + k]
    BY ClusterBytesRead
  <2>. QED  BY <1>1, <1>2, <2>1, Zenon
<1>. HIDE DEF r
<1>4. /\ t \in Seq(Byte) /\ Len(t) = Len(s) + n
      /\ \A i \in 1 .. Len(s) + n : t[i] = IF i <= Len(s) THEN s[i] ELSE r[i - Len(s)]
  <2>1. /\ s \o r \in Seq(Byte) /\ Len(s \o r) = Len(s) + Len(r)
        /\ \A i \in 1 .. Len(s) + Len(r) :
             (s \o r)[i] = IF i <= Len(s) THEN s[i] ELSE r[i - Len(s)]
    BY <1>3, ConcatProperties
  <2>. QED  BY <1>0, <1>3, <2>1, Zenon
<1>5. PICK b \in Nat : b = m * n /\ b = Len(s) /\ (m + 1) * n = b + n /\ b = n * m
  <2>1. m * n \in Nat /\ m * n = n * m
    BY Products
  <2>2. (m + 1) * n = m * n + 1 * n
    BY Products
  <2>3. 1 * n = n
    OBVIOUS
  <2>. QED  BY <1>1, <2>1, <2>2, <2>3
<1>6. ASSUME NEW i \in 1 .. b + n  PROVE t[i] = At(d, f, e, i - 1)
  <2>1. CASE i <= b
    BY <1>4, <1>5, <2>1
  <2>2. CASE ~(i <= b)
    <3>1. PICK k \in 1 .. n : i = b + k
      <4>1. i - b \in 1 .. n /\ i = b + (i - b)
        BY <2>2
      <4>. QED  BY <4>1
    <3>2. t[i] = d.data[base + k]
      <4>1. i - b = k
        BY <3>1
      <4>. QED  BY ZenonT(90), <1>3, <1>4, <1>5, <2>2, <3>1, <4>1
    <3>3. k - 1 \in 0 .. n - 1 /\ m \in Int
      BY <3>1
    <3>4. (n * m + (k - 1)) \div n = m /\ (n * m + (k - 1)) % n = k - 1
      BY <3>3, DivShift, ModShift
    <3>5. i - 1 = n * m + (k - 1)
      BY <1>5, <3>1
    <3>6. At(d, f, e, i - 1) = d.data[base + (k - 1) + 1]
      BY <1>1, <1>2, <3>4, <3>5, Zenon DEF At
    <3>7. base + (k - 1) + 1 = base + k
      BY <3>1
    <3>. QED  BY <3>2, <3>6, <3>7
  <2>. QED  BY <2>1, <2>2
<1>7. Len(t) = b + n /\ Len(t) = (m + 1) * ClusterBytes(f)
  BY <1>1, <1>4, <1>5
<1>8. t \in Seq(Byte) /\ \A i \in 1 .. Len(t) : t[i] = At(d, f, e, i - 1)
  BY <1>4, <1>6, <1>7
<1>. QED  BY <1>0, <1>7, <1>8 DEF r

-----------------------------------------------------------------------------
\* What has been read of a file: m whole clusters, all along the chain.
Along(m) ==
  /\ m < Needed(fs, entry)
  /\ \A j \in 0 .. m - 1 : HasCluster(disk, fs, Chain(disk, fs, entry)[j])
  /\ cluster = Chain(disk, fs, entry)[m]
  /\ Len(data) = m * ClusterBytes(fs)
  /\ \A i \in 1 .. Len(data) : data[i] = At(disk, fs, entry, i - 1)

FileInv ==
  /\ pc = "read" => \E m \in Nat : Along(m)
  /\ pc \in {"batch", "execute"} /\ ~image.exe => data = Contents(disk, fs, entry)

LEMMA StartAlong ==
  ASSUME IsFs(fs), NEW e, IsSlot(e), NEW why, StartReading(e, why),
         fs' = fs, disk' = disk
  PROVE  FileInv'
<1>1. entry' = e /\ cluster' = e.cluster /\ data' = <<>> /\ pc' = "read"
  BY DEF StartReading
<1>2. Needed(fs, e) \in Nat \ {0} /\ ClusterBytes(fs) \in Nat \ {0}
  BY NeededTyped
<1>3. Chain(disk, fs, e)[0] = e.cluster
  BY ChainOf
<1>4. 0 < Needed(fs, e) /\ Len(<<>>) = 0 * ClusterBytes(fs) /\ Len(<<>>) = 0
  BY <1>2, EmptySeq
<1>5. Along(0)'
  <2>1. \A j \in 0 .. 0 - 1 : FALSE
    OBVIOUS
  <2>2. \A i \in 1 .. 0 : FALSE
    OBVIOUS
  <2>3. PICK z \in Nat : z = 0
    OBVIOUS
  <2>4. Along(z)'
    BY <1>1, <1>3, <1>4, <2>1, <2>2, <2>3 DEF Along
  <2>. QED  BY <2>3, <2>4
<1>6. \E m \in Nat : Along(m)'
  BY <1>5
<1>. QED  BY <1>1, <1>6 DEF FileInv

\* A cluster more, and the file ends with it or goes on.
LEMMA NextAlong ==
  TypeInv /\ FileInv /\ ReadNext => FileInv'
<1>. SUFFICES ASSUME TypeInv, FileInv, ReadNext  PROVE FileInv'
  OBVIOUS
<1>1. /\ pc = "read" /\ HasCluster(disk, fs, cluster)
      /\ disk' = disk /\ fs' = fs /\ entry' = entry /\ image' = image
  BY DEF ReadNext, HasCluster, found
<1>2. IsFs(fs) /\ disk.data \in Seq(Byte)
  BY <1>1, FoundFs DEF TypeInv, FsInv
<1>3. IsSlot(entry) /\ entry.size \in Nat /\ cluster \in Nat /\ data \in Seq(Byte)
  BY SlotTyped DEF TypeInv, DiskInv, ReadInv, IsSlot
<1>4. PICK m \in Nat : Along(m)
  BY <1>1 DEF FileInv
<1>5. PICK c : c = Chain(disk, fs, entry)
  OBVIOUS
<1>6. PICK n \in Nat \ {0}, N \in Nat \ {0} : n = ClusterBytes(fs) /\ N = Needed(fs, entry)
  BY <1>2, <1>3, NeededTyped
<1>7. /\ m < N /\ cluster = c[m]
      /\ \A j \in 0 .. m - 1 : HasCluster(disk, fs, c[j])
      /\ Len(data) = m * n
      /\ \A i \in 1 .. Len(data) : data[i] = At(disk, fs, entry, i - 1)
  BY <1>4, <1>5, <1>6 DEF Along
<1>8. PICK more : more = data \o ReadCluster(disk, fs, cluster)
  OBVIOUS
<1>9. /\ more \in Seq(Byte) /\ Len(more) = (m + 1) * n
      /\ \A i \in 1 .. Len(more) : more[i] = At(disk, fs, entry, i - 1)
  <2>1. cluster = Chain(disk, fs, entry)[m] /\ HasRead(disk, fs, entry, data, m)
    BY <1>3, <1>5, <1>6, <1>7 DEF HasRead
  <2>2. HasRead(disk, fs, entry, more, m + 1)
    BY <1>1, <1>2, <1>3, <1>8, <2>1, MoreBytes
  <2>. QED  BY <1>6, <2>2 DEF HasRead
<1>10. \A j \in 0 .. m : HasCluster(disk, fs, c[j])
  <2>1. \A j \in 0 .. m : j \in 0 .. m - 1 \/ j = m
    OBVIOUS
  <2>. QED  BY <1>1, <1>7, <2>1
<1>11. CASE Len(more) >= entry.size
  <2>1. data' = Cut(more) /\ pc' \in {"batch", "execute"}
    BY <1>8, <1>11 DEF ReadNext, AfterRead
  <2>2. m + 1 \in Nat \ {0} /\ entry.size <= (m + 1) * n
    BY <1>9, <1>11
  <2>3. N <= m + 1
    BY <1>2, <1>3, <1>6, <2>2, NeededTyped
  <2>4. PICK k \in Nat : k = m + 1 /\ k = N
    BY <1>7, <2>3
  <2>5. Present(disk, fs, entry) = k
    <3>1. \A j \in 0 .. k - 1 : HasCluster(disk, fs, c[j])
      BY <1>10, <2>4
    <3>. QED  BY <1>2, <1>3, <1>5, <1>6, <2>4, <3>1, PresentOf
  <2>6. PICK w \in Nat : w = k * n
    BY Products
  <2>7. /\ Cut(more) \in Seq(Byte)
        /\ Len(Cut(more)) = Min({entry.size, w})
        /\ \A i \in 1 .. Len(Cut(more)) : Cut(more)[i] = more[i]
    <3>1. Len(more) = w /\ entry.size <= w
      BY <1>9, <2>2, <2>4, <2>6
    <3>2. Min({entry.size, w}) = entry.size
      BY <1>3, <3>1, MinOfTwo
    <3>3. /\ Cut(more) \in Seq(Byte)
          /\ Len(Cut(more)) = IF Len(more) <= entry.size THEN Len(more) ELSE entry.size
          /\ \A i \in 1 .. Len(Cut(more)) : Cut(more)[i] = more[i]
      BY <1>3, <1>9, CutTyped
    <3>. QED  BY <1>3, <3>1, <3>2, <3>3
  <2>8. Len(Cut(more)) <= Len(more)
    <3>1. Len(Cut(more)) = IF Len(more) <= entry.size THEN Len(more) ELSE entry.size
      BY <1>3, <1>9, CutTyped
    <3>2. Len(more) \in Nat
      BY <1>9, LenProperties
    <3>. QED  BY <1>3, <1>11, <3>1, <3>2
  <2>9. \A i \in 1 .. Len(Cut(more)) : Cut(more)[i] = At(disk, fs, entry, i - 1)
    <3>1. Len(Cut(more)) \in Nat /\ Len(more) \in Nat
      BY <1>9, <2>7, LenProperties
    <3>2. \A i \in 1 .. Len(Cut(more)) : i \in 1 .. Len(more)
      BY <2>8, <3>1
    <3>. QED  BY <1>9, <2>7, <3>2
  <2>10. Cut(more) = Contents(disk, fs, entry)
    BY <1>6, <2>5, <2>6, <2>7, <2>9, ContentsOf
  <2>. QED  BY <1>1, <2>1, <2>10 DEF FileInv
<1>12. CASE ~(Len(more) >= entry.size) /\ FatReadable(disk, fs, cluster)
  <2>1. data' = more /\ pc' = "read" /\ cluster' = NextCluster(disk, fs, cluster)
    BY <1>1, <1>8, <1>12 DEF ReadNext
  <2>2. (m + 1) * n < entry.size
    BY <1>3, <1>9, <1>12, LenProperties
  <2>3. PICK k \in Nat : k = m + 1 /\ k < N
    BY <1>2, <1>3, <1>6, <2>2, NeededTyped
  <2>4. cluster' = c[k]
    <3>1. NextCluster(disk, fs, cluster) = Link(disk, fs, cluster)
      BY <1>2, <1>3, <1>12, LinkIsNext
    <3>2. c[k] = Follow(disk, fs, c[m])
      BY <1>2, <1>3, <1>5, <1>6, <2>3, ChainOf
    <3>. QED  BY <1>1, <1>7, <2>1, <3>1, <3>2 DEF Follow
  <2>5. \A j \in 0 .. k - 1 : HasCluster(disk, fs, c[j])
    BY <1>10, <2>3
  <2>6. Len(more) = k * n
    BY <1>9, <2>3
  <2>7. Along(k)'
    BY <1>1, <1>5, <1>6, <1>9, <2>1, <2>3, <2>4, <2>5, <2>6 DEF Along
  <2>. QED  BY <2>1, <2>7 DEF FileInv
<1>13. CASE ~(Len(more) >= entry.size) /\ ~FatReadable(disk, fs, cluster)
  <2>1. pc' = "failed"
    BY <1>8, <1>13 DEF ReadNext
  <2>. QED  BY <2>1 DEF FileInv
<1>. QED  BY <1>11, <1>12, <1>13

\* The chain or the image ends.
LEMMA OverAlong ==
  TypeInv /\ FileInv /\ ReadOver => FileInv'
<1>. SUFFICES ASSUME TypeInv, FileInv, ReadOver  PROVE FileInv'
  OBVIOUS
<1>1. /\ pc = "read" /\ ~HasCluster(disk, fs, cluster)
      /\ pc' \in {"batch", "execute"} /\ data' = data
      /\ disk' = disk /\ fs' = fs /\ entry' = entry /\ image' = image
  BY DEF ReadOver, HasCluster, found, reading, AfterRead
<1>2. IsFs(fs)
  BY <1>1, FoundFs DEF TypeInv, FsInv
<1>3. IsSlot(entry) /\ entry.size \in Nat /\ data \in Seq(Byte)
  BY SlotTyped DEF TypeInv, DiskInv, ReadInv, IsSlot
<1>4. PICK m \in Nat : Along(m)
  BY <1>1 DEF FileInv
<1>5. PICK n \in Nat \ {0}, N \in Nat \ {0} : n = ClusterBytes(fs) /\ N = Needed(fs, entry)
  BY <1>2, <1>3, NeededTyped
<1>6. Present(disk, fs, entry) = m
  BY <1>1, <1>2, <1>3, <1>4, <1>5, PresentOf DEF Along
<1>7. PICK w \in Nat : w = m * n
  BY Products
<1>8. Min({entry.size, w}) = w
  <2>1. w <= entry.size
    <3>1. CASE m = 0
      BY <1>3, <1>7, <3>1
    <3>2. CASE m # 0
      <4>1. m * n < entry.size
        BY <1>2, <1>3, <1>4, <1>5, <3>2, NeededTyped DEF Along
      <4>. QED  BY <1>3, <1>7, <4>1
    <3>. QED  BY <3>1, <3>2
  <2>. QED  BY <1>3, <2>1, MinOfTwo
<1>9. /\ Len(data) = Min({entry.size, w})
      /\ \A i \in 1 .. Len(data) : data[i] = At(disk, fs, entry, i - 1)
  BY <1>4, <1>5, <1>7, <1>8 DEF Along
<1>10. data = Contents(disk, fs, entry)
  BY <1>3, <1>5, <1>6, <1>7, <1>9, ContentsOf
<1>. QED  BY <1>1, <1>10 DEF FileInv

LEMMA FileInit == Init => FileInv
BY DEF Init, FileInv

LEMMA FileNext == TypeInv /\ FileInv /\ [Next]_vars => FileInv'
<1>1. ASSUME FileInv, UNCHANGED <<pc, image, disk, fs, entry, cluster, data>>
      PROVE  FileInv'
  <2>1. \A m : Along(m)' = Along(m)
    BY <1>1 DEF Along
  <2>. QED  BY <1>1, <2>1 DEF FileInv
<1>2. ASSUME pc' \notin {"read", "batch", "execute"} \/ (pc' = "execute" /\ image'.exe)
      PROVE  FileInv'
  BY <1>2 DEF FileInv
<1>3. ASSUME TypeInv, FileInv, List  PROVE FileInv'
  <2>1. pc = "list" /\ disk' = disk /\ fs' = fs
    BY <1>3 DEF List, ListNext, ListOver, ListFails, found
  <2>2. CASE ListNext
    BY <1>2, <2>1, <2>2 DEF ListNext
  <2>3. CASE ListFails
    BY <1>2, <2>3 DEF ListFails
  <2>4. CASE ListOver
    <3>1. IsFs(fs) /\ IsImageFile(image) /\ entries \in Seq(SlotsOf(image))
      BY <1>3, <2>1, FoundFs DEF TypeInv, DiskInv, FsInv, FilesInv
    <3>2. \A e \in SlotsOf(image) : IsSlot(e)
      BY <3>1, SlotTyped
    <3>3. HasEntrypoint(entries)
      BY <2>4 DEF ListOver
    <3>4. PICK i \in 1 .. Len(entries) : FindEntrypoint(entries) = entries[i]
      BY <3>1, <3>2, <3>3, EntrypointIn
    <3>5. IsSlot(entries[i])
      BY <3>1, <3>2, ElementOfSeq
    <3>6. \E why : StartReading(entries[i], why)
      BY <2>4, <3>4 DEF ListOver
    <3>. QED  BY <2>1, <3>1, <3>5, <3>6, StartAlong
  <2>. QED  BY <1>3, <2>2, <2>3, <2>4 DEF List
<1>4. ASSUME TypeInv, FileInv, QueueOver  PROVE FileInv'
  <2>1. pc = "batch" /\ disk' = disk /\ fs' = fs
    BY <1>4 DEF QueueOver, found
  <2>2. CASE queue = <<>>
    BY <1>2, <1>4, <2>2 DEF QueueOver
  <2>3. CASE queue # <<>>
    <3>1. IsFs(fs) /\ IsImageFile(image) /\ queue \in Seq(SlotsOf(image))
      BY <1>4, <2>1, FoundFs DEF TypeInv, DiskInv, FsInv, FilesInv
    <3>2. queue[1] \in SlotsOf(image)
      BY <2>3, <3>1, EmptySeq, ElementOfSeq
    <3>3. IsSlot(queue[1])
      BY <3>1, <3>2, SlotTyped
    <3>4. StartReading(queue[1], "program")
      BY <1>4, <2>3 DEF QueueOver
    <3>. QED  BY <2>1, <3>1, <3>3, <3>4, StartAlong
  <2>. QED  BY <2>2, <2>3
<1>5. FileInv /\ QueueNext => FileInv'
  BY <1>1 DEF QueueNext, reading
<1>6. TypeInv /\ FileInv /\ (Open \/ Find \/ Load) => FileInv'
  <2>1. FileInv /\ (RelocateNext \/ BootSector \/ Enter \/ ExecuteCom \/ ExecuteMz) => FileInv'
    BY <1>2 DEF RelocateNext, BootSector, Enter, ExecuteCom, ExecuteMz
  <2>2. FileInv /\ (OpenExe \/ OpenDisk \/ OpenFails \/ Scan \/ NotDetected \/ ExecuteFails)
          => FileInv'
    BY <1>2 DEF OpenExe, OpenDisk, OpenFails, Scan, NotDetected, ExecuteFails
  <2>. QED  BY <2>1, <2>2 DEF Open, Find, Load
<1>7. FileInv /\ (Over \/ UNCHANGED vars) => FileInv'
  BY <1>1 DEF Over, vars, found, reading
<1>. QED  BY <1>3, <1>4, <1>5, <1>6, <1>7, NextAlong, OverAlong DEF Next, ReadStep

LEMMA FileAlways == Spec => [](TypeInv /\ FileInv)
<1>1. Init => TypeInv /\ FileInv
  BY TypeInit, FileInit
<1>2. (TypeInv /\ FileInv) /\ [Next]_vars => (TypeInv /\ FileInv)'
  BY TypeNext, FileNext
<1>. QED  BY <1>1, <1>2, PTL DEF Spec

\* read_file returns the bytes along the chain of every entry, in either width
\* of table, when the chain loops or leaves the disk too (disk/fat.rs).
THEOREM FileTheorem == Spec => []FileMatchesItsChain
<1>1. TypeInv /\ FileInv => FileMatchesItsChain
  BY DEF FileInv, FileMatchesItsChain
<1>. QED  BY <1>1, FileAlways, PTL

-----------------------------------------------------------------------------
\* What INT 13h/08 reports of a disk: its last cylinder is at most the last one
\* the code has, its last head and sector are those of the disk.
LEMMA ReportedOf ==
  ASSUME NEW d, d.present, d.cyls \in Word, d.heads \in Byte, d.spt \in Byte,
         d.cyls > 0, d.heads > 0, d.spt <= 63
  PROVE  /\ Reported(d).cylinder \in Nat /\ Reported(d).cylinder < d.cyls
         /\ Reported(d).head = d.heads - 1
         /\ Reported(d).sector = d.spt
<1>1. PICK last \in Word : /\ last = IF d.cyls > 2 THEN d.cyls - 2 ELSE 0
                           /\ last < d.cyls
  BY WordRange
<1>2. PICK lo \in Byte, hi \in Byte, top \in 0 .. 3 :
        /\ lo = last % 256 /\ hi = last \div 256 /\ top = (last \div 256) % 4
        /\ top <= hi /\ lo + 256 * hi = last
  <2>1. Lo(last) \in Byte /\ Hi(last) \in Byte /\ Lo(last) + 256 * Hi(last) = last
    BY Halves
  <2>2. PICK hi \in Byte : hi = last \div 256
    BY <2>1 DEF Hi
  <2>3. hi % 4 \in 0 .. 3 /\ hi % 4 <= hi
    BY ByteRange, ModAtMost
  <2>4. PICK lo \in Byte : lo = last % 256
    BY <2>1, Zenon DEF Lo
  <2>5. PICK top \in 0 .. 3 : top = hi % 4 /\ top <= hi
    BY <2>3, Zenon
  <2>6. lo + 256 * hi = last
    BY ONLY <2>1, <2>2, <2>4, Zenon DEF Lo, Hi
  <2>7. /\ lo = last % 256 /\ hi = last \div 256 /\ top = (last \div 256) % 4
        /\ top <= hi /\ lo + 256 * hi = last
    BY ONLY <2>2, <2>4, <2>5, <2>6, Zenon
  <2>. QED  BY ONLY <2>7, ZenonT(90)
<1>3. PICK spt \in 0 .. 63 : spt = d.spt /\ d.spt % 64 = spt
  BY ByteRange
<1>4. PICK c : c = spt + 64 * top
  OBVIOUS
<1>5. c \in Byte /\ c % 64 = spt /\ c \div 64 = top
  <2>1. c \in Int /\ 0 <= c /\ c <= 255
    BY <1>4
  <2>2. c = 64 * top + spt
    BY <1>4
  <2>3. (64 * top + spt) % 64 = spt /\ (64 * top + spt) \div 64 = top
    BY ModShift, DivShift
  <2>. QED  BY <2>1, <2>2, <2>3, ByteRange
<1>6. PICK heads \in Byte : heads = d.heads - 1
  BY ByteRange
<1>7. AL \in Reg /\ CL \in Reg /\ DL \in Reg /\ AH \in Reg /\ CH \in Reg /\ DH \in Reg
  BY DEF AL, CL, DL, AH, CH, DH, Reg
<1>8. 1 \in Byte /\ 0 \in Byte
  BY ByteRange
<1>. DEFINE r1 == Set8(RegsNew, CH, lo)
            r2 == Set8(r1, CL, c)
            r3 == Set8(r2, DH, heads)
            r4 == Set8(r3, DL, 1)
            r5 == Set8(r4, AH, 0)
<1>9. Int13Params(Blank0, d).regs = SetFlag(r5, CarryFlag, FALSE)
  <2>1. /\ 64 * top \in Int /\ spt + 64 * top = (d.spt % 64) + 64 * ((last \div 256) % 4)
        /\ last = IF d.cyls > 2 THEN d.cyls - 2 ELSE 0
        /\ heads = IF d.heads > 0 THEN d.heads - 1 ELSE 0
    BY <1>1, <1>2, <1>3, <1>6
  <2>. DEFINE Has(s, r) == "regs" \in DOMAIN s /\ s.regs = r
  <2>2. Has(Blank0, RegsNew)
    BY DEF Blank0
  <2>3. \A s, r : Has(s, r) => /\ \A k, v : Has(With8(s, k, v), Set8(r, k, v))
                               /\ Has(Succeeds(s), SetFlag(r, CarryFlag, FALSE))
    BY DEF With8, Succeeds
  <2>. HIDE DEF Has
  <2>4. Int13Params(Blank0, d)
          = Succeeds(With8(With8(With8(With8(With8(Blank0,
                       CH, lo), CL, c), DH, heads), DL, 1), AH, 0))
    BY <1>2, <1>4, <2>1 DEF Int13Params
  <2>5. Has(With8(With8(With8(With8(With8(Blank0,
                    CH, lo), CL, c), DH, heads), DL, 1), AH, 0), r5)
    BY ONLY <2>2, <2>3
  <2>6. Has(Int13Params(Blank0, d), SetFlag(r5, CarryFlag, FALSE))
    BY <2>3, <2>4, <2>5, Zenon
  <2>. QED  BY <2>6, Zenon DEF Has
<1>10. \A j : Get8(SetFlag(r5, CarryFlag, FALSE), j) = Get8(r5, j)
  BY DEF Get8, SetFlag, Get16
<1>11. RegsNew \in Regs /\ r1 \in Regs /\ r2 \in Regs /\ r3 \in Regs /\ r4 \in Regs
  BY <1>5, <1>7, <1>8, RegsNewTyped, Set8Regs
<1>12. /\ AH # CH /\ AH # CL /\ AH # DH /\ DL # CH /\ DL # CL /\ DL # DH
       /\ DH # CH /\ DH # CL /\ CL # CH
  BY DEF AH, CH, CL, DH, DL
<1>13. /\ Get8(r1, CH) = lo
       /\ Get8(r2, CH) = lo /\ Get8(r2, CL) = c
       /\ Get8(r3, CH) = lo /\ Get8(r3, CL) = c /\ Get8(r3, DH) = heads
       /\ Get8(r4, CH) = lo /\ Get8(r4, CL) = c /\ Get8(r4, DH) = heads
       /\ Get8(r5, CH) = lo /\ Get8(r5, CL) = c /\ Get8(r5, DH) = heads
  <2>. HIDE DEF r1, r2, r3, r4, r5
  <2>1. Get8(r1, CH) = lo
    BY <1>7, <1>11, Set8Get8 DEF r1
  <2>2. Get8(r2, CH) = lo /\ Get8(r2, CL) = c
    BY <1>5, <1>7, <1>11, <1>12, <2>1, Set8Get8 DEF r2
  <2>3. Get8(r3, CH) = lo /\ Get8(r3, CL) = c /\ Get8(r3, DH) = heads
    BY <1>7, <1>11, <1>12, <2>2, Set8Get8 DEF r3
  <2>4. Get8(r4, CH) = lo /\ Get8(r4, CL) = c /\ Get8(r4, DH) = heads
    BY <1>7, <1>8, <1>11, <1>12, <2>3, Set8Get8 DEF r4
  <2>5. Get8(r5, CH) = lo /\ Get8(r5, CL) = c /\ Get8(r5, DH) = heads
    BY <1>7, <1>8, <1>11, <1>12, <2>4, Set8Get8 DEF r5
  <2>. QED  BY <2>1, <2>2, <2>3, <2>4, <2>5
<1>. HIDE DEF r1, r2, r3, r4, r5
<1>14. Reported(d) = [cylinder |-> lo + 256 * top, head |-> heads, sector |-> spt]
  BY <1>5, <1>9, <1>10, <1>13, ZenonT(90) DEF Reported
<1>15. lo + 256 * top \in Nat /\ lo + 256 * top <= last
  BY <1>2, ByteRange
<1>. QED  BY <1>1, <1>3, <1>6, <1>14, <1>15, WordRange

LEMMA PlacesApart ==
  ASSUME NEW C \in Nat, NEW H \in Nat \ {0}, NEW S \in Nat \ {0},
         disk.cyls = C, disk.heads = H, disk.spt = S,
         NEW last, last.cylinder \in Nat, last.cylinder < C, last.head = H - 1,
         last.sector = S
  PROVE  ReadApart(Places(last))
<1>1. PICK T \in Nat \ {0} : T = S * H /\ T = H * S
  <2>1. S * H \in Nat /\ S * H = H * S
    BY Products
  <2>2. S * H # 0
    BY Z3
  <2>. QED  BY <2>1, <2>2
<1>2. ASSUME NEW x \in Places(last)
      PROVE  \E c \in Nat, h \in 0 .. H - 1, s \in 0 .. S - 1, u \in 0 .. T - 1 :
               /\ x = <<c, h, s + 1>> /\ c < C
               /\ u = S * h + s /\ SectorRead(x) = T * c + u
  <2>1. PICK c \in Nat, h \in 0 .. H - 1, k \in 1 .. S : x = <<c, h, k>> /\ c < C
    BY DEF Places
  <2>2. PICK s \in 0 .. S - 1 : s = k - 1 /\ k = s + 1
    <3>1. k - 1 \in 0 .. S - 1 /\ k = (k - 1) + 1
      OBVIOUS
    <3>. QED  BY <3>1
  <2>3. PICK u \in 0 .. T - 1 : u = S * h + s
    <3>1. S * h + s \in Nat /\ S * h + s < S * H
      BY DigitsBelow
    <3>. QED  BY <1>1, <3>1
  <2>4. (c * H) * S = T * c
    <3>1. (c * H) * S = (H * S) * c
      BY Z3
    <3>. QED  BY <1>1, <3>1
  <2>5. SectorRead(x) = (c * H) * S + h * S + s
    BY <2>1, <2>2 DEF SectorRead, ChsToLba
  <2>6. h * S = S * h
    BY Products
  <2>7. PICK y \in Nat, z \in Nat : y = T * c /\ z = S * h
    BY Products
  <2>8. SectorRead(x) = T * c + u
    BY <2>3, <2>4, <2>5, <2>6, <2>7
  <2>. QED  BY <2>1, <2>2, <2>3, <2>8
<1>3. (C * H) * S = T * C
  <2>1. (C * H) * S = (H * S) * C
    BY Z3
  <2>. QED  BY <1>1, <2>1
<1>4. ASSUME NEW x \in Places(last)
      PROVE  SectorRead(x) < disk.cyls * disk.heads * disk.spt
  <2>1. PICK c \in Nat, u \in 0 .. T - 1 : c < C /\ SectorRead(x) = T * c + u
    BY ZenonT(90), <1>2
  <2>2. T * c + u < T * C
    BY <2>1, DigitsBelow
  <2>. QED  BY <1>3, <2>1, <2>2
<1>5. ASSUME NEW x \in Places(last), NEW y \in Places(last),
             SectorRead(x) = SectorRead(y)
      PROVE  x = y
  <2>1. PICK c1 \in Nat, h1 \in 0 .. H - 1, s1 \in 0 .. S - 1, u1 \in 0 .. T - 1 :
          /\ x = <<c1, h1, s1 + 1>> /\ u1 = S * h1 + s1 /\ SectorRead(x) = T * c1 + u1
    BY <1>2
  <2>2. PICK c2 \in Nat, h2 \in 0 .. H - 1, s2 \in 0 .. S - 1, u2 \in 0 .. T - 1 :
          /\ y = <<c2, h2, s2 + 1>> /\ u2 = S * h2 + s2 /\ SectorRead(y) = T * c2 + u2
    BY <1>2
  <2>3. c1 = c2 /\ u1 = u2
    <3>1. T * c1 + u1 = T * c2 + u2
      BY <1>5, <2>1, <2>2
    <3>. QED  BY <3>1, Digits
  <2>4. S * h1 + s1 = S * h2 + s2 /\ h1 \in Nat /\ h2 \in Nat
    BY <2>1, <2>2, <2>3
  <2>5. h1 = h2 /\ s1 = s2
    BY <2>4, Digits
  <2>. QED  BY <2>1, <2>2, <2>3, <2>5
<1>. QED  BY <1>4, <1>5, Zenon DEF ReadApart

\* ReportedSectorsExist without the corners: every place within what is
\* reported, at every sector of the scan.
SectorsExist ==
  pc = "scan" /\ disk.cyls > 0 /\ disk.heads > 0 /\ disk.spt \in 1 .. 63 =>
    /\ Reported(disk).sector = disk.spt
    /\ ReadApart(Places(Reported(disk)))

\* All that INT 13h/08 reports is there, and INT 13h/02 reads it apart, not only
\* in the corners that TLC looks at (runtime/interrupts/disk.rs, disk/mod.rs).
THEOREM SectorsTheorem == Spec => [](SectorsExist /\ ReportedSectorsExist)
<1>1. TypeInv => SectorsExist
  <2>. SUFFICES ASSUME TypeInv, pc = "scan", disk.cyls > 0, disk.heads > 0,
                       disk.spt \in 1 .. 63
                PROVE  /\ Reported(disk).sector = disk.spt
                       /\ ReadApart(Places(Reported(disk)))
    BY DEF SectorsExist
  <2>1. disk = LoadDisk(image) /\ IsImageFile(image)
    BY DEF TypeInv, DiskInv, OnDiskPcs
  <2>2. disk.present /\ disk.cyls \in Word /\ disk.heads \in Byte /\ disk.spt \in Byte
    BY <2>1, DiskTyped DEF LoadDisk
  <2>3. /\ Reported(disk).cylinder \in Nat /\ Reported(disk).cylinder < disk.cyls
        /\ Reported(disk).head = disk.heads - 1
        /\ Reported(disk).sector = disk.spt
    BY <2>2, ReportedOf
  <2>4. PICK C \in Nat, H \in Nat \ {0}, S \in Nat \ {0} :
          C = disk.cyls /\ H = disk.heads /\ S = disk.spt
    BY <2>2, WordRange, ByteRange
  <2>5. PICK last : last = Reported(disk)
    OBVIOUS
  <2>6. ReadApart(Places(last))
    BY <2>3, <2>4, <2>5, PlacesApart
  <2>. QED  BY <2>3, <2>5, <2>6
<1>2. SectorsExist => ReportedSectorsExist
  BY DEF SectorsExist, ReportedSectorsExist, ReadApart, Corners
<1>3. TypeInv => SectorsExist /\ ReportedSectorsExist
  BY <1>1, <1>2
<1>. QED  BY <1>3, TypeAlways, PTL

-----------------------------------------------------------------------------
\* The queue of a BAT file: the programs of the lines before number n.
Before(n) == {i \in Programs : i < n}
Placed(i) ==
  LET k == Cardinality({j \in Programs : j <= i})
  IN \E n \in Names(i) : /\ queue[k] = entries[n]
                         /\ \A first \in Names(i) : n <= first
Queued(n) ==
  Len(queue) = Cardinality(Before(n)) /\ \A i \in Programs : i < n => Placed(i)

Ordered ==
  IF FindEntrypoint(entries).ext = "BAT"
  THEN Len(queue) = Cardinality(Programs) /\ \A i \in Programs : Placed(i)
  ELSE Len(queue) = 1 /\ queue[1].ext = "EXE"

IsBatch == entry = FindEntrypoint(entries) /\ entry.ext = "BAT"

QueueInv ==
  /\ pc \in {"open", "scan", "list", "boot"} => queue = <<>>
  /\ purpose = "batch" => pc \in {"read", "batch", "failed"}
  /\ pc = "read" /\ purpose = "batch" => IsBatch /\ queue = <<>> /\ next = 1
  /\ pc = "batch" => purpose = "batch" /\ IsBatch /\ Queued(next)
  /\ purpose = "program" /\ queue # <<>> => Ordered

LEMMA SameLines ==
  ASSUME entries' = entries, disk' = disk, fs' = fs
  PROVE  /\ Programs' = Programs /\ \A i : Names(i)' = Names(i)
         /\ \A n : Before(n)' = Before(n)
<1>1. Lines' = Lines
  BY DEF Lines
<1>2. \A w : Named(w)' = Named(w)
  BY DEF Named
<1>3. \A i : Names(i)' = Names(i)
  BY <1>1, <1>2 DEF Names
<1>4. Programs' = Programs
  BY <1>1, <1>3 DEF Programs
<1>. QED  BY <1>3, <1>4 DEF Before

\* While the BAT file is gone through its lines are what has been read.
LEMMA BatchLines ==
  ASSUME TypeInv, FileInv, QueueInv, pc = "batch"
  PROVE  /\ Lines = data /\ data \in Seq(Byte) /\ Programs \subseteq 1 .. Len(data)
         /\ IsFiniteSet(Programs)
<1>1. data = Contents(disk, fs, entry) /\ data \in Seq(Byte)
  BY DEF TypeInv, FsInv, ReadInv, FileInv
<1>2. Lines = data
  BY <1>1 DEF QueueInv, IsBatch, Lines
<1>3. Programs \subseteq 1 .. Len(data)
  BY <1>1, <1>2, LenProperties DEF Programs
<1>4. Len(data) \in Int
  BY <1>1, LenProperties
<1>5. IsFiniteSet(1 .. Len(data))
  BY <1>4, FS_Interval
<1>. QED  BY <1>1, <1>2, <1>3, <1>5, FS_Subset

LEMMA StartQueued ==
  ASSUME queue = <<>>
  PROVE  Queued(1)
<1>1. \A i \in Programs : ~(i < 1)
  BY DEF Programs, Lines, Contents
<1>2. Before(1) = {}
  BY <1>1, Zenon DEF Before
<1>3. Cardinality(Before(1)) = 0
  BY <1>2, FS_EmptySet
<1>. QED  BY <1>1, <1>3, EmptySeq DEF Queued

\* One more line.
LEMMA QueueLine ==
  ASSUME TypeInv, FileInv, QueueInv, QueueNext
  PROVE  Queued(next)'
<1>1. /\ pc = "batch" /\ next \in Nat \ {0} /\ next <= Len(data)
      /\ next' = next + 1 /\ entries' = entries /\ disk' = disk /\ fs' = fs
  BY DEF QueueNext, TypeInv, FilesInv
<1>2. /\ Lines = data /\ data \in Seq(Byte) /\ Programs \subseteq 1 .. Len(data)
      /\ IsFiniteSet(Programs) /\ Queued(next)
  BY <1>1, BatchLines DEF QueueInv
<1>3. /\ Programs' = Programs /\ (\A i : Names(i)' = Names(i))
      /\ Before(next)' = Before(next + 1)
  BY <1>1, SameLines DEF Before
<1>. DEFINE word == Commands[data[next]]
            Upto(i) == {j \in Programs : j <= i}
<1>4. Names(next) = IF Runs(word) THEN Named(word) ELSE {}
  BY <1>2 DEF Names, Runs
<1>5. next \in Programs <=> Runs(word)
  <2>1. next \in DOMAIN Lines
    BY <1>1, <1>2, LenProperties
  <2>2. Runs(word) => Named(word) # {}
    BY DEF Runs
  <2>. HIDE DEF word
  <2>. QED  BY <1>4, <2>1, <2>2 DEF Programs
<1>6. \A i \in Programs : i < next + 1 <=> i < next \/ i = next
  BY <1>1, <1>2
<1>7. IsFiniteSet(Before(next)) /\ Cardinality(Before(next)) \in Nat
  BY <1>2, FS_Subset, FS_CardinalityType DEF Before
<1>8. queue \in Seq(SlotsOf(image)) /\ Len(queue) = Cardinality(Before(next))
  BY <1>2 DEF TypeInv, FilesInv, Queued
<1>9. ASSUME NEW i \in Programs, i < next
      PROVE  Cardinality(Upto(i)) \in 1 .. Len(queue) /\ Placed(i)
  <2>1. Upto(i) \subseteq Before(next)
    <3>1. \A j \in Programs : j \in Int
      BY <1>2
    <3>2. \A j \in Programs : j <= i => j < next
      BY <1>1, <1>9, <3>1
    <3>. QED  BY <3>2, Zenon DEF Before
  <2>2. IsFiniteSet(Upto(i)) /\ Cardinality(Upto(i)) <= Cardinality(Before(next))
    <3>. HIDE DEF Upto
    <3>. QED  BY <1>7, <2>1, FS_Subset
  <2>3. i \in Upto(i)
    BY <1>2
  <2>4. Cardinality(Upto(i)) \in Nat /\ Cardinality(Upto(i)) # 0
    <3>. HIDE DEF Upto
    <3>1. Upto(i) # {}
      BY <2>3
    <3>. QED  BY <2>2, <3>1, FS_CardinalityType, FS_EmptySet
  <2>5. Cardinality(Upto(i)) \in 1 .. Len(queue)
    <3>. HIDE DEF Upto
    <3>. QED  BY <1>7, <1>8, <2>2, <2>4
  <2>. QED  BY <1>2, <1>9, <2>5 DEF Queued
<1>10. CASE Runs(word)
  <2>1. queue' = Append(queue, entries[Min(Named(word))])
    BY <1>10 DEF QueueNext
  <2>2. PICK m : m = Min(Named(word)) /\ m \in Named(word)
                 /\ \A y \in Named(word) : m <= y
    <3>1. Named(word) \subseteq Nat /\ Named(word) # {}
      BY <1>10, LenProperties DEF Runs, Named, TypeInv, FilesInv
    <3>. HIDE DEF word
    <3>. QED  BY <3>1, MinOf
  <2>3. m \in 1 .. Len(entries) /\ entries \in Seq(SlotsOf(image))
    BY <2>2, LenProperties DEF Named, TypeInv, FilesInv
  <2>4. /\ Len(queue') = Len(queue) + 1
        /\ \A k \in 1 .. Len(queue) : queue'[k] = queue[k]
        /\ queue'[Len(queue) + 1] = entries[m]
    <3>1. entries[m] \in SlotsOf(image)
      BY <2>3, ElementOfSeq
    <3>. HIDE DEF word
    <3>. QED  BY <1>8, <2>1, <2>2, <3>1, AppendProperties
  <2>5. next \in Programs
    BY <1>5, <1>10
  <2>6. Before(next + 1) = Before(next) \cup {next} /\ next \notin Before(next)
    <3>1. ~(next < next)
      BY <1>1
    <3>. QED  BY <1>6, <2>5, <3>1 DEF Before
  <2>7. Cardinality(Before(next + 1)) = Cardinality(Before(next)) + 1
    BY <1>7, <2>6, FS_AddElement
  <2>8. ASSUME NEW i \in Programs, i < next + 1  PROVE Placed(i)'
    <3>1. CASE i < next
      <4>1. queue'[Cardinality(Upto(i))] = queue[Cardinality(Upto(i))]
        BY <1>9, <2>4, <3>1
      <4>. QED  BY <1>1, <1>3, <1>9, <3>1, <4>1 DEF Placed
    <3>2. CASE i = next
      <4>1. Upto(next) = Before(next + 1)
        <5>1. \A j \in Programs : j <= next <=> j < next + 1
          BY <1>1, <1>2
        <5>. QED  BY <5>1, Zenon DEF Before
      <4>2. Cardinality(Upto(next)) = Len(queue) + 1
        BY <1>8, <2>7, <4>1
      <4>3. m \in Names(next) /\ \A first \in Names(next) : m <= first
        BY <1>4, <1>10, <2>2
      <4>4. queue'[Cardinality(Upto(next))] = entries[m]
        BY <2>4, <4>2
      <4>. QED  BY <1>1, <1>3, <3>2, <4>3, <4>4 DEF Placed
    <3>. QED  BY <1>6, <2>8, <3>1, <3>2
  <2>. QED  BY <1>1, <1>3, <1>8, <2>4, <2>7, <2>8 DEF Queued
<1>11. CASE ~Runs(word)
  <2>1. queue' = queue
    BY <1>11 DEF QueueNext
  <2>2. \A i \in Programs : i < next + 1 <=> i < next
    BY <1>5, <1>6, <1>11
  <2>3. Before(next + 1) = Before(next)
    BY <2>2, Zenon DEF Before
  <2>4. ASSUME NEW i \in Programs, i < next + 1  PROVE Placed(i)'
    BY <1>1, <1>3, <1>9, <2>1, <2>2, <2>4 DEF Placed
  <2>. QED  BY <1>1, <1>3, <1>8, <2>1, <2>3, <2>4 DEF Queued
<1>. QED  BY <1>10, <1>11

\* All lines have been gone through.
LEMMA QueueIsOrdered ==
  ASSUME TypeInv, FileInv, QueueInv, QueueOver, queue # <<>>
  PROVE  Ordered'
<1>1. /\ pc = "batch" /\ next \in Nat /\ next > Len(data)
      /\ queue' = queue /\ entries' = entries /\ disk' = disk /\ fs' = fs
  BY DEF QueueOver, found, TypeInv, FilesInv
<1>2. /\ data \in Seq(Byte) /\ Programs \subseteq 1 .. Len(data)
      /\ IsBatch /\ Queued(next)
  BY <1>1, BatchLines DEF QueueInv
<1>3. Len(data) \in Nat
  BY <1>2, LenProperties
<1>4. \A i \in Programs : i < next
  BY <1>1, <1>2, <1>3
<1>5. Before(next) = Programs
  BY <1>4, Zenon DEF Before
<1>6. Len(queue) = Cardinality(Programs) /\ \A i \in Programs : Placed(i)
  BY <1>2, <1>4, <1>5 DEF Queued
<1>7. Programs' = Programs /\ \A i : Placed(i)' = Placed(i)
  <2>1. Programs' = Programs /\ \A i : Names(i)' = Names(i)
    BY <1>1, SameLines
  <2>. QED  BY <1>1, <2>1 DEF Placed
<1>8. (FindEntrypoint(entries).ext = "BAT")'
  BY <1>1, <1>2 DEF IsBatch
<1>. QED  BY <1>1, <1>6, <1>7, <1>8 DEF Ordered

LEMMA SameOrder ==
  ASSUME UNCHANGED <<queue, entries, disk, fs>>
  PROVE  Ordered' = Ordered
<1>1. Programs' = Programs /\ \A i : Names(i)' = Names(i)
  BY SameLines
<1>2. \A i : Placed(i)' = Placed(i)
  BY <1>1 DEF Placed
<1>. QED  BY <1>1, <1>2 DEF Ordered

LEMMA QueueInit == Init => QueueInv
BY DEF Init, QueueInv

LEMMA QueueListed == TypeInv /\ QueueInv /\ List => QueueInv'
<1>. SUFFICES ASSUME TypeInv, QueueInv, List  PROVE QueueInv'
  OBVIOUS
<1>1. pc = "list" /\ queue = <<>> /\ purpose = "program"
  BY DEF List, ListNext, ListOver, ListFails, QueueInv, TypeInv, ReadInv
<1>2. CASE ListNext
  BY <1>1, <1>2 DEF ListNext, QueueInv, reading
<1>3. CASE ListFails
  BY <1>1, <1>3 DEF ListFails, QueueInv, reading
<1>4. CASE ListOver
  <2>1. IsImageFile(image) /\ entries \in Seq(SlotsOf(image)) /\ HasEntrypoint(entries)
    BY <1>4 DEF TypeInv, DiskInv, FilesInv, ListOver
  <2>2. \A e \in SlotsOf(image) : IsSlot(e)
    BY <2>1, SlotTyped
  <2>3. FindEntrypoint(entries).ext \in {"BAT", "EXE"}
    BY <2>1, <2>2, EntrypointIn
  <2>4. PICK e : e = FindEntrypoint(entries)
    OBVIOUS
  <2>5. /\ entries' = entries /\ next' = 1 /\ pc' = "read" /\ entry' = e
        /\ FindEntrypoint(entries)' = e
    BY <1>4, <2>4 DEF ListOver, StartReading
  <2>6. CASE e.ext = "BAT"
    <3>1. purpose' = "batch" /\ queue' = queue
      BY <1>4, <2>4, <2>6 DEF ListOver, StartReading
    <3>. QED  BY <1>1, <2>5, <2>6, <3>1 DEF QueueInv, IsBatch
  <2>7. CASE e.ext # "BAT"
    <3>1. purpose' = "program" /\ queue' = <<e>>
      BY <1>4, <2>4, <2>7 DEF ListOver, StartReading
    <3>2. e.ext = "EXE" /\ Len(<<e>>) = 1 /\ <<e>>[1] = e
      BY <2>3, <2>4, <2>7
    <3>3. Ordered'
      BY <2>5, <2>7, <3>1, <3>2 DEF Ordered
    <3>. QED  BY <2>5, <3>1, <3>3 DEF QueueInv
  <2>. QED  BY <2>6, <2>7
<1>. QED  BY <1>2, <1>3, <1>4 DEF List

LEMMA QueueRead == TypeInv /\ FileInv /\ QueueInv /\ ReadStep => QueueInv'
<1>. SUFFICES ASSUME TypeInv, FileInv, QueueInv, ReadStep  PROVE QueueInv'
  OBVIOUS
<1>1. CASE ReadNext \/ ReadOver
  <2>1. /\ pc = "read" /\ pc' \in {"read", AfterRead, "failed"}
        /\ UNCHANGED <<queue, entries, disk, fs, entry, purpose, next>>
    BY <1>1 DEF ReadNext, ReadOver, found, reading
  <2>2. Ordered' = Ordered
    BY <2>1, SameOrder
  <2>3. IsBatch' = IsBatch
    BY <2>1 DEF IsBatch
  <2>4. CASE purpose = "program"
    BY <2>1, <2>2, <2>4 DEF QueueInv, AfterRead
  <2>5. CASE purpose = "batch"
    <3>1. queue = <<>> /\ next = 1 /\ IsBatch /\ Queued(1)
      BY <2>1, <2>5, StartQueued DEF QueueInv
    <3>2. Queued(1)'
      <4>1. Programs' = Programs /\ (\A i : Names(i)' = Names(i))
            /\ \A n : Before(n)' = Before(n)
        BY <2>1, SameLines
      <4>. QED  BY <2>1, <3>1, <4>1 DEF Queued, Placed
    <3>3. Queued(next)'
      BY <2>1, <3>1, <3>2
    <3>. QED  BY <2>1, <2>3, <2>5, <3>1, <3>3 DEF QueueInv, AfterRead
  <2>. QED  BY <2>4, <2>5 DEF TypeInv, ReadInv
<1>2. CASE QueueNext
  <2>1. pc = "batch" /\ pc' = pc /\ UNCHANGED <<entry, purpose, entries>>
    BY <1>2 DEF QueueNext, reading
  <2>2. purpose = "batch" /\ IsBatch'
    BY <2>1 DEF QueueInv, IsBatch
  <2>. QED  BY <1>2, <2>1, <2>2, QueueLine DEF QueueInv
<1>3. CASE QueueOver
  <2>1. CASE queue = <<>>
    <3>1. pc = "batch" /\ purpose' = purpose /\ pc' = "failed"
      BY <1>3, <2>1 DEF QueueOver, reading
    <3>2. purpose = "batch"
      BY <3>1 DEF QueueInv
    <3>. QED  BY <3>1, <3>2 DEF QueueInv
  <2>2. CASE queue # <<>>
    <3>1. purpose' = "program" /\ pc' = "read"
      BY <1>3, <2>2 DEF QueueOver, StartReading
    <3>2. Ordered'
      BY <1>3, <2>2, QueueIsOrdered
    <3>. QED  BY <3>1, <3>2 DEF QueueInv
  <2>. QED  BY <2>1, <2>2
<1>. QED  BY <1>1, <1>2, <1>3 DEF ReadStep

LEMMA QueueInductive == TypeInv /\ FileInv /\ QueueInv /\ [Next]_vars => QueueInv'
<1>1. QueueInv /\ UNCHANGED vars => QueueInv'
  <2>. SUFFICES ASSUME QueueInv, UNCHANGED vars  PROVE QueueInv'
    OBVIOUS
  <2>1. UNCHANGED <<pc, queue, entries, disk, fs, entry, purpose, next>>
    BY DEF vars, found, reading
  <2>2. Ordered' = Ordered /\ IsBatch' = IsBatch
    BY <2>1, SameOrder DEF IsBatch
  <2>3. Queued(next)' = Queued(next)
    <3>1. Programs' = Programs /\ (\A i : Names(i)' = Names(i))
          /\ \A n : Before(n)' = Before(n)
      BY <2>1, SameLines
    <3>2. \A i : Placed(i)' = Placed(i)
      BY <2>1, <3>1 DEF Placed
    <3>. QED  BY <2>1, <3>1, <3>2 DEF Queued
  <2>. QED  BY <2>1, <2>2, <2>3 DEF QueueInv
<1>2. TypeInv /\ QueueInv /\ (Open \/ Find) => QueueInv'
  <2>. SUFFICES ASSUME TypeInv, QueueInv, Open \/ Find  PROVE QueueInv'
    OBVIOUS
  <2>1. /\ pc \in {"open", "scan", "boot"}
        /\ pc' \in {"execute", "scan", "failed", "panicked", "list", "boot", "done"}
        /\ queue' = queue /\ purpose' = purpose
    BY DEF Open, OpenExe, OpenDisk, OpenFails, Find, Scan, NotDetected, BootSector, reading
  <2>2. queue = <<>> /\ purpose = "program"
    BY <2>1 DEF QueueInv, TypeInv, ReadInv
  <2>. QED  BY <2>1, <2>2 DEF QueueInv
<1>3. TypeInv /\ QueueInv /\ Load => QueueInv'
  <2>. SUFFICES ASSUME TypeInv, QueueInv, Load  PROVE QueueInv'
    OBVIOUS
  <2>1. /\ pc \in {"execute", "relocate"}
        /\ pc' \in {"done", "relocate", "failed", "panicked"}
        /\ UNCHANGED <<queue, entries, disk, fs, purpose>>
    BY DEF Load, ExecuteCom, ExecuteMz, ExecuteFails, RelocateNext, Enter, found, reading
  <2>2. Ordered' = Ordered
    BY <2>1, SameOrder
  <2>. QED  BY <2>1, <2>2 DEF QueueInv
<1>. QED  BY <1>1, <1>2, <1>3, QueueListed, QueueRead DEF Next, Over

\* The queue holds the programs of the BAT file's lines, in their order, for
\* every directory and every BAT file (runtime/mod.rs).
THEOREM QueueTheorem == Spec => []QueueFollowsTheBatch
<1>1. Init => TypeInv /\ FileInv /\ QueueInv
  BY TypeInit, FileInit, QueueInit
<1>2. (TypeInv /\ FileInv /\ QueueInv) /\ [Next]_vars => (TypeInv /\ FileInv /\ QueueInv)'
  BY TypeNext, FileNext, QueueInductive
<1>3. QueueInv => QueueFollowsTheBatch
  BY DEF QueueInv, Ordered, Placed, QueueFollowsTheBatch
<1>. QED  BY <1>1, <1>2, <1>3, PTL DEF Spec

-----------------------------------------------------------------------------
\* Runtime::new comes to an end: what is left of a part gets less.  The parts
\* have their order by what each action does to pc alone.

StageTable ==
  /\ pc = "open" => Stage = 9
  /\ pc = "scan" => Stage = 8
  /\ pc = "boot" => Stage = 7
  /\ pc = "list" => Stage = 6
  /\ pc = "read" => Stage = IF purpose = "batch" THEN 5 ELSE 3
  /\ pc = "batch" => Stage = 4
  /\ pc = "execute" => Stage = 2
  /\ pc = "relocate" => Stage = 1
  /\ Ended => Stage = 0

LEMMA StageOf == StageTable /\ StageTable'
<1>1. StageTable
  <2>1. pc = "open" => Stage = 9
    BY DEF Stage, PartsLeft
  <2>2. pc = "scan" => Stage = 8
    BY DEF Stage, PartsLeft
  <2>3. pc = "boot" => Stage = 7
    BY DEF Stage, PartsLeft
  <2>4. pc = "list" => Stage = 6
    BY DEF Stage, PartsLeft
  <2>5. pc = "read" => Stage = IF purpose = "batch" THEN 5 ELSE 3
    BY DEF Stage, PartsLeft
  <2>6. pc = "batch" => Stage = 4
    BY DEF Stage, PartsLeft
  <2>7. pc = "execute" => Stage = 2
    BY DEF Stage, PartsLeft
  <2>8. pc = "relocate" => Stage = 1
    BY DEF Stage, PartsLeft
  <2>9. Ended => Stage = 0
    BY DEF Stage, PartsLeft, Ended
  <2>. QED
    BY <2>1, <2>2, <2>3, <2>4, <2>5, <2>6, <2>7, <2>8, <2>9 DEF StageTable
<1>. QED  BY <1>1, PTL

LEMMA FewerSectors ==
  ASSUME TypeInv, Scan
  PROVE  Stage' < Stage \/ (Stage' = Stage /\ Left' \in 0 .. Left - 1)
<1>1. CASE Detects(disk, lba)
  <2>1. pc = "scan" /\ pc' = "list"
    BY <1>1 DEF Scan
  <2>2. Stage' < Stage
    BY <2>1, StageOf DEF StageTable
  <2>. QED  BY <2>2
<1>2. CASE ~Detects(disk, lba)
  <2>1. /\ pc = "scan" /\ pc' = "scan" /\ lba' = lba + 1 /\ lba < ScanLimit
        /\ lba \in Nat
    BY <1>2 DEF Scan, TypeInv, FsInv
  <2>2. ScanLimit \in Nat
    BY DEF ScanLimit
  <2>3. Left = ScanLimit - lba /\ Left' = ScanLimit - lba'
    BY <2>1 DEF Left
  <2>4. Stage' = Stage
    BY <2>1, StageOf DEF StageTable
  <2>. QED  BY <2>1, <2>2, <2>3, <2>4
<1>. QED  BY <1>1, <1>2

LEMMA FewerSlots ==
  ASSUME TypeInv, ListNext
  PROVE  Stage' = Stage /\ Left' \in 0 .. Left - 1
<1>1. /\ pc = "list" /\ pc' = "list" /\ fs' = fs /\ next' = next + 1
      /\ next <= fs.entries
  BY DEF ListNext, HasSlot
<1>2. next \in Nat /\ fs.entries \in Nat
  <2>1. fs # NoFs
    BY <1>1 DEF TypeInv, FsInv
  <2>. QED  BY <2>1, FoundFs DEF TypeInv, FilesInv, IsFs
<1>3. Left = fs.entries + 1 - next /\ Left' = fs.entries + 1 - next'
  BY <1>1 DEF Left
<1>4. Stage' = Stage
  BY <1>1, StageOf DEF StageTable
<1>. QED  BY <1>1, <1>2, <1>3, <1>4

\* A cluster has at least a byte.
LEMMA FewerBytes ==
  ASSUME TypeInv, ReadNext
  PROVE  Stage' < Stage \/ (Stage' = Stage /\ Left' \in 0 .. Left - 1)
<1>. DEFINE more == data \o ReadCluster(disk, fs, cluster)
<1>1. pc = "read" /\ fs # NoFs /\ HasCluster(disk, fs, cluster) /\ cluster \in Nat
  BY DEF ReadNext, HasCluster, TypeInv, FsInv, ReadInv
<1>2. IsFs(fs) /\ disk.data \in Seq(Byte)
  BY <1>1, FoundFs DEF TypeInv
<1>3. ClusterBytes(fs) \in Nat \ {0}
  <2>1. fs.spc \in Nat \ {0} /\ SectorSize \in Nat \ {0}
    BY <1>2, SizeNat DEF IsFs
  <2>. QED  BY <2>1, Products DEF ClusterBytes
<1>4. /\ data \in Seq(Byte) /\ ReadCluster(disk, fs, cluster) \in Seq(Byte)
      /\ Len(ReadCluster(disk, fs, cluster)) = ClusterBytes(fs)
  BY <1>1, <1>2, ClusterBytesRead DEF TypeInv, ReadInv
<1>5. Len(data) \in Nat /\ Len(more) = Len(data) + ClusterBytes(fs)
  BY <1>4, ConcatProperties, LenProperties
<1>6. entry.size \in Nat /\ purpose \in {"batch", "program"}
  BY SlotTyped DEF TypeInv, DiskInv, ReadInv, IsSlot
<1>7. \/ pc' = AfterRead /\ purpose' = purpose
      \/ pc' = "failed"
      \/ /\ Len(more) < entry.size /\ pc' = "read" /\ data' = more
         /\ entry' = entry /\ purpose' = purpose
  <2>1. CASE Len(more) >= entry.size
    BY <2>1 DEF ReadNext
  <2>2. CASE ~(Len(more) >= entry.size)
    <3>1. Len(more) < entry.size
      BY <2>2, <1>3, <1>5, <1>6
    <3>. QED  BY <1>1, <2>2, <3>1 DEF ReadNext
  <2>. QED  BY <2>1, <2>2
<1>. HIDE DEF more
<1>8. CASE pc' = AfterRead /\ purpose' = purpose
  <2>1. pc' = IF purpose = "batch" THEN "batch" ELSE "execute"
    BY <1>8 DEF AfterRead
  <2>2. Stage' < Stage
    BY <1>1, <1>6, <2>1, StageOf DEF StageTable
  <2>. QED  BY <2>2
<1>9. CASE pc' = "failed"
  <2>1. Stage' < Stage
    BY <1>1, <1>9, StageOf DEF StageTable, Ended
  <2>. QED  BY <2>1
<1>10. CASE /\ Len(more) < entry.size /\ pc' = "read" /\ data' = more
            /\ entry' = entry /\ purpose' = purpose
  <2>1. Left = entry.size - Len(data) /\ Left' = entry.size - Len(more)
    BY <1>1, <1>10 DEF Left
  <2>2. Stage' = Stage
    BY <1>1, <1>10, StageOf DEF StageTable
  <2>. QED  BY <1>3, <1>5, <1>6, <1>10, <2>1, <2>2, SMTT(60)
<1>. QED  BY <1>7, <1>8, <1>9, <1>10

LEMMA FewerLines ==
  ASSUME TypeInv, QueueNext
  PROVE  Stage' = Stage /\ Left' \in 0 .. Left - 1
<1>1. /\ pc = "batch" /\ pc' = "batch" /\ data' = data /\ next' = next + 1
      /\ next <= Len(data)
  BY DEF QueueNext, reading
<1>2. next \in Nat /\ Len(data) \in Nat
  BY LenProperties DEF TypeInv, FilesInv, ReadInv
<1>3. Left = Len(data) + 1 - next /\ Left' = Len(data) + 1 - next'
  BY <1>1 DEF Left
<1>4. Stage' = Stage
  BY <1>1, StageOf DEF StageTable
<1>. QED  BY <1>1, <1>2, <1>3, <1>4

LEMMA FewerRelocations ==
  ASSUME TypeInv, RelocateNext, WordAt(data, 6) \in Nat
  PROVE  Stage' = Stage /\ Left' \in 0 .. Left - 1
<1>1. /\ pc = "relocate" /\ pc' = "relocate" /\ data' = data
      /\ reloc' = reloc + 1 /\ reloc < WordAt(data, 6)
  BY DEF RelocateNext, reading, HasReloc
<1>2. reloc \in Nat
  BY DEF TypeInv, ReadInv
<1>3. Left = WordAt(data, 6) - reloc /\ Left' = WordAt(data, 6) - reloc'
  BY <1>1 DEF Left
<1>4. Stage' = Stage
  BY <1>1, StageOf DEF StageTable
<1>. QED  BY <1>1, <1>2, <1>3, <1>4

\* The steps from one part to another.
LEMMA FewerParts ==
  ASSUME TypeInv,
         \/ Open \/ NotDetected \/ BootSector \/ ListOver \/ ListFails \/ ReadOver
         \/ QueueOver \/ ExecuteCom \/ ExecuteMz \/ ExecuteFails \/ Enter
  PROVE  Stage' < Stage
<1>1. purpose \in {"batch", "program"}
  BY DEF TypeInv, ReadInv
<1>2. CASE Open
  <2>1. pc = "open" /\ pc' \in {"execute", "scan", "failed", "panicked"}
    BY <1>2 DEF Open, OpenExe, OpenDisk, OpenFails
  <2>. QED  BY <2>1, StageOf DEF StageTable, Ended
<1>3. CASE NotDetected \/ BootSector
  <2>1. \/ pc = "scan" /\ pc' = "boot"
        \/ pc = "boot" /\ pc' \in {"done", "failed"}
    BY <1>3 DEF NotDetected, BootSector
  <2>. QED  BY <2>1, StageOf DEF StageTable, Ended
<1>4. CASE ListOver \/ ListFails
  <2>1. pc = "list" /\ pc' \in {"read", "failed"}
    BY <1>4 DEF ListOver, ListFails, StartReading
  <2>. QED  BY <2>1, StageOf DEF StageTable, Ended
<1>5. CASE ReadOver
  <2>1. pc = "read" /\ pc' = IF purpose = "batch" THEN "batch" ELSE "execute"
    BY <1>5 DEF ReadOver, AfterRead
  <2>. QED  BY <1>1, <2>1, StageOf DEF StageTable
<1>6. CASE QueueOver
  <2>1. /\ pc = "batch"
        /\ \/ pc' = "read" /\ purpose' = "program"
           \/ pc' = "failed"
    BY <1>6 DEF QueueOver, StartReading
  <2>. QED  BY <2>1, StageOf DEF StageTable, Ended
<1>7. CASE ExecuteCom \/ ExecuteMz \/ ExecuteFails \/ Enter
  <2>1. \/ pc = "execute" /\ pc' \in {"done", "relocate", "failed", "panicked"}
        \/ pc = "relocate" /\ pc' = "done"
    BY <1>7 DEF ExecuteCom, ExecuteMz, ExecuteFails, Enter
  <2>. QED  BY <2>1, StageOf DEF StageTable, Ended
<1>. QED  BY <1>2, <1>3, <1>4, <1>5, <1>6, <1>7

\* Every step of Runtime::new comes nearer to its end: on no image does it go
\* in a circle, whatever chain, directory, BAT file or header the image has.
THEOREM AdvanceTheorem == Spec => StartupAdvances
<1>1. ASSUME TypeInv, LoadInv, [Next]_vars
      PROVE  [\/ Stage' < Stage
              \/ Stage' = Stage /\ Left' \in 0 .. Left - 1]_vars
  <2>. SUFFICES ASSUME Next, ~Over
                PROVE  \/ Stage' < Stage
                       \/ Stage' = Stage /\ Left' \in 0 .. Left - 1
    BY <1>1 DEF Over
  <2>1. CASE RelocateNext
    <3>1. ~ShortHeader(data) /\ data \in Seq(Byte)
      BY <1>1, <2>1 DEF RelocateNext, LoadInv, RelocateInv, TypeInv, ReadInv
    <3>2. WordAt(data, 6) \in Nat
      <4>1. Len(data) \in Nat /\ Len(data) >= 28
        BY <3>1, LenProperties DEF ShortHeader
      <4>2. 6 \in Nat /\ 6 + 2 <= Len(data)
        BY <4>1
      <4>3. WordAt(data, 6) \in Word
        BY <3>1, <4>2, WordOf
      <4>. QED  BY <4>3, WordInt
    <3>. QED  BY <1>1, <2>1, <3>2, FewerRelocations
  <2>2. CASE Scan \/ ListNext \/ ReadNext \/ QueueNext
    BY <1>1, <2>2, FewerSectors, FewerSlots, FewerBytes, FewerLines
  <2>3. CASE ~(RelocateNext \/ Scan \/ ListNext \/ ReadNext \/ QueueNext)
    <3>1. \/ Open \/ NotDetected \/ BootSector \/ ListOver \/ ListFails \/ ReadOver
          \/ QueueOver \/ ExecuteCom \/ ExecuteMz \/ ExecuteFails \/ Enter
      BY <2>3 DEF Next, Find, List, ReadStep, Load
    <3>2. Stage' < Stage
      BY <1>1, <3>1, FewerParts
    <3>. QED  BY <3>2
  <2>. QED  BY <2>1, <2>2, <2>3
<1>. QED  BY <1>1, LoadAlways, PTL DEF Spec, StartupAdvances

=============================================================================
