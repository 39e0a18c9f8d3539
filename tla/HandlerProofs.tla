--------------------------- MODULE HandlerProofs ---------------------------
(***************************************************************************)
(* Every handler keeps the machine well typed, and so do the DOS file      *)
(* table and the loader below it.                                          *)
(***************************************************************************)
EXTENDS OperandProofs, FiniteSetTheorems, SequenceTheorems

-----------------------------------------------------------------------------
\* The file table.

LEMMA DosNewTyped == IsDos(DosNew)
<1>1. RBase \in Word
  BY WordRange DEF RBase
<1>. QED  BY <1>1 DEF IsDos, DosNew

LEMMA InsertTyped ==
  ASSUME NEW d, IsDos(d), NEW h \in Word, NEW data \in Seq(Byte)
  PROVE  IsDos(Insert(d, h, data)) /\ Insert(d, h, data).next = d.next
<1>. DEFINE new == [data |-> data, pos |-> 0]
            files == [x \in DOMAIN d.files \cup {h} |->
                        IF x = h THEN new ELSE d.files[x]]
<1>1. new \in Handle
  BY DEF Handle
<1>2. Insert(d, h, data) = [d EXCEPT !.files = files]
  BY DEF Insert
<1>. HIDE DEF new
<1>3. DOMAIN files \subseteq Word /\ files \in [DOMAIN files -> Handle]
  BY <1>1 DEF IsDos
<1>. HIDE DEF files
<1>. QED  BY <1>2, <1>3 DEF IsDos

LEMMA VirtualHandleTyped ==
  ASSUME NEW d, IsDos(d)
  PROVE  VirtualHandle(d) \in Word
<1>1. IsFiniteSet(DOMAIN d.files)
  <2>1. WordSize - 1 \in Int /\ 0 \in Int
    BY WordSizeNat
  <2>2. IsFiniteSet(Word)
    BY <2>1, FS_Interval DEF Word
  <2>. QED  BY <2>2, FS_Subset DEF IsDos
<1>2. VBase + Cardinality(DOMAIN d.files) \in Int
  BY <1>1, FS_CardinalityType DEF VBase
<1>. QED  BY <1>2, WrapInWord DEF VirtualHandle

LEMMA OpenTyped ==
  ASSUME NEW d, IsDos(d)
  PROVE  /\ \A data \in Seq(Byte) : IsDos(OpenVirtual(d, data))
         /\ \A path \in DOMAIN HostFiles : IsDos(OpenReal(d, path))
<1>1. \A data \in Seq(Byte) : IsDos(OpenVirtual(d, data))
  BY VirtualHandleTyped, InsertTyped DEF OpenVirtual
<1>2. ASSUME NEW path \in DOMAIN HostFiles  PROVE IsDos(OpenReal(d, path))
  <2>. DEFINE t == Insert(d, d.next, HostFiles[path])
  <2>1. d.next \in Word /\ HostFiles[path] \in Seq(Byte)
    BY HostFilesAssumption DEF IsDos
  <2>2. IsDos(t) /\ t.next = d.next
    BY <2>1, InsertTyped
  <2>3. Wrap16(t.next + 1) \in Word
    <3>1. t.next + 1 \in Int
      BY <2>1, <2>2, WordRange
    <3>. QED  BY <3>1, WrapInWord
  <2>. HIDE DEF t
  <2>4. IsDos([t EXCEPT !.next = Wrap16(t.next + 1)])
    BY <2>2, <2>3 DEF IsDos
  <2>. QED  BY <2>4 DEF OpenReal, t
<1>. QED  BY <1>1, <1>2

LEMMA MoveToTyped ==
  ASSUME NEW d, IsDos(d), NEW h \in DOMAIN d.files, NEW pos \in Nat
  PROVE  IsDos(MoveTo(d, h, pos))
<1>. DEFINE files == [d.files EXCEPT ![h] = [d.files[h] EXCEPT !.pos = pos]]
<1>1. [d.files[h] EXCEPT !.pos = pos] \in Handle
  BY DEF IsDos, Handle
<1>2. DOMAIN files = DOMAIN d.files /\ files \in [DOMAIN d.files -> Handle]
  BY <1>1 DEF IsDos
<1>3. MoveTo(d, h, pos) = [d EXCEPT !.files = files]
  BY DEF MoveTo
<1>. HIDE DEF files
<1>. QED  BY <1>2, <1>3 DEF IsDos

LEMMA ChunkTyped ==
  ASSUME NEW f \in Handle, NEW count \in Word
  PROVE  /\ Chunk(f, count) \in Seq(Byte)
         /\ Len(Chunk(f, count)) \in Word
<1>. DEFINE n == IF f.pos + count < Len(f.data) THEN f.pos + count
                                               ELSE Len(f.data)
<1>1. /\ f.pos \in Nat /\ f.data \in Seq(Byte) /\ Len(f.data) \in Nat
      /\ count \in Nat /\ count <= 65535
  BY WordRange DEF Handle
<1>2. n \in Int /\ n <= Len(f.data) /\ n <= f.pos + count
  BY <1>1
<1>3. \A i \in f.pos + 1 .. n : f.data[i] \in Byte
  BY <1>1, <1>2
<1>. HIDE DEF n
<1>4. /\ SubSeq(f.data, f.pos + 1, n) \in Seq(Byte)
      /\ Len(SubSeq(f.data, f.pos + 1, n))
           = IF f.pos + 1 <= n THEN n - (f.pos + 1) + 1 ELSE 0
  BY <1>1, <1>2, <1>3, SubSeqProperties
<1>5. Len(SubSeq(f.data, f.pos + 1, n)) \in Word
  <2>. DEFINE len == IF f.pos + 1 <= n THEN n - (f.pos + 1) + 1 ELSE 0
  <2>1. len \in Int /\ 0 <= len /\ len <= 65535
    BY SMTT(60), <1>1, <1>2
  <2>2. len \in Word
    <3>. HIDE DEF len
    <3>. QED  BY <2>1, WordRange
  <2>. QED  BY <1>4, <2>2
<1>. QED  BY <1>4, <1>5 DEF Chunk, n

-----------------------------------------------------------------------------
\* The loader.

LEMMA LoadComTyped ==
  ASSUME NEW s, IsMachine(s), NEW f, IsImage(f)
  PROVE  IsMachine(LoadCom(s, f))
<1>1. LoadSeg \in Word /\ ComOff \in Addr /\ ComOff \in Word
  BY WordRange, WordAddr DEF LoadSeg, ComOff
<1>2. Phys(LoadSeg, ComOff) \in Addr
  BY <1>1, PhysInAddr, WordRange
<1>3. IsMem(LoadBytes(s.mem, Phys(LoadSeg, ComOff), f.code))
  BY <1>2, Parts, LoadBytesIsMem DEF IsImage
<1>. DEFINE r == SetIp(SetSeg(s.regs, CS, LoadSeg), ComOff)
            q == SetSeg(SetSeg(r, DS, LoadSeg), ES, LoadSeg)
<1>4. r \in Regs
  BY <1>1, Parts, SetSegRegs, SetIpRegs DEF CS, SegReg
<1>. HIDE DEF r
<1>5. q \in Regs
  BY <1>1, <1>4, SetSegRegs DEF DS, ES, SegReg
<1>6. LoadCom(s, f) =
        [s EXCEPT !.mem = LoadBytes(s.mem, Phys(LoadSeg, ComOff), f.code),
                  !.regs = q]
  BY DEF LoadCom, r
<1>. HIDE DEF q
<1>. QED  BY <1>3, <1>5, <1>6 DEF IsMachine

LEMMA LoadMzTyped ==
  ASSUME NEW s, IsMachine(s), NEW f, IsImage(f)
  PROVE  IsMachine(LoadMz(s, f))
<1>1. LoadSeg \in Word /\ 0 \in Int
  BY WordRange DEF LoadSeg
<1>2. Phys(LoadSeg, 0) \in Addr
  BY <1>1, PhysInAddr, WordRange
<1>3. IsMem(LoadBytes(s.mem, Phys(LoadSeg, 0), f.code))
  BY <1>2, Parts, LoadBytesIsMem DEF IsImage
<1>4. Wrap16(LoadSeg + f.cs) \in Word /\ Wrap16(LoadSeg + f.ss) \in Word
  <2>1. LoadSeg + f.cs \in Int /\ LoadSeg + f.ss \in Int
    BY <1>1, WordRange DEF IsImage
  <2>. QED  BY <2>1, WrapInWord
<1>. DEFINE r1 == SetIp(SetSeg(s.regs, CS, Wrap16(LoadSeg + f.cs)), f.ip)
            r2 == Set16(SetSeg(r1, SS, Wrap16(LoadSeg + f.ss)), SP, f.sp)
            q == SetSeg(SetSeg(r2, DS, LoadSeg), ES, LoadSeg)
<1>5. f.ip \in Addr /\ f.sp \in Word
  BY WordAddr DEF IsImage
<1>6. r1 \in Regs
  <2>1. SetSeg(s.regs, CS, Wrap16(LoadSeg + f.cs)) \in Regs
    BY <1>4, Parts, SetSegRegs DEF CS, SegReg
  <2>. QED  BY <1>5, <2>1, SetIpRegs
<1>. HIDE DEF r1
<1>7. r2 \in Regs
  <2>1. SetSeg(r1, SS, Wrap16(LoadSeg + f.ss)) \in Regs
    BY <1>4, <1>6, SetSegRegs DEF SS, SegReg
  <2>. QED  BY <1>5, <2>1, Set16Regs DEF SP, Reg
<1>. HIDE DEF r2
<1>8. q \in Regs
  BY <1>1, <1>7, SetSegRegs DEF DS, ES, SegReg
<1>9. LoadMz(s, f) =
        [s EXCEPT !.mem = LoadBytes(s.mem, Phys(LoadSeg, 0), f.code),
                  !.regs = q]
  BY DEF LoadMz, r1, r2
<1>. HIDE DEF q
<1>. QED  BY <1>3, <1>8, <1>9 DEF IsMachine

LEMMA ExecuteBinaryTyped ==
  ASSUME NEW s, IsMachine(s), NEW f, IsImage(f)
  PROVE  IsMachine(ExecuteBinary(s, f))
  BY LoadComTyped, LoadMzTyped DEF ExecuteBinary

LEMMA LoadBootSectorTyped ==
  ASSUME NEW s, IsMachine(s), NEW sector \in Seq(Byte)
  PROVE  IsMachine(LoadBootSector(s, sector))
<1>1. /\ BootSeg \in Word /\ BootOff \in Word /\ BootOff \in Addr
      /\ 0 \in Word /\ 31742 \in Word
  BY WordRange, WordAddr DEF BootSeg, BootOff
<1>2. Phys(BootSeg, BootOff) \in Addr
  BY <1>1, PhysInAddr, WordRange
<1>3. IsMem(LoadBytes(s.mem, Phys(BootSeg, BootOff), sector))
  BY <1>2, Parts, LoadBytesIsMem
<1>. DEFINE r == SetIp(SetSeg(s.regs, CS, BootSeg), BootOff)
            q == Set16(SetSeg(r, SS, 0), SP, 31742)
<1>4. r \in Regs
  BY <1>1, Parts, SetSegRegs, SetIpRegs DEF CS, SegReg
<1>. HIDE DEF r
<1>5. q \in Regs
  BY <1>1, <1>4, SetSegRegs, Set16Regs DEF SS, SP, SegReg, Reg
<1>6. LoadBootSector(s, sector) =
        [s EXCEPT !.mem = LoadBytes(s.mem, Phys(BootSeg, BootOff), sector),
                  !.regs = q]
  BY DEF LoadBootSector, r
<1>. HIDE DEF q
<1>. QED  BY <1>3, <1>5, <1>6 DEF IsMachine

-----------------------------------------------------------------------------
\* The handlers' vocabulary.

LEMMA With8Typed ==
  ASSUME NEW s, IsMachine(s), NEW i \in Reg, NEW v \in Byte
  PROVE  IsMachine(With8(s, i, v))
  BY Set8Typed DEF With8

LEMMA With16Typed ==
  ASSUME NEW s, IsMachine(s), NEW i \in Reg, NEW v \in Word
  PROVE  IsMachine(With16(s, i, v))
  BY Set16Typed DEF With16

LEMMA CarryTyped ==
  ASSUME NEW s, IsMachine(s)
  PROVE  IsMachine(Fails(s)) /\ IsMachine(Succeeds(s)) /\ IsMachine(NoKey(s))
<1>1. \A on \in BOOLEAN :
        /\ IsMachine([s EXCEPT !.regs = SetFlag(@, CarryFlag, on)])
        /\ IsMachine([s EXCEPT !.regs = SetFlag(@, ZeroFlag, on)])
  BY SetFlagTyped, FlagNames
<1>. QED  BY <1>1, Zenon DEF Fails, Succeeds, NoKey

LEMMA RegNames ==
  /\ AX \in Reg /\ BX \in Reg /\ CX \in Reg /\ DX \in Reg /\ SI \in Reg
  /\ AL \in Reg /\ CL \in Reg /\ DL \in Reg
  /\ AH \in Reg /\ CH \in Reg /\ DH \in Reg /\ BH \in Reg
  /\ DS \in SegReg /\ ES \in SegReg /\ CS \in SegReg /\ SS \in SegReg
  BY DEF AX, BX, CX, DX, SI, AL, CL, DL, AH, CH, DH, BH, DS, ES, CS, SS,
     Reg, SegReg

LEMMA Arguments ==
  ASSUME NEW s, IsMachine(s)
  PROVE  /\ Ah(s) \in Byte /\ Al(s) \in Byte
         /\ \A i \in Reg : Get16(s.regs, i) \in Word /\ Get8(s.regs, i) \in Byte
         /\ \A i \in SegReg : GetSeg(s.regs, i) \in Word
  BY Parts, Get8Byte, Get16Word, GetSegWord, RegNames DEF Ah, Al

\* An address a handler is given in a segment register and a register.
LEMMA PointerAddr ==
  ASSUME NEW s, IsMachine(s), NEW i \in SegReg, NEW j \in Reg
  PROVE  Phys(GetSeg(s.regs, i), Get16(s.regs, j)) \in Addr
  BY Parts, Arguments, SegPhys, WordAddr

LEMMA SmallNumbers ==
  /\ 0 \in Byte /\ 1 \in Byte /\ 2 \in Byte /\ 3 \in Byte /\ 4 \in Byte
  /\ 255 \in Byte
  /\ 0 \in Word /\ 2 \in Word /\ 5 \in Word /\ 33 \in Word /\ 640 \in Word
  /\ 4608 \in Word /\ 32768 \in Word /\ 256 * 80 + 3 \in Word
  BY ByteRange, WordRange

LEMMA SystemTyped ==
  ASSUME NEW s, IsMachine(s)
  PROVE  /\ IsMachine(Int10(s)) /\ IsMachine(Int11(s)) /\ IsMachine(Int12(s))
         /\ IsMachine(Int15(s)) /\ IsMachine(Int16(s)) /\ IsMachine(Int18(s))
         /\ IsMachine(Int1a(s)) /\ IsMachine(Int1f(s))
<1>1. IsMachine(Fails(s)) /\ IsMachine(NoKey(s))
  BY CarryTyped
<1>2. /\ IsMachine(With16(s, AX, 0)) /\ IsMachine(With16(s, DX, 0))
      /\ IsMachine(With16(s, AX, 33)) /\ IsMachine(With16(s, AX, 640))
      /\ IsMachine(With16(s, AX, 256 * 80 + 3))
      /\ IsMachine(With16(s, AX, 4608)) /\ IsMachine(With8(s, AL, 0))
  BY With16Typed, With8Typed, RegNames, SmallNumbers, SMT
<1>3. IsMachine(With8(With16(With16(s, CX, 0), DX, 0), AL, 0))
  <2>1. IsMachine(With16(s, CX, 0))
    BY With16Typed, RegNames, SmallNumbers, SMT
  <2>2. IsMachine(With16(With16(s, CX, 0), DX, 0))
    BY <2>1, With16Typed, RegNames, SmallNumbers, SMT
  <2>. QED  BY <2>2, With8Typed, RegNames, SmallNumbers, SMT
<1>4. IsMachine(Int10(s)) /\ IsMachine(Int11(s)) /\ IsMachine(Int12(s))
  BY <1>2 DEF Int10, Int11, Int12
<1>5. IsMachine(Int15(s)) /\ IsMachine(Int16(s))
  BY <1>1, <1>2 DEF Int15, Int16
<1>6. IsMachine(Int18(s)) /\ IsMachine(Int1a(s)) /\ IsMachine(Int1f(s))
  BY <1>1, <1>2, <1>3 DEF Int18, Int1a, Int1f
<1>. QED  BY <1>4, <1>5, <1>6

-----------------------------------------------------------------------------
\* INT 13h.

LEMMA ReadSectorsTyped ==
  ASSUME NEW d, IsDisk(d), NEW lba \in Nat, NEW count \in Nat,
         InRange(d, lba, count)
  PROVE  ReadSectors(d, lba, count) \in Seq(Byte)
<1>. DEFINE from == lba * SectorSize + 1
            to == (lba + count) * SectorSize
<1>1. /\ d.data \in Seq(Byte) /\ Len(d.data) \in Nat
      /\ SectorSize \in Nat /\ SectorSize > 0
  BY SectorSizeAssumption DEF IsDisk
<1>2. /\ lba * SectorSize \in Nat /\ (lba + count) * SectorSize \in Nat
      /\ (lba + count) * SectorSize <= Len(d.data)
  BY <1>1 DEF InRange
<1>3. from \in Int /\ to \in Int /\ from >= 1 /\ to <= Len(d.data)
  BY <1>2
<1>. HIDE DEF from, to
<1>4. \A i \in from .. to : d.data[i] \in Byte
  BY <1>1, <1>3
<1>5. SubSeq(d.data, from, to) \in Seq(Byte)
  BY <1>1, <1>3, <1>4, SubSeqProperties
<1>. QED  BY <1>5 DEF ReadSectors, from, to

LEMMA ChsNat ==
  ASSUME NEW d, IsDisk(d), NEW c \in Nat, NEW h \in Nat, NEW n \in Nat
  PROVE  ChsToLba(d, c, h, n) \in Nat
<1>1. d.heads \in Nat /\ d.spt \in Nat
  BY ByteRange DEF IsDisk
<1>2. c * d.heads \in Nat /\ h * d.spt \in Nat
  BY <1>1
<1>3. (c * d.heads) * d.spt \in Nat
  BY <1>1, <1>2
<1>. QED  BY <1>2, <1>3 DEF ChsToLba

LEMMA Int13ReadTyped ==
  ASSUME NEW s, IsMachine(s), NEW d, IsDisk(d)
  PROVE  IsMachine(Int13Read(s, d))
<1>. DEFINE ch == Get8(s.regs, CH)
            cl == Get8(s.regs, CL)
            dh == Get8(s.regs, DH)
            lba == ChsToLba(d, ch + 256 * (cl \div 64), dh, cl % 64)
            dest == Phys(GetSeg(s.regs, ES), Get16(s.regs, BX))
            bytes == ReadSectors(d, lba, Al(s))
            t == [s EXCEPT !.mem = LoadBytes(@, dest, bytes)]
<1>1. ch \in Nat /\ cl \in Nat /\ dh \in Nat /\ Al(s) \in Nat
  BY Arguments, RegNames, ByteRange
<1>. HIDE DEF ch, cl, dh
<1>2. cl \div 64 \in Nat /\ cl % 64 \in Nat
  BY <1>1
<1>3. lba \in Nat
  <2>1. ch + 256 * (cl \div 64) \in Nat
    BY <1>1, <1>2
  <2>. QED  BY ZenonT(90), <1>1, <1>2, <2>1, ChsNat
<1>. HIDE DEF lba
<1>4. dest \in Addr
  BY PointerAddr, RegNames
<1>. HIDE DEF dest
<1>5. ASSUME InRange(d, lba, Al(s))  PROVE IsMachine(Succeeds(With8(t, AH, 0)))
  <2>1. bytes \in Seq(Byte)
    BY <1>1, <1>3, <1>5, ReadSectorsTyped
  <2>. HIDE DEF bytes
  <2>2. IsMem(LoadBytes(s.mem, dest, bytes))
    BY <1>4, <2>1, Parts, LoadBytesIsMem
  <2>3. IsMachine(t)
    BY <2>2, WithMem
  <2>. HIDE DEF t
  <2>4. IsMachine(With8(t, AH, 0))
    BY <2>3, With8Typed, RegNames, SmallNumbers, SMT
  <2>. QED  BY <2>4, CarryTyped
<1>6. IsMachine(Fails(With8(s, AH, 1))) /\ IsMachine(Fails(With8(s, AH, 4)))
  <2>1. IsMachine(With8(s, AH, 1)) /\ IsMachine(With8(s, AH, 4))
    BY With8Typed, RegNames, SmallNumbers, SMT
  <2>. QED  BY <2>1, CarryTyped
<1>. QED  BY <1>5, <1>6 DEF Int13Read, lba, ch, cl, dh, dest

LEMMA Int13ParamsTyped ==
  ASSUME NEW s, IsMachine(s), NEW d, IsDisk(d)
  PROVE  IsMachine(Int13Params(s, d))
<1>. DEFINE cyls == IF d.cyls > 2 THEN d.cyls - 2 ELSE 0
            heads == IF d.heads > 0 THEN d.heads - 1 ELSE 0
            low == cyls % 256
            high == (d.spt % 64) + 64 * ((cyls \div 256) % 4)
            s1 == With8(With8(s, CH, low), CL, high)
            s2 == With8(With8(With8(s1, DH, heads), DL, 1), AH, 0)
<1>1. /\ d.cyls \in Int /\ d.cyls >= 0
      /\ d.heads \in Int /\ 0 <= d.heads /\ d.heads <= 255
      /\ d.spt \in Int /\ d.spt >= 0
  BY ByteRange, WordRange DEF IsDisk
<1>2. cyls \in Nat /\ heads \in Int /\ 0 <= heads /\ heads <= 255
  BY <1>1
<1>3. heads \in Byte
  <2>. HIDE DEF heads
  <2>. QED  BY <1>2, ByteRange
<1>. HIDE DEF cyls, heads
<1>4. low \in Byte /\ high \in Byte
  <2>1. low \in Int /\ 0 <= low /\ low <= 255
    BY <1>2
  <2>2. high \in Int /\ 0 <= high /\ high <= 255
    BY <1>1, <1>2
  <2>. HIDE DEF low, high
  <2>. QED  BY <2>1, <2>2, ByteRange
<1>. HIDE DEF low, high
<1>5. IsMachine(s1)
  <2>1. IsMachine(With8(s, CH, low))
    BY <1>4, With8Typed, RegNames
  <2>. QED  BY <1>4, <2>1, With8Typed, RegNames
<1>. HIDE DEF s1
<1>6. IsMachine(s2)
  <2>1. IsMachine(With8(s1, DH, heads))
    BY <1>3, <1>5, With8Typed, RegNames
  <2>2. IsMachine(With8(With8(s1, DH, heads), DL, 1))
    BY <2>1, With8Typed, RegNames, SmallNumbers, SMT
  <2>. QED  BY <2>2, With8Typed, RegNames, SmallNumbers, SMT
<1>. HIDE DEF s2
<1>7. IsMachine(Succeeds(s2)) /\ IsMachine(Fails(s))
  BY <1>6, CarryTyped
<1>. QED  BY <1>7 DEF Int13Params, s2, s1, cyls, heads, low, high

LEMMA Int13Typed ==
  ASSUME NEW s, IsMachine(s), NEW d, IsDisk(d)
  PROVE  IsMachine(Int13(s, d))
<1>1. /\ IsMachine(With8(s, AH, 0)) /\ IsMachine(With8(s, AH, 1))
      /\ IsMachine(With8(s, AH, 3))
  BY With8Typed, RegNames, SmallNumbers, SMT
<1>2. /\ IsMachine(Succeeds(With8(s, AH, 0)))
      /\ IsMachine(Fails(With8(s, AH, 1)))
      /\ IsMachine(Succeeds(With8(s, AH, 3)))
  BY <1>1, CarryTyped
<1>. QED  BY <1>2, Int13ReadTyped, Int13ParamsTyped DEF Int13

-----------------------------------------------------------------------------
\* INT 21h.

LEMMA OpenFileTyped ==
  ASSUME NEW s, IsMachine(s), NEW d, IsDisk(d)
  PROVE  IsMachine(OpenFile(s, d))
<1>. DEFINE data == d.files[TheName(OnDisk(s, d))].data
            virtual == OpenVirtual(s.dos, data)
            real == OpenReal(s.dos, TheName(OnHost(s)))
            v == [s EXCEPT !.dos = virtual]
            r == [s EXCEPT !.dos = real]
<1>1. ASSUME OnDisk(s, d) # {}
      PROVE  IsMachine(Succeeds(With16(v, AX, VirtualHandle(s.dos))))
  <2>1. TheName(OnDisk(s, d)) \in OnDisk(s, d)
    BY <1>1 DEF TheName
  <2>2. data \in Seq(Byte)
    BY <2>1 DEF OnDisk, IsDisk, IsImage
  <2>. HIDE DEF data
  <2>3. IsDos(virtual)
    BY <2>2, Parts, OpenTyped
  <2>. HIDE DEF virtual
  <2>4. IsMachine(v)
    BY <2>3, WithDos
  <2>. HIDE DEF v
  <2>5. VirtualHandle(s.dos) \in Word
    BY Parts, VirtualHandleTyped
  <2>6. IsMachine(With16(v, AX, VirtualHandle(s.dos)))
    BY <2>4, <2>5, With16Typed, RegNames
  <2>. QED  BY <2>6, CarryTyped
<1>2. ASSUME OnHost(s) # {}
      PROVE  IsMachine(Succeeds(With16(r, AX, s.dos.next)))
  <2>1. TheName(OnHost(s)) \in DOMAIN HostFiles
    BY <1>2 DEF TheName, OnHost
  <2>2. IsDos(real)
    BY <2>1, Parts, OpenTyped
  <2>. HIDE DEF real
  <2>3. IsMachine(r)
    BY <2>2, WithDos
  <2>. HIDE DEF r
  <2>4. s.dos.next \in Word
    BY Parts DEF IsDos
  <2>5. IsMachine(With16(r, AX, s.dos.next))
    BY <2>3, <2>4, With16Typed, RegNames
  <2>. QED  BY <2>5, CarryTyped
<1>3. IsMachine(Fails(With16(s, AX, 2)))
  <2>1. IsMachine(With16(s, AX, 2))
    BY With16Typed, RegNames, SmallNumbers, SMT
  <2>. QED  BY <2>1, CarryTyped
<1>. QED  BY <1>1, <1>2, <1>3 DEF OpenFile

LEMMA ReadTyped ==
  ASSUME NEW s, IsMachine(s)
  PROVE  IsMachine(Read(s))
<1>. DEFINE h == Get16(s.regs, BX)
            count == Get16(s.regs, CX)
            f == s.dos.files[h]
            chunk == Chunk(f, count)
            dest == Phys(GetSeg(s.regs, DS), Get16(s.regs, DX))
            m == LoadBytes(s.mem, dest, chunk)
            d == ReadFile(s.dos, h, count)
            t == [s EXCEPT !.mem = m, !.dos = d]
<1>1. dest \in Addr /\ count \in Word
  BY PointerAddr, Arguments, RegNames
<1>. HIDE DEF dest, count, h
<1>2. ASSUME h \in DOMAIN s.dos.files
      PROVE  IsMachine(Succeeds(With16(t, AX, Len(chunk))))
  <2>1. IsDos(s.dos) /\ f \in Handle
    BY <1>2, Parts DEF IsDos
  <2>2. f.pos \in Nat
    BY <2>1 DEF Handle
  <2>. HIDE DEF f
  <2>3. chunk \in Seq(Byte) /\ Len(chunk) \in Word
    BY <1>1, <2>1, ChunkTyped
  <2>4. f.pos + Len(chunk) \in Nat
    BY <2>2, <2>3, WordInt
  <2>5. d = MoveTo(s.dos, h, f.pos + Len(chunk))
    BY DEF ReadFile, f
  <2>. HIDE DEF chunk, d
  <2>6. IsDos(d)
    BY <1>2, <2>1, <2>4, <2>5, MoveToTyped
  <2>7. IsMem(m)
    BY <1>1, <2>3, Parts, LoadBytesIsMem
  <2>. HIDE DEF m
  <2>8. IsMachine(t)
    <3>1. IsMachine([s EXCEPT !.mem = m])
      BY <2>7, WithMem
    <3>2. IsMachine([[s EXCEPT !.mem = m] EXCEPT !.dos = d])
      BY <2>6, <3>1, WithDos
    <3>3. t = [[s EXCEPT !.mem = m] EXCEPT !.dos = d]
      BY DEF IsMachine
    <3>. QED  BY <3>2, <3>3
  <2>. HIDE DEF t
  <2>9. IsMachine(With16(t, AX, Len(chunk)))
    BY <2>3, <2>8, With16Typed, RegNames
  <2>. QED  BY <2>9, CarryTyped
<1>3. IsMachine(Fails(s))
  BY CarryTyped
<1>. QED  BY <1>2, <1>3 DEF Read, h, count, dest

LEMMA SeekTyped ==
  ASSUME NEW s, IsMachine(s)
  PROVE  IsMachine(Seek(s))
<1>. DEFINE h == Get16(s.regs, BX)
            offset == WordSize * Get16(s.regs, CX) + Get16(s.regs, DX)
            pos == SeekPos(s.dos, h, offset, Al(s))
            t == [s EXCEPT !.dos = MoveTo(@, h, pos)]
            u == With16(t, AX, Wrap16(pos))
            high == Wrap16(pos \div WordSize)
<1>1. /\ Get16(s.regs, CX) \in Nat /\ Get16(s.regs, DX) \in Nat
      /\ Al(s) \in Nat
  <2>1. Get16(s.regs, CX) \in Word /\ Get16(s.regs, DX) \in Word
        /\ Al(s) \in Byte
    BY Arguments, RegNames
  <2>. HIDE DEF h, offset, pos, t, u, high
  <2>. QED  BY <2>1, WordRange, ByteRange, SMT
<1>2. offset \in Nat
  <2>1. WordSize * Get16(s.regs, CX) \in Nat
    BY <1>1, WordSizeNat
  <2>. QED  BY <1>1, <2>1
<1>. HIDE DEF offset, h
<1>3. ASSUME h \in DOMAIN s.dos.files, Al(s) <= 2
      PROVE  IsMachine(Succeeds(With16(u, DX, high)))
  <2>1. IsDos(s.dos) /\ s.dos.files[h] \in Handle
    BY <1>3, Parts DEF IsDos
  <2>2. s.dos.files[h].pos \in Nat /\ Len(s.dos.files[h].data) \in Nat
    BY <2>1 DEF Handle
  <2>3. Al(s) = 0 \/ Al(s) = 1 \/ Al(s) = 2
    BY <1>1, <1>3
  <2>4. pos \in Nat
    <3>1. pos \in {offset, s.dos.files[h].pos + offset,
                   Len(s.dos.files[h].data) + offset}
      BY <2>3, SMT DEF SeekPos
    <3>. HIDE DEF pos
    <3>2. PICK i \in Nat, j \in Nat, k \in Nat :
            i = s.dos.files[h].pos /\ j = Len(s.dos.files[h].data) /\ k = offset
      BY ONLY <1>2, <2>2, Zenon
    <3>3. i + k \in Nat /\ j + k \in Nat
      BY ONLY i \in Nat, j \in Nat, k \in Nat
    <3>. QED  BY ONLY <3>1, <3>2, <3>3, Zenon
  <2>. HIDE DEF pos
  <2>5. IsMachine(t)
    <3>1. IsDos(MoveTo(s.dos, h, pos))
      BY <1>3, <2>1, <2>4, MoveToTyped
    <3>. QED  BY <3>1, WithDos
  <2>. HIDE DEF t
  <2>6. IsMachine(u)
    <3>1. Wrap16(pos) \in Word
      BY <2>4, WrapInWord
    <3>. QED  BY <2>5, <3>1, With16Typed, RegNames
  <2>. HIDE DEF u
  <2>7. high \in Word
    <3>1. pos \div WordSize \in Int
      BY <2>4, WordSizeNat, DivMod
    <3>. QED  BY <3>1, WrapInWord
  <2>8. IsMachine(With16(u, DX, high))
    BY <2>6, <2>7, With16Typed, RegNames
  <2>. QED  BY <2>8, CarryTyped
<1>4. IsMachine(Fails(s))
  BY CarryTyped
<1>5. ~(Al(s) > 2) <=> Al(s) <= 2
  BY <1>1
<1>. QED  BY <1>3, <1>4, <1>5 DEF Seek, h, offset

LEMMA ExecTyped ==
  ASSUME NEW s, IsMachine(s), NEW d, IsDisk(d)
  PROVE  IsMachine(Exec(s, d))
<1>. DEFINE f == d.files[TheName(OnDisk(s, d))]
            fresh == [s EXCEPT !.regs = RegsNew]
<1>1. IsMachine(fresh)
  BY RegsNewTyped, WithRegs
<1>. HIDE DEF fresh
<1>2. ASSUME OnDisk(s, d) # {}  PROVE IsMachine(Succeeds(ExecuteBinary(fresh, f)))
  <2>1. TheName(OnDisk(s, d)) \in OnDisk(s, d)
    BY <1>2 DEF TheName
  <2>2. IsImage(f)
    BY <2>1 DEF OnDisk, IsDisk
  <2>. HIDE DEF f
  <2>3. IsMachine(ExecuteBinary(fresh, f))
    BY <1>1, <2>2, ExecuteBinaryTyped
  <2>. QED  BY <2>3, CarryTyped
<1>3. IsMachine(Fails(With16(s, AX, 2))) /\ IsMachine(Fails(With16(fresh, AX, 2)))
  <2>1. IsMachine(With16(s, AX, 2)) /\ IsMachine(With16(fresh, AX, 2))
    BY <1>1, With16Typed, RegNames, SmallNumbers, SMT
  <2>. QED  BY <2>1, CarryTyped
<1>4. IsMachine(Fails(s))
  BY CarryTyped
<1>. QED  BY <1>2, <1>3, <1>4 DEF Exec, fresh

\* A vector's two words.
LEMMA VectorTyped ==
  ASSUME NEW m, IsMem(m), NEW v \in Byte
  PROVE  /\ IvtOff(m, v) \in Word /\ IvtSeg(m, v) \in Word
         /\ \A seg \in Word, off \in Word : IsMem(SetIvt(m, v, seg, off))
<1>1. 4 * v \in Addr /\ 4 * v + 2 \in Addr
  BY ByteRange, AddrRange, MemSizeNat
<1>. QED  BY <1>1, ReadU16IsWord, WriteU16IsMem DEF IvtOff, IvtSeg, SetIvt

LEMMA VectorsTyped ==
  ASSUME NEW s, IsMachine(s)
  PROVE  IsMachine(GetVector(s)) /\ IsMachine(SetVector(s))
<1>1. IvtSeg(s.mem, Al(s)) \in Word /\ IvtOff(s.mem, Al(s)) \in Word
  BY Parts, Arguments, VectorTyped
<1>2. IsMachine(GetVector(s))
  <2>. DEFINE t == [s EXCEPT !.regs = SetSeg(@, ES, IvtSeg(s.mem, Al(s)))]
  <2>1. IsMachine(t)
    BY <1>1, SetSegTyped, RegNames
  <2>. HIDE DEF t
  <2>2. IsMachine(With16(t, BX, IvtOff(s.mem, Al(s))))
    BY <1>1, <2>1, With16Typed, RegNames
  <2>. QED  BY <2>2 DEF GetVector, t
<1>3. IsMachine(SetVector(s))
  <2>. DEFINE m == SetIvt(s.mem, Al(s), GetSeg(s.regs, DS), Get16(s.regs, DX))
  <2>1. GetSeg(s.regs, DS) \in Word /\ Get16(s.regs, DX) \in Word
    BY Arguments, RegNames
  <2>2. IsMem(m)
    BY <2>1, Parts, Arguments, VectorTyped
  <2>. HIDE DEF m
  <2>3. IsMachine([s EXCEPT !.mem = m])
    BY <2>2, WithMem
  <2>. QED  BY <2>3 DEF SetVector, m
<1>. QED  BY <1>2, <1>3

LEMMA CurrentDirTyped ==
  ASSUME NEW s, IsMachine(s)
  PROVE  IsMachine(CurrentDir(s))
<1>. DEFINE a == Phys(GetSeg(s.regs, DS), Get16(s.regs, SI))
            t == [s EXCEPT !.mem = WriteU8(@, a, 0)]
<1>1. a \in Addr /\ 0 \in Byte
  BY PointerAddr, RegNames, SmallNumbers, SMT
<1>. HIDE DEF a
<1>2. IsMachine(t)
  <2>1. IsMem(WriteU8(s.mem, a, 0))
    BY <1>1, Parts, WriteU8IsMem
  <2>. QED  BY <2>1, WithMem
<1>. HIDE DEF t
<1>3. IsMachine(With8(t, AL, 0))
  BY <1>1, <1>2, With8Typed, RegNames
<1>4. IsMachine(Succeeds(With8(t, AL, 0)))
  BY <1>3, CarryTyped
<1>. QED  BY <1>4 DEF CurrentDir, a, t

LEMMA Int21Typed ==
  ASSUME NEW s, IsMachine(s), NEW d, IsDisk(d)
  PROVE  IsMachine(Int21(s, d))
<1>. DEFINE date == With16(With16(s, CX, 4608), DX, 0)
            version == With16(With8(With16(s, AX, 5), BH, 255), CX, 0)
            lists == With16([s EXCEPT !.regs = SetSeg(@, ES, 0)], BX, 0)
            ended == [s EXCEPT !.halted = TRUE]
<1>1. IsMachine(date)
  <2>1. IsMachine(With16(s, CX, 4608))
    BY With16Typed, RegNames, SmallNumbers, SMT
  <2>. QED  BY <2>1, With16Typed, RegNames, SmallNumbers, SMT
<1>2. IsMachine(version)
  <2>1. IsMachine(With16(s, AX, 5))
    BY With16Typed, RegNames, SmallNumbers, SMT
  <2>2. IsMachine(With8(With16(s, AX, 5), BH, 255))
    BY <2>1, With8Typed, RegNames, SmallNumbers, SMT
  <2>. QED  BY <2>2, With16Typed, RegNames, SmallNumbers, SMT
<1>3. IsMachine(lists)
  <2>1. IsMachine([s EXCEPT !.regs = SetSeg(@, ES, 0)])
    BY SetSegTyped, RegNames, SmallNumbers, SMT
  <2>. QED  BY <2>1, With16Typed, RegNames, SmallNumbers, SMT
<1>4. IsMachine(ended)
  BY WithHalted
<1>5. /\ IsMachine(With8(s, AL, 2)) /\ IsMachine(With8(s, DL, 0))
      /\ IsMachine(With16(s, AX, 32768))
  BY With8Typed, With16Typed, RegNames, SmallNumbers, SMT
<1>6. /\ IsMachine(Succeeds(With8(s, DL, 0))) /\ IsMachine(Succeeds(s))
      /\ IsMachine(Succeeds(With16(s, AX, 32768))) /\ IsMachine(Fails(s))
  BY <1>5, CarryTyped
<1>7. /\ IsMachine(SetVector(s)) /\ IsMachine(GetVector(s))
      /\ IsMachine(OpenFile(s, d)) /\ IsMachine(Read(s))
      /\ IsMachine(Seek(s)) /\ IsMachine(CurrentDir(s))
      /\ IsMachine(Exec(s, d))
  BY VectorsTyped, OpenFileTyped, ReadTyped, SeekTyped, CurrentDirTyped,
     ExecTyped
<1>. HIDE DEF date, version, lists, ended
<1>. QED
  BY <1>1, <1>2, <1>3, <1>4, <1>5, <1>6, <1>7
  DEF Int21, date, version, lists, ended

\* Every handler keeps the machine well typed.
THEOREM ServeTyped ==
  ASSUME NEW s, IsMachine(s), NEW d, IsDisk(d), NEW num \in Native
  PROVE  IsMachine(Serve(num, s, d))
<1>1. IsMachine([s EXCEPT !.halted = TRUE])
  BY WithHalted
<1>. QED
  BY <1>1, SystemTyped, Int13Typed, Int21Typed DEF Serve, Native

-----------------------------------------------------------------------------
\* What handlers leave alone: the place of the stack.

\* A machine record, and one whose stack lies where that of machine s does.
Shaped(t) ==
  /\ t = [regs |-> t.regs, mem |-> t.mem, dos |-> t.dos, halted |-> t.halted]
  /\ t.regs = [w |-> t.regs.w, seg |-> t.regs.seg,
               ip |-> t.regs.ip, flags |-> t.regs.flags]
  /\ DOMAIN t.regs.w = 0 .. 15 /\ DOMAIN t.regs.seg = SegReg
SameStack(s, t) ==
  /\ Shaped(t)
  /\ Get16(t.regs, SP) = Get16(s.regs, SP)
  /\ GetSeg(t.regs, SS) = GetSeg(s.regs, SS)

\* Every typed machine is of that shape.
LEMMA MachineShaped == ASSUME NEW s, IsMachine(s) PROVE SameStack(s, s)
<1>1. s.regs \in Regs /\ s = [regs |-> s.regs, mem |-> s.mem, dos |-> s.dos,
                              halted |-> s.halted]
  BY DEF IsMachine
<1>. HIDE DEF Regs
<1>2. \A r \in Regs : /\ r = [w |-> r.w, seg |-> r.seg, ip |-> r.ip,
                              flags |-> r.flags]
                      /\ DOMAIN r.w = 0 .. 15 /\ DOMAIN r.seg = SegReg
  BY DEF Regs
<1>. QED  BY <1>1, <1>2 DEF SameStack, Shaped

\* Memory, files and halted are apart from the stack's place, flags too.
LEMMA PartsKeepStack ==
  ASSUME NEW s, NEW t, SameStack(s, t)
  PROVE  /\ \A m : SameStack(s, [t EXCEPT !.mem = m])
         /\ \A d : SameStack(s, [t EXCEPT !.dos = d])
         /\ \A m, d : SameStack(s, [t EXCEPT !.mem = m, !.dos = d])
         /\ \A h : SameStack(s, [t EXCEPT !.halted = h])
<1>1. /\ \A m : SameStack(s, [t EXCEPT !.mem = m])
      /\ \A d : SameStack(s, [t EXCEPT !.dos = d])
      /\ \A h : SameStack(s, [t EXCEPT !.halted = h])
  BY DEF SameStack, Shaped
<1>2. ASSUME NEW m, NEW d  PROVE SameStack(s, [t EXCEPT !.mem = m, !.dos = d])
  <2>1. [t EXCEPT !.mem = m, !.dos = d] = [[t EXCEPT !.mem = m] EXCEPT !.dos = d]
    OBVIOUS
  <2>2. SameStack(s, [t EXCEPT !.mem = m])
    BY <1>1
  <2>3. \A u : SameStack(s, u) => SameStack(s, [u EXCEPT !.dos = d])
    BY DEF SameStack, Shaped
  <2>. QED  BY <2>1, <2>2, <2>3, Zenon
<1>. QED  BY <1>1, <1>2

LEMMA FlagsKeepStack ==
  ASSUME NEW s, NEW t, SameStack(s, t)
  PROVE  SameStack(s, Fails(t)) /\ SameStack(s, Succeeds(t))
           /\ SameStack(s, NoKey(t))
<1>1. \A f : SameStack(s, [t EXCEPT !.regs = [t.regs EXCEPT !.flags = f]])
  BY DEF SameStack, Shaped, Get16, GetSeg
<1>. QED  BY <1>1 DEF Fails, Succeeds, NoKey, SetFlag

\* So are AX, CX, DX and BX, the only registers a handler sets, and ES.
LEMMA Set16KeepsStack ==
  ASSUME NEW s, NEW t, SameStack(s, t), NEW i \in 0 .. 3, NEW v
  PROVE  SameStack(s, With16(t, i, v))
<1>1. 2 * i # 2 * SP /\ 2 * SP \in 0 .. 15
  BY DEF SP
<1>2. \A j : j # 2 * SP =>
        SameStack(s, [t EXCEPT !.regs =
                        [t.regs EXCEPT !.w = [t.regs.w EXCEPT ![j] = v]]])
  BY <1>1 DEF SameStack, Shaped, Get16, GetSeg
<1>. QED  BY <1>1, <1>2 DEF With16, Set16

LEMMA Set8KeepsStack ==
  ASSUME NEW s, NEW t, SameStack(s, t), NEW i \in Reg, NEW v
  PROVE  SameStack(s, With8(t, i, v))
<1>1. \A j \in 0 .. 3 : \A x :
        SameStack(s, [t EXCEPT !.regs = Set16(t.regs, j, x)])
  BY Set16KeepsStack DEF With16
<1>2. CASE i < 4
  BY <1>1, <1>2 DEF With8, Set8, Reg
<1>3. CASE ~(i < 4)
  BY <1>1, <1>3 DEF With8, Set8, Reg
<1>. QED  BY <1>2, <1>3

LEMMA SetEsKeepsStack ==
  ASSUME NEW s, NEW t, SameStack(s, t), NEW v
  PROVE  SameStack(s, [t EXCEPT !.regs = SetSeg(t.regs, ES, v)])
<1>1. ES # SS /\ SS \in SegReg
  BY DEF ES, SS, SegReg
<1>. QED  BY <1>1 DEF SameStack, Shaped, Get16, GetSeg, SetSeg

\* All of them, for a machine any number of changes away from s.
StackSteps(s) ==
  /\ \A t : SameStack(s, t) =>
       /\ SameStack(s, Fails(t)) /\ SameStack(s, Succeeds(t))
       /\ SameStack(s, NoKey(t))
  /\ \A t : SameStack(s, t) =>
       /\ \A m : SameStack(s, [t EXCEPT !.mem = m])
       /\ \A d : SameStack(s, [t EXCEPT !.dos = d])
       /\ \A m, d : SameStack(s, [t EXCEPT !.mem = m, !.dos = d])
       /\ \A h : SameStack(s, [t EXCEPT !.halted = h])
       /\ \A v : SameStack(s, [t EXCEPT !.regs = SetSeg(t.regs, ES, v)])
  /\ \A t, v : SameStack(s, t) => \A i \in 0 .. 3 : SameStack(s, With16(t, i, v))
  /\ \A t, v : SameStack(s, t) => \A i \in Reg : SameStack(s, With8(t, i, v))

LEMMA StackStepsHold == ASSUME NEW s PROVE StackSteps(s)
<1>1. ASSUME NEW t, SameStack(s, t)
      PROVE  SameStack(s, Fails(t)) /\ SameStack(s, Succeeds(t))
               /\ SameStack(s, NoKey(t))
  BY <1>1, FlagsKeepStack, Zenon
<1>2. ASSUME NEW t, SameStack(s, t)
      PROVE  /\ \A m : SameStack(s, [t EXCEPT !.mem = m])
             /\ \A d : SameStack(s, [t EXCEPT !.dos = d])
             /\ \A m, d : SameStack(s, [t EXCEPT !.mem = m, !.dos = d])
             /\ \A h : SameStack(s, [t EXCEPT !.halted = h])
             /\ \A v : SameStack(s, [t EXCEPT !.regs = SetSeg(t.regs, ES, v)])
  BY <1>2, PartsKeepStack, SetEsKeepsStack, Zenon
<1>3. ASSUME NEW t, NEW v, SameStack(s, t), NEW i \in 0 .. 3
      PROVE  SameStack(s, With16(t, i, v))
  BY <1>3, Set16KeepsStack
<1>4. ASSUME NEW t, NEW v, SameStack(s, t), NEW i \in Reg
      PROVE  SameStack(s, With8(t, i, v))
  BY <1>4, Set8KeepsStack
<1>. QED  BY <1>1, <1>2, <1>3, <1>4, Zenon DEF StackSteps

LEMMA Indices ==
  /\ AX \in 0 .. 3 /\ BX \in 0 .. 3 /\ CX \in 0 .. 3 /\ DX \in 0 .. 3
  /\ AL \in Reg /\ CL \in Reg /\ DL \in Reg
  /\ AH \in Reg /\ CH \in Reg /\ DH \in Reg /\ BH \in Reg
  BY DEF AX, BX, CX, DX, AL, CL, DL, AH, CH, DH, BH, Reg

\* Handler by handler.
LEMMA SystemKeepsStack ==
  ASSUME NEW s, SameStack(s, s)
  PROVE  /\ SameStack(s, Int10(s)) /\ SameStack(s, Int11(s))
         /\ SameStack(s, Int12(s)) /\ SameStack(s, Int15(s))
         /\ SameStack(s, Int16(s)) /\ SameStack(s, Int18(s))
         /\ SameStack(s, Int1a(s)) /\ SameStack(s, Int1f(s))
<1>. USE StackStepsHold, Indices DEF StackSteps
<1>1. \A v : SameStack(s, With16(s, AX, v)) /\ SameStack(s, With16(s, DX, v))
  OBVIOUS
<1>2. SameStack(s, Fails(s))
  OBVIOUS
<1>3. SameStack(s, Int10(s)) /\ SameStack(s, Int11(s)) /\ SameStack(s, Int12(s))
        /\ SameStack(s, Int15(s))
  <2>1. SameStack(s, Int10(s))
    BY <1>1, <1>2, ZenonT(90) DEF Int10
  <2>2. SameStack(s, Int11(s)) /\ SameStack(s, Int12(s))
    BY <1>1, <1>2, ZenonT(90) DEF Int11, Int12
  <2>3. SameStack(s, Int15(s))
    BY <1>1, <1>2, ZenonT(90) DEF Int15
  <2>. QED  BY ONLY <2>1, <2>2, <2>3
<1>4. SameStack(s, Int16(s)) /\ SameStack(s, Int18(s))
  BY DEF Int16, Int18
<1>5. SameStack(s, Int1a(s)) /\ SameStack(s, Int1f(s))
  <2>1. SameStack(s, With16(s, CX, 0))
    OBVIOUS
  <2>2. SameStack(s, With16(With16(s, CX, 0), DX, 0))
    BY <2>1
  <2>3. SameStack(s, With8(With16(With16(s, CX, 0), DX, 0), AL, 0))
    BY <2>2
  <2>. HIDE StackStepsHold, Indices DEF StackSteps
  <2>4. SameStack(s, Int1a(s))
    BY <1>2, <2>3, Zenon DEF Int1a
  <2>5. SameStack(s, Int1f(s))
    BY <1>1, SMT DEF Int1f
  <2>. QED  BY <2>4, <2>5
<1>. QED  BY <1>3, <1>4, <1>5

LEMMA Int13KeepsStack ==
  ASSUME NEW s, NEW d, SameStack(s, s)
  PROVE  SameStack(s, Int13(s, d))
<1>. USE StackStepsHold, Indices DEF StackSteps
<1>1. SameStack(s, Int13Read(s, d))
  BY ZenonT(90) DEF Int13Read
<1>2. SameStack(s, Int13Params(s, d))
  <2>. DEFINE cyls == IF d.cyls > 2 THEN d.cyls - 2 ELSE 0
              heads == IF d.heads > 0 THEN d.heads - 1 ELSE 0
              low == cyls % 256
              high == (d.spt % 64) + 64 * ((cyls \div 256) % 4)
              s1 == With8(With8(s, CH, low), CL, high)
              s2 == With8(With8(With8(s1, DH, heads), DL, 1), AH, 0)
  <2>. HIDE DEF low, high, heads
  <2>1. SameStack(s, s1)
    OBVIOUS
  <2>. HIDE DEF s1
  <2>2. SameStack(s, s2)
    BY <2>1
  <2>. HIDE DEF s2
  <2>3. SameStack(s, Succeeds(s2)) /\ SameStack(s, Fails(s))
    BY <2>2
  <2>. HIDE StackStepsHold, Indices DEF StackSteps
  <2>4. Int13Params(s, d) = IF d.present THEN Succeeds(s2) ELSE Fails(s)
    BY Zenon DEF Int13Params, s2, s1, low, high, heads
  <2>. QED  BY <2>3, <2>4
<1>. QED  BY <1>1, <1>2 DEF Int13

LEMMA Int21KeepsStack ==
  ASSUME NEW s, NEW d, SameStack(s, s), ~IsExec(33, s)
  PROVE  SameStack(s, Int21(s, d))
<1>. USE StackStepsHold, Indices DEF StackSteps
<1>1. SameStack(s, OpenFile(s, d))
  BY DEF OpenFile
<1>2. SameStack(s, Read(s))
  BY DEF Read
<1>3. SameStack(s, Seek(s))
  BY DEF Seek
<1>4. SameStack(s, GetVector(s)) /\ SameStack(s, SetVector(s))
  BY DEF GetVector, SetVector
<1>5. SameStack(s, CurrentDir(s))
  BY DEF CurrentDir
<1>6. Ah(s) = 75 => SameStack(s, Exec(s, d))
  BY DEF Exec, IsExec
<1>7. /\ SameStack(s, With8(s, AL, 2)) /\ SameStack(s, Succeeds(With8(s, DL, 0)))
      /\ SameStack(s, With16(With16(s, CX, 4608), DX, 0))
      /\ SameStack(s, Succeeds(With16(s, AX, 32768)))
      /\ SameStack(s, Succeeds(s)) /\ SameStack(s, Fails(s))
      /\ SameStack(s, [s EXCEPT !.halted = TRUE])
  <2>1. SameStack(s, With8(s, AL, 2)) /\ SameStack(s, Succeeds(With8(s, DL, 0)))
    OBVIOUS
  <2>2. \A u, v : SameStack(s, With16(With16(s, CX, u), DX, v))
    OBVIOUS
  <2>3. \A v : SameStack(s, Succeeds(With16(s, AX, v)))
    OBVIOUS
  <2>4. SameStack(s, Succeeds(s)) /\ SameStack(s, Fails(s))
    OBVIOUS
  <2>5. SameStack(s, [s EXCEPT !.halted = TRUE])
    OBVIOUS
  <2>. HIDE StackStepsHold, Indices DEF StackSteps
  <2>6. SameStack(s, With16(With16(s, CX, 4608), DX, 0))
    BY <2>2, Z3
  <2>7. SameStack(s, Succeeds(With16(s, AX, 32768)))
    BY <2>3, Z3
  <2>. QED  BY <2>1, <2>4, <2>5, <2>6, <2>7
<1>8. SameStack(s, With16(With8(With16(s, AX, 5), BH, 255), CX, 0))
  BY ZenonT(90)
<1>9. SameStack(s, With16([s EXCEPT !.regs = SetSeg(s.regs, ES, 0)], BX, 0))
  OBVIOUS
<1>. HIDE StackStepsHold, Indices DEF StackSteps
<1>. QED
  BY <1>1, <1>2, <1>3, <1>4, <1>5, <1>6, <1>7, <1>8, <1>9 DEF Int21

\* A handler that loads no program leaves SS and SP alone.
LEMMA ServeKeepsStack ==
  ASSUME NEW s, IsMachine(s), NEW d, NEW num \in Native, ~IsExec(num, s)
  PROVE  SameStack(s, Serve(num, s, d))
<1>1. SameStack(s, s)
  BY MachineShaped
<1>2. SameStack(s, [s EXCEPT !.halted = TRUE])
  BY <1>1, StackStepsHold DEF StackSteps
<1>3. num = 33 => SameStack(s, Int21(s, d))
  BY <1>1, Int21KeepsStack
<1>. QED
  BY <1>1, <1>2, <1>3, SystemKeepsStack, Int13KeepsStack DEF Serve, Native

-----------------------------------------------------------------------------
\* The interrupt frame.

\* The stack pointer moves and the rest of the registers stays.
LEMMA SetSp ==
  ASSUME NEW t, Shaped(t), NEW v
  PROVE  LET u == [t EXCEPT !.regs = Set16(t.regs, SP, v)]
         IN /\ Shaped(u) /\ Get16(u.regs, SP) = v
            /\ GetSeg(u.regs, SS) = GetSeg(t.regs, SS)
            /\ GetSeg(u.regs, CS) = GetSeg(t.regs, CS)
            /\ u.regs.flags = t.regs.flags /\ u.regs.ip = t.regs.ip
            /\ u.mem = t.mem
<1>1. 2 * SP \in 0 .. 15
  BY DEF SP
<1>. QED  BY <1>1 DEF Shaped, Get16, Set16, GetSeg

\* What a push and a pop do to each part of the machine.
LEMMA Push16Parts ==
  ASSUME NEW t, Shaped(t), NEW v
  PROVE  LET u == Push16(t, v)
             sp == Wrap16(Get16(t.regs, SP) - 2)
         IN /\ Shaped(u) /\ Get16(u.regs, SP) = sp
            /\ GetSeg(u.regs, SS) = GetSeg(t.regs, SS)
            /\ GetSeg(u.regs, CS) = GetSeg(t.regs, CS)
            /\ u.regs.flags = t.regs.flags /\ u.regs.ip = t.regs.ip
            /\ u.mem = WriteU16(t.mem, Phys(GetSeg(t.regs, SS), sp), v)
<1>. DEFINE sp == Wrap16(Get16(t.regs, SP) - 2)
            m == WriteU16(t.mem, Phys(GetSeg(t.regs, SS), sp), v)
            r == Set16(t.regs, SP, sp)
            w == [t EXCEPT !.regs = r]
            u == [w EXCEPT !.mem = m]
<1>1. /\ Shaped(w) /\ Get16(w.regs, SP) = sp
      /\ GetSeg(w.regs, SS) = GetSeg(t.regs, SS)
      /\ GetSeg(w.regs, CS) = GetSeg(t.regs, CS)
      /\ w.regs.flags = t.regs.flags /\ w.regs.ip = t.regs.ip
  BY SetSp
<1>2. Push16(t, v) = u
  BY DEF Push16
<1>. HIDE DEF sp, m, r, w
<1>3. Shaped(u) /\ u.regs = w.regs /\ u.mem = m
  BY <1>1 DEF Shaped
<1>. HIDE DEF u
<1>4. /\ Shaped(u) /\ Get16(u.regs, SP) = sp
      /\ GetSeg(u.regs, SS) = GetSeg(t.regs, SS)
      /\ GetSeg(u.regs, CS) = GetSeg(t.regs, CS)
      /\ u.regs.flags = t.regs.flags /\ u.regs.ip = t.regs.ip
      /\ u.mem = m
  BY <1>1, <1>3
<1>. QED  BY <1>2, <1>4 DEF sp, m

LEMMA Drop16Parts ==
  ASSUME NEW t, Shaped(t)
  PROVE  LET u == Drop16(t)
         IN /\ Shaped(u)
            /\ Get16(u.regs, SP) = Wrap16(Get16(t.regs, SP) + 2)
            /\ GetSeg(u.regs, SS) = GetSeg(t.regs, SS)
            /\ u.mem = t.mem
  BY SetSp DEF Drop16

\* The words an IRET takes from the stack, and where it leaves the stack.
LEMMA PopFrameParts ==
  ASSUME NEW t, Shaped(t), NEW a, NEW b, NEW c, NEW sp,
         c = Get16(t.regs, SP), b = Wrap16(c + 2), a = Wrap16(b + 2),
         sp = Wrap16(a + 2)
  PROVE  LET u == PopFrame(t)
             Word16(x) == ReadU16(t.mem, Phys(GetSeg(t.regs, SS), x))
         IN /\ u.regs.ip = Word16(c) /\ GetSeg(u.regs, CS) = Word16(b)
            /\ u.regs.flags = Word16(a)
            /\ Get16(u.regs, SP) = sp
            /\ GetSeg(u.regs, SS) = GetSeg(t.regs, SS)
            /\ u.mem = t.mem
<1>. DEFINE s1 == Drop16(t)
            s2 == Drop16(s1)
            s3 == Drop16(s2)
            Word16(x) == ReadU16(t.mem, Phys(GetSeg(t.regs, SS), x))
<1>1. /\ Shaped(s1) /\ Get16(s1.regs, SP) = b
      /\ GetSeg(s1.regs, SS) = GetSeg(t.regs, SS) /\ s1.mem = t.mem
  BY Drop16Parts
<1>. HIDE DEF s1
<1>2. /\ Shaped(s2) /\ Get16(s2.regs, SP) = a
      /\ GetSeg(s2.regs, SS) = GetSeg(t.regs, SS) /\ s2.mem = t.mem
  BY <1>1, Drop16Parts
<1>. HIDE DEF s2
<1>3. /\ Shaped(s3) /\ Get16(s3.regs, SP) = sp
      /\ GetSeg(s3.regs, SS) = GetSeg(t.regs, SS) /\ s3.mem = t.mem
  BY <1>2, Drop16Parts
<1>. HIDE DEF s3
<1>4. Top16(t) = Word16(c) /\ Top16(s1) = Word16(b) /\ Top16(s2) = Word16(a)
  BY <1>1, <1>2 DEF Top16
<1>. DEFINE r == [SetSeg(SetIp(s3.regs, Word16(c)), CS, Word16(b))
                    EXCEPT !.flags = Word16(a)]
            u == [s3 EXCEPT !.regs = r]
<1>5. PopFrame(t) = u
  BY <1>4, Zenon DEF PopFrame, s1, s2, s3
<1>. HIDE DEF Word16
<1>6. CS # SS /\ CS \in SegReg /\ SS \in SegReg
  BY DEF CS, SS, SegReg
<1>7. /\ u.regs.ip = Word16(c) /\ GetSeg(u.regs, CS) = Word16(b)
      /\ u.regs.flags = Word16(a)
      /\ Get16(u.regs, SP) = Get16(s3.regs, SP)
      /\ GetSeg(u.regs, SS) = GetSeg(s3.regs, SS)
      /\ u.mem = s3.mem
  BY <1>3, <1>6 DEF Shaped, Get16, GetSeg, SetSeg, SetIp
<1>. HIDE DEF u
<1>. QED  BY <1>3, <1>5, <1>7 DEF Word16

\* The three words of a frame, read from the memory it was pushed to.
LEMMA FrameWords ==
  ASSUME NEW m, NEW seg \in Word, NEW sp \in Word, NEW a, NEW b, NEW c,
         a = Wrap16(sp - 2), b = Wrap16(a - 2), c = Wrap16(b - 2),
         NEW flags \in Word, NEW cs \in Word, NEW ip \in Word
  PROVE  LET At(x) == Phys(seg, x)
             n == WriteU16(WriteU16(WriteU16(m, At(a), flags), At(b), cs),
                           At(c), ip)
         IN /\ ReadU16(n, At(c)) = ip /\ ReadU16(n, At(b)) = cs
            /\ ReadU16(n, At(a)) = flags
<1>. DEFINE At(x) == Phys(seg, x)
            m1 == WriteU16(m, At(a), flags)
            m2 == WriteU16(m1, At(b), cs)
            n == WriteU16(m2, At(c), ip)
<1>1. a \in Word /\ b \in Word /\ c \in Word
  BY FrameOffsets
<1>2. At(a) \in Addr /\ At(b) \in Addr /\ At(c) \in Addr
  BY <1>1, WordInt, PhysInAddr
<1>3. Apart(At(b), At(a)) /\ Apart(At(c), At(a)) /\ Apart(At(c), At(b))
  <2>1. Apart(At(a), At(b)) /\ Apart(At(a), At(c)) /\ Apart(At(b), At(c))
    BY <1>1, FrameOffsets, StackApart
  <2>2. \A x, y : Apart(x, y) => Apart(y, x)
    BY DEF Apart
  <2>. QED  BY <2>1, <2>2, Zenon
<1>. HIDE DEF At
<1>4. ReadU16(m1, At(a)) = flags
  BY <1>2, WriteReadU16
<1>. HIDE DEF m1
<1>5. ReadU16(m2, At(b)) = cs /\ ReadU16(m2, At(a)) = flags
  BY <1>2, <1>3, <1>4, WriteReadU16, WriteKeepsU16
<1>. HIDE DEF m2
<1>6. ReadU16(n, At(c)) = ip /\ ReadU16(n, At(b)) = cs /\ ReadU16(n, At(a)) = flags
  BY <1>2, <1>3, <1>5, WriteReadU16, WriteKeepsU16
<1>. QED  BY <1>6 DEF At, m1, m2

=============================================================================
