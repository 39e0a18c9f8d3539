-------------------------------- MODULE Bios --------------------------------
(***************************************************************************)
(* The interrupts the runtime serves itself (runtime/interrupts).  Each    *)
(* operator is the effect of one handler on the machine s, a record of     *)
(* regs, mem, dos and halted, given the disk.  What a handler prints or    *)
(* logs is left out.                                                       *)
(***************************************************************************)
EXTENDS Loader, Dos, Disk

IsMachine(s) == /\ s = [regs |-> s.regs, mem |-> s.mem, dos |-> s.dos,
                        halted |-> s.halted]
                /\ s.regs \in Regs /\ IsMem(s.mem) /\ IsDos(s.dos)
                /\ s.halted \in BOOLEAN

IsDisk(d) == /\ d.present \in BOOLEAN
             /\ d.cyls \in Word /\ d.heads \in Byte /\ d.spt \in Byte
             /\ d.data \in Seq(Byte)
             /\ \A n \in DOMAIN d.files : IsImage(d.files[n])

-----------------------------------------------------------------------------

Native == {16, 17, 18, 19, 21, 22, 24, 25, 26, 31, 32, 33}

Ah(s) == Get8(s.regs, AH)
Al(s) == Get8(s.regs, AL)

With8(s, r, v) == [s EXCEPT !.regs = Set8(@, r, v)]
With16(s, r, v) == [s EXCEPT !.regs = Set16(@, r, v)]

\* The carry flag tells a request that failed from one that succeeded.
Fails(s) == [s EXCEPT !.regs = SetFlag(@, CarryFlag, TRUE)]
Succeeds(s) == [s EXCEPT !.regs = SetFlag(@, CarryFlag, FALSE)]
NoKey(s) == [s EXCEPT !.regs = SetFlag(@, ZeroFlag, TRUE)]

Int10(s) ==
  CASE Ah(s) = 3 -> With16(s, DX, 0)
    [] Ah(s) = 15 -> With16(s, AX, 256 * 80 + 3)
    [] OTHER -> s

Int11(s) == With16(s, AX, 33)
Int12(s) == With16(s, AX, 640)
Int15(s) == Fails(s)

Int16(s) ==
  CASE Ah(s) = 0 -> With16(s, AX, 0)
    [] Ah(s) = 1 -> NoKey(s)
    [] Ah(s) = 2 -> With8(s, AL, 0)
    [] OTHER -> Fails(s)

Int18(s) == IF Ah(s) = 10 THEN With8(s, AL, 0) ELSE s

\* The timer is never ticked: its count is zero.
Int1a(s) ==
  IF Ah(s) = 0 THEN With8(With16(With16(s, CX, 0), DX, 0), AL, 0)
               ELSE Fails(s)

Int1f(s) == IF Ah(s) = 1 THEN With16(s, AX, 4608) ELSE s

-----------------------------------------------------------------------------
\* INT 13h: the disk.

Int13Read(s, disk) ==
  LET ch == Get8(s.regs, CH)
      cl == Get8(s.regs, CL)
      lba == ChsToLba(disk, ch + 256 * (cl \div 64), Get8(s.regs, DH), cl % 64)
      dest == Phys(GetSeg(s.regs, ES), Get16(s.regs, BX))
  IN IF ~disk.present THEN Fails(With8(s, AH, 1))
     ELSE IF ~InRange(disk, lba, Al(s)) THEN Fails(With8(s, AH, 4))
     ELSE Succeeds(With8([s EXCEPT
            !.mem = LoadBytes(@, dest, ReadSectors(disk, lba, Al(s)))], AH, 0))

\* Mutant: the number of cylinders is reported, where a program expects the
\* last one.
Int13ParamsCount(s, disk) ==
  LET heads == IF disk.heads > 0 THEN disk.heads - 1 ELSE 0
      s1 == With8(With8(s, CH, disk.cyls % 256), CL,
                  (disk.spt % 64) + 64 * ((disk.cyls \div 256) % 4))
      s2 == With8(With8(With8(s1, DH, heads), DL, 1), AH, 0)
  IN IF disk.present THEN Succeeds(s2) ELSE Fails(s)

\* The last cylinder is reported two short of the count, as the code has it.
Int13Params(s, disk) ==
  LET cyls == IF disk.cyls > 2 THEN disk.cyls - 2 ELSE 0
      heads == IF disk.heads > 0 THEN disk.heads - 1 ELSE 0
      s1 == With8(With8(s, CH, cyls % 256), CL,
                  (disk.spt % 64) + 64 * ((cyls \div 256) % 4))
      s2 == With8(With8(With8(s1, DH, heads), DL, 1), AH, 0)
  IN IF disk.present THEN Succeeds(s2) ELSE Fails(s)

Int13(s, disk) ==
  CASE Ah(s) \in {0, 3, 4} -> Succeeds(With8(s, AH, 0))
    [] Ah(s) = 2 -> Int13Read(s, disk)
    [] Ah(s) = 8 -> Int13Params(s, disk)
    [] Ah(s) = 21 -> Succeeds(With8(s, AH, 3))
    [] OTHER -> Fails(With8(s, AH, 1))

-----------------------------------------------------------------------------
\* INT 21h: DOS.

\* Byte i of the string at DS:DX; the offset wraps within the segment.
StringAt(s, i) ==
  ReadU8(s.mem, Phys(GetSeg(s.regs, DS), Wrap16(Get16(s.regs, DX) + i)))

EndsWith(s, terminator) == \E i \in Word : StringAt(s, i) = terminator

Upper(c) == IF c \in 97 .. 122 THEN c - 32 ELSE c

\* The zero-terminated string at DS:DX is path, once in upper case.
IsPath(s, path) ==
  /\ \A i \in 1 .. Len(path) : Upper(StringAt(s, i - 1)) = path[i]
  /\ StringAt(s, Len(path)) = 0

OnDisk(s, disk) ==
  {n \in DOMAIN disk.files : IsPath(s, n) /\ Readable(disk.files[n])}
OnHost(s) == {n \in DOMAIN HostFiles : IsPath(s, n)}
TheName(names) == CHOOSE n \in names : TRUE

OpenFile(s, disk) ==
  LET virtual == OpenVirtual(s.dos, disk.files[TheName(OnDisk(s, disk))].data)
      real == OpenReal(s.dos, TheName(OnHost(s)))
  IN IF OnDisk(s, disk) # {}
     THEN Succeeds(With16([s EXCEPT !.dos = virtual], AX,
                           VirtualHandle(s.dos)))
     ELSE IF OnHost(s) # {}
     THEN Succeeds(With16([s EXCEPT !.dos = real], AX, s.dos.next))
     ELSE Fails(With16(s, AX, 2))

Read(s) ==
  LET h == Get16(s.regs, BX)
      chunk == Chunk(s.dos.files[h], Get16(s.regs, CX))
      dest == Phys(GetSeg(s.regs, DS), Get16(s.regs, DX))
  IN IF h \notin DOMAIN s.dos.files THEN Fails(s)
     ELSE Succeeds(With16(
            [s EXCEPT !.mem = LoadBytes(@, dest, chunk),
                      !.dos = ReadFile(@, h, Get16(s.regs, CX))],
            AX, Len(chunk)))

Seek(s) ==
  LET h == Get16(s.regs, BX)
      offset == WordSize * Get16(s.regs, CX) + Get16(s.regs, DX)
      pos == SeekPos(s.dos, h, offset, Al(s))
  IN IF h \notin DOMAIN s.dos.files \/ Al(s) > 2 THEN Fails(s)
     ELSE Succeeds(With16(With16([s EXCEPT !.dos = MoveTo(@, h, pos)],
            AX, Wrap16(pos)), DX, Wrap16(pos \div WordSize)))

\* Load and execute: the registers are reset before the loader can fail.
Exec(s, disk) ==
  LET f == disk.files[TheName(OnDisk(s, disk))]
      fresh == [s EXCEPT !.regs = RegsNew]
      Failed(t) == Fails(With16(t, AX, 2))
  IN IF Al(s) # 0 THEN Fails(s)
     ELSE IF OnDisk(s, disk) = {} THEN Failed(s)
     ELSE IF Loads(f) THEN Succeeds(ExecuteBinary(fresh, f))
     ELSE Failed(fresh)

GetVector(s) ==
  With16([s EXCEPT !.regs = SetSeg(@, ES, IvtSeg(s.mem, Al(s)))],
         BX, IvtOff(s.mem, Al(s)))

SetVector(s) ==
  [s EXCEPT !.mem = SetIvt(@, Al(s), GetSeg(s.regs, DS), Get16(s.regs, DX))]

\* The current directory is the root: an empty string at DS:SI.
CurrentDir(s) ==
  LET at == Phys(GetSeg(s.regs, DS), Get16(s.regs, SI))
  IN Succeeds(With8([s EXCEPT !.mem = WriteU8(@, at, 0)], AL, 0))

Int21(s, disk) ==
  CASE Ah(s) \in {2, 9, 26} -> s
    [] Ah(s) = 25 -> With8(s, AL, 2)
    [] Ah(s) = 37 -> SetVector(s)
    [] Ah(s) = 44 -> With16(With16(s, CX, 4608), DX, 0)
    [] Ah(s) = 48 -> With16(With8(With16(s, AX, 5), BH, 255), CX, 0)
    [] Ah(s) = 51 -> Succeeds(With8(s, DL, 0))
    [] Ah(s) = 52 -> With16([s EXCEPT !.regs = SetSeg(@, ES, 0)], BX, 0)
    [] Ah(s) = 53 -> GetVector(s)
    [] Ah(s) = 61 -> OpenFile(s, disk)
    [] Ah(s) = 63 -> Read(s)
    [] Ah(s) = 66 -> Seek(s)
    [] Ah(s) = 71 -> CurrentDir(s)
    [] Ah(s) = 72 -> Succeeds(With16(s, AX, 32768))
    [] Ah(s) \in {68, 73, 74} -> Succeeds(s)
    [] Ah(s) = 75 -> Exec(s, disk)
    [] Ah(s) = 76 -> [s EXCEPT !.halted = TRUE]
    [] OTHER -> Fails(s)

-----------------------------------------------------------------------------
\* INT 19h (reboot) and INT 20h (terminate) only halt.
Serve(num, s, disk) ==
  CASE num = 16 -> Int10(s)
    [] num = 17 -> Int11(s)
    [] num = 18 -> Int12(s)
    [] num = 19 -> Int13(s, disk)
    [] num = 21 -> Int15(s)
    [] num = 22 -> Int16(s)
    [] num = 24 -> Int18(s)
    [] num \in {25, 32} -> [s EXCEPT !.halted = TRUE]
    [] num = 26 -> Int1a(s)
    [] num = 31 -> Int1f(s)
    [] num = 33 -> Int21(s, disk)

\* The request carries a program the loader is given: load and execute.
IsExec(num, s) == num = 33 /\ Ah(s) = 75 /\ Al(s) = 0

\* The handler never returns: its string has no terminator in the segment.
Hangs(num, s) ==
  /\ num = 33
  /\ \/ Ah(s) = 9 /\ ~EndsWith(s, 36)
     \/ (Ah(s) = 61 \/ IsExec(num, s)) /\ ~EndsWith(s, 0)

\* The handler takes the whole program down: load_mz slices out of range.
Panics(num, s, disk) ==
  /\ IsExec(num, s)
  /\ \E n \in OnDisk(s, disk) : LoadPanics(disk.files[n])

=============================================================================
