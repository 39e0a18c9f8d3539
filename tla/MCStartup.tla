------------------------------ MODULE MCStartup ------------------------------
(***************************************************************************)
(* Disk images for TLC, with sectors of sixteen bytes: half a directory    *)
(* entry, and a table whose tenth entry of twelve bits lies across two     *)
(* sectors.                                                                *)
(***************************************************************************)
EXTENDS StartupProperties

MCSectorSize == 16
MCHostFiles == [n \in {} |-> <<>>]
NoHeader == [magic |-> "", offset |-> 0, spt |-> 0, heads |-> 0, cyls |-> 0]
Zeros(n) == [i \in 1 .. n |-> 0]
Padded(s, n) == s \o Zeros(n - Len(s))
W(v) == <<v % 256, v \div 256>>

\* The lines of BAT files, one byte each.
MCCommands ==
  [b \in 0 .. 255 |->
     CASE b = 1 -> <<"ECHO", "">> [] b = 2 -> <<"PROG", "">>
       [] b = 3 -> <<"PROG", "EXE">> [] b = 4 -> <<"MISSING", "">>
       [] b = 5 -> <<"GAME", "BAT">> [] b = 6 -> <<"REM", "">>
       [] b = 7 -> <<"OTHER", "COM">> [] OTHER -> BlankLine]

-----------------------------------------------------------------------------
\* The bytes of a table of n entries; t gives those that are not zero.
Of(t, c) == IF c \in DOMAIN t THEN t[c] ELSE 0
Table12(t, n) ==
  [i \in 1 .. n + n \div 2 |->
     LET even == Of(t, 2 * ((i - 1) \div 3))
         odd == Of(t, 2 * ((i - 1) \div 3) + 1)
     IN CASE i % 3 = 1 -> even % 256
          [] i % 3 = 2 -> even \div 256 + 16 * (odd % 16)
          [] i % 3 = 0 -> odd \div 16]
Table16(t, n) ==
  [i \in 1 .. 2 * n |-> IF i % 2 = 1 THEN Of(t, (i - 1) \div 2) % 256
                                     ELSE Of(t, (i - 1) \div 2) \div 256]

Slot(name, ext, first, size) ==
  [mark |-> "used", label |-> FALSE, name |-> name, ext |-> ext,
   cluster |-> first, size |-> size]

\* A layout: reserved sectors, tables, directory entries, sectors in a cluster,
\* bits of an entry, and bytes of a logical sector over those of a physical one.
Layout(res, fats, n, spc, bits, mult) ==
  [res |-> res, fats |-> fats, n |-> n, spc |-> spc, bits |-> bits, mult |-> mult]
Small == Layout(1, 1, 4, 1, 12, 1)

BpbOf(l) ==
  [bps |-> l.mult * SectorSize, spc |-> l.spc, reserved |-> l.res,
   fats |-> l.fats, entries |-> l.n, spf |-> 2,
   small |-> IF l.bits = 12 THEN 60 ELSE 0,
   large |-> IF l.bits = 12 THEN 0 ELSE 9000 * l.spc]

\* A file's bytes, and a file system of one layout with its table t, its slots
\* and the bytes of its clusters; before counts the sectors in front of it.
Image(l, before, t, slots, clusters) ==
  LET b == BpbOf(l)
      size == 16 * l.mult
      table == Padded(IF l.bits = 12 THEN Table12(t, 14) ELSE Table16(t, 14),
                      size * 2)
      root == Padded(<<71>> \o Zeros(10) \o <<32>>, size * RootSectors(b))
  IN [exe |-> FALSE, header |-> NoHeader,
      raw |-> Zeros(16 * before) \o Zeros(size * l.res)
                \o (IF l.fats = 1 THEN table ELSE table \o table)
                \o root \o clusters,
      bpb |-> before :> b,
      root |-> RootLba(b, before) :> slots]

-----------------------------------------------------------------------------
\* A cluster is told by its number.
Marked(n, bytes) ==
  [i \in 1 .. n * bytes |->
     LET c == (i - 1) \div bytes IN (16 * c + (c \div 16) + (i % 16)) % 256]

\* Chains of a program that starts at cluster 2: straight, backwards, through
\* the entry that lies across two sectors, looping, short, and out of the image.
Chains ==
  {2 :> 3 @@ 3 :> 4 @@ 4 :> 4095, 2 :> 9 @@ 9 :> 3 @@ 3 :> 4088,
   2 :> 10 @@ 10 :> 11 @@ 11 :> 4095, 2 :> 2, 2 :> 3 @@ 3 :> 2, 2 :> 4095,
   2 :> 3 @@ 3 :> 200 @@ 4 :> 4095, 2 :> 0, 2 :> 4079, 2 :> 4080}

\* Clusters that the image has beyond the entries of the table, so that the next
\* one is read from the directory or from a file.
TallImages ==
  {Image(Layout(1, 1, 3, 4, bits, 1), 0, 2 :> c @@ 3 :> 4095,
         <<Slot("PROG", "EXE", 2, 400)>>, Marked(n, 64)) :
     bits \in {12, 16}, c \in {13, 30, 41, 60}, n \in {40, 60}}
ChainImages ==
  {Image(l, 0, t, <<Slot("PROG", "EXE", first, size)>>,
           Marked(n, 16 * l.spc * l.mult)) :
     l \in {Small, Layout(1, 2, 3, 2, 12, 2), Layout(2, 1, 5, 1, 16, 1),
            Layout(0, 1, 3, 1, 12, 4)},
     t \in Chains, first \in {2, 0}, size \in {0, 16, 40, 200}, n \in {4, 11}}

-----------------------------------------------------------------------------
\* Directories, with files of one cluster each; cluster 2 has the BAT file's
\* lines, cluster 3 a program that a BAT file can be too.
Bats == {Slot("GAME", "BAT", 2, 8), Slot("START", "BAT", 2, 3),
         Slot("AUTOEXEC", "BAT", 2, 16), Slot("RUN", "BAT", 2, 5)}
Deleted == [Slot("GAME", "BAT", 3, 9) EXCEPT !.mark = "deleted"]
Label == [Slot("GAME", "BAT", 3, 9) EXCEPT !.label = TRUE]
Exe == Slot("PROG", "EXE", 3, 9)
ComFile == Slot("PROG", "COM", 4, 12)
Other == Slot("OTHER", "COM", 4, 2)
Equal == Slot("SAME", "EXE", 4, 9)

Directories ==
  {<<a, b, Other, Exe>> : a \in Bats \cup {Exe, Deleted, Label},
                          b \in Bats \cup {Exe, ComFile, Equal, NoEntry}}
  \cup {<<Slot("", "BAT", 2, 8), Exe, ComFile, a>> : a \in Bats}
  \cup {<<Deleted, Label, Exe, Equal>>, <<ComFile, Other>>, <<>>}
BatchTexts ==
  {<<1, 2, 0, 3, 4, 7, 5, 6>>, <<4, 4>>, <<6, 5>>, <<7, 2, 2>>, <<2, 4, 3>>}
BatchImages ==
  {Image(Small, 0, 2 :> 4095 @@ 3 :> 4095 @@ 4 :> 4095, s,
         Padded(x, 16) \o Marked(3, 16)) : s \in Directories, x \in BatchTexts}

-----------------------------------------------------------------------------
\* MZ programs: the header, the table, and a load module of 12 bytes.
Header(last, pages, relocs, paragraphs, table) ==
  <<77, 90>> \o W(last) \o W(pages) \o W(relocs) \o W(paragraphs) \o Zeros(4)
    \o W(16) \o W(256) \o Zeros(2) \o W(4) \o W(1) \o W(table) \o Zeros(2)
Module == <<1, 2, 3, 240, 255, 6, 7, 8, 9, 10, 11, 12>>
Program32(h, entry1) == Padded(h \o entry1, 32) \o Module
MzFiles ==
  {Program32(Header(last, pages, relocs, p, table), r) :
     last \in {0, 44, 512, 600}, pages \in {0, 1}, relocs \in {0, 1, 2, 5},
     p \in {0, 2, 3}, table \in {28, 36, 44},
     r \in {W(2) \o W(0), W(3) \o W(0), W(11) \o W(0), W(0) \o W(61440)}}
  \cup {<<77, 90, 1>>, <<77>>, <<1, 2, 3>>, <<>>}
ExeImages ==
  {[exe |-> TRUE, header |-> NoHeader, raw |-> f, bpb |-> <<>>, root |-> <<>>] :
     f \in MzFiles}
\* On a disk, with a table of up to five entries: some of the same word, some
\* of words that overlap.
Entries(offsets) == FlattenSeq([i \in DOMAIN offsets |-> W(offsets[i]) \o W(0)])
Program48(relocs, offsets) ==
  Padded(Header(60, 1, relocs, 3, 28) \o Entries(offsets), 48) \o Module
MzOnDisk ==
  {Image(Small, 2, 2 :> 3 @@ 3 :> 4 @@ 4 :> 5 @@ 5 :> 4095,
         <<Slot("PROG", "EXE", 2, size)>>, Program48(relocs, o) \o Zeros(4)) :
     size \in {0, 1, 20, 32, 59, 60, 64}, relocs \in {2, 5},
     o \in {<<2, 5, 0, 7, 9>>, <<2, 2, 3, 3, 4>>, <<10, 9, 8, 9, 10>>}}
-----------------------------------------------------------------------------
\* Sectors that are not boot sectors, disks without a file system, and headers.
Bent(b) == {[b EXCEPT !.bps = 8], [b EXCEPT !.spc = 3], [b EXCEPT !.fats = 0],
            [b EXCEPT !.fats = 3], [b EXCEPT !.entries = 0], [b EXCEPT !.spf = 0],
            [b EXCEPT !.reserved = 400], [b EXCEPT !.large = 9, !.small = 0]}
Base == Image(Small, 1, 2 :> 4095, <<Slot("PROG", "EXE", 2, 7)>>, Marked(1, 16))
WithHeader(i, h, n) ==
  [i EXCEPT !.header = h, !.raw = Zeros(n) \o @]
Sized(m, o, s, h, c) ==
  [magic |-> m, offset |-> o, spt |-> s, heads |-> h, cyls |-> c]
Sizes == {<<17, 8, 615>>, <<1, 1, 1>>, <<63, 255, 65535>>, <<8, 2, 3>>,
          <<64, 16, 1030>>, <<33, 256, 40>>, <<2, 3, 2>>}

HeaderImages ==
  {[Base EXCEPT !.bpb = 0 :> b @@ @] : b \in Bent(BpbOf(Small))}
  \cup {WithHeader(Base, Sized("HDI", 32, z[1], z[2], z[3]), 32) : z \in Sizes}
  \cup {WithHeader(Base, Sized("T98HDDIMAGE.R0", 0, z[1], z[2], z[3]), 272) :
          z \in Sizes}
  \cup {[Base EXCEPT !.header = Sized("HDI", 0, 1, 1, 1), !.bpb = <<>>,
                     !.raw = Zeros(n)] : n \in {4, 14, 22, 26, 30}}
  \cup {[Base EXCEPT !.header = Sized("T98HDDIMAGE.R0", 0, 1, 1, 1),
                     !.raw = Zeros(n)] : n \in {16, 24}}
  \cup {[Base EXCEPT !.bpb = <<>>], [Base EXCEPT !.raw = <<>>],
        [Base EXCEPT !.root = <<>>], [Base EXCEPT !.raw = SubSeq(@, 1, 96)],
        [Base EXCEPT !.raw = [@ EXCEPT ![16 * 4 + 12] = 64]]}

MCImages ==
  {ChainImages, TallImages, BatchImages, ExeImages, MzOnDisk, HeaderImages}

=============================================================================
