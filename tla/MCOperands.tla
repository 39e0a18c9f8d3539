----------------------------- MODULE MCOperands -----------------------------
(***************************************************************************)
(* Instructions for TLC.  The operand v is in BX and at DS:SI alike, so    *)
(* that the ModRM byte chooses; its values are those at the edges of the   *)
(* signed and of the unsigned numbers, alone and with each prefix.         *)
(***************************************************************************)
EXTENDS OperandProperties, TLC

MCSectorSize == 16
MCHostFiles == [n \in {} |-> <<>>]

Words == {0, 1, 255, 32767, 32768, 65535}
Bytes == {0, 1, 127, 128, 255}
Mixed == {0, 1, 32768, 43690, 65535}
W(v) == <<v % 256, v \div 256>>

InReg(field) == 192 + 8 * field + BX
AtSi(field) == 8 * field + 4
Places(field) == {InReg(field), AtSi(field)}

\* w gives words of the register file, v is the low and the high word of the
\* operand.
Segments == <<16, 0, 32, 0, 48, 64>>
Start(code, w, v, flags) ==
  [regs |-> [w |-> [i \in 0 .. 15 |->
                      IF i \in DOMAIN w THEN w[i]
                      ELSE CASE i = 2 * BX -> v[1] [] i = 2 * BX + 1 -> v[2]
                             [] i = 2 * SI -> 768 [] OTHER -> RegsNew.w[i]],
             seg |-> [i \in SegReg |-> Segments[i + 1]],
             ip |-> 256, flags |-> flags],
   mem |-> [a \in 256 .. 255 + Len(code) |-> code[a - 255]]
             @@ [a \in 768 .. 771 |-> (W(v[1]) \o W(v[2]))[a - 767]],
   dos |-> DosNew, halted |-> FALSE]

Plain == 2
Carrying == {2, 3}
NoWords == [i \in {} |-> 0]
Ax(v) == 2 * AX :> v
AxDx(a, d) == (2 * AX :> a) @@ (2 * DX :> d)
Di(lo, hi) == (2 * DI :> lo) @@ (2 * DI + 1 :> hi)

-----------------------------------------------------------------------------
Group1Starts ==
  {Start(<<o, b, i>>, NoWords, <<v, 0>>, f) :
     o \in {128, 130}, b \in UNION {Places(n) : n \in Reg}, i \in Bytes,
     v \in Bytes, f \in Carrying}
  \cup {Start(<<129, InReg(n)>> \o W(i), NoWords, <<v, 0>>, f) :
          n \in Reg, i \in Words, v \in Words, f \in Carrying}
  \cup {Start(<<131, AtSi(n), i>>, NoWords, <<v, 0>>, f) :
          n \in Reg, i \in Bytes, v \in Words, f \in Carrying}
  \cup {Start(<<128, AtSi(n) + 64, i, 1>>, NoWords, <<256 * v, 0>>, f) :
          n \in Reg, i \in Bytes, v \in Bytes, f \in Carrying}

\* TEST has an immediate, of one byte or two; the last two starts are the
\* quotients that do not exist.
Group3Starts ==
  {Start(<<246, b, 129>>, Ax(a), <<v, 0>>, Plain) :
     b \in UNION {Places(n) : n \in Reg}, a \in Words, v \in Bytes}
  \cup {Start(<<247, InReg(n), 129, 1>>, AxDx(a, d), <<v, 0>>, Plain) :
          n \in Reg, a \in Words, d \in Words \ {32768}, v \in Words}
  \cup {Start(<<247, AtSi(n), 129, 1>>, AxDx(a, 1), <<v, 0>>, Plain) :
          n \in Reg, a \in Words, v \in Words}
  \cup {Start(<<246, InReg(7)>>, Ax(32768), <<255, 0>>, Plain),
        Start(<<247, InReg(7)>>, AxDx(0, 32768), <<65535, 0>>, Plain)}

-----------------------------------------------------------------------------
Escape2(e, b) == <<15, e, b>>

ImulStarts ==
  {Start(Escape2(175, b), Di(x, 0), <<v, 0>>, Plain) :
     b \in Places(DI), x \in Words, v \in Words}
  \cup {Start(<<102>> \o Escape2(175, b), Di(x, xh), <<v, vh>>, Plain) :
          b \in Places(DI), x \in {0, 1, 65535}, xh \in {0, 1, 32767, 65535},
          v \in {0, 1, 32768}, vh \in {0, 1, 65534, 65535}}

BitStarts ==
  {Start(Escape2(e, b), Di(x, 0), <<v, 0>>, Plain) :
     e \in {163, 171, 179, 187}, b \in Places(DI), x \in {0, 1, 15, 16, 255},
     v \in Mixed}
  \cup {Start(Escape2(186, b) \o <<x>>, NoWords, <<v, 0>>, Plain) :
          b \in UNION {Places(n) : n \in 4 .. 7}, x \in {0, 1, 15, 16, 255},
          v \in Mixed}
  \cup {Start(Escape2(186, AtSi(n) + 64) \o <<2, x>>, NoWords, <<0, v>>, Plain) :
          n \in 4 .. 7, x \in {0, 1, 15, 16, 255}, v \in Mixed}
  \cup {Start(Escape2(e, b), Di(3, 0), <<v, 0>>, Plain) :
          e \in {188, 189}, b \in Places(DI), v \in Mixed \cup {768}}

Counts == {0, 1, 4, 15, 16, 17, 31, 32}
ShiftStarts ==
  {Start(Escape2(e, b) \o <<n>>, Di(x, 0), <<v, 0>>, f) :
     e \in {164, 172}, b \in Places(DI), n \in Counts, x \in Mixed, v \in Mixed,
     f \in Carrying}
  \cup {Start(Escape2(e, b), Di(x, 0) @@ (2 * CX :> n), <<v, 0>>, Plain) :
          e \in {165, 173}, b \in Places(DI), n \in Counts, x \in Mixed,
          v \in Mixed}
  \cup {Start(Escape2(172, AtSi(DI) + 64) \o <<n, 2>>, Di(x, 0), <<0, v>>, Plain) :
          n \in Counts, x \in Mixed, v \in Mixed}

ExtendStarts ==
  {Start(q \o Escape2(e, b), Di(7, 9), <<v, 0>>, Plain) :
     q \in {<<>>, <<102>>}, e \in {182, 183, 190, 191}, b \in Places(DI),
     v \in Words \cup Bytes}

\* The others with a ModRM byte, and the few that leave it unread.
OtherStarts ==
  {Start(Escape2(e, b), Di(x, 0), <<v, 0>>, Plain) :
     e \in {192, 193}, b \in Places(DI) \cup {AtSi(SI)}, x \in Bytes, v \in Words}
  \cup {Start(Escape2(e, b), NoWords, <<v, 0>>, f) :
          e \in 144 .. 159, b \in Places(0), v \in {0, 65535},
          f \in {2, 3, 66, 130, 2050, 2178}}
  \cup {Start(Escape2(e, b), NoWords, <<768, 0>>, 66) :
          e \in 0 .. 3, b \in UNION {Places(n) : n \in Reg}}
  \cup {Start(<<15, e, 0>>, NoWords, <<0, 0>>, Plain) :
          e \in {6, 11, 49, 128, 131, 160, 161, 162, 168, 169}}

-----------------------------------------------------------------------------
\* INC and DEC through a prefix and at every kind of address: a byte or a word
\* of displacement, none, an address without a base, and 32-bit forms with and
\* without a SIB byte.
Addresses16 == {<<4>>, <<68, 2>>, <<132, 0, 1>>, <<6, 0, 3>>, <<2>>, <<0>>, <<7>>}
Addresses32 == {<<6>>, <<70, 2>>, <<4, 52>>, <<5, 0, 3, 0, 0>>, <<4, 181>>,
                <<134, 0, 1, 0, 0>>}
Deeper(a, field) == [a EXCEPT ![1] = @ + 8 * field]
AddressStarts ==
  {Start(q \o <<255>> \o Deeper(a, n) \o <<0, 0, 0, 0, 0>>, NoWords, <<v, 0>>, f) :
     q \in {<<>>, <<38>>, <<46>>, <<54>>, <<62>>, <<100>>, <<101>>, <<102>>,
            <<240>>},
     a \in Addresses16 \cup {<<195>>}, n \in 0 .. 1, v \in {0, 768, 65535},
     f \in Carrying}
  \cup {Start(<<103, 255>> \o Deeper(a, n) \o <<0, 0, 0, 0, 0>>, NoWords,
              <<v, 0>>, Plain) :
          a \in Addresses32, n \in 0 .. 6, v \in {0, 768, 65535}}
  \cup {Start(<<38, 102, 255, 4>>, NoWords, <<1, 0>>, Plain)}

OperandStarts ==
  {Group1Starts, Group3Starts, ImulStarts, BitStarts, ShiftStarts,
   ExtendStarts, OtherStarts, AddressStarts}

\* One instruction for each claim: INC WORD [SI+2], and ADD BX,1.
IncStarts == {{Start(<<255, 68, 2, 144, 144>>, NoWords, <<7, 9>>, Plain)}}
AddStarts == {{Start(<<129, InReg(0), 1, 0>>, NoWords, <<7, 0>>, Plain)}}

=============================================================================
