-------------------------- MODULE Operands_proofs ---------------------------
(***************************************************************************)
(* Theorems about Operands for r/m operands and reg fields of any values:  *)
(* the length of an instruction, and when what it does is what a processor *)
(* does.  The pipeline's invariant (Carried) says that each step has the   *)
(* result of the one before; the rest is about the operators, opcode by    *)
(* opcode.                                                                 *)
(***************************************************************************)
EXTENDS Operands, TLAPS

\* The bytes of an instruction that can be encoded.
EncodingOk(s) ==
  /\ s.op \in Opcode /\ s.prefix \in BOOLEAN
  /\ s.rex \in SUBSET {"W", "R", "X", "B"} /\ (s.prefix \/ s.rex = {})
  /\ s.mod \in 0 .. 3 /\ s.reg \in 0 .. 7 /\ s.rm \in 0 .. 7
  /\ s.scale \in 0 .. 3 /\ s.index \in 0 .. 7 /\ s.base \in 0 .. 7
  /\ s.op = "8D" => s.mod # 3
  /\ s.op \in {"C6", "C7"} => s.reg = 0

Number01(p) == IF p THEN 1 ELSE 0

\* The bytes of the ModRM, the SIB and the displacement that parse_modrm and
\* parse_sib step over are those there are.
LEMMA ModrmLength ==
  ASSUME NEW s, EncodingOk(s)
  PROVE  ModrmSize(s) =
           IF s.mod = 3 THEN 1
           ELSE 1 + Number01(s.rm = 4) + Number01(s.mod = 1)
                  + 4 * Number01(\/ s.mod = 2 \/ RipRel(s)
                                 \/ s.rm = 4 /\ NoBase(s))
<1> USE DEF ModrmSize, SibDisp, Number01, RipRel, NoBase
<1>0. s.mod \in {0, 1, 2, 3} /\ s.rm \in 0 .. 7
  BY DEF EncodingOk
<1>1. CASE s.mod = 3
  BY <1>1
<1>2. CASE s.mod = 0
  <2>1. CASE s.rm = 4
    BY <1>2, <2>1
  <2>2. CASE s.rm = 5
    BY <1>2, <2>2
  <2>3. CASE s.rm \notin {4, 5}
    BY <1>2, <2>3
  <2> QED BY <2>1, <2>2, <2>3
<1>3. CASE s.mod \in {1, 2}
  <2>1. CASE s.rm = 4
    BY <1>3, <2>1
  <2>2. CASE s.rm # 4
    BY <1>3, <2>2
  <2> QED BY <2>1, <2>2
<1> QED BY <1>0, <1>1, <1>2, <1>3

\* The bytes of the literal are those there are.
LEMMA ImmLength ==
  ASSUME NEW s, EncodingOk(s)
  PROVE  ImmSize(s) =
           Number01(s.op \in {"83", "C6", "C1", "EB", "7x"})
           + 4 * Number01(\/ s.op \in {"81", "C7", "05", "3D", "E9", "E8", "0F8x"}
                          \/ s.op = "B8" /\ "W" \notin s.rex)
           + 8 * Number01(s.op = "B8" /\ "W" \in s.rex)
<1> USE DEF ImmSize, Number01
<1>1. CASE s.op \in {"83", "C6", "C1", "EB", "7x"}
  BY <1>1
<1>2. CASE s.op \in {"81", "C7", "05", "3D", "E9", "E8", "0F8x"}
  BY <1>2
<1>3. CASE s.op = "B8"
  BY <1>3
<1>4. CASE s.op \notin {"83", "C6", "C1", "EB", "7x", "81", "C7", "05", "3D",
                        "E9", "E8", "0F8x", "B8"}
  BY <1>4
<1> QED BY <1>1, <1>2, <1>3, <1>4

\* So the size of an instruction decoded is its length.
LEMMA DecodedLength ==
  ASSUME NEW s, EncodingOk(s)
  PROVE  Decoded(s).size = X86Length(s)
<1>1. Decoded(s).size =
        Number01(s.prefix)
        + (IF s.op \in {"0FB6", "0FBE", "0FAF", "0F8x"} THEN 2 ELSE 1)
        + (IF s.op \in HasModrm THEN ModrmSize(s) ELSE 0) + ImmSize(s)
  BY DEF Decoded, Number01, TwoByte
<1>2. PICK m \in Nat : m = ModrmSize(s)
  BY ModrmLength DEF Number01
<1>3. PICK n \in Nat : n = ImmSize(s)
  BY ImmLength DEF Number01
<1>4. CASE s.op \notin HasModrm
  BY <1>1, <1>3, <1>4, ImmLength DEF X86Length, Number01
<1>5. CASE s.op \in HasModrm
  BY <1>1, <1>2, <1>3, <1>5, ModrmLength, ImmLength DEF X86Length, Number01
<1> QED BY <1>4, <1>5

-----------------------------------------------------------------------------

\* What exec_ir does for the bytes.
Outcome(s) == IF Undecodable(s) THEN Undone ELSE Executed(Emitted(Decoded(s)))
Agrees(s) == Outcome(s) = X86Effect(s) <=> Faithful(s)

\* Two effects are the same if what they do, to what, from what, over how many
\* bytes and with what fill are.
LEMMA EffectEq ==
  ASSUME NEW op1, NEW to1, NEW from1, NEW bytes1, NEW fill1,
         NEW op2, NEW to2, NEW from2, NEW bytes2, NEW fill2
  PROVE  Effect(op1, to1, from1, bytes1, fill1) = Effect(op2, to2, from2, bytes2, fill2)
           <=> op1 = op2 /\ to1 = to2 /\ from1 = from2 /\ bytes1 = bytes2 /\ fill1 = fill2
BY DEF Effect

\* So are two places if their parts are.
LEMMA PlaceEq ==
  ASSUME NEW kind1, NEW reg1, NEW regs1, NEW rip1,
         NEW kind2, NEW reg2, NEW regs2, NEW rip2
  PROVE  Place(kind1, reg1, regs1, rip1) = Place(kind2, reg2, regs2, rip2)
           <=> kind1 = kind2 /\ reg1 = reg2 /\ regs1 = regs2 /\ rip1 = rip2
BY DEF Place


\* The register a field names.
LEMMA DecodeRegIn ==
  ASSUME NEW s, NEW bit, NEW c \in 0 .. 7
  PROVE  DecodeReg(s, c, bit) \in Reg /\ DecodeReg(s, c, bit) \in 0 .. 15
BY DEF DecodeReg, Reg

\* The r/m operand as parse_modrm has it: a register ...
LEMMA RmReg ==
  ASSUME NEW s, EncodingOk(s), s.mod = 3, NEW o, o = ParseModrm(s)
  PROVE  /\ o.is_mem = FALSE /\ o.has_sib = FALSE /\ o.rip_rel = FALSE
         /\ o.abs_sib = FALSE
         /\ o.reg = DecodeReg(s, s.rm, "B") /\ o.base = o.reg
BY DEF ParseModrm, NoOperand

\* ... an address without a SIB byte ...
LEMMA RmPlain ==
  ASSUME NEW s, EncodingOk(s), s.mod # 3, s.rm # 4, NEW o, o = ParseModrm(s)
  PROVE  /\ o.is_mem = TRUE /\ o.has_sib = FALSE /\ o.abs_sib = FALSE
         /\ o.rip_rel = RipRel(s) /\ o.rip_rel \in BOOLEAN
         /\ o.base = DecodeReg(s, s.rm, "B") /\ o.reg = 0
BY DEF ParseModrm, NoOperand, RipRel

\* ... or one with.
LEMMA RmSib ==
  ASSUME NEW s, EncodingOk(s), s.mod # 3, s.rm = 4, NEW o, o = ParseModrm(s)
  PROVE  /\ o.is_mem = TRUE /\ o.has_sib = TRUE /\ o.abs_sib = NoBase(s)
         /\ o.abs_sib \in BOOLEAN /\ o.rip_rel = FALSE /\ ~RipRel(s)
         /\ o.base = DecodeReg(s, s.base, "B") /\ o.reg = 0
         /\ o.scale = s.scale /\ o.index = s.index
BY DEF ParseModrm, ParseSib, NoOperand, NoBase, RipRel

\* Different places.
LEMMA PlacesDiffer ==
  /\ \A r, q : InReg(r) = InReg(q) <=> r = q
  /\ \A f, g : InMem(At(f)) = InMem(At(g)) <=> f = g
  /\ \A f, x : InMem(At(f)) # InMem(Rip(x)) \/ x = "none"
  /\ \A x, y : InMem(Rip(x)) = InMem(Rip(y)) <=> x = y
  /\ \A f, g : Itself(At(f)) = Itself(At(g)) <=> f = g
  /\ \A f, x : Itself(At(f)) # Itself(Rip(x)) \/ x = "none"
  /\ \A x, y : Itself(Rip(x)) = Itself(Rip(y)) <=> x = y
  /\ \A r, a : InReg(r) # InMem(a) /\ InMem(a) # InReg(r)
<1> USE DEF InReg, InMem, Itself, At, Rip, Place
<1>1. \A r, q : InReg(r) = InReg(q) <=> r = q
  OBVIOUS
<1>2. \A f, g : InMem(At(f)) = InMem(At(g)) <=> f = g
  OBVIOUS
<1>3. \A f, x : InMem(At(f)) # InMem(Rip(x)) \/ x = "none"
  OBVIOUS
<1>4. \A x, y : InMem(Rip(x)) = InMem(Rip(y)) <=> x = y
  OBVIOUS
<1>5. \A f, g : Itself(At(f)) = Itself(At(g)) <=> f = g
  OBVIOUS
<1>6. \A f, x : Itself(At(f)) # Itself(Rip(x)) \/ x = "none"
  OBVIOUS
<1>7. \A x, y : Itself(Rip(x)) = Itself(Rip(y)) <=> x = y
  OBVIOUS
<1>8. \A r, a : InReg(r) # InMem(a) /\ InMem(a) # InReg(r)
  OBVIOUS
<1> QED BY <1>1, <1>2, <1>3, <1>4, <1>5, <1>6, <1>7, <1>8

\* The fields of a SIB byte as a processor reads them.
Index(s) == s.index + (IF "X" \in s.rex THEN 8 ELSE 0)
Scale(s) == <<1, 2, 4, 8>>[s.scale + 1]
BaseReg(s) == DecodeReg(s, s.base, "B")

\* How registers count in the address of a SIB byte that counts register x n
\* times as its index.
Indexed(s, x, n) ==
  IF NoBase(s) THEN Plus(NoRegs, x, n)
  ELSE Plus(Plus(NoRegs, x, n), BaseReg(s), 1)

\* Counting a register n times more changes its count alone.
LEMMA PlusIs ==
  ASSUME NEW f \in [Reg -> Nat], NEW r \in Reg, NEW n \in Nat
  PROVE  /\ Plus(f, r, n) \in [Reg -> Nat]
         /\ \A q \in Reg : Plus(f, r, n)[q] = IF q = r THEN f[q] + n ELSE f[q]
BY DEF Plus

\* To begin with every register counts 0 times.
LEMMA NoRegsIs == NoRegs \in [Reg -> Nat] /\ \A q \in Reg : NoRegs[q] = 0
BY DEF NoRegs

\* The counts of an address with one register ...
LEMMA OneReg ==
  ASSUME NEW r \in Reg, NEW n \in Nat
  PROVE  \E f \in [Reg -> Nat] : /\ f = Plus(NoRegs, r, n)
                                 /\ \A q \in Reg : f[q] = IF q = r THEN n ELSE 0
<1>1. /\ Plus(NoRegs, r, n) \in [Reg -> Nat]
      /\ \A q \in Reg : Plus(NoRegs, r, n)[q] = IF q = r THEN n ELSE 0
  BY NoRegsIs, PlusIs
<1> QED BY <1>1, Zenon

\* ... and with a base added.
LEMMA OneMore ==
  ASSUME NEW f \in [Reg -> Nat], NEW r \in Reg
  PROVE  \E g \in [Reg -> Nat] :
           /\ g = Plus(f, r, 1)
           /\ \A q \in Reg : g[q] = IF q = r THEN f[q] + 1 ELSE f[q]
<1>1. /\ Plus(f, r, 1) \in [Reg -> Nat]
      /\ \A q \in Reg : Plus(f, r, 1)[q] = IF q = r THEN f[q] + 1 ELSE f[q]
  BY PlusIs
<1> QED BY <1>1, Zenon

\* The scale is a power of two, the product of what its two bits say.
LEMMA ScaleIs ==
  ASSUME NEW s, EncodingOk(s)
  PROVE  /\ Scale(s) \in Nat \ {0}
         /\ Scale(s) = 1 <=> s.scale = 0
         /\ Scale(s) = (IF s.scale \in {1, 3} THEN 2 ELSE 1)
                         * (IF s.scale \in {2, 3} THEN 4 ELSE 1)
<1>1. s.scale = 0 \/ s.scale = 1 \/ s.scale = 2 \/ s.scale = 3
  BY DEF EncodingOk
<1> QED BY <1>1 DEF Scale

\* The address a processor makes of a SIB byte.
LEMMA SibAddr ==
  ASSUME NEW s, EncodingOk(s), s.mod # 3, s.rm = 4
  PROVE  /\ X86Addr(s) = At(IF NoIndex(s)
                            THEN IF NoBase(s) THEN NoRegs
                                 ELSE Plus(NoRegs, BaseReg(s), 1)
                            ELSE Indexed(s, Index(s), Scale(s)))
         /\ Index(s) \in Reg /\ BaseReg(s) \in Reg
BY DecodeRegIn DEF X86Addr, Indexed, Index, BaseReg, Scale, RipRel, DecodeReg,
                   EncodingOk, Reg

\* It has the index and the scale that are encoded, if there is one.
LEMMA SibIndex ==
  ASSUME NEW s, EncodingOk(s), s.mod # 3, s.rm = 4, NEW x \in Reg, NEW n \in Nat \ {0}
  PROVE  At(Indexed(s, x, n)) = X86Addr(s) <=> ~NoIndex(s) /\ x = Index(s) /\ n = Scale(s)
<1>0. PICK b \in Reg, z \in Reg, m \in Nat \ {0} :
        b = BaseReg(s) /\ z = Index(s) /\ m = Scale(s)
  BY SibAddr, ScaleIs
<1>1. \A f, g : At(f) = At(g) <=> f = g
  BY DEF At
<1>2. 1 \in Nat
  OBVIOUS
<1>3. \A y \in Reg, k \in Nat \ {0}, q \in Reg :
        Indexed(s, y, k)[q] = (IF q = y THEN k ELSE 0)
                              + (IF ~NoBase(s) /\ q = b THEN 1 ELSE 0)
  <2> SUFFICES ASSUME NEW y \in Reg, NEW k \in Nat \ {0}
               PROVE  \A q \in Reg :
                        Indexed(s, y, k)[q] = (IF q = y THEN k ELSE 0)
                                              + (IF ~NoBase(s) /\ q = b THEN 1 ELSE 0)
    OBVIOUS
  <2>1. PICK f \in [Reg -> Nat] : /\ f = Plus(NoRegs, y, k)
                                  /\ \A q \in Reg : f[q] = IF q = y THEN k ELSE 0
    BY <1>2, OneReg
  <2>2. PICK g \in [Reg -> Nat] : /\ g = Plus(f, b, 1)
                                  /\ \A q \in Reg : g[q] = IF q = b THEN f[q] + 1 ELSE f[q]
    BY <1>2, OneMore
  <2>3. Indexed(s, y, k) = IF NoBase(s) THEN f ELSE g
    BY <1>0, <2>1, <2>2 DEF Indexed
  <2>4. CASE NoBase(s)
    BY <1>2, <2>1, <2>3, <2>4
  <2>5. CASE ~NoBase(s)
    BY <1>2, <2>1, <2>2, <2>3, <2>5
  <2> QED BY <2>4, <2>5
<1>4. CASE ~NoIndex(s)
  <2>1. X86Addr(s) = At(Indexed(s, z, m))
    BY <1>0, <1>4, SibAddr
  <2>2. ASSUME Indexed(s, x, n) = Indexed(s, z, m) PROVE x = z /\ n = m
    <3>1. Indexed(s, x, n)[x] = n + (IF ~NoBase(s) /\ x = b THEN 1 ELSE 0)
      BY <1>3
    <3>2. Indexed(s, z, m)[x] = (IF x = z THEN m ELSE 0)
                                + (IF ~NoBase(s) /\ x = b THEN 1 ELSE 0)
      BY <1>3
    <3> QED BY <2>2, <3>1, <3>2
  <2> QED BY <1>0, <1>1, <1>4, <2>1, <2>2
<1>5. CASE NoIndex(s)
  <2> DEFINE g == IF NoBase(s) THEN NoRegs ELSE Plus(NoRegs, b, 1)
  <2>1. X86Addr(s) = At(g)
    BY <1>0, <1>5, SibAddr
  <2>2. g[x] = IF ~NoBase(s) /\ x = b THEN 1 ELSE 0
    <3>1. PICK f \in [Reg -> Nat] : /\ f = Plus(NoRegs, b, 1)
                                    /\ \A q \in Reg : f[q] = IF q = b THEN 1 ELSE 0
      BY <1>2, OneReg
    <3> QED BY <3>1, NoRegsIs
  <2> HIDE DEF g
  <2>3. Indexed(s, x, n)[x] = n + (IF ~NoBase(s) /\ x = b THEN 1 ELSE 0)
    BY <1>3
  <2>4. Indexed(s, x, n) # g
    BY <2>2, <2>3
  <2> QED BY <1>1, <1>5, <2>1, <2>4
<1> QED BY <1>4, <1>5

\* Its base alone is the address if there is no index, or no base and the index
\* happens to be that register.
LEMMA SibBase ==
  ASSUME NEW s, EncodingOk(s), s.mod # 3, s.rm = 4
  PROVE  At(Plus(NoRegs, BaseReg(s), 1)) = X86Addr(s)
           <=> IF NoBase(s) THEN s.scale = 0 /\ Index(s) = BaseReg(s)
               ELSE NoIndex(s)
<1>1. \A f, g : At(f) = At(g) <=> f = g
  BY DEF At
<1>2. Scale(s) \in Nat /\ Scale(s) # 0 /\ BaseReg(s) \in Reg /\ Index(s) \in Reg
      /\ 1 \in Nat /\ (Scale(s) = 1 <=> s.scale = 0)
  BY ScaleIs, SibAddr
<1>3. PICK b \in Reg, x \in Reg, n \in Nat \ {0} :
        b = BaseReg(s) /\ x = Index(s) /\ n = Scale(s)
  BY <1>2
<1>4. PICK f \in [Reg -> Nat] : /\ f = Plus(NoRegs, b, 1)
                                /\ \A q \in Reg : f[q] = IF q = b THEN 1 ELSE 0
  BY <1>2, OneReg
<1>5. PICK g \in [Reg -> Nat] : /\ g = Plus(NoRegs, x, n)
                                /\ \A q \in Reg : g[q] = IF q = x THEN n ELSE 0
  BY <1>2, OneReg
<1>6. CASE NoIndex(s) /\ NoBase(s)
  <2>1. X86Addr(s) = At(NoRegs)
    BY <1>6, SibAddr
  <2>2. f # NoRegs
    <3>1. f[b] = 1 /\ NoRegs[b] = 0
      BY <1>4, NoRegsIs
    <3> QED BY <3>1
  <2>3. Index(s) = 4 /\ BaseReg(s) \in {5, 13}
    BY <1>6 DEF NoIndex, NoBase, Index, BaseReg, DecodeReg
  <2> QED BY <1>1, <1>3, <1>4, <1>6, <2>1, <2>2, <2>3
<1>7. CASE NoIndex(s) /\ ~NoBase(s)
  BY <1>7, SibAddr
<1>8. CASE ~NoIndex(s) /\ NoBase(s)
  <2>1. X86Addr(s) = At(g)
    BY <1>3, <1>5, <1>8, SibAddr DEF Indexed
  <2>2. f = g <=> n = 1 /\ x = b
    <3>1. ASSUME f = g PROVE n = 1 /\ x = b
      <4>1. g[b] = 1
        BY <1>4, <3>1
      <4> QED BY <1>5, <4>1
    <3>2. ASSUME n = 1, x = b PROVE f = g
      BY <1>4, <1>5, <3>2
    <3> QED BY <3>1, <3>2
  <2> QED BY <1>1, <1>2, <1>3, <1>4, <1>8, <2>1, <2>2
<1>9. CASE ~NoIndex(s) /\ ~NoBase(s)
  <2>1. PICK h \in [Reg -> Nat] : /\ h = Plus(g, b, 1)
                                  /\ \A q \in Reg : h[q] = IF q = b THEN g[q] + 1 ELSE g[q]
    BY <1>5, OneMore
  <2>2. X86Addr(s) = At(h)
    BY <1>3, <1>5, <1>9, <2>1, SibAddr DEF Indexed
  <2>3. h[x] # f[x]
    BY <1>4, <1>5, <2>1
  <2> QED BY <1>1, <1>3, <1>4, <1>9, <2>2, <2>3
<1> QED BY <1>6, <1>7, <1>8, <1>9

\* MOV of a literal to the register in the opcode.
LEMMA AgreesB8 ==
  ASSUME NEW s, EncodingOk(s), s.op = "B8"
  PROVE  Agrees(s)
<1>1. ~Undecodable(s)
  BY DEF Undecodable, RexOnly, RexWOnly
<1> DEFINE w == IF "W" \in s.rex THEN 8 ELSE 4
           r == DecodeReg(s, s.rm, "R")
<1>2. PICK d : d = Decoded(s)
  OBVIOUS
<1>3. d.kind = "MovImm" /\ d.width = w /\ d.dst.reg = r /\ d.dst.is_mem = FALSE
      /\ d.imm = Lit
  <2>1. d.kind = Kind(s) /\ d.width = WidthOf(s) /\ d.imm = Lit
    BY <1>2 DEF Decoded
  <2>2. d.dst = [NoOperand EXCEPT !.reg = r]
    BY <1>2 DEF Decoded, ToRm, Group, ToReg, InOpcode
  <2>3. d.dst.reg = r /\ d.dst.is_mem = FALSE
    BY <2>2 DEF NoOperand
  <2>4. Kind(s) = "MovImm"
    BY DEF Kind, Branch
  <2>5. WidthOf(s) = w
    BY DEF WidthOf
  <2> QED BY <2>1, <2>3, <2>4, <2>5
<1>4. PICK i : i = Emitted(d)
  OBVIOUS
<1>5. i.op = "LoadImm" /\ i.width = w /\ i.dst = r /\ i.imm = Lit
  BY <1>3, <1>4 DEF Emitted, Make
<1>6. Outcome(s) = Effect("mov", InReg(r), Literal, w, "zero")
  BY <1>1, <1>2, <1>4, <1>5 DEF Outcome, Executed
<1>7. X86Effect(s) = Effect("mov", InReg(DecodeReg(s, s.rm, "B")), Literal, w, "zero")
  BY DEF X86Effect, X86Op, Branch, ToRm, Group, X86Bytes, X86Reg, Filled, InReg, Place, DecodeReg
<1>8. Faithful(s) <=> ("R" \in s.rex <=> "B" \in s.rex)
  BY <1>1 DEF Faithful, OperationKept, SizeKept, RegistersKept, RexOnly, RexWOnly, Branch, InOpcode, HasModrm
<1>9. r = DecodeReg(s, s.rm, "B") <=> ("R" \in s.rex <=> "B" \in s.rex)
  BY DEF DecodeReg, EncodingOk
<1> QED BY <1>6, <1>7, <1>8, <1>9, EffectEq, PlaceEq DEF Agrees, InReg

\* The fields of an Instruction.
LEMMA DecodedIs ==
  ASSUME NEW s, NEW d, d = Decoded(s)
  PROVE  /\ d.kind = Kind(s) /\ d.binop = BinOpOf(s) /\ d.width = WidthOf(s)
         /\ d.imm = (IF s.op \in {"FF", "D1"} THEN 1 ELSE Lit)
         /\ (d.zext <=> s.op = "0FB6") /\ (d.sext <=> s.op \in {"0FBE", "63", "98"})
         /\ (d.skew <=> s.op \in Branch /\ s.prefix)
         /\ s.op \in ToRm \union Group => d.dst = ParseModrm(s)
         /\ s.op \in ToRm => d.src.reg = DecodeReg(s, s.reg, "R") /\ d.src.is_mem = FALSE
         /\ s.op \in ToReg => /\ d.src = ParseModrm(s)
                              /\ d.dst.reg = DecodeReg(s, s.reg, "R") /\ d.dst.is_mem = FALSE
         /\ s.op \in InOpcode => /\ d.dst.reg = DecodeReg(s, s.rm, "R") /\ d.dst.is_mem = FALSE
                                 /\ d.src.reg = DecodeReg(s, s.rm, "R")
         /\ s.op \in RexWOnly => /\ d.dst.reg = 0 /\ d.dst.is_mem = FALSE
                                 /\ d.src.reg = 0 /\ d.src.is_mem = FALSE
<1> DEFINE reg == [NoOperand EXCEPT !.reg = DecodeReg(s, s.reg, "R")]
           low == [NoOperand EXCEPT !.reg = DecodeReg(s, s.rm, "R")]
<1>1. reg.reg = DecodeReg(s, s.reg, "R") /\ reg.is_mem = FALSE
  BY DEF NoOperand
<1>2. low.reg = DecodeReg(s, s.rm, "R") /\ low.is_mem = FALSE
  BY DEF NoOperand
<1>3. NoOperand.reg = 0 /\ NoOperand.is_mem = FALSE
  BY DEF NoOperand
<1>4. /\ d.dst = CASE s.op \in ToRm \union Group -> ParseModrm(s)
                   [] s.op \in ToReg             -> reg
                   [] s.op \in InOpcode          -> low
                   [] OTHER                      -> NoOperand
      /\ d.src = CASE s.op \in ToRm     -> reg
                   [] s.op \in ToReg    -> ParseModrm(s)
                   [] s.op \in InOpcode -> low
                   [] OTHER             -> NoOperand
  BY DEF Decoded
<1>5. /\ d.kind = Kind(s) /\ d.binop = BinOpOf(s) /\ d.width = WidthOf(s)
      /\ d.imm = (IF s.op \in {"FF", "D1"} THEN 1 ELSE Lit)
      /\ (d.zext <=> s.op = "0FB6") /\ (d.sext <=> s.op \in {"0FBE", "63", "98"})
      /\ (d.skew <=> s.op \in Branch /\ s.prefix)
  BY DEF Decoded
<1> HIDE DEF reg, low
<1>6. s.op \in ToRm \union Group => d.dst = ParseModrm(s)
  BY <1>4 DEF ToRm, Group, ToReg, InOpcode
<1>7. s.op \in ToRm => d.src = reg
  BY <1>4 DEF ToRm, Group, ToReg, InOpcode
<1>8. s.op \in ToReg => d.src = ParseModrm(s) /\ d.dst = reg
  BY <1>4 DEF ToRm, Group, ToReg, InOpcode
<1>9. s.op \in InOpcode => d.dst = low /\ d.src = low
  BY <1>4 DEF ToRm, Group, ToReg, InOpcode
<1>10. s.op \in RexWOnly => d.dst = NoOperand /\ d.src = NoOperand
  BY <1>4 DEF ToRm, Group, ToReg, InOpcode, RexWOnly
<1> QED BY <1>1, <1>2, <1>3, <1>5, <1>6, <1>7, <1>8, <1>9, <1>10

\* The r/m operand as a processor has it.
LEMMA X86RmIs ==
  ASSUME NEW s, EncodingOk(s), NEW bytes
  PROVE  /\ s.mod # 3 => X86Rm(s, bytes) = InMem(X86Addr(s))
         /\ s.mod = 3 /\ (bytes # 1 \/ s.prefix \/ s.rm < 4) =>
              X86Rm(s, bytes) = InReg(DecodeReg(s, s.rm, "B"))
         /\ s.mod = 3 /\ ~(bytes # 1 \/ s.prefix \/ s.rm < 4) =>
              \A r : X86Rm(s, bytes) # InReg(r)
BY DEF X86Rm, X86Reg, DecodeReg, EncodingOk, InReg, Place

\* The register in the reg field as a processor has it.
LEMMA X86RegIs ==
  ASSUME NEW s, EncodingOk(s), NEW bytes
  PROVE  /\ bytes # 1 \/ s.prefix \/ s.reg < 4 =>
              X86Reg(s, s.reg, "R", bytes) = InReg(DecodeReg(s, s.reg, "R"))
         /\ ~(bytes # 1 \/ s.prefix \/ s.reg < 4) =>
              \A r : X86Reg(s, s.reg, "R", bytes) # InReg(r)
BY DEF X86Reg, DecodeReg, EncodingOk, InReg, Place

\* The address of an r/m operand without a SIB byte as a processor has it.
LEMMA X86Plain ==
  ASSUME NEW s, EncodingOk(s), s.mod # 3, s.rm # 4
  PROVE  /\ RipRel(s) => X86Addr(s) = Rip("next")
         /\ ~RipRel(s) => X86Addr(s) = At(Plus(NoRegs, DecodeReg(s, s.rm, "B"), 1))
BY DEF X86Addr, DecodeReg

\* binop_val does the operation emit_x86 asks for.
LEMMA OpsIn ==
  /\ OpBits("add") = {} /\ OpBits("sub") = {0} /\ OpBits("and") = {1}
  /\ OpBits("or") = {0, 1} /\ OpBits("xor") = {2}
  /\ OpNumber("add") = 0 /\ OpNumber("sub") = 1 /\ OpNumber("and") = 2
  /\ OpNumber("or") = 3 /\ OpNumber("xor") = 4
  /\ OpIn(OpBits("add")) = "add" /\ OpIn(OpBits("sub")) = "sub"
  /\ OpIn(OpBits("and")) = "and" /\ OpIn(OpBits("or")) = "or"
  /\ OpIn(OpBits("xor")) = "xor"
  /\ \A bits : OpIn(bits) = "zero" \/ OpBits(OpIn(bits)) = bits
<1>1. /\ Ops[1] = "add" /\ Ops[2] = "sub" /\ Ops[3] = "and" /\ Ops[4] = "or" /\ Ops[5] = "xor"
  BY DEF Ops
<1>2. \A n \in 0 .. 4 : n = 0 \/ n = 1 \/ n = 2 \/ n = 3 \/ n = 4
  OBVIOUS
<1>3. /\ OpNumber("add") = 0 /\ OpNumber("sub") = 1 /\ OpNumber("and") = 2
      /\ OpNumber("or") = 3 /\ OpNumber("xor") = 4
  <2>1. OpNumber("add") = 0
    BY <1>1, <1>2 DEF OpNumber
  <2>2. OpNumber("sub") = 1
    BY <1>1, <1>2 DEF OpNumber
  <2>3. OpNumber("and") = 2
    BY <1>1, <1>2 DEF OpNumber
  <2>4. OpNumber("or") = 3
    BY <1>1, <1>2 DEF OpNumber
  <2>5. OpNumber("xor") = 4
    BY <1>1, <1>2 DEF OpNumber
  <2> QED BY <2>1, <2>2, <2>3, <2>4, <2>5
<1>4. \A o : OpBits(o) = Bits(OpNumber(o))
  BY DEF OpBits, OpNumber
<1>5. /\ Bits(0) = {} /\ Bits(1) = {0} /\ Bits(2) = {1} /\ Bits(3) = {0, 1} /\ Bits(4) = {2}
  BY DEF Bits
<1>6. /\ OpBits("add") = {} /\ OpBits("sub") = {0} /\ OpBits("and") = {1}
      /\ OpBits("or") = {0, 1} /\ OpBits("xor") = {2}
  BY <1>3, <1>4, <1>5
<1>7. {Ops[n] : n \in 1 .. 5} = {"add", "sub", "and", "or", "xor"}
  <2>1. \A n \in 1 .. 5 : Ops[n] \in {"add", "sub", "and", "or", "xor"}
    BY <1>1
  <2>2. \A o \in {"add", "sub", "and", "or", "xor"} : \E n \in 1 .. 5 : Ops[n] = o
    BY <1>1
  <2> QED BY <2>1, <2>2
<1>8. \A o \in {"add", "sub", "and", "or", "xor"} : OpIn(OpBits(o)) = o
  <2> SUFFICES ASSUME NEW o \in {"add", "sub", "and", "or", "xor"}
               PROVE  OpIn(OpBits(o)) = o
    OBVIOUS
  <2>1. \A q \in {Ops[n] : n \in 1 .. 5} : OpBits(q) = OpBits(o) <=> q = o
    BY <1>6, <1>7
  <2>2. o \in {Ops[n] : n \in 1 .. 5}
    BY <1>7
  <2> QED BY <2>1, <2>2, Zenon DEF OpIn
<1>9. /\ OpIn(OpBits("add")) = "add" /\ OpIn(OpBits("sub")) = "sub"
      /\ OpIn(OpBits("and")) = "and" /\ OpIn(OpBits("or")) = "or"
      /\ OpIn(OpBits("xor")) = "xor"
  BY <1>8
<1>10. \A bits : OpIn(bits) = "zero" \/ OpBits(OpIn(bits)) = bits
  BY Zenon DEF OpIn
<1> QED BY <1>3, <1>6, <1>9, <1>10

\* PUSH and POP.
LEMMA AgreesStack ==
  ASSUME NEW s, EncodingOk(s), s.op \in {"50", "58"}
  PROVE  Agrees(s)
<1>1. ~Undecodable(s)
  BY DEF Undecodable, RexOnly, RexWOnly
<1>2. PICK d : d = Decoded(s)
  OBVIOUS
<1>3. PICK i : i = Emitted(d)
  OBVIOUS
<1>4. PICK r, q : r = DecodeReg(s, s.rm, "R") /\ q = DecodeReg(s, s.rm, "B")
  OBVIOUS
<1>5. (r = q <=> ("R" \in s.rex <=> "B" \in s.rex))
      /\ (q = RSP <=> s.rm = 4 /\ "B" \notin s.rex)
  BY <1>4 DEF DecodeReg, EncodingOk, RSP
<1>6. MovedRsp # InReg(q)
  BY DEF MovedRsp, InReg, Place
<1>7. Faithful(s) <=> ("R" \in s.rex <=> "B" \in s.rex) /\ (s.rm # 4 \/ "B" \in s.rex)
  BY <1>1 DEF Faithful, OperationKept, SizeKept, RegistersKept, RexOnly, RexWOnly,
              Branch, InOpcode, HasModrm
<1>8. d.dst.reg = r /\ d.src.reg = r
  BY <1>2, <1>4, DecodedIs DEF InOpcode
<1>9. CASE s.op = "50"
  <2>0. Kind(s) = "Push"
    BY <1>9 DEF Kind, Branch
  <2>1. d.kind = "Push"
    BY <1>2, <2>0, DecodedIs
  <2>2. i.op = "Push" /\ i.src = r
    BY <1>3, <1>8, <2>1 DEF Emitted, Make
  <2>3. Outcome(s) = Effect("push", Nowhere, IF r = RSP THEN MovedRsp ELSE InReg(r), 8, "none")
    BY <1>1, <1>2, <1>3, <2>2 DEF Outcome, Executed
  <2>4. X86Effect(s) = Effect("push", Nowhere, InReg(q), 8, "none")
    BY <1>4, <1>9 DEF X86Effect, X86Op, Branch, ToRm, Group, X86Bytes, X86Reg, DecodeReg
  <2> QED BY <1>5, <1>6, <1>7, <2>3, <2>4, EffectEq, PlacesDiffer DEF Agrees
<1>10. CASE s.op = "58"
  <2>0. Kind(s) = "Pop"
    BY <1>10 DEF Kind, Branch
  <2>1. d.kind = "Pop"
    BY <1>2, <2>0, DecodedIs
  <2>2. i.op = "Pop" /\ i.dst = r
    BY <1>3, <1>8, <2>1 DEF Emitted, Make
  <2>3. Outcome(s) = Effect("pop", IF r = RSP THEN MovedRsp ELSE InReg(r), Nowhere, 8, "zero")
    BY <1>1, <1>2, <1>3, <2>2 DEF Outcome, Executed
  <2>4. X86Effect(s) = Effect("pop", InReg(q), Nowhere, 8, "zero")
    BY <1>4, <1>10 DEF X86Effect, X86Op, Branch, ToRm, Group, X86Bytes, X86Reg, DecodeReg
  <2> QED BY <1>5, <1>6, <1>7, <2>3, <2>4, EffectEq, PlacesDiffer DEF Agrees
<1> QED BY <1>9, <1>10

\* Jumps, conditional or not.
LEMMA AgreesJump ==
  ASSUME NEW s, EncodingOk(s), s.op \in Branch, s.op # "E8"
  PROVE  Agrees(s)
<1>0. PICK op : op = IF s.op \in {"EB", "E9"} THEN "jmp" ELSE "jcc"
  OBVIOUS
<1>k. PICK kind : kind = IF s.op \in {"EB", "E9"} THEN "Jmp" ELSE "Jcc"
  OBVIOUS
<1>1. ~Undecodable(s)
  BY DEF Undecodable, RexOnly, RexWOnly, Branch
<1>2. PICK d : d = Decoded(s)
  OBVIOUS
<1>3. PICK i : i = Emitted(d)
  OBVIOUS
<1>4. d.kind = kind /\ (d.skew <=> s.prefix)
  <2>1. Kind(s) = kind
    BY <1>k DEF Kind, Branch
  <2> QED BY <1>2, <2>1, DecodedIs DEF EncodingOk
<1>5. i.op = kind /\ i.imm = (IF s.prefix THEN ShortPc ELSE NextPc)
  BY <1>3, <1>4, <1>k DEF Emitted, Make
<1>6. Outcome(s) = Effect(op, Nowhere, Itself(Rip(IF s.prefix THEN "short" ELSE "next")),
                          8, "none")
  BY <1>0, <1>k, <1>1, <1>2, <1>3, <1>5
     DEF Outcome, Executed, ShortPc, NextPc, EncodingOk
<1>7. X86Effect(s) = Effect(op, Nowhere, Itself(Rip("next")), 8, "none")
  <2>1. X86Op(s) = op /\ op \in {"jmp", "jcc"}
    BY <1>0 DEF X86Op, Branch
  <2> QED BY <2>1 DEF X86Effect, Branch, ToRm, Group
<1>8. Faithful(s) <=> ~s.prefix
  BY <1>1 DEF Faithful, OperationKept, SizeKept, RegistersKept, RexOnly, RexWOnly,
              Branch, InOpcode, HasModrm
<1> QED BY <1>6, <1>7, <1>8, EffectEq, PlacesDiffer DEF Agrees, EncodingOk

\* Calls push an index where a processor pushes an address.
LEMMA AgreesCall ==
  ASSUME NEW s, EncodingOk(s), s.op = "E8"
  PROVE  Agrees(s)
<1>1. ~Undecodable(s)
  BY DEF Undecodable, RexOnly, RexWOnly
<1>2. PICK d : d = Decoded(s)
  OBVIOUS
<1>3. PICK i : i = Emitted(d)
  OBVIOUS
<1>4. d.kind = "Call"
  <2>1. Kind(s) = "Call"
    BY DEF Kind
  <2> QED BY <1>2, <2>1, DecodedIs
<1>5. i.op = "Call"
  BY <1>3, <1>4 DEF Emitted, Make
<1>6. Outcome(s).to = ReturnIndex
  BY <1>1, <1>2, <1>3, <1>5 DEF Outcome, Executed, Effect
<1>7. X86Effect(s).to = ReturnPc
  <2>1. X86Op(s) = "call"
    BY DEF X86Op
  <2> QED BY <2>1 DEF X86Effect, Effect, Branch, ToRm, Group
<1>8. ReturnIndex # ReturnPc
  BY PlaceEq DEF ReturnIndex, ReturnPc
<1>9. ~Faithful(s)
  BY DEF Faithful, OperationKept
<1> QED BY <1>6, <1>7, <1>8, <1>9 DEF Agrees

\* A processor always does something.
LEMMA X86Acts ==
  ASSUME NEW s, EncodingOk(s), Undecodable(s)
  PROVE  X86Effect(s).op # "none"
<1> USE DEF Filled, Effect, X86Effect, Branch, ToRm, Group
<1>1. CASE s.op \in RexWOnly
  BY <1>1 DEF RexWOnly, X86Op
<1>2. CASE s.op \in {"C1", "D1"}
  <2>1. X86Op(s) = <<"rol", "ror", "rcl", "rcr", "shl", "shr", "shl", "sar">>[s.reg + 1]
    BY <1>2 DEF X86Op
  <2>2. X86Op(s) \notin {"none", "cmp", "test"}
    BY <2>1 DEF EncodingOk
  <2> QED BY <1>2, <2>2
<1>3. CASE s.op = "FF"
  <2>1. X86Op(s) \in {"other", "add", "sub"}
    BY <1>3 DEF X86Op, EncodingOk
  <2> QED BY <1>3, <2>1
<1>4. CASE s.op \in {"39", "3B", "85"}
  <2>1. X86Op(s) \in {"cmp", "test"}
    BY <1>4 DEF X86Op
  <2> QED BY <2>1
<1>5. CASE s.op \in {"09", "21", "29", "31"}
  <2>1. X86Op(s) \notin {"none", "cmp", "test"}
    BY <1>5 DEF X86Op
  <2> QED BY <1>5, <2>1
<1>6. CASE s.op \in {"33", "03", "2B"}
  <2>1. X86Op(s) \notin {"none", "cmp", "test"}
    BY <1>6 DEF X86Op
  <2> QED BY <1>6, <2>1
<1> QED BY <1>1, <1>2, <1>3, <1>4, <1>5, <1>6 DEF Undecodable, RexOnly

\* What decode_one does not know it does not do.
LEMMA AgreesUndecodable ==
  ASSUME NEW s, EncodingOk(s), Undecodable(s)
  PROVE  Agrees(s)
<1>1. Outcome(s) = Undone /\ Undone.op = "none"
  BY DEF Outcome, Undone, Effect
<1>2. ~Faithful(s)
  BY DEF Faithful, OperationKept
<1> QED BY <1>1, <1>2, X86Acts DEF Agrees

\* Arithmetic on RAX and CDQE.
LEMMA AgreesRax ==
  ASSUME NEW s, EncodingOk(s), ~Undecodable(s), s.op \in RexWOnly
  PROVE  Agrees(s)
<1>0. "W" \in s.rex
  BY DEF Undecodable
<1>1. X86Bytes(s) = 8 /\ WidthOf(s) = 8
  BY <1>0 DEF X86Bytes, WidthOf, RexWOnly, Branch
<1>2. PICK d : d = Decoded(s)
  OBVIOUS
<1>3. PICK i : i = Emitted(d)
  OBVIOUS
<1>4. Faithful(s)
  BY <1>0 DEF Faithful, OperationKept, SizeKept, RegistersKept, RexOnly, RexWOnly,
              Branch, InOpcode, HasModrm
<1>5. d.dst.reg = 0 /\ d.dst.is_mem = FALSE /\ d.src.reg = 0 /\ d.src.is_mem = FALSE
      /\ d.width = 8 /\ d.imm = Lit /\ d.kind = Kind(s) /\ d.binop = BinOpOf(s)
  BY <1>1, <1>2, DecodedIs DEF RexWOnly
<1>6. CASE s.op = "05"
  <2>1. Kind(s) = "BinOpRegImm" /\ BinOpOf(s) = "add"
    BY <1>6 DEF Kind, Branch, BinOpOf
  <2>2. i.op = "BinOpImm" /\ i.dst = 0 /\ i.imm = Lit /\ i.width = 8 /\ i.aux = OpBits("add")
    BY <1>3, <1>5, <2>1 DEF Emitted, Make
  <2>3. Outcome(s) = Effect(OpIn(OpBits("add")), InReg(0), Literal, 8, "zero")
    BY <1>2, <1>3, <2>2 DEF Outcome, Executed, ImmOf
  <2>4. X86Effect(s) = Effect("add", InReg(0), Literal, 8, "zero")
    BY <1>1, <1>6 DEF X86Effect, X86Op, Branch, ToRm, Group, Filled, InReg, Place
  <2> QED BY <1>4, <2>3, <2>4, OpsIn DEF Agrees
<1>7. CASE s.op = "3D"
  <2>1. Kind(s) = "CmpRegImm"
    BY <1>7 DEF Kind, Branch
  <2>2. i.op = "CmpImm" /\ i.dst = 0 /\ i.imm = Lit /\ i.width = 8 /\ i.aux = {}
    BY <1>3, <1>5, <2>1 DEF Emitted, EmitCompare, Make
  <2>3. Outcome(s) = Effect("cmp", InReg(0), Literal, 8, "none")
    BY <1>2, <1>3, <2>2 DEF Outcome, Executed, ImmOf, Lhs, Rhs
  <2>4. X86Effect(s) = Effect("cmp", InReg(0), Literal, 8, "none")
    BY <1>1, <1>7 DEF X86Effect, X86Op, Branch, ToRm, Group
  <2> QED BY <1>4, <2>3, <2>4 DEF Agrees
<1>8. CASE s.op = "98"
  <2>1. Kind(s) = "MovRegReg"
    BY <1>8 DEF Kind, Branch
  <2>2. i.op = "MovReg" /\ i.dst = 0 /\ i.src = 0 /\ i.aux = {0, 2}
    BY <1>3, <1>5, <2>1 DEF Emitted, Make
  <2>3. Outcome(s) = Effect("mov", InReg(0), InReg(0), 4, "sign to 8")
    BY <1>2, <1>3, <2>2 DEF Outcome, Executed
  <2>4. X86Effect(s) = Effect("mov", InReg(0), InReg(0), 4, "sign to 8")
    BY <1>0, <1>1, <1>8 DEF X86Effect, X86Op, Branch, ToRm, Group
  <2> QED BY <1>4, <2>3, <2>4 DEF Agrees
<1> QED BY <1>6, <1>7, <1>8 DEF RexWOnly

\* Without a SIB byte the address is right unless it is relative to rip.
LEMMA PlainIndex ==
  ASSUME NEW s, EncodingOk(s), s.mod # 3, s.rm # 4
  PROVE  /\ At(Plus(NoRegs, DecodeReg(s, s.rm, "B"), 1)) = X86Addr(s) <=> ~RipRel(s)
         /\ Rip("next") = X86Addr(s) <=> RipRel(s)
         /\ Rip("start") # X86Addr(s)
<1>1. \A f, x : x = "none" \/ At(f) # Rip(x)
  BY DEF At, Rip
<1>2. Rip("start") # Rip("next")
  BY DEF Rip
<1> QED BY <1>1, <1>2, X86Plain

\* eff_addr without a SIB byte is the base.
LEMMA EffPlain ==
  ASSUME NEW i, ~HasSib(i), NEW b
  PROVE  EffAddr(i, b) = At(Plus(NoRegs, b, 1))
BY DEF EffAddr, Based

\* Operands in memory are the same if their addresses are.
LEMMA Addresses ==
  /\ \A i, b, s : InMem(EffAddr(i, b)) = InMem(X86Addr(s)) <=> EffAddr(i, b) = X86Addr(s)
  /\ \A i, s : InMem(LoadAddr(i)) = InMem(X86Addr(s)) <=> LoadAddr(i) = X86Addr(s)
  /\ \A i, s : InMem(StoreAddr(i)) = InMem(X86Addr(s)) <=> StoreAddr(i) = X86Addr(s)
  /\ \A i, b, s : Itself(EffAddr(i, b)) = Itself(X86Addr(s)) <=> EffAddr(i, b) = X86Addr(s)
<1> DEFINE Addr(a) == a = [regs |-> a.regs, rip |-> a.rip]
<1>1. \A f : Addr(At(f))
  BY DEF At
<1>2. \A x : Addr(Rip(x))
  BY DEF Rip
<1>3. \A a, b : Addr(a) /\ Addr(b) =>
        (InMem(a) = InMem(b) <=> a = b) /\ (Itself(a) = Itself(b) <=> a = b)
  BY DEF InMem, Itself, Place
<1> HIDE DEF Addr
<1>4. \A i, b : Addr(EffAddr(i, b))
  BY <1>1 DEF EffAddr, Based
<1>5. \A i : Addr(LoadAddr(i)) /\ Addr(StoreAddr(i))
  BY <1>2, <1>4 DEF LoadAddr, StoreAddr
<1>6. \A s : Addr(X86Addr(s))
  BY <1>1, <1>2 DEF X86Addr
<1>7. \A i, b, s :
        /\ InMem(EffAddr(i, b)) = InMem(X86Addr(s)) <=> EffAddr(i, b) = X86Addr(s)
        /\ Itself(EffAddr(i, b)) = Itself(X86Addr(s)) <=> EffAddr(i, b) = X86Addr(s)
  BY <1>3, <1>4, <1>6, Zenon
<1>8. \A i, s :
        /\ InMem(LoadAddr(i)) = InMem(X86Addr(s)) <=> LoadAddr(i) = X86Addr(s)
        /\ InMem(StoreAddr(i)) = InMem(X86Addr(s)) <=> StoreAddr(i) = X86Addr(s)
  BY <1>3, <1>5, <1>6, Zenon
<1> QED BY <1>7, <1>8

\* The bits of a scale.
LEMMA ScaleBitsAre ==
  ASSUME NEW o, o.scale \in 0 .. 3
  PROVE  /\ \A b : b \in ScaleBits(o) <=> \/ b = 4 /\ o.scale \in {1, 3}
                                          \/ b = 5 /\ o.scale \in {2, 3}
         /\ ScaleBits(o) \subseteq {4, 5}
<1>1. /\ Bits(0) = {} /\ Bits(1) = {0} /\ Bits(2) = {1} /\ Bits(3) = {0, 1}
  BY DEF Bits
<1>2. \/ o.scale = 0 /\ Bits(o.scale) = {}
      \/ o.scale = 1 /\ Bits(o.scale) = {0}
      \/ o.scale = 2 /\ Bits(o.scale) = {1}
      \/ o.scale = 3 /\ Bits(o.scale) = {0, 1}
  BY <1>1
<1> QED BY <1>2 DEF ScaleBits

\* eff_addr, given a SIB byte, has the address if there is an index, the scale is
\* the one in aux, and src or imm holds the index, as bit 4 of aux says.
LEMMA SibEff ==
  ASSUME NEW s, EncodingOk(s), s.mod # 3, s.rm = 4,
         NEW i, HasSib(i), 6 \in i.aux <=> NoBase(s), 5 \in i.aux <=> s.scale \in {2, 3},
         4 \in i.aux => i.src \in Reg, 4 \notin i.aux => i.imm \in Reg
  PROVE  EffAddr(i, BaseReg(s)) = X86Addr(s) <=>
           /\ ~NoIndex(s) /\ (4 \in i.aux <=> s.scale \in {1, 3})
           /\ (4 \in i.aux => i.src = Index(s)) /\ (4 \notin i.aux => i.imm = Index(s))
<1>1. PICK n \in Nat \ {0}, x \in Reg :
        /\ n = (IF 4 \in i.aux THEN 2 ELSE 1) * (IF 5 \in i.aux THEN 4 ELSE 1)
        /\ x = IF 4 \in i.aux THEN i.src ELSE i.imm
  <2> DEFINE n == (IF 4 \in i.aux THEN 2 ELSE 1) * (IF 5 \in i.aux THEN 4 ELSE 1)
             x == IF 4 \in i.aux THEN i.src ELSE i.imm
  <2>1. n \in Nat \ {0} /\ x \in Reg
    OBVIOUS
  <2> HIDE DEF n, x
  <2>2. \E k \in Nat \ {0}, y \in Reg : k = n /\ y = x
    BY <2>1
  <2> QED BY <2>2 DEF n, x
<1>2. EffAddr(i, BaseReg(s)) = At(Indexed(s, x, n))
  BY <1>1 DEF EffAddr, Indexed
<1>3. n = Scale(s) <=> (4 \in i.aux <=> s.scale \in {1, 3})
  <2>1. s.scale = 0 \/ s.scale = 1 \/ s.scale = 2 \/ s.scale = 3
    BY DEF EncodingOk
  <2> QED BY <1>1, <2>1 DEF Scale
<1>4. At(Indexed(s, x, n)) = X86Addr(s) <=> ~NoIndex(s) /\ x = Index(s) /\ n = Scale(s)
  BY SibIndex
<1> QED BY <1>1, <1>2, <1>3, <1>4

\* AddressKept, form by form.
LEMMA AddressKeptIs ==
  ASSUME NEW s, EncodingOk(s)
  PROVE  /\ s.mod = 3 => AddressKept(s)
         /\ s.mod # 3 /\ s.rm # 4 => (AddressKept(s) <=> (RipRel(s) => s.op = "8D"))
BY DEF AddressKept

\* Shifts.
LEMMA AgreesShift ==
  ASSUME NEW s, EncodingOk(s), ~Undecodable(s), s.op \in {"C1", "D1"}
  PROVE  Agrees(s)
<1>0. s.mod = 3 /\ s.reg \in {4, 5, 7}
  BY DEF Undecodable
<1>1. WidthOf(s) = 8
  BY DEF WidthOf
<1>2. PICK d : d = Decoded(s)
  OBVIOUS
<1>3. PICK i : i = Emitted(d)
  OBVIOUS
<1>4. PICK r : r = DecodeReg(s, s.rm, "B")
  OBVIOUS
<1>5. PICK n : n = IF s.op = "D1" THEN Number(1) ELSE Literal
  OBVIOUS
<1>6. PICK shift : shift = IF s.reg = 4 THEN "shl" ELSE IF s.reg = 5 THEN "shr" ELSE "sar"
  OBVIOUS
<1>7. Kind(s) = "ShiftRegImm" /\ BinOpOf(s) = shift
  <2>1. Kind(s) = "ShiftRegImm"
    BY DEF Kind, Branch
  <2> QED BY <1>6, <2>1 DEF BinOpOf
<1>8. d.kind = "ShiftRegImm" /\ d.binop = shift /\ d.width = 8 /\ d.dst.reg = r
      /\ d.imm = (IF s.op = "D1" THEN 1 ELSE Lit)
  <2>1. d.dst = ParseModrm(s)
    BY <1>2, DecodedIs DEF Group
  <2>2. d.dst.reg = r
    BY <1>0, <1>4, <2>1, RmReg
  <2>3. /\ d.kind = Kind(s) /\ d.binop = BinOpOf(s) /\ d.width = WidthOf(s)
        /\ d.imm = (IF s.op = "D1" THEN 1 ELSE Lit)
    BY <1>2, DecodedIs
  <2> QED BY <1>1, <1>7, <2>2, <2>3
<1>9. i.op = "ShiftRegImm" /\ i.width = 8 /\ i.dst = r /\ i.imm = d.imm
      /\ i.aux = (IF s.reg = 4 THEN {} ELSE IF s.reg = 5 THEN {0} ELSE {1})
  BY <1>0, <1>3, <1>6, <1>8 DEF Emitted, Make
<1>10. ImmOf(i) = n
  BY <1>5, <1>8, <1>9 DEF ImmOf, Lit
<1>11. Outcome(s) = Effect(shift, InReg(r), n, 8, "zero")
  <2>1. Executed(i) = Effect(CASE i.aux = {} -> "shl" [] i.aux = {0} -> "shr" [] i.aux = {1} -> "sar",
                             InReg(r), n, 8, "zero")
    BY <1>9, <1>10 DEF Executed
  <2>2. (CASE i.aux = {} -> "shl" [] i.aux = {0} -> "shr" [] i.aux = {1} -> "sar") = shift
    BY <1>0, <1>6, <1>9
  <2> QED BY <1>2, <1>3, <2>1, <2>2 DEF Outcome
<1>12. X86Effect(s) = Effect(shift, InReg(r), n, X86Bytes(s), "zero")
  <2>1. X86Op(s) = shift
    <3>1. X86Op(s) = <<"rol", "ror", "rcl", "rcr", "shl", "shr", "shl", "sar">>[s.reg + 1]
      BY DEF X86Op, Branch
    <3> QED BY <1>0, <1>6, <3>1
  <2>2. X86Rm(s, X86Bytes(s)) = InReg(r)
    BY <1>0, <1>4, X86RmIs DEF X86Bytes
  <2>3. InReg(r).kind = "reg" /\ X86Bytes(s) # 1
    BY DEF InReg, Place, X86Bytes
  <2>4. shift \notin {"cmp", "test"}
    BY <1>6
  <2>5. Filled(shift, InReg(r), n, X86Bytes(s)) = Effect(shift, InReg(r), n, X86Bytes(s), "zero")
    BY <2>3 DEF Filled
  <2>6. X86Effect(s) = Filled(X86Op(s), X86Rm(s, X86Bytes(s)), n, X86Bytes(s))
    BY <1>5, <2>1, <2>4 DEF X86Effect, ToRm, Group, Branch
  <2> QED BY <2>1, <2>2, <2>5, <2>6
<1>13. X86Bytes(s) = 8 <=> "W" \in s.rex
  BY DEF X86Bytes, Branch
<1>14. Faithful(s) <=> "W" \in s.rex
  BY <1>0, AddressKeptIs DEF Faithful, OperationKept, SizeKept, RegistersKept, PlaceKept, RexOnly, RexWOnly,
              Branch, InOpcode, HasModrm
<1> QED BY <1>11, <1>12, <1>13, <1>14, EffectEq DEF Agrees

\* The fields encode_source gives an IR instruction that reads o.
ReadsFrom(j, o, mark) ==
  /\ j.src = o.base
  /\ j.imm = (IF o.has_sib THEN o.index ELSE Lit)
  /\ j.aux = mark \union (IF o.has_sib THEN {1, 2} \union ScaleBits(o)
                          ELSE IF o.rip_rel THEN {0} ELSE {})
                  \union (IF o.abs_sib THEN {6} ELSE {})

\* They are, form by form.
LEMMA SourceIs ==
  ASSUME NEW s, EncodingOk(s), NEW o, o = ParseModrm(s), NEW mark, NEW j,
         ReadsFrom(j, o, mark)
  PROVE  /\ j.src = o.base
         /\ s.mod = 3 => j.imm = Lit /\ j.aux = mark
         /\ s.mod # 3 /\ s.rm # 4 =>
              j.imm = Lit /\ j.aux = mark \union (IF RipRel(s) THEN {0} ELSE {})
         /\ s.mod # 3 /\ s.rm = 4 =>
              /\ j.imm = s.index
              /\ j.aux = mark \union {1, 2} \union ScaleBits(o)
                           \union (IF NoBase(s) THEN {6} ELSE {})
<1> USE DEF ReadsFrom
<1>1. CASE s.mod = 3
  BY <1>1, RmReg
<1>2. CASE s.mod # 3 /\ s.rm # 4
  BY <1>2, RmPlain
<1>3. CASE s.mod # 3 /\ s.rm = 4
  BY <1>3, RmSib
<1> QED BY <1>1, <1>2, <1>3

\* An address with a SIB byte that encode_source encodes is right if there is an
\* index and bit 4 of aux has it read from the right field.
LEMMA SourceSib ==
  ASSUME NEW s, EncodingOk(s), s.mod # 3, s.rm = 4, NEW o, o = ParseModrm(s),
         NEW mark, mark \in {{}, {7}}, NEW j, j.src = o.base, j.imm = s.index,
         j.aux = mark \union {1, 2} \union ScaleBits(o)
                           \union (IF NoBase(s) THEN {6} ELSE {})
  PROVE  /\ HasSib(j) /\ (7 \in j.aux <=> mark = {7})
         /\ EffAddr(j, j.src) = X86Addr(s) <=>
              ~NoIndex(s) /\ Index(s) = IF s.scale \in {1, 3} THEN BaseReg(s) ELSE s.index
<1>1. o.scale = s.scale /\ o.base = BaseReg(s) /\ o.scale \in 0 .. 3 /\ o.index = s.index
  BY RmSib DEF BaseReg, EncodingOk
<1>2. j.src \in Reg /\ j.imm \in Reg
  BY <1>1, SibAddr DEF EncodingOk, Reg
<1>3. \A b : b \in ScaleBits(o) <=> \/ b = 4 /\ o.scale \in {1, 3}
                                    \/ b = 5 /\ o.scale \in {2, 3}
  BY <1>1, ScaleBitsAre
<1>4. /\ HasSib(j) /\ (7 \in j.aux <=> mark = {7})
      /\ 4 \in j.aux <=> s.scale \in {1, 3}
      /\ 5 \in j.aux <=> s.scale \in {2, 3}
      /\ 6 \in j.aux <=> NoBase(s)
  BY <1>1, <1>3 DEF HasSib
<1>5. EffAddr(j, BaseReg(s)) = X86Addr(s) <=>
           /\ ~NoIndex(s) /\ (4 \in j.aux <=> s.scale \in {1, 3})
           /\ (4 \in j.aux => j.src = Index(s)) /\ (4 \notin j.aux => j.imm = Index(s))
  BY <1>2, <1>4, SibEff
<1> QED BY <1>1, <1>4, <1>5

\* What LoadMem reads, and whether it is what a processor reads.
LEMMA LoadRight ==
  ASSUME NEW s, EncodingOk(s), s.mod # 3, s.op \in {"8B", "0FB6"},
         NEW o, o = ParseModrm(s), NEW mark, mark = {}, NEW j, ReadsFrom(j, o, mark),
         NEW k, k.src = j.src, k.imm = j.imm, k.aux = j.aux \/ (s.rm # 4 /\ k.aux = {2})
  PROVE  k.aux # {0, 2} /\ (LoadAddr(k) = X86Addr(s) <=> AddressKept(s))
<1>3. CASE s.rm # 4
  <2>1. j.src = o.base /\ j.aux = mark \union (IF RipRel(s) THEN {0} ELSE {})
    BY <1>3, SourceIs
  <2>2. o.base = DecodeReg(s, s.rm, "B")
    BY <1>3, RmPlain
  <2>3. AddressKept(s) <=> ~RipRel(s)
    BY <1>3, AddressKeptIs
  <2>4. ~HasSib(k) /\ k.aux # {0, 2}
    BY <2>1 DEF HasSib
  <2>5. EffAddr(k, k.src) = At(Plus(NoRegs, DecodeReg(s, s.rm, "B"), 1))
    BY <2>1, <2>2, <2>4, EffPlain
  <2>6. LoadAddr(k) = X86Addr(s) <=> ~RipRel(s)
    BY <1>3, <2>1, <2>5, PlainIndex DEF LoadAddr
  <2> QED BY <2>3, <2>4, <2>6
<1>4. CASE s.rm = 4
  <2>1. /\ j.imm = s.index /\ j.src = o.base
        /\ j.aux = mark \union {1, 2} \union ScaleBits(o)
                         \union (IF NoBase(s) THEN {6} ELSE {})
    BY <1>4, SourceIs
  <2>2. k.imm = s.index /\ k.src = o.base /\ k.aux = j.aux
    BY <1>4, <2>1
  <2>3. /\ HasSib(k)
        /\ EffAddr(k, k.src) = X86Addr(s) <=>
              ~NoIndex(s) /\ Index(s) = IF s.scale \in {1, 3} THEN BaseReg(s) ELSE s.index
    BY <1>4, <2>1, <2>2, SourceSib
  <2>4. AddressKept(s) <=>
              ~NoIndex(s) /\ Index(s) = IF s.scale \in {1, 3} THEN BaseReg(s) ELSE s.index
    BY <1>4 DEF AddressKept, RipRel, Index, BaseReg
  <2>5. k.aux # {0} /\ k.aux # {0, 2}
    BY <2>3 DEF HasSib
  <2> QED BY <2>3, <2>4, <2>5 DEF LoadAddr
<1> QED BY <1>3, <1>4

\* What an instruction that keeps only the base of an address reads.
LEMMA BaseRight ==
  ASSUME NEW s, EncodingOk(s), s.mod # 3, NEW o, o = ParseModrm(s),
         \/ s.op \in {"39", "3B", "84", "85", "63", "81"}
         \/ s.op = "83" /\ s.reg = 7
  PROVE  At(Plus(NoRegs, o.base, 1)) = X86Addr(s) <=> AddressKept(s)
<1>1. CASE s.rm # 4
  <2>1. o.base = DecodeReg(s, s.rm, "B")
    BY <1>1, RmPlain
  <2> QED BY <1>1, <2>1, PlainIndex, AddressKeptIs
<1>2. CASE s.rm = 4
  <2>1. o.base = BaseReg(s)
    BY <1>2, RmSib DEF BaseReg
  <2>2. AddressKept(s) <=> IF NoBase(s) THEN s.scale = 0 /\ Index(s) = BaseReg(s)
                           ELSE NoIndex(s)
    BY <1>2 DEF AddressKept, RipRel, Index, BaseReg
  <2> QED BY <1>2, <2>1, <2>2, SibBase
<1> QED BY <1>1, <1>2

\* MOV from memory.
LEMMA AgreesLoad ==
  ASSUME NEW s, EncodingOk(s), s.op = "8B"
  PROVE  Agrees(s)
<1>1. ~Undecodable(s)
  BY DEF Undecodable, RexOnly, RexWOnly
<1>2. PICK d : d = Decoded(s)
  OBVIOUS
<1>3. PICK r, w, o, mark : /\ r = DecodeReg(s, s.reg, "R") /\ w = WidthOf(s)
                           /\ o = ParseModrm(s) /\ mark = {}
  OBVIOUS
<1>4. w = IF s.prefix THEN 8 ELSE 4
  BY <1>3 DEF WidthOf
<1>5. Kind(s) = "MovRegMem"
  BY DEF Kind, Branch
<1>6. /\ d.kind = "MovRegMem" /\ d.width = w /\ d.dst.reg = r /\ d.src = o
      /\ ~d.zext /\ ~d.sext
  <2>1. /\ d.kind = Kind(s) /\ d.width = WidthOf(s)
        /\ (d.zext <=> s.op = "0FB6") /\ (d.sext <=> s.op \in {"0FBE", "63", "98"})
    BY <1>2, DecodedIs
  <2>2. d.dst.reg = r /\ d.src = o
    BY <1>2, <1>3, DecodedIs DEF ToReg
  <2> QED BY <1>3, <1>5, <2>1, <2>2
<1>8. PICK j : j = Emitted(d)
  OBVIOUS
<1>9. ReadsFrom(j, o, mark)
  BY <1>3, <1>6, <1>8 DEF Emitted, EmitLoad, EncodeSource, Make, ReadsFrom
<1>10. j.op = "LoadMem" /\ j.width = w /\ j.dst = r
  BY <1>6, <1>8 DEF Emitted, EmitLoad, EncodeSource, Make
<1>11. j.aux # {0, 2}
  <2>1. CASE s.mod = 3
    BY <1>3, <1>9, <2>1, SourceIs
  <2>2. CASE s.mod # 3
    BY <1>3, <1>9, <2>2, LoadRight
  <2> QED BY <2>1, <2>2
<1>12. Outcome(s) = Effect("mov", InReg(r), InMem(LoadAddr(j)), w, "zero")
  BY <1>1, <1>2, <1>8, <1>10, <1>11 DEF Outcome, Executed
<1>13. X86Bytes(s) = (IF "W" \in s.rex THEN 8 ELSE 4)
  BY DEF X86Bytes, Branch
<1>14. X86Effect(s) = Effect("mov", InReg(r), X86Rm(s, X86Bytes(s)), X86Bytes(s), "zero")
  <2>1. X86Op(s) = "mov"
    BY DEF X86Op, Branch
  <2>2. X86Reg(s, s.reg, "R", X86Bytes(s)) = InReg(r)
    BY <1>3, <1>13, X86RegIs
  <2>3. InReg(r).kind = "reg"
    BY DEF InReg, Place
  <2>4. X86Effect(s) = Filled("mov", InReg(r), X86Rm(s, X86Bytes(s)), X86Bytes(s))
    BY <2>1, <2>2 DEF X86Effect, ToRm, Group, Branch
  <2> QED BY <1>13, <2>3, <2>4 DEF Filled
<1>15. Faithful(s) <=> (s.prefix => "W" \in s.rex) /\ s.mod # 3 /\ AddressKept(s)
  BY <1>1 DEF Faithful, OperationKept, SizeKept, RegistersKept, PlaceKept, RexOnly, RexWOnly,
              Branch, InOpcode, HasModrm, Opcode, ToReg
<1>16. w = X86Bytes(s) <=> (s.prefix => "W" \in s.rex)
  BY <1>4, <1>13 DEF EncodingOk
<1>17. CASE s.mod = 3
  <2>1. X86Rm(s, X86Bytes(s)) = InReg(DecodeReg(s, s.rm, "B"))
    BY <1>13, <1>17, X86RmIs
  <2> QED BY <1>12, <1>14, <1>15, <1>17, <2>1, EffectEq, PlacesDiffer DEF Agrees
<1>18. CASE s.mod # 3
  <2>1. X86Rm(s, X86Bytes(s)) = InMem(X86Addr(s))
    BY <1>18, X86RmIs
  <2>2. LoadAddr(j) = X86Addr(s) <=> AddressKept(s)
    BY <1>3, <1>9, <1>18, LoadRight
  <2>3. InMem(LoadAddr(j)) = InMem(X86Addr(s)) <=> LoadAddr(j) = X86Addr(s)
    BY Addresses
  <2> QED BY <1>12, <1>14, <1>15, <1>16, <1>18, <2>1, <2>2, <2>3, EffectEq DEF Agrees
<1> QED BY <1>17, <1>18

\* Loads that extend a byte or a word, and loads of a byte.
LEMMA AgreesExtend ==
  ASSUME NEW s, EncodingOk(s), s.op \in {"8A", "0FB6", "0FBE", "63"}
  PROVE  Agrees(s)
<1>1. ~Undecodable(s)
  BY DEF Undecodable, RexOnly, RexWOnly
<1>2. PICK d : d = Decoded(s)
  OBVIOUS
<1>3. PICK r, w, o, mark : /\ r = DecodeReg(s, s.reg, "R") /\ w = WidthOf(s)
                           /\ o = ParseModrm(s) /\ mark = {}
  OBVIOUS
<1>4. PICK j : j = EncodeSource([Make("LoadMem", w) EXCEPT !.dst = r], o, {})
  OBVIOUS
<1>5. PICK k : k = Emitted(d)
  OBVIOUS
<1>6. /\ d.kind = "MovRegMem" /\ d.width = w /\ d.dst.reg = r /\ d.src = o
      /\ (d.zext <=> s.op = "0FB6") /\ (d.sext <=> s.op \in {"0FBE", "63"})
  <2>1. /\ d.kind = Kind(s) /\ d.width = WidthOf(s)
        /\ (d.zext <=> s.op = "0FB6") /\ (d.sext <=> s.op \in {"0FBE", "63", "98"})
    BY <1>2, DecodedIs
  <2>2. d.dst.reg = r /\ d.src = o
    <3>1. s.op \in ToReg
      BY DEF ToReg
    <3> QED BY <1>2, <1>3, <3>1, DecodedIs
  <2>3. Kind(s) = "MovRegMem"
    BY DEF Kind, Branch
  <2> QED BY <1>3, <2>1, <2>2, <2>3
<1>7. k = IF d.zext THEN [j EXCEPT !.aux = IF o.has_sib THEN @ ELSE {2}, !.width = 1]
          ELSE IF d.sext THEN [j EXCEPT !.aux = {0, 2}, !.width = 4]
          ELSE j
  <2>1. EmitLoad(d) = k
    BY <1>5, <1>6 DEF Emitted
  <2> QED BY <1>4, <1>6, <2>1 DEF EmitLoad
<1>8. /\ j.op = "LoadMem" /\ j.width = w /\ j.dst = r /\ j.src = o.base
      /\ k.op = "LoadMem" /\ k.dst = r /\ k.src = j.src /\ k.imm = j.imm
  <2>1. /\ j.op = "LoadMem" /\ j.width = w /\ j.dst = r /\ j.src = o.base
    BY <1>4 DEF EncodeSource, Make
  <2> QED BY <1>4, <1>7, <2>1 DEF EncodeSource, Make
<1>19. ReadsFrom(j, o, mark)
  BY <1>3, <1>4 DEF EncodeSource, Make, ReadsFrom
<1>9. X86Bytes(s) = (IF s.op = "8A" THEN 1 ELSE IF "W" \in s.rex THEN 8 ELSE 4)
  BY DEF X86Bytes, Branch
<1>10. X86Op(s) = "mov"
  BY DEF X86Op, Branch
<1>11. s.op # "8A" => X86Reg(s, s.reg, "R", X86Bytes(s)) = InReg(r)
  BY <1>3, <1>9, X86RegIs
<1>18. PICK fill : fill = IF k.aux = {0, 2} /\ k.width # 1 THEN "sign to 8" ELSE "zero"
  OBVIOUS
<1>12. Executed(k) = Effect("mov", InReg(r), InMem(LoadAddr(k)), k.width, fill)
  BY <1>8, <1>18 DEF Executed
<1>13. Outcome(s) = Executed(k)
  BY <1>1, <1>2, <1>5 DEF Outcome
<1>14. CASE s.op = "8A"
  <2>1. ~Faithful(s)
    BY <1>14 DEF Faithful, RegistersKept
  <2>2. w = 1 /\ k.width = 1
    <3>1. WidthOf(s) = 1
      BY <1>14 DEF WidthOf
    <3> QED BY <1>3, <1>6, <1>7, <1>8, <1>14, <3>1
  <2>3. X86Effect(s) = Filled("mov", X86Reg(s, s.reg, "R", 1), X86Rm(s, 1), 1)
    BY <1>9, <1>10, <1>14 DEF X86Effect, ToRm, Group, Branch
  <2>4. X86Reg(s, s.reg, "R", 1).kind # "mem"
    BY DEF X86Reg, InReg, Place
  <2>5. X86Effect(s) = Effect("mov", X86Reg(s, s.reg, "R", 1), X86Rm(s, 1), 1, "keep")
    BY <2>3, <2>4 DEF Filled
  <2> QED BY <1>12, <1>13, <2>1, <1>18, <2>2, <2>5, EffectEq DEF Agrees
<1>15. CASE s.op = "0FBE"
  <2>1. ~Faithful(s)
    BY <1>15 DEF Faithful, RegistersKept
  <2>2. k.width = 4
    BY <1>4, <1>6, <1>7, <1>15 DEF EncodeSource, Make
  <2>3. PICK ext : ext = IF "W" \in s.rex THEN "sign to 8" ELSE "sign to 4"
    OBVIOUS
  <2>4. X86Effect(s) = Effect("mov", InReg(r), X86Rm(s, 1), 1, ext)
    BY <1>10, <1>11, <1>15, <2>3 DEF X86Effect, ToRm, Group, Branch
  <2> QED BY <1>12, <1>13, <2>1, <2>2, <2>4, EffectEq DEF Agrees
<1>16. CASE s.op = "0FB6"
  <2>1. Faithful(s) <=> s.mod # 3 /\ AddressKept(s)
    BY <1>1, <1>16 DEF Faithful, OperationKept, SizeKept, RegistersKept, PlaceKept, RexOnly,
         RexWOnly, Branch, InOpcode, HasModrm, Opcode, ToReg
  <2>2. k.width = 1 /\ k.aux = IF o.has_sib THEN j.aux ELSE {2}
    BY <1>4, <1>6, <1>7, <1>16 DEF EncodeSource, Make
  <2>3. X86Effect(s) = Effect("mov", InReg(r), X86Rm(s, 1), 1, "zero")
    BY <1>10, <1>11, <1>16 DEF X86Effect, ToRm, Group, Branch
  <2>4. Outcome(s) = Effect("mov", InReg(r), InMem(LoadAddr(k)), 1, "zero")
    BY <1>12, <1>13, <1>18, <2>2
  <2>5. CASE s.mod = 3
    <3>1. X86Rm(s, 1) # InMem(LoadAddr(k))
      BY <2>5 DEF X86Rm, X86Reg, InReg, InMem, Place
    <3> QED BY <2>1, <2>3, <2>4, <2>5, <3>1, EffectEq DEF Agrees
  <2>6. CASE s.mod # 3
    <3>1. X86Rm(s, 1) = InMem(X86Addr(s))
      BY <2>6, X86RmIs
    <3>2. k.aux = j.aux \/ (s.rm # 4 /\ k.aux = {2})
      BY <1>3, <2>2, <2>6, RmSib, RmPlain
    <3>3. LoadAddr(k) = X86Addr(s) <=> AddressKept(s)
      BY <1>3, <1>8, <1>16, <1>19, <2>6, <3>2, LoadRight
    <3> QED BY <2>1, <2>3, <2>4, <2>6, <3>1, <3>3, EffectEq, Addresses DEF Agrees
  <2> QED BY <2>5, <2>6
<1>17. CASE s.op = "63"
  <2>1. Faithful(s) <=> "W" \in s.rex /\ s.mod # 3 /\ AddressKept(s)
    BY <1>1, <1>17 DEF Faithful, OperationKept, SizeKept, RegistersKept, PlaceKept, RexOnly,
         RexWOnly, Branch, InOpcode, HasModrm, Opcode, ToReg
  <2>2. k.width = 4 /\ k.aux = {0, 2}
    BY <1>4, <1>6, <1>7, <1>17 DEF EncodeSource, Make
  <2>8. PICK ext : ext = IF "W" \in s.rex THEN "sign to 8" ELSE "zero"
    OBVIOUS
  <2>3. X86Effect(s) = Effect("mov", InReg(r), X86Rm(s, X86Bytes(s)), 4, ext)
    BY <1>10, <1>11, <1>17, <2>8 DEF X86Effect, ToRm, Group, Branch
  <2>4. LoadAddr(k) = At(Plus(NoRegs, o.base, 1))
    <3>1. ~HasSib(k) /\ k.aux # {0}
      BY <2>2 DEF HasSib
    <3> QED BY <1>8, <3>1, EffPlain DEF LoadAddr
  <2>9. PICK signed : signed = "sign to 8"
    OBVIOUS
  <2>5. Outcome(s) = Effect("mov", InReg(r), InMem(LoadAddr(k)), 4, signed)
    <3>2. k.width # 1
      BY <2>2
    <3>1. fill = "sign to 8"
      BY <1>18, <2>2, <3>2, Zenon
    <3>3. Executed(k) = Effect("mov", InReg(r), InMem(LoadAddr(k)), 4, fill)
      BY <1>12, <2>2
    <3> QED BY <1>13, <2>9, <3>1, <3>3
  <2>6. CASE s.mod = 3
    <3>1. X86Rm(s, X86Bytes(s)) # InMem(LoadAddr(k))
      BY <2>6 DEF X86Rm, X86Reg, InReg, InMem, Place
    <3>2. Outcome(s) # X86Effect(s)
      BY <2>3, <2>5, <3>1, EffectEq
    <3> QED BY <2>1, <2>6, <3>2 DEF Agrees
  <2>7. CASE s.mod # 3
    <3>1. X86Rm(s, X86Bytes(s)) = InMem(X86Addr(s))
      BY <2>7, X86RmIs
    <3>2. LoadAddr(k) = X86Addr(s) <=> AddressKept(s)
      BY <1>3, <1>17, <2>4, <2>7, BaseRight
    <3>3. ext = signed <=> "W" \in s.rex
      BY <2>8, <2>9
    <3>4. Outcome(s) = X86Effect(s) <=> ext = signed /\ LoadAddr(k) = X86Addr(s)
      BY <2>3, <2>5, <3>1, EffectEq, Addresses
    <3> QED BY <2>1, <2>7, <3>2, <3>3, <3>4 DEF Agrees
  <2> QED BY <2>6, <2>7
<1> QED BY <1>14, <1>15, <1>16, <1>17

\* LEA.
LEMMA AgreesLea ==
  ASSUME NEW s, EncodingOk(s), s.op = "8D"
  PROVE  Agrees(s)
<1>1. ~Undecodable(s) /\ s.mod # 3
  BY DEF Undecodable, RexOnly, RexWOnly, EncodingOk
<1>2. PICK d : d = Decoded(s)
  OBVIOUS
<1>3. PICK r, o : r = DecodeReg(s, s.reg, "R") /\ o = ParseModrm(s)
  OBVIOUS
<1>11. PICK mark : mark = {}
  OBVIOUS
<1>4. PICK k : k = Emitted(d)
  OBVIOUS
<1>5. d.kind = "Lea" /\ d.width = 8 /\ d.dst.reg = r /\ d.src = o /\ d.imm = Lit
  <2>1. Kind(s) = "Lea" /\ WidthOf(s) = 8
    BY DEF Kind, WidthOf, Branch
  <2>2. s.op \in ToReg
    BY DEF ToReg
  <2> QED BY <1>2, <1>3, <2>1, <2>2, DecodedIs
<1>6. X86Bytes(s) = 8 <=> "W" \in s.rex
  BY DEF X86Bytes, Branch
<1>7. X86Effect(s) = Effect("mov", InReg(r), Itself(X86Addr(s)), X86Bytes(s), "zero")
  <2>1. X86Op(s) = "mov" /\ X86Bytes(s) # 1
    BY DEF X86Op, X86Bytes, Branch
  <2>2. X86Reg(s, s.reg, "R", X86Bytes(s)) = InReg(r)
    BY <1>3, <2>1, X86RegIs
  <2>3. InReg(r).kind = "reg"
    BY DEF InReg, Place
  <2>4. X86Effect(s) = Filled("mov", InReg(r), Itself(X86Addr(s)), X86Bytes(s))
    BY <2>1, <2>2 DEF X86Effect, ToRm, Group, Branch
  <2> QED BY <2>1, <2>3, <2>4 DEF Filled
<1>8. Faithful(s) <=> "W" \in s.rex /\ AddressKept(s)
  BY <1>1 DEF Faithful, OperationKept, SizeKept, RegistersKept, PlaceKept, RexOnly, RexWOnly,
              Branch, InOpcode, HasModrm, Opcode, ToReg
<1>9. CASE RipRel(s)
  <2>1. s.rm # 4
    BY <1>9 DEF RipRel
  <2>2. o.rip_rel
    BY <1>1, <1>3, <1>9, <2>1, RmPlain
  <2>3. k.op = "Lea" /\ k.dst = r /\ k.aux = {0, 1}
    BY <1>4, <1>5, <2>2 DEF Emitted, Make
  <2>4. Outcome(s) = Effect("mov", InReg(r), Itself(Rip("next")), 8, "zero")
    BY <1>1, <1>2, <1>4, <2>3 DEF Outcome, Executed
  <2>5. X86Addr(s) = Rip("next") /\ AddressKept(s)
    BY <1>1, <1>9, <2>1, X86Plain, AddressKeptIs
  <2> QED BY <1>6, <1>7, <1>8, <2>4, <2>5, EffectEq DEF Agrees
<1>10. CASE ~RipRel(s)
  <2>1. ~o.rip_rel
    <3>1. CASE s.rm = 4
      BY <1>1, <1>3, <3>1, RmSib
    <3>2. CASE s.rm # 4
      BY <1>1, <1>3, <1>10, <3>2, RmPlain
    <3> QED BY <3>1, <3>2
  <2>2. ReadsFrom(k, o, mark)
    BY <1>4, <1>5, <1>11, <2>1 DEF Emitted, EncodeSource, Make, ReadsFrom
  <2>3. k.op = "Lea" /\ k.dst = r
    BY <1>4, <1>5, <2>1 DEF Emitted, EncodeSource, Make
  <2>4. k.aux # {0, 1} /\ (EffAddr(k, k.src) = X86Addr(s) <=> AddressKept(s))
    <3>1. CASE s.rm # 4
      <4>1. k.src = o.base /\ k.aux = mark
        <5>1. k.src = o.base /\ k.aux = mark \union (IF RipRel(s) THEN {0} ELSE {})
          BY <1>1, <1>3, <2>2, <3>1, SourceIs
        <5> QED BY <1>10, <5>1
      <4>2. o.base = DecodeReg(s, s.rm, "B")
        BY <1>1, <1>3, <3>1, RmPlain
      <4>3. ~HasSib(k) /\ k.aux # {0, 1}
        BY <1>11, <4>1 DEF HasSib
      <4>4. EffAddr(k, k.src) = At(Plus(NoRegs, DecodeReg(s, s.rm, "B"), 1))
        BY <4>1, <4>2, <4>3, EffPlain
      <4> QED BY <1>1, <1>10, <3>1, <4>3, <4>4, PlainIndex, AddressKeptIs
    <3>2. CASE s.rm = 4
      <4>1. /\ k.imm = s.index /\ k.src = o.base
            /\ k.aux = mark \union {1, 2} \union ScaleBits(o)
                             \union (IF NoBase(s) THEN {6} ELSE {})
        BY <1>1, <1>3, <2>2, <3>2, SourceIs
      <4>2. /\ HasSib(k)
            /\ EffAddr(k, k.src) = X86Addr(s) <=>
                 ~NoIndex(s) /\ Index(s) = IF s.scale \in {1, 3} THEN BaseReg(s) ELSE s.index
        BY <1>1, <1>3, <1>11, <3>2, <4>1, SourceSib
      <4>3. AddressKept(s) <=>
                 ~NoIndex(s) /\ Index(s) = IF s.scale \in {1, 3} THEN BaseReg(s) ELSE s.index
        BY <1>1, <3>2 DEF AddressKept, RipRel, Index, BaseReg
      <4>4. k.aux # {0, 1}
        BY <4>2 DEF HasSib
      <4> QED BY <4>2, <4>3, <4>4
    <3> QED BY <3>1, <3>2
  <2>5. Outcome(s) = Effect("mov", InReg(r), Itself(EffAddr(k, k.src)), 8, "zero")
    BY <1>1, <1>2, <1>4, <2>3, <2>4 DEF Outcome, Executed
  <2> QED BY <1>6, <1>7, <1>8, <2>4, <2>5, EffectEq, Addresses DEF Agrees
<1> QED BY <1>9, <1>10

\* IMUL.
LEMMA AgreesImul ==
  ASSUME NEW s, EncodingOk(s), s.op = "0FAF"
  PROVE  Agrees(s)
<1>1. ~Undecodable(s)
  BY DEF Undecodable, RexOnly, RexWOnly, EncodingOk
<1>2. PICK d : d = Decoded(s)
  OBVIOUS
<1>3. PICK r, w, o, mark : /\ r = DecodeReg(s, s.reg, "R") /\ o = ParseModrm(s)
                           /\ w = WidthOf(s) /\ mark = {7}
  OBVIOUS
<1>4. PICK k : k = Emitted(d)
  OBVIOUS
<1>5. d.kind = "ImulRegMem" /\ d.width = w /\ d.dst.reg = r /\ d.src = o /\ d.imm = Lit
  <2>1. Kind(s) = "ImulRegMem"
    BY DEF Kind, Branch
  <2>2. s.op \in ToReg
    BY DEF ToReg
  <2> QED BY <1>2, <1>3, <2>1, <2>2, DecodedIs
<1>6. X86Bytes(s) = w /\ w # 1
  <2>1. X86Bytes(s) = WidthOf(s) /\ X86Bytes(s) # 1
    BY DEF X86Bytes, WidthOf, Branch
  <2> QED BY <1>3, <2>1
<1>7. X86Effect(s) = Effect("imul", InReg(r), X86Rm(s, w), w, "zero")
  <2>1. X86Op(s) = "imul"
    BY DEF X86Op, Branch
  <2>2. X86Reg(s, s.reg, "R", w) = InReg(r)
    BY <1>3, <1>6, X86RegIs
  <2>3. InReg(r).kind = "reg"
    BY DEF InReg, Place
  <2>4. X86Effect(s) = Filled("imul", InReg(r), X86Rm(s, w), w)
    BY <1>6, <2>1, <2>2 DEF X86Effect, ToRm, Group, Branch
  <2> QED BY <1>6, <2>3, <2>4 DEF Filled
<1>8. Faithful(s) <=> AddressKept(s)
  BY <1>1 DEF Faithful, OperationKept, SizeKept, RegistersKept, PlaceKept, RexOnly, RexWOnly,
              Branch, InOpcode, HasModrm, Opcode, ToReg
<1>9. CASE s.mod = 3
  <2>1. ~o.is_mem /\ o.reg = DecodeReg(s, s.rm, "B")
    BY <1>3, <1>9, RmReg
  <2>2. k.op = "ImulReg" /\ k.dst = r /\ k.src = o.reg /\ k.aux = {} /\ k.width = w
    BY <1>4, <1>5, <2>1 DEF Emitted, Make
  <2>3. Outcome(s) = Effect("imul", InReg(r), InReg(o.reg), w, "zero")
    BY <1>1, <1>2, <1>4, <2>2 DEF Outcome, Executed
  <2>4. X86Rm(s, w) = InReg(o.reg)
    BY <1>6, <1>9, <2>1, X86RmIs
  <2> QED BY <1>7, <1>8, <1>9, <2>3, <2>4, AddressKeptIs DEF Agrees
<1>10. CASE s.mod # 3
  <2>1. o.is_mem
    <3>1. CASE s.rm = 4
      BY <1>3, <1>10, <3>1, RmSib
    <3>2. CASE s.rm # 4
      BY <1>3, <1>10, <3>2, RmPlain
    <3> QED BY <3>1, <3>2
  <2>2. ReadsFrom(k, o, mark)
    BY <1>3, <1>4, <1>5, <2>1 DEF Emitted, EncodeSource, Make, ReadsFrom
  <2>3. k.op = "ImulReg" /\ k.dst = r /\ k.width = w
    BY <1>4, <1>5, <2>1 DEF Emitted, EncodeSource, Make
  <2>4. 7 \in k.aux /\ (EffAddr(k, k.src) = X86Addr(s) <=> AddressKept(s))
    <3>1. CASE s.rm # 4
      <4>1. k.src = o.base /\ k.aux = mark \union (IF RipRel(s) THEN {0} ELSE {})
        BY <1>3, <1>10, <2>2, <3>1, SourceIs
      <4>2. o.base = DecodeReg(s, s.rm, "B")
        BY <1>3, <1>10, <3>1, RmPlain
      <4>3. ~HasSib(k) /\ 7 \in k.aux
        BY <1>3, <4>1 DEF HasSib
      <4>4. EffAddr(k, k.src) = At(Plus(NoRegs, DecodeReg(s, s.rm, "B"), 1))
        BY <4>1, <4>2, <4>3, EffPlain
      <4> QED BY <1>10, <3>1, <4>3, <4>4, PlainIndex, AddressKeptIs
    <3>2. CASE s.rm = 4
      <4>1. /\ k.imm = s.index /\ k.src = o.base
            /\ k.aux = mark \union {1, 2} \union ScaleBits(o)
                             \union (IF NoBase(s) THEN {6} ELSE {})
        BY <1>3, <1>10, <2>2, <3>2, SourceIs
      <4>2. /\ 7 \in k.aux
            /\ EffAddr(k, k.src) = X86Addr(s) <=>
                 ~NoIndex(s) /\ Index(s) = IF s.scale \in {1, 3} THEN BaseReg(s) ELSE s.index
        BY <1>3, <1>10, <3>2, <4>1, SourceSib
      <4>3. AddressKept(s) <=>
                 ~NoIndex(s) /\ Index(s) = IF s.scale \in {1, 3} THEN BaseReg(s) ELSE s.index
        BY <1>10, <3>2 DEF AddressKept, RipRel, Index, BaseReg
      <4> QED BY <4>2, <4>3
    <3> QED BY <3>1, <3>2
  <2>5. Outcome(s) = Effect("imul", InReg(r), InMem(EffAddr(k, k.src)), w, "zero")
    BY <1>1, <1>2, <1>4, <2>3, <2>4 DEF Outcome, Executed
  <2>6. X86Rm(s, w) = InMem(X86Addr(s))
    BY <1>10, X86RmIs
  <2> QED BY <1>7, <1>8, <2>4, <2>5, <2>6, EffectEq, Addresses DEF Agrees
<1> QED BY <1>9, <1>10

\* The fields encode_mem_addr gives an IR instruction that writes o.
WritesTo(j, o, flags, src, imm) ==
  /\ j.dst = o.base
  /\ j.aux = (IF o.has_sib
              THEN {1, 2} \union ScaleBits(o) \union (flags \intersect {kMemImmStore})
              ELSE flags \union (IF o.rip_rel THEN {0} ELSE {}))
             \union (IF o.abs_sib THEN {6} ELSE {})
  /\ j.src = (IF o.has_sib /\ kMemImmStore \in flags THEN o.index ELSE src)
  /\ j.imm = (IF o.has_sib /\ kMemImmStore \notin flags THEN o.index ELSE imm)

\* An address without a SIB byte ...
LEMMA TargetPlain ==
  ASSUME NEW s, EncodingOk(s), s.mod # 3, s.rm # 4, NEW o, o = ParseModrm(s),
         NEW flags, 1 \notin flags \/ 2 \notin flags,
         NEW src, NEW imm, NEW j, WritesTo(j, o, flags, src, imm)
  PROVE  /\ j.aux = flags \union (IF RipRel(s) THEN {0} ELSE {})
         /\ j.src = src /\ j.imm = imm /\ ~HasSib(j)
         /\ EffAddr(j, j.dst) = X86Addr(s) <=> ~RipRel(s)
<1>1. /\ ~o.has_sib /\ ~o.abs_sib /\ o.base = DecodeReg(s, s.rm, "B")
      /\ o.rip_rel <=> RipRel(s)
  BY RmPlain
<1>2. j.aux = flags \union (IF RipRel(s) THEN {0} ELSE {})
  BY <1>1 DEF WritesTo
<1>3. j.src = src /\ j.imm = imm /\ j.dst = o.base
  BY <1>1 DEF WritesTo
<1>4. ~HasSib(j)
  BY <1>2 DEF HasSib
<1>5. EffAddr(j, j.dst) = At(Plus(NoRegs, o.base, 1))
  BY <1>3, <1>4, EffPlain
<1> QED BY <1>1, <1>2, <1>3, <1>4, <1>5, PlainIndex

\* ... and one with: the index is in src if a literal is stored.
LEMMA TargetSib ==
  ASSUME NEW s, EncodingOk(s), s.mod # 3, s.rm = 4, NEW o, o = ParseModrm(s),
         NEW flags, NEW src, NEW imm, src \in Reg, NEW j, WritesTo(j, o, flags, src, imm)
  PROVE  /\ HasSib(j)
         /\ \A b : b \in j.aux <=> \/ b \in {1, 2}
                                   \/ b = 4 /\ (s.scale \in {1, 3} \/ 4 \in flags)
                                   \/ b = 5 /\ s.scale \in {2, 3}
                                   \/ b = 6 /\ NoBase(s)
         /\ 4 \in flags =>
              /\ j.src = s.index /\ j.imm = imm /\ 4 \in j.aux
              /\ EffAddr(j, j.dst) = X86Addr(s) <=>
                   ~NoIndex(s) /\ s.scale \in {1, 3} /\ Index(s) = s.index
         /\ 4 \notin flags =>
              /\ j.src = src /\ j.imm = s.index
              /\ 4 \in j.aux <=> s.scale \in {1, 3}
              /\ EffAddr(j, j.dst) = X86Addr(s) <=>
                   ~NoIndex(s) /\ Index(s) = IF s.scale \in {1, 3} THEN src ELSE s.index
<1>1. /\ o.scale = s.scale /\ o.base = BaseReg(s) /\ o.scale \in 0 .. 3 /\ o.index = s.index
      /\ o.has_sib /\ (o.abs_sib <=> NoBase(s))
  BY RmSib DEF BaseReg, EncodingOk
<1>2. \A b : b \in ScaleBits(o) <=> \/ b = 4 /\ o.scale \in {1, 3}
                                    \/ b = 5 /\ o.scale \in {2, 3}
  BY <1>1, ScaleBitsAre
<1>3. /\ j.dst = BaseReg(s) /\ j.src = (IF 4 \in flags THEN s.index ELSE src)
      /\ j.imm = (IF 4 \in flags THEN imm ELSE s.index)
  BY <1>1 DEF WritesTo, kMemImmStore
<1>4. j.aux = {1, 2} \union ScaleBits(o) \union (flags \intersect {4})
                \union (IF NoBase(s) THEN {6} ELSE {})
  BY <1>1 DEF WritesTo, kMemImmStore
<1>5. \A b : b \in j.aux <=> \/ b \in {1, 2}
                             \/ b = 4 /\ (s.scale \in {1, 3} \/ 4 \in flags)
                             \/ b = 5 /\ s.scale \in {2, 3}
                             \/ b = 6 /\ NoBase(s)
  BY <1>1, <1>2, <1>4
<1>6. HasSib(j)
  BY <1>5 DEF HasSib
<1>7. /\ 4 \in j.aux <=> s.scale \in {1, 3} \/ 4 \in flags
      /\ 5 \in j.aux <=> s.scale \in {2, 3}
      /\ 6 \in j.aux <=> NoBase(s)
  BY <1>5
<1>8. /\ 4 \in j.aux => j.src \in Reg
      /\ 4 \notin j.aux => j.imm \in Reg
  BY <1>3, <1>7 DEF EncodingOk, Reg
<1>9. EffAddr(j, BaseReg(s)) = X86Addr(s) <=>
           /\ ~NoIndex(s) /\ (4 \in j.aux <=> s.scale \in {1, 3})
           /\ (4 \in j.aux => j.src = Index(s)) /\ (4 \notin j.aux => j.imm = Index(s))
  BY <1>6, <1>7, <1>8, SibEff
<1>10. CASE 4 \in flags
  BY <1>3, <1>5, <1>6, <1>7, <1>9, <1>10
<1>11. CASE 4 \notin flags
  BY <1>3, <1>5, <1>6, <1>7, <1>9, <1>11
<1> QED BY <1>10, <1>11

\* An r/m operand is in memory unless mod is 3.
LEMMA RmIsMem ==
  ASSUME NEW s, EncodingOk(s), NEW o, o = ParseModrm(s)
  PROVE  o.is_mem <=> s.mod # 3
<1>1. CASE s.mod = 3
  BY <1>1, RmReg
<1>2. CASE s.mod # 3 /\ s.rm # 4
  BY <1>2, RmPlain
<1>3. CASE s.mod # 3 /\ s.rm = 4
  BY <1>3, RmSib
<1> QED BY <1>1, <1>2, <1>3

\* MOV of a register to memory.
LEMMA AgreesStore ==
  ASSUME NEW s, EncodingOk(s), s.op \in {"89", "88"}
  PROVE  Agrees(s)
<1>1. ~Undecodable(s)
  BY DEF Undecodable, RexOnly, RexWOnly
<1>2. PICK d : d = Decoded(s)
  OBVIOUS
<1>3. PICK r, w, o, bytes : /\ r = DecodeReg(s, s.reg, "R") /\ w = WidthOf(s)
                            /\ o = ParseModrm(s) /\ bytes = X86Bytes(s)
  OBVIOUS
<1>4. PICK flags : flags = {}
  OBVIOUS
<1>5. PICK k : k = Emitted(d)
  OBVIOUS
<1>6. /\ d.kind = "MovMemReg" /\ d.width = w /\ d.src.reg = r /\ d.dst = o
  <2>1. Kind(s) = "MovMemReg"
    BY DEF Kind, Branch
  <2>2. s.op \in ToRm
    BY DEF ToRm
  <2> QED BY <1>2, <1>3, <2>1, <2>2, DecodedIs
<1>7. /\ s.op = "88" => w = 1 /\ bytes = 1
      /\ s.op = "89" => w = (IF s.prefix THEN 8 ELSE 4)
                        /\ bytes = (IF "W" \in s.rex THEN 8 ELSE 4)
  BY <1>3 DEF WidthOf, X86Bytes, Branch
<1>8. w = bytes <=> (s.op = "89" => (s.prefix => "W" \in s.rex))
  BY <1>7 DEF EncodingOk
<1>9. PICK from : from = X86Reg(s, s.reg, "R", bytes)
  OBVIOUS
<1>10. from = InReg(r) <=> (s.op = "88" => s.prefix \/ s.reg < 4)
  BY <1>3, <1>7, <1>9, X86RegIs
<1>11. X86Effect(s) = Filled("mov", X86Rm(s, bytes), from, bytes)
  <2>1. X86Op(s) = "mov"
    BY DEF X86Op, Branch
  <2> QED BY <1>3, <1>9, <2>1 DEF X86Effect, ToRm, Group, Branch
<1>12. Faithful(s) <=> /\ s.op = "89" => (s.prefix => "W" \in s.rex)
                       /\ s.op = "88" => (s.prefix \/ s.reg < 4) /\ s.mod # 3
                       /\ AddressKept(s)
  BY <1>1 DEF Faithful, OperationKept, SizeKept, RegistersKept, PlaceKept, RexOnly,
         RexWOnly, Branch, InOpcode, HasModrm, Opcode, ToRm
<1>13. CASE s.mod = 3
  <2>1. ~o.is_mem /\ o.reg = DecodeReg(s, s.rm, "B")
    BY <1>3, <1>13, RmReg
  <2>2. k.op = "MovReg" /\ k.dst = o.reg /\ k.src = r /\ k.width = w /\ k.aux = {}
    BY <1>5, <1>6, <2>1 DEF Emitted, Make
  <2>3. Outcome(s) = Effect("mov", InReg(o.reg), InReg(r), w, "zero")
    <3>1. k.aux # {0, 2}
      BY <2>2
    <3> QED BY <1>1, <1>2, <1>5, <2>2, <3>1 DEF Outcome, Executed
  <2>4. CASE s.op = "88"
    <3>1. X86Rm(s, bytes).kind # "mem"
      BY <1>13 DEF X86Rm, X86Reg, InReg, Place
    <3>2. X86Effect(s) = Effect("mov", X86Rm(s, bytes), from, bytes, "keep")
      BY <1>7, <1>11, <2>4, <3>1 DEF Filled
    <3> QED BY <1>12, <1>13, <2>3, <2>4, <3>2, EffectEq DEF Agrees
  <2>5. CASE s.op = "89"
    <3>1. X86Rm(s, bytes) = InReg(o.reg)
      BY <1>7, <1>13, <2>1, <2>5, X86RmIs
    <3>2. InReg(o.reg).kind = "reg" /\ bytes # 1
      BY <1>7, <2>5 DEF InReg, Place
    <3>3. X86Effect(s) = Effect("mov", InReg(o.reg), from, bytes, "zero")
      BY <1>11, <3>1, <3>2 DEF Filled
    <3>4. Outcome(s) = X86Effect(s) <=> from = InReg(r) /\ w = bytes
      BY <2>3, <3>3, EffectEq
    <3> QED BY <1>8, <1>10, <1>12, <1>13, <2>5, <3>4, AddressKeptIs DEF Agrees
  <2> QED BY <2>4, <2>5
<1>14. CASE s.mod # 3
  <2>1. o.is_mem
    BY <1>3, <1>14, RmIsMem
  <2>2. k.op = "StoreMem" /\ k.width = w
    BY <1>5, <1>6, <2>1 DEF Emitted, EncodeMemAddr, Make
  <2>3. WritesTo(k, o, flags, r, Lit)
    BY <1>4, <1>5, <1>6, <2>1 DEF Emitted, EncodeMemAddr, Make, WritesTo
  <2>4. X86Effect(s) = Effect("mov", InMem(X86Addr(s)), from, bytes, "none")
    <3>1. X86Rm(s, bytes) = InMem(X86Addr(s))
      BY <1>14, X86RmIs
    <3>2. InMem(X86Addr(s)).kind = "mem"
      BY DEF InMem, Place
    <3> QED BY <1>11, <3>1, <3>2 DEF Filled
  <2>5. Outcome(s) = Effect("mov", InMem(StoreAddr(k)),
                            IF 4 \in k.aux THEN ImmOf(k) ELSE InReg(k.src), w, "none")
    BY <1>1, <1>2, <1>5, <2>2 DEF Outcome, Executed
  <2>8. o = ParseModrm(s)
    BY <1>3
  <2>6. CASE s.rm # 4
    <3>0. 1 \notin flags
      BY <1>4
    <3>1. /\ k.aux = flags \union (IF RipRel(s) THEN {0} ELSE {}) /\ k.src = r
          /\ EffAddr(k, k.dst) = X86Addr(s) <=> ~RipRel(s)
      BY <1>14, <2>3, <2>6, <2>8, <3>0, TargetPlain
    <3>2. 4 \notin k.aux
      BY <1>4, <3>1
    <3>3. StoreAddr(k) = X86Addr(s) <=> ~RipRel(s)
      BY <1>4, <1>14, <2>6, <3>1, PlainIndex DEF StoreAddr
    <3>4. Outcome(s) = Effect("mov", InMem(StoreAddr(k)), InReg(r), w, "none")
      BY <2>5, <3>1, <3>2
    <3>5. AddressKept(s) <=> ~RipRel(s)
      BY <1>14, <2>6, AddressKeptIs
    <3>6. Outcome(s) = X86Effect(s)
            <=> StoreAddr(k) = X86Addr(s) /\ from = InReg(r) /\ w = bytes
      BY <2>4, <3>4, EffectEq, Addresses
    <3> QED BY <1>8, <1>10, <1>12, <1>14, <3>3, <3>5, <3>6 DEF Agrees
  <2>7. CASE s.rm = 4
    <3>1. r \in Reg
      BY <1>3, DecodeRegIn DEF EncodingOk
    <3>2. 4 \notin flags
      BY <1>4
    <3>8. EffAddr(k, k.dst) = X86Addr(s) <=>
               ~NoIndex(s) /\ Index(s) = IF s.scale \in {1, 3} THEN r ELSE s.index
      BY <1>14, <2>3, <2>7, <2>8, <3>1, <3>2, TargetSib
    <3>3. /\ HasSib(k) /\ k.src = r /\ k.imm = s.index
          /\ 4 \in k.aux <=> s.scale \in {1, 3}
      BY <1>14, <2>3, <2>7, <2>8, <3>1, <3>2, TargetSib
    <3>4. StoreAddr(k) = EffAddr(k, k.dst)
      <4>1. k.aux # {0}
        BY <3>3 DEF HasSib
      <4> QED BY <4>1 DEF StoreAddr
    <3>5. AddressKept(s) <=> ~NoIndex(s) /\ s.scale \notin {1, 3} /\ Index(s) = s.index
      BY <1>14, <2>7 DEF AddressKept, RipRel, Index
    <3>6. CASE s.scale \in {1, 3}
      <4>1. Outcome(s) = Effect("mov", InMem(StoreAddr(k)), ImmOf(k), w, "none")
        BY <2>5, <3>3, <3>6
      <4>2. ImmOf(k) # from
        BY <1>9 DEF ImmOf, Literal, Number, X86Reg, InReg, Place
      <4> QED BY <1>12, <2>4, <3>5, <3>6, <4>1, <4>2, EffectEq DEF Agrees
    <3>7. CASE s.scale \notin {1, 3}
      <4>1. Outcome(s) = Effect("mov", InMem(StoreAddr(k)), InReg(r), w, "none")
        BY <2>5, <3>3, <3>7
      <4>2. Outcome(s) = X86Effect(s)
              <=> StoreAddr(k) = X86Addr(s) /\ from = InReg(r) /\ w = bytes
        BY <2>4, <4>1, EffectEq, Addresses
      <4> QED BY <1>8, <1>10, <1>12, <1>14, <3>3, <3>4, <3>5, <3>7, <3>8, <4>2 DEF Agrees
    <3> QED BY <3>6, <3>7
  <2> QED BY <2>6, <2>7
<1> QED BY <1>13, <1>14

\* MOV of a literal.
LEMMA AgreesMovImm ==
  ASSUME NEW s, EncodingOk(s), s.op \in {"C7", "C6"}
  PROVE  Agrees(s)
<1>1. ~Undecodable(s)
  BY DEF Undecodable, RexOnly, RexWOnly
<1>2. PICK d : d = Decoded(s)
  OBVIOUS
<1>3. PICK w, o, bytes : w = WidthOf(s) /\ o = ParseModrm(s) /\ bytes = X86Bytes(s)
  OBVIOUS
<1>4. PICK flags : flags = {kMemImmStore}
  OBVIOUS
<1>5. PICK k : k = Emitted(d)
  OBVIOUS
<1>6. d.kind = "MovImm" /\ d.width = w /\ d.imm = Lit /\ d.dst = o
  <2>1. Kind(s) = "MovImm"
    BY DEF Kind, Branch
  <2>2. s.op \in Group
    BY DEF Group
  <2> QED BY <1>2, <1>3, <2>1, <2>2, DecodedIs
<1>7. /\ s.op = "C6" => w = 1 /\ bytes = 1
      /\ s.op = "C7" => w = 8 /\ bytes = (IF "W" \in s.rex THEN 8 ELSE 4)
  BY <1>3 DEF WidthOf, X86Bytes, Branch
<1>8. w = bytes <=> (s.op = "C7" => "W" \in s.rex)
  BY <1>7
<1>9. X86Effect(s) = Filled("mov", X86Rm(s, bytes), Literal, bytes)
  <2>1. X86Op(s) = "mov"
    BY DEF X86Op, Branch
  <2> QED BY <1>3, <2>1 DEF X86Effect, ToRm, Group, Branch
<1>10. Faithful(s) <=> /\ s.op = "C7" => "W" \in s.rex
                       /\ s.op = "C6" => s.mod # 3
                       /\ AddressKept(s)
  BY <1>1 DEF Faithful, OperationKept, SizeKept, RegistersKept, PlaceKept, RexOnly,
         RexWOnly, Branch, InOpcode, HasModrm, Opcode, Group
<1>11. CASE s.mod = 3
  <2>1. ~o.is_mem /\ o.reg = DecodeReg(s, s.rm, "B")
    BY <1>3, <1>11, RmReg
  <2>2. k.op = "LoadImm" /\ k.dst = o.reg /\ k.width = w
    BY <1>5, <1>6, <2>1 DEF Emitted, Make
  <2>3. Outcome(s) = Effect("mov", InReg(o.reg), Literal, w, "zero")
    BY <1>1, <1>2, <1>5, <2>2 DEF Outcome, Executed
  <2>4. CASE s.op = "C6"
    <3>1. X86Rm(s, bytes).kind # "mem"
      BY <1>11 DEF X86Rm, X86Reg, InReg, Place
    <3>2. X86Effect(s) = Effect("mov", X86Rm(s, bytes), Literal, bytes, "keep")
      BY <1>7, <1>9, <2>4, <3>1 DEF Filled
    <3> QED BY <1>10, <1>11, <2>3, <2>4, <3>2, EffectEq DEF Agrees
  <2>5. CASE s.op = "C7"
    <3>1. X86Rm(s, bytes) = InReg(o.reg)
      BY <1>7, <1>11, <2>1, <2>5, X86RmIs
    <3>2. InReg(o.reg).kind = "reg" /\ bytes # 1
      BY <1>7, <2>5 DEF InReg, Place
    <3>3. X86Effect(s) = Effect("mov", InReg(o.reg), Literal, bytes, "zero")
      BY <1>9, <3>1, <3>2 DEF Filled
    <3>4. Outcome(s) = X86Effect(s) <=> w = bytes
      BY <2>3, <3>3, EffectEq
    <3> QED BY <1>8, <1>10, <1>11, <2>5, <3>4, AddressKeptIs DEF Agrees
  <2> QED BY <2>4, <2>5
<1>12. CASE s.mod # 3
  <2>1. o.is_mem /\ o = ParseModrm(s)
    BY <1>3, <1>12, RmIsMem
  <2>2. k.op = "StoreMem" /\ k.width = w
    BY <1>5, <1>6, <2>1 DEF Emitted, EncodeMemAddr, Make
  <2>3. WritesTo(k, o, flags, 0, Lit)
    BY <1>4, <1>5, <1>6, <2>1 DEF Emitted, EncodeMemAddr, Make, WritesTo
  <2>4. X86Effect(s) = Effect("mov", InMem(X86Addr(s)), Literal, bytes, "none")
    <3>1. X86Rm(s, bytes) = InMem(X86Addr(s))
      BY <1>12, X86RmIs
    <3>2. InMem(X86Addr(s)).kind = "mem"
      BY DEF InMem, Place
    <3> QED BY <1>9, <3>1, <3>2 DEF Filled
  <2>5. Outcome(s) = Effect("mov", InMem(StoreAddr(k)),
                            IF 4 \in k.aux THEN ImmOf(k) ELSE InReg(k.src), w, "none")
    BY <1>1, <1>2, <1>5, <2>2 DEF Outcome, Executed
  <2>6. /\ k.imm = Lit /\ 4 \in k.aux /\ StoreAddr(k) = EffAddr(k, k.dst)
        /\ EffAddr(k, k.dst) = X86Addr(s) <=> AddressKept(s)
    <3>1. CASE s.rm # 4
      <4>1. 1 \notin flags \/ 2 \notin flags
        BY <1>4 DEF kMemImmStore
      <4>2. /\ k.aux = flags \union (IF RipRel(s) THEN {0} ELSE {}) /\ k.imm = Lit
        BY <1>12, <2>1, <2>3, <3>1, <4>1, TargetPlain
      <4>6. EffAddr(k, k.dst) = X86Addr(s) <=> ~RipRel(s)
        BY <1>12, <2>1, <2>3, <3>1, <4>1, TargetPlain
      <4>3. 4 \in k.aux
        BY <1>4, <4>2 DEF kMemImmStore
      <4>4. AddressKept(s) <=> ~RipRel(s)
        BY <1>12, <3>1, AddressKeptIs
      <4>5. k.aux # {0}
        BY <4>3
      <4> QED BY <4>2, <4>3, <4>4, <4>5, <4>6 DEF StoreAddr
    <3>2. CASE s.rm = 4
      <4>1. 4 \in flags /\ 0 \in Reg
        BY <1>4 DEF kMemImmStore, Reg
      <4>2. HasSib(k) /\ k.imm = Lit /\ 4 \in k.aux
        BY <1>12, <2>1, <2>3, <3>2, <4>1, TargetSib
      <4>3. EffAddr(k, k.dst) = X86Addr(s) <=>
              ~NoIndex(s) /\ s.scale \in {1, 3} /\ Index(s) = s.index
        BY <1>12, <2>1, <2>3, <3>2, <4>1, TargetSib
      <4>4. AddressKept(s) <=> ~NoIndex(s) /\ s.scale \in {1, 3} /\ Index(s) = s.index
        BY <1>12, <3>2 DEF AddressKept, RipRel, Index
      <4>5. k.aux # {0}
        BY <4>2
      <4> QED BY <4>2, <4>3, <4>4, <4>5 DEF StoreAddr
    <3> QED BY <3>1, <3>2
  <2>7. Outcome(s) = Effect("mov", InMem(StoreAddr(k)), Literal, w, "none")
    BY <2>5, <2>6 DEF ImmOf
  <2>8. Outcome(s) = X86Effect(s) <=> StoreAddr(k) = X86Addr(s) /\ w = bytes
    BY <2>4, <2>7, EffectEq, Addresses
  <2> QED BY <1>8, <1>10, <1>12, <2>6, <2>8 DEF Agrees
<1> QED BY <1>11, <1>12

\* Arithmetic that reads its r/m operand.
LEMMA AgreesFromRm ==
  ASSUME NEW s, EncodingOk(s), ~Undecodable(s), s.op \in {"33", "03", "2B"}
  PROVE  Agrees(s)
<1>2. PICK d : d = Decoded(s)
  OBVIOUS
<1>3. PICK r, o, op, bytes : /\ r = DecodeReg(s, s.reg, "R") /\ o = ParseModrm(s)
                             /\ op = BinOpOf(s) /\ bytes = X86Bytes(s)
  OBVIOUS
<1>5. PICK k : k = Emitted(d)
  OBVIOUS
<1>6. /\ d.kind = "BinOpRegReg" /\ d.width = 8 /\ d.dst.reg = r /\ d.src = o /\ d.binop = op
  <2>1. Kind(s) = "BinOpRegReg" /\ WidthOf(s) = 8
    BY DEF Kind, Branch, WidthOf
  <2>2. s.op \in ToReg
    BY DEF ToReg
  <2> QED BY <1>2, <1>3, <2>1, <2>2, DecodedIs
<1>7. op = X86Op(s) /\ op \in {"add", "sub", "xor"}
  BY <1>3 DEF BinOpOf, X86Op, Branch
<1>8. OpIn(OpBits(op)) = op
  BY <1>7, OpsIn
<1>9. bytes = (IF "W" \in s.rex THEN 8 ELSE 4)
  BY <1>3 DEF X86Bytes, Branch
<1>10. X86Effect(s) = Effect(op, InReg(r), X86Rm(s, bytes), bytes, "zero")
  <2>1. X86Reg(s, s.reg, "R", bytes) = InReg(r)
    BY <1>3, <1>9, X86RegIs
  <2>2. InReg(r).kind = "reg" /\ bytes # 1
    BY <1>9 DEF InReg, Place
  <2>3. X86Effect(s) = Filled(op, InReg(r), X86Rm(s, bytes), bytes)
    BY <1>3, <1>7, <2>1 DEF X86Effect, ToRm, Group, Branch
  <2> QED BY <2>2, <2>3 DEF Filled
<1>11. Faithful(s) <=> "W" \in s.rex /\ s.mod = 3
  BY AddressKeptIs DEF Faithful, OperationKept, SizeKept, RegistersKept, PlaceKept, RexOnly,
         RexWOnly, Branch, InOpcode, HasModrm, Opcode, ToReg
<1>12. k.op = "BinOpReg" /\ k.dst = r /\ k.src = o.reg /\ k.width = 8 /\ k.aux = OpBits(op)
  BY <1>5, <1>6 DEF Emitted, Make
<1>13. Outcome(s) = Effect(op, InReg(r), InReg(o.reg), 8, "zero")
  BY <1>2, <1>5, <1>8, <1>12 DEF Outcome, Executed
<1>14. CASE s.mod = 3
  <2>1. o.reg = DecodeReg(s, s.rm, "B")
    BY <1>3, <1>14, RmReg
  <2>2. X86Rm(s, bytes) = InReg(o.reg)
    BY <1>9, <1>14, <2>1, X86RmIs
  <2>3. Outcome(s) = X86Effect(s) <=> bytes = 8
    BY <1>10, <1>13, <2>2, EffectEq
  <2> QED BY <1>9, <1>11, <1>14, <2>3 DEF Agrees
<1>15. CASE s.mod # 3
  <2>1. X86Rm(s, bytes) # InReg(o.reg)
    BY <1>15, X86RmIs, PlacesDiffer
  <2> QED BY <1>10, <1>11, <1>13, <1>15, <2>1, EffectEq DEF Agrees
<1> QED BY <1>14, <1>15

\* BinOpMem finds its operation where the scale is.
LEMMA MemOpIs ==
  ASSUME NEW s, EncodingOk(s), NEW op \in {"add", "sub", "and", "or", "xor"},
         NEW k, HasSib(k),
         \A b : b \in k.aux <=> \/ b \in {1, 2}
                                \/ b = 4 /\ s.scale \in {1, 3}
                                \/ b = 5 /\ s.scale \in {2, 3}
                                \/ b = 6 /\ NoBase(s)
  PROVE  MemOp(k) = op <=> s.scale + (IF NoBase(s) THEN 4 ELSE 0) = OpNumber(op)
<1>1. PICK bits : bits = {b - 4 : b \in k.aux \intersect 4 .. 6}
  OBVIOUS
<1>2. \A b : b \in bits <=> \/ b = 0 /\ s.scale \in {1, 3}
                            \/ b = 1 /\ s.scale \in {2, 3}
                            \/ b = 2 /\ NoBase(s)
  BY <1>1
<1>3. MemOp(k) = OpIn(bits)
  BY <1>1 DEF MemOp
<1>4. OpIn(bits) = op <=> bits = OpBits(op)
  BY OpsIn
<1>5. s.scale = 0 \/ s.scale = 1 \/ s.scale = 2 \/ s.scale = 3
  BY DEF EncodingOk
<1>6. CASE op = "add"
  <2>1. bits = {} <=> s.scale = 0 /\ ~NoBase(s)
    BY <1>2, <1>5
  <2> QED BY <1>3, <1>4, <1>5, <1>6, <2>1, OpsIn
<1>7. CASE op = "sub"
  <2>1. bits = {0} <=> s.scale = 1 /\ ~NoBase(s)
    BY <1>2, <1>5
  <2> QED BY <1>3, <1>4, <1>5, <1>7, <2>1, OpsIn
<1>8. CASE op = "and"
  <2>1. bits = {1} <=> s.scale = 2 /\ ~NoBase(s)
    BY <1>2, <1>5
  <2> QED BY <1>3, <1>4, <1>5, <1>8, <2>1, OpsIn
<1>9. CASE op = "or"
  <2>1. bits = {0, 1} <=> s.scale = 3 /\ ~NoBase(s)
    BY <1>2, <1>5
  <2> QED BY <1>3, <1>4, <1>5, <1>9, <2>1, OpsIn
<1>10. CASE op = "xor"
  <2>1. bits = {2} <=> s.scale = 0 /\ NoBase(s)
    BY <1>2, <1>5
  <2> QED BY <1>3, <1>4, <1>5, <1>10, <2>1, OpsIn
<1> QED BY <1>6, <1>7, <1>8, <1>9, <1>10

\* Arithmetic that changes its r/m operand.
LEMMA AgreesToRm ==
  ASSUME NEW s, EncodingOk(s), ~Undecodable(s), s.op \in {"01", "29", "31", "21", "09"}
  PROVE  Agrees(s)
<1>2. PICK d : d = Decoded(s)
  OBVIOUS
<1>3. PICK r, o, op, bytes, w : /\ r = DecodeReg(s, s.reg, "R") /\ o = ParseModrm(s)
                                /\ op = BinOpOf(s) /\ bytes = X86Bytes(s) /\ w = WidthOf(s)
  OBVIOUS
<1>4. PICK flags : flags = OpBits(op)
  OBVIOUS
<1>5. PICK k : k = Emitted(d)
  OBVIOUS
<1>6. /\ d.kind = "BinOpMemReg" /\ d.width = w /\ d.src.reg = r /\ d.dst = o /\ d.binop = op
  <2>1. Kind(s) = "BinOpMemReg"
    BY DEF Kind, Branch
  <2>2. s.op \in ToRm
    BY DEF ToRm
  <2> QED BY <1>2, <1>3, <2>1, <2>2, DecodedIs
<1>7. op = X86Op(s) /\ op \in {"add", "sub", "and", "or", "xor"}
  BY <1>3 DEF BinOpOf, X86Op, Branch
<1>8. OpIn(flags) = op /\ (1 \notin flags \/ 2 \notin flags) /\ 4 \notin flags
      /\ flags \subseteq 0 .. 3
  BY <1>4, <1>7, OpsIn
<1>9. bytes = (IF "W" \in s.rex THEN 8 ELSE 4) /\ w = (IF s.op = "01" /\ ~s.prefix THEN 4 ELSE 8)
  BY <1>3 DEF X86Bytes, Branch, WidthOf, EncodingOk
<1>10. X86Effect(s) = Filled(op, X86Rm(s, bytes), InReg(r), bytes)
  <2>1. X86Reg(s, s.reg, "R", bytes) = InReg(r)
    BY <1>3, <1>9, X86RegIs
  <2> QED BY <1>3, <1>7, <2>1 DEF X86Effect, ToRm, Group, Branch
<1>11. Faithful(s) <=> w = bytes /\ AddressKept(s)
  <2>1. Faithful(s) <=> SizeKept(s) /\ AddressKept(s)
    BY DEF Faithful, OperationKept, RegistersKept, PlaceKept, Branch, InOpcode, HasModrm,
           Opcode, ToRm, RexWOnly
  <2>2. SizeKept(s) <=> w = bytes
    BY <1>9 DEF SizeKept, RexOnly, RexWOnly, EncodingOk
  <2> QED BY <2>1, <2>2
<1>12. CASE s.mod = 3
  <2>1. ~o.is_mem /\ o.reg = DecodeReg(s, s.rm, "B")
    BY <1>3, <1>12, RmReg
  <2>2. k.op = "BinOpReg" /\ k.dst = o.reg /\ k.src = r /\ k.width = w /\ k.aux = flags
    BY <1>4, <1>5, <1>6, <2>1 DEF Emitted, Make
  <2>3. Outcome(s) = Effect(op, InReg(o.reg), InReg(r), w, "zero")
    BY <1>2, <1>5, <1>8, <2>2 DEF Outcome, Executed
  <2>4. X86Rm(s, bytes) = InReg(o.reg)
    BY <1>9, <1>12, <2>1, X86RmIs
  <2>5. InReg(o.reg).kind = "reg" /\ bytes # 1
    BY <1>9 DEF InReg, Place
  <2>6. X86Effect(s) = Effect(op, InReg(o.reg), InReg(r), bytes, "zero")
    BY <1>10, <2>4, <2>5 DEF Filled
  <2>7. Outcome(s) = X86Effect(s) <=> w = bytes
    BY <2>3, <2>6, EffectEq
  <2> QED BY <1>11, <1>12, <2>7, AddressKeptIs DEF Agrees
<1>13. CASE s.mod # 3
  <2>1. o.is_mem /\ o = ParseModrm(s)
    BY <1>3, <1>13, RmIsMem
  <2>2. k.op = "BinOpMem" /\ k.width = w
    BY <1>5, <1>6, <2>1 DEF Emitted, EncodeMemAddr, Make
  <2>3. WritesTo(k, o, flags, r, Lit)
    BY <1>4, <1>5, <1>6, <2>1 DEF Emitted, EncodeMemAddr, Make, WritesTo
  <2>4. X86Effect(s) = Effect(op, InMem(X86Addr(s)), InReg(r), bytes, "none")
    <3>1. X86Rm(s, bytes) = InMem(X86Addr(s))
      BY <1>13, X86RmIs
    <3>2. InMem(X86Addr(s)).kind = "mem"
      BY DEF InMem, Place
    <3> QED BY <1>10, <3>1, <3>2 DEF Filled
  <2>5. Outcome(s) = Effect(MemOp(k), InMem(EffAddr(k, k.dst)), InReg(k.src), w, "none")
    BY <1>2, <1>5, <2>2 DEF Outcome, Executed
  <2>6. /\ k.src = r
        /\ MemOp(k) = op /\ EffAddr(k, k.dst) = X86Addr(s) <=> AddressKept(s)
    <3>1. CASE s.rm # 4
      <4>1. /\ k.aux = flags \union (IF RipRel(s) THEN {0} ELSE {}) /\ k.src = r
            /\ EffAddr(k, k.dst) = X86Addr(s) <=> ~RipRel(s)
        BY <1>8, <1>13, <2>1, <2>3, <3>1, TargetPlain
      <4>2. AddressKept(s) <=> ~RipRel(s)
        BY <1>13, <3>1, AddressKeptIs
      <4>3. ~RipRel(s) => MemOp(k) = op
        <5> SUFFICES ASSUME ~RipRel(s) PROVE MemOp(k) = op
          OBVIOUS
        <5>1. k.aux = flags /\ k.aux \intersect 0 .. 3 = flags
          BY <1>8, <4>1
        <5>2. ~HasSib(k)
          BY <1>8, <5>1 DEF HasSib
        <5> QED BY <1>8, <5>1, <5>2 DEF MemOp
      <4> QED BY <4>1, <4>2, <4>3
    <3>2. CASE s.rm = 4
      <4>1. r \in Reg /\ 4 \notin flags
        BY <1>3, <1>8, DecodeRegIn DEF EncodingOk
      <4>2. EffAddr(k, k.dst) = X86Addr(s) <=>
              ~NoIndex(s) /\ Index(s) = IF s.scale \in {1, 3} THEN r ELSE s.index
        BY <1>13, <2>1, <2>3, <3>2, <4>1, TargetSib
      <4>3. HasSib(k)
        BY <1>13, <2>1, <2>3, <3>2, <4>1, TargetSib
      <4>7. k.src = r
        BY <2>3, <4>1 DEF WritesTo, kMemImmStore
      <4>4. \A b : b \in k.aux <=> \/ b \in {1, 2}
                                   \/ b = 4 /\ (s.scale \in {1, 3} \/ 4 \in flags)
                                   \/ b = 5 /\ s.scale \in {2, 3}
                                   \/ b = 6 /\ NoBase(s)
        BY <1>13, <2>1, <2>3, <3>2, <4>1, TargetSib
      <4>5. MemOp(k) = op <=> s.scale + (IF NoBase(s) THEN 4 ELSE 0) = OpNumber(op)
        BY <1>7, <4>1, <4>3, <4>4, MemOpIs
      <4>6. AddressKept(s) <=> /\ ~NoIndex(s)
                               /\ Index(s) = IF s.scale \in {1, 3} THEN r ELSE s.index
                               /\ s.scale + (IF NoBase(s) THEN 4 ELSE 0) = OpNumber(op)
        BY <1>3, <1>13, <3>2 DEF AddressKept, RipRel, Index
      <4> QED BY <4>2, <4>5, <4>6, <4>7
    <3> QED BY <3>1, <3>2
  <2>7. Outcome(s) = X86Effect(s)
          <=> MemOp(k) = op /\ EffAddr(k, k.dst) = X86Addr(s) /\ w = bytes
    BY <2>4, <2>5, <2>6, EffectEq, Addresses
  <2> QED BY <1>11, <2>6, <2>7 DEF Agrees
<1> QED BY <1>12, <1>13

\* The operation of 83 and 81, and of FF.
LEMMA GroupOps ==
  ASSUME NEW s, EncodingOk(s), s.op \in {"83", "81", "FF"},
         s.op = "FF" => s.reg \in {0, 1}, s.op # "FF" => s.reg # 7
  PROVE  /\ BinOpOf(s) \in {"add", "sub", "and", "or", "xor"}
         /\ X86Op(s) \notin {"cmp", "test"}
         /\ BinOpOf(s) = X86Op(s) <=> (s.op # "FF" => s.reg \notin {2, 3})
         /\ s.op = "FF" => OpNumber(BinOpOf(s)) = s.reg
<1>1. CASE s.op = "FF"
  <2>1. X86Op(s) = <<"add", "sub">>[s.reg + 1] /\ BinOpOf(s) = IF s.reg = 0 THEN "add" ELSE "sub"
    BY <1>1 DEF X86Op, BinOpOf, Branch
  <2> QED BY <1>1, <2>1, OpsIn
<1>2. CASE s.op # "FF"
  <2>1. X86Op(s) = <<"add", "or", "adc", "sbb", "and", "sub", "xor", "cmp">>[s.reg + 1]
    BY <1>2 DEF X86Op, Branch
  <2>2. BinOpOf(s) = <<"add", "or", "add", "sub", "and", "sub", "xor", "add">>[s.reg + 1]
    BY <1>2 DEF BinOpOf, GroupOp
  <2>3. s.reg = 0 \/ s.reg = 1 \/ s.reg = 2 \/ s.reg = 3 \/ s.reg = 4 \/ s.reg = 5 \/ s.reg = 6
    BY <1>2 DEF EncodingOk
  <2> QED BY <1>2, <2>1, <2>2, <2>3
<1> QED BY <1>1, <1>2

\* Arithmetic with a literal, INC and DEC.
LEMMA AgreesGroup ==
  ASSUME NEW s, EncodingOk(s), ~Undecodable(s), s.op \in {"83", "FF"},
         s.op = "83" => s.reg # 7
  PROVE  Agrees(s)
<1>1. s.op = "FF" => s.reg \in {0, 1}
  BY DEF Undecodable, EncodingOk
<1>2. PICK d : d = Decoded(s)
  OBVIOUS
<1>3. PICK o, op, bytes : o = ParseModrm(s) /\ op = BinOpOf(s) /\ bytes = X86Bytes(s)
  OBVIOUS
<1>4. PICK flags : flags = {}
  OBVIOUS
<1>5. PICK k : k = Emitted(d)
  OBVIOUS
<1>6. PICK imm, n : /\ imm = (IF s.op = "FF" THEN 1 ELSE Lit)
                    /\ n = (IF s.op = "FF" THEN Number(1) ELSE Literal)
  OBVIOUS
<1>7. /\ d.kind = (IF s.mod = 3 THEN "BinOpRegImm" ELSE "BinOpMemImm")
      /\ d.width = 8 /\ d.dst = o /\ d.binop = op /\ d.imm = imm
  <2>1. Kind(s) = (IF s.mod = 3 THEN "BinOpRegImm" ELSE "BinOpMemImm") /\ WidthOf(s) = 8
    BY DEF Kind, Branch, WidthOf
  <2>2. s.op \in Group /\ s.op # "D1"
    BY DEF Group
  <2> QED BY <1>2, <1>3, <1>6, <2>1, <2>2, DecodedIs
<1>8. /\ op \in {"add", "sub", "and", "or", "xor"} /\ X86Op(s) \notin {"cmp", "test"}
      /\ op = X86Op(s) <=> (s.op = "83" => s.reg \notin {2, 3})
      /\ s.op = "FF" => OpNumber(op) = s.reg
  BY <1>1, <1>3, GroupOps
<1>9. bytes = (IF "W" \in s.rex THEN 8 ELSE 4)
  BY <1>3 DEF X86Bytes, Branch
<1>10. X86Effect(s) = Filled(X86Op(s), X86Rm(s, bytes), n, bytes)
  BY <1>3, <1>6, <1>8 DEF X86Effect, ToRm, Group, Branch
<1>11. Faithful(s) <=> /\ s.op = "83" => s.reg \notin {2, 3}
                       /\ "W" \in s.rex /\ AddressKept(s)
  BY DEF Faithful, OperationKept, SizeKept, RegistersKept, PlaceKept, Branch, InOpcode,
         HasModrm, Opcode, Group, RexOnly, RexWOnly
<1>13. CASE s.mod = 3
  <2>1. o.reg = DecodeReg(s, s.rm, "B")
    BY <1>3, <1>13, RmReg
  <2>2. k.op = "BinOpImm" /\ k.dst = o.reg /\ k.width = 8 /\ k.aux = OpBits(op) /\ k.imm = imm
    BY <1>5, <1>7, <1>13 DEF Emitted, Make
  <2>3. OpIn(OpBits(op)) = op
    BY <1>8, OpsIn
  <2>4. ImmOf(k) = n
    BY <1>6, <2>2 DEF ImmOf, Lit
  <2>5. Outcome(s) = Effect(op, InReg(o.reg), n, 8, "zero")
    BY <1>2, <1>5, <2>2, <2>3, <2>4 DEF Outcome, Executed
  <2>6. X86Rm(s, bytes) = InReg(o.reg)
    BY <1>9, <1>13, <2>1, X86RmIs
  <2>7. InReg(o.reg).kind = "reg" /\ bytes # 1
    BY <1>9 DEF InReg, Place
  <2>8. X86Effect(s) = Effect(X86Op(s), InReg(o.reg), n, bytes, "zero")
    BY <1>10, <2>6, <2>7 DEF Filled
  <2>9. Outcome(s) = X86Effect(s) <=> op = X86Op(s) /\ bytes = 8
    BY <2>5, <2>8, EffectEq
  <2> QED BY <1>8, <1>9, <1>11, <1>13, <2>9, AddressKeptIs DEF Agrees
<1>14. CASE s.mod # 3
  <2>1. o.is_mem /\ o = ParseModrm(s)
    BY <1>3, <1>14, RmIsMem
  <2>2. k.op = "BinOpMemImm" /\ k.width = 8
    BY <1>5, <1>7, <1>14 DEF Emitted, EncodeMemAddr, Make
  <2>3. WritesTo(k, o, flags, OpNumber(op), imm)
    BY <1>4, <1>5, <1>7, <1>14 DEF Emitted, EncodeMemAddr, Make, WritesTo
  <2>4. X86Effect(s) = Effect(X86Op(s), InMem(X86Addr(s)), n, bytes, "none")
    <3>1. X86Rm(s, bytes) = InMem(X86Addr(s))
      BY <1>14, X86RmIs
    <3>2. InMem(X86Addr(s)).kind = "mem"
      BY DEF InMem, Place
    <3> QED BY <1>10, <3>1, <3>2 DEF Filled
  <2>5. k.src = OpNumber(op)
    BY <1>4, <2>3 DEF WritesTo
  <2>6. OpNumber(op) \in 0 .. 4 /\ Ops[OpNumber(op) + 1] = op
    BY <1>8, OpsIn DEF Ops
  <2>7. Outcome(s) = Effect(op, InMem(EffAddr(k, k.dst)), ImmOf(k), 8, "none")
    BY <1>2, <1>5, <2>2, <2>5, <2>6 DEF Outcome, Executed
  <2>8. ImmOf(k) = n /\ EffAddr(k, k.dst) = X86Addr(s) <=> AddressKept(s)
    <3>1. CASE s.rm # 4
      <4>1. 1 \notin flags
        BY <1>4
      <4>2. k.imm = imm
        BY <1>14, <2>1, <2>3, <3>1, <4>1, TargetPlain
      <4>3. EffAddr(k, k.dst) = X86Addr(s) <=> ~RipRel(s)
        BY <1>14, <2>1, <2>3, <3>1, <4>1, TargetPlain
      <4>4. AddressKept(s) <=> ~RipRel(s)
        BY <1>14, <3>1, AddressKeptIs
      <4>5. ImmOf(k) = n
        BY <1>6, <4>2 DEF ImmOf, Lit
      <4> QED BY <4>3, <4>4, <4>5
    <3>2. CASE s.rm = 4
      <4>1. 4 \notin flags /\ OpNumber(op) \in Reg
        BY <1>4, <2>6 DEF Reg
      <4>2. EffAddr(k, k.dst) = X86Addr(s) <=>
              ~NoIndex(s) /\ Index(s) = IF s.scale \in {1, 3} THEN OpNumber(op) ELSE s.index
        BY <1>14, <2>1, <2>3, <3>2, <4>1, TargetSib
      <4>3. k.imm = s.index
        <5>1. o.has_sib /\ o.index = s.index
          BY <1>14, <2>1, <3>2, RmSib
        <5> QED BY <1>4, <2>3, <5>1 DEF WritesTo
      <4>4. ImmOf(k) = Number(s.index)
        BY <4>3 DEF ImmOf, Lit, EncodingOk
      <4>5. CASE s.op = "83"
        <5>1. Number(s.index) # n
          BY <1>6, <4>5 DEF Number, Literal, Place
        <5>2. ~AddressKept(s)
          BY <1>14, <3>2, <4>5 DEF AddressKept, RipRel
        <5> QED BY <4>4, <5>1, <5>2
      <4>6. CASE s.op = "FF"
        <5>1. Number(s.index) = n <=> s.index = 1
          BY <1>6, <4>6 DEF Number, Place
        <5>2. AddressKept(s) <=> s.index = 1 /\ Index(s) = IF s.scale \in {1, 3} THEN s.reg ELSE s.index
          BY <1>14, <3>2, <4>6 DEF AddressKept, RipRel, Index
        <5>3. s.index = 1 => ~NoIndex(s)
          BY DEF NoIndex
        <5> QED BY <1>8, <4>2, <4>4, <4>6, <5>1, <5>2, <5>3
      <4> QED BY <4>5, <4>6
    <3> QED BY <3>1, <3>2
  <2>9. Outcome(s) = X86Effect(s)
          <=> op = X86Op(s) /\ EffAddr(k, k.dst) = X86Addr(s) /\ ImmOf(k) = n /\ bytes = 8
    BY <2>4, <2>7, EffectEq, Addresses
  <2> QED BY <1>8, <1>9, <1>11, <2>8, <2>9 DEF Agrees
<1> QED BY <1>13, <1>14

\* Arithmetic with a literal of four bytes.
LEMMA Agrees81 ==
  ASSUME NEW s, EncodingOk(s), s.op = "81", s.reg # 7
  PROVE  Agrees(s)
<1>1. ~Undecodable(s)
  BY DEF Undecodable, RexOnly, RexWOnly
<1>2. PICK d : d = Decoded(s)
  OBVIOUS
<1>3. PICK o, op, bytes : o = ParseModrm(s) /\ op = BinOpOf(s) /\ bytes = X86Bytes(s)
  OBVIOUS
<1>4. PICK k : k = Emitted(d)
  OBVIOUS
<1>5. d.kind = "BinOpRegImm" /\ d.width = 4 /\ d.dst = o /\ d.binop = op /\ d.imm = Lit
  <2>1. Kind(s) = "BinOpRegImm" /\ WidthOf(s) = 4
    BY DEF Kind, Branch, WidthOf
  <2>2. s.op \in Group
    BY DEF Group
  <2> QED BY <1>2, <1>3, <2>1, <2>2, DecodedIs
<1>6. /\ op \in {"add", "sub", "and", "or", "xor"} /\ X86Op(s) \notin {"cmp", "test"}
      /\ op = X86Op(s) <=> s.reg \notin {2, 3}
  BY <1>3, GroupOps
<1>7. bytes = (IF "W" \in s.rex THEN 8 ELSE 4)
  BY <1>3 DEF X86Bytes, Branch
<1>8. X86Effect(s) = Filled(X86Op(s), X86Rm(s, bytes), Literal, bytes)
  BY <1>3, <1>6 DEF X86Effect, ToRm, Group, Branch
<1>9. Faithful(s) <=> s.reg \notin {2, 3} /\ "W" \notin s.rex /\ s.mod = 3
  BY <1>1, AddressKeptIs DEF Faithful, OperationKept, SizeKept, RegistersKept, PlaceKept, Branch,
         InOpcode, HasModrm, Opcode, Group, RexOnly, RexWOnly
<1>10. k.op = "BinOpImm" /\ k.dst = o.reg /\ k.width = 4 /\ k.aux = OpBits(op) /\ k.imm = Lit
  BY <1>4, <1>5 DEF Emitted, Make
<1>11. Outcome(s) = Effect(op, InReg(o.reg), Literal, 4, "zero")
  <2>1. OpIn(OpBits(op)) = op
    BY <1>6, OpsIn
  <2> QED BY <1>1, <1>2, <1>4, <1>10, <2>1 DEF Outcome, Executed, ImmOf
<1>12. CASE s.mod = 3
  <2>1. o.reg = DecodeReg(s, s.rm, "B")
    BY <1>3, <1>12, RmReg
  <2>2. X86Rm(s, bytes) = InReg(o.reg)
    BY <1>7, <1>12, <2>1, X86RmIs
  <2>3. InReg(o.reg).kind = "reg" /\ bytes # 1
    BY <1>7 DEF InReg, Place
  <2>4. X86Effect(s) = Effect(X86Op(s), InReg(o.reg), Literal, bytes, "zero")
    BY <1>8, <2>2, <2>3 DEF Filled
  <2>5. Outcome(s) = X86Effect(s) <=> op = X86Op(s) /\ bytes = 4
    BY <1>11, <2>4, EffectEq
  <2> QED BY <1>6, <1>7, <1>9, <1>12, <2>5 DEF Agrees
<1>13. CASE s.mod # 3
  <2>1. X86Rm(s, bytes) = InMem(X86Addr(s))
    BY <1>13, X86RmIs
  <2>2. InMem(X86Addr(s)).kind = "mem" /\ InMem(X86Addr(s)) # InReg(o.reg)
    BY PlacesDiffer DEF InMem, Place
  <2>3. X86Effect(s) = Effect(X86Op(s), InMem(X86Addr(s)), Literal, bytes, "none")
    BY <1>8, <2>1, <2>2 DEF Filled
  <2> QED BY <1>9, <1>11, <1>13, <2>2, <2>3, EffectEq DEF Agrees
<1> QED BY <1>12, <1>13

\* The r/m operand of a comparison: its base alone, if it is in memory.
LEMMA ComparedRm ==
  ASSUME NEW s, EncodingOk(s), NEW bytes,
         \/ s.op \in {"39", "3B", "84", "85"}
         \/ s.op \in {"81", "83"} /\ s.reg = 7,
         NEW o, o = ParseModrm(s)
  PROVE  /\ s.mod # 3 => (InMem(At(Plus(NoRegs, o.base, 1))) = X86Rm(s, bytes) <=> AddressKept(s))
         /\ s.mod = 3 => AddressKept(s)
         /\ s.mod = 3 => (InReg(o.reg) = X86Rm(s, bytes)
                            <=> bytes # 1 \/ s.prefix \/ s.rm < 4)
<1>1. CASE s.mod = 3
  BY <1>1, RmReg, X86RmIs, AddressKeptIs
<1>2. CASE s.mod # 3
  <2>1. At(Plus(NoRegs, o.base, 1)) = X86Addr(s) <=> AddressKept(s)
    BY <1>2, BaseRight
  <2>2. X86Rm(s, bytes) = InMem(X86Addr(s))
    BY <1>2, X86RmIs
  <2>3. PICK i : i = [aux |-> {}]
    OBVIOUS
  <2>4. At(Plus(NoRegs, o.base, 1)) = EffAddr(i, o.base)
    <3>1. ~HasSib(i)
      BY <2>3 DEF HasSib
    <3> QED BY <3>1, EffPlain
  <2> QED BY <1>2, <2>1, <2>2, <2>4, Addresses
<1> QED BY <1>1, <1>2

\* Comparisons with a literal.
LEMMA AgreesCmpImm ==
  ASSUME NEW s, EncodingOk(s), s.op \in {"81", "83"}, s.reg = 7
  PROVE  Agrees(s)
<1>1. ~Undecodable(s)
  BY DEF Undecodable, RexOnly, RexWOnly
<1>2. PICK d : d = Decoded(s)
  OBVIOUS
<1>3. PICK o, w, bytes : o = ParseModrm(s) /\ w = WidthOf(s) /\ bytes = X86Bytes(s)
  OBVIOUS
<1>4. PICK k : k = Emitted(d)
  OBVIOUS
<1>5. d.kind = "CmpRegImm" /\ d.width = w /\ d.dst = o /\ d.imm = Lit
  <2>1. Kind(s) = "CmpRegImm"
    BY DEF Kind, Branch
  <2>2. s.op \in Group
    BY DEF Group
  <2> QED BY <1>2, <1>3, <2>1, <2>2, DecodedIs
<1>6. bytes = (IF "W" \in s.rex THEN 8 ELSE 4) /\ w = (IF s.op = "81" THEN 4 ELSE 8)
  BY <1>3 DEF X86Bytes, Branch, WidthOf
<1>7. X86Effect(s) = Effect("cmp", X86Rm(s, bytes), Literal, bytes, "none")
  <2>1. X86Op(s) = <<"add", "or", "adc", "sbb", "and", "sub", "xor", "cmp">>[s.reg + 1]
    BY DEF X86Op, Branch
  <2>2. X86Op(s) = "cmp"
    BY <2>1
  <2> QED BY <1>3, <2>2 DEF X86Effect, ToRm, Group, Branch
<1>8. Faithful(s) <=> w = bytes /\ AddressKept(s)
  BY <1>1, <1>6 DEF Faithful, OperationKept, SizeKept, RegistersKept, PlaceKept, Branch,
         InOpcode, HasModrm, Opcode, Group, RexOnly, RexWOnly
<1>9. o.is_mem <=> s.mod # 3
  BY <1>3, RmIsMem
<1>10. /\ k.op = "CmpImm" /\ k.width = w /\ k.imm = Lit
       /\ k.dst = (IF o.is_mem THEN o.base ELSE o.reg)
       /\ k.aux = (IF o.is_mem THEN {0, 1, 2} ELSE {})
  BY <1>4, <1>5 DEF Emitted, EmitCompare, Make
<1>11. Outcome(s) = Effect("cmp", Lhs(k), Literal, w, "none")
  BY <1>1, <1>2, <1>4, <1>10 DEF Outcome, Executed, Rhs, ImmOf
<1>12. Lhs(k) = IF o.is_mem THEN InMem(At(Plus(NoRegs, o.base, 1))) ELSE InReg(o.reg)
  BY <1>10 DEF Lhs, Based
<1>13. Lhs(k) = X86Rm(s, bytes) <=> AddressKept(s)
  <2>1. bytes # 1
    BY <1>6
  <2> QED BY <1>3, <1>9, <1>12, <2>1, ComparedRm
<1>14. Outcome(s) = X86Effect(s) <=> Lhs(k) = X86Rm(s, bytes) /\ w = bytes
  BY <1>7, <1>11, EffectEq
<1> QED BY <1>8, <1>13, <1>14 DEF Agrees

\* Comparisons of a register with an r/m operand.
LEMMA AgreesCmp ==
  ASSUME NEW s, EncodingOk(s), ~Undecodable(s), s.op \in {"39", "3B"}
  PROVE  Agrees(s)
<1>2. PICK d : d = Decoded(s)
  OBVIOUS
<1>3. PICK r, o, bytes : /\ r = DecodeReg(s, s.reg, "R") /\ o = ParseModrm(s)
                         /\ bytes = X86Bytes(s)
  OBVIOUS
<1>4. PICK k : k = Emitted(d)
  OBVIOUS
<1>5. /\ d.kind = "CmpRegReg" /\ d.width = 8
      /\ s.op = "39" => d.dst = o /\ d.src.reg = r /\ ~d.src.is_mem
      /\ s.op = "3B" => d.src = o /\ d.dst.reg = r /\ ~d.dst.is_mem
  <2>1. Kind(s) = "CmpRegReg" /\ WidthOf(s) = 8
    BY DEF Kind, Branch, WidthOf
  <2>2. s.op = "39" => s.op \in ToRm
    BY DEF ToRm
  <2>3. s.op = "3B" => s.op \in ToReg
    BY DEF ToReg
  <2> QED BY <1>2, <1>3, <2>1, <2>2, <2>3, DecodedIs
<1>6. bytes = (IF "W" \in s.rex THEN 8 ELSE 4)
  BY <1>3 DEF X86Bytes, Branch
<1>7. PICK m : m = X86Rm(s, bytes)
  OBVIOUS
<1>8. X86Effect(s) = IF s.op = "39" THEN Effect("cmp", m, InReg(r), bytes, "none")
                     ELSE Effect("cmp", InReg(r), m, bytes, "none")
  <2>1. X86Op(s) = "cmp"
    BY DEF X86Op, Branch
  <2>2. X86Reg(s, s.reg, "R", bytes) = InReg(r)
    BY <1>3, <1>6, X86RegIs
  <2> QED BY <1>3, <1>7, <2>1, <2>2 DEF X86Effect, ToRm, Group, Branch
<1>9. Faithful(s) <=> bytes = 8 /\ AddressKept(s)
  BY <1>6 DEF Faithful, OperationKept, SizeKept, RegistersKept, PlaceKept, Branch,
         InOpcode, HasModrm, Opcode, Group, RexOnly, RexWOnly
<1>10. o.is_mem <=> s.mod # 3
  BY <1>3, RmIsMem
<1>11. PICK p : p = IF o.is_mem THEN InMem(At(Plus(NoRegs, o.base, 1))) ELSE InReg(o.reg)
  OBVIOUS
<1>12. p = m <=> AddressKept(s)
  <2>1. bytes # 1
    BY <1>6
  <2> QED BY <1>3, <1>7, <1>10, <1>11, <2>1, ComparedRm
<1>13. CASE s.op = "39"
  <2>1. /\ k.op = "CmpReg" /\ k.width = 8 /\ k.src = r
        /\ k.dst = (IF o.is_mem THEN o.base ELSE o.reg)
        /\ k.aux = (IF o.is_mem THEN {3} ELSE {})
    BY <1>4, <1>5, <1>13 DEF Emitted, EmitCompare, Make
  <2>2. Lhs(k) = p
    BY <1>11, <2>1 DEF Lhs, Based
  <2>3. Rhs(k) = InReg(r)
    <3>1. k.aux # {0, 1, 2}
      BY <2>1
    <3> QED BY <2>1, <3>1 DEF Rhs
  <2>4. Outcome(s) = Effect("cmp", p, InReg(r), 8, "none")
    BY <1>2, <1>4, <2>1, <2>2, <2>3 DEF Outcome, Executed
  <2>5. Outcome(s) = X86Effect(s) <=> p = m /\ bytes = 8
    BY <1>8, <1>13, <2>4, EffectEq
  <2> QED BY <1>9, <1>12, <2>5 DEF Agrees
<1>14. CASE s.op = "3B"
  <2>1. /\ k.op = "CmpReg" /\ k.width = 8 /\ k.dst = r
        /\ k.src = (IF o.is_mem THEN o.base ELSE o.reg)
        /\ k.aux = (IF o.is_mem THEN {0, 1, 2} ELSE {})
    BY <1>4, <1>5, <1>14 DEF Emitted, EmitCompare, Make
  <2>2. Lhs(k) = InReg(r)
    <3>1. k.aux # {3}
      BY <2>1
    <3> QED BY <2>1, <3>1 DEF Lhs
  <2>3. Rhs(k) = p
    <3>1. k.aux = {0, 1, 2} <=> o.is_mem
      BY <2>1
    <3> QED BY <1>11, <2>1, <3>1 DEF Rhs, Based
  <2>4. Outcome(s) = Effect("cmp", InReg(r), p, 8, "none")
    BY <1>2, <1>4, <2>1, <2>2, <2>3 DEF Outcome, Executed
  <2>5. Outcome(s) = X86Effect(s) <=> p = m /\ bytes = 8
    BY <1>8, <1>14, <2>4, EffectEq
  <2> QED BY <1>9, <1>12, <2>5 DEF Agrees
<1> QED BY <1>13, <1>14

\* TEST.
LEMMA AgreesTest ==
  ASSUME NEW s, EncodingOk(s), ~Undecodable(s), s.op \in {"84", "85"}
  PROVE  Agrees(s)
<1>2. PICK d : d = Decoded(s)
  OBVIOUS
<1>3. PICK r, o, w, bytes : /\ r = DecodeReg(s, s.reg, "R") /\ o = ParseModrm(s)
                            /\ w = WidthOf(s) /\ bytes = X86Bytes(s)
  OBVIOUS
<1>4. PICK k : k = Emitted(d)
  OBVIOUS
<1>5. d.kind = "TestRegReg" /\ d.width = w /\ d.dst = o /\ d.src.reg = r /\ ~d.src.is_mem
  <2>1. Kind(s) = "TestRegReg"
    BY DEF Kind, Branch
  <2>2. s.op \in ToRm
    BY DEF ToRm
  <2> QED BY <1>2, <1>3, <2>1, <2>2, DecodedIs
<1>6. /\ s.op = "84" => w = 1 /\ bytes = 1
      /\ s.op = "85" => w = 8 /\ bytes = (IF "W" \in s.rex THEN 8 ELSE 4)
  BY <1>3 DEF X86Bytes, Branch, WidthOf
<1>7. PICK m, from : m = X86Rm(s, bytes) /\ from = X86Reg(s, s.reg, "R", bytes)
  OBVIOUS
<1>8. X86Effect(s) = Effect("test", m, from, bytes, "none")
  <2>1. X86Op(s) = "test"
    BY DEF X86Op, Branch
  <2> QED BY <1>3, <1>7, <2>1 DEF X86Effect, ToRm, Group, Branch
<1>9. from = InReg(r) <=> bytes # 1 \/ s.prefix \/ s.reg < 4
  BY <1>3, <1>7, X86RegIs
<1>10. Faithful(s) <=> /\ s.op = "85" => "W" \in s.rex
                       /\ s.op = "84" => s.prefix \/ s.reg < 4
                       /\ s.op = "84" /\ s.mod = 3 => s.prefix \/ s.rm < 4
                       /\ AddressKept(s)
  BY DEF Faithful, OperationKept, SizeKept, RegistersKept, PlaceKept, Branch,
         InOpcode, HasModrm, Opcode, ToRm, RexOnly, RexWOnly
<1>11. o.is_mem <=> s.mod # 3
  BY <1>3, RmIsMem
<1>12. PICK p : p = IF o.is_mem THEN InMem(At(Plus(NoRegs, o.base, 1))) ELSE InReg(o.reg)
  OBVIOUS
<1>13. p = m <=> AddressKept(s) /\ (s.mod = 3 => bytes # 1 \/ s.prefix \/ s.rm < 4)
  BY <1>3, <1>7, <1>11, <1>12, ComparedRm
<1>14. /\ k.op = "TestReg" /\ k.width = w /\ k.src = r
       /\ k.dst = (IF o.is_mem THEN o.base ELSE o.reg)
       /\ k.aux = (IF o.is_mem THEN {0, 1, 2} ELSE {})
  BY <1>4, <1>5 DEF Emitted, EmitCompare, Make
<1>15. Lhs(k) = p /\ Rhs(k) = InReg(r)
  BY <1>12, <1>14 DEF Lhs, Rhs, Based
<1>16. Outcome(s) = Effect("test", p, InReg(r), w, "none")
  BY <1>2, <1>4, <1>14, <1>15 DEF Outcome, Executed
<1>17. Outcome(s) = X86Effect(s) <=> p = m /\ from = InReg(r) /\ w = bytes
  BY <1>8, <1>16, EffectEq
<1> QED BY <1>6, <1>9, <1>10, <1>13, <1>17 DEF Agrees

\* Whatever bytes decode_one, emit_x86 and exec_ir are given, what they do is what
\* a processor does exactly if the bytes are Faithful: one lemma for each group of
\* opcodes, and undecodable bytes are not Faithful.
LEMMA X86Agrees ==
  ASSUME NEW s, EncodingOk(s)
  PROVE  Agrees(s)
<1>1. CASE Undecodable(s)
  BY <1>1, AgreesUndecodable
<1>2. CASE ~Undecodable(s)
  <2>2. CASE s.op \in RexWOnly
    BY <1>2, <2>2, AgreesRax
  <2>3. CASE s.op \in Branch
    BY <2>3, AgreesJump, AgreesCall
  <2>4. CASE s.op \in InOpcode
    BY <2>4, AgreesB8, AgreesStack DEF InOpcode
  <2>5. CASE s.op \in Group
    BY <1>2, <2>5, AgreesGroup, Agrees81, AgreesCmpImm, AgreesMovImm, AgreesShift DEF Group
  <2>6. CASE s.op \in ToRm
    BY <1>2, <2>6, AgreesStore, AgreesToRm, AgreesCmp, AgreesTest DEF ToRm
  <2>7. CASE s.op \in ToReg
    BY <1>2, <2>7, AgreesLoad, AgreesExtend, AgreesFromRm, AgreesCmp, AgreesLea, AgreesImul DEF ToReg
  <2>8. s.op \in RexWOnly \union Group \union ToRm \union ToReg \union Branch \union InOpcode
    BY DEF EncodingOk, Opcode, RexOnly, ToRm, ToReg
  <2> QED BY <2>2, <2>3, <2>4, <2>5, <2>6, <2>7, <2>8
<1> QED BY <1>1, <1>2

-----------------------------------------------------------------------------

\* Every step has what the one before it made of the bytes.
Carried ==
  /\ EncodingOk(shape)
  /\ step \in {"decode", "undecodable", "emit", "execute", "done"}
  /\ step # "decode" => (step = "undecodable" <=> Undecodable(shape))
  /\ step \in {"emit", "execute", "done"} => insn = Decoded(shape)
  /\ step \in {"execute", "done"} => ir = Emitted(insn)
  /\ effect = IF step = "done" THEN Executed(ir) ELSE Undone

\* An instruction begins as bytes that can be encoded.
LEMMA CarriedInit == Init => Carried
<1> SUFFICES ASSUME Init PROVE EncodingOk(shape) /\ step = "decode" /\ effect = Undone
  BY DEF Carried
<1>1. PICK o \in Opcode, f \in Forms, r \in 0 .. 7,
           x \in SUBSET {"W", "R", "X", "B"}, p \in BOOLEAN :
        /\ Encodable(o, f, r) /\ (p \/ x = {})
        /\ shape = [op |-> o, prefix |-> p, rex |-> x, mod |-> f.mod, reg |-> r,
                    rm |-> f.rm, scale |-> f.scale, index |-> f.index,
                    base |-> f.base]
  BY DEF Init
<1>2. f \in RmForm
  BY OperandsAssumption
<1>3. /\ f.mod \in 0 .. 3 /\ f.rm \in 0 .. 7 /\ f.scale \in 0 .. 3
      /\ f.index \in 0 .. 7 /\ f.base \in 0 .. 7
  BY <1>2 DEF RmForm
<1>4. (o = "8D" => f.mod # 3) /\ (o \in {"C6", "C7"} => r = 0)
  BY <1>1 DEF Encodable, Group
<1> QED BY <1>1, <1>3, <1>4 DEF EncodingOk, Init

\* decode_one, emit_x86 and exec_ir take what they are given and leave it alone.
LEMMA CarriedStep == Carried /\ [Next]_vars => Carried'
<1> SUFFICES ASSUME Carried, [Next]_vars PROVE Carried'
  OBVIOUS
<1>1. CASE DecodeOne
  BY <1>1 DEF DecodeOne, Carried
<1>2. CASE EmitX86
  BY <1>2 DEF EmitX86, Carried
<1>3. CASE ExecIr
  BY <1>3 DEF ExecIr, Carried
<1>4. CASE Finished \/ UNCHANGED vars
  BY <1>4 DEF Finished, vars, Carried
<1> QED BY <1>1, <1>2, <1>3, <1>4 DEF Next

\* Instructions of every form: the sweep goes on at the next one.
THEOREM LengthsRight == Spec => []LengthsAgree
<1>1. Carried => LengthsAgree
  BY DecodedLength DEF Carried, LengthsAgree
<1> QED BY <1>1, CarriedInit, CarriedStep, PTL DEF Spec

\* Instructions of every form do what a processor does exactly if their operands
\* survive the aux byte, the imm field and the widths they share.
THEOREM OperandsRight == Spec => []ExecutedAsWritten
<1>1. ASSUME Carried PROVE ExecutedAsWritten
  <2>1. step \in {"undecodable", "done"} => effect = Outcome(shape)
    BY <1>1 DEF Carried, Outcome
  <2>2. Agrees(shape)
    BY <1>1, X86Agrees DEF Carried
  <2> QED BY <2>1, <2>2 DEF ExecutedAsWritten, Agrees
<1> QED BY <1>1, CarriedInit, CarriedStep, PTL DEF Spec
=============================================================================
