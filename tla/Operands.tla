------------------------------ MODULE Operands ------------------------------
(***************************************************************************)
(* What becomes of the operands of one x86 instruction: decode_one of      *)
(* src/x86/decode.cpp and decode_extended.cpp makes an Instruction of its  *)
(* bytes, emit_x86 of src/translator.cpp an IR instruction of that, and    *)
(* exec_ir of cuda/ir_interpreter.cuh does what the IR says.               *)
(*                                                                         *)
(* The bytes are given by their fields (Shape).  aux is the set of its     *)
(* bits.  The values of displacements and literals are left out: every     *)
(* address has its displacement added.  So are the flags and the condition *)
(* of a jump (Flags has them), and instructions without operands.          *)
(***************************************************************************)
EXTENDS Integers, Sequences

CONSTANTS
  Forms,     \* the r/m operands that may occur
  RegFields  \* the reg fields of instructions that have a register there

Reg == 0 .. 15
RSP == 4

\* Opcodes that need a REX prefix, that need REX.W, and whose reg field says
\* what they do.
RexOnly == {"09", "21", "29", "31", "33", "03", "2B", "39", "3B", "85"}
RexWOnly == {"05", "3D", "98"}
Group == {"83", "81", "C7", "C6", "C1", "D1", "FF"}
ToRm  == {"89", "88", "01", "09", "21", "29", "31", "39", "84", "85"}
ToReg == {"8B", "8A", "03", "2B", "33", "3B", "8D", "0FB6", "0FBE", "0FAF", "63"}
Branch == {"EB", "E9", "E8", "7x", "0F8x"}
\* What decode_0f decodes.
TwoByte == {"0FB6", "0FBE", "0FAF", "0F8x"}
InOpcode == {"B8", "50", "58"}
Opcode == RexOnly \union RexWOnly \union Group \union ToRm \union ToReg
            \union Branch \union InOpcode
HasModrm == Opcode \ (RexWOnly \union Branch \union InOpcode)

\* An r/m operand: the fields of the ModRM and SIB bytes but for reg.
RmForm == [mod : 0 .. 3, rm : 0 .. 7, scale : 0 .. 3, index : 0 .. 7, base : 0 .. 7]

ASSUME OperandsAssumption == Forms \subseteq RmForm /\ RegFields \subseteq 0 .. 7

\* The encodings there are: reg is 0 in C6 and C7, LEA has an address.  rm is
\* also the register in the low bits of an opcode without a ModRM byte.
Encodable(o, f, r) ==
  /\ IF o \in Group THEN o \in {"C6", "C7"} => r = 0
     ELSE IF o \in HasModrm THEN r \in RegFields ELSE r = 0 /\ f.mod = 3
  /\ o = "8D" => f.mod # 3

VARIABLES
  shape,   \* the instruction's bytes
  step,    \* how far it has come
  insn,    \* the Instruction
  ir,      \* the ir::Instr
  effect   \* what exec_ir does

vars == <<shape, step, insn, ir, effect>>

-----------------------------------------------------------------------------
(* Decoding.                                                               *)

\* What an imm field may hold besides a number: the literal in the instruction,
\* or an address counted from the next instruction or from a byte before it.
Lit == -1
NextPc == -2
ShortPc == -3

\* decode_reg: a REX bit adds 8.  Byte registers are numbered like the others.
DecodeReg(s, code, bit) == code + (IF bit \in s.rex THEN 8 ELSE 0)

NoOperand == [is_mem |-> FALSE, rip_rel |-> FALSE, has_sib |-> FALSE,
              abs_sib |-> FALSE, reg |-> 0, scale |-> 0, index |-> 0,
              base |-> 0]

\* parse_sib: REX.X is looked for in the wrong bit, and never found.  scale is
\* the exponent.
ParseSib(s) ==
  [NoOperand EXCEPT
     !.is_mem = TRUE, !.has_sib = TRUE, !.scale = s.scale, !.index = s.index,
     !.base = DecodeReg(s, s.base, "B"), !.abs_sib = s.base = 5 /\ s.mod = 0]

\* parse_modrm for the r/m operand.
ParseModrm(s) ==
  LET base == DecodeReg(s, s.rm, "B") IN
  IF s.mod = 3 THEN [NoOperand EXCEPT !.base = base, !.reg = base]
  ELSE IF s.rm = 4 THEN ParseSib(s)
  ELSE [NoOperand EXCEPT !.is_mem = TRUE, !.base = base,
                         !.rip_rel = s.rm = 5 /\ s.mod = 0]

\* Mutant of SibDisp: the displacement is read whatever mod says.
SibDispAlways(s) == IF s.base = 5 THEN 4 ELSE 0

\* The bytes of displacement parse_sib and parse_modrm read.
SibDisp(s) == IF s.base = 5 /\ s.mod = 0 THEN 4 ELSE 0
ModrmSize(s) ==
  CASE s.mod = 3               -> 1
    [] s.rm = 4 /\ s.mod = 0   -> 2 + SibDisp(s)
    [] s.rm = 4 /\ s.mod \in {1, 2} -> 2 + SibDisp(s) + (IF s.mod = 1 THEN 1 ELSE 4)
    [] s.rm = 5 /\ s.mod = 0   -> 5
    [] s.rm \notin {4, 5} /\ s.mod = 0 -> 1
    [] s.rm # 4 /\ s.mod \in {1, 2}    -> IF s.mod = 1 THEN 2 ELSE 5

\* The literal or branch offset read after them.
ImmSize(s) ==
  CASE s.op \in {"83", "C6", "C1", "EB", "7x"}              -> 1
    [] s.op \in {"81", "C7", "05", "3D", "E9", "E8", "0F8x"} -> 4
    [] s.op = "B8" -> IF "W" \in s.rex THEN 8 ELSE 4
    [] OTHER       -> 0

Ops == <<"add", "sub", "and", "or", "xor">>
GroupOp(s) == <<"add", "or", "add", "sub", "and", "sub", "xor", "add">>[s.reg + 1]

\* The kind and the width of an Instruction; decode_one has width Q for what
\* has a REX prefix, and for many instructions that have none.
Kind(s) ==
  CASE s.op \in {"C7", "C6", "B8"}        -> "MovImm"
    [] s.op = "98"                        -> "MovRegReg"
    [] s.op \in {"8B", "8A", "0FB6", "0FBE", "63"} -> "MovRegMem"
    [] s.op \in {"89", "88"}              -> "MovMemReg"
    [] s.op \in {"33", "03", "2B"}        -> "BinOpRegReg"
    [] s.op \in {"01", "29", "31", "21", "09"} -> "BinOpMemReg"
    [] s.op \in {"39", "3B"}              -> "CmpRegReg"
    [] s.op \in {"85", "84"}              -> "TestRegReg"
    [] s.op = "3D" \/ (s.op \in {"83", "81"} /\ s.reg = 7) -> "CmpRegImm"
    [] s.op = "05" \/ (s.op = "81" /\ s.reg # 7)           -> "BinOpRegImm"
    [] s.op = "FF" \/ (s.op = "83" /\ s.reg # 7) ->
         IF s.mod = 3 THEN "BinOpRegImm" ELSE "BinOpMemImm"
    [] s.op \in {"C1", "D1"} -> "ShiftRegImm"
    [] s.op = "0FAF" -> "ImulRegMem"
    [] s.op = "8D"   -> "Lea"
    [] s.op = "50"   -> "Push"
    [] s.op = "58"   -> "Pop"
    [] s.op \in {"EB", "E9"}   -> "Jmp"
    [] s.op \in {"7x", "0F8x"} -> "Jcc"
    [] s.op = "E8"             -> "Call"

WidthOf(s) ==
  CASE s.op \in {"88", "8A", "84", "C6"}  -> 1
    [] s.op = "81"                        -> 4
    [] s.op \in {"89", "8B", "01"}        -> IF s.prefix THEN 8 ELSE 4
    [] s.op \in {"B8", "0FB6", "0FBE", "0FAF"} -> IF "W" \in s.rex THEN 8 ELSE 4
    [] OTHER                              -> 8

BinOpOf(s) ==
  CASE s.op \in {"83", "81"}            -> GroupOp(s)
    [] s.op = "FF"                      -> IF s.reg = 0 THEN "add" ELSE "sub"
    [] s.op \in {"C1", "D1"}            -> IF s.reg = 4 THEN "shl"
                                           ELSE IF s.reg = 5 THEN "shr" ELSE "sar"
    [] s.op \in {"29", "2B"}            -> "sub"
    [] s.op = "21"                      -> "and"
    [] s.op = "09"                      -> "or"
    [] s.op \in {"31", "33"}            -> "xor"
    [] OTHER                            -> "add"

\* decode_one fails.
Undecodable(s) ==
  \/ s.op \in RexOnly /\ ~s.prefix
  \/ s.op \in RexWOnly /\ "W" \notin s.rex
  \/ s.op = "FF" /\ s.reg > 1
  \/ s.op \in {"C1", "D1"} /\ (s.reg \notin {4, 5, 7} \/ s.mod # 3)

\* The register in the low bits of an opcode is extended by REX.R.
Decoded(s) ==
  LET rm  == ParseModrm(s)
      reg == [NoOperand EXCEPT !.reg = DecodeReg(s, s.reg, "R")]
      low == [NoOperand EXCEPT !.reg = DecodeReg(s, s.rm, "R")]
  IN  [kind |-> Kind(s), binop |-> BinOpOf(s), width |-> WidthOf(s),
       dst |-> CASE s.op \in ToRm \union Group -> rm
                 [] s.op \in ToReg             -> reg
                 [] s.op \in InOpcode          -> low
                 [] OTHER                      -> NoOperand,
       src |-> CASE s.op \in ToRm     -> reg
                 [] s.op \in ToReg    -> rm
                 [] s.op \in InOpcode -> low
                 [] OTHER             -> NoOperand,
       imm  |-> IF s.op \in {"FF", "D1"} THEN 1 ELSE Lit,
       zext |-> s.op = "0FB6",
       sext |-> s.op \in {"0FBE", "63", "98"},
       skew |-> s.op \in Branch /\ s.prefix,
       size |-> (IF s.prefix THEN 1 ELSE 0)
                  + (IF s.op \in TwoByte THEN 2 ELSE 1)
                  + (IF s.op \in HasModrm THEN ModrmSize(s) ELSE 0)
                  + ImmSize(s)]

-----------------------------------------------------------------------------
(* Translation.                                                            *)

\* The bits of the numbers there are: of an operation, or of a scale.
Bits(n) == <<{}, {0}, {1}, {0, 1}, {2}>>[n + 1]
OpBits(o) == Bits(CHOOSE n \in 0 .. 4 : Ops[n + 1] = o)
OpNumber(o) == CHOOSE n \in 0 .. 4 : Ops[n + 1] = o
ScaleBits(o) == {b + 4 : b \in Bits(o.scale)}

Make(opcode, width) ==
  [op |-> opcode, width |-> width, dst |-> 0, src |-> 0, aux |-> {},
   imm |-> Lit]

kMemImmStore == 4

\* encode_mem_addr.  With a SIB byte the flags are dropped but for
\* kMemImmStore, which is also the low bit of the scale.
EncodeMemAddr(i, o, flags) ==
  LET imm == kMemImmStore \in flags IN
  [i EXCEPT
     !.dst = o.base,
     !.aux = (IF o.has_sib
              THEN {1, 2} \union ScaleBits(o) \union (flags \intersect {kMemImmStore})
              ELSE flags \union (IF o.rip_rel THEN {0} ELSE {}))
             \union (IF o.abs_sib THEN {6} ELSE {}),
     !.src = IF o.has_sib /\ imm THEN o.index ELSE @,
     !.imm = IF o.has_sib /\ ~imm THEN o.index ELSE @]

\* The address of a memory operand that is read only.
EncodeSource(i, o, mark) ==
  [i EXCEPT
     !.src = o.base,
     !.aux = mark \union (IF o.has_sib THEN {1, 2} \union ScaleBits(o)
                         ELSE IF o.rip_rel THEN {0} ELSE {})
                  \union (IF o.abs_sib THEN {6} ELSE {}),
     !.imm = IF o.has_sib THEN o.index ELSE @]

\* Mutant of EmitLoad: a byte is loaded with the width of the register.
EmitLoadWide(d) ==
  LET i == EncodeSource([Make("LoadMem", d.width) EXCEPT !.dst = d.dst.reg],
                        d.src, {})
  IN  IF d.zext /\ ~d.src.has_sib THEN [i EXCEPT !.aux = {}]
      ELSE IF d.sext THEN [i EXCEPT !.aux = {0, 2}, !.width = 4]
      ELSE i

\* MovRegMem: a sign-extending load forgets its SIB byte, a zero-extending one
\* that it is relative to rip; a register operand is taken for an address.
EmitLoad(d) ==
  LET i == EncodeSource([Make("LoadMem", d.width) EXCEPT !.dst = d.dst.reg],
                        d.src, {})
  IN  IF d.zext THEN [i EXCEPT !.aux = IF d.src.has_sib THEN @ ELSE {2},
                               !.width = 1]
      ELSE IF d.sext THEN [i EXCEPT !.aux = {0, 2}, !.width = 4]
      ELSE i

\* CmpRegImm, CmpRegReg and TestRegReg: only the base of an address is kept.
EmitCompare(d) ==
  LET lhs == IF d.dst.is_mem THEN d.dst.base ELSE d.dst.reg
      rhs == IF d.src.is_mem THEN d.src.base ELSE d.src.reg
      i == [Make("CmpReg", d.width) EXCEPT !.dst = lhs, !.src = rhs]
  IN  CASE d.kind = "CmpRegReg" ->
             [i EXCEPT !.aux = IF d.src.is_mem THEN {0, 1, 2}
                               ELSE IF d.dst.is_mem THEN {3} ELSE {}]
        [] d.kind = "CmpRegImm" ->
             [i EXCEPT !.op = "CmpImm", !.src = 0,
                       !.aux = IF d.dst.is_mem THEN {0, 1, 2} ELSE {}]
        [] d.kind = "TestRegReg" ->
             [i EXCEPT !.op = "TestReg",
                       !.aux = IF d.dst.is_mem THEN {0, 1, 2} ELSE {}]

\* emit_x86.
Emitted(d) ==
  LET To(opcode)   == [Make(opcode, d.width) EXCEPT !.dst = d.dst.reg,
                                                    !.imm = d.imm]
      Both(opcode) == [To(opcode) EXCEPT !.src = d.src.reg]
  IN
  CASE d.kind = "MovImm" ->
         IF d.dst.is_mem
         THEN EncodeMemAddr(Make("StoreMem", d.width), d.dst, {kMemImmStore})
         ELSE To("LoadImm")
    [] d.kind = "MovRegReg" -> [Both("MovReg") EXCEPT !.aux = {0, 2}]
    [] d.kind = "MovRegMem" -> EmitLoad(d)
    [] d.kind = "MovMemReg" ->
         IF d.dst.is_mem
         THEN EncodeMemAddr([Make("StoreMem", d.width) EXCEPT !.src = d.src.reg],
                            d.dst, {})
         ELSE Both("MovReg")
    [] d.kind = "BinOpRegReg" -> [Both("BinOpReg") EXCEPT !.aux = OpBits(d.binop)]
    [] d.kind = "BinOpRegImm" -> [To("BinOpImm") EXCEPT !.aux = OpBits(d.binop)]
    [] d.kind = "BinOpMemImm" ->
         EncodeMemAddr([Make("BinOpMemImm", d.width) EXCEPT
                          !.src = OpNumber(d.binop), !.imm = d.imm], d.dst, {})
    [] d.kind = "BinOpMemReg" ->
         IF d.dst.is_mem
         THEN EncodeMemAddr([Make("BinOpMem", d.width) EXCEPT !.src = d.src.reg],
                            d.dst, OpBits(d.binop))
         ELSE [Both("BinOpReg") EXCEPT !.aux = OpBits(d.binop)]
    [] d.kind \in {"CmpRegImm", "CmpRegReg", "TestRegReg"} -> EmitCompare(d)
    [] d.kind = "Lea" ->
         IF d.src.rip_rel THEN [To("Lea") EXCEPT !.imm = NextPc, !.aux = {0, 1}]
         ELSE EncodeSource(To("Lea"), d.src, {})
    [] d.kind = "ImulRegMem" ->
         IF d.src.is_mem THEN EncodeSource(To("ImulReg"), d.src, {7})
         ELSE Both("ImulReg")
    [] d.kind = "ShiftRegImm" ->
         [To("ShiftRegImm") EXCEPT !.aux = CASE d.binop = "shl" -> {}
                                             [] d.binop = "shr" -> {0}
                                             [] d.binop = "sar" -> {1}]
    [] d.kind = "Push" -> [Make("Push", 8) EXCEPT !.src = d.src.reg]
    [] d.kind = "Pop"  -> To("Pop")
    [] d.kind \in {"Jmp", "Jcc", "Call"} ->
         [Make(d.kind, 8) EXCEPT !.imm = IF d.skew THEN ShortPc ELSE NextPc]

-----------------------------------------------------------------------------
(* Execution.                                                              *)

\* What an instruction reads or writes: a register, bits 8 to 15 of one, a word
\* in memory, the literal, a number that is none of these, or an address
\* itself.  regs says how often each register counts in the address, rip what
\* it is relative to.
NoRegs == [r \in Reg |-> 0]
Place(kind, reg, regs, rip) ==
  [kind |-> kind, reg |-> reg, regs |-> regs, rip |-> rip]
InReg(r)  == Place("reg", r, NoRegs, "none")
InMem(a)  == Place("mem", 0, a.regs, a.rip)
Itself(a) == Place("address", 0, a.regs, a.rip)
Literal   == Place("literal", 0, NoRegs, "none")
Nowhere   == Place("nowhere", 0, NoRegs, "none")
\* RSP as PUSH and POP leave it.
MovedRsp  == Place("moved rsp", 0, NoRegs, "none")
\* Where a call returns to: the index of an IR instruction, or an address.
ReturnIndex == Place("index", 0, NoRegs, "next")
ReturnPc    == Place("pc", 0, NoRegs, "next")

At(regs) == [regs |-> regs, rip |-> "none"]
Rip(from) == [regs |-> NoRegs, rip |-> from]
Plus(regs, r, n) == [regs EXCEPT ![r] = @ + n]

\* to is changed to op applied to it and from, as numbers of so many bytes; fill
\* is how the rest of a register is filled.  A call changes the top of the stack
\* to to, and goes on at from.
Effect(op, to, from, bytes, fill) ==
  [op |-> op, to |-> to, from |-> from, bytes |-> bytes, fill |-> fill]
Undone == Effect("none", Nowhere, Nowhere, 0, "none")

HasSib(i) == i.aux \intersect 0 .. 3 = {1, 2}
Based(i, r) == At(Plus(NoRegs, r, 1))

\* eff_addr.
EffAddr(i, base) ==
  LET scale == (IF 4 \in i.aux THEN 2 ELSE 1) * (IF 5 \in i.aux THEN 4 ELSE 1)
      regs  == Plus(NoRegs, IF 4 \in i.aux THEN i.src ELSE i.imm, scale)
  IN  IF ~HasSib(i) THEN Based(i, base)
      ELSE IF 6 \in i.aux THEN At(regs) ELSE At(Plus(regs, base, 1))

\* The value in the imm field.
Number(n) == Place("number", n, NoRegs, "none")
ImmOf(i)  == IF i.imm = Lit THEN Literal ELSE Number(i.imm)

\* What binop_val does for the subop in these bits.
OpIn(bits) ==
  IF \E o \in {Ops[n] : n \in 1 .. 5} : OpBits(o) = bits
  THEN CHOOSE o \in {Ops[n] : n \in 1 .. 5} : OpBits(o) = bits
  ELSE "zero"

\* BinOpMem: with a SIB byte the subop is read from where the scale is.
MemOp(i) ==
  OpIn(IF HasSib(i) THEN {b - 4 : b \in i.aux \intersect 4 .. 6}
                    ELSE i.aux \intersect 0 .. 3)

\* LoadMem and StoreMem relative to rip take cpu.rip, where the vCPU started.
LoadAddr(i)  == IF i.aux = {0} THEN Rip("start") ELSE EffAddr(i, i.src)
StoreAddr(i) == IF i.aux = {0} THEN Rip("start") ELSE EffAddr(i, i.dst)

\* The operands of CmpReg, CmpImm and TestReg.
Lhs(i) == IF i.aux = (IF i.op = "CmpReg" THEN {3} ELSE {0, 1, 2})
          THEN InMem(Based(i, i.dst)) ELSE InReg(i.dst)
Rhs(i) == CASE i.op = "CmpImm" -> ImmOf(i)
            [] i.op = "CmpReg" /\ i.aux = {0, 1, 2} -> InMem(Based(i, i.src))
            [] OTHER -> InReg(i.src)

\* exec_ir.  A register is written as a whole.
Executed(i) ==
  LET dst == InReg(i.dst)  src == InReg(i.src) IN
  CASE i.op = "LoadImm" -> Effect("mov", dst, Literal, i.width, "zero")
    [] i.op = "MovReg" ->
         IF i.aux = {0, 2} THEN Effect("mov", dst, src, 4, "sign to 8")
                           ELSE Effect("mov", dst, src, i.width, "zero")
    [] i.op = "LoadMem" ->
         Effect("mov", dst, InMem(LoadAddr(i)), i.width,
                IF i.aux = {0, 2} /\ i.width # 1 THEN "sign to 8" ELSE "zero")
    [] i.op = "StoreMem" ->
         Effect("mov", InMem(StoreAddr(i)),
                IF 4 \in i.aux THEN ImmOf(i) ELSE src, i.width, "none")
    [] i.op = "BinOpReg" -> Effect(OpIn(i.aux), dst, src, i.width, "zero")
    [] i.op = "BinOpImm" -> Effect(OpIn(i.aux), dst, ImmOf(i), i.width, "zero")
    [] i.op = "BinOpMem" ->
         Effect(MemOp(i), InMem(EffAddr(i, i.dst)), src, i.width, "none")
    [] i.op = "BinOpMemImm" ->
         Effect(Ops[i.src + 1], InMem(EffAddr(i, i.dst)), ImmOf(i), i.width, "none")
    [] i.op \in {"CmpReg", "CmpImm"} -> Effect("cmp", Lhs(i), Rhs(i), i.width, "none")
    [] i.op = "TestReg" -> Effect("test", Lhs(i), Rhs(i), i.width, "none")
    [] i.op = "Lea" ->
         Effect("mov", dst, Itself(IF i.aux = {0, 1} THEN Rip("next")
                                   ELSE EffAddr(i, i.src)), 8, "zero")
    [] i.op = "ImulReg" ->
         Effect("imul", dst, IF 7 \in i.aux THEN InMem(EffAddr(i, i.src)) ELSE src,
                i.width, "zero")
    [] i.op = "ShiftRegImm" ->
         Effect(CASE i.aux = {} -> "shl" [] i.aux = {0} -> "shr" [] i.aux = {1} -> "sar",
                dst, ImmOf(i), i.width, "zero")
    [] i.op = "Push" ->
         Effect("push", Nowhere, IF i.src = RSP THEN MovedRsp ELSE src, 8, "none")
    [] i.op = "Pop" ->
         Effect("pop", IF i.dst = RSP THEN MovedRsp ELSE dst, Nowhere, 8, "zero")
    [] i.op \in {"Jmp", "Jcc", "Call"} ->
         Effect(CASE i.op = "Jmp" -> "jmp" [] i.op = "Jcc" -> "jcc" [] i.op = "Call" -> "call",
                IF i.op = "Call" THEN ReturnIndex ELSE Nowhere,
                Itself(Rip(IF i.imm = NextPc THEN "next" ELSE "short")), 8, "none")

-----------------------------------------------------------------------------
Init ==
  /\ \E o \in Opcode, f \in Forms, r \in 0 .. 7, x \in SUBSET {"W", "R", "X", "B"},
        p \in BOOLEAN :
       /\ Encodable(o, f, r) /\ (p \/ x = {})
       /\ shape = [op |-> o, prefix |-> p, rex |-> x, mod |-> f.mod, reg |-> r,
                   rm |-> f.rm, scale |-> f.scale, index |-> f.index,
                   base |-> f.base]
  /\ step = "decode"
  /\ insn = <<>> /\ ir = <<>>
  /\ effect = Undone

DecodeOne ==
  /\ step = "decode"
  /\ IF Undecodable(shape) THEN step' = "undecodable" /\ UNCHANGED insn
     ELSE step' = "emit" /\ insn' = Decoded(shape)
  /\ UNCHANGED <<shape, ir, effect>>

EmitX86 ==
  /\ step = "emit"
  /\ ir' = Emitted(insn)
  /\ step' = "execute"
  /\ UNCHANGED <<shape, insn, effect>>

ExecIr ==
  /\ step = "execute"
  /\ effect' = Executed(ir)
  /\ step' = "done"
  /\ UNCHANGED <<shape, insn, ir>>

Finished == step \in {"undecodable", "done"} /\ UNCHANGED vars

Next == DecodeOne \/ EmitX86 \/ ExecIr \/ Finished

Spec == Init /\ [][Next]_vars

-----------------------------------------------------------------------------
(* What an x86-64 processor makes of the same bytes.                       *)

X86Bytes(s) ==
  IF s.op \in {"88", "8A", "84", "C6"} THEN 1
  ELSE IF s.op \in Branch \union {"50", "58"} \/ "W" \in s.rex THEN 8 ELSE 4

\* Without a prefix the byte registers 4 to 7 are AH, CH, DH and BH.
X86Reg(s, code, bit, bytes) ==
  IF bytes = 1 /\ ~s.prefix /\ code >= 4
  THEN Place("high", code - 4, NoRegs, "none")
  ELSE InReg(code + (IF bit \in s.rex THEN 8 ELSE 0))

\* Index 4 is none, base 5 under mod 0 a displacement alone.
NoIndex(s) == s.index = 4 /\ "X" \notin s.rex
NoBase(s)  == s.base = 5 /\ s.mod = 0
RipRel(s)  == s.mod = 0 /\ s.rm = 5
X86Addr(s) ==
  LET indexed == IF NoIndex(s) THEN NoRegs
                 ELSE Plus(NoRegs, s.index + (IF "X" \in s.rex THEN 8 ELSE 0),
                           <<1, 2, 4, 8>>[s.scale + 1])
      Ext(r) == r + (IF "B" \in s.rex THEN 8 ELSE 0)
  IN  IF RipRel(s) THEN Rip("next")
      ELSE IF s.rm # 4 THEN At(Plus(NoRegs, Ext(s.rm), 1))
      ELSE IF NoBase(s) THEN At(indexed) ELSE At(Plus(indexed, Ext(s.base), 1))

X86Rm(s, bytes) == IF s.mod = 3 THEN X86Reg(s, s.rm, "B", bytes)
                                ELSE InMem(X86Addr(s))

\* The rest of a register that is changed is cleared, but for bytes.
Filled(op, to, from, bytes) ==
  Effect(op, to, from, bytes,
         IF to.kind = "mem" THEN "none" ELSE IF bytes = 1 THEN "keep" ELSE "zero")

X86Op(s) ==
  CASE s.op \in {"83", "81"} ->
         <<"add", "or", "adc", "sbb", "and", "sub", "xor", "cmp">>[s.reg + 1]
    [] s.op \in {"C1", "D1"} ->
         <<"rol", "ror", "rcl", "rcr", "shl", "shr", "shl", "sar">>[s.reg + 1]
    [] s.op = "FF" -> IF s.reg > 1 THEN "other" ELSE <<"add", "sub">>[s.reg + 1]
    [] s.op \in {"01", "03", "05"}  -> "add"
    [] s.op \in {"29", "2B"}        -> "sub"
    [] s.op \in {"31", "33"}        -> "xor"
    [] s.op = "21"                  -> "and"
    [] s.op = "09"                  -> "or"
    [] s.op \in {"39", "3B", "3D"}  -> "cmp"
    [] s.op \in {"84", "85"}        -> "test"
    [] s.op = "0FAF"                -> "imul"
    [] s.op \in {"EB", "E9"}        -> "jmp"
    [] s.op \in {"7x", "0F8x"}      -> "jcc"
    [] s.op = "E8"                  -> "call"
    [] s.op = "50"                  -> "push"
    [] s.op = "58"                  -> "pop"
    [] OTHER                        -> "mov"

X86Effect(s) ==
  LET bytes == X86Bytes(s)
      op  == X86Op(s)
      reg == X86Reg(s, s.reg, "R", bytes)
      low == X86Reg(s, s.rm, "B", bytes)
      rm  == X86Rm(s, bytes)
      wide == "W" \in s.rex
  IN
  CASE op \in {"cmp", "test"} ->
         Effect(op, IF s.op = "3D" THEN InReg(0) ELSE IF s.op = "3B" THEN reg ELSE rm,
                IF s.op \in ToRm THEN reg ELSE IF s.op = "3B" THEN rm ELSE Literal,
                bytes, "none")
    [] s.op \in ToRm \ {"39", "84", "85"} -> Filled(op, rm, reg, bytes)
    [] s.op \in Group /\ op # "cmp" ->
         Filled(op, rm, IF s.op \in {"FF", "D1"} THEN Number(1) ELSE Literal, bytes)
    [] s.op \in {"8B", "8A", "03", "2B", "33", "0FAF"} -> Filled(op, reg, rm, bytes)
    [] s.op = "8D"   -> Filled("mov", reg, Itself(X86Addr(s)), bytes)
    [] s.op = "0FB6" -> Effect("mov", reg, X86Rm(s, 1), 1, "zero")
    [] s.op = "0FBE" -> Effect("mov", reg, X86Rm(s, 1), 1,
                               IF wide THEN "sign to 8" ELSE "sign to 4")
    [] s.op = "63"   -> Effect("mov", reg, rm, 4,
                               IF wide THEN "sign to 8" ELSE "zero")
    [] s.op = "98"   -> Effect("mov", InReg(0), InReg(0), bytes \div 2,
                               IF wide THEN "sign to 8" ELSE "sign to 4")
    [] s.op = "05"   -> Filled("add", InReg(0), Literal, bytes)
    [] s.op = "B8"   -> Filled("mov", low, Literal, bytes)
    [] s.op = "50"   -> Effect("push", Nowhere, low, 8, "none")
    [] s.op = "58"   -> Effect("pop", low, Nowhere, 8, "zero")
    [] s.op \in Branch ->
         Effect(op, IF op = "call" THEN ReturnPc ELSE Nowhere, Itself(Rip("next")),
                8, "none")

\* The length of an instruction: prefix, opcode, ModRM, SIB, displacement,
\* literal.
X86Length(s) ==
  LET Count(p) == IF p THEN 1 ELSE 0
      memory == s.op \in HasModrm /\ s.mod # 3
      sib    == memory /\ s.rm = 4
      disp32 == memory /\ (s.mod = 2 \/ RipRel(s) \/ (sib /\ NoBase(s)))
      imm8   == s.op \in {"83", "C6", "C1", "EB", "7x"}
      imm32  == \/ s.op \in {"81", "C7", "05", "3D", "E9", "E8", "0F8x"}
                \/ s.op = "B8" /\ "W" \notin s.rex
      imm64  == s.op = "B8" /\ "W" \in s.rex
  IN  Count(s.prefix) + 1 + Count(s.op \in {"0FB6", "0FBE", "0FAF", "0F8x"})
        + Count(s.op \in HasModrm) + Count(sib)
        + Count(memory /\ s.mod = 1) + 4 * Count(disp32)
        + Count(imm8) + 4 * Count(imm32) + 8 * Count(imm64)

-----------------------------------------------------------------------------
(* Properties.                                                             *)

\* The size of the operands is that of the instruction.
SizeKept(s) ==
  CASE s.op \in {"89", "8B", "01"} -> s.prefix => "W" \in s.rex
    [] s.op = "81"                 -> "W" \notin s.rex
    [] s.op \in RexOnly \union RexWOnly \union {"83", "C7", "C1", "D1", "FF", "8D", "63"}
                                   -> "W" \in s.rex
    [] OTHER                       -> TRUE

\* So are its registers: REX.R and REX.B are not mistaken for each other, RSP is
\* neither pushed nor popped, and no byte register is changed or one of AH to BH.
RegistersKept(s) ==
  /\ s.op \in InOpcode => ("R" \in s.rex <=> "B" \in s.rex)
  /\ s.op \in {"50", "58"} => s.rm # 4 \/ "B" \in s.rex
  /\ s.op \in {"88", "84"} => s.prefix \/ s.reg < 4
  /\ s.op = "84" /\ s.mod = 3 => s.prefix \/ s.rm < 4
  /\ s.op \notin {"8A", "0FBE"}
  /\ s.op \in {"88", "C6"} => s.mod # 3

\* So is what it does with them.  A call never is: guest memory gets an index into
\* the IR where the return address belongs.
OperationKept(s) ==
  /\ ~Undecodable(s)
  /\ s.op \in {"83", "81"} => s.reg \notin {2, 3}
  /\ s.op \in Branch => ~s.prefix
  /\ s.op # "E8"

\* Only multiplication takes a source that may be a register or memory.
PlaceKept(s) ==
  /\ s.op \in {"8B", "0FB6", "63"} => s.mod # 3
  /\ s.op \in {"33", "03", "2B"}   => s.mod = 3
  /\ s.op = "81" /\ s.reg # 7      => s.mod = 3

\* And the address of what it has in memory.  Relative to rip is right for LEA
\* alone.  Of a SIB byte comparisons and MOVSXD keep the base only.  The others
\* keep it all, but take the index that means none for RSP, and REX.X for
\* nothing; under an odd scale, which sets bit 4 of aux, they take the register
\* in src for the index.  A register is stored without bit 4, a literal with it.
\* For arithmetic the scale must happen to say the operation as well.
AddressKept(s) ==
  LET odd   == s.scale \in {1, 3}
      index == s.index + (IF "X" \in s.rex THEN 8 ELSE 0)
      IndexFrom(src) == index = IF odd THEN src ELSE s.index
      SibKept ==
        CASE s.op \in {"39", "3B", "84", "85", "63", "81"}
               \/ (s.op = "83" /\ s.reg = 7) ->
             IF NoBase(s) THEN s.scale = 0 /\ index = DecodeReg(s, s.base, "B")
                          ELSE NoIndex(s)
          [] s.op \in {"8B", "0FB6", "0FAF", "8D"} ->
             ~NoIndex(s) /\ IndexFrom(DecodeReg(s, s.base, "B"))
          [] s.op \in {"89", "88"} -> ~NoIndex(s) /\ ~odd /\ IndexFrom(0)
          [] s.op \in {"C7", "C6"} -> ~NoIndex(s) /\ odd /\ IndexFrom(s.index)
          [] s.op \in {"01", "09", "21", "29", "31"} ->
             /\ ~NoIndex(s) /\ IndexFrom(DecodeReg(s, s.reg, "R"))
             /\ s.scale + (IF NoBase(s) THEN 4 ELSE 0) = OpNumber(BinOpOf(s))
          [] s.op = "FF" -> s.index = 1 /\ IndexFrom(s.reg)
          [] OTHER -> FALSE
  IN  s.mod # 3 =>
        /\ RipRel(s) => s.op = "8D"
        /\ s.rm = 4 => SibKept

Faithful(s) ==
  /\ OperationKept(s) /\ SizeKept(s) /\ RegistersKept(s)
  /\ s.op \in HasModrm => PlaceKept(s) /\ AddressKept(s)

\* An instruction does what a processor does exactly if it is Faithful, that is,
\* if its operands survive the aux byte, the imm field and the widths they share
\* on their way through the IR.
ExecutedAsWritten ==
  step \in {"undecodable", "done"} => (effect = X86Effect(shape) <=> Faithful(shape))

\* An instruction that decodes has its length, so that the sweep goes on at the
\* next one, whatever its addressing form, its prefix and its literal are.
LengthsAgree == step \notin {"decode", "undecodable"} => insn.size = X86Length(shape)
=============================================================================
