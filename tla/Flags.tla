-------------------------------- MODULE Flags --------------------------------
(***************************************************************************)
(* The flags of one vCPU: what update_flags and TestReg of                 *)
(* cuda/ir_interpreter.cuh leave in CF, ZF, SF and OF, and what eval_cc    *)
(* makes of them for a conditional jump, whatever instructions that set no *)
(* flags come between.                                                     *)
(*                                                                         *)
(* Operands are numbers of w bits, Half = 2^(w-1): mask_width is applied   *)
(* to every operand and result before a flag is computed.  The bit         *)
(* expressions on sign bits are stated by what they decide.                *)
(***************************************************************************)
EXTENDS Integers

CONSTANT Half        \* sign: the sign bit of the operand width

ASSUME HalfAssumption == Half \in Nat \ {0}

Modulus == 2 * Half
Word == 0 .. Modulus - 1

VARIABLES
  cf, zf, sf, of,    \* the bits of cpu.rflags
  last,              \* history: the last instruction that set them
  seen               \* history: the signs of the results since one that is no test

vars == <<cf, zf, sf, of, last, seen>>

\* Arithmetic on w bits.
Plus(a, b)  == IF a + b < Modulus THEN a + b ELSE a + b - Modulus

\* Mutant of Minus: the difference is not taken modulo 2^w.
MinusNoBorrow(a, b) == a - b

Minus(a, b) == IF a >= b THEN a - b ELSE a - b + Modulus

Neg(x) == x >= Half                                     \* x & sign
Signed(x) == IF Neg(x) THEN x - Modulus ELSE x          \* what x stands for
Sign(x) == IF x = 0 THEN "zero" ELSE IF Neg(x) THEN "negative" ELSE "positive"

Init ==
  /\ seen = {}
  /\ cf = FALSE /\ zf = FALSE /\ sf = FALSE /\ of = FALSE
  /\ last = [op |-> "None", lhs |-> 0, rhs |-> 0, res |-> 0]

-----------------------------------------------------------------------------
\* Mutants of UpdateFlags: CF of a Sub as if lhs <= rhs borrowed; OF of an Add
\* tested as that of a Sub; ZF and SF not cleared first.
UpdateFlagsBorrow(res, lhs, rhs, op) ==
  /\ zf' = (res = 0)
  /\ sf' = Neg(res)
  /\ cf' = \/ op = "Sub" /\ lhs <= rhs
           \/ op = "Add" /\ res < lhs
  /\ of' = \/ op = "Sub" /\ Neg(lhs) # Neg(rhs) /\ Neg(lhs) # Neg(res)
           \/ op = "Add" /\ Neg(lhs) = Neg(rhs) /\ Neg(lhs) # Neg(res)

UpdateFlagsOneSign(res, lhs, rhs, op) ==
  /\ zf' = (res = 0)
  /\ sf' = Neg(res)
  /\ cf' = \/ op = "Sub" /\ lhs < rhs
           \/ op = "Add" /\ res < lhs
  /\ of' = (op \in {"Add", "Sub"} /\ Neg(lhs) # Neg(rhs) /\ Neg(lhs) # Neg(res))

UpdateFlagsUncleared(res, lhs, rhs, op) ==
  /\ zf' = (zf \/ res = 0)
  /\ sf' = (sf \/ Neg(res))
  /\ cf' = \/ op = "Sub" /\ lhs < rhs
           \/ op = "Add" /\ res < lhs
  /\ of' = \/ op = "Sub" /\ Neg(lhs) # Neg(rhs) /\ Neg(lhs) # Neg(res)
           \/ op = "Add" /\ Neg(lhs) = Neg(rhs) /\ Neg(lhs) # Neg(res)

UpdateFlags(res, lhs, rhs, op) ==
  /\ zf' = (res = 0)
  /\ sf' = Neg(res)
  /\ cf' = \/ op = "Sub" /\ lhs < rhs
           \/ op = "Add" /\ res < lhs
  /\ of' = \/ op = "Sub" /\ Neg(lhs) # Neg(rhs) /\ Neg(lhs) # Neg(res)
           \/ op = "Add" /\ Neg(lhs) = Neg(rhs) /\ Neg(lhs) # Neg(res)

BinOpVal(op, a, b) == IF op = "Add" THEN Plus(a, b) ELSE Minus(a, b)

\* BinOpReg, BinOpImm, BinOpMem and BinOpMemImm with Add or Sub, CmpReg and
\* CmpImm, the latter two a Sub that stores nothing.
Arith(op, lhs, rhs) ==
  LET res == BinOpVal(op, lhs, rhs) IN
  /\ UpdateFlags(res, lhs, rhs, op)
  /\ last' = [op |-> op, lhs |-> lhs, rhs |-> rhs, res |-> res]
  /\ seen' = {Sign(res)}

\* The same with And, Or or Xor, for which only the result counts.
Logic(res) ==
  /\ UpdateFlags(res, res, res, "Logic")
  /\ last' = [op |-> "Logic", lhs |-> res, rhs |-> res, res |-> res]
  /\ seen' = {Sign(res)}

\* TestReg clears CF and OF, but ZF and SF it only ever sets.
TestReg(res) ==
  /\ cf' = FALSE
  /\ of' = FALSE
  /\ zf' = (zf \/ res = 0)
  /\ sf' = (sf \/ Neg(res))
  /\ last' = [op |-> "Test", lhs |-> res, rhs |-> res, res |-> res]
  /\ seen' = seen \union {Sign(res)}

Next == \/ \E op \in {"Add", "Sub"}, lhs, rhs \in Word : Arith(op, lhs, rhs)
        \/ \E res \in Word : Logic(res) \/ TestReg(res)

Spec == Init /\ [][Next]_vars

-----------------------------------------------------------------------------
\* The sixteen conditions, in the order of their codes.  P and NP are
\* approximated by L and GE.
EvalCc(cc) ==
  \/ cc = "O"  /\ of
  \/ cc = "NO" /\ ~of
  \/ cc = "B"  /\ cf
  \/ cc = "AE" /\ ~cf
  \/ cc = "E"  /\ zf
  \/ cc = "NE" /\ ~zf
  \/ cc = "BE" /\ (cf \/ zf)
  \/ cc = "A"  /\ ~cf /\ ~zf
  \/ cc = "S"  /\ sf
  \/ cc = "NS" /\ ~sf
  \/ cc \in {"P", "L"}   /\ (sf # of)
  \/ cc \in {"NP", "GE"} /\ (sf = of)
  \/ cc = "LE" /\ (zf \/ sf # of)
  \/ cc = "G"  /\ ~zf /\ (sf = of)

-----------------------------------------------------------------------------
(* Properties.                                                             *)

\* Every variable keeps its type, and the result that of its operation.
TypeOK ==
  /\ cf \in BOOLEAN /\ zf \in BOOLEAN /\ sf \in BOOLEAN /\ of \in BOOLEAN
  /\ last \in [op : {"None", "Add", "Sub", "Logic", "Test"},
               lhs : Word, rhs : Word, res : Word]
  /\ seen \subseteq {"zero", "negative", "positive"}
  /\ last.op \in {"Add", "Sub"} =>
       last.res = BinOpVal(last.op, last.lhs, last.rhs)

\* A conditional jump after cmp or sub decides what its name says of the
\* operands: the unsigned conditions by CF, the signed ones by SF and OF.
CmpDecides ==
  last.op = "Sub" =>
    LET l == last.lhs
        r == last.rhs
    IN  /\ EvalCc("E")  <=> l = r
        /\ EvalCc("NE") <=> l # r
        /\ EvalCc("B")  <=> l < r
        /\ EvalCc("AE") <=> l >= r
        /\ EvalCc("BE") <=> l <= r
        /\ EvalCc("A")  <=> l > r
        /\ EvalCc("L")  <=> Signed(l) < Signed(r)
        /\ EvalCc("GE") <=> Signed(l) >= Signed(r)
        /\ EvalCc("LE") <=> Signed(l) <= Signed(r)
        /\ EvalCc("G")  <=> Signed(l) > Signed(r)

\* After an addition CF and OF say that the unsigned and the signed sum do
\* not fit the width, although both are computed from the truncated result.
AddOverflows ==
  last.op = "Add" =>
    LET sum == Signed(last.lhs) + Signed(last.rhs)
    IN  /\ EvalCc("B") <=> last.lhs + last.rhs >= Modulus
        /\ EvalCc("O") <=> sum < -Half \/ sum >= Half

\* After and, or and xor ZF and SF are those of the result, whatever was there
\* before; after test they say whether any result since an instruction that is no
\* test was zero or negative.  Neither unsigned-below nor overflow holds.
LogicSets ==
  /\ last.op = "Logic" => /\ EvalCc("E") <=> last.res = 0
                          /\ EvalCc("S") <=> Neg(last.res)
  /\ last.op = "Test"  => /\ EvalCc("E") <=> "zero" \in seen
                          /\ EvalCc("S") <=> "negative" \in seen
  /\ last.op \in {"Logic", "Test"} => ~EvalCc("B") /\ ~EvalCc("O")

\* README.md lists test among the supported instructions: JE and JNE after it
\* tell whether the result was zero.
TestDecides == last.op = "Test" => (EvalCc("E") <=> last.res = 0)
=============================================================================
