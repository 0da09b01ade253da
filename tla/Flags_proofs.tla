----------------------------- MODULE Flags_proofs -----------------------------
(***************************************************************************)
(* The properties of Flags, for operands of every width.                   *)
(***************************************************************************)
EXTENDS Flags, TLAPS

\* Sums and differences on w bits are numbers of w bits.
LEMMA Closed ==
  ASSUME NEW a \in Word, NEW b \in Word
  PROVE  Plus(a, b) \in Word /\ Minus(a, b) \in Word
BY HalfAssumption DEF Plus, Minus, Word, Modulus

\* Zero is a number of every width.
LEMMA ZeroIsWord == 0 \in Word
BY HalfAssumption DEF Word, Modulus

\* The flags are Booleans, the operands and the result numbers of w bits, and
\* the result is the operation's.
THEOREM FlagTypes == Spec => []TypeOK
<1>1. Init => TypeOK
  <2> SUFFICES ASSUME Init PROVE TypeOK
    OBVIOUS
  <2>1. last \in [op : {"None", "Add", "Sub", "Logic", "Test"},
                  lhs : Word, rhs : Word, res : Word]
    BY ZeroIsWord DEF Init
  <2>2. last.op \notin {"Add", "Sub"}
    BY DEF Init
  <2> QED BY <2>1, <2>2 DEF Init, TypeOK
<1>2. TypeOK /\ [Next]_vars => TypeOK'
  <2> SUFFICES ASSUME TypeOK, [Next]_vars PROVE TypeOK'
    OBVIOUS
  <2>1. ASSUME NEW op \in {"Add", "Sub"}, NEW lhs \in Word, NEW rhs \in Word,
               Arith(op, lhs, rhs)
        PROVE  TypeOK'
    <3> DEFINE res == BinOpVal(op, lhs, rhs)
    <3>1. res \in Word
      BY Closed DEF BinOpVal
    <3>2. last' = [op |-> op, lhs |-> lhs, rhs |-> rhs, res |-> res]
      BY <2>1 DEF Arith
    <3>3. last' \in [op : {"None", "Add", "Sub", "Logic", "Test"},
                     lhs : Word, rhs : Word, res : Word]
      BY <3>1, <3>2
    <3>4. last'.res = BinOpVal(last'.op, last'.lhs, last'.rhs)
      BY <3>2
    <3>5. UpdateFlags(res, lhs, rhs, op)
      BY <2>1 DEF Arith
    <3>6. zf' \in BOOLEAN /\ sf' \in BOOLEAN
      BY <3>5 DEF UpdateFlags, Neg
    <3>7. cf' \in BOOLEAN
      BY <3>5, SMT DEF UpdateFlags
    <3>8. of' \in BOOLEAN
      BY <3>5, SMT DEF UpdateFlags, Neg
    <3>9. seen' \subseteq {"zero", "negative", "positive"}
      BY <2>1 DEF Arith, Sign
    <3> HIDE DEF res
    <3> QED BY <3>3, <3>4, <3>6, <3>7, <3>8, <3>9 DEF TypeOK
  <2>2. ASSUME NEW res \in Word, Logic(res) PROVE TypeOK'
    <3>1. last' = [op |-> "Logic", lhs |-> res, rhs |-> res, res |-> res]
      BY <2>2 DEF Logic
    <3>2. UpdateFlags(res, res, res, "Logic")
      BY <2>2 DEF Logic
    <3>3. cf' \in BOOLEAN /\ zf' \in BOOLEAN /\ sf' \in BOOLEAN /\ of' \in BOOLEAN
      BY <3>2, SMT DEF UpdateFlags, Neg
    <3>4. seen' \subseteq {"zero", "negative", "positive"}
      BY <2>2 DEF Logic, Sign
    <3> QED BY <3>1, <3>3, <3>4 DEF TypeOK
  <2>3. ASSUME NEW res \in Word, TestReg(res) PROVE TypeOK'
    <3>1. seen' \subseteq {"zero", "negative", "positive"}
      BY <2>3 DEF TestReg, Sign, TypeOK
    <3> QED BY <2>3, <3>1 DEF TypeOK, TestReg, Neg
  <2>4. CASE UNCHANGED vars
    BY <2>4 DEF TypeOK, vars
  <2> QED BY <2>1, <2>2, <2>3, <2>4 DEF Next
<1> QED BY <1>1, <1>2, PTL DEF Spec

-----------------------------------------------------------------------------
(* Conditions.                                                             *)

\* For every width, a conditional jump after cmp or sub decides the comparison
\* in its name, signed or unsigned.
THEOREM CompareAndJump == Spec => []CmpDecides
<1>1. Init => CmpDecides
  BY DEF Init, CmpDecides
<1>2. CmpDecides /\ [Next]_vars => CmpDecides'
  <2> SUFFICES ASSUME CmpDecides, [Next]_vars PROVE CmpDecides'
    OBVIOUS
  <2>1. ASSUME NEW lhs \in Word, NEW rhs \in Word, Arith("Sub", lhs, rhs)
        PROVE  CmpDecides'
    <3> DEFINE res == Minus(lhs, rhs)
    <3>1. /\ last'.lhs = lhs
          /\ last'.rhs = rhs
          /\ UpdateFlags(res, lhs, rhs, "Sub")
      BY <2>1 DEF Arith, BinOpVal
    <3>2. /\ zf' <=> res = 0
          /\ cf' <=> lhs < rhs
      <4>1. zf' <=> res = 0
        BY <3>1, Zenon DEF UpdateFlags
      <4>2. cf' <=> lhs < rhs
        BY <3>1, Zenon DEF UpdateFlags
      <4> QED BY <4>1, <4>2
    <3>3. res = 0 <=> lhs = rhs
      BY HalfAssumption, SMT DEF Minus, Word, Modulus
    <3>4. (Neg(res) # (Neg(lhs) # Neg(rhs) /\ Neg(lhs) # Neg(res)))
            <=> Signed(lhs) < Signed(rhs)
      BY HalfAssumption, SMT DEF Minus, Word, Modulus, Neg, Signed
    <3>5. (sf' # of') <=> Signed(lhs) < Signed(rhs)
      BY <3>1, <3>4 DEF UpdateFlags
    <3>6. sf' \in BOOLEAN /\ of' \in BOOLEAN
      BY <3>1, SMT DEF UpdateFlags, Neg
    <3>7. Signed(lhs) = Signed(rhs) <=> lhs = rhs
      BY HalfAssumption, SMT DEF Word, Modulus, Neg, Signed
    <3>8. Signed(lhs) \in Int /\ Signed(rhs) \in Int
      BY HalfAssumption, SMT DEF Word, Modulus, Neg, Signed
    <3>9. lhs \in Nat /\ rhs \in Nat
      BY HalfAssumption DEF Word, Modulus
    <3> HIDE DEF res
    <3>10. /\ EvalCc("E")'  <=> lhs = rhs
           /\ EvalCc("NE")' <=> lhs # rhs
      BY <3>2, <3>3 DEF EvalCc
    <3>11. /\ EvalCc("B")'  <=> lhs < rhs
           /\ EvalCc("AE")' <=> lhs >= rhs
           /\ EvalCc("BE")' <=> lhs <= rhs
           /\ EvalCc("A")'  <=> lhs > rhs
      BY <3>2, <3>3, <3>9, SMT DEF EvalCc
    <3>12. /\ EvalCc("L")'  <=> Signed(lhs) < Signed(rhs)
           /\ EvalCc("GE")' <=> Signed(lhs) >= Signed(rhs)
      BY <3>5, <3>6, <3>8, SMT DEF EvalCc
    <3>13. /\ EvalCc("LE")' <=> Signed(lhs) <= Signed(rhs)
           /\ EvalCc("G")'  <=> Signed(lhs) > Signed(rhs)
      BY <3>2, <3>3, <3>5, <3>6, <3>7, <3>8, SMT DEF EvalCc
    <3> QED BY <3>1, <3>10, <3>11, <3>12, <3>13 DEF CmpDecides
  <2>2. ASSUME NEW lhs \in Word, NEW rhs \in Word, Arith("Add", lhs, rhs)
        PROVE  CmpDecides'
    BY <2>2 DEF Arith, CmpDecides
  <2>3. ASSUME NEW res \in Word, Logic(res) \/ TestReg(res) PROVE CmpDecides'
    BY <2>3 DEF Logic, TestReg, CmpDecides
  <2>4. CASE UNCHANGED vars
    BY <2>4 DEF CmpDecides, EvalCc, vars
  <2> QED BY <2>1, <2>2, <2>3, <2>4 DEF Next
<1> QED BY <1>1, <1>2, PTL DEF Spec

\* For every width, CF and OF after an addition say that the unsigned and the
\* signed sum do not fit.
THEOREM AdditionOverflow == Spec => []AddOverflows
<1>1. Init => AddOverflows
  BY DEF Init, AddOverflows
<1>2. AddOverflows /\ [Next]_vars => AddOverflows'
  <2> SUFFICES ASSUME AddOverflows, [Next]_vars PROVE AddOverflows'
    OBVIOUS
  <2>1. ASSUME NEW lhs \in Word, NEW rhs \in Word, Arith("Add", lhs, rhs)
        PROVE  AddOverflows'
    <3> DEFINE res == Plus(lhs, rhs)
               sum == Signed(lhs) + Signed(rhs)
    <3>1. /\ last'.lhs = lhs
          /\ last'.rhs = rhs
          /\ UpdateFlags(res, lhs, rhs, "Add")
      BY <2>1 DEF Arith, BinOpVal
    <3>2. cf' <=> lhs + rhs >= Modulus
      BY <3>1, HalfAssumption, SMT DEF UpdateFlags, Plus, Word, Modulus
    <3>3. of' <=> sum < -Half \/ sum >= Half
      BY <3>1, HalfAssumption, SMT
         DEF UpdateFlags, Plus, Word, Modulus, Neg, Signed
    <3> QED BY <3>1, <3>2, <3>3, SMT DEF AddOverflows, EvalCc
  <2>2. ASSUME NEW lhs \in Word, NEW rhs \in Word, Arith("Sub", lhs, rhs)
        PROVE  AddOverflows'
    BY <2>2 DEF Arith, AddOverflows
  <2>3. ASSUME NEW res \in Word, Logic(res) \/ TestReg(res) PROVE AddOverflows'
    BY <2>3 DEF Logic, TestReg, AddOverflows
  <2>4. CASE UNCHANGED vars
    BY <2>4 DEF AddOverflows, EvalCc, vars
  <2> QED BY <2>1, <2>2, <2>3, <2>4 DEF Next
<1> QED BY <1>1, <1>2, PTL DEF Spec

\* ZF and SF say whether a result since an instruction that is no test was zero or
\* negative: a test may set them, everything else sets them anew.
Sticky == (zf <=> "zero" \in seen) /\ (sf <=> "negative" \in seen)

\* One sign is not another, and zero is not negative.
LEMMA Signs ==
  ASSUME NEW res \in Word
  PROVE  ("zero" = Sign(res) <=> res = 0) /\ ("negative" = Sign(res) <=> Neg(res))
BY HalfAssumption DEF Sign, Neg, Word, Modulus

\* Every flag-setting instruction keeps Sticky.
LEMMA StickyStep ==
  ASSUME Sticky, [Next]_vars
  PROVE  Sticky'
<1>1. ASSUME NEW res \in Word, NEW lhs, NEW rhs, NEW op,
             UpdateFlags(res, lhs, rhs, op), seen' = {Sign(res)}
      PROVE  Sticky'
  <2>1. (zf' <=> res = 0) /\ (sf' <=> Neg(res))
    BY <1>1, Zenon DEF UpdateFlags
  <2> QED BY <1>1, <2>1, Signs DEF Sticky
<1>2. ASSUME NEW op \in {"Add", "Sub"}, NEW lhs \in Word, NEW rhs \in Word,
             Arith(op, lhs, rhs)
      PROVE  Sticky'
  <2>1. PICK res \in Word : res = BinOpVal(op, lhs, rhs)
    BY Closed DEF BinOpVal
  <2> QED BY <1>1, <1>2, <2>1 DEF Arith
<1>3. ASSUME NEW res \in Word, Logic(res) PROVE Sticky'
  BY <1>1, <1>3 DEF Logic
<1>4. ASSUME NEW res \in Word, TestReg(res) PROVE Sticky'
  <2>1. (zf' <=> zf \/ res = 0) /\ (sf' <=> sf \/ Neg(res))
        /\ seen' = seen \union {Sign(res)}
    BY <1>4, Zenon DEF TestReg
  <2> QED BY <2>1, Signs DEF Sticky
<1>5. CASE UNCHANGED vars
  BY <1>5 DEF vars, Sticky
<1> QED BY <1>2, <1>3, <1>4, <1>5 DEF Next

\* For every width the conditions see the result of and, or and xor and nothing
\* that was there before, and of test also what tests before it left; carry and
\* overflow are gone.
THEOREM LogicFlags == Spec => []LogicSets
<1>1. Init => Sticky /\ LogicSets
  BY DEF Init, Sticky, LogicSets
<1>2. Sticky /\ LogicSets /\ [Next]_vars => LogicSets'
  <2> SUFFICES ASSUME Sticky, LogicSets, [Next]_vars PROVE LogicSets'
    OBVIOUS
  <2>1. ASSUME NEW op \in {"Add", "Sub"}, NEW lhs \in Word, NEW rhs \in Word,
               Arith(op, lhs, rhs)
        PROVE  LogicSets'
    BY <2>1 DEF Arith, LogicSets
  <2>2. ASSUME NEW res \in Word, Logic(res) PROVE LogicSets'
    <3>1. last'.op = "Logic" /\ last'.res = res /\ UpdateFlags(res, res, res, "Logic")
      BY <2>2 DEF Logic
    <3>2. (zf' <=> res = 0) /\ (sf' <=> Neg(res)) /\ ~cf' /\ ~of'
      BY <3>1, Zenon DEF UpdateFlags
    <3> QED BY <3>1, <3>2 DEF LogicSets, EvalCc
  <2>3. ASSUME NEW res \in Word, TestReg(res) PROVE LogicSets'
    <3>1. last'.op = "Test" /\ ~cf' /\ ~of'
      BY <2>3 DEF TestReg
    <3>2. Sticky'
      BY StickyStep
    <3> QED BY <3>1, <3>2 DEF Sticky, LogicSets, EvalCc
  <2>4. CASE UNCHANGED vars
    BY <2>4 DEF LogicSets, EvalCc, vars
  <2> QED BY <2>1, <2>2, <2>3, <2>4 DEF Next
<1>3. Sticky /\ [Next]_vars => Sticky'
  BY StickyStep
<1> QED BY <1>1, <1>2, <1>3, PTL DEF Spec
=============================================================================
