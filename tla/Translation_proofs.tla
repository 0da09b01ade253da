------------------------- MODULE Translation_proofs --------------------------
(***************************************************************************)
(* Theorems about Translation, for texts of any length, whatever their     *)
(* bytes decode to.                                                        *)
(***************************************************************************)
EXTENDS Translation, Integers, TLAPS

\* Where an instruction ends, and where a may begin after it: there, or behind
\* one stretch of bytes that does not decode.
End(ins) == ins.pc + ins.length
Behind(t, ins, a) ==
  \/ a = End(ins)
  \/ /\ End(ins) \in Offset /\ t[End(ins)].kind = "Invalid"
     /\ a = End(ins) + t[End(ins)].length

\* The instructions of b lie one behind the other, from a on.
Lined(b, a) ==
  /\ b \in Seq(InsnType)
  /\ b # << >> => b[1].pc = a
  /\ \A i \in 1 .. Len(b) : b[i].pc >= a + i - 1
  /\ \A i \in 1 .. Len(b) - 1 : b[i + 1].pc = End(b[i])
  /\ \A i, j \in 1 .. Len(b) : i < j => End(b[i]) <= b[j].pc

\* The text, what has been decoded of the current block, and where.
Decoding ==
  /\ text \in [Offset -> Outcome]
  /\ \A o \in Offset : o + text[o].length <= Size
  /\ phase \in {"decode", "index", "emit", "done"}
  /\ offset \in 0 .. Size
  /\ pc \in offset .. Size
  /\ block \in Seq(InsnType)
  /\ phase = "decode" =>
       /\ Lined(block, offset)
       /\ pc = IF block = << >> THEN offset ELSE End(block[Len(block)])
       /\ pc >= offset + Len(block)
       /\ \A i \in 1 .. Len(block) : End(block[i]) <= pc
  /\ StopsAtUndecodable

\* The blocks bs lie one behind the other, up to a.
Start(b) == b[1].pc
Stacked(bs, a) ==
  /\ bs \in Seq(Seq(InsnType) \ {<< >>})
  /\ \A b \in 1 .. Len(bs) :
       /\ Lined(bs[b], Start(bs[b]))
       /\ Start(bs[b]) + Len(bs[b]) <= a
       /\ \A i \in 1 .. Len(bs[b]) : End(bs[b][i]) <= a
  /\ \A b, c \in 1 .. Len(bs) : b < c =>
       /\ Start(bs[b]) + Len(bs[b]) <= Start(bs[c])
       /\ \A i \in 1 .. Len(bs[b]) : End(bs[b][i]) <= Start(bs[c])
  /\ IF bs = << >> THEN a = 0 ELSE Start(bs[1]) = 0

\* Between them there is at most one stretch of bytes that does not decode.
Last(b) == b[Len(b)]
Close(t, bs, a) ==
  /\ \A b \in 1 .. Len(bs) - 1 : Behind(t, Last(bs[b]), Start(bs[b + 1]))
  /\ bs # << >> => Behind(t, Last(Last(bs)), a)

Swept == Stacked(blocks, offset) /\ Close(text, blocks, offset)

\* The numbers of an instruction.
LEMMA InsnNumbers ==
  ASSUME NEW x \in InsnType
  PROVE  /\ x.pc \in Nat /\ x.pc < Size /\ x.length \in Nat \ {0}
         /\ End(x) \in Nat /\ End(x) = x.pc + x.length /\ End(x) > x.pc
<1>1. x.pc \in 0 .. Size - 1 /\ x.length \in 1 .. MaxLength
  BY DEF InsnType, Offset
<1> QED BY <1>1, TranslationAssumption DEF End

\* The first instruction of a sequence that has one, and its length.
LEMMA FirstOf ==
  ASSUME NEW x \in Seq(InsnType), x # << >>
  PROVE  Len(x) \in Nat \ {0} /\ x[1] \in InsnType /\ x[Len(x)] \in InsnType
OBVIOUS

\* What decode_one returns is an instruction in the text.
LEMMA InsnTyped ==
  ASSUME Decoding, NEW o \in Offset, text[o].kind \notin {"Invalid", "Stall"}
  PROVE  /\ Insn(o) \in InsnType
         /\ End(Insn(o)) = o + text[o].length
         /\ o + text[o].length \in o + 1 .. Size
         /\ Insn(o).pc = o
<1>1. text[o] \in Outcome /\ o + text[o].length <= Size
  BY DEF Decoding
<1>2. /\ text[o].kind \in {"Plain", "Return"} \cup Branch
      /\ text[o].length \in 1 .. MaxLength /\ text[o].target \in Nat
  <2> DEFINE t == text[o]
  <2>1. CASE t \in [kind : {"Plain", "Return", "Invalid"}, length : OpLength,
                    target : {0}]
    <3>1. /\ t.kind \in {"Plain", "Return", "Invalid"}
          /\ t.length \in OpLength /\ t.target = 0
      BY <2>1
    <3> QED BY <3>1, TranslationAssumption
  <2>2. CASE \/ t \in [kind : {"Jump"}, length : JumpLength, target : Target]
             \/ t \in [kind : {"Call"}, length : CallLength, target : Target]
    <3>1. /\ t.kind \in Branch /\ t.length \in JumpLength \cup CallLength
          /\ t.target \in Target
      BY <2>2 DEF Branch
    <3> QED BY <3>1, TranslationAssumption
  <2>3. CASE t \in [kind : {"Stall"}, length : {0}, target : {0}]
    BY <2>3
  <2> QED BY <1>1, <2>1, <2>2, <2>3 DEF Outcome
<1>3. Insn(o) \in InsnType /\ Insn(o).pc = o /\ Insn(o).length = text[o].length
  BY <1>2 DEF Insn, InsnType
<1> QED BY <1>1, <1>2, <1>3, TranslationAssumption DEF End, Offset

\* Where it returns false it has moved over bytes that do not decode, or not.
LEMMA FailMoves ==
  ASSUME Decoding, NEW o \in Offset, text[o].kind \in {"Invalid", "Stall"}
  PROVE  /\ o + text[o].length \in o .. Size
         /\ text[o].kind = "Stall" => text[o].length = 0
<1>1. text[o] \in Outcome /\ o + text[o].length <= Size
  BY DEF Decoding
<1> QED BY <1>1, TranslationAssumption DEF Outcome, Branch, Offset

\* An instruction that begins where b ends is put behind it.
LEMMA LinedAppend ==
  ASSUME NEW b \in Seq(InsnType), NEW a \in Nat, NEW ins \in InsnType,
         Lined(b, a), ins.pc = IF b = << >> THEN a ELSE End(b[Len(b)]),
         ins.pc >= a + Len(b),
         \A i \in 1 .. Len(b) : End(b[i]) <= ins.pc
  PROVE  LET c == Append(b, ins) IN
         /\ Lined(c, a)
         /\ c # << >> /\ c[Len(c)] = ins /\ Len(c) = Len(b) + 1
         /\ \A i \in 1 .. Len(c) : End(c[i]) <= End(ins)
<1> DEFINE c == Append(b, ins)
<1>1. /\ c \in Seq(InsnType) /\ Len(c) = Len(b) + 1 /\ Len(b) \in Nat
      /\ \A i \in 1 .. Len(b) : c[i] = b[i]
      /\ c[Len(b) + 1] = ins
  BY SMT
<1>2. \A i \in 1 .. Len(b) : b[i] \in InsnType
  OBVIOUS
<1>3. /\ \A x \in InsnType : /\ x.pc \in Nat /\ x.length \in Nat \ {0}
                            /\ End(x) \in Nat /\ End(x) = x.pc + x.length
  BY InsnNumbers
<1> HIDE DEF c
<1>4. c # << >> /\ c[1].pc = a
  <2>1. CASE b = << >>
    BY <1>1, <2>1
  <2>2. CASE b # << >>
    <3>1. Len(b) >= 1
      BY <2>2
    <3> QED BY <1>1, <2>2, <3>1 DEF Lined
  <2> QED BY <2>1, <2>2
<1>5. ASSUME NEW i \in 1 .. Len(c) PROVE c[i].pc >= a + i - 1
  <2>1. CASE i \in 1 .. Len(b)
    BY <1>1, <2>1 DEF Lined
  <2>2. CASE i = Len(b) + 1
    BY <1>1, <2>2
  <2> QED BY <1>1, <2>1, <2>2
<1>6. \A i \in 1 .. Len(c) - 1 : c[i + 1].pc = End(c[i])
  <2>1. ASSUME NEW i \in 1 .. Len(b), i = Len(b) PROVE c[i + 1].pc = End(c[i])
    BY <1>1, <2>1
  <2>2. ASSUME NEW i \in 1 .. Len(b) - 1 PROVE c[i + 1].pc = End(c[i])
    BY <1>1 DEF Lined
  <2> QED BY <1>1, <2>1, <2>2
<1>7. ASSUME NEW i \in 1 .. Len(c), NEW j \in 1 .. Len(c), i < j
      PROVE  End(c[i]) <= c[j].pc
  <2>1. i \in 1 .. Len(b) /\ c[i] = b[i]
    BY <1>1, <1>7
  <2>2. CASE j \in 1 .. Len(b)
    BY <1>1, <1>7, <2>1, <2>2 DEF Lined
  <2>3. CASE j = Len(b) + 1
    BY <1>1, <2>1, <2>3
  <2> QED BY <1>1, <2>2, <2>3
<1>8. ASSUME NEW i \in 1 .. Len(c) PROVE End(c[i]) <= End(ins)
  <2>1. CASE i \in 1 .. Len(b)
    <3>1. End(c[i]) <= ins.pc /\ End(c[i]) \in Nat
      BY <1>1, <1>2, <1>3, <2>1
    <3> QED BY <1>3, <3>1
  <2>2. CASE i = Len(b) + 1
    BY <1>1, <1>3, <2>2
  <2> QED BY <1>1, <2>1, <2>2
<1> QED BY <1>1, <1>4, <1>5, <1>6, <1>7, <1>8 DEF Lined, c

\* What is known of a block in a sequence of them, and of Append.
LEMMA BlockOf ==
  ASSUME NEW bs \in Seq(Seq(InsnType) \ {<< >>}), NEW b \in 1 .. Len(bs)
  PROVE  /\ bs[b] \in Seq(InsnType) /\ bs[b] # << >>
         /\ Len(bs[b]) \in Nat \ {0} /\ Start(bs[b]) \in Nat
         /\ \A i \in 1 .. Len(bs[b]) : bs[b][i] \in InsnType /\ End(bs[b][i]) \in Nat
<1>1. bs[b] \in Seq(InsnType) /\ bs[b] # << >>
  OBVIOUS
<1>2. Len(bs[b]) \in Nat \ {0} /\ bs[b][1] \in InsnType
  BY <1>1, FirstOf
<1>3. \A i \in 1 .. Len(bs[b]) : bs[b][i] \in InsnType
  BY <1>1
<1> QED BY <1>1, <1>2, <1>3, InsnNumbers DEF Start

\* Blocks stay stacked when another is put on them.
LEMMA StackedAppend ==
  ASSUME NEW bs, NEW a \in Nat, Stacked(bs, a), NEW p \in Nat, a <= p,
         NEW b \in Seq(InsnType) \ {<< >>}, Lined(b, a), a + Len(b) <= p,
         \A i \in 1 .. Len(b) : End(b[i]) <= p
  PROVE  Stacked(Append(bs, b), p)
<1> DEFINE cs == Append(bs, b)
           n == Len(bs)
<1>1. bs \in Seq(Seq(InsnType) \ {<< >>}) /\ n \in Nat
  BY DEF Stacked
<1>2. /\ cs \in Seq(Seq(InsnType) \ {<< >>}) /\ Len(cs) = n + 1
      /\ \A c \in 1 .. n : cs[c] = bs[c]
      /\ cs[n + 1] = b /\ cs # << >>
  <2> DEFINE T == Seq(InsnType) \ {<< >>}
  <2>1. bs \in Seq(T) /\ b \in T
    BY <1>1
  <2> HIDE DEF T
  <2>2. /\ cs \in Seq(T) /\ Len(cs) = n + 1 /\ n \in Nat
        /\ \A c \in 1 .. n : cs[c] = bs[c]
        /\ cs[n + 1] = b /\ cs # << >>
    BY <2>1
  <2> QED BY <2>2 DEF T
<1>3. Start(b) = a /\ Len(b) \in Nat
  BY DEF Lined, Start
<1>4. \A c \in 1 .. n : /\ Len(bs[c]) \in Nat /\ Start(bs[c]) \in Nat
                        /\ \A i \in 1 .. Len(bs[c]) : End(bs[c][i]) \in Nat
  BY <1>1, BlockOf
<1> HIDE DEF cs
<1>5. ASSUME NEW c \in 1 .. n + 1
      PROVE  /\ Lined(cs[c], Start(cs[c])) /\ Start(cs[c]) + Len(cs[c]) <= p
             /\ \A i \in 1 .. Len(cs[c]) : End(cs[c][i]) <= p
  <2>1. CASE c \in 1 .. n
    <3>1. /\ Lined(bs[c], Start(bs[c])) /\ Start(bs[c]) + Len(bs[c]) <= a
          /\ \A i \in 1 .. Len(bs[c]) : End(bs[c][i]) <= a
      BY <2>1 DEF Stacked
    <3>2. /\ Len(bs[c]) \in Nat /\ Start(bs[c]) \in Nat
          /\ \A i \in 1 .. Len(bs[c]) : End(bs[c][i]) \in Nat
      BY <1>4, <2>1
    <3>3. cs[c] = bs[c]
      BY <1>2, <2>1
    <3>4. Start(bs[c]) + Len(bs[c]) <= p
      BY <3>1, <3>2
    <3>5. \A i \in 1 .. Len(bs[c]) : End(bs[c][i]) <= p
      BY <3>1, <3>2
    <3> QED BY <3>1, <3>3, <3>4, <3>5
  <2>2. CASE c = n + 1
    BY <1>2, <1>3, <2>2
  <2> QED BY <1>1, <2>1, <2>2
<1>6. ASSUME NEW c \in 1 .. n + 1, NEW d \in 1 .. n + 1, c < d
      PROVE  /\ Start(cs[c]) + Len(cs[c]) <= Start(cs[d])
             /\ \A i \in 1 .. Len(cs[c]) : End(cs[c][i]) <= Start(cs[d])
  <2>1. c \in 1 .. n /\ cs[c] = bs[c]
    <3>1. c \in 1 .. n
      BY <1>1, <1>6
    <3> QED BY <1>2, <3>1
  <2>2. CASE d \in 1 .. n
    <3>1. cs[d] = bs[d]
      BY <1>2, <2>2
    <3> QED BY <1>6, <2>1, <2>2, <3>1 DEF Stacked
  <2>3. CASE d = n + 1
    <3>1. Start(cs[d]) = a
      BY <1>2, <1>3, <2>3
    <3> QED BY <2>1, <3>1 DEF Stacked
  <2> QED BY <1>1, <2>2, <2>3
<1>7. Start(cs[1]) = 0
  <2>1. CASE bs = << >>
    BY <1>2, <1>3, <2>1 DEF Stacked
  <2>2. CASE bs # << >>
    <3>1. n >= 1
      BY <1>1, <2>2
    <3> QED BY <1>1, <1>2, <2>2, <3>1 DEF Stacked
  <2> QED BY <2>1, <2>2
<1> QED BY <1>2, <1>5, <1>6, <1>7 DEF Stacked, cs

\* So do the gaps between them.
LEMMA CloseAppend ==
  ASSUME NEW t, NEW bs \in Seq(Seq(InsnType) \ {<< >>}), NEW a, Close(t, bs, a),
         NEW b \in Seq(InsnType) \ {<< >>}, Start(b) = a,
         NEW p, Behind(t, Last(b), p)
  PROVE  Close(t, Append(bs, b), p)
<1> DEFINE cs == Append(bs, b)
           n == Len(bs)
<1>1. /\ cs \in Seq(Seq(InsnType) \ {<< >>}) /\ Len(cs) = n + 1 /\ n \in Nat
      /\ \A c \in 1 .. n : cs[c] = bs[c]
      /\ cs[n + 1] = b /\ cs # << >>
  <2> DEFINE T == Seq(InsnType) \ {<< >>}
  <2>1. bs \in Seq(T) /\ b \in T
    OBVIOUS
  <2> HIDE DEF T
  <2>2. /\ cs \in Seq(T) /\ Len(cs) = n + 1 /\ n \in Nat
        /\ \A c \in 1 .. n : cs[c] = bs[c]
        /\ cs[n + 1] = b /\ cs # << >>
    BY <2>1
  <2> QED BY <2>2 DEF T
<1> HIDE DEF cs
<1>2. ASSUME NEW c \in 1 .. n PROVE Behind(t, Last(cs[c]), Start(cs[c + 1]))
  <2>1. CASE c \in 1 .. n - 1
    <3>1. cs[c] = bs[c] /\ cs[c + 1] = bs[c + 1]
      BY <1>1, <2>1
    <3> QED BY <2>1, <3>1 DEF Close
  <2>2. CASE c = n
    <3>1. bs # << >> /\ Last(bs) = bs[n]
      BY <1>1, <2>2 DEF Last
    <3>2. cs[c] = bs[n] /\ cs[c + 1] = b
      BY <1>1, <2>2
    <3> QED BY <3>1, <3>2 DEF Close
  <2> QED BY <1>1, <2>1, <2>2
<1>3. Last(cs) = b
  BY <1>1 DEF Last
<1> QED BY <1>1, <1>2, <1>3 DEF Close, cs

\* A block that has been decoded without a gap up to q is added to the others,
\* which lie before it; the sweep goes on at q or behind bytes that do not
\* decode.
LEMMA CloseKeeps ==
  ASSUME Decoding, Swept, phase = "decode",
         NEW b \in Seq(InsnType), NEW q \in offset .. Size, NEW p \in q .. Size,
         CloseBlock(b, p), Lined(b, offset),
         b # << >> => q = End(b[Len(b)]),
         b = << >> /\ offset < Size => text[offset].kind \in {"Invalid", "Stall"},
         q >= offset + Len(b),
         \A i \in 1 .. Len(b) : End(b[i]) <= q,
         p = q \/ (q \in Offset /\ text[q].kind = "Invalid"
                   /\ p = q + text[q].length)
  PROVE  Decoding' /\ Swept'
<1> USE TranslationAssumption
<1>0. /\ pc' = p /\ block' = << >> /\ UNCHANGED <<text, bb, idx, pcToIdx, code>>
      /\ offset \in Nat /\ Len(b) \in Nat /\ p \in Nat /\ q \in Nat
  BY DEF CloseBlock, Decoding
<1>1. CASE b = << >>
  <2>1. phase' = "index" /\ UNCHANGED <<blocks, offset>>
    BY <1>1 DEF CloseBlock
  <2>2. Decoding'
    BY <1>0, <1>1, <2>1 DEF Decoding, StopsAtUndecodable
  <2>3. Swept'
    BY <1>0, <2>1 DEF Swept
  <2> QED BY <2>2, <2>3
<1>2. CASE b # << >>
  <2>1. Len(b) >= 1
    BY <1>2
  <2>2. p # offset
    BY <1>0, <2>1
  <2>3. /\ blocks' = Append(blocks, b) /\ offset' = p
        /\ phase' = IF p < Size THEN "decode" ELSE "index"
    BY <1>2, <2>2 DEF CloseBlock
  <2>4. Decoding'
    <3>1. StopsAtUndecodable'
      BY <1>0, <2>3 DEF StopsAtUndecodable
    <3>2. Lined(<< >>, p)
      BY <1>0 DEF Lined
    <3> QED BY <1>0, <2>3, <3>1, <3>2 DEF Decoding, Lined
  <2>5. Stacked(blocks', p)
    <3>1. \A i \in 1 .. Len(b) : End(b[i]) <= p
      <4>1. \A i \in 1 .. Len(b) : b[i] \in InsnType
        OBVIOUS
      <4>2. \A i \in 1 .. Len(b) : End(b[i]) \in Nat
        BY <4>1, InsnNumbers
      <4> QED BY <1>0, <4>2
    <3>2. offset <= p /\ offset + Len(b) <= p
      BY <1>0
    <3> QED BY <1>0, <1>2, <2>3, <3>1, <3>2, StackedAppend DEF Swept
  <2>6. Close(text, blocks', p)
    <3>1. Start(b) = offset
      BY <1>2 DEF Lined, Start
    <3>2. Behind(text, Last(b), p)
      BY <1>2 DEF Behind, Last
    <3>3. blocks \in Seq(Seq(InsnType) \ {<< >>})
      BY DEF Swept, Stacked
    <3> QED BY <1>2, <2>3, <3>1, <3>2, <3>3, CloseAppend DEF Swept
  <2> QED BY <1>0, <2>3, <2>4, <2>5, <2>6 DEF Swept
<1> QED BY <1>1, <1>2

\* An instruction that is decoded, and one that is not, keep what is known.
LEMMA SweepStep ==
  ASSUME Decoding, Swept, [Next]_vars
  PROVE  Decoding' /\ Swept'
<1> USE TranslationAssumption
<1>1. CASE DecodeOne
  <2>1. pc \in Offset /\ phase = "decode" /\ text[pc].kind \notin {"Invalid", "Stall"}
    BY <1>1 DEF DecodeOne, Decoding, Offset
  <2> DEFINE ins == Insn(pc)
             c == Append(block, ins)
             q == pc + text[pc].length
  <2>2. ins \in InsnType /\ End(ins) = q /\ q \in pc + 1 .. Size /\ ins.pc = pc
    BY <2>1, InsnTyped
  <2>3. offset \in Nat /\ pc \in Nat /\ pc >= offset /\ block \in Seq(InsnType)
        /\ Len(block) \in Nat
    BY DEF Decoding
  <2>4. /\ Lined(c, offset) /\ c # << >> /\ c[Len(c)] = ins /\ Len(c) = Len(block) + 1
        /\ \A i \in 1 .. Len(c) : End(c[i]) <= q
    BY <2>1, <2>2, <2>3, LinedAppend DEF Decoding
  <2>5. c \in Seq(InsnType)
    BY <2>4 DEF Lined
  <2> HIDE DEF ins, c
  <2>6. CASE text[pc].kind \in Ends
    <3>1. CloseBlock(c, q)
      BY <1>1, <2>6 DEF DecodeOne, ins, c
    <3>2. q \in offset .. Size /\ q >= offset + Len(c)
      BY <2>1, <2>2, <2>3, <2>4 DEF Decoding
    <3>3. q \in q .. Size
      BY <2>2
    <3> HIDE DEF q
    <3> QED BY <2>1, <2>2, <2>4, <2>5, <3>1, <3>2, <3>3, CloseKeeps
  <2>7. CASE text[pc].kind \notin Ends
    <3>1. /\ block' = c /\ pc' = q
          /\ UNCHANGED <<text, offset, blocks, phase>>
      BY <1>1, <2>7 DEF DecodeOne, ins, c
    <3>2. pc' >= offset + Len(block') /\ pc' \in offset .. Size
      BY <2>1, <2>2, <2>3, <2>4, <3>1 DEF Decoding
    <3>3. Decoding'
      BY <2>1, <2>2, <2>4, <2>5, <3>1, <3>2 DEF Decoding, StopsAtUndecodable
    <3> QED BY <3>1, <3>3 DEF Swept
  <2> QED BY <2>6, <2>7
<1>2. CASE DecodeFails
  <2> DEFINE p == IF pc < Size THEN pc + text[pc].length ELSE pc
  <2>1. /\ phase = "decode" /\ CloseBlock(block, p)
        /\ pc < Size => text[pc].kind \in {"Invalid", "Stall"}
    BY <1>2 DEF DecodeFails
  <2>2. /\ pc \in offset .. Size /\ offset \in 0 .. Size /\ block \in Seq(InsnType)
        /\ Lined(block, offset)
        /\ pc = IF block = << >> THEN offset ELSE End(block[Len(block)])
        /\ pc >= offset + Len(block)
        /\ \A i \in 1 .. Len(block) : End(block[i]) <= pc
    BY <2>1 DEF Decoding
  <2>3. p \in pc .. Size
        /\ (p = pc \/ (pc \in Offset /\ text[pc].kind = "Invalid"
                       /\ p = pc + text[pc].length))
    <3>1. CASE pc < Size
      <4>1. pc \in Offset
        BY <2>2, <3>1 DEF Offset
      <4>2. p = pc + text[pc].length /\ p \in pc .. Size
            /\ (text[pc].kind = "Stall" => text[pc].length = 0)
        BY <2>1, <3>1, <4>1, FailMoves
      <4> QED BY <2>1, <2>2, <3>1, <4>1, <4>2
    <3>2. CASE ~(pc < Size)
      BY <2>2, <3>2
    <3> QED BY <3>1, <3>2
  <2> HIDE DEF p
  <2> QED BY <2>1, <2>2, <2>3, CloseKeeps
<1>3. CASE IndexBlock \/ EmitBlock \/ Done \/ UNCHANGED vars
  <2>1. UNCHANGED <<text, offset, pc, block, blocks, phase>>
    BY <1>3 DEF IndexBlock, EmitBlock, Done, vars
  <2> QED BY <2>1 DEF Decoding, Swept, StopsAtUndecodable
<1>4. CASE IndexDone \/ EmitDone
  <2>1. /\ UNCHANGED <<text, offset, pc, block, blocks>>
        /\ phase # "decode" /\ phase' \in {"emit", "done"}
    BY <1>4 DEF IndexDone, EmitDone
  <2> QED BY <2>1 DEF Decoding, Swept, StopsAtUndecodable
<1> QED BY <1>1, <1>2, <1>3, <1>4 DEF Next, Step

-----------------------------------------------------------------------------
(* The first pass of flatten_ir.                                           *)

\* m numbers the instructions of the first n blocks of bs from 0 on, and
\* nothing else; no number exceeds the address it stands for.
Numbers(m, bs, n) ==
  /\ n \in 0 .. Len(bs)
  /\ \A b \in 1 .. n :
       /\ m[Start(bs[b])] \in 0 .. Start(bs[b])
       /\ \A i \in 1 .. Len(bs[b]) :
            bs[b][i].pc \in DOMAIN m /\ m[bs[b][i].pc] = m[Start(bs[b])] + i - 1
  /\ \A b, c \in 1 .. n :
       b < c => m[Start(bs[b])] + Len(bs[b]) <= m[Start(bs[c])]
  /\ \A b \in 1 .. n - 1 : m[Start(bs[b + 1])] = m[Start(bs[b])] + Len(bs[b])
  /\ n > 0 => m[Start(bs[1])] = 0
  /\ \A a \in DOMAIN m : \E b \in 1 .. n : \E i \in 1 .. Len(bs[b]) : a = bs[b][i].pc

\* The number behind them.
NextIdx(m, bs, n) == IF n = 0 THEN 0 ELSE m[Start(bs[n])] + Len(bs[n])

\* Different instructions have different addresses.
LEMMA ApartInBlock ==
  ASSUME NEW b \in Seq(InsnType), NEW a, Lined(b, a),
         NEW i \in 1 .. Len(b), NEW j \in 1 .. Len(b), b[i].pc = b[j].pc
  PROVE  i = j
<1>1. b[i] \in InsnType /\ b[j] \in InsnType
  OBVIOUS
<1>2. End(b[i]) > b[i].pc /\ End(b[j]) > b[j].pc /\ b[i].pc \in Nat /\ b[j].pc \in Nat
      /\ End(b[i]) \in Nat /\ End(b[j]) \in Nat
  BY <1>1, InsnNumbers
<1>3. ~(i < j) /\ ~(j < i)
  BY <1>2 DEF Lined
<1> QED BY <1>3

\* The same of two blocks, one above the other.
LEMMA ApartInBlocks ==
  ASSUME NEW bs, NEW a, Stacked(bs, a),
         NEW b \in 1 .. Len(bs), NEW c \in 1 .. Len(bs), b < c,
         NEW i \in 1 .. Len(bs[b]), NEW j \in 1 .. Len(bs[c])
  PROVE  End(bs[b][i]) <= bs[c][j].pc /\ bs[b][i].pc # bs[c][j].pc
<1>1. bs \in Seq(Seq(InsnType) \ {<< >>})
  BY DEF Stacked
<1>2. bs[b][i] \in InsnType /\ bs[c][j] \in InsnType /\ Start(bs[c]) \in Nat
  BY <1>1, BlockOf
<1>3. End(bs[b][i]) <= Start(bs[c])
  BY DEF Stacked
<1>4. bs[c][j].pc >= Start(bs[c]) + j - 1
  BY DEF Stacked, Lined
<1>5. End(bs[b][i]) \in Nat /\ End(bs[b][i]) > bs[b][i].pc /\ bs[b][i].pc \in Nat
      /\ bs[c][j].pc \in Nat
  BY <1>2, InsnNumbers
<1>6. j \in Nat /\ j >= 1
  BY <1>1, BlockOf
<1> QED BY <1>2, <1>3, <1>4, <1>5, <1>6

\* What Numbered assigns: to the instructions of b numbers from n on, and to
\* other addresses what they had.
LEMMA NumberedFacts ==
  ASSUME NEW b \in Seq(InsnType), NEW a, Lined(b, a), NEW n \in Nat
  PROVE  LET m == Numbered(b, n) IN
         /\ \A i \in 1 .. Len(b) : b[i].pc \in DOMAIN m /\ m[b[i].pc] = n + i - 1
         /\ \A x \in DOMAIN pcToIdx :
              (\A i \in 1 .. Len(b) : b[i].pc # x)
                => x \in DOMAIN m /\ m[x] = pcToIdx[x]
         /\ \A x \in DOMAIN m :
              x \in DOMAIN pcToIdx \/ \E i \in 1 .. Len(b) : x = b[i].pc
<1> DEFINE m == Numbered(b, n)
           at == {b[i].pc : i \in DOMAIN b}
           Nth(x) == CHOOSE i \in DOMAIN b : b[i].pc = x
<1>1. DOMAIN b = 1 .. Len(b) /\ Len(b) \in Nat
  OBVIOUS
<1>2. m = [x \in at \cup DOMAIN pcToIdx |-> IF x \in at THEN n + Nth(x) - 1 ELSE pcToIdx[x]]
  BY DEF Numbered
<1>3. ASSUME NEW i \in 1 .. Len(b) PROVE Nth(b[i].pc) = i
  <2>1. \E j \in DOMAIN b : b[j].pc = b[i].pc
    BY <1>1
  <2>2. Nth(b[i].pc) \in 1 .. Len(b) /\ b[Nth(b[i].pc)].pc = b[i].pc
    BY <1>1, <2>1
  <2> HIDE DEF Nth
  <2> QED BY <2>2, ApartInBlock
<1>4. \A i \in 1 .. Len(b) : b[i].pc \in at
  BY <1>1
<1>5. \A x \in at : \E i \in 1 .. Len(b) : x = b[i].pc
  BY <1>1
<1> HIDE DEF m, at, Nth
<1>6. DOMAIN m = at \cup DOMAIN pcToIdx
  BY <1>2
<1>7. \A i \in 1 .. Len(b) : b[i].pc \in DOMAIN m /\ m[b[i].pc] = n + i - 1
  BY <1>2, <1>3, <1>4, <1>6
<1>8. ASSUME NEW x \in DOMAIN pcToIdx, \A i \in 1 .. Len(b) : b[i].pc # x
      PROVE  x \in DOMAIN m /\ m[x] = pcToIdx[x]
  BY <1>2, <1>5, <1>6, <1>8
<1>9. \A x \in DOMAIN m : x \in DOMAIN pcToIdx \/ \E i \in 1 .. Len(b) : x = b[i].pc
  BY <1>5, <1>6
<1> QED BY <1>7, <1>8, <1>9 DEF m

\* Numbering the next block keeps the numbers of those before.
LEMMA NumbersNext ==
  ASSUME NEW bs, NEW a \in Nat, Stacked(bs, a), NEW n \in 0 .. Len(bs) - 1,
         Numbers(pcToIdx, bs, n), NEW k, k = NextIdx(pcToIdx, bs, n)
  PROVE  LET m == Numbered(bs[n + 1], k) IN
         /\ Numbers(m, bs, n + 1)
         /\ NextIdx(m, bs, n + 1) = k + Len(bs[n + 1])
         /\ k \in 0 .. Start(bs[n + 1])
<1> DEFINE b == bs[n + 1]
           m == Numbered(b, k)
<1>1. bs \in Seq(Seq(InsnType) \ {<< >>}) /\ Len(bs) \in Nat
  BY DEF Stacked
<1>2. /\ b \in Seq(InsnType) /\ b # << >> /\ Len(b) \in Nat \ {0} /\ Lined(b, Start(b))
      /\ Start(b) \in Nat
  BY <1>1, BlockOf DEF Stacked
<1>3. ASSUME NEW c \in 1 .. n
      PROVE  /\ pcToIdx[Start(bs[c])] \in 0 .. Start(bs[c])
             /\ Start(bs[c]) \in Nat /\ Len(bs[c]) \in Nat \ {0}
             /\ Start(bs[c]) + Len(bs[c]) <= Start(b)
  <2>1. c \in 1 .. Len(bs) /\ n + 1 \in 1 .. Len(bs) /\ c < n + 1
    BY <1>1
  <2> QED BY <1>1, <2>1, BlockOf DEF Stacked, Numbers
<1>4. k \in Nat /\ k <= Start(b)
  <2>1. CASE n = 0
    BY <1>2, <2>1 DEF NextIdx
  <2>2. CASE n # 0
    <3>1. n \in 1 .. n
      BY <2>2
    <3>2. k = pcToIdx[Start(bs[n])] + Len(bs[n])
      BY <2>2 DEF NextIdx
    <3>3. PICK x \in Nat : x = pcToIdx[Start(bs[n])] /\ x <= Start(bs[n])
      BY <1>3, <3>1
    <3>4. /\ Start(bs[n]) \in Nat /\ Len(bs[n]) \in Nat
          /\ Start(bs[n]) + Len(bs[n]) <= Start(b)
      BY <1>3, <3>1
    <3> HIDE DEF b
    <3> QED BY <1>2, <3>2, <3>3, <3>4
  <2> QED BY <2>1, <2>2
<1>5. /\ \A i \in 1 .. Len(b) : b[i].pc \in DOMAIN m /\ m[b[i].pc] = k + i - 1
      /\ \A x \in DOMAIN pcToIdx :
           (\A i \in 1 .. Len(b) : b[i].pc # x) => x \in DOMAIN m /\ m[x] = pcToIdx[x]
      /\ \A x \in DOMAIN m :
           x \in DOMAIN pcToIdx \/ \E i \in 1 .. Len(b) : x = b[i].pc
  BY <1>2, <1>4, NumberedFacts
<1> HIDE DEF m
<1>6. ASSUME NEW c \in 1 .. n, NEW i \in 1 .. Len(bs[c])
      PROVE  /\ bs[c][i].pc \in DOMAIN pcToIdx /\ bs[c][i].pc \in DOMAIN m
             /\ m[bs[c][i].pc] = pcToIdx[bs[c][i].pc]
             /\ pcToIdx[bs[c][i].pc] = pcToIdx[Start(bs[c])] + i - 1
  <2>1. c \in 1 .. Len(bs) /\ n + 1 \in 1 .. Len(bs) /\ c < n + 1
    BY <1>1
  <2>2. \A j \in 1 .. Len(b) : b[j].pc # bs[c][i].pc
    BY <2>1, ApartInBlocks
  <2> QED BY <1>5, <2>2 DEF Numbers
<1>7. ASSUME NEW c \in 1 .. n PROVE m[Start(bs[c])] = pcToIdx[Start(bs[c])]
  <2>1. 1 \in 1 .. Len(bs[c])
    BY <1>3
  <2> QED BY <1>6, <2>1 DEF Start
<1>8. m[Start(b)] = k
  <2>1. 1 \in 1 .. Len(b)
    BY <1>2
  <2>2. m[b[1].pc] = k + 1 - 1
    BY <1>5, <2>1
  <2> QED BY <1>4, <2>2 DEF Start
<1>9. ASSUME NEW c \in 1 .. n + 1
      PROVE  /\ m[Start(bs[c])] \in 0 .. Start(bs[c])
             /\ \A i \in 1 .. Len(bs[c]) :
                  bs[c][i].pc \in DOMAIN m /\ m[bs[c][i].pc] = m[Start(bs[c])] + i - 1
  <2>1. CASE c \in 1 .. n
    BY <1>3, <1>6, <1>7, <2>1
  <2>2. CASE c = n + 1
    BY <1>2, <1>4, <1>5, <1>8, <2>2
  <2> QED BY <2>1, <2>2
<1>10. \A c \in 1 .. n : pcToIdx[Start(bs[c])] + Len(bs[c]) <= k
  <2> SUFFICES ASSUME NEW c \in 1 .. n
               PROVE  pcToIdx[Start(bs[c])] + Len(bs[c]) <= k
    OBVIOUS
  <2>1. n \in 1 .. n /\ k = pcToIdx[Start(bs[n])] + Len(bs[n])
    BY DEF NextIdx
  <2>2. CASE c = n
    BY <1>3, <2>1, <2>2
  <2>3. CASE c < n
    <3>1. pcToIdx[Start(bs[c])] + Len(bs[c]) <= pcToIdx[Start(bs[n])]
      BY <2>1, <2>3 DEF Numbers
    <3>2. PICK x \in Nat : x = pcToIdx[Start(bs[n])]
      BY <1>3, <2>1
    <3>3. PICK y \in Nat : y = pcToIdx[Start(bs[c])]
      BY <1>3
    <3>4. Len(bs[n]) \in Nat /\ Len(bs[c]) \in Nat
      BY <1>3, <2>1
    <3> QED BY <2>1, <3>1, <3>2, <3>3, <3>4
  <2> QED BY <2>2, <2>3
<1>11. ASSUME NEW c \in 1 .. n + 1, NEW d \in 1 .. n + 1, c < d
       PROVE  m[Start(bs[c])] + Len(bs[c]) <= m[Start(bs[d])]
  <2>1. c \in 1 .. n
    BY <1>11
  <2>2. CASE d \in 1 .. n
    BY <1>7, <1>11, <2>1, <2>2 DEF Numbers
  <2>3. CASE d = n + 1
    BY <1>7, <1>8, <1>10, <2>1, <2>3
  <2> QED BY <2>2, <2>3
<1>12. ASSUME NEW c \in 1 .. n
       PROVE  m[Start(bs[c + 1])] = m[Start(bs[c])] + Len(bs[c])
  <2>1. CASE c \in 1 .. n - 1
    <3>1. c + 1 \in 1 .. n
      BY <2>1
    <3> QED BY <1>7, <2>1, <3>1 DEF Numbers
  <2>2. CASE c = n
    BY <1>7, <1>8, <2>2 DEF NextIdx
  <2> QED BY <2>1, <2>2
<1>13. m[Start(bs[1])] = 0
  <2>1. CASE n = 0
    BY <1>8, <2>1 DEF NextIdx
  <2>2. CASE n # 0
    BY <1>7, <2>2 DEF Numbers
  <2> QED BY <2>1, <2>2
<1>14. ASSUME NEW x \in DOMAIN m
       PROVE  \E c \in 1 .. n + 1 : \E i \in 1 .. Len(bs[c]) : x = bs[c][i].pc
  <2>1. CASE \E i \in 1 .. Len(b) : x = b[i].pc
    <3>1. n + 1 \in 1 .. n + 1
      OBVIOUS
    <3> QED BY <2>1, <3>1
  <2>2. CASE x \in DOMAIN pcToIdx
    <3>1. PICK c \in 1 .. n : \E i \in 1 .. Len(bs[c]) : x = bs[c][i].pc
      BY <2>2 DEF Numbers
    <3>2. c \in 1 .. n + 1
      OBVIOUS
    <3> QED BY <3>1, <3>2
  <2> QED BY <1>5, <2>1, <2>2
<1>15. Numbers(m, bs, n + 1)
  <2> DEFINE n1 == n + 1
  <2>1. n1 \in 0 .. Len(bs) /\ n1 - 1 = n
    BY <1>1
  <2> HIDE DEF n1
  <2>2. \A c \in 1 .. n1 :
          /\ m[Start(bs[c])] \in 0 .. Start(bs[c])
          /\ \A i \in 1 .. Len(bs[c]) :
               bs[c][i].pc \in DOMAIN m /\ m[bs[c][i].pc] = m[Start(bs[c])] + i - 1
    BY <1>9 DEF n1
  <2>3. \A c, d \in 1 .. n1 : c < d => m[Start(bs[c])] + Len(bs[c]) <= m[Start(bs[d])]
    BY <1>11 DEF n1
  <2>4. \A c \in 1 .. n1 - 1 : m[Start(bs[c + 1])] = m[Start(bs[c])] + Len(bs[c])
    BY <1>12, <2>1
  <2>5. \A x \in DOMAIN m : \E c \in 1 .. n1 : \E i \in 1 .. Len(bs[c]) : x = bs[c][i].pc
    BY <1>14 DEF n1
  <2>6. Numbers(m, bs, n1)
    BY <1>13, <2>1, <2>2, <2>3, <2>4, <2>5 DEF Numbers
  <2> QED BY <2>6 DEF n1
<1>16. NextIdx(m, bs, n + 1) = k + Len(b)
  BY <1>8 DEF NextIdx
<1> QED BY <1>2, <1>4, <1>15, <1>16 DEF m

\* How far the first pass has come.
Indexing ==
  /\ bb \in 1 .. Len(blocks) + 1
  /\ idx \in 0 .. Size
  /\ phase = "decode" => bb = 1
  /\ phase \in {"decode", "index"} =>
       /\ Numbers(pcToIdx, blocks, bb - 1)
       /\ idx = NextIdx(pcToIdx, blocks, bb - 1)
  /\ phase \in {"emit", "done"} => Numbers(pcToIdx, blocks, Len(blocks))

\* Every step keeps the numbering.
LEMMA IndexStep ==
  ASSUME Decoding, Swept, Indexing, [Next]_vars, Swept'
  PROVE  Indexing'
<1> USE TranslationAssumption
<1>0. Len(blocks) \in Nat /\ Len(blocks') \in Nat
  BY DEF Swept, Stacked
<1>1. CASE DecodeOne \/ DecodeFails
  <2>1. /\ phase = "decode" /\ phase' \in {"decode", "index"}
        /\ UNCHANGED <<bb, idx, pcToIdx>>
    BY <1>1 DEF DecodeOne, DecodeFails, CloseBlock
  <2>2. bb = 1 /\ idx \in 0 .. Size /\ Numbers(pcToIdx, blocks, 0)
        /\ idx = NextIdx(pcToIdx, blocks, 0)
    BY <2>1 DEF Indexing
  <2>3. Numbers(pcToIdx, blocks', 0)
    BY <1>0, <2>2 DEF Numbers
  <2>4. idx = NextIdx(pcToIdx, blocks', 0)
    BY <2>2 DEF NextIdx
  <2>5. bb' \in 1 .. Len(blocks') + 1
    BY <1>0, <2>1, <2>2
  <2>6. bb' - 1 = 0
    BY <2>1, <2>2
  <2> QED BY <2>1, <2>2, <2>3, <2>4, <2>5, <2>6 DEF Indexing
<1>2. CASE IndexBlock
  <2> DEFINE n == bb - 1
  <2>1. /\ phase = "index" /\ bb <= Len(blocks) /\ pcToIdx' = Numbered(blocks[bb], idx)
        /\ idx' = idx + Len(blocks[bb]) /\ bb' = bb + 1 /\ UNCHANGED <<blocks, phase, offset>>
    BY <1>2 DEF IndexBlock
  <2>2. n \in 0 .. Len(blocks) - 1 /\ bb = n + 1 /\ Numbers(pcToIdx, blocks, n)
        /\ idx = NextIdx(pcToIdx, blocks, n)
    BY <1>0, <2>1 DEF Indexing
  <2>3. offset \in Nat /\ offset <= Size /\ Stacked(blocks, offset)
    BY DEF Decoding, Swept
  <2> HIDE DEF n
  <2>4. /\ Numbers(pcToIdx', blocks, n + 1)
        /\ NextIdx(pcToIdx', blocks, n + 1) = idx + Len(blocks[n + 1])
        /\ idx \in 0 .. Start(blocks[n + 1])
    BY <2>1, <2>2, <2>3, NumbersNext
  <2>5. idx' \in 0 .. Size
    <3>1. n + 1 \in 1 .. Len(blocks)
      BY <2>2
    <3>2. Start(blocks[bb]) + Len(blocks[bb]) <= offset
      BY <2>2, <2>3, <3>1 DEF Stacked
    <3>3. Len(blocks[bb]) \in Nat /\ Start(blocks[bb]) \in Nat
      BY <2>2, <2>3, <3>1, BlockOf DEF Stacked
    <3>4. idx \in Nat /\ idx <= Start(blocks[bb])
      BY <2>2, <2>4, <3>3
    <3> QED BY <2>1, <2>3, <3>2, <3>3, <3>4
  <2>6. bb' \in 1 .. Len(blocks) + 1 /\ bb' - 1 = n + 1
    BY <1>0, <2>1, <2>2
  <2> QED BY <2>1, <2>2, <2>4, <2>5, <2>6 DEF Indexing
<1>3. CASE IndexDone
  <2>1. /\ phase = "index" /\ bb > Len(blocks) /\ phase' = "emit" /\ bb' = 1
        /\ UNCHANGED <<blocks, idx, pcToIdx>>
    BY <1>3 DEF IndexDone
  <2>2. bb - 1 = Len(blocks)
    BY <1>0, <2>1 DEF Indexing
  <2> QED BY <1>0, <2>1, <2>2 DEF Indexing
<1>4. CASE EmitBlock
  <2>1. /\ phase = "emit" /\ bb <= Len(blocks) /\ bb' = bb + 1
        /\ UNCHANGED <<blocks, phase, idx, pcToIdx>>
    BY <1>4 DEF EmitBlock
  <2> QED BY <1>0, <2>1 DEF Indexing
<1>5. CASE EmitDone
  <2>1. /\ phase = "emit" /\ phase' = "done" /\ UNCHANGED <<blocks, bb, idx, pcToIdx>>
    BY <1>5 DEF EmitDone
  <2> QED BY <2>1 DEF Indexing
<1>6. CASE Done \/ UNCHANGED vars
  <2>1. UNCHANGED <<phase, blocks, bb, idx, pcToIdx>>
    BY <1>6 DEF Done, vars
  <2> QED BY <2>1 DEF Indexing
<1> QED BY <1>1, <1>2, <1>3, <1>4, <1>5, <1>6 DEF Next, Step

-----------------------------------------------------------------------------
(* The second pass.                                                        *)

\* What an instruction becomes, given the numbers m.
IrType == [pc : Offset, kind : {"Plain", "Return"} \cup Branch,
           length : 1 .. MaxLength, target : Nat, imm : Offset]

Final(m, x) ==
  [pc |-> x.pc, kind |-> x.kind, length |-> x.length, target |-> x.target,
   imm |-> IF x.kind \in Branch /\ x.target \in DOMAIN m THEN m[x.target] ELSE 0]

\* The stream: instruction i of block b stands where m numbers it.
First(m, bs, b) == m[Start(bs[b])]

Flat(m, bs, c, n) ==
  /\ n \in 0 .. Len(bs)
  /\ Len(c) = NextIdx(m, bs, n)
  /\ \A b \in 1 .. n : \A i \in 1 .. Len(bs[b]) :
       /\ First(m, bs, b) + i \in 1 .. Len(c)
       /\ c[First(m, bs, b) + i] = Final(m, bs[b][i])
  /\ \A j \in 1 .. Len(c) :
       \E b \in 1 .. n : \E i \in 1 .. Len(bs[b]) : j = First(m, bs, b) + i

Emitting ==
  /\ code \in Seq(IrType)
  /\ phase \in {"decode", "index"} => code = << >>
  /\ phase = "emit" => Flat(pcToIdx, blocks, code, bb - 1)
  /\ phase = "done" => Flat(pcToIdx, blocks, code, Len(blocks))

\* A number is at most the address it stands for.
LEMMA IndexInText ==
  ASSUME NEW m, NEW bs, NEW a, Stacked(bs, a), NEW n, Numbers(m, bs, n),
         NEW x \in DOMAIN m
  PROVE  x \in Offset /\ m[x] \in Offset
<1>1. PICK b \in 1 .. n : \E i \in 1 .. Len(bs[b]) : x = bs[b][i].pc
  BY DEF Numbers
<1>2. PICK i \in 1 .. Len(bs[b]) : x = bs[b][i].pc
  BY <1>1
<1>3. /\ bs \in Seq(Seq(InsnType) \ {<< >>}) /\ Len(bs) \in Nat /\ b \in 1 .. Len(bs)
  BY DEF Stacked, Numbers
<1>4. bs[b][i] \in InsnType /\ Len(bs[b]) \in Nat /\ Start(bs[b]) \in Nat
  BY <1>3, BlockOf
<1>5. x \in Nat /\ x < Size
  BY <1>2, <1>4, InsnNumbers
<1>6. m[x] = m[Start(bs[b])] + i - 1 /\ m[Start(bs[b])] \in 0 .. Start(bs[b])
  BY <1>2 DEF Numbers
<1>7. x >= Start(bs[b]) + i - 1
  BY <1>2, <1>3 DEF Stacked, Lined
<1>8. PICK f \in Nat : f = m[Start(bs[b])] /\ f <= Start(bs[b])
  BY <1>4, <1>6
<1>9. PICK j \in Nat : j = i /\ j >= 1
  BY <1>4
<1> QED BY <1>4, <1>5, <1>6, <1>7, <1>8, <1>9, TranslationAssumption DEF Offset

\* What emit_x86 and the second pass make of an instruction.
LEMMA ResolveFacts ==
  ASSUME Swept, NEW n, Numbers(pcToIdx, blocks, n), NEW x \in InsnType
  PROVE  /\ Resolve(Emit(x)) = Final(pcToIdx, x)
         /\ Final(pcToIdx, x) \in IrType
<1>1. /\ x.pc \in Offset /\ x.kind \in {"Plain", "Return"} \cup Branch
      /\ x.length \in 1 .. MaxLength /\ x.target \in Nat
  BY DEF InsnType
<1>2. 0 \in Offset
  BY <1>1, TranslationAssumption DEF Offset
<1>3. \A y \in DOMAIN pcToIdx : pcToIdx[y] \in Offset
  BY IndexInText DEF Swept
<1>4. Final(pcToIdx, x) \in IrType
  BY <1>1, <1>2, <1>3 DEF Final, IrType
<1>5. Emit(x) = [pc |-> x.pc, kind |-> x.kind, length |-> x.length, target |-> x.target,
                 imm |-> IF x.kind \in Branch THEN x.target ELSE 0]
  BY DEF Emit
<1>6. Resolve(Emit(x)) = Final(pcToIdx, x)
  BY <1>5 DEF Resolve, Final, IndexOf
<1> QED BY <1>4, <1>6

\* Where a block begins in the stream is where those before it end.
LEMMA FirstNext ==
  ASSUME NEW m, NEW bs, NEW a, Stacked(bs, a), Numbers(m, bs, Len(bs))
  PROVE  /\ \A b \in 1 .. Len(bs) :
              /\ First(m, bs, b) \in Nat /\ Len(bs[b]) \in Nat \ {0}
              /\ \A i \in 1 .. Len(bs[b]) : m[bs[b][i].pc] = First(m, bs, b) + i - 1
         /\ \A n \in 0 .. Len(bs) - 1 : First(m, bs, n + 1) = NextIdx(m, bs, n)
<1>1. bs \in Seq(Seq(InsnType) \ {<< >>}) /\ Len(bs) \in Nat
  BY DEF Stacked
<1>2. ASSUME NEW b \in 1 .. Len(bs)
      PROVE  /\ First(m, bs, b) \in Nat /\ Len(bs[b]) \in Nat \ {0}
             /\ \A i \in 1 .. Len(bs[b]) : m[bs[b][i].pc] = First(m, bs, b) + i - 1
  <2>1. First(m, bs, b) \in 0 .. Start(bs[b])
    BY DEF Numbers, First
  <2>2. Start(bs[b]) \in Nat /\ Len(bs[b]) \in Nat \ {0}
    BY <1>1, BlockOf
  <2> QED BY <2>1, <2>2 DEF Numbers, First
<1>3. ASSUME NEW n \in 0 .. Len(bs) - 1 PROVE First(m, bs, n + 1) = NextIdx(m, bs, n)
  <2>1. CASE n = 0
    <3>1. Len(bs) > 0
      BY <1>1
    <3> QED BY <1>1, <2>1, <3>1 DEF Numbers, First, NextIdx
  <2>2. CASE n # 0
    <3>1. n \in 1 .. Len(bs) - 1
      BY <1>1, <2>2
    <3> QED BY <2>2, <3>1 DEF Numbers, First, NextIdx
  <2> QED BY <2>1, <2>2
<1> QED BY <1>2, <1>3

\* The second pass adds the instructions of the next block.
LEMMA FlatNext ==
  ASSUME NEW m, NEW bs, NEW a, Stacked(bs, a), Numbers(m, bs, Len(bs)),
         NEW n \in 0 .. Len(bs) - 1,
         NEW c \in Seq(IrType), Flat(m, bs, c, n),
         NEW d \in Seq(IrType), Len(d) = Len(bs[n + 1]),
         \A i \in 1 .. Len(d) : d[i] = Final(m, bs[n + 1][i])
  PROVE  Flat(m, bs, c \o d, n + 1)
<1> DEFINE e == c \o d
<1>1. bs \in Seq(Seq(InsnType) \ {<< >>}) /\ Len(bs) \in Nat
  BY DEF Stacked
<1>2. /\ e \in Seq(IrType) /\ Len(e) = Len(c) + Len(d)
      /\ Len(c) \in Nat /\ Len(d) \in Nat
      /\ \A i \in 1 .. Len(c) : e[i] = c[i]
      /\ \A i \in 1 .. Len(d) : e[Len(c) + i] = d[i]
  <2>1. /\ e \in Seq(IrType) /\ Len(e) = Len(c) + Len(d)
        /\ Len(c) \in Nat /\ Len(d) \in Nat
    OBVIOUS
  <2>2. ASSUME NEW i \in 1 .. Len(c) PROVE e[i] = c[i]
    OBVIOUS
  <2>3. ASSUME NEW i \in 1 .. Len(d) PROVE e[Len(c) + i] = d[i]
    <3>1. Len(c) + i \in 1 .. Len(c) + Len(d) /\ Len(c) + i > Len(c)
      OBVIOUS
    <3> QED BY <3>1
  <2> HIDE DEF e
  <2> QED BY <2>1, <2>2, <2>3
<1>3. First(m, bs, n + 1) = Len(c)
  BY FirstNext DEF Flat
<1> HIDE DEF e
<1>4. Len(e) = NextIdx(m, bs, n + 1)
  BY <1>2, <1>3 DEF NextIdx, First
<1>5. ASSUME NEW b \in 1 .. n + 1, NEW i \in 1 .. Len(bs[b])
      PROVE  /\ First(m, bs, b) + i \in 1 .. Len(e)
             /\ e[First(m, bs, b) + i] = Final(m, bs[b][i])
  <2>1. CASE b \in 1 .. n
    <3>1. /\ First(m, bs, b) + i \in 1 .. Len(c)
          /\ c[First(m, bs, b) + i] = Final(m, bs[b][i])
      BY <2>1 DEF Flat
    <3> QED BY <1>2, <3>1
  <2>2. CASE b = n + 1
    <3>1. i \in 1 .. Len(d)
      BY <2>2
    <3>2. Len(c) + i \in 1 .. Len(e)
      BY <1>2, <3>1
    <3> QED BY <1>2, <1>3, <2>2, <3>1, <3>2
  <2> QED BY <2>1, <2>2
<1>6. ASSUME NEW j \in 1 .. Len(e)
      PROVE  \E b \in 1 .. n + 1 : \E i \in 1 .. Len(bs[b]) : j = First(m, bs, b) + i
  <2>1. CASE j \in 1 .. Len(c)
    <3>1. PICK b \in 1 .. n : \E i \in 1 .. Len(bs[b]) : j = First(m, bs, b) + i
      BY <2>1 DEF Flat
    <3>2. b \in 1 .. n + 1
      OBVIOUS
    <3> QED BY <3>1, <3>2
  <2>2. CASE j > Len(c)
    <3>1. j - Len(c) \in 1 .. Len(bs[n + 1]) /\ j = Len(c) + (j - Len(c))
      BY <1>2, <2>2
    <3>2. n + 1 \in 1 .. n + 1
      OBVIOUS
    <3> QED BY <1>3, <3>1, <3>2
  <2> QED BY <1>2, <2>1, <2>2
<1>7. n + 1 \in 0 .. Len(bs)
  BY <1>1
<1>8. Flat(m, bs, e, n + 1)
  BY <1>4, <1>5, <1>6, <1>7 DEF Flat
<1> QED BY <1>8 DEF e

\* Every step keeps what is known of the stream.
LEMMA EmitStep ==
  ASSUME Decoding, Swept, Indexing, Emitting, [Next]_vars
  PROVE  Emitting'
<1>0. blocks \in Seq(Seq(InsnType) \ {<< >>}) /\ Len(blocks) \in Nat
      /\ Stacked(blocks, offset)
  BY DEF Swept, Stacked
<1>1. CASE DecodeOne \/ DecodeFails \/ IndexBlock
  <2>1. /\ phase \in {"decode", "index"} /\ phase' \in {"decode", "index"}
        /\ code' = code
    BY <1>1 DEF DecodeOne, DecodeFails, IndexBlock, CloseBlock
  <2> QED BY <2>1 DEF Emitting
<1>2. CASE IndexDone
  <2>1. /\ phase = "index" /\ phase' = "emit" /\ bb' = 1
        /\ UNCHANGED <<blocks, pcToIdx, code>>
    BY <1>2 DEF IndexDone
  <2>2. code = << >> /\ bb' - 1 = 0
    BY <2>1 DEF Emitting
  <2>3. Flat(pcToIdx, blocks, code, 0)
    BY <1>0, <2>2 DEF Flat, NextIdx
  <2> QED BY <2>1, <2>2, <2>3 DEF Emitting
<1>3. CASE EmitBlock
  <2> DEFINE b == blocks[bb]
             d == [i \in DOMAIN b |-> Resolve(Emit(b[i]))]
  <2>1. /\ phase = "emit" /\ bb <= Len(blocks) /\ code' = code \o d /\ bb' = bb + 1
        /\ UNCHANGED <<blocks, pcToIdx, phase>>
    BY <1>3 DEF EmitBlock
  <2>2. PICK n \in 0 .. Len(blocks) - 1 : bb = n + 1
    <3>1. bb - 1 \in 0 .. Len(blocks) - 1 /\ bb = (bb - 1) + 1
      BY <1>0, <2>1 DEF Indexing
    <3> QED BY <3>1
  <2>3. bb - 1 = n /\ bb' - 1 = n + 1 /\ bb \in 1 .. Len(blocks)
    BY <1>0, <2>1, <2>2
  <2>4. Numbers(pcToIdx, blocks, Len(blocks))
    BY <2>1 DEF Indexing
  <2>5. b \in Seq(InsnType) /\ Len(b) \in Nat /\ DOMAIN b = 1 .. Len(b)
    <3>1. b \in Seq(InsnType)
      BY <1>0, <2>3, BlockOf
    <3> HIDE DEF b
    <3> QED BY <3>1
  <2>6. \A i \in 1 .. Len(b) : /\ Resolve(Emit(b[i])) = Final(pcToIdx, b[i])
                               /\ Final(pcToIdx, b[i]) \in IrType
    <3>1. \A i \in 1 .. Len(b) : b[i] \in InsnType
      BY <2>5
    <3> QED BY <2>4, <3>1, ResolveFacts
  <2>7. /\ d \in Seq(IrType) /\ Len(d) = Len(b)
        /\ \A i \in 1 .. Len(d) : d[i] = Final(pcToIdx, b[i])
    <3> HIDE DEF b
    <3> QED BY <2>5, <2>6
  <2>8. code \in Seq(IrType) /\ Flat(pcToIdx, blocks, code, n)
    BY <2>1, <2>3 DEF Emitting
  <2> HIDE DEF d
  <2>9. Flat(pcToIdx, blocks, code \o d, n + 1)
    BY <1>0, <2>2, <2>4, <2>7, <2>8, FlatNext
  <2>10. code \o d \in Seq(IrType)
    BY <2>7, <2>8
  <2> QED BY <2>1, <2>3, <2>9, <2>10 DEF Emitting
<1>4. CASE EmitDone
  <2>1. /\ phase = "emit" /\ bb > Len(blocks) /\ phase' = "done"
        /\ UNCHANGED <<blocks, pcToIdx, code>>
    BY <1>4 DEF EmitDone
  <2>2. bb - 1 = Len(blocks)
    BY <1>0, <2>1 DEF Indexing
  <2> QED BY <2>1, <2>2 DEF Emitting
<1>5. CASE Done \/ UNCHANGED vars
  <2>1. UNCHANGED <<blocks, pcToIdx, code, phase, bb>>
    BY <1>5 DEF Done, vars
  <2> QED BY <2>1 DEF Emitting
<1> QED BY <1>1, <1>2, <1>3, <1>4, <1>5 DEF Next, Step

-----------------------------------------------------------------------------
(* The invariant and what follows from it.                                 *)

IInv == Decoding /\ Swept /\ Indexing /\ Emitting

\* It holds before anything is decoded.
LEMMA InitInvariant == Init => IInv
<1> SUFFICES ASSUME Init PROVE IInv
  OBVIOUS
<1> USE TranslationAssumption
<1>1. /\ text \in [Offset -> Outcome] /\ \A o \in Offset : o + text[o].length <= Size
      /\ offset = 0 /\ pc = 0 /\ block = << >> /\ blocks = << >>
      /\ phase = IF Size > 0 THEN "decode" ELSE "index"
      /\ bb = 1 /\ idx = 0 /\ pcToIdx = << >> /\ code = << >>
  BY DEF Init
<1>2. Decoding
  <2>1. Lined(<< >>, 0)
    BY DEF Lined
  <2>2. StopsAtUndecodable
    BY <1>1 DEF StopsAtUndecodable
  <2> QED BY <1>1, <2>1, <2>2 DEF Decoding
<1>3. Swept
  BY <1>1 DEF Swept, Stacked, Close
<1>4. Indexing
  <2>1. Numbers(<< >>, << >>, 0)
    BY DEF Numbers
  <2>2. NextIdx(<< >>, << >>, 0) = 0
    BY DEF NextIdx
  <2> QED BY <1>1, <2>1, <2>2 DEF Indexing
<1>5. Emitting
  BY <1>1 DEF Emitting
<1> QED BY <1>2, <1>3, <1>4, <1>5 DEF IInv

\* Whatever the bytes of the text decode to, the blocks lie behind one another,
\* flatten_ir's first pass numbers their instructions from 0 on without a gap,
\* and the second puts each where it was numbered.
THEOREM TranslationInvariant == Spec => []IInv
<1>1. IInv /\ [Next]_vars => IInv'
  BY SweepStep, IndexStep, EmitStep DEF IInv
<1> QED BY <1>1, InitInvariant, PTL DEF Spec

\* Instruction j of the stream c is instruction i of block b.
At(m, bs, c, j, b, i) ==
  /\ b \in 1 .. Len(bs) /\ i \in 1 .. Len(bs[b])
  /\ j = First(m, bs, b) + i
  /\ c[j] = Final(m, bs[b][i])

\* What is known of instruction j once it is in the stream.
LEMMA InStream ==
  ASSUME NEW m, NEW bs, NEW a, Stacked(bs, a), Numbers(m, bs, Len(bs)),
         NEW n, NEW c \in Seq(IrType), Flat(m, bs, c, n), NEW j \in 1 .. Len(c)
  PROVE  \E b, i : b \in 1 .. n /\ At(m, bs, c, j, b, i)
<1>1. PICK b \in 1 .. n : \E i \in 1 .. Len(bs[b]) : j = First(m, bs, b) + i
  BY DEF Flat
<1>2. PICK i \in 1 .. Len(bs[b]) : j = First(m, bs, b) + i
  BY <1>1
<1>3. c[j] = Final(m, bs[b][i])
  BY <1>2 DEF Flat
<1>4. b \in 1 .. Len(bs)
  BY DEF Flat, Stacked
<1> QED BY <1>2, <1>3, <1>4 DEF At

\* Its fields, and the number its address has.
LEMMA AtFacts ==
  ASSUME NEW m, NEW bs, NEW a, Stacked(bs, a), Numbers(m, bs, Len(bs)),
         NEW c, NEW j, NEW b, NEW i, At(m, bs, c, j, b, i)
  PROVE  /\ bs[b][i] \in InsnType
         /\ c[j].pc = bs[b][i].pc /\ c[j].length = bs[b][i].length
         /\ c[j].pc + c[j].length = End(bs[b][i])
         /\ c[j].pc \in DOMAIN m /\ m[c[j].pc] = j - 1
<1>1. bs \in Seq(Seq(InsnType) \ {<< >>})
  BY DEF Stacked
<1>2. bs[b][i] \in InsnType /\ Len(bs[b]) \in Nat
  BY <1>1, BlockOf DEF At
<1>3. c[j].pc = bs[b][i].pc /\ c[j].length = bs[b][i].length
  BY DEF At, Final
<1>4. bs[b][i].pc \in DOMAIN m /\ m[bs[b][i].pc] = First(m, bs, b) + i - 1
  BY DEF At, Numbers, First
<1>5. m[bs[b][i].pc] = j - 1
  <2>1. j = First(m, bs, b) + i /\ b \in 1 .. Len(bs) /\ i \in 1 .. Len(bs[b])
    BY DEF At
  <2>2. First(m, bs, b) \in Nat /\ i \in Nat
    BY <1>2, <2>1, FirstNext
  <2> QED BY <1>4, <2>1, <2>2
<1>6. c[j].pc + c[j].length = End(bs[b][i])
  BY <1>3 DEF End
<1> QED BY <1>2, <1>3, <1>4, <1>5, <1>6

\* Once the second pass has begun, all instructions are numbered.
LEMMA Emitted ==
  ASSUME IInv, code # << >>
  PROVE  /\ Numbers(pcToIdx, blocks, Len(blocks)) /\ Stacked(blocks, offset)
         /\ Close(text, blocks, offset) /\ code \in Seq(IrType)
         /\ \E n \in 0 .. Len(blocks) : Flat(pcToIdx, blocks, code, n)
<1>1. phase \in {"emit", "done"}
  BY DEF IInv, Emitting, Decoding
<1>2. Numbers(pcToIdx, blocks, Len(blocks)) /\ code \in Seq(IrType)
  BY <1>1 DEF IInv, Indexing, Emitting
<1>3. \E n : Flat(pcToIdx, blocks, code, n)
  BY <1>1 DEF IInv, Emitting
<1>4. \E n \in 0 .. Len(blocks) : Flat(pcToIdx, blocks, code, n)
  BY <1>3 DEF Flat
<1> QED BY <1>2, <1>4 DEF IInv, Swept

\* The variables of translate and of flatten_ir keep their types, and an index
\* flatten_ir gives is one of an instruction.
THEOREM TranslationTypes == Spec => []TypeOK
<1>1. IInv => TypeOK
  <2> SUFFICES ASSUME IInv PROVE TypeOK
    OBVIOUS
  <2>1. \E n : Numbers(pcToIdx, blocks, n)
    BY DEF IInv, Indexing, Decoding
  <2>2. \A x \in DOMAIN pcToIdx : x \in Offset /\ pcToIdx[x] \in Offset
    BY <2>1, IndexInText DEF IInv, Swept
  <2>3. \A i \in DOMAIN code : code[i].imm \in Offset
    <3>1. \A i \in DOMAIN code : code[i] \in IrType
      BY DEF IInv, Emitting
    <3> QED BY <3>1 DEF IrType
  <2> QED BY <2>2, <2>3 DEF TypeOK, IInv, Decoding, Swept, Stacked, Indexing
<1> QED BY <1>1, TranslationInvariant, PTL

\* Translator::translate leaves its loop short of the end of the text only where
\* decode_one cannot decode.
THEOREM SweepEnds == Spec => []StopsAtUndecodable
<1>1. IInv => StopsAtUndecodable
  BY DEF IInv, Decoding
<1> QED BY <1>1, TranslationInvariant, PTL

\* flatten_ir's two passes number the instructions alike, for any text.
THEOREM PassesAgree == Spec => []IndicesAgree
<1>1. IInv => IndicesAgree
  <2> SUFFICES ASSUME IInv, phase = "done", NEW j \in DOMAIN code
               PROVE  IndexOf(code[j].pc) = j - 1
    BY DEF IndicesAgree
  <2>1. code # << >> /\ j \in 1 .. Len(code)
    BY DEF IInv, Emitting
  <2>2. PICK n \in 0 .. Len(blocks) : Flat(pcToIdx, blocks, code, n)
    BY <2>1, Emitted
  <2>3. PICK b, i : b \in 1 .. n /\ At(pcToIdx, blocks, code, j, b, i)
    BY <2>1, <2>2, Emitted, InStream
  <2> QED BY <2>1, <2>3, Emitted, AtFacts DEF IndexOf
<1> QED BY <1>1, TranslationInvariant, PTL

\* Once flatten_ir is done, every jump and every call leads to the instruction
\* decoded at its target, or to index 0 when none was.
THEOREM BranchesResolved == Spec => []BranchTargets
<1>1. IInv => BranchTargets
  <2> SUFFICES ASSUME IInv, phase = "done", NEW j \in DOMAIN code,
                      code[j].kind \in Branch
               PROVE  \/ /\ code[j].imm < Len(code)
                         /\ code[code[j].imm + 1].pc = code[j].target
                      \/ /\ code[j].imm = 0
                         /\ \A k \in DOMAIN code : code[k].pc # code[j].target
    BY DEF BranchTargets
  <2>1. code # << >> /\ DOMAIN code = 1 .. Len(code) /\ Len(code) \in Nat
    BY DEF IInv, Emitting
  <2>2. /\ Numbers(pcToIdx, blocks, Len(blocks)) /\ Stacked(blocks, offset)
        /\ code \in Seq(IrType) /\ Flat(pcToIdx, blocks, code, Len(blocks))
    BY <2>1, Emitted DEF IInv, Emitting
  <2>3. \A k \in 1 .. Len(code) :
          \E b, i : b \in 1 .. Len(blocks) /\ At(pcToIdx, blocks, code, k, b, i)
    BY <2>2, InStream
  <2>4. PICK b, i : b \in 1 .. Len(blocks) /\ At(pcToIdx, blocks, code, j, b, i)
    BY <2>1, <2>3
  <2> DEFINE x == blocks[b][i]
  <2>5. code[j] = Final(pcToIdx, x)
    BY <2>4 DEF At
  <2>6. /\ code[j].kind = x.kind /\ code[j].target = x.target
        /\ code[j].imm = IF x.kind \in Branch /\ x.target \in DOMAIN pcToIdx
                         THEN pcToIdx[x.target] ELSE 0
    BY <2>5 DEF Final
  <2> HIDE DEF x
  <2>7. CASE code[j].target \in DOMAIN pcToIdx
    <3>1. code[j].imm = pcToIdx[code[j].target]
      BY <2>6, <2>7
    <3>2. PICK c \in 1 .. Len(blocks) : \E k \in 1 .. Len(blocks[c]) :
            code[j].target = blocks[c][k].pc
      BY <2>2, <2>7 DEF Numbers
    <3>3. PICK k \in 1 .. Len(blocks[c]) : code[j].target = blocks[c][k].pc
      BY <3>2
    <3>4. /\ First(pcToIdx, blocks, c) \in Nat /\ Len(blocks[c]) \in Nat
          /\ code[j].imm = First(pcToIdx, blocks, c) + k - 1
      BY <2>2, <3>1, <3>3, FirstNext
    <3>5. /\ First(pcToIdx, blocks, c) + k \in 1 .. Len(code)
          /\ code[First(pcToIdx, blocks, c) + k] = Final(pcToIdx, blocks[c][k])
      BY <2>2 DEF Flat
    <3>6. code[j].imm + 1 = First(pcToIdx, blocks, c) + k /\ code[j].imm < Len(code)
      BY <2>1, <3>4, <3>5
    <3>7. code[First(pcToIdx, blocks, c) + k].pc = code[j].target
      BY <3>3, <3>5 DEF Final
    <3> QED BY <3>6, <3>7
  <2>8. CASE code[j].target \notin DOMAIN pcToIdx
    <3>1. code[j].imm = 0
      BY <2>6, <2>8
    <3>2. \A k \in 1 .. Len(code) : code[k].pc \in DOMAIN pcToIdx
      BY <2>2, <2>3, AtFacts
    <3> QED BY <2>1, <2>8, <3>1, <3>2
  <2> QED BY <2>7, <2>8
<1> QED BY <1>1, TranslationInvariant, PTL

\* Of two instructions of the stream the first comes first in the text too.
LEMMA StreamInOrder ==
  ASSUME NEW m, NEW bs, NEW a, Stacked(bs, a), Numbers(m, bs, Len(bs)),
         NEW c, NEW j \in Nat, NEW k \in Nat, j < k,
         NEW b, NEW i, At(m, bs, c, j, b, i),
         NEW d, NEW l, At(m, bs, c, k, d, l)
  PROVE  End(bs[b][i]) <= bs[d][l].pc
<1>1. bs \in Seq(Seq(InsnType) \ {<< >>}) /\ Len(bs) \in Nat
  BY DEF Stacked
<1>2. /\ b \in 1 .. Len(bs) /\ i \in 1 .. Len(bs[b]) /\ j = First(m, bs, b) + i
      /\ d \in 1 .. Len(bs) /\ l \in 1 .. Len(bs[d]) /\ k = First(m, bs, d) + l
  BY DEF At
<1>3. /\ First(m, bs, b) \in Nat /\ First(m, bs, d) \in Nat
      /\ Len(bs[b]) \in Nat /\ Len(bs[d]) \in Nat
  BY <1>2, FirstNext
<1>4. b \in Nat /\ d \in Nat /\ i \in Nat /\ l \in Nat /\ i >= 1 /\ l <= Len(bs[d])
  BY <1>1, <1>2, <1>3
<1>5. CASE b < d
  BY <1>2, <1>5, ApartInBlocks
<1>6. CASE b = d
  <2>1. i < l
    BY <1>2, <1>3, <1>4, <1>6
  <2>2. Lined(bs[b], Start(bs[b]))
    BY <1>2 DEF Stacked
  <2> QED BY <1>2, <1>6, <2>1, <2>2 DEF Lined
<1>7. CASE d < b
  <2>1. First(m, bs, d) + Len(bs[d]) <= First(m, bs, b)
    BY <1>2, <1>7 DEF Numbers, First
  <2> QED BY <1>2, <1>3, <1>4, <2>1
<1> QED BY <1>4, <1>5, <1>6, <1>7

\* The stream the vCPUs execute keeps the order of the text, no byte of it
\* belongs to two instructions, and index 0, at which an address that is not
\* found leads, is the first byte of the text.
THEOREM StreamOrder == Spec => []InOrder
<1>1. IInv => InOrder
  <2> SUFFICES ASSUME IInv, code # << >> PROVE InOrder
    BY DEF InOrder
  <2>1. DOMAIN code = 1 .. Len(code) /\ Len(code) \in Nat \ {0}
    BY DEF IInv, Emitting
  <2>2. /\ Numbers(pcToIdx, blocks, Len(blocks)) /\ Stacked(blocks, offset)
        /\ code \in Seq(IrType)
    BY Emitted
  <2>3. PICK n \in 0 .. Len(blocks) : Flat(pcToIdx, blocks, code, n)
    BY Emitted
  <2>4. \A j \in 1 .. Len(code) :
          \E b, i : b \in 1 .. n /\ At(pcToIdx, blocks, code, j, b, i)
    BY <2>2, <2>3, InStream
  <2>5. ASSUME NEW j \in DOMAIN code, NEW k \in DOMAIN code, j < k
        PROVE  code[j].pc + code[j].length <= code[k].pc
    <3>1. PICK b, i : b \in 1 .. n /\ At(pcToIdx, blocks, code, j, b, i)
      BY <2>1, <2>4
    <3>2. PICK d, l : d \in 1 .. n /\ At(pcToIdx, blocks, code, k, d, l)
      BY <2>1, <2>4
    <3>3. j \in Nat /\ k \in Nat
      BY <2>1
    <3>4. End(blocks[b][i]) <= blocks[d][l].pc
      BY <2>2, <2>5, <3>1, <3>2, <3>3, StreamInOrder
    <3> QED BY <2>2, <3>1, <3>2, <3>4, AtFacts
  <2>6. code[1].pc = 0
    <3>1. n # 0
      BY <2>1, <2>3 DEF Flat, NextIdx
    <3>2. blocks \in Seq(Seq(InsnType) \ {<< >>}) /\ Len(blocks) \in Nat
          /\ blocks # << >> /\ 1 \in 1 .. Len(blocks) /\ 1 \in 1 .. n
      BY <2>2, <3>1 DEF Stacked
    <3>3. 1 \in 1 .. Len(blocks[1])
      BY <3>2, BlockOf
    <3>4. First(pcToIdx, blocks, 1) = 0 /\ Start(blocks[1]) = 0
      BY <2>2, <3>2 DEF Numbers, First, Stacked
    <3>5. code[0 + 1] = Final(pcToIdx, blocks[1][1])
      BY <2>3, <3>2, <3>3, <3>4 DEF Flat
    <3> QED BY <3>4, <3>5 DEF Final, Start
  <2> QED BY <2>5, <2>6 DEF InOrder
<1> QED BY <1>1, TranslationInvariant, PTL

\* Between two instructions of the stream lies nothing, or one stretch of bytes
\* that decode_one stepped over.
THEOREM OneGap == Spec => []GapIsOneInvalid
<1>1. IInv => GapIsOneInvalid
  <2> SUFFICES ASSUME IInv, NEW j \in 1 .. Len(code) - 1
               PROVE  LET next == code[j].pc + code[j].length IN
                      \/ code[j + 1].pc = next
                      \/ /\ text[next].kind = "Invalid"
                         /\ code[j + 1].pc = next + text[next].length
    BY DEF GapIsOneInvalid
  <2>1. code # << >> /\ Len(code) \in Nat
    BY DEF IInv, Emitting
  <2>2. /\ Numbers(pcToIdx, blocks, Len(blocks)) /\ Stacked(blocks, offset)
        /\ code \in Seq(IrType) /\ Close(text, blocks, offset)
    BY <2>1, Emitted
  <2>3. PICK n \in 0 .. Len(blocks) : Flat(pcToIdx, blocks, code, n)
    BY <2>1, Emitted
  <2>4. j \in 1 .. Len(code) /\ j + 1 \in 1 .. Len(code) /\ j \in Nat
    BY <2>1
  <2>5. PICK b, i : b \in 1 .. n /\ At(pcToIdx, blocks, code, j, b, i)
    BY <2>2, <2>3, <2>4, InStream
  <2>6. PICK e : e = End(blocks[b][i])
    OBVIOUS
  <2>7. code[j].pc + code[j].length = e
    BY <2>2, <2>5, <2>6, AtFacts
  <2>8. blocks \in Seq(Seq(InsnType) \ {<< >>}) /\ Len(blocks) \in Nat
        /\ b \in 1 .. Len(blocks) /\ i \in 1 .. Len(blocks[b])
    BY <2>2, <2>5 DEF Stacked, At
  <2>9. Len(blocks[b]) \in Nat /\ Lined(blocks[b], Start(blocks[b]))
    BY <2>2, <2>8, BlockOf DEF Stacked
  <2>10. j = First(pcToIdx, blocks, b) + i /\ First(pcToIdx, blocks, b) \in Nat
    BY <2>2, <2>5, <2>8, FirstNext DEF At
  <2>11. CASE i < Len(blocks[b])
    <3>1. i + 1 \in 1 .. Len(blocks[b]) /\ i \in 1 .. Len(blocks[b]) - 1
      BY <2>8, <2>9, <2>11
    <3>2. code[First(pcToIdx, blocks, b) + (i + 1)] = Final(pcToIdx, blocks[b][i + 1])
      BY <2>3, <2>5, <3>1 DEF Flat
    <3>3. First(pcToIdx, blocks, b) + (i + 1) = j + 1
      BY <2>8, <2>9, <2>10, <3>1
    <3>4. blocks[b][i + 1].pc = e
      BY <2>6, <2>9, <3>1 DEF Lined
    <3> QED BY <2>7, <3>2, <3>3, <3>4 DEF Final
  <2>12. CASE i = Len(blocks[b])
    <3>1. j = NextIdx(pcToIdx, blocks, b)
      BY <2>8, <2>10, <2>12 DEF NextIdx, First
    <3>2. b < n
      BY <2>3, <2>4, <2>5, <3>1 DEF Flat
    <3>3. b + 1 \in 1 .. n /\ b \in 1 .. Len(blocks) - 1 /\ b \in 0 .. Len(blocks) - 1
          /\ b + 1 \in 1 .. Len(blocks)
      BY <2>8, <3>2
    <3>4. First(pcToIdx, blocks, b + 1) = j
      BY <2>2, <3>1, <3>3, FirstNext
    <3>5. 1 \in 1 .. Len(blocks[b + 1])
      BY <2>8, <3>3, BlockOf
    <3>6. code[j + 1] = Final(pcToIdx, blocks[b + 1][1])
      BY <2>3, <3>3, <3>4, <3>5 DEF Flat
    <3>7. code[j + 1].pc = Start(blocks[b + 1])
      BY <3>6 DEF Final, Start
    <3>8. Behind(text, Last(blocks[b]), Start(blocks[b + 1]))
      BY <2>2, <3>3 DEF Close
    <3>9. Last(blocks[b]) = blocks[b][i]
      BY <2>12 DEF Last
    <3> QED BY <2>6, <2>7, <3>7, <3>8, <3>9 DEF Behind
  <2>13. i < Len(blocks[b]) \/ i = Len(blocks[b])
    BY <2>8, <2>9
  <2> QED BY <2>11, <2>12, <2>13
<1> QED BY <1>1, TranslationInvariant, PTL
=============================================================================
