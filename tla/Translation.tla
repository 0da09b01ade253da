----------------------------- MODULE Translation -----------------------------
(***************************************************************************)
(* From the bytes of a guest's text to the flat IR every vCPU executes:    *)
(* Translator::translate sweeps the text block by block                    *)
(* (decode_basic_block), and flatten_ir turns the blocks into one stream   *)
(* in two passes, the first numbering the instructions, the second         *)
(* replacing the guest address in every branch by an IR index.             *)
(*                                                                         *)
(* What the bytes at an offset decode to is abstracted to an outcome: the  *)
(* instruction's kind, its length and, for a branch, its target, or one of *)
(* the two ways in which decode_one fails.  Addresses are offsets into the *)
(* text, and text is any function from offsets to outcomes, as             *)
(* instructions may overlap.                                               *)
(***************************************************************************)
EXTENDS Naturals, Sequences

CONSTANTS
  Size,       \* bytes of text (code_size_)
  MaxLength,  \* the longest instruction
  OpLength,   \* bytes decode_one reads when it finds no branch
  JumpLength, \* of a Jmp or Jcc: rel8 takes 2, rel32 5 or 6, a prefix one more
  CallLength, \* of a Call: 5, a prefix one more
  Target      \* where branches may lead: Size and beyond lie outside the text

ASSUME TranslationAssumption ==
  /\ Size \in Nat
  /\ MaxLength \in Nat \ {0}
  /\ OpLength \cup JumpLength \cup CallLength \subseteq 1 .. MaxLength
  /\ Target \subseteq Nat

Offset == 0 .. Size - 1

Branch == {"Jump", "Call"}      \* Jump: Jmp or Jcc
Ends   == {"Jump", "Return"}    \* Return: Ret, Hlt or Syscall; not a Call

\* "Invalid": decode_one steps over what it read and returns false.
\* "Stall": it returns false where it stands, as with an operand cut off.
Outcome ==
  [kind : {"Plain", "Return", "Invalid"}, length : OpLength, target : {0}]
  \cup [kind : {"Jump"}, length : JumpLength, target : Target]
  \cup [kind : {"Call"}, length : CallLength, target : Target]
  \cup [kind : {"Stall"}, length : {0}, target : {0}]

VARIABLES
  text,     \* what is found at each offset
  offset,   \* translate's offset: where the current block begins
  pc,       \* the decoder's pc_
  block,    \* the instructions decode_basic_block has collected
  blocks,   \* tu.blocks
  phase,    \* "decode", flatten_ir's two passes "index" and "emit", "done"
  bb,       \* number of the block flatten_ir is at
  idx,      \* idx
  pcToIdx,  \* pc_to_idx
  code      \* flat.code, each instruction with the outcome it came from

vars == <<text, offset, pc, block, blocks, phase, bb, idx, pcToIdx, code>>

Init ==
  /\ text \in [Offset -> Outcome]
  /\ \A o \in Offset : o + text[o].length <= Size
  /\ offset = 0
  /\ pc = 0
  /\ block = << >>
  /\ blocks = << >>
  /\ phase = IF Size > 0 THEN "decode" ELSE "index"
  /\ bb = 1
  /\ idx = 0
  /\ pcToIdx = << >>
  /\ code = << >>

-----------------------------------------------------------------------------
(* Decoding.                                                               *)

\* Mutants of CloseBlock: translate goes on when nothing was decoded; it
\* leaves its loop a byte too early; it counts instructions, not bytes.
CloseBlockNoBreak(b, p) ==
  /\ blocks' = IF b = << >> THEN blocks ELSE Append(blocks, b)
  /\ offset' = p
  /\ phase' = IF p < Size THEN "decode" ELSE "index"
  /\ pc' = p
  /\ block' = << >>
  /\ UNCHANGED <<text, bb, idx, pcToIdx, code>>

CloseBlockEarly(b, p) ==
  /\ IF b = << >> \/ p = offset
     THEN phase' = "index" /\ UNCHANGED <<blocks, offset>>
     ELSE /\ blocks' = Append(blocks, b)
          /\ offset' = p
          /\ phase' = IF p + 1 < Size THEN "decode" ELSE "index"
  /\ pc' = p
  /\ block' = << >>
  /\ UNCHANGED <<text, bb, idx, pcToIdx, code>>

CloseBlockByCount(b, p) ==
  /\ IF b = << >> \/ p = offset
     THEN phase' = "index" /\ UNCHANGED <<blocks, offset>>
     ELSE /\ blocks' = Append(blocks, b)
          /\ offset' = offset + Len(b)
          /\ phase' = IF offset' < Size THEN "decode" ELSE "index"
  /\ pc' = IF phase' = "decode" THEN offset' ELSE p
  /\ block' = << >>
  /\ UNCHANGED <<text, bb, idx, pcToIdx, code>>

\* The block b has been decoded, up to p: translate adds it and goes on
\* behind it, or stops if nothing came of it.
CloseBlock(b, p) ==
  /\ IF b = << >> \/ p = offset
     THEN phase' = "index" /\ UNCHANGED <<blocks, offset>>
     ELSE /\ blocks' = Append(blocks, b)
          /\ offset' = p
          /\ phase' = IF p < Size THEN "decode" ELSE "index"
  /\ pc' = p
  /\ block' = << >>
  /\ UNCHANGED <<text, bb, idx, pcToIdx, code>>

Insn(o) == [pc |-> o, kind |-> text[o].kind, length |-> text[o].length,
            target |-> text[o].target]

\* Mutant of DecodeOne: the instruction that ends a block is left out of it.
DecodeOneNoEnd ==
  /\ phase = "decode" /\ pc < Size
  /\ text[pc].kind \notin {"Invalid", "Stall"}
  /\ IF text[pc].kind \in Ends
     THEN CloseBlock(block, pc + text[pc].length)
     ELSE /\ block' = Append(block, Insn(pc))
          /\ pc' = pc + text[pc].length
          /\ UNCHANGED <<text, offset, blocks, phase, bb, idx, pcToIdx, code>>

\* decode_one returns true.
DecodeOne ==
  /\ phase = "decode" /\ pc < Size
  /\ text[pc].kind \notin {"Invalid", "Stall"}
  /\ IF text[pc].kind \in Ends
     THEN CloseBlock(Append(block, Insn(pc)), pc + text[pc].length)
     ELSE /\ block' = Append(block, Insn(pc))
          /\ pc' = pc + text[pc].length
          /\ UNCHANGED <<text, offset, blocks, phase, bb, idx, pcToIdx, code>>

\* decode_one returns false: no byte is left, or none it can decode.
DecodeFails ==
  /\ phase = "decode"
  /\ pc < Size => text[pc].kind \in {"Invalid", "Stall"}
  /\ CloseBlock(block, IF pc < Size THEN pc + text[pc].length ELSE pc)

-----------------------------------------------------------------------------
(* Flattening.                                                             *)

\* find, or index 0: flatten_ir's second pass and FlatIr::ir_index_for.
IndexOf(a) == IF a \in DOMAIN pcToIdx THEN pcToIdx[a] ELSE 0

\* pc_to_idx once the instructions of b are numbered from n.
Numbered(b, n) ==
  LET at == {b[i].pc : i \in DOMAIN b} IN
  [a \in at \cup DOMAIN pcToIdx |->
     IF a \in at THEN n + (CHOOSE i \in DOMAIN b : b[i].pc = a) - 1
                 ELSE pcToIdx[a]]

\* Mutants of IndexBlock and Resolve: idx restarts with every block; calls
\* keep their guest address.
IndexBlockFromZero ==
  /\ phase = "index" /\ bb <= Len(blocks)
  /\ pcToIdx' = Numbered(blocks[bb], 0)
  /\ bb' = bb + 1
  /\ UNCHANGED <<text, offset, pc, block, blocks, phase, idx, code>>

ResolveJumpsOnly(ins) ==
  [ins EXCEPT !.imm = IF ins.kind = "Jump" THEN IndexOf(@) ELSE @]

IndexBlock ==
  /\ phase = "index" /\ bb <= Len(blocks)
  /\ pcToIdx' = Numbered(blocks[bb], idx)
  /\ idx' = idx + Len(blocks[bb])
  /\ bb' = bb + 1
  /\ UNCHANGED <<text, offset, pc, block, blocks, phase, code>>

IndexDone ==
  /\ phase = "index" /\ bb > Len(blocks)
  /\ phase' = "emit"
  /\ bb' = 1
  /\ UNCHANGED <<text, offset, pc, block, blocks, idx, pcToIdx, code>>

\* emit_x86 makes one IR operation of every instruction; a branch carries the
\* guest address it leads to until flatten_ir resolves it.
Emit(insn) ==
  [pc |-> insn.pc, kind |-> insn.kind, length |-> insn.length,
   target |-> insn.target,
   imm |-> IF insn.kind \in Branch THEN insn.target ELSE 0]

Resolve(ins) ==
  [ins EXCEPT !.imm = IF ins.kind \in Branch THEN IndexOf(@) ELSE @]

EmitBlock ==
  /\ phase = "emit" /\ bb <= Len(blocks)
  /\ code' = code \o [i \in DOMAIN blocks[bb] |-> Resolve(Emit(blocks[bb][i]))]
  /\ bb' = bb + 1
  /\ UNCHANGED <<text, offset, pc, block, blocks, phase, idx, pcToIdx>>

EmitDone ==
  /\ phase = "emit" /\ bb > Len(blocks)
  /\ phase' = "done"
  /\ UNCHANGED <<text, offset, pc, block, blocks, bb, idx, pcToIdx, code>>

Step == \/ DecodeOne \/ DecodeFails
        \/ IndexBlock \/ IndexDone \/ EmitBlock \/ EmitDone

Done == phase = "done" /\ UNCHANGED vars

Next == Step \/ Done

\* translate() is straight-line host code: once called it takes its steps.
Spec == Init /\ [][Next]_vars /\ WF_vars(Step)

-----------------------------------------------------------------------------
(* Properties.                                                             *)

InsnType == [pc : Offset, kind : {"Plain", "Return"} \cup Branch,
             length : 1 .. MaxLength, target : Nat]

\* Every variable keeps its type; an IR index is one of an instruction.
TypeOK ==
  /\ text \in [Offset -> Outcome]
  /\ offset \in 0 .. Size
  /\ pc \in offset .. Size
  /\ block \in Seq(InsnType)
  /\ blocks \in Seq(Seq(InsnType) \ {<< >>})
  /\ phase \in {"decode", "index", "emit", "done"}
  /\ bb \in 1 .. Len(blocks) + 1
  /\ idx \in 0 .. Size
  /\ DOMAIN pcToIdx \subseteq Offset
  /\ \A a \in DOMAIN pcToIdx : pcToIdx[a] \in Offset
  /\ \A i \in DOMAIN code : code[i].imm \in Offset

\* The two passes of flatten_ir number the instructions alike: an address at
\* which an instruction was decoded, as that of a vCPU's entry point, has the
\* index of that very instruction.
IndicesAgree ==
  phase = "done" =>
    \A i \in DOMAIN code : IndexOf(code[i].pc) = i - 1

\* A jump or a call leads to the instruction decoded at its target, and to
\* index 0 when none was: outside the text, in the middle of an instruction,
\* or behind the point where the sweep stopped.
BranchTargets ==
  phase = "done" =>
    \A ins \in {code[i] : i \in DOMAIN code} :
      ins.kind \in Branch =>
        \/ ins.imm < Len(code) /\ code[ins.imm + 1].pc = ins.target
        \/ ins.imm = 0 /\ \A i \in DOMAIN code : code[i].pc # ins.target

\* The stream keeps the order of the text and no byte is executed as part of
\* two instructions: index 0 is the first byte of the text.
InOrder ==
  /\ \A i, j \in DOMAIN code :
       i < j => code[i].pc + code[i].length <= code[j].pc
  /\ code # << >> => code[1].pc = 0

\* Whatever follows an instruction in the stream follows it in the text, but
\* for one stretch of bytes that did not decode.
GapIsOneInvalid ==
  \A i \in 1 .. Len(code) - 1 :
    LET next == code[i].pc + code[i].length IN
    \/ code[i + 1].pc = next
    \/ text[next].kind = "Invalid" /\ code[i + 1].pc = next + text[next].length

\* The sweep stops short of the end only at bytes that do not decode.
StopsAtUndecodable ==
  phase # "decode" /\ offset < Size => text[offset].kind \in {"Invalid", "Stall"}

\* Translation ends, on any text.
Terminates == <>(phase = "done")
=============================================================================
