------------------------------ MODULE MCRunLoop ------------------------------
(***************************************************************************)
(* Instances of RunLoop for TLC: guests of a few IR instructions, N = 2 or *)
(* 3, chunks of a few steps.                                               *)
(***************************************************************************)
EXTENDS RunLoop

I(op, dst, src, imm, disp, aux) ==
  [op |-> op, dst |-> dst, src |-> src, imm |-> imm, disp |-> disp,
   aux |-> aux]

Imm(dst, v)       == I("LoadImm", dst, "RAX", v, 0, "None")
Mov(dst, src)     == I("MovReg", dst, src, 0, 0, "None")
Plain(op)         == I(op, "RAX", "RAX", 0, 0, "None")
Jump(op, to, cc)  == I(op, "RAX", "RAX", to, 0, cc)

FromSeq(s) == [k \in 0 .. Len(s) - 1 |-> s[k + 1]]

\* The shape of guest/parallel.c: every vCPU computes from its number, stores
\* the result in its RAM, writes it out and exits with its number.
ParallelGuest == FromSeq(<<
  Mov("RBP", "RDI"),
  I("StoreMem", "RDX", "RBP", 0, 2, "None"),        \* mem[2] := number
  Imm("RSI", 2), Imm("RDX", 1), Imm("RDI", 1), Imm("RAX", 1),
  Plain("Syscall"),                                 \* write(1, 2, 1)
  Mov("RDI", "RBP"), Imm("RAX", 60),
  Plain("Syscall") >>)                              \* exit(number)

\* Prints a constant of the image, then vCPU 0 halts in a subroutine it calls
\* and the others spin.
SpinGuest == FromSeq(<<
  Mov("RBP", "RDI"),
  Imm("RSI", 1), Imm("RDX", 2), Imm("RDI", 1), Imm("RAX", 1),
  Plain("Syscall"),                                 \* write(1, 1, 2)
  I("CmpImm", "RBP", "RAX", 0, 0, "None"),
  Jump("Jcc", 7, "NE"),                             \* spin unless vCPU 0
  Jump("Call", 9, "None"),
  I("Push", "RAX", "RBP", 0, 0, "None"),
  I("Pop", "RDX", "RAX", 0, 0, "None"),
  Plain("Hlt") >>)

\* Stores its number, writes it out, and exits; the vCPU numbered 1 spins.
MixedGuest == FromSeq(<<
  Mov("RBP", "RDI"),
  I("StoreMem", "RDX", "RBP", 0, 2, "None"),        \* mem[2] := number
  Imm("RSI", 2), Imm("RDX", 1), Imm("RDI", 1), Imm("RAX", 1),
  Plain("Syscall"),                                 \* write(1, 2, 1)
  I("CmpImm", "RBP", "RAX", 1, 0, "None"),
  Jump("Jcc", 8, "E"),                              \* vCPU 1 spins
  Imm("RAX", 60),
  Plain("Syscall") >>)                              \* exit(1)

SmallImage == [a \in Addr |-> 10 + a]
=============================================================================
