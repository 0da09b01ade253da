------------------------------- MODULE ExecIr -------------------------------
(***************************************************************************)
(* One step of the IR interpreter, exec_ir of cuda/ir_interpreter.cuh: the *)
(* same function runs in every CUDA thread and, through cpuexec::run_ir,   *)
(* in the CPU backend.                                                     *)
(*                                                                         *)
(* The data is abstracted to what the run loop's properties tell apart.  A *)
(* memory cell stands for one 8-byte word, so RSP moves by 1; a register   *)
(* holds an unbounded integer, and the flags keep the two facts a signed   *)
(* branch reads, ZF and SF # OF.  The width of an operand and the other    *)
(* flags are the subject of module Flags.  Every way in which control can  *)
(* leave the loop (end of the code, Hlt, an unknown opcode, a trap) is     *)
(* kept.                                                                   *)
(***************************************************************************)
EXTENDS Integers

CONSTANTS
  MemSize,      \* cells in one guest RAM (GuestMemory::size)
  CodeLen,      \* flat_.code.size()
  Code          \* flat_.code: the flattened IR every vCPU executes

Addr == 0 .. MemSize - 1
Text == 0 .. CodeLen - 1
Mem  == [Addr -> Int]

Reg == {"RAX", "RDX", "RSP", "RBP", "RSI", "RDI"}

\* "Bad" stands for an opcode byte outside the enumeration.
Opcode == {"Nop", "Barrier", "LoadImm", "MovReg", "LoadMem", "StoreMem",
           "StoreMemImm", "BinOpReg", "BinOpImm", "CmpReg", "CmpImm", "Push",
           "Pop", "Lea", "Call", "Ret", "Leave", "Jmp", "Jcc", "Hlt",
           "Syscall", "Bad"}

\* aux is the subop of a BinOp and the condition of a Jcc.
Aux == {"None", "Add", "Sub", "E", "NE", "L", "GE"}

Instr == [op : Opcode, dst : Reg, src : Reg, imm : Int, disp : Int, aux : Aux]

CpuState == [gpr : [Reg -> Int], zf : BOOLEAN, lt : BOOLEAN, halt : BOOLEAN,
             syscall_pending : BOOLEAN, syscall_num : Int, syscall_ret : Int]

ASSUME CodeAssumption ==
  /\ MemSize \in Nat
  /\ CodeLen \in Nat
  /\ Code \in [Text -> Instr]

-----------------------------------------------------------------------------
(* Memory: an access outside the vCPU's RAM reads zero and writes nothing. *)

LoadMem(mem, a) == IF a \in Addr THEN mem[a] ELSE 0

StoreMem(mem, a, v) == [x \in Addr |-> IF x = a THEN v ELSE mem[x]]

-----------------------------------------------------------------------------
(* The three effects of one instruction: registers, memory, next pc.       *)

BinOpVal(ins, a, b) == IF ins.aux = "Sub" THEN a - b ELSE a + b

\* The second operand of a BinOp or a Cmp.
Rhs(ins, g) == IF ins.op \in {"BinOpImm", "CmpImm"} THEN ins.imm
                                                    ELSE g[ins.src]

RegsAfter(ins, g, mem) ==
  CASE ins.op = "LoadImm" -> [g EXCEPT ![ins.dst] = ins.imm]
    [] ins.op = "MovReg"  -> [g EXCEPT ![ins.dst] = g[ins.src]]
    [] ins.op = "Lea"     -> [g EXCEPT ![ins.dst] = g[ins.src] + ins.disp]
    [] ins.op = "LoadMem" ->
         [g EXCEPT ![ins.dst] = LoadMem(mem, g[ins.src] + ins.disp)]
    [] ins.op \in {"BinOpReg", "BinOpImm"} ->
         [g EXCEPT ![ins.dst] = BinOpVal(ins, g[ins.dst], Rhs(ins, g))]
    [] ins.op \in {"Push", "Call"} -> [g EXCEPT !["RSP"] = g["RSP"] - 1]
    [] ins.op = "Pop"   -> [g EXCEPT ![ins.dst] = LoadMem(mem, g["RSP"]),
                                     !["RSP"]   = @ + 1]
    [] ins.op = "Ret"   -> [g EXCEPT !["RSP"] = g["RSP"] + 1]
    [] ins.op = "Leave" -> [g EXCEPT !["RSP"] = g["RBP"] + 1,
                                     !["RBP"] = LoadMem(mem, g["RBP"])]
    [] OTHER -> g

\* Push stores the register after RSP has moved, so PUSH RSP stores the new
\* stack pointer; Call stores the IR index to return to.
MemAfter(ins, g, mem, pc) ==
  CASE ins.op = "StoreMem"    -> StoreMem(mem, g[ins.dst] + ins.disp, g[ins.src])
    [] ins.op = "StoreMemImm" -> StoreMem(mem, g[ins.dst] + ins.disp, ins.imm)
    [] ins.op = "Push"        -> StoreMem(mem, g["RSP"] - 1,
                                          RegsAfter(ins, g, mem)[ins.src])
    [] ins.op = "Call"        -> StoreMem(mem, g["RSP"] - 1, pc + 1)
    [] OTHER -> mem

\* What a Sub or a Cmp leaves in ZF and in SF # OF.
FlagsOf(ins, g) ==
  LET res == IF ins.op \in {"CmpReg", "CmpImm"}
             THEN g[ins.dst] - Rhs(ins, g)
             ELSE BinOpVal(ins, g[ins.dst], Rhs(ins, g))
  IN  [zf |-> res = 0, lt |-> res < 0]

SetsFlags(ins) == ins.op \in {"BinOpReg", "BinOpImm", "CmpReg", "CmpImm"}

EvalCc(cc, cpu) == CASE cc = "E"  -> cpu.zf
                     [] cc = "NE" -> ~cpu.zf
                     [] cc = "L"  -> cpu.lt
                     [] cc = "GE" -> ~cpu.lt
                     [] OTHER     -> FALSE

-----------------------------------------------------------------------------
(* One iteration of exec_ir's loop.                                        *)

\* The code ends, an instruction halts, or the opcode is unknown.
Halts(pc) == pc \notin Text \/ Code[pc].op \in {"Hlt", "Bad"}

Traps(pc) == pc \in Text /\ Code[pc].op = "Syscall"

\* exec_ir returns 1 (halt), 2 (syscall trap), or goes round its loop.
Status(pc) == CASE Halts(pc) -> "halt" [] Traps(pc) -> "syscall"
                [] OTHER -> "running"

ExecCpu(cpu, mem, pc) ==
  CASE Halts(pc) -> [cpu EXCEPT !.halt = TRUE]
    [] Traps(pc) -> [cpu EXCEPT !.syscall_num = cpu.gpr["RAX"],
                                !.syscall_pending = TRUE]
    [] OTHER ->
         LET ins == Code[pc] IN
         [cpu EXCEPT
            !.gpr = RegsAfter(ins, cpu.gpr, mem),
            !.zf  = IF SetsFlags(ins) THEN FlagsOf(ins, cpu.gpr).zf ELSE @,
            !.lt  = IF SetsFlags(ins) THEN FlagsOf(ins, cpu.gpr).lt ELSE @]

ExecMem(cpu, mem, pc) ==
  IF pc \in Text THEN MemAfter(Code[pc], cpu.gpr, mem, pc) ELSE mem

ExecPc(cpu, mem, pc) ==
  IF pc \notin Text THEN pc
  ELSE LET ins == Code[pc] IN
       CASE ins.op \in {"Jmp", "Call"} -> ins.imm
         [] ins.op = "Ret" -> LoadMem(mem, cpu.gpr["RSP"])
         [] ins.op = "Jcc" /\ EvalCc(ins.aux, cpu) -> ins.imm
         [] OTHER -> pc + 1
=============================================================================
