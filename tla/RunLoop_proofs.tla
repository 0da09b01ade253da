--------------------------- MODULE RunLoop_proofs ---------------------------
(***************************************************************************)
(* Theorems about RunLoop for every guest, every number of vCPUs, every    *)
(* chunk, budget and choice of backends.                                   *)
(***************************************************************************)
EXTENDS RunLoop, TLAPS

-----------------------------------------------------------------------------
(* The interpreter and the system calls keep their types.                  *)

\* An index of the text finds an instruction.
LEMMA CodeType ==
  ASSUME NEW pc \in Text
  PROVE  Code[pc] \in Instr
BY CodeAssumption

\* load_mem yields a word, 0 outside RAM.
LEMMA LoadMemType ==
  ASSUME NEW mem \in Mem, NEW a
  PROVE  LoadMem(mem, a) \in Int
BY DEF LoadMem, Mem

\* store_mem leaves RAM of the same size.
LEMMA StoreMemType ==
  ASSUME NEW mem \in Mem, NEW a, NEW v \in Int
  PROVE  StoreMem(mem, a, v) \in Mem
BY DEF StoreMem, Mem

\* An instruction leaves words in the registers.
LEMMA RegsAfterType ==
  ASSUME NEW ins \in Instr, NEW g \in [Reg -> Int], NEW mem \in Mem
  PROVE  RegsAfter(ins, g, mem) \in [Reg -> Int]
<1>1. ins.dst \in Reg /\ ins.src \in Reg /\ ins.imm \in Int /\ ins.disp \in Int
  BY DEF Instr
<1>2. "RSP" \in Reg /\ "RBP" \in Reg
  BY DEF Reg
<1>3. \A a : LoadMem(mem, a) \in Int
  BY LoadMemType
<1>4. BinOpVal(ins, g[ins.dst], Rhs(ins, g)) \in Int
  BY <1>1 DEF BinOpVal, Rhs
<1> QED
  BY <1>1, <1>2, <1>3, <1>4 DEF RegsAfter

\* An instruction leaves words in RAM.
LEMMA MemAfterType ==
  ASSUME NEW ins \in Instr, NEW g \in [Reg -> Int], NEW mem \in Mem,
         NEW pc \in Int
  PROVE  MemAfter(ins, g, mem, pc) \in Mem
<1>1. ins.src \in Reg /\ ins.imm \in Int
  BY DEF Instr
<1>2. RegsAfter(ins, g, mem)[ins.src] \in Int
  BY <1>1, RegsAfterType
<1>3. \A a, v : v \in Int => StoreMem(mem, a, v) \in Mem
  BY StoreMemType
<1> QED
  BY <1>1, <1>2, <1>3 DEF MemAfter

\* exec_ir keeps the types of vCPU, RAM and pc.
LEMMA ExecType ==
  ASSUME NEW cpu \in CpuState, NEW mem \in Mem, NEW pc \in Int
  PROVE  /\ ExecCpu(cpu, mem, pc) \in CpuState
         /\ ExecMem(cpu, mem, pc) \in Mem
         /\ ExecPc(cpu, mem, pc) \in Int
<1>1. cpu.gpr \in [Reg -> Int]
  BY DEF CpuState
<1>2. ExecCpu(cpu, mem, pc) \in CpuState
  <2>1. CASE Halts(pc)
    <3>1. ~Traps(pc)
      BY <2>1 DEF Halts, Traps
    <3>2. [cpu EXCEPT !.halt = TRUE] \in CpuState
      BY DEF CpuState
    <3> QED
      BY <2>1, <3>1, <3>2 DEF ExecCpu
  <2>2. CASE ~Halts(pc) /\ Traps(pc)
    BY <2>2 DEF ExecCpu, CpuState, Reg
  <2>3. CASE ~Halts(pc) /\ ~Traps(pc)
    <3> DEFINE ins == Code[pc]
    <3>1. ins \in Instr
      BY <2>3, CodeType DEF Halts
    <3>2. RegsAfter(ins, cpu.gpr, mem) \in [Reg -> Int]
      BY <1>1, <3>1, RegsAfterType
    <3>3. FlagsOf(ins, cpu.gpr).zf \in BOOLEAN /\ FlagsOf(ins, cpu.gpr).lt \in BOOLEAN
      BY DEF FlagsOf
    <3> HIDE DEF ins
    <3>4. [cpu EXCEPT
            !.gpr = RegsAfter(ins, cpu.gpr, mem),
            !.zf  = IF SetsFlags(ins) THEN FlagsOf(ins, cpu.gpr).zf ELSE @,
            !.lt  = IF SetsFlags(ins) THEN FlagsOf(ins, cpu.gpr).lt ELSE @]
          \in CpuState
      BY <3>2, <3>3 DEF CpuState
    <3> QED
      BY <2>3, <3>4 DEF ExecCpu, ins
  <2> QED
    BY <2>1, <2>2, <2>3
<1>3. ExecMem(cpu, mem, pc) \in Mem
  BY <1>1, CodeType, MemAfterType DEF ExecMem, Text
<1>4. ExecPc(cpu, mem, pc) \in Int
  <2>1. CASE pc \in Text
    <3>1. Code[pc].imm \in Int
      BY <2>1, CodeType DEF Instr
    <3> QED
      BY <2>1, <3>1, LoadMemType DEF ExecPc
  <2> QED
    BY <2>1 DEF ExecPc
<1> QED
  BY <1>2, <1>3, <1>4

\* A system call leaves a CpuState.
LEMMA DispatchType ==
  ASSUME NEW cpu \in CpuState
  PROVE  Dispatch(cpu) \in CpuState
<1>1. cpu.gpr \in [Reg -> Int] /\ "RDI" \in Reg /\ "RDX" \in Reg
  BY DEF CpuState, Reg
<1>2. DispatchRet(cpu) \in Int
  <2>1. SysRead(cpu) \in Int /\ SysWrite(cpu) \in Int
    BY <1>1 DEF SysRead, SysWrite, Enosys, Efault
  <2>2. Brk(cpu) \in Int
    BY <1>1, CodeAssumption DEF Brk
  <2> QED
    BY <1>1, <2>1, <2>2 DEF DispatchRet, Enosys
<1>3. IsExit(cpu) \in BOOLEAN
  BY DEF IsExit
<1>4. [cpu.gpr EXCEPT !["RAX"] = DispatchRet(cpu)] \in [Reg -> Int]
  BY <1>1, <1>2
<1> QED
  BY <1>2, <1>3, <1>4 DEF Dispatch, CpuState

\* What a system call prints is a sequence of words.
LEMMA PrintedType ==
  ASSUME NEW cpu \in CpuState, NEW mem \in Mem
  PROVE  Printed(cpu, mem) \in Seq(Int)
<1>1. CASE Writes(cpu)
  <2>1. cpu.gpr["RDX"] \in Nat
    BY <1>1, CodeAssumption DEF Writes, GuestPtr
  <2>2. \A k \in 1 .. cpu.gpr["RDX"] :
          LoadMem(mem, cpu.gpr["RSI"] + k - 1) \in Int
    BY LoadMemType
  <2> QED
    BY <1>1, <2>1, <2>2 DEF Printed
<1> QED
  BY <1>1 DEF Printed

\* vCPUs are added with CpuStates.
LEMMA BootType == Boot \in [VCpu -> CpuState]
<1> SUFFICES ASSUME NEW i \in VCpu
             PROVE  Boot[i] \in CpuState
  BY DEF Boot
<1> DEFINE g == [r \in Reg |-> CASE r = "RDI" -> i [] r = "RSP" -> InitRsp
                                 [] OTHER -> 0]
<1>1. i \in Int /\ InitRsp \in Int
  BY RunAssumption DEF VCpu
<1>2. g \in [Reg -> Int]
  BY <1>1
<1>3. Boot[i] = [gpr |-> g, zf |-> FALSE, lt |-> FALSE, halt |-> FALSE,
                 syscall_pending |-> FALSE, syscall_num |-> 0,
                 syscall_ret |-> 0]
  BY DEF Boot
<1> HIDE DEF g
<1> QED
  BY <1>2, <1>3 DEF CpuState

-----------------------------------------------------------------------------
(* Type correctness.                                                       *)

\* A step of exec_ir keeps the types of the variables it changes.
LEMMA ExecStepType ==
  ASSUME TypeOK, NEW i \in VCpu, NEW c \in CpuState, Exec(i, c), left[i] > 0
  PROVE  /\ ram' \in [VCpu -> Mem]
         /\ pcs' \in [VCpu -> Int]
         /\ left' \in [VCpu -> 0 .. Chunk]
         /\ executed' \in [VCpu -> Nat]
<1> USE RunAssumption
<1>1. ram[i] \in Mem /\ pcs[i] \in Int
  BY DEF TypeOK
<1>2. ExecMem(c, ram[i], pcs[i]) \in Mem /\ ExecPc(c, ram[i], pcs[i]) \in Int
  BY <1>1, ExecType
<1>3. ram' \in [VCpu -> Mem] /\ pcs' \in [VCpu -> Int]
  BY <1>2 DEF TypeOK, Exec
<1>4. left[i] \in 0 .. Chunk /\ left[i] - 1 \in 0 .. Chunk
  BY DEF TypeOK
<1>5. left' \in [VCpu -> 0 .. Chunk]
  BY <1>4 DEF TypeOK, Exec
<1>6. executed' \in [VCpu -> Nat]
  BY DEF TypeOK, Exec
<1> QED
  BY <1>3, <1>5, <1>6

\* The output of a vCPU stays a sequence.
LEMMA AppendPrinted ==
  ASSUME NEW s \in Seq(Int), NEW c \in CpuState, NEW mem \in Mem
  PROVE  s \o Printed(c, mem) \in Seq(Int)
BY PrintedType

\* The initial state has the types.
LEMMA TypeInit == Init => TypeOK
<1> SUFFICES ASSUME Init PROVE TypeOK
  OBVIOUS
<1>1. useGpu \in BOOLEAN /\ handle \in BOOLEAN /\ anyRunning \in BOOLEAN
  BY RunAssumption DEF Init
<1>2. result.halted \in BOOLEAN
  BY DEF Init
<1> QED
  BY <1>1, <1>2, RunAssumption, BootType DEF Init, TypeOK, Phase

\* Every step keeps the types.
LEMMA TypeStep == TypeOK /\ [Next]_vars => TypeOK'
<1> SUFFICES ASSUME TypeOK, [Next]_vars
             PROVE  TypeOK'
  OBVIOUS
<1> USE RunAssumption
<1>0. N \in Int /\ \A i \in VCpu : i \in 0 .. N - 1
  BY DEF VCpu
<1>1. CASE StartCpu
  <2>1. useGpu' \in BOOLEAN
    BY <1>1 DEF StartCpu
  <2> QED
    BY <1>1, <2>1 DEF StartCpu, StartRun, TypeOK, Phase
<1>2. CASE StartGpu
  BY <1>2 DEF StartGpu, StartRun, TypeOK, Phase
<1>3. CASE DisableGpu
  BY <1>3 DEF DisableGpu, TypeOK
<1>4. CASE CpuRound
  <2>1. anyRunning' \in BOOLEAN
    BY <1>4 DEF CpuRound
  <2> QED
    BY <1>4, <2>1 DEF CpuRound, shared, TypeOK, Phase
<1>5. CASE CpuSkip
  BY <1>5 DEF CpuSkip, shared, TypeOK
<1>6. CASE CpuEnter
  <2>1. anyRunning' \in BOOLEAN
    BY <1>6 DEF CpuEnter
  <2>2. left' \in [VCpu -> 0 .. Chunk] /\ left'[cur'] > 0
    BY <1>6 DEF CpuEnter, TypeOK, VCpu
  <2> QED
    BY <1>6, <2>1, <2>2 DEF CpuEnter, shared, TypeOK, Phase
<1>7. CASE CpuExec
  <2>1. cur \in VCpu /\ vcpus[cur] \in CpuState /\ left[cur] > 0
    BY <1>7 DEF CpuExec, TypeOK, VCpu
  <2>2. Exec(cur, vcpus[cur])
    BY <1>7 DEF CpuExec
  <2>3. /\ ram' \in [VCpu -> Mem] /\ pcs' \in [VCpu -> Int]
        /\ left' \in [VCpu -> 0 .. Chunk] /\ executed' \in [VCpu -> Nat]
    BY <2>1, <2>2, ExecStepType
  <2>4. vcpus' \in [VCpu -> CpuState]
    <3>1. ExecCpu(vcpus[cur], ram[cur], pcs[cur]) \in CpuState
      BY <2>1, ExecType DEF TypeOK
    <3> QED
      BY <1>7, <3>1 DEF CpuExec, TypeOK
  <2>5. cur' \in 0 .. N /\ (phase' \in {"exec", "serve", "collect"} => cur' < N)
    BY <1>0, <1>7, <2>1 DEF CpuExec, VCpu
  <2>6. phase' \in Phase /\ (phase' = "exec" => left'[cur'] > 0)
    BY <1>7 DEF CpuExec, Phase
  <2> QED
    BY <1>7, <2>3, <2>4, <2>5, <2>6 DEF CpuExec, shared, TypeOK
<1>8. CASE CpuServe
  <2>1. cur \in VCpu /\ vcpus[cur] \in CpuState
    BY <1>8 DEF CpuServe, TypeOK, VCpu
  <2>2. vcpus' \in [VCpu -> CpuState]
    BY <1>8, <2>1, DispatchType DEF CpuServe, TypeOK
  <2>3. out[cur] \o Printed(vcpus[cur], memory) \in Seq(Int)
    BY <2>1, AppendPrinted DEF TypeOK
  <2>4. out' \in [VCpu -> Seq(Int)]
    BY <1>8, <2>3 DEF CpuServe, TypeOK
  <2>5. cur' \in 0 .. N
    BY <1>8, <2>1 DEF CpuServe, VCpu
  <2> QED
    BY <1>8, <2>2, <2>4, <2>5 DEF CpuServe, shared, TypeOK, Phase
<1>9. CASE Launch
  BY <1>9 DEF Launch, shared, TypeOK, Phase
<1>10. CASE Sync
  <2>1. anyRunning' \in BOOLEAN
    BY <1>10 DEF Sync
  <2> QED
    BY <1>10, <2>1 DEF Sync, shared, TypeOK, Phase
<1>11. CASE Drain
  <2> DEFINE done == IF dev[cur].syscall_pending THEN Dispatch(dev[cur])
                                                 ELSE dev[cur]
  <2>1. cur \in VCpu /\ dev[cur] \in CpuState /\ ram[cur] \in Mem
    BY <1>11 DEF Drain, TypeOK, VCpu
  <2>2. done \in CpuState /\ done.halt \in BOOLEAN
    BY <2>1, DispatchType DEF CpuState
  <2>3. memory' = ram[cur] /\ memory' \in Mem
    BY <1>11, <2>1 DEF Drain
  <2>4. vcpus' \in [VCpu -> CpuState] /\ dev' \in [VCpu -> CpuState]
    BY <1>11, <2>2 DEF Drain, TypeOK
  <2>5. ram' \in [VCpu -> Mem]
    BY <1>11, <2>3 DEF Drain, TypeOK
  <2>6. out[cur] \o Printed(dev[cur], memory') \in Seq(Int)
    BY <2>1, <2>3, AppendPrinted DEF TypeOK
  <2>7. out' \in [VCpu -> Seq(Int)]
    BY <1>11, <2>6 DEF Drain, TypeOK
  <2>8. cur' \in 0 .. N
    BY <1>11, <2>1 DEF Drain, VCpu
  <2>9. anyRunning' \in BOOLEAN
    BY <1>11 DEF Drain
  <2> QED
    BY <1>11, <2>3, <2>4, <2>5, <2>7, <2>8, <2>9 DEF Drain, TypeOK
<1>12. CASE GpuCollect
  <2>1. cur \in VCpu /\ cur' \in 0 .. N
    BY <1>12 DEF GpuCollect, TypeOK, VCpu
  <2> QED
    BY <1>12, <2>1 DEF GpuCollect, shared, TypeOK, Phase
<1>13. CASE EndRound
  <2>1. total' \in Nat
    BY <1>13 DEF EndRound, TypeOK
  <2> QED
    BY <1>13, <2>1 DEF EndRound, shared, TypeOK, Phase
<1>14. CASE LeaveLoop
  BY <1>14 DEF LeaveLoop, shared, TypeOK, Phase
<1>15. CASE CpuCollect
  BY <1>15 DEF CpuCollect, shared, TypeOK, Phase
<1>16. CASE HandleTraps
  <2>1. \A i \in VCpu : vcpus[i] \in CpuState /\ out[i] \in Seq(Int)
    BY DEF TypeOK
  <2>2. vcpus' \in [VCpu -> CpuState]
    BY <1>16, <2>1, DispatchType DEF HandleTraps
  <2>3. \A i \in VCpu : out[i] \o Printed(vcpus[i], memory) \in Seq(Int)
    BY <2>1, AppendPrinted DEF TypeOK
  <2>4. out' \in [VCpu -> Seq(Int)]
    BY <1>16, <2>1, <2>3 DEF HandleTraps
  <2>5. result'.halted \in BOOLEAN
    BY <1>16 DEF HandleTraps
  <2> QED
    BY <1>16, <2>2, <2>4, <2>5 DEF HandleTraps, TypeOK, Phase
<1>17. ASSUME NEW i \in VCpu, KernelStep(i)
       PROVE  TypeOK'
  <2>1. dev[i] \in CpuState /\ Exec(i, dev[i]) /\ left[i] > 0
    BY <1>17 DEF KernelStep, TypeOK
  <2>2. /\ ram' \in [VCpu -> Mem] /\ pcs' \in [VCpu -> Int]
        /\ left' \in [VCpu -> 0 .. Chunk] /\ executed' \in [VCpu -> Nat]
    BY <2>1, ExecStepType
  <2>3. ExecCpu(dev[i], ram[i], pcs[i]) \in CpuState
    BY <2>1, ExecType DEF TypeOK
  <2>4. dev' \in [VCpu -> CpuState]
    BY <1>17, <2>3 DEF KernelStep, TypeOK
  <2> QED
    BY <1>17, <2>2, <2>4 DEF KernelStep, shared, TypeOK
<1>18. CASE Done \/ UNCHANGED vars
  BY <1>18 DEF Done, vars, TypeOK
<1> QED
  BY <1>1, <1>2, <1>3, <1>4, <1>5, <1>6, <1>7, <1>8, <1>9, <1>10, <1>11,
     <1>12, <1>13, <1>14, <1>15, <1>16, <1>17, <1>18
     DEF Next, HostStep, CpuStep, GpuStep

\* run() keeps the type of all its state, for every guest and configuration.
THEOREM TypeCorrect == Spec => []TypeOK
BY TypeInit, TypeStep, PTL DEF Spec

-----------------------------------------------------------------------------
(* The loop invariant.                                                     *)

\* An instruction halts its vCPU, or raises a system call, only by making
\* exec_ir return.
LEMMA ExecStatus ==
  ASSUME NEW cpu \in CpuState, NEW mem \in Mem, NEW pc \in Int
  PROVE  LET after == ExecCpu(cpu, mem, pc) IN
         /\ Status(pc) = "running" =>
              after.halt = cpu.halt /\ after.syscall_pending = cpu.syscall_pending
         /\ Status(pc) = "halt" => after.syscall_pending = cpu.syscall_pending
         /\ Status(pc) \in {"running", "halt", "syscall"}
<1>1. Halts(pc) => ~Traps(pc)
  BY DEF Halts, Traps
<1>2. Status(pc) \in {"running", "halt", "syscall"}
  BY <1>1 DEF Status
<1>3. CASE Status(pc) = "running"
  <2>1. ~Halts(pc) /\ ~Traps(pc)
    BY <1>1, <1>3 DEF Status
  <2>2. \A g, z, l :
          LET c == [cpu EXCEPT !.gpr = g, !.zf = z, !.lt = l]
          IN  c.halt = cpu.halt /\ c.syscall_pending = cpu.syscall_pending
    BY DEF CpuState
  <2>3. \E g, z, l : ExecCpu(cpu, mem, pc)
                       = [cpu EXCEPT !.gpr = g, !.zf = z, !.lt = l]
    BY <2>1 DEF ExecCpu
  <2> QED
    BY <1>3, <2>2, <2>3
<1>4. CASE Status(pc) = "halt"
  <2>1. Halts(pc) /\ ~Traps(pc)
    BY <1>1, <1>4 DEF Status
  <2>2. ExecCpu(cpu, mem, pc) = [cpu EXCEPT !.halt = TRUE]
    BY <2>1 DEF ExecCpu
  <2> QED
    BY <1>4, <2>2 DEF CpuState
<1>5. CASE Status(pc) = "syscall"
  BY <1>5
<1> QED
  BY <1>2, <1>3, <1>4, <1>5

\* An answered system call is no longer pending.
LEMMA DispatchAnswers ==
  ASSUME NEW cpu \in CpuState
  PROVE  ~Dispatch(cpu).syscall_pending
BY DEF Dispatch, CpuState

\* exec_ir goes round its loop only when the instruction neither halted the
\* vCPU nor trapped.
LEMMA ExecLeft ==
  ASSUME TypeOK, NEW i \in VCpu, NEW c \in CpuState, Exec(i, c), left[i] > 0
  PROVE  /\ \A j \in VCpu : j # i => left'[j] = left[j]
         /\ left'[i] > 0 => Status(pcs[i]) = "running"
         /\ left'[i] < left[i]
         /\ Status(pcs[i]) # "running" => left'[i] = 0
<1> QED
  BY RunAssumption DEF TypeOK, Exec

\* The invariant holds before the first run().
LEMMA LoopInit == Init => LoopInv
<1> SUFFICES ASSUME Init PROVE LoopInv
  OBVIOUS
<1>1. TypeOK
  BY TypeInit
<1>2. \A i \in VCpu : ~vcpus[i].syscall_pending
  BY DEF Init, Boot
<1> QED
  BY <1>1, <1>2 DEF Init, LoopInv, CpuInv

\* Outside the loop nothing is pending and no vCPU has steps left.
LEMMA LoopQuiet ==
  ASSUME LoopInv, phase \in {"idle", "round", "collect", "traps"}
  PROVE  /\ \A i \in VCpu : ~vcpus[i].syscall_pending /\ left[i] = 0
         /\ backend = "gpu" => vcpus = dev
<1> USE RunAssumption
<1>1. TypeOK
  BY DEF LoopInv
<1>2. CASE backend = "cpu"
  BY <1>1, <1>2 DEF LoopInv, CpuInv, TypeOK
<1>3. CASE backend = "gpu"
  <2>1. \A i \in VCpu : vcpus[i] = dev[i] /\ ~dev[i].syscall_pending
    BY <1>3 DEF LoopInv, GpuInv
  <2>2. vcpus = dev
    BY <1>1, <2>1 DEF TypeOK
  <2> QED
    BY <1>1, <1>3, <2>1, <2>2 DEF LoopInv, GpuInv, TypeOK
<1> QED
  BY <1>1, <1>2, <1>3 DEF TypeOK

\* Every step keeps the invariant.
LEMMA LoopStep == LoopInv /\ [Next]_vars => LoopInv'
<1> SUFFICES ASSUME LoopInv, [Next]_vars
             PROVE  LoopInv'
  OBVIOUS
<1> USE RunAssumption
<1>a. TypeOK /\ TypeOK'
  BY TypeStep DEF LoopInv
<1>b. backend \in {"cpu", "gpu"}
  BY <1>a DEF TypeOK
<1>1. CASE StartCpu
  <2>1. \A i \in VCpu : ~vcpus[i].syscall_pending /\ left[i] = 0
    BY <1>1, LoopQuiet DEF StartCpu, StartRun
  <2>2. CpuInv'
    BY <1>1, <2>1 DEF StartCpu, StartRun, CpuInv
  <2> QED
    BY <1>1, <1>a, <2>2 DEF StartCpu, LoopInv
<1>2. CASE StartGpu
  <2>1. \A i \in VCpu : ~vcpus[i].syscall_pending /\ left[i] = 0
    BY <1>2, LoopQuiet DEF StartGpu, StartRun
  <2>2. GpuInv'
    BY <1>2, <2>1 DEF StartGpu, StartRun, GpuInv
  <2> QED
    BY <1>2, <1>a, <2>2 DEF StartGpu, LoopInv
<1>3. CASE DisableGpu
  BY <1>3, <1>a DEF DisableGpu, LoopInv, CpuInv, GpuInv
<1>4. CASE CpuRound
  BY <1>4, <1>a DEF CpuRound, shared, LoopInv, CpuInv
<1>5. CASE CpuSkip
  BY <1>5, <1>a DEF CpuSkip, shared, LoopInv, CpuInv
<1>6. CASE CpuEnter
  <2>1. \A i \in VCpu : i # cur => left'[i] = left[i]
    BY <1>6, <1>a DEF CpuEnter, TypeOK
  <2>2. CpuInv'
    BY <1>6, <2>1 DEF CpuEnter, LoopInv, CpuInv
  <2> QED
    BY <1>6, <1>a, <2>2 DEF CpuEnter, shared, LoopInv
<1>7. CASE CpuExec
  <2>1. cur \in VCpu /\ vcpus[cur] \in CpuState /\ left[cur] > 0
        /\ ram[cur] \in Mem /\ pcs[cur] \in Int
    BY <1>7, <1>a DEF CpuExec, TypeOK, VCpu
  <2>2. backend = "cpu" /\ CpuInv /\ backend' = "cpu"
    BY <1>7, <1>b DEF CpuExec, shared, LoopInv, GpuInv
  <2> DEFINE after == ExecCpu(vcpus[cur], ram[cur], pcs[cur])
  <2>3. /\ Status(pcs[cur]) = "running" =>
             after.halt = vcpus[cur].halt
             /\ after.syscall_pending = vcpus[cur].syscall_pending
        /\ Status(pcs[cur]) = "halt" =>
             after.syscall_pending = vcpus[cur].syscall_pending
        /\ Status(pcs[cur]) \in {"running", "halt", "syscall"}
    BY <2>1, ExecStatus
  <2>4. /\ \A j \in VCpu : j # cur => left'[j] = left[j]
        /\ left'[cur] > 0 => Status(pcs[cur]) = "running"
        /\ Status(pcs[cur]) # "running" => left'[cur] = 0
    BY <1>7, <1>a, <2>1, ExecLeft DEF CpuExec
  <2>5. vcpus' = [vcpus EXCEPT ![cur] = after]
    BY <1>7 DEF CpuExec
  <2> HIDE DEF after
  <2>6. ~vcpus[cur].halt /\ ~vcpus[cur].syscall_pending
    BY <1>7, <2>1, <2>2 DEF CpuExec, CpuInv
  <2>7. vcpus'[cur] = after /\ \A j \in VCpu : j # cur => vcpus'[j] = vcpus[j]
    BY <1>a, <2>1, <2>5 DEF TypeOK
  <2>8. /\ phase' \in {"serve", "exec", "scan"}
        /\ phase' = "serve" <=> Status(pcs[cur]) = "syscall"
        /\ phase' = "exec" <=> Status(pcs[cur]) # "syscall" /\ left'[cur] > 0
        /\ phase' # "scan" => cur' = cur
    <3>1. ~(Status(pcs[cur]) = "syscall" /\ left'[cur] > 0)
      BY <2>4
    <3> QED
      BY <1>7, <3>1 DEF CpuExec
  <2>9. left'[cur] > 0 => phase' = "exec"
    BY <2>4, <2>8
  <2>10. \A i \in VCpu : vcpus'[i].syscall_pending => phase' = "serve" /\ i = cur'
    BY <2>2, <2>3, <2>6, <2>7, <2>8, <1>7 DEF CpuInv, CpuExec
  <2>11. \A i \in VCpu : left'[i] > 0 => phase' = "exec" /\ i = cur'
    BY <2>2, <2>4, <2>8, <2>9, <1>7 DEF CpuInv, CpuExec
  <2>12. phase' = "exec" => ~vcpus'[cur'].halt
    BY <2>3, <2>4, <2>6, <2>7, <2>8
  <2> QED
    BY <1>a, <2>2, <2>8, <2>10, <2>11, <2>12 DEF LoopInv, CpuInv
<1>8. CASE CpuServe
  <2>1. cur \in VCpu /\ vcpus[cur] \in CpuState
    BY <1>8, <1>a DEF CpuServe, TypeOK, VCpu
  <2>2. backend = "cpu" /\ CpuInv /\ backend' = "cpu"
    BY <1>8, <1>b DEF CpuServe, shared, LoopInv, GpuInv
  <2>3. ~vcpus'[cur].syscall_pending
    BY <1>8, <1>a, <2>1, DispatchAnswers DEF CpuServe, TypeOK
  <2>4. \A j \in VCpu : j # cur => vcpus'[j] = vcpus[j]
    BY <1>8, <1>a DEF CpuServe, TypeOK
  <2> QED
    BY <1>8, <1>a, <2>2, <2>3, <2>4 DEF CpuServe, LoopInv, CpuInv
<1>9. CASE Launch
  <2>1. \A i \in VCpu : ~dev[i].syscall_pending
    BY <1>9 DEF Launch, LoopInv, GpuInv
  <2>2. \A i \in VCpu : left'[i] > 0 => ~dev[i].halt
    BY <1>9 DEF Launch
  <2> QED
    BY <1>9, <1>a, <2>1, <2>2 DEF Launch, shared, LoopInv, GpuInv
<1>10. CASE Sync
  <2>1. backend = "gpu" /\ GpuInv
    BY <1>10, <1>b DEF Sync, LoopInv, CpuInv
  <2>2. \A i \in VCpu : 0 <= i /\ ~(i < 0)
    BY DEF VCpu
  <2> QED
    BY <1>10, <1>a, <2>1, <2>2 DEF Sync, shared, TypeOK, LoopInv, GpuInv
<1>11. CASE Drain
  <2> DEFINE done == IF dev[cur].syscall_pending THEN Dispatch(dev[cur])
                                                 ELSE dev[cur]
  <2>1. cur \in VCpu /\ dev[cur] \in CpuState
    BY <1>11, <1>a DEF Drain, TypeOK, VCpu
  <2>2. ~done.syscall_pending
    BY <2>1, DispatchAnswers
  <2>3. dev'[cur] = done /\ vcpus'[cur] = done
    BY <1>11, <1>a, <2>1 DEF Drain, TypeOK
  <2>4. \A j \in VCpu : j # cur => dev'[j] = dev[j] /\ vcpus'[j] = vcpus[j]
    BY <1>11, <1>a DEF Drain, TypeOK
  <2>5. /\ phase = "scan" /\ phase' = "scan" /\ backend = "gpu"
        /\ backend' = "gpu" /\ cur' = cur + 1 /\ left' = left
    BY <1>11 DEF Drain
  <2>6. GpuInv
    BY <2>5 DEF LoopInv
  <2> HIDE DEF done
  <2>7. \A i \in VCpu : i < cur + 1 => i < cur \/ i = cur
    BY <2>1 DEF VCpu
  <2>8. \A i \in VCpu : cur <= i /\ i # cur => cur + 1 <= i
    BY <2>1 DEF VCpu
  <2>9. GpuInv'
    BY <2>2, <2>3, <2>4, <2>5, <2>6, <2>7, <2>8 DEF GpuInv
  <2> QED
    BY <1>a, <2>5, <2>9 DEF LoopInv
<1>12. CASE GpuCollect
  <2>1. vcpus = dev /\ \A i \in VCpu : ~vcpus[i].syscall_pending
    BY <1>12, LoopQuiet DEF GpuCollect
  <2>2. vcpus' = vcpus
    BY <1>12, <1>a, <2>1 DEF GpuCollect, TypeOK
  <2> QED
    BY <1>12, <1>a, <2>1, <2>2 DEF GpuCollect, shared, LoopInv, GpuInv
<1>13. CASE EndRound
  <2>1. \A i \in VCpu : i < cur /\ ~(cur <= i)
    BY <1>13 DEF EndRound, VCpu
  <2> QED
    BY <1>13, <1>a, <1>b, <2>1 DEF EndRound, shared, LoopInv, CpuInv, GpuInv
<1>14. CASE LeaveLoop
  BY <1>14, <1>a, <1>b DEF LeaveLoop, shared, LoopInv, CpuInv, GpuInv
<1>15. CASE CpuCollect
  BY <1>15, <1>a DEF CpuCollect, shared, LoopInv, CpuInv
<1>16. CASE HandleTraps
  <2>1. \A i \in VCpu : ~vcpus[i].syscall_pending
    BY <1>16, LoopQuiet DEF HandleTraps
  <2>2. vcpus' = vcpus
    BY <1>16, <1>a, <2>1 DEF HandleTraps, TypeOK
  <2> QED
    BY <1>16, <1>a, <1>b, <2>2 DEF HandleTraps, LoopInv, CpuInv, GpuInv
<1>17. ASSUME NEW i \in VCpu, KernelStep(i)
       PROVE  LoopInv'
  <2>1. dev[i] \in CpuState /\ ram[i] \in Mem /\ pcs[i] \in Int /\ left[i] > 0
        /\ Exec(i, dev[i])
    BY <1>17, <1>a DEF KernelStep, TypeOK
  <2>2. /\ phase = "kernel" /\ phase' = "kernel" /\ backend = "gpu"
        /\ backend' = "gpu" /\ GpuInv
    BY <1>17, <1>b DEF KernelStep, shared, LoopInv, CpuInv
  <2>3. /\ \A j \in VCpu : j # i => left'[j] = left[j]
        /\ left'[i] > 0 => Status(pcs[i]) = "running"
    BY <1>a, <2>1, ExecLeft
  <2>4. Status(pcs[i]) = "running" =>
          /\ ExecCpu(dev[i], ram[i], pcs[i]).halt = dev[i].halt
          /\ ExecCpu(dev[i], ram[i], pcs[i]).syscall_pending
               = dev[i].syscall_pending
    BY <2>1, ExecStatus
  <2>5. /\ dev'[i] = ExecCpu(dev[i], ram[i], pcs[i])
        /\ \A j \in VCpu : j # i => dev'[j] = dev[j]
    BY <1>17, <1>a DEF KernelStep, TypeOK
  <2>6. \A j \in VCpu : left'[j] > 0 => ~dev'[j].halt /\ ~dev'[j].syscall_pending
    BY <2>1, <2>2, <2>3, <2>4, <2>5 DEF GpuInv
  <2>7. GpuInv'
    BY <2>2, <2>6 DEF GpuInv
  <2> QED
    BY <1>a, <2>2, <2>7 DEF LoopInv
<1>18. CASE Done \/ UNCHANGED vars
  BY <1>18, <1>a DEF Done, vars, LoopInv, CpuInv, GpuInv
<1> QED
  BY <1>1, <1>2, <1>3, <1>4, <1>5, <1>6, <1>7, <1>8, <1>9, <1>10, <1>11,
     <1>12, <1>13, <1>14, <1>15, <1>16, <1>17, <1>18
     DEF Next, HostStep, CpuStep, GpuStep

\* The loop invariant holds in every run, of either backend.
THEOREM LoopCorrect == Spec => []LoopInv
BY LoopInit, LoopStep, PTL DEF Spec

-----------------------------------------------------------------------------
(* What follows from the loop invariant.                                   *)

\* No vCPU takes a step while its system call is unanswered or once halted.
THEOREM StepsAreAnswered == Spec => []NoStepBeforeAnswer
<1>1. LoopInv => NoStepBeforeAnswer
  <2> SUFFICES ASSUME LoopInv, NEW i \in VCpu, left[i] > 0
               PROVE  ~Live(i).syscall_pending /\ ~Live(i).halt
    BY DEF NoStepBeforeAnswer
  <2>1. backend \in {"cpu", "gpu"}
    BY DEF LoopInv, TypeOK
  <2>2. CASE backend = "cpu"
    BY <2>2 DEF LoopInv, CpuInv, Live
  <2>3. CASE backend = "gpu"
    BY <2>3 DEF LoopInv, GpuInv, Live
  <2> QED
    BY <2>1, <2>2, <2>3
<1> QED
  BY <1>1, LoopCorrect, PTL

\* When a round of the loop ends, every system call has been answered.
THEOREM TrapsAreAnswered == Spec => []NoTrapLeft
<1>1. LoopInv => NoTrapLeft
  BY LoopQuiet DEF NoTrapLeft
<1> QED
  BY <1>1, LoopCorrect, PTL

\* Between launches the host's copies of the CpuStates are the device's.
THEOREM HostCoherent == Spec => []HostMatchesDevice
<1>1. LoopInv => HostMatchesDevice
  BY LoopQuiet DEF HostMatchesDevice
<1> QED
  BY <1>1, LoopCorrect, PTL

\* Isolation: while run() is in progress the RAM of a vCPU changes only in a
\* step of that vCPU, on both backends, although the GPU's drain passes every
\* vCPU's RAM through mem_.
THEOREM Isolation == Spec => RamChangesByOwnSteps
<1>1. ASSUME LoopInv, [Next]_vars
      PROVE  [ phase # "idle" =>
                 \A i \in VCpu : ram'[i] # ram[i] => left'[i] < left[i] ]_vars
  <2> SUFFICES ASSUME phase # "idle", NEW i \in VCpu, ram'[i] # ram[i]
               PROVE  left'[i] < left[i]
    OBVIOUS
  <2>1. TypeOK
    BY <1>1 DEF LoopInv
  <2>2. CASE CpuExec
    <3>1. cur \in VCpu /\ vcpus[cur] \in CpuState /\ left[cur] > 0
          /\ Exec(cur, vcpus[cur])
      BY <2>1, <2>2, RunAssumption DEF CpuExec, TypeOK, VCpu
    <3>2. i = cur
      BY <2>1, <3>1 DEF Exec, TypeOK
    <3> QED
      BY <2>1, <3>1, <3>2, ExecLeft
  <2>3. ASSUME NEW k \in VCpu, KernelStep(k)
        PROVE  left'[i] < left[i]
    <3>1. dev[k] \in CpuState /\ left[k] > 0 /\ Exec(k, dev[k])
      BY <2>1, <2>3 DEF KernelStep, TypeOK
    <3>2. i = k
      BY <2>1, <3>1 DEF Exec, TypeOK
    <3> QED
      BY <2>1, <3>1, <3>2, ExecLeft
  <2>4. CASE Drain
    \* The RAM uploaded is the RAM downloaded just before.
    <3>1. ram' = ram
      BY <2>1, <2>4 DEF Drain, TypeOK
    <3> QED
      BY <3>1
  <2>5. CASE StartCpu \/ StartGpu \/ DisableGpu \/ Done \/ UNCHANGED vars
    BY <2>5 DEF StartCpu, StartGpu, StartRun, DisableGpu, Done, vars
  <2>6. CASE CpuRound \/ CpuSkip \/ CpuEnter \/ CpuServe \/ CpuCollect
    BY <2>6 DEF CpuRound, CpuSkip, CpuEnter, CpuServe, CpuCollect
  <2>7. CASE Launch \/ Sync \/ GpuCollect \/ EndRound \/ LeaveLoop \/ HandleTraps
    BY <2>7 DEF Launch, Sync, GpuCollect, EndRound, LeaveLoop, HandleTraps
  <2> QED
    BY <1>1, <2>2, <2>3, <2>4, <2>5, <2>6, <2>7
       DEF Next, HostStep, CpuStep, GpuStep
<1> QED
  BY <1>1, LoopCorrect, PTL DEF Spec, RamChangesByOwnSteps

-----------------------------------------------------------------------------
(* After all vCPUs have halted.                                            *)

\* A further run finds every vCPU halted and idles through its loop.
Finished ==
  result.halted =>
    /\ result = [halted |-> TRUE, exit_code |-> ExitCode(vcpus)]
    /\ phase \notin {"exec", "serve"}
    /\ \A i \in VCpu : /\ vcpus[i].halt
                       /\ ~vcpus[i].syscall_pending
                       /\ left[i] = 0
                       /\ backend = "gpu" => dev[i] = vcpus[i]

\* Once all vCPUs have halted, a step leaves them so and changes nothing
\* that run() reports.
LEMMA FinishedStep ==
  ASSUME LoopInv, Finished, [Next]_vars
  PROVE  /\ Finished'
         /\ result.halted => UNCHANGED <<vcpus, result, out>>
<1> USE RunAssumption
<1>a. TypeOK /\ backend \in {"cpu", "gpu"}
  BY DEF LoopInv, TypeOK
<1>1. CASE ~result.halted
  <2>1. CASE HandleTraps
    <3>1. \A i \in VCpu : ~vcpus[i].syscall_pending /\ left[i] = 0
      BY <2>1, LoopQuiet DEF HandleTraps
    <3>2. vcpus' = vcpus /\ (backend = "gpu" => vcpus = dev)
      BY <2>1, <1>a, <3>1, LoopQuiet DEF HandleTraps, TypeOK
    <3>3. result' = [halted |-> \A i \in VCpu : vcpus'[i].halt,
                     exit_code |-> ExitCode(vcpus')]
      BY <2>1 DEF HandleTraps
    <3>4. /\ result'.halted => \A i \in VCpu : vcpus'[i].halt
          /\ result'.halted = TRUE =>
               result' = [halted |-> TRUE, exit_code |-> ExitCode(vcpus')]
      BY <3>3
    <3>5. result'.halted \in BOOLEAN
      BY <3>3
    <3>6. phase' = "idle" /\ left' = left /\ dev' = dev /\ backend' = backend
      BY <2>1 DEF HandleTraps
    <3>7. ASSUME result'.halted
          PROVE  /\ result' = [halted |-> TRUE, exit_code |-> ExitCode(vcpus')]
                 /\ phase' \notin {"exec", "serve"}
                 /\ \A i \in VCpu : /\ vcpus'[i].halt
                                    /\ ~vcpus'[i].syscall_pending
                                    /\ left'[i] = 0
                                    /\ backend' = "gpu" => dev'[i] = vcpus'[i]
      BY <3>1, <3>2, <3>4, <3>5, <3>6, <3>7
    <3> QED
      BY <1>1, <3>7 DEF Finished, ExitCode
  <2>2. CASE UNCHANGED result
    BY <1>1, <2>2 DEF Finished
  <2>3. HandleTraps \/ UNCHANGED result
    BY DEF Next, HostStep, CpuStep, GpuStep, vars, shared, StartCpu, StartGpu,
           StartRun, DisableGpu, Done, CpuRound, CpuSkip, CpuEnter, CpuExec,
           CpuServe, CpuCollect, Launch, Sync, Drain, GpuCollect, EndRound,
           LeaveLoop, KernelStep
  <2> QED
    BY <1>1, <2>1, <2>2, <2>3
<1>2. CASE result.halted
  <2>a. /\ result = [halted |-> TRUE, exit_code |-> ExitCode(vcpus)]
        /\ phase \notin {"exec", "serve"}
        /\ \A i \in VCpu : /\ vcpus[i].halt
                           /\ ~vcpus[i].syscall_pending
                           /\ left[i] = 0
                           /\ backend = "gpu" => dev[i] = vcpus[i]
    BY <1>2 DEF Finished
  <2>1. CASE StartCpu \/ StartGpu
    BY <2>1, <2>a DEF StartCpu, StartGpu, StartRun, Finished, ExitCode
  <2>2. CASE DisableGpu \/ Done \/ UNCHANGED vars
    BY <2>2, <2>a DEF DisableGpu, Done, vars, Finished, ExitCode
  <2>3. CASE CpuRound \/ CpuSkip \/ CpuCollect \/ Sync \/ EndRound \/ LeaveLoop
    BY <2>3, <2>a DEF CpuRound, CpuSkip, CpuCollect, Sync, EndRound, LeaveLoop,
                      shared, Finished, ExitCode
  <2>4. CASE CpuEnter
    BY <2>4, <1>a, <2>a DEF CpuEnter, TypeOK, VCpu
  <2>5. CASE CpuExec \/ CpuServe
    BY <2>5, <2>a DEF CpuExec, CpuServe
  <2>6. CASE Launch
    <3>1. \A i \in VCpu : left'[i] = 0
      BY <2>6, <2>a DEF Launch
    <3> QED
      BY <2>6, <2>a, <3>1 DEF Launch, shared, Finished, ExitCode
  <2>7. CASE Drain
    <3>1. cur \in VCpu
      BY <2>7, <1>a DEF Drain, TypeOK, VCpu
    <3>2. backend = "gpu" /\ dev[cur] = vcpus[cur] /\ ~dev[cur].syscall_pending
      BY <2>7, <2>a, <3>1 DEF Drain
    <3>3. vcpus' = vcpus /\ dev' = dev /\ out' = out
      BY <2>7, <1>a, <3>1, <3>2 DEF Drain, TypeOK
    <3>4. ExitCode(vcpus)' = ExitCode(vcpus)
      BY <3>3 DEF ExitCode
    <3>5. /\ result' = result /\ phase' = phase /\ left' = left
          /\ backend' = backend
      BY <2>7 DEF Drain
    <3> QED
      BY <2>a, <3>3, <3>4, <3>5 DEF Finished
  <2>8. CASE GpuCollect
    <3>1. cur \in VCpu /\ backend = "gpu"
      BY <2>8, <1>a DEF GpuCollect, TypeOK, VCpu
    <3>2. vcpus' = vcpus
      BY <2>8, <1>a, <2>a, <3>1 DEF GpuCollect, TypeOK
    <3>3. ExitCode(vcpus)' = ExitCode(vcpus)
      BY <3>2 DEF ExitCode
    <3>4. /\ result' = result /\ phase' \in {"collect", "traps"} /\ left' = left
          /\ backend' = backend /\ dev' = dev /\ out' = out
      BY <2>8 DEF GpuCollect, shared
    <3> QED
      BY <2>a, <3>2, <3>3, <3>4 DEF Finished
  <2>9. CASE HandleTraps
    <3>1. vcpus' = vcpus /\ out' = out
      BY <2>9, <1>a, <2>a DEF HandleTraps, TypeOK
    <3>2. \A i \in VCpu : vcpus'[i].halt
      BY <2>a, <3>1
    <3>3. result' = [halted |-> TRUE, exit_code |-> ExitCode(vcpus')]
      BY <2>9, <3>2 DEF HandleTraps
    <3>4. result' = result
      BY <2>a, <3>1, <3>3 DEF ExitCode
    <3> QED
      BY <2>9, <2>a, <3>1, <3>4 DEF HandleTraps, Finished, ExitCode
  <2>10. ASSUME NEW i \in VCpu, KernelStep(i)
         PROVE  FALSE
    BY <2>10, <2>a DEF KernelStep
  <2> QED
    BY <2>1, <2>2, <2>3, <2>4, <2>5, <2>6, <2>7, <2>8, <2>9, <2>10
       DEF Next, HostStep, CpuStep, GpuStep
<1> QED
  BY <1>1, <1>2

\* Once run() has reported that all vCPUs halted, calling it again, on either
\* backend, changes no register, prints nothing and reports the same.
THEOREM FinishedStays == Spec => FinishedForGood
<1>1. Init => Finished
  BY DEF Init, Finished
<1>2. LoopInv /\ Finished /\ [Next]_vars =>
        Finished' /\ [result.halted => UNCHANGED <<vcpus, result, out>>]_vars
  BY FinishedStep
<1> QED
  BY <1>1, <1>2, LoopCorrect, PTL DEF Spec, FinishedForGood

-----------------------------------------------------------------------------
(* The step budget.                                                        *)

\* No budget is so large that total, which is unsigned, wraps before it is
\* reached.
NoWrap == \A b \in Budgets : b + Chunk <= TotalMod

\* How far the steps taken, and those exec_ir may still take, can be ahead of
\* the steps charged.
Charged ==
  /\ phase # "idle" => maxSteps \in Budgets
  /\ \A i \in VCpu : executed[i] < maxSteps + Chunk
  /\ phase = "round" => \A i \in VCpu : executed[i] <= total
  /\ phase \in {"scan", "exec", "serve", "kernel"} =>
       /\ total < maxSteps
       /\ \A i \in VCpu : executed[i] + left[i] <= total + Chunk
       /\ backend = "cpu" => \A i \in VCpu :
            cur < i \/ (cur = i /\ phase = "scan") => executed[i] <= total

\* A step of exec_ir takes from what is left what it adds to the steps taken.
LEMMA ExecCharged ==
  ASSUME TypeOK, Charged, phase \in {"exec", "kernel"}, maxSteps' = maxSteps,
         total' = total,
         NEW i \in VCpu, NEW c \in CpuState, Exec(i, c), left[i] > 0
  PROVE  /\ \A j \in VCpu : /\ executed'[j] + left'[j] <= total + Chunk
                            /\ executed'[j] < maxSteps + Chunk
         /\ \A j \in VCpu : j # i => executed'[j] = executed[j]
<1> USE RunAssumption
<1>1. executed'[i] <= executed[i] + 1 /\ executed'[i] \in Nat
  BY DEF TypeOK, Exec
<1>2. left'[i] <= left[i] - 1 /\ left'[i] \in Nat
  BY DEF TypeOK, Exec
<1>3. \A j \in VCpu : j # i => executed'[j] = executed[j] /\ left'[j] = left[j]
  BY DEF TypeOK, Exec
<1>4. total < maxSteps /\ executed[i] + left[i] <= total + Chunk
  BY DEF Charged
<1>5. executed[i] \in Nat /\ left[i] \in Nat /\ total \in Nat /\ maxSteps \in Nat
  BY DEF TypeOK
<1>6. executed'[i] + left'[i] <= total + Chunk /\ executed'[i] < maxSteps + Chunk
  BY <1>1, <1>2, <1>4, <1>5
<1> QED
  BY <1>3, <1>6 DEF Charged

\* Every step keeps the steps taken within those charged.
LEMMA BudgetStep ==
  ASSUME NoWrap, LoopInv, Charged, [Next]_vars
  PROVE  Charged'
<1> USE RunAssumption
<1>a. TypeOK
  BY DEF LoopInv
<1>b. \A i \in VCpu : executed[i] \in Nat /\ left[i] \in Nat /\ i \in Int /\ 0 <= i
                     /\ i < N
  BY <1>a DEF TypeOK, VCpu
<1>c. total \in Nat /\ maxSteps \in Nat /\ cur \in Int /\ backend \in {"cpu", "gpu"}
  BY <1>a DEF TypeOK
<1>d. phase \in {"idle", "round", "scan", "collect", "traps"} =>
        \A i \in VCpu : left[i] = 0
  BY <1>b, <1>c DEF LoopInv, CpuInv, GpuInv
<1>1. CASE StartCpu \/ StartGpu
  <2>1. /\ maxSteps' \in Budgets /\ maxSteps' \in Nat
        /\ phase' = "round" /\ total' = 0
        /\ \A i \in VCpu : executed'[i] = 0
    BY <1>1 DEF StartCpu, StartGpu, StartRun
  <2> QED
    BY <2>1 DEF Charged
<1>2. CASE DisableGpu \/ Done \/ UNCHANGED vars
  BY <1>2 DEF DisableGpu, Done, vars, Charged
<1>3. CASE CpuRound
  BY <1>3, <1>b, <1>c, <1>d DEF CpuRound, shared, Charged
<1>4. CASE CpuSkip
  BY <1>4, <1>b, <1>c DEF CpuSkip, shared, Charged
<1>5. CASE CpuEnter
  <2>1. cur \in VCpu
    BY <1>5, <1>a DEF CpuEnter, TypeOK, VCpu
  <2>2. \A i \in VCpu : left'[i] = IF i = cur THEN Chunk ELSE left[i]
    BY <1>5, <1>a DEF CpuEnter, TypeOK
  <2> QED
    BY <1>5, <1>b, <1>c, <2>1, <2>2 DEF CpuEnter, shared, Charged
<1>6. CASE CpuExec
  <2>1. cur \in VCpu /\ vcpus[cur] \in CpuState /\ left[cur] > 0
        /\ Exec(cur, vcpus[cur])
    BY <1>6, <1>a DEF CpuExec, TypeOK, VCpu
  <2>2. /\ maxSteps' = maxSteps /\ total' = total /\ backend' = backend
        /\ phase = "exec" /\ phase' \in {"exec", "serve", "scan"}
        /\ phase' = "scan" => cur' = cur + 1
        /\ phase' # "scan" => cur' = cur
    BY <1>6 DEF CpuExec, shared
  <2>3. /\ \A j \in VCpu : /\ executed'[j] + left'[j] <= total + Chunk
                           /\ executed'[j] < maxSteps + Chunk
        /\ \A j \in VCpu : j # cur => executed'[j] = executed[j]
    BY <1>a, <2>1, <2>2, ExecCharged
  <2>4. backend = "cpu"
    BY <1>c, <2>2 DEF LoopInv, GpuInv
  <2>5. \A j \in VCpu : cur' < j \/ (cur' = j /\ phase' = "scan") => cur < j
    BY <1>b, <1>c, <2>2
  <2>6. \A j \in VCpu : cur < j => executed'[j] <= total
    BY <1>b, <1>c, <2>2, <2>3, <2>4 DEF Charged
  <2> QED
    BY <2>2, <2>3, <2>5, <2>6 DEF Charged
<1>7. CASE CpuServe
  BY <1>7, <1>b, <1>c DEF CpuServe, shared, Charged
<1>8. CASE Launch
  <2>1. \A i \in VCpu : left'[i] <= Chunk /\ left'[i] \in Nat
    BY <1>8 DEF Launch
  <2> QED
    BY <1>8, <1>b, <1>c, <2>1 DEF Launch, shared, Charged
<1>9. CASE Sync
  <2>1. backend = "gpu"
    BY <1>9, <1>c DEF Sync, LoopInv, CpuInv
  <2> QED
    BY <1>9, <1>b, <1>c, <2>1 DEF Sync, shared, Charged
<1>10. CASE Drain
  BY <1>10, <1>b, <1>c DEF Drain, Charged
<1>11. CASE EndRound
  <2>1. total' = total + Chunk
    <3>1. maxSteps \in Budgets /\ total < maxSteps
      BY <1>11 DEF EndRound, Charged
    <3>2. total + Chunk \in 0 .. TotalMod - 1
      BY <1>c, <3>1 DEF NoWrap
    <3>3. total' = (total + Chunk) % TotalMod
      BY <1>11 DEF EndRound
    <3> HIDE RunAssumption
    <3>4. \A a, m \in Nat : a < m => a % m = a
      OBVIOUS
    <3> QED
      BY <1>c, <3>2, <3>3, <3>4, RunAssumption
  <2> QED
    BY <1>11, <1>b, <1>c, <1>d, <2>1 DEF EndRound, shared, Charged
<1>12. CASE LeaveLoop \/ CpuCollect \/ GpuCollect \/ HandleTraps
  BY <1>12 DEF LeaveLoop, CpuCollect, GpuCollect, HandleTraps, shared, Charged
<1>13. ASSUME NEW i \in VCpu, KernelStep(i)
       PROVE  Charged'
  <2>1. dev[i] \in CpuState /\ left[i] > 0 /\ Exec(i, dev[i])
    BY <1>13, <1>a DEF KernelStep, TypeOK
  <2>2. /\ maxSteps' = maxSteps /\ total' = total /\ backend' = backend
        /\ phase = "kernel" /\ phase' = "kernel"
    BY <1>13 DEF KernelStep, shared
  <2>3. \A j \in VCpu : /\ executed'[j] + left'[j] <= total + Chunk
                        /\ executed'[j] < maxSteps + Chunk
    BY <1>a, <2>1, <2>2, ExecCharged
  <2>4. backend = "gpu"
    BY <1>c, <2>2 DEF LoopInv, CpuInv
  <2> QED
    BY <2>2, <2>3, <2>4 DEF Charged
<1> QED
  BY <1>1, <1>2, <1>3, <1>4, <1>5, <1>6, <1>7, <1>8, <1>9, <1>10, <1>11,
     <1>12, <1>13 DEF Next, HostStep, CpuStep, GpuStep

\* Unless total wraps, a vCPU takes fewer than max_steps + chunk steps in one
\* run, on either backend.
THEOREM BudgetKept == ASSUME NoWrap PROVE Spec => []WithinBudget
<1>1. Init => Charged
  BY RunAssumption DEF Init, Charged
<1>2. Charged => WithinBudget
  BY DEF Charged, WithinBudget
<1>3. LoopInv /\ Charged /\ [Next]_vars => Charged'
  BY NoWrap, BudgetStep
<1> QED
  BY <1>1, <1>2, <1>3, LoopCorrect, PTL DEF Spec

-----------------------------------------------------------------------------
(* Progress of every vCPU.                                                 *)

\* vCPU i has taken a step in every round charged so far, and also in the
\* round that is in progress.
Due(i)     == executed[i] * Chunk >= total
Stepped(i) == executed[i] * Chunk >= total + Chunk

\* Where in a round a vCPU that has not halted has had its turn, and that
\* any_running knows of it.
Fed ==
  /\ phase \in {"scan", "exec", "serve", "kernel"} => total < maxSteps
  /\ phase = "exec" => anyRunning
  /\ phase = "round" => \A i \in VCpu : Live(i).halt \/ Due(i)
  /\ phase \in {"scan", "exec", "serve"} /\ backend = "cpu" =>
       \A i \in VCpu :
         /\ vcpus[i].halt \/ Due(i)
         /\ i < cur \/ (i = cur /\ phase = "serve") =>
              vcpus[i].halt \/ (anyRunning /\ Stepped(i))
  /\ phase = "kernel" =>
       \A i \in VCpu : dev[i].halt \/ Stepped(i) \/ (left[i] > 0 /\ Due(i))
  /\ phase = "scan" /\ backend = "gpu" =>
       \A i \in VCpu : /\ dev[i].halt \/ Stepped(i)
                       /\ i < cur => dev[i].halt \/ anyRunning
  /\ phase \in {"collect", "traps"} =>
       \A i \in VCpu : Live(i).halt \/ executed[i] * Chunk >= maxSteps

\* A step more covers a chunk more.
LEMMA StepCovers ==
  ASSUME NEW e \in Nat, NEW c \in Nat \ {0}, NEW t \in Nat
  PROVE  /\ e * c \in Nat
         /\ (e + 1) * c = e * c + c
         /\ e * c >= e
<1>1. e * c \in Nat
  OBVIOUS
<1>2. (e + 1) * c = e * c + c
  OBVIOUS
<1>3. \A d \in Nat : e * (d + 1) = e * d + e /\ e * d \in Nat
  OBVIOUS
<1>4. c - 1 \in Nat /\ c = (c - 1) + 1
  OBVIOUS
<1>5. e * c = e * (c - 1) + e /\ e * (c - 1) \in Nat
  BY <1>3, <1>4
<1> QED
  BY <1>1, <1>2, <1>5

\* A step of exec_ir takes the vCPU through the round, and no other back.
LEMMA ExecFed ==
  ASSUME TypeOK, total < maxSteps, total' = total, maxSteps' = maxSteps,
         NEW i \in VCpu, NEW c \in CpuState, Exec(i, c), left[i] > 0
  PROVE  /\ \A j \in VCpu : (Due(j) => Due(j)') /\ (Stepped(j) => Stepped(j)')
         /\ Due(i) => Stepped(i)'
<1> USE RunAssumption
<1>1. /\ total \in Nat /\ maxSteps \in Nat /\ Chunk \in Nat \ {0}
      /\ \A j \in VCpu : executed[j] \in Nat
  BY DEF TypeOK
<1>2. /\ \A j \in VCpu : j # i => executed'[j] = executed[j]
      /\ executed'[i] = IF executed[i] < maxSteps + Chunk THEN executed[i] + 1
                                                         ELSE executed[i]
  BY DEF TypeOK, Exec
<1>3. \A j \in VCpu : j # i => (Due(j) => Due(j)') /\ (Stepped(j) => Stepped(j)')
  BY <1>2 DEF Due, Stepped
<1>4. PICK e \in Nat : e = executed[i]
  BY <1>1
<1>5. /\ e * Chunk \in Nat /\ (e + 1) * Chunk = e * Chunk + Chunk
      /\ e * Chunk >= e
  BY <1>1, StepCovers
<1>6. CASE e < maxSteps + Chunk
  <2>1. executed'[i] * Chunk = e * Chunk + Chunk
    BY <1>2, <1>4, <1>5, <1>6
  <2> QED
    BY <1>1, <1>3, <1>4, <1>5, <2>1 DEF Due, Stepped
<1>7. CASE ~(e < maxSteps + Chunk)
  <2>1. executed'[i] = e
    BY <1>2, <1>4, <1>7
  <2>2. e * Chunk >= total + Chunk
    BY <1>1, <1>5, <1>7
  <2> QED
    BY <1>1, <1>3, <1>4, <2>1, <2>2 DEF Due, Stepped
<1> QED
  BY <1>6, <1>7

\* A vCPU that has halted stays so, whatever is done for it.
LEMMA HaltStays ==
  ASSUME NEW cpu \in CpuState, cpu.halt
  PROVE  Dispatch(cpu).halt
BY DEF Dispatch, CpuState

\* Every step keeps the vCPUs fed.
LEMMA FedStep ==
  ASSUME LoopInv, Fed, [Next]_vars
  PROVE  Fed'
<1> USE RunAssumption
<1>a. TypeOK /\ TypeOK'
  BY TypeStep DEF LoopInv
<1>b. /\ total \in Nat /\ maxSteps \in Nat /\ cur \in Int
      /\ backend \in {"cpu", "gpu"} /\ Chunk \in Nat \ {0}
      /\ \A i \in VCpu : executed[i] \in Nat /\ i \in Int /\ 0 <= i /\ i < N
  <2>1. total \in Nat /\ maxSteps \in Nat /\ cur \in Int /\ backend \in {"cpu", "gpu"}
    BY <1>a DEF TypeOK
  <2>2. \A i \in VCpu : executed[i] \in Nat
    BY <1>a DEF TypeOK
  <2>3. \A i \in VCpu : i \in Int /\ 0 <= i /\ i < N
    BY DEF VCpu
  <2> QED
    BY <2>1, <2>2, <2>3
<1>c. \A i \in VCpu : executed[i] * Chunk \in Nat
  BY <1>b, StepCovers
<1>d. ASSUME UNCHANGED <<executed, total>>, NEW i \in VCpu
      PROVE  (Due(i) <=> Due(i)') /\ (Stepped(i) <=> Stepped(i)')
  BY <1>d DEF Due, Stepped
<1>1. CASE StartCpu \/ StartGpu
  <2>1. phase' = "round" /\ total' = 0 /\ \A i \in VCpu : executed'[i] = 0
    BY <1>1 DEF StartCpu, StartGpu, StartRun
  <2>2. \A i \in VCpu : Due(i)'
    BY <1>b, <2>1 DEF Due
  <2> QED
    BY <2>1, <2>2 DEF Fed
<1>2. CASE DisableGpu \/ Done \/ UNCHANGED vars
  BY <1>2 DEF DisableGpu, Done, vars, Fed, Live, Due, Stepped
<1>3. CASE CpuRound
  <2>1. \A i \in VCpu : vcpus[i].halt \/ Due(i)
    BY <1>3 DEF CpuRound, Fed, Live
  <2>2. \A i \in VCpu : ~(i < 0) /\ (Due(i) => Due(i)')
    BY <1>3, <1>b, <1>d DEF CpuRound
  <2> QED
    BY <1>3, <2>1, <2>2 DEF CpuRound, shared, Fed
<1>4. CASE CpuSkip
  <2>1. \A i \in VCpu : i < cur + 1 => i < cur \/ i = cur
    BY <1>b
  <2>2. \A i \in VCpu : (Due(i) <=> Due(i)') /\ (Stepped(i) <=> Stepped(i)')
    BY <1>4, <1>d DEF CpuSkip
  <2> QED
    BY <1>4, <2>1, <2>2 DEF CpuSkip, shared, Fed
<1>5. CASE CpuEnter
  <2>1. \A i \in VCpu : (Due(i) <=> Due(i)') /\ (Stepped(i) <=> Stepped(i)')
    BY <1>5, <1>d DEF CpuEnter
  <2> QED
    BY <1>5, <2>1 DEF CpuEnter, shared, Fed
<1>6. CASE CpuExec
  <2>1. cur \in VCpu /\ vcpus[cur] \in CpuState /\ left[cur] > 0
        /\ Exec(cur, vcpus[cur])
    BY <1>6, <1>a DEF CpuExec, TypeOK, VCpu
  <2>2. /\ maxSteps' = maxSteps /\ total' = total /\ backend' = backend
        /\ phase = "exec" /\ phase' \in {"exec", "serve", "scan"}
        /\ phase' = "scan" => cur' = cur + 1
        /\ phase' # "scan" => cur' = cur
        /\ anyRunning' = anyRunning
    BY <1>6 DEF CpuExec, shared
  <2>3. backend = "cpu" /\ ~vcpus[cur].halt
    BY <1>b, <2>2 DEF LoopInv, CpuInv, GpuInv
  <2>4. total < maxSteps /\ anyRunning /\ Due(cur)
    BY <2>1, <2>2, <2>3 DEF Fed
  <2>5. PICK k \in VCpu : k = cur
    BY <2>1
  <2>6. /\ \A j \in VCpu : (Due(j) => Due(j)') /\ (Stepped(j) => Stepped(j)')
        /\ Due(k) => Stepped(k)'
    BY <1>a, <2>1, <2>2, <2>4, <2>5, ExecFed
  <2>7. Due(k)' /\ Stepped(k)'
    BY <2>4, <2>5, <2>6
  <2>8. \A j \in VCpu : j # k => vcpus'[j] = vcpus[j]
    BY <1>6, <1>a, <2>5 DEF CpuExec, TypeOK
  <2>9. \A j \in VCpu : j < cur' \/ (j = cur' /\ phase' = "serve") =>
          j < cur \/ j = k
    BY <1>b, <2>2, <2>5
  <2>10. \A j \in VCpu :
           /\ vcpus'[j].halt \/ Due(j)'
           /\ j < cur \/ j = k => vcpus'[j].halt \/ (anyRunning /\ Stepped(j)')
    BY <2>2, <2>3, <2>4, <2>6, <2>7, <2>8 DEF Fed
  <2> QED
    BY <2>2, <2>3, <2>4, <2>9, <2>10 DEF Fed
<1>7. CASE CpuServe
  <2>1. cur \in VCpu /\ vcpus[cur] \in CpuState /\ backend = "cpu"
    BY <1>7, <1>a, <1>b DEF CpuServe, TypeOK, VCpu, LoopInv, GpuInv
  <2>2. \A i \in VCpu : (Due(i) <=> Due(i)') /\ (Stepped(i) <=> Stepped(i)')
    BY <1>7, <1>d DEF CpuServe
  <2>3. \A i \in VCpu : vcpus[i].halt => vcpus'[i].halt
    BY <1>7, <1>a, <2>1, HaltStays DEF CpuServe, TypeOK
  <2>4. \A i \in VCpu : i < cur + 1 => i < cur \/ i = cur
    BY <1>b
  <2> QED
    BY <1>7, <2>1, <2>2, <2>3, <2>4 DEF CpuServe, shared, Fed
<1>8. CASE Launch
  <2>1. \A i \in VCpu : dev[i].halt \/ Due(i)
    BY <1>8 DEF Launch, Fed, Live
  <2>2. \A i \in VCpu : Due(i) => Due(i)'
    BY <1>8, <1>d DEF Launch
  <2>3. \A i \in VCpu : ~dev[i].halt => left'[i] > 0
    BY <1>8 DEF Launch
  <2> QED
    BY <1>8, <2>1, <2>2, <2>3 DEF Launch, shared, Fed
<1>9. CASE Sync
  <2>1. backend = "gpu" /\ \A i \in VCpu : dev[i].halt \/ Stepped(i)
    BY <1>9, <1>b DEF Sync, LoopInv, CpuInv, Fed
  <2>2. \A i \in VCpu : (Stepped(i) => Stepped(i)') /\ ~(i < 0)
    BY <1>9, <1>b, <1>d DEF Sync
  <2> QED
    BY <1>9, <2>1, <2>2 DEF Sync, shared, Fed
<1>10. CASE Drain
  <2> DEFINE done == IF dev[cur].syscall_pending THEN Dispatch(dev[cur])
                                                 ELSE dev[cur]
  <2>1. cur \in VCpu /\ dev[cur] \in CpuState
    BY <1>10, <1>a DEF Drain, TypeOK, VCpu
  <2>2. dev[cur].halt => done.halt
    BY <2>1, HaltStays
  <2>3. dev'[cur] = done /\ \A j \in VCpu : j # cur => dev'[j] = dev[j]
    BY <1>10, <1>a, <2>1 DEF Drain, TypeOK
  <2>4. /\ phase = "scan" /\ phase' = "scan" /\ backend = "gpu"
        /\ backend' = "gpu" /\ cur' = cur + 1 /\ UNCHANGED <<total, executed, maxSteps>>
        /\ anyRunning' = (anyRunning \/ ~done.halt)
    BY <1>10 DEF Drain
  <2> HIDE DEF done
  <2>5. \A i \in VCpu : Stepped(i) => Stepped(i)'
    BY <1>d, <2>4
  <2>6. \A i \in VCpu : i < cur + 1 => i < cur \/ i = cur
    BY <1>b
  <2> QED
    BY <2>2, <2>3, <2>4, <2>5, <2>6 DEF Fed
<1>11. CASE EndRound
  <2>1. \A i \in VCpu : i < cur
    BY <1>11, <1>b DEF EndRound
  <2>2. \A i \in VCpu : Live(i).halt \/ (anyRunning /\ Stepped(i))
    BY <1>11, <1>b, <2>1 DEF EndRound, Fed, Live
  <2>3. total' = (total + Chunk) % TotalMod /\ total' <= total + Chunk
    <3>1. \A a \in Nat, m \in Nat \ {0} : a % m <= a
      OBVIOUS
    <3> QED
      BY <1>11, <1>b, <3>1 DEF EndRound
  <2>4. \A i \in VCpu : Stepped(i) => Due(i)'
    <3>1. executed' = executed /\ total' \in Nat
      BY <1>11, <1>a DEF EndRound, TypeOK
    <3> QED
      BY <1>b, <1>c, <2>3, <3>1 DEF Stepped, Due
  <2>5. phase' = (IF anyRunning THEN "round" ELSE "collect")
    BY <1>11 DEF EndRound
  <2>6. \A i \in VCpu : Live(i)' = Live(i)
    BY <1>11 DEF EndRound, shared, Live
  <2> QED
    BY <2>2, <2>4, <2>5, <2>6 DEF Fed
<1>12. CASE LeaveLoop
  <2>1. \A i \in VCpu : Live(i).halt \/ Due(i)
    BY <1>12 DEF LeaveLoop, Fed
  <2>2. \A i \in VCpu : Due(i) => executed[i] * Chunk >= maxSteps
    BY <1>12, <1>b, <1>c DEF LeaveLoop, Due
  <2> QED
    BY <1>12, <2>1, <2>2 DEF LeaveLoop, shared, Fed, Live
<1>13. CASE CpuCollect
  BY <1>13 DEF CpuCollect, shared, Fed, Live
<1>14. CASE GpuCollect
  BY <1>14 DEF GpuCollect, shared, Fed, Live
<1>15. CASE HandleTraps
  BY <1>15 DEF HandleTraps, Fed
<1>16. ASSUME NEW i \in VCpu, KernelStep(i)
       PROVE  Fed'
  <2>1. dev[i] \in CpuState /\ left[i] > 0 /\ Exec(i, dev[i])
    BY <1>16, <1>a DEF KernelStep, TypeOK
  <2>2. /\ maxSteps' = maxSteps /\ total' = total /\ backend' = backend
        /\ phase = "kernel" /\ phase' = "kernel"
    BY <1>16 DEF KernelStep, shared
  <2>3. backend = "gpu" /\ ~dev[i].halt
    BY <1>b, <2>1, <2>2 DEF LoopInv, CpuInv, GpuInv
  <2>4. total < maxSteps /\ (Stepped(i) \/ Due(i))
    BY <2>2, <2>3 DEF Fed
  <2>5. /\ \A j \in VCpu : (Due(j) => Due(j)') /\ (Stepped(j) => Stepped(j)')
        /\ Due(i) => Stepped(i)'
    BY <1>a, <2>1, <2>2, <2>4, ExecFed
  <2>6. \A j \in VCpu : j # i => dev'[j] = dev[j] /\ left'[j] = left[j]
    BY <1>16, <1>a DEF KernelStep, Exec, TypeOK
  <2> QED
    BY <2>2, <2>4, <2>5, <2>6 DEF Fed
<1> QED
  BY <1>1, <1>2, <1>3, <1>4, <1>5, <1>6, <1>7, <1>8, <1>9, <1>10, <1>11,
     <1>12, <1>13, <1>14, <1>15, <1>16 DEF Next, HostStep, CpuStep, GpuStep

\* A trap gives up the rest of its chunk, which is charged all the same; still,
\* when the loop ends every vCPU that has not halted took a step for every
\* chunk of max_steps, on either backend, and even if total wraps.
THEOREM NobodyStarves == Spec => []NoGuestStarved
<1>1. Init => Fed
  BY DEF Init, Fed
<1>2. LoopInv /\ Fed => NoGuestStarved
  <2> SUFFICES ASSUME LoopInv, Fed, phase = "traps", NEW i \in VCpu
               PROVE  vcpus[i].halt \/ executed[i] * Chunk >= maxSteps
    BY DEF NoGuestStarved
  <2>1. Live(i).halt \/ executed[i] * Chunk >= maxSteps
    BY DEF Fed
  <2>2. Live(i) = vcpus[i]
    BY LoopQuiet DEF Live
  <2> QED
    BY <2>1, <2>2
<1>3. LoopInv /\ Fed /\ [Next]_vars => Fed'
  BY FedStep
<1> QED
  BY <1>1, <1>2, <1>3, LoopCorrect, PTL DEF Spec

-----------------------------------------------------------------------------
(* What the two deviations from independent guests depend on.              *)

\* The master RAM holds the image until the first run, and for good where
\* there is no GPU.
MasterKept ==
  /\ ~HasGpu => ~useGpu /\ backend = "cpu"
  /\ runs = 0 => phase = "idle"
  /\ ~HasGpu \/ runs = 0 => memory = Image

\* Without a GPU every run starts every vCPU in the image, and with one the
\* first run does: run_cpu works on copies, and only the drain of run_gpu
\* leaves a guest's RAM in mem_.
THEOREM RunsStartFromImage ==
  ASSUME ~HasGpu \/ MaxRuns <= 1
  PROVE  Spec => StartsFromImage
<1> USE RunAssumption
<1>1. Init => MasterKept
  BY DEF Init, MasterKept
<1>2. ASSUME LoopInv, MasterKept, [Next]_vars
      PROVE  /\ MasterKept'
             /\ phase = "idle" /\ phase' = "round" =>
                  \A i \in VCpu : ram'[i] = Image
  <2>a. runs \in Nat
    BY <1>2 DEF LoopInv, TypeOK
  <2>1. CASE StartCpu \/ StartGpu
    <3>1. /\ runs' = runs + 1 /\ runs < MaxRuns /\ memory' = memory
          /\ ram' = [i \in VCpu |-> memory]
      BY <2>1 DEF StartCpu, StartGpu, StartRun
    <3>2. memory = Image
      BY <1>2, <2>a, <3>1 DEF MasterKept
    <3>3. ~HasGpu => ~useGpu' /\ backend' = "cpu"
      BY <1>2, <2>1 DEF StartCpu, StartGpu, MasterKept
    <3> QED
      BY <2>a, <3>1, <3>2, <3>3 DEF MasterKept
  <2>2. CASE DisableGpu \/ Done \/ UNCHANGED vars
    BY <1>2, <2>2 DEF DisableGpu, Done, vars, MasterKept
  <2>3. CASE CpuStep \/ \E i \in VCpu : KernelStep(i)
    <3>1. UNCHANGED <<memory, useGpu, backend, runs>> /\ phase # "idle"
      BY <2>3 DEF CpuStep, CpuRound, CpuSkip, CpuEnter, CpuExec, CpuServe,
                  CpuCollect, KernelStep, shared
    <3> QED
      BY <1>2, <3>1 DEF MasterKept
  <2>4. CASE Drain
    BY <1>2, <2>4 DEF Drain, MasterKept
  <2>5. CASE Launch \/ Sync \/ GpuCollect \/ EndRound \/ LeaveLoop
    <3>1. UNCHANGED <<memory, useGpu, backend, runs>> /\ phase # "idle"
      BY <2>5 DEF Launch, Sync, GpuCollect, EndRound, LeaveLoop, shared
    <3> QED
      BY <1>2, <3>1 DEF MasterKept
  <2>6. CASE HandleTraps
    BY <1>2, <2>6 DEF HandleTraps, MasterKept
  <2> QED
    BY <1>2, <2>1, <2>2, <2>3, <2>4, <2>5, <2>6 DEF Next, HostStep, GpuStep
<1>3. LoopInv /\ MasterKept /\ [Next]_vars =>
        MasterKept' /\ [phase = "idle" /\ phase' = "round" =>
                          \A i \in VCpu : ram'[i] = Image]_vars
  BY <1>2
<1> QED
  BY <1>1, <1>3, LoopCorrect, PTL DEF Spec, StartsFromImage

\* Where the GPU is used for good, it is the backend of every run.
OnGpu == useGpu /\ (phase = "idle" \/ backend = "gpu")

\* On the GPU every system call is served with the RAM of the vCPU that made
\* it, in any number of runs: the drain has just downloaded it into mem_, and
\* handle_traps finds nothing to serve.
THEOREM GpuServesOwnRam ==
  ASSUME HasGpu, ~MayFallBack
  PROVE  Spec => ServedInOwnRam
<1> USE RunAssumption
<1>1. Init => OnGpu
  BY DEF Init, OnGpu
<1>2. OnGpu /\ [Next]_vars => OnGpu'
  BY DEF OnGpu, Next, HostStep, CpuStep, GpuStep, vars, shared, StartCpu,
         StartGpu, StartRun, DisableGpu, Done, CpuRound, CpuSkip, CpuEnter,
         CpuExec, CpuServe, CpuCollect, Launch, Sync, Drain, GpuCollect,
         EndRound, LeaveLoop, HandleTraps, KernelStep
<1>3. ASSUME LoopInv, OnGpu, [Next]_vars, NEW i \in VCpu, out'[i] # out[i]
      PROVE  out'[i] = out[i] \o Printed(Live(i), ram[i])
  <2>a. TypeOK
    BY <1>3 DEF LoopInv
  <2>1. CASE Drain
    <3>1. i = cur /\ dev[cur].syscall_pending /\ memory' = ram[cur]
      BY <1>3, <2>a, <2>1 DEF Drain, TypeOK
    <3>2. backend = "gpu"
      BY <2>1 DEF Drain
    <3>3. out'[i] = out[i] \o Printed(dev[cur], ram[cur])
      BY <2>a, <2>1, <3>1 DEF Drain, TypeOK
    <3> QED
      BY <3>1, <3>2, <3>3 DEF Live
  <2>2. CASE HandleTraps
    <3>1. ~vcpus[i].syscall_pending
      BY <1>3, <2>2, LoopQuiet DEF HandleTraps
    <3>2. out'[i] = out[i]
      BY <2>2, <3>1 DEF HandleTraps
    <3> QED
      BY <1>3, <3>2
  <2>3. CASE CpuServe
    BY <1>3, <2>3 DEF CpuServe, OnGpu, LoopInv, GpuInv
  <2>4. CASE UNCHANGED out
    BY <1>3, <2>4
  <2>5. Drain \/ HandleTraps \/ CpuServe \/ UNCHANGED out
    BY <1>3 DEF Next, HostStep, CpuStep, GpuStep, vars, StartCpu, StartGpu,
                StartRun, DisableGpu, Done, CpuRound, CpuSkip, CpuEnter,
                CpuExec, CpuCollect, Launch, Sync, GpuCollect, EndRound,
                LeaveLoop, KernelStep
  <2> QED
    BY <2>1, <2>2, <2>3, <2>4, <2>5
<1>4. LoopInv /\ OnGpu /\ [Next]_vars =>
        [\A i \in VCpu : out'[i] # out[i] =>
           out'[i] = out[i] \o Printed(Live(i), ram[i])]_vars
  BY <1>3
<1> QED
  BY <1>1, <1>2, <1>4, LoopCorrect, PTL DEF Spec, ServedInOwnRam
=============================================================================
