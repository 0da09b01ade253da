-------------------------- MODULE Refinement_proofs --------------------------
(***************************************************************************)
(* RunLoop, and DeviceFaults where device calls fail, implement the        *)
(* independent guests of IndependentGuests, for every guest, every number  *)
(* of vCPUs, every chunk and budget.                                       *)
(***************************************************************************)
EXTENDS RunLoop_proofs, DeviceFaults

-----------------------------------------------------------------------------
(* The guests of the abstract specification run the same code.             *)

\* An instruction does to an independent guest what it does to a vCPU.
LEMMA GuestExec ==
  /\ Guests!VCpu = VCpu
  /\ \A c, m, p : /\ Guests!ExecCpu(c, m, p) = ExecCpu(c, m, p)
                  /\ Guests!ExecMem(c, m, p) = ExecMem(c, m, p)
                  /\ Guests!ExecPc(c, m, p) = ExecPc(c, m, p)
BY DEF Guests!VCpu, VCpu, Addr, Text, Reg, LoadMem, StoreMem, BinOpVal, Rhs,
       RegsAfter, MemAfter, FlagsOf, SetsFlags, EvalCc, Halts, Traps, ExecCpu,
       ExecMem, ExecPc, Guests!Addr, Guests!Text, Guests!Reg, Guests!LoadMem,
       Guests!StoreMem, Guests!BinOpVal, Guests!Rhs, Guests!RegsAfter,
       Guests!MemAfter, Guests!FlagsOf, Guests!SetsFlags, Guests!EvalCc,
       Guests!Halts, Guests!Traps, Guests!ExecCpu, Guests!ExecMem,
       Guests!ExecPc

\* So does a system call.
LEMMA GuestDispatch ==
  \A c, m : /\ Guests!Dispatch(c) = Dispatch(c)
            /\ Guests!Printed(c, m) = Printed(c, m)
BY DEF Addr, LoadMem, Sys, GuestPtr, Writes, SysWrite, SysRead, Brk, IsExit,
       Enosys, Efault, DispatchRet, Dispatch, Printed, Guests!Addr,
       Guests!LoadMem, Guests!Sys, Guests!GuestPtr, Guests!Writes,
       Guests!SysWrite, Guests!SysRead, Guests!Brk, Guests!IsExit,
       Guests!Enosys, Guests!Efault, Guests!DispatchRet, Guests!Dispatch,
       Guests!Printed

\* How much a system call prints does not depend on the RAM it reads, so if
\* it prints nothing from one it prints nothing from another.
LEMMA PrintsNothing ==
  ASSUME NEW c \in CpuState, NEW m1 \in Mem, NEW m2 \in Mem,
         Len(Printed(c, m1)) = 0
  PROVE  Printed(c, m2) = Printed(c, m1)
<1>1. CASE Writes(c)
  <2>1. PICK n \in Nat : n = c.gpr["RDX"]
    BY <1>1, CodeAssumption DEF Writes, GuestPtr
  <2>2. /\ Printed(c, m1) = [k \in 1 .. n |-> LoadMem(m1, c.gpr["RSI"] + k - 1)]
        /\ Printed(c, m2) = [k \in 1 .. n |-> LoadMem(m2, c.gpr["RSI"] + k - 1)]
    BY <1>1, <2>1 DEF Printed
  <2>3. Printed(c, m1) \in Seq(Int)
    BY PrintedType
  <2>4. n = 0
    BY <2>1, <2>2, <2>3
  <2> QED
    BY <2>2, <2>4
<1>2. CASE ~Writes(c)
  BY <1>2 DEF Printed
<1> QED
  BY <1>1, <1>2

-----------------------------------------------------------------------------
(* RunLoop implements IndependentGuests.                                   *)

\* handle_syscall is called for a vCPU that has trapped.
ServesTrap == phase = "serve" => vcpus[cur].syscall_pending

LEMMA ServesTrapStep ==
  ASSUME LoopInv, ServesTrap, [Next]_vars
  PROVE  ServesTrap'
<1>1. CASE CpuExec
  <2>1. cur \in VCpu /\ vcpus[cur] \in CpuState
    BY <1>1, RunAssumption DEF CpuExec, LoopInv, TypeOK, VCpu
  <2>2. CASE phase' = "serve"
    <3>1. Status(pcs[cur]) = "syscall" /\ cur' = cur
      BY <1>1, <2>2 DEF CpuExec
    <3>2. ~Halts(pcs[cur]) /\ Traps(pcs[cur])
      BY <3>1 DEF Status, Halts, Traps
    <3>3. ExecCpu(vcpus[cur], ram[cur], pcs[cur]).syscall_pending
      BY <2>1, <3>2 DEF ExecCpu, CpuState
    <3> QED
      BY <1>1, <2>1, <3>1, <3>3 DEF CpuExec, LoopInv, TypeOK, ServesTrap
  <2> QED
    BY <2>2 DEF ServesTrap
<1>2. CASE UNCHANGED vars \/ Done \/ DisableGpu
  BY <1>2 DEF vars, Done, DisableGpu, ServesTrap
<1>3. CASE phase' # "serve"
  BY <1>3 DEF ServesTrap
<1>4. CpuExec \/ UNCHANGED vars \/ Done \/ DisableGpu \/ phase' # "serve"
  BY DEF Next, HostStep, CpuStep, GpuStep, StartCpu, StartGpu, StartRun,
         CpuRound, CpuSkip, CpuEnter, CpuServe, CpuCollect, Launch, Sync,
         Drain, GpuCollect, EndRound, LeaveLoop, HandleTraps, KernelStep
<1> QED
  BY <1>1, <1>2, <1>3, <1>4

\* A step that changes no vCPU is a stutter of the guests.
LEMMA GuestsStutter ==
  ASSUME \A i \in VCpu : Live(i)' = Live(i), UNCHANGED <<ram, pcs, out>>
  PROVE  UNCHANGED Guests!guests
BY DEF Guests!guests

\* One IR instruction of vCPU i, which runs on the registers of Live(i), is a
\* step of guest i.
LEMMA GuestStep ==
  ASSUME TypeOK, NEW i \in VCpu, ~Live(i).halt, ~Live(i).syscall_pending,
         Exec(i, Live(i)), out' = out,
         Live(i)' = ExecCpu(Live(i), ram[i], pcs[i]),
         \A j \in VCpu : j # i => Live(j)' = Live(j)
  PROVE  Guests!Step(i)
<1> DEFINE L == [j \in VCpu |-> Live(j)]
<1>1. L' = [L EXCEPT ![i] = ExecCpu(L[i], ram[i], pcs[i])]
  OBVIOUS
<1>2. /\ ram' = [ram EXCEPT ![i] = ExecMem(L[i], ram[i], pcs[i])]
      /\ pcs' = [pcs EXCEPT ![i] = ExecPc(L[i], ram[i], pcs[i])]
  BY DEF Exec
<1> QED
  BY <1>1, <1>2, GuestExec DEF Guests!Step

\* The system call of vCPU i is served for guest i.
LEMMA GuestServe ==
  ASSUME TypeOK, NEW i \in VCpu, Live(i).syscall_pending,
         UNCHANGED <<ram, pcs>>,
         Live(i)' = Dispatch(Live(i)),
         \A j \in VCpu : j # i => Live(j)' = Live(j),
         out' = [out EXCEPT ![i] = out[i] \o Printed(Live(i), ram[i])]
  PROVE  Guests!Serve(i)
<1> DEFINE L == [j \in VCpu |-> Live(j)]
<1>1. L' = [L EXCEPT ![i] = Dispatch(L[i])]
  OBVIOUS
<1>2. out' = [out EXCEPT ![i] = out[i] \o Printed(L[i], ram[i])]
  OBVIOUS
<1> QED
  BY <1>1, <1>2, GuestDispatch DEF Guests!Serve

\* Every step of run() is a step of one guest, a restart of all of them, or
\* nothing to them, provided calls are served and runs started as they should.
LEMMA GuestsNext ==
  ASSUME LoopInv, ServesTrap, [Next]_vars,
         \A i \in VCpu :
           out'[i] # out[i] => out'[i] = out[i] \o Printed(Live(i), ram[i]),
         phase = "idle" /\ phase' = "round" => \A i \in VCpu : ram'[i] = Image
  PROVE  Guests!Next \/ UNCHANGED Guests!guests
<1> USE RunAssumption
<1>a. TypeOK /\ backend \in {"cpu", "gpu"}
  BY DEF LoopInv, TypeOK
<1>1. CASE StartCpu \/ StartGpu
  <2>1. /\ phase = "idle" /\ phase' = "round"
        /\ ram' = [i \in VCpu |-> memory] /\ pcs' = [i \in VCpu |-> Entry]
        /\ out' = out
    BY <1>1 DEF StartCpu, StartGpu, StartRun
  <2>2. /\ \A i \in VCpu : ~vcpus[i].syscall_pending
        /\ backend = "gpu" => vcpus = dev
    BY <2>1, LoopQuiet
  <2>3. \A i \in VCpu : Live(i)' = vcpus[i]
    BY <1>1 DEF StartCpu, StartGpu, StartRun, Live
  <2>4. \A i \in VCpu : Live(i) = vcpus[i]
    BY <2>2 DEF Live
  <2>5. ram' = [i \in VCpu |-> Image]
    BY <2>1
  <2> QED
    BY <2>1, <2>2, <2>3, <2>4, <2>5, GuestExec DEF Guests!Next, Guests!Restart
<1>2. CASE CpuExec
  <2>1. cur \in VCpu /\ backend = "cpu" /\ backend' = "cpu"
    BY <1>2, <1>a DEF CpuExec, shared, TypeOK, VCpu, LoopInv, GpuInv
  <2>2. ~vcpus[cur].halt /\ ~vcpus[cur].syscall_pending
    BY <1>2, <2>1 DEF CpuExec, LoopInv, CpuInv
  <2>3. PICK i \in VCpu : i = cur
    BY <2>1
  <2>4. /\ Live(i) = vcpus[i] /\ Exec(i, vcpus[i]) /\ out' = out
        /\ Live(i)' = ExecCpu(vcpus[i], ram[i], pcs[i])
        /\ \A j \in VCpu : j # i => Live(j)' = Live(j)
    BY <1>2, <1>a, <2>1, <2>3 DEF CpuExec, Live, TypeOK
  <2>5. Guests!Step(i)
    BY <1>a, <2>2, <2>3, <2>4, GuestStep
  <2> QED
    BY <2>5, GuestExec DEF Guests!Next
<1>3. ASSUME NEW i \in VCpu, KernelStep(i)
      PROVE  Guests!Next
  <2>1. backend = "gpu" /\ backend' = "gpu" /\ left[i] > 0
    BY <1>3, <1>a DEF KernelStep, shared, LoopInv, CpuInv
  <2>2. ~dev[i].halt /\ ~dev[i].syscall_pending
    BY <2>1 DEF LoopInv, GpuInv
  <2>3. /\ Live(i) = dev[i] /\ Exec(i, dev[i]) /\ out' = out
        /\ Live(i)' = ExecCpu(dev[i], ram[i], pcs[i])
        /\ \A j \in VCpu : j # i => Live(j)' = Live(j)
    BY <1>3, <1>a, <2>1 DEF KernelStep, Live, TypeOK
  <2>4. Guests!Step(i)
    BY <1>a, <2>2, <2>3, GuestStep
  <2> QED
    BY <2>4, GuestExec DEF Guests!Next
<1>4. CASE CpuServe
  <2>1. cur \in VCpu /\ backend = "cpu" /\ backend' = "cpu"
    BY <1>4, <1>a DEF CpuServe, shared, TypeOK, VCpu, LoopInv, GpuInv
  <2>2. PICK i \in VCpu : i = cur
    BY <2>1
  <2>3. /\ Live(i) = vcpus[i] /\ vcpus[i].syscall_pending
        /\ Live(i)' = Dispatch(vcpus[i])
        /\ \A j \in VCpu : j # i => Live(j)' = Live(j)
        /\ UNCHANGED <<ram, pcs>>
    BY <1>4, <1>a, <2>1, <2>2 DEF CpuServe, Live, TypeOK, ServesTrap
  <2>4. /\ vcpus[i] \in CpuState /\ ram[i] \in Mem /\ memory \in Mem
        /\ out[i] \in Seq(Int)
    BY <1>a DEF TypeOK
  <2>5. out' = [out EXCEPT ![i] = out[i] \o Printed(vcpus[i], memory)]
    BY <1>4, <2>2 DEF CpuServe
  <2>6. out'[i] = out[i] \o Printed(vcpus[i], memory)
    BY <1>a, <2>5 DEF TypeOK
  <2>7. CASE out'[i] = out[i]
    <3>1. Printed(vcpus[i], memory) \in Seq(Int)
      BY <2>4, PrintedType
    <3>2. PICK s \in Seq(Int), t \in Seq(Int) :
            s = out[i] /\ t = Printed(vcpus[i], memory)
      BY <2>4, <3>1
    <3>3. s \o t = s
      BY <2>6, <2>7, <3>2
    <3>4. Len(t) = 0
      <4>1. Len(s \o t) = Len(s) + Len(t)
        OBVIOUS
      <4> QED
        BY <3>3, <4>1
    <3>5. Printed(vcpus[i], ram[i]) = Printed(vcpus[i], memory)
      BY <2>4, <3>2, <3>4, PrintsNothing
    <3>6. Guests!Serve(i)
      BY <1>a, <2>3, <2>5, <3>5, GuestServe
    <3> QED
      BY <3>6, GuestExec DEF Guests!Next
  <2>8. CASE out'[i] # out[i]
    <3>1. out'[i] = out[i] \o Printed(vcpus[i], ram[i])
      BY <2>3, <2>8
    <3>2. out' = [out EXCEPT ![i] = out[i] \o Printed(vcpus[i], ram[i])]
      BY <2>5, <2>6, <3>1
    <3>3. Guests!Serve(i)
      BY <1>a, <2>3, <3>2, GuestServe
    <3> QED
      BY <3>3, GuestExec DEF Guests!Next
  <2> QED
    BY <2>7, <2>8
<1>5. CASE Drain
  <2>1. cur \in VCpu /\ backend = "gpu" /\ backend' = "gpu"
    BY <1>5, <1>a DEF Drain, TypeOK, VCpu
  <2>2. PICK i \in VCpu : i = cur
    BY <2>1
  <2>3. ram' = ram /\ pcs' = pcs /\ memory' = ram[i]
    BY <1>5, <1>a, <2>2 DEF Drain, TypeOK
  <2>4. CASE dev[i].syscall_pending
    <3>1. /\ Live(i) = dev[i] /\ Live(i)' = Dispatch(dev[i])
          /\ \A j \in VCpu : j # i => Live(j)' = Live(j)
      BY <1>5, <1>a, <2>1, <2>2, <2>4 DEF Drain, Live, TypeOK
    <3>2. out' = [out EXCEPT ![i] = out[i] \o Printed(dev[i], ram[i])]
      BY <1>5, <2>2, <2>3, <2>4 DEF Drain
    <3>3. Guests!Serve(i)
      BY <1>a, <2>3, <2>4, <3>1, <3>2, GuestServe
    <3> QED
      BY <3>3, GuestExec DEF Guests!Next
  <2>5. CASE ~dev[i].syscall_pending
    <3>1. dev' = dev /\ out' = out
      BY <1>5, <2>2, <2>5 DEF Drain
    <3> QED
      BY <2>1, <2>3, <3>1, GuestsStutter DEF Live
  <2> QED
    BY <2>4, <2>5
<1>6. CASE HandleTraps
  <2>1. \A i \in VCpu : ~vcpus[i].syscall_pending
    BY <1>6, LoopQuiet DEF HandleTraps
  <2>2. vcpus' = vcpus /\ out' = out /\ UNCHANGED <<ram, pcs, dev, backend>>
    BY <1>6, <1>a, <2>1 DEF HandleTraps, TypeOK
  <2> QED
    BY <2>2, GuestsStutter DEF Live
<1>7. CASE GpuCollect
  BY <1>7, GuestsStutter DEF GpuCollect, shared, Live
<1>8. CASE \/ DisableGpu \/ Done \/ UNCHANGED vars
           \/ CpuRound \/ CpuSkip \/ CpuEnter \/ CpuCollect
           \/ Launch \/ Sync \/ EndRound \/ LeaveLoop
  <2>1. UNCHANGED <<vcpus, dev, backend, ram, pcs, out>>
    BY <1>8 DEF DisableGpu, Done, vars, shared, CpuRound, CpuSkip, CpuEnter,
                CpuCollect, Launch, Sync, EndRound, LeaveLoop
  <2> QED
    BY <2>1, GuestsStutter DEF Live
<1> QED
  BY <1>1, <1>2, <1>3, <1>4, <1>5, <1>6, <1>7, <1>8
     DEF Next, HostStep, CpuStep, GpuStep

\* run() implements N independent guests, on both backends and in any number
\* of runs, but for two things: which RAM a system call is served with, and
\* which RAM a run starts in.
THEOREM RunImplementsGuests ==
  Spec /\ ServedInOwnRam /\ StartsFromImage => ImplementsGuests
<1>1. Init => ServesTrap /\ Guests!Init
  <2> SUFFICES ASSUME Init PROVE ServesTrap /\ Guests!Init
    OBVIOUS
  <2>1. ServesTrap
    BY DEF Init, ServesTrap
  <2>2. [i \in VCpu |-> Live(i)] = Boot
    BY DEF Init, Live, Boot
  <2> QED
    BY <2>1, <2>2, GuestExec DEF Init, Guests!Init
<1>2. LoopInv /\ ServesTrap /\ [Next]_vars => ServesTrap'
  BY ServesTrapStep
<1>3. ASSUME LoopInv, ServesTrap, [Next]_vars,
             [\A i \in VCpu : out'[i] # out[i] =>
                out'[i] = out[i] \o Printed(Live(i), ram[i])]_vars,
             [phase = "idle" /\ phase' = "round" =>
                \A i \in VCpu : ram'[i] = Image]_vars
      PROVE  [Guests!Next]_(Guests!guests)
  <2>1. CASE UNCHANGED vars
    BY <2>1, GuestsStutter DEF vars, Live
  <2>2. CASE ~UNCHANGED vars
    BY <1>3, <2>2, GuestsNext
  <2> QED
    BY <2>1, <2>2
<1> QED
  BY <1>1, <1>2, <1>3, LoopCorrect, PTL
     DEF Spec, ServedInOwnRam, StartsFromImage, ImplementsGuests, Guests!Spec

\* On the GPU, one run implements N independent guests.
THEOREM GpuRunImplementsGuests ==
  ASSUME HasGpu, ~MayFallBack, MaxRuns <= 1
  PROVE  Spec => ImplementsGuests
BY RunImplementsGuests, GpuServesOwnRam, RunsStartFromImage, PTL

\* On the CPU, any number of runs implement N independent guests as long as
\* no system call reads what a guest has stored.
THEOREM CpuRunsImplementGuests ==
  ASSUME ~HasGpu
  PROVE  Spec /\ ServedInOwnRam => ImplementsGuests
BY RunImplementsGuests, RunsStartFromImage, PTL

-----------------------------------------------------------------------------
(* Device calls that fail: types.                                          *)

FaultTypeOK == TypeOK /\ flaky \subseteq VCpu /\ faults \in Nat

\* What a copy that fails leaves is a CpuState and a RAM too.
LEMMA ZeroType == ZeroCpu \in CpuState /\ ZeroMem \in Mem
<1>1. ZeroMem \in Mem
  BY DEF ZeroMem, Mem
<1>2. [r \in Reg |-> 0] \in [Reg -> Int]
  OBVIOUS
<1> QED
  BY <1>1, <1>2 DEF ZeroCpu, CpuState

\* A step in which a device call fails keeps the types.
LEMMA FaultTypeStep == FaultTypeOK /\ [FaultNext]_faultVars => FaultTypeOK'
<1> SUFFICES ASSUME FaultTypeOK, [FaultNext]_faultVars
             PROVE  FaultTypeOK'
  OBVIOUS
<1> USE RunAssumption, FaultAssumption
<1>a. TypeOK /\ faults \in Nat
  BY DEF FaultTypeOK
<1>b. N \in Int /\ \A i \in VCpu : i \in 0 .. N - 1
  BY DEF VCpu
<1>1. CASE (Next /\ Works) \/ UNCHANGED faultVars
  <2>1. [Next]_vars /\ UNCHANGED <<flaky, faults>>
    BY <1>1 DEF Works, faultVars
  <2> QED
    BY <2>1, TypeStep DEF FaultTypeOK
<1>2. CASE FaultyStart
  <2>1. Fails
    BY <1>2 DEF FaultyStart
  <2>2. PICK lost \in [VCpu -> SUBSET Uploads] :
       /\ dev' = [i \in VCpu |-> IF "cpu" \notin lost[i] THEN vcpus[i]
                                 ELSE IF handle THEN dev[i] ELSE ZeroCpu]
       /\ ram' = [i \in VCpu |-> IF "ram" \notin lost[i] THEN memory
                                 ELSE IF handle THEN ram[i] ELSE ZeroMem]
       /\ pcs' = [i \in VCpu |-> IF "pc" \notin lost[i] THEN Entry
                                 ELSE IF handle THEN pcs[i] ELSE 0]
    BY <1>2 DEF FaultyStart
  <2>4. dev' \in [VCpu -> CpuState]
    BY <1>a, <2>2, ZeroType DEF TypeOK
  <2>5. ram' \in [VCpu -> Mem] /\ pcs' \in [VCpu -> Int]
    BY <1>a, <2>2, ZeroType DEF TypeOK
  <2>6. flaky' \subseteq VCpu /\ faults' \in Nat
    BY <1>a, <2>1 DEF Fails, FaultTypeOK
  <2>7. /\ runs' \in 0 .. MaxRuns /\ phase' = "round" /\ maxSteps' \in Nat
        /\ total' \in Nat /\ executed' \in [VCpu -> Nat]
        /\ handle' \in BOOLEAN /\ backend' = "gpu"
    BY <1>2, <1>a DEF FaultyStart, TypeOK
  <2> QED
    BY <1>2, <1>a, <2>4, <2>5, <2>6, <2>7 DEF FaultyStart, FaultTypeOK, TypeOK, Phase
<1>3. CASE FaultyLaunch
  <2>1. anyRunning' \in BOOLEAN
    BY <1>3 DEF FaultyLaunch
  <2> QED
    BY <1>3, <1>a, <2>1 DEF FaultyLaunch, Fails, shared, FaultTypeOK, TypeOK, Phase
<1>6. CASE FaultySync
  <2>1. anyRunning' \in BOOLEAN
    BY <1>6 DEF FaultySync
  <2> QED
    BY <1>6, <1>a, <1>b, <2>1 DEF FaultySync, Fails, shared, FaultTypeOK, TypeOK, Phase
<1>4. CASE FaultyDrain
  <2>1. PICK lost \in Losses(cur, Copies) : DrainLosing(lost, ZeroCpu)
    BY <1>4 DEF FaultyDrain
  <2> DEFINE c    == IF "cpuDown" \in lost THEN ZeroCpu ELSE dev[cur]
             done == IF c.syscall_pending THEN Dispatch(c) ELSE c
  <2>2. cur \in VCpu /\ dev[cur] \in CpuState /\ ram[cur] \in Mem
    BY <1>a, <2>1 DEF DrainLosing, TypeOK, VCpu
  <2>3. c \in CpuState
    BY <2>2, ZeroType
  <2>4. done \in CpuState
    BY <2>3, DispatchType
  <2>5. memory' \in Mem
    BY <1>a, <2>1, <2>2 DEF DrainLosing, TypeOK
  <2>6. vcpus' \in [VCpu -> CpuState] /\ dev' \in [VCpu -> CpuState]
    <3>1. /\ vcpus' = [vcpus EXCEPT ![cur] = done]
          /\ dev' = [dev EXCEPT ![cur] = done] \/ dev' = dev
      BY <2>1 DEF DrainLosing
    <3> HIDE DEF done
    <3> QED
      BY <1>a, <2>4, <3>1 DEF TypeOK
  <2>7. ram' \in [VCpu -> Mem]
    BY <1>a, <2>1, <2>5 DEF DrainLosing, TypeOK
  <2>8. out' \in [VCpu -> Seq(Int)]
    <3>1. out[cur] \o Printed(c, memory') \in Seq(Int)
      BY <1>a, <2>2, <2>3, <2>5, AppendPrinted DEF TypeOK
    <3>2. out' = [out EXCEPT ![cur] = out[cur] \o Printed(c, memory')] \/ out' = out
      BY <2>1 DEF DrainLosing
    <3> HIDE DEF c
    <3> QED
      BY <1>a, <3>1, <3>2 DEF TypeOK
  <2>9. anyRunning' \in BOOLEAN /\ cur' \in 0 .. N
    BY <1>b, <2>1, <2>2 DEF DrainLosing
  <2>10. flaky' \subseteq VCpu /\ faults' \in Nat
    BY <1>a, <2>1 DEF DrainLosing, Fails, FaultTypeOK
  <2>11. /\ UNCHANGED <<vcpuMem, pcs, useGpu, handle, backend, phase, maxSteps,
                        total, left, result, runs, executed>>
         /\ phase = "scan"
    BY <2>1 DEF DrainLosing
  <2> HIDE DEF c, done
  <2> QED
    BY <1>a, <2>5, <2>6, <2>7, <2>8, <2>9, <2>10, <2>11 DEF FaultTypeOK, TypeOK
<1>5. CASE FaultyCollect
  <2>1. cur \in VCpu /\ cur' \in 0 .. N /\ (phase' = "collect" => cur' < N)
    BY <1>5, <1>a, <1>b DEF FaultyCollect, TypeOK, VCpu
  <2>2. vcpus' \in [VCpu -> CpuState] /\ vcpuMem' \in [VCpu -> Mem]
    BY <1>5, <1>a, <2>1 DEF FaultyCollect, TypeOK
  <2>3. flaky' \subseteq VCpu /\ faults' \in Nat
    BY <1>5, <1>a DEF FaultyCollect, Fails, FaultTypeOK
  <2>4. phase' \in {"collect", "traps"}
    BY <1>5 DEF FaultyCollect
  <2> QED
    BY <1>5, <1>a, <2>1, <2>2, <2>3, <2>4
       DEF FaultyCollect, shared, FaultTypeOK, TypeOK, Phase
<1> QED
  BY <1>1, <1>2, <1>3, <1>4, <1>5, <1>6 DEF FaultNext, FaultyStep

\* run() keeps the type of all its state even where device calls fail.
THEOREM FaultTypes == FaultSpec => []TypeOK
<1>1. FaultInit => FaultTypeOK
  BY TypeInit DEF FaultInit, FaultTypeOK
<1>2. FaultTypeOK => TypeOK
  BY DEF FaultTypeOK
<1> QED
  BY <1>1, <1>2, FaultTypeStep, PTL DEF FaultSpec

-----------------------------------------------------------------------------
(* Device calls that fail: halts.                                          *)

\* What HaltIsReal demands of vCPU i, and, for the host's copy of it, when it
\* may show a system call.
Ends(i) == dev[i].halt \/ (dev[i].syscall_pending /\ IsExit(dev[i]))

\* The drain of a round has seen to every vCPU before cur; handle_traps will
\* serve what the last download brought, and only that.
HaltInv ==
  /\ runs = 0 => phase = "idle" /\ vcpus = Boot /\ backend = "cpu"
  /\ backend = "gpu" =>
       /\ phase \notin {"exec", "serve"}
       /\ \A i \in VCpu : vcpus[i].syscall_pending =>
            phase \in {"collect", "traps"} /\ vcpus[i] = dev[i]
       /\ \A i \in VCpu : phase # "kernel" /\ (phase = "scan" => i < cur) =>
            (vcpus[i].halt => Ends(i))

\* A system call halts the vCPU only if it is an exit.
LEMMA DispatchHalt ==
  ASSUME NEW cpu \in CpuState
  PROVE  Dispatch(cpu).halt <=> cpu.halt \/ IsExit(cpu)
BY DEF Dispatch, CpuState, IsExit

\* Every step, with or without a fault, keeps the invariant.
LEMMA HaltStep ==
  ASSUME MaxRuns <= 1, FaultTypeOK, HaltInv, [FaultNext]_faultVars
  PROVE  HaltInv'
<1> USE RunAssumption
<1>a. TypeOK /\ FaultTypeOK'
  BY FaultTypeStep DEF FaultTypeOK
<1>b. runs \in Nat /\ backend \in {"cpu", "gpu"} /\ cur \in Int
  BY <1>a DEF TypeOK
<1>c. \A i \in VCpu : i \in Int /\ 0 <= i /\ i < N
  BY DEF VCpu
<1>d. \A i \in VCpu : vcpus[i] \in CpuState /\ dev[i] \in CpuState
  BY <1>a DEF TypeOK
\* The first run starts from vCPUs that have not halted.
<1>1. ASSUME runs < MaxRuns, runs' = runs + 1, phase' = "round", vcpus' = vcpus
      PROVE  HaltInv'
  <2>1. vcpus = Boot
    BY <1>1, <1>b DEF HaltInv
  <2>2. \A i \in VCpu : ~vcpus'[i].halt /\ ~vcpus'[i].syscall_pending
    BY <1>1, <2>1 DEF Boot
  <2> QED
    BY <1>1, <1>b, <2>2 DEF HaltInv
<1>2. CASE StartCpu \/ StartGpu \/ FaultyStart
  BY <1>1, <1>2 DEF StartCpu, StartGpu, StartRun, FaultyStart
\* Outside idle the run has been counted.
<1>3. phase # "idle" => runs # 0
  BY DEF HaltInv
<1>4. CASE DisableGpu \/ Done \/ UNCHANGED vars
  BY <1>4 DEF DisableGpu, Done, vars, HaltInv, Ends
<1>5. ASSUME backend = "cpu", backend' = "cpu", runs' = runs, phase # "idle"
      PROVE  HaltInv'
  BY <1>3, <1>5 DEF HaltInv
<1>6. CASE CpuRound \/ CpuSkip \/ CpuEnter \/ CpuCollect
  BY <1>5, <1>6 DEF CpuRound, CpuSkip, CpuEnter, CpuCollect, shared
<1>7. CASE CpuExec \/ CpuServe
  <2>1. backend = "cpu"
    BY <1>7, <1>b DEF CpuExec, CpuServe, HaltInv
  <2> QED
    BY <1>5, <1>7, <2>1 DEF CpuExec, CpuServe, shared
<1>8. CASE Launch \/ Sync \/ FaultyLaunch \/ FaultySync
  <2>1. /\ UNCHANGED <<vcpus, dev, backend, runs>> /\ phase # "idle"
        /\ phase \in {"round", "kernel"}
        /\ phase' = "kernel" \/ (phase' = "scan" /\ cur' = 0)
    BY <1>8 DEF Launch, Sync, FaultyLaunch, FaultySync, shared
  <2>2. \A i \in VCpu : ~(i < 0)
    BY <1>c
  <2> QED
    BY <1>3, <2>1, <2>2 DEF HaltInv
<1>9. ASSUME NEW i \in VCpu, KernelStep(i)
      PROVE  HaltInv'
  BY <1>3, <1>9 DEF KernelStep, shared, HaltInv
<1>10. CASE EndRound \/ LeaveLoop
  <2>1. /\ UNCHANGED <<vcpus, dev, backend, runs>>
        /\ phase \in {"round", "scan"} /\ phase' \in {"round", "collect"}
        /\ phase = "scan" => cur = N
    BY <1>10 DEF EndRound, LeaveLoop, shared
  <2> QED
    BY <1>3, <1>c, <2>1 DEF HaltInv, Ends
\* A drain, from c, what the download of the CpuState left.
<1>11. ASSUME NEW c \in CpuState, c = dev[cur] \/ c = ZeroCpu,
              NEW done \in CpuState,
              done = IF c.syscall_pending THEN Dispatch(c) ELSE c,
              phase = "scan", phase' = "scan", cur < N, cur' = cur + 1,
              vcpus' = [vcpus EXCEPT ![cur] = done],
              \/ c.syscall_pending /\ dev' = [dev EXCEPT ![cur] = done]
              \/ dev' = dev,
              backend = "gpu", backend' = "gpu", runs' = runs
       PROVE  HaltInv'
  <2>1. cur \in VCpu
    BY <1>11, <1>a DEF TypeOK, VCpu
  <2>2. /\ vcpus'[cur] = done
        /\ \A j \in VCpu : j # cur => vcpus'[j] = vcpus[j] /\ dev'[j] = dev[j]
        /\ dev'[cur] = done \/ dev'[cur] = dev[cur]
    BY <1>11, <1>a, <2>1 DEF TypeOK
  <2>3. ~done.syscall_pending
    BY <1>11, DispatchAnswers
  <2>4. done.halt => c = dev[cur] /\ (c.halt \/ (c.syscall_pending /\ IsExit(c)))
    <3>1. ~ZeroCpu.halt /\ ~ZeroCpu.syscall_pending
      BY DEF ZeroCpu
    <3> QED
      BY <1>11, <3>1, DispatchHalt
  <2>5. \A j \in VCpu : j < cur' => j < cur \/ j = cur
    BY <1>11, <1>b, <1>c
  <2>6. \A j \in VCpu : vcpus'[j].syscall_pending => FALSE
    BY <1>11, <2>2, <2>3 DEF HaltInv
  <2>7. \A j \in VCpu : j < cur' => (vcpus'[j].halt => Ends(j)')
    BY <1>11, <2>2, <2>4, <2>5 DEF HaltInv, Ends
  <2> QED
    BY <1>3, <1>11, <2>6, <2>7 DEF HaltInv
<1>12. CASE Drain
  <2> DEFINE c    == dev[cur]
             done == IF c.syscall_pending THEN Dispatch(c) ELSE c
  <2>1. cur \in VCpu /\ c \in CpuState
    BY <1>12, <1>a DEF Drain, TypeOK, VCpu
  <2>2. done \in CpuState
    BY <2>1, DispatchType
  <2>3. /\ vcpus' = [vcpus EXCEPT ![cur] = done]
        /\ \/ c.syscall_pending /\ dev' = [dev EXCEPT ![cur] = done]
           \/ dev' = dev
        /\ phase = "scan" /\ phase' = "scan" /\ cur < N /\ cur' = cur + 1
        /\ backend = "gpu" /\ backend' = "gpu" /\ runs' = runs
    BY <1>12 DEF Drain
  <2> QED
    BY <1>11, <2>1, <2>2, <2>3
<1>13. CASE FaultyDrain
  <2>1. PICK lost \in Losses(cur, Copies) : DrainLosing(lost, ZeroCpu)
    BY <1>13 DEF FaultyDrain
  <2> DEFINE c    == IF "cpuDown" \in lost THEN ZeroCpu ELSE dev[cur]
             done == IF c.syscall_pending THEN Dispatch(c) ELSE c
  <2>2. cur \in VCpu /\ dev[cur] \in CpuState
    BY <1>a, <2>1 DEF DrainLosing, TypeOK, VCpu
  <2>3. c \in CpuState /\ (c = dev[cur] \/ c = ZeroCpu)
    BY <2>2, ZeroType
  <2>4. done \in CpuState
    BY <2>3, DispatchType
  <2>5. /\ vcpus' = [vcpus EXCEPT ![cur] = done]
        /\ \/ c.syscall_pending /\ dev' = [dev EXCEPT ![cur] = done]
           \/ dev' = dev
        /\ phase = "scan" /\ phase' = "scan" /\ cur < N /\ cur' = cur + 1
        /\ backend = "gpu" /\ backend' = "gpu" /\ runs' = runs
    BY <2>1 DEF DrainLosing
  <2> HIDE DEF c
  <2> QED
    BY <1>11, <2>3, <2>4, <2>5
<1>14. CASE GpuCollect \/ FaultyCollect
  <2>0. cur \in VCpu
    BY <1>14, <1>a DEF GpuCollect, FaultyCollect, TypeOK, VCpu
  <2>1. /\ UNCHANGED <<dev, backend, runs>>
        /\ vcpus' = [vcpus EXCEPT ![cur] = dev[cur]] \/ vcpus' = vcpus
        /\ phase = "collect" /\ phase' \in {"collect", "traps"} /\ backend = "gpu"
    BY <1>14 DEF GpuCollect, FaultyCollect, shared
  <2>2. \A i \in VCpu : vcpus'[i] = vcpus[i] \/ vcpus'[i] = dev[i]
    BY <1>a, <2>0, <2>1 DEF TypeOK
  <2> QED
    BY <1>3, <2>1, <2>2 DEF HaltInv, Ends
<1>15. CASE HandleTraps
  <2>1. CASE backend = "gpu"
    <3>1. /\ \A i \in VCpu : vcpus'[i] = IF vcpus[i].syscall_pending
                                         THEN Dispatch(vcpus[i]) ELSE vcpus[i]
          /\ UNCHANGED <<dev, backend, runs>>
          /\ phase = "traps" /\ phase' = "idle"
      BY <1>15 DEF HandleTraps
    <3>2. \A i \in VCpu : ~vcpus'[i].syscall_pending
      BY <1>d, <3>1, DispatchAnswers
    <3>3. ASSUME NEW i \in VCpu, vcpus'[i].halt
          PROVE  Ends(i)'
      <4>1. CASE vcpus[i].syscall_pending
        <5>1. vcpus[i] = dev[i]
          BY <2>1, <4>1 DEF HaltInv
        <5>2. vcpus[i].halt \/ IsExit(vcpus[i])
          BY <1>d, <3>1, <3>3, <4>1, DispatchHalt
        <5> QED
          BY <3>1, <4>1, <5>1, <5>2 DEF Ends
      <4>2. CASE ~vcpus[i].syscall_pending
        BY <2>1, <3>1, <3>3, <4>2 DEF HaltInv, Ends
      <4> QED
        BY <4>1, <4>2
    <3> QED
      BY <1>3, <2>1, <3>1, <3>2, <3>3 DEF HaltInv
  <2>2. CASE backend = "cpu"
    BY <1>5, <1>15, <2>2 DEF HandleTraps
  <2> QED
    BY <1>b, <2>1, <2>2
<1> QED
  BY <1>2, <1>4, <1>6, <1>7, <1>8, <1>9, <1>10, <1>12, <1>13, <1>14, <1>15
     DEF FaultNext, FaultyStep, Works, Next, HostStep, CpuStep, GpuStep,
         faultVars

\* Whatever device calls fail, for whichever vCPUs and however many at a time,
\* and if the kernel dies midway and nothing can be read after it: a vCPU the
\* host holds for halted when a round ends has halted on the device or exits
\* there.
THEOREM HaltsAreReal ==
  ASSUME MaxRuns <= 1
  PROVE  FaultSpec => []HaltIsReal
<1>1. FaultInit => FaultTypeOK /\ HaltInv
  <2> SUFFICES ASSUME FaultInit PROVE FaultTypeOK /\ HaltInv
    OBVIOUS
  <2>1. FaultTypeOK
    BY TypeInit DEF FaultInit, FaultTypeOK
  <2>2. HaltInv
    BY DEF FaultInit, Init, HaltInv
  <2> QED
    BY <2>1, <2>2
<1>2. FaultTypeOK /\ HaltInv /\ [FaultNext]_faultVars => FaultTypeOK' /\ HaltInv'
  BY FaultTypeStep, HaltStep
<1>3. HaltInv => HaltIsReal
  BY DEF HaltInv, HaltIsReal, Ends
<1> QED
  BY <1>1, <1>2, <1>3, PTL DEF FaultSpec

-----------------------------------------------------------------------------
(* Device calls that fail: the vCPUs they spare.                           *)

\* An instruction and a system call do to one of the other guests what they do
\* to its vCPU.
LEMMA OtherExec ==
  /\ Others!VCpu = VCpu
  /\ \A c, m, p : /\ Others!ExecCpu(c, m, p) = ExecCpu(c, m, p)
                  /\ Others!ExecMem(c, m, p) = ExecMem(c, m, p)
                  /\ Others!ExecPc(c, m, p) = ExecPc(c, m, p)
BY DEF Others!VCpu, VCpu, Addr, Text, Reg, LoadMem, StoreMem, BinOpVal, Rhs,
       RegsAfter, MemAfter, FlagsOf, SetsFlags, EvalCc, Halts, Traps, ExecCpu,
       ExecMem, ExecPc, Others!Addr, Others!Text, Others!Reg, Others!LoadMem,
       Others!StoreMem, Others!BinOpVal, Others!Rhs, Others!RegsAfter,
       Others!MemAfter, Others!FlagsOf, Others!SetsFlags, Others!EvalCc,
       Others!Halts, Others!Traps, Others!ExecCpu, Others!ExecMem,
       Others!ExecPc

LEMMA OtherDispatch ==
  \A c, m : /\ Others!Dispatch(c) = Dispatch(c)
            /\ Others!Printed(c, m) = Printed(c, m)
BY DEF Addr, LoadMem, Sys, GuestPtr, Writes, SysWrite, SysRead, Brk, IsExit,
       Enosys, Efault, DispatchRet, Dispatch, Printed, Others!Addr,
       Others!LoadMem, Others!Sys, Others!GuestPtr, Others!Writes,
       Others!SysWrite, Others!SysRead, Others!Brk, Others!IsExit,
       Others!Enosys, Others!Efault, Others!DispatchRet, Others!Dispatch,
       Others!Printed

\* A step that changes none of the others is a stutter of theirs.
LEMMA OthersStutter ==
  ASSUME flaky' = flaky,
         \A i \in VCpu \ flaky :
           /\ Live(i)' = Live(i)
           /\ ram'[i] = ram[i] /\ pcs'[i] = pcs[i] /\ out'[i] = out[i]
  PROVE  UNCHANGED Others!guests
<1>1. /\ \A i \in VCpu : (IF i \in flaky THEN Boot[i] ELSE Live(i))'
                           = IF i \in flaky THEN Boot[i] ELSE Live(i)
      /\ \A i \in VCpu : (IF i \in flaky THEN Image ELSE ram[i])'
                           = IF i \in flaky THEN Image ELSE ram[i]
      /\ \A i \in VCpu : (IF i \in flaky THEN Entry ELSE pcs[i])'
                           = IF i \in flaky THEN Entry ELSE pcs[i]
      /\ \A i \in VCpu : (IF i \in flaky THEN << >> ELSE out[i])'
                           = IF i \in flaky THEN << >> ELSE out[i]
  BY DEF Boot
<1> QED
  BY <1>1 DEF Others!guests

\* One IR instruction of a vCPU whose copies do not fail.
LEMMA OtherStep ==
  ASSUME TypeOK, NEW i \in VCpu \ flaky, flaky' = flaky,
         ~Live(i).halt, ~Live(i).syscall_pending,
         Exec(i, Live(i)), out' = out,
         Live(i)' = ExecCpu(Live(i), ram[i], pcs[i]),
         \A j \in VCpu : j # i => Live(j)' = Live(j)
  PROVE  Others!Step(i)
<1> DEFINE C == [j \in VCpu |-> IF j \in flaky THEN Boot[j] ELSE Live(j)]
           M == [j \in VCpu |-> IF j \in flaky THEN Image ELSE ram[j]]
           P == [j \in VCpu |-> IF j \in flaky THEN Entry ELSE pcs[j]]
           O == [j \in VCpu |-> IF j \in flaky THEN << >> ELSE out[j]]
<1>1. C[i] = Live(i) /\ M[i] = ram[i] /\ P[i] = pcs[i]
  OBVIOUS
<1>2. C' = [C EXCEPT ![i] = ExecCpu(C[i], M[i], P[i])]
  BY DEF Boot
<1>3. M' = [M EXCEPT ![i] = ExecMem(C[i], M[i], P[i])]
  BY DEF Exec, TypeOK
<1>4. P' = [P EXCEPT ![i] = ExecPc(C[i], M[i], P[i])]
  BY DEF Exec, TypeOK
<1>5. O' = O
  OBVIOUS
<1> QED
  BY <1>1, <1>2, <1>3, <1>4, <1>5, OtherExec DEF Others!Step

\* A system call of a vCPU whose copies do not fail.
LEMMA OtherServe ==
  ASSUME TypeOK, NEW i \in VCpu \ flaky, flaky' = flaky,
         Live(i).syscall_pending, UNCHANGED <<ram, pcs>>,
         Live(i)' = Dispatch(Live(i)),
         \A j \in VCpu : j # i => Live(j)' = Live(j),
         out' = [out EXCEPT ![i] = out[i] \o Printed(Live(i), ram[i])]
  PROVE  Others!Serve(i)
<1> DEFINE C == [j \in VCpu |-> IF j \in flaky THEN Boot[j] ELSE Live(j)]
           M == [j \in VCpu |-> IF j \in flaky THEN Image ELSE ram[j]]
           P == [j \in VCpu |-> IF j \in flaky THEN Entry ELSE pcs[j]]
           O == [j \in VCpu |-> IF j \in flaky THEN << >> ELSE out[j]]
<1>1. C[i] = Live(i) /\ M[i] = ram[i] /\ O[i] = out[i]
  OBVIOUS
<1>2. C' = [C EXCEPT ![i] = Dispatch(C[i])]
  BY DEF Boot
<1>3. M' = M /\ P' = P
  OBVIOUS
<1>4. O' = [O EXCEPT ![i] = O[i] \o Printed(C[i], M[i])]
  BY DEF TypeOK
<1> QED
  BY <1>1, <1>2, <1>3, <1>4, OtherDispatch DEF Others!Serve

\* The run is made on the GPU, and it is the only one.
OneGpuRun ==
  /\ useGpu
  /\ runs = 0 => /\ phase = "idle" /\ backend = "cpu"
                 /\ memory = Image /\ vcpus = Boot /\ ~dead
                 /\ \A i \in VCpu : left[i] = 0
  /\ runs # 0 => backend = "gpu" /\ phase \notin {"exec", "serve"}

\* What GpuInv says, of the vCPUs whose copies do not fail, for as long as the
\* context lives; after that no thread runs and no system call is pending.
OthersInv ==
  runs # 0 =>
    \A i \in VCpu \ flaky :
      /\ left[i] > 0 => phase = "kernel" /\ ~dev[i].halt /\ ~dev[i].syscall_pending
      /\ ~vcpus[i].syscall_pending
      /\ ~dead =>
           /\ dev[i].syscall_pending =>
                phase = "kernel" \/ (phase = "scan" /\ cur <= i)
           /\ phase # "kernel" /\ (phase = "scan" => i < cur) =>
                vcpus[i] = dev[i]
      /\ dead => phase # "kernel"

\* Every step, with or without a fault, keeps the run on the GPU.
LEMMA OneGpuRunStep ==
  ASSUME ~MayFallBack, MaxRuns <= 1, FaultTypeOK, OneGpuRun,
         [FaultNext]_faultVars
  PROVE  OneGpuRun'
<1> USE RunAssumption
<1>a. runs \in Nat
  BY DEF FaultTypeOK, TypeOK
<1>1. CASE StartGpu \/ FaultyStart
  <2>1. runs' = runs + 1 /\ useGpu' = useGpu /\ backend' = "gpu" /\ phase' = "round"
    BY <1>1 DEF StartGpu, StartRun, FaultyStart
  <2> QED
    BY <1>a, <2>1 DEF OneGpuRun
<1>2. CASE StartCpu \/ DisableGpu
  BY <1>2 DEF StartCpu, DisableGpu, OneGpuRun
<1>3. CASE UNCHANGED <<vars, dead>>
  BY <1>3 DEF vars, OneGpuRun
<1>4. ASSUME phase # "idle", UNCHANGED <<useGpu, backend, runs>>,
             phase' \notin {"exec", "serve"}
      PROVE  OneGpuRun'
  BY <1>4 DEF OneGpuRun
<1>5. CASE CpuStep
  <2>1. phase # "idle" /\ (backend = "cpu" \/ phase \in {"exec", "serve"})
    BY <1>5 DEF CpuStep, CpuRound, CpuSkip, CpuEnter, CpuExec, CpuServe,
                CpuCollect
  <2> QED
    BY <2>1 DEF OneGpuRun
<1>6. CASE Launch \/ Sync \/ Drain \/ GpuCollect \/ EndRound \/ LeaveLoop \/ HandleTraps
  BY <1>4, <1>6 DEF Launch, Sync, Drain, GpuCollect, EndRound, LeaveLoop,
                    HandleTraps, shared
<1>7. CASE \E i \in VCpu : KernelStep(i)
  BY <1>4, <1>7 DEF KernelStep, shared
<1>8. CASE FaultyStep
  BY <1>4, <1>8 DEF FaultyStep, FaultyLaunch, FaultySync, FaultyDrain,
                    DrainLosing, FaultyCollect, shared
<1> QED
  BY <1>1, <1>2, <1>3, <1>5, <1>6, <1>7, <1>8
     DEF FaultNext, Next, HostStep, GpuStep, Done, Works, faultVars, vars

\* What a fault does to a drained vCPU concerns that vCPU alone, and once the
\* context is lost nothing but the host's copy of it.
LEMMA DrainLosingAlone ==
  ASSUME FaultTypeOK, NEW lost \in Losses(cur, Copies), DrainLosing(lost, ZeroCpu)
  PROVE  /\ cur \in VCpu /\ flaky' = flaky /\ dead' = dead
         /\ dead \/ cur \in flaky
         /\ phase = "scan" /\ phase' = "scan" /\ cur' = cur + 1
         /\ UNCHANGED <<backend, left, runs, pcs>>
         /\ \A i \in VCpu \ flaky :
              /\ dev'[i] = dev[i] /\ ram'[i] = ram[i] /\ out'[i] = out[i]
              /\ \/ vcpus'[i] = vcpus[i]
                 \/ dead /\ ~vcpus'[i].syscall_pending
<1> USE RunAssumption
<1>1. cur \in VCpu /\ (dead \/ cur \in flaky)
  <2>1. cur \in VCpu
    BY DEF DrainLosing, FaultTypeOK, TypeOK, VCpu
  <2>2. dead \/ cur \in flaky
    BY DEF Losses
  <2> QED
    BY <2>1, <2>2
<1>2. CASE ~dead
  <2>1. \E x : vcpus' = [vcpus EXCEPT ![cur] = x]
    BY DEF DrainLosing
  <2>2. dev' = dev \/ \E x : dev' = [dev EXCEPT ![cur] = x]
    BY DEF DrainLosing
  <2>3. ram' = ram \/ \E x : ram' = [ram EXCEPT ![cur] = x]
    BY DEF DrainLosing
  <2>4. out' = out \/ \E x : out' = [out EXCEPT ![cur] = x]
    BY DEF DrainLosing
  <2>5. \A i \in VCpu \ flaky : /\ vcpus'[i] = vcpus[i] /\ dev'[i] = dev[i]
                                /\ ram'[i] = ram[i] /\ out'[i] = out[i]
    BY <1>1, <1>2, <2>1, <2>2, <2>3, <2>4 DEF FaultTypeOK, TypeOK
  <2> QED
    BY <1>1, <2>5 DEF DrainLosing, Fails
<1>3. CASE dead
  <2>1. lost = Copies
    BY <1>3 DEF Losses
  <2>2. "cpuDown" \in lost
    BY <2>1 DEF Copies
  <2>3. ~ZeroCpu.syscall_pending
    BY DEF ZeroCpu
  <2>4. /\ vcpus' = [vcpus EXCEPT ![cur] = ZeroCpu]
        /\ dev' = dev /\ ram' = ram /\ out' = out
    BY <2>2, <2>3 DEF DrainLosing
  <2>5. \A i \in VCpu : vcpus'[i] = vcpus[i] \/ vcpus'[i] = ZeroCpu
    BY <2>4 DEF FaultTypeOK, TypeOK
  <2> QED
    BY <1>1, <1>3, <2>3, <2>4, <2>5 DEF DrainLosing, Fails
<1> QED
  BY <1>2, <1>3

\* Every step, with or without a fault, keeps the others coherent.
LEMMA OthersInvStep ==
  ASSUME ~MayFallBack, MaxRuns <= 1, FaultTypeOK, OneGpuRun, OthersInv,
         [FaultNext]_faultVars
  PROVE  OthersInv'
<1> USE RunAssumption
<1>a. TypeOK /\ FaultTypeOK' /\ runs \in Nat /\ cur \in Int
  BY FaultTypeStep DEF FaultTypeOK, TypeOK
<1>b. \A i \in VCpu : i \in Int /\ 0 <= i /\ i < N
  BY DEF VCpu
<1>c. flaky' = flaky
  BY DEF FaultNext, FaultyStep, FaultyStart, FaultyLaunch, FaultySync,
         FaultyDrain, DrainLosing, FaultyCollect, Fails, Works, faultVars
<1>d. phase # "idle" => runs # 0
  BY DEF OneGpuRun
<1>e. phase # "kernel" => dead' = dead
  BY DEF FaultNext, FaultyStep, FaultyStart, FaultyLaunch, FaultySync,
         FaultyDrain, DrainLosing, FaultyCollect, Works, faultVars
<1>1. CASE StartGpu \/ FaultyStart
  <2>0. /\ runs = 0
        /\ phase' = "round" /\ UNCHANGED <<vcpus, left>>
    BY <1>1, <1>a DEF StartGpu, StartRun, FaultyStart
  <2>1. /\ runs = 0 /\ ~dead
        /\ phase' = "round" /\ UNCHANGED <<vcpus, left, dead>>
    BY <1>1, <2>0, <1>e DEF OneGpuRun, StartGpu, StartRun, FaultyStart
  <2>2. \A i \in VCpu \ flaky : dev'[i] = vcpus[i]
    BY <1>1, <2>1 DEF StartGpu, FaultyStart, Losses
  <2>3. /\ vcpus = Boot /\ \A i \in VCpu : left[i] = 0
    BY <2>1 DEF OneGpuRun
  <2>4. \A i \in VCpu : ~vcpus[i].syscall_pending
    BY <2>3 DEF Boot
  <2> QED
    BY <1>c, <2>1, <2>2, <2>3, <2>4 DEF OthersInv
<1>2. CASE StartCpu \/ DisableGpu
  BY <1>2 DEF StartCpu, DisableGpu, OneGpuRun
<1>3. CASE UNCHANGED <<vars, dead>>
  BY <1>3, <1>c DEF vars, OthersInv
<1>4. CASE CpuStep
  <2>1. phase # "idle" /\ (backend = "cpu" \/ phase \in {"exec", "serve"})
    BY <1>4 DEF CpuStep, CpuRound, CpuSkip, CpuEnter, CpuExec, CpuServe,
                CpuCollect
  <2> QED
    BY <2>1 DEF OneGpuRun
<1>5. CASE Launch /\ ~dead /\ dead' = dead
  <2>1. \A i \in VCpu \ flaky : ~dev[i].syscall_pending
    BY <1>5, <1>d DEF Launch, OthersInv
  <2>2. \A i \in VCpu : left'[i] > 0 => ~dev[i].halt
    BY <1>5 DEF Launch
  <2> QED
    BY <1>5, <1>c, <2>1, <2>2 DEF Launch, shared, OthersInv
<1>6. CASE FaultyLaunch
  <2>1. /\ phase = "round" /\ phase' = "scan" /\ cur' = 0
        /\ UNCHANGED <<vcpus, dev, left, runs, dead>>
    BY <1>6 DEF FaultyLaunch, shared
  <2>2. \A i \in VCpu : ~(i < 0) /\ 0 <= i
    BY <1>b
  <2> QED
    BY <1>c, <1>d, <2>1, <2>2 DEF OthersInv
<1>14. CASE FaultySync
  <2>1. /\ phase = "kernel" /\ phase' = "scan" /\ dead'
        /\ UNCHANGED <<vcpus, runs>>
        /\ \A i \in VCpu : left'[i] = 0
    BY <1>14 DEF FaultySync, shared
  <2> QED
    BY <1>c, <1>d, <2>1 DEF OthersInv
<1>7. CASE Sync /\ ~dead /\ dead' = dead
  <2>1. /\ phase = "kernel" /\ phase' = "scan" /\ cur' = 0
        /\ UNCHANGED <<vcpus, dev, left, runs>>
        /\ \A i \in VCpu : left[i] = 0
    BY <1>7 DEF Sync, shared
  <2>2. \A i \in VCpu : ~(i < 0) /\ 0 <= i
    BY <1>b
  <2> QED
    BY <1>c, <1>d, <2>1, <2>2 DEF OthersInv
<1>8. CASE Drain /\ ~dead /\ dead' = dead
  <2> DEFINE done == IF dev[cur].syscall_pending THEN Dispatch(dev[cur])
                                                 ELSE dev[cur]
  <2>1. cur \in VCpu /\ dev[cur] \in CpuState
    BY <1>8, <1>a DEF Drain, TypeOK, VCpu
  <2>2. ~done.syscall_pending
    BY <2>1, DispatchAnswers
  <2>3. dev'[cur] = done /\ vcpus'[cur] = done
    BY <1>8, <1>a, <2>1 DEF Drain, TypeOK
  <2>4. \A j \in VCpu : j # cur => dev'[j] = dev[j] /\ vcpus'[j] = vcpus[j]
    BY <1>8, <1>a DEF Drain, TypeOK
  <2>5. /\ phase = "scan" /\ phase' = "scan" /\ runs' = runs
        /\ cur' = cur + 1 /\ left' = left
    BY <1>8 DEF Drain
  <2> HIDE DEF done
  <2>6. \A i \in VCpu : /\ i < cur + 1 => i < cur \/ i = cur
                        /\ cur <= i /\ i # cur => cur + 1 <= i
    BY <1>a, <1>b
  <2> QED
    BY <1>8, <1>c, <1>d, <2>2, <2>3, <2>4, <2>5, <2>6 DEF OthersInv
<1>9. CASE FaultyDrain
  <2>1. PICK lost \in Losses(cur, Copies) : DrainLosing(lost, ZeroCpu)
    BY <1>9 DEF FaultyDrain
  <2>2. /\ cur \in VCpu /\ (dead \/ cur \in flaky) /\ dead' = dead
        /\ phase = "scan" /\ phase' = "scan" /\ cur' = cur + 1
        /\ UNCHANGED <<left, runs>>
        /\ \A i \in VCpu \ flaky :
             /\ dev'[i] = dev[i]
             /\ vcpus'[i] = vcpus[i] \/ (dead /\ ~vcpus'[i].syscall_pending)
    BY <2>1, DrainLosingAlone
  <2>3. ~dead => \A i \in VCpu \ flaky : /\ i < cur + 1 => i < cur
                                         /\ cur <= i => cur + 1 <= i
    <3> SUFFICES ASSUME ~dead, NEW i \in VCpu \ flaky
                 PROVE  /\ i < cur + 1 => i < cur
                        /\ cur <= i => cur + 1 <= i
      OBVIOUS
    <3>1. i # cur
      BY <2>2
    <3>2. i \in Int
      BY <1>b
    <3> QED
      BY <1>a, <3>1, <3>2
  <2> QED
    BY <1>c, <1>d, <2>2, <2>3 DEF OthersInv
<1>10. CASE (GpuCollect /\ ~dead /\ dead' = dead) \/ FaultyCollect
  <2>0. cur \in VCpu
    BY <1>10, <1>a DEF GpuCollect, FaultyCollect, TypeOK, VCpu
  <2>1. /\ UNCHANGED <<dev, left, runs, dead>>
        /\ (vcpus' = [vcpus EXCEPT ![cur] = dev[cur]] /\ ~dead) \/ vcpus' = vcpus
        /\ phase = "collect" /\ phase' \in {"collect", "traps"}
    BY <1>10 DEF GpuCollect, FaultyCollect, Losses, shared
  <2>2. \A i \in VCpu : vcpus'[i] = vcpus[i] \/ (vcpus'[i] = dev[i] /\ ~dead)
    BY <1>a, <2>0, <2>1 DEF TypeOK
  <2> QED
    BY <1>c, <1>d, <2>1, <2>2 DEF OthersInv
<1>11. CASE (EndRound \/ LeaveLoop) /\ dead' = dead
  <2>1. /\ UNCHANGED <<vcpus, dev, left, runs>>
        /\ phase \in {"round", "scan"} /\ phase' \in {"round", "collect"}
        /\ phase = "scan" => cur = N
    BY <1>11 DEF EndRound, LeaveLoop, shared
  <2>2. \A i \in VCpu : i < N /\ ~(N <= i)
    BY <1>b
  <2> QED
    BY <1>11, <1>c, <1>d, <2>1, <2>2 DEF OthersInv
<1>12. CASE HandleTraps /\ dead' = dead
  <2>1. /\ \A i \in VCpu : vcpus'[i] = IF vcpus[i].syscall_pending
                                       THEN Dispatch(vcpus[i]) ELSE vcpus[i]
        /\ UNCHANGED <<dev, left, runs>>
        /\ phase = "traps" /\ phase' = "idle"
    BY <1>12 DEF HandleTraps
  <2>2. \A i \in VCpu \ flaky : ~vcpus[i].syscall_pending /\ vcpus'[i] = vcpus[i]
    BY <1>d, <2>1 DEF OthersInv
  <2> QED
    BY <1>12, <1>c, <1>d, <2>1, <2>2 DEF OthersInv
<1>13. ASSUME NEW i \in VCpu, KernelStep(i), dead' = dead
       PROVE  OthersInv'
  <2>1. dev[i] \in CpuState /\ ram[i] \in Mem /\ pcs[i] \in Int /\ left[i] > 0
        /\ Exec(i, dev[i])
    BY <1>13, <1>a DEF KernelStep, TypeOK
  <2>2. phase = "kernel" /\ phase' = "kernel" /\ runs' = runs
    BY <1>13 DEF KernelStep, shared
  <2>3. /\ \A j \in VCpu : j # i => left'[j] = left[j]
        /\ left'[i] > 0 => Status(pcs[i]) = "running"
    BY <1>a, <2>1, ExecLeft
  <2>4. Status(pcs[i]) = "running" =>
          /\ ExecCpu(dev[i], ram[i], pcs[i]).halt = dev[i].halt
          /\ ExecCpu(dev[i], ram[i], pcs[i]).syscall_pending
               = dev[i].syscall_pending
    BY <2>1, ExecStatus
  <2>5. /\ dev'[i] = ExecCpu(dev[i], ram[i], pcs[i])
        /\ \A j \in VCpu : j # i => dev'[j] = dev[j]
    BY <1>13, <1>a DEF KernelStep, TypeOK
  <2>6. /\ \A j \in VCpu \ flaky : ~dead' /\ ~vcpus'[j].syscall_pending
        /\ vcpus' = vcpus
    BY <1>13, <1>d, <2>2 DEF OthersInv, KernelStep, shared
  <2> QED
    BY <1>c, <1>d, <2>1, <2>2, <2>3, <2>4, <2>5, <2>6 DEF OthersInv
<1> QED
  BY <1>1, <1>2, <1>3, <1>4, <1>5, <1>6, <1>7, <1>8, <1>9, <1>10, <1>11,
     <1>12, <1>13, <1>14 DEF FaultNext, FaultyStep, Next, HostStep, GpuStep, Done,
                             Works, faultVars, vars

\* Every step is a step of one of the others, their restart, or nothing to
\* them.
LEMMA OthersNext ==
  ASSUME ~MayFallBack, MaxRuns <= 1, FaultTypeOK, OneGpuRun, OthersInv,
         [FaultNext]_faultVars
  PROVE  Others!Next \/ UNCHANGED Others!guests
<1> USE RunAssumption
<1>a. TypeOK /\ runs \in Nat /\ flaky \subseteq VCpu
  BY DEF FaultTypeOK, TypeOK
<1>b. flaky' = flaky
  BY DEF FaultNext, FaultyStep, FaultyStart, FaultyLaunch, FaultySync,
         FaultyDrain, DrainLosing, FaultyCollect, Fails, Works, faultVars
<1>c. phase # "idle" => runs # 0 /\ backend = "gpu"
  BY DEF OneGpuRun
<1>1. CASE StartGpu \/ FaultyStart
  <2>1. runs = 0 /\ backend' = "gpu" /\ out' = out
    BY <1>1, <1>a DEF StartGpu, StartRun, FaultyStart
  <2>2. memory = Image /\ vcpus = Boot /\ backend = "cpu" /\ ~dead
    BY <2>1 DEF OneGpuRun
  <2>3. \A i \in VCpu \ flaky :
          dev'[i] = Boot[i] /\ ram'[i] = Image /\ pcs'[i] = Entry
    BY <1>1, <2>2 DEF StartGpu, StartRun, FaultyStart, Losses
  <2>4. \A i \in VCpu : ~Boot[i].syscall_pending
    BY DEF Boot
  <2> DEFINE C == [j \in VCpu |-> IF j \in flaky THEN Boot[j] ELSE Live(j)]
             M == [j \in VCpu |-> IF j \in flaky THEN Image ELSE ram[j]]
             P == [j \in VCpu |-> IF j \in flaky THEN Entry ELSE pcs[j]]
             O == [j \in VCpu |-> IF j \in flaky THEN << >> ELSE out[j]]
  <2>5. \A i \in VCpu : ~C[i].syscall_pending
    BY <2>2, <2>4 DEF Live
  <2>6. C' = C
    BY <1>b, <2>1, <2>2, <2>3 DEF Live, Boot
  <2>7. M' = [j \in VCpu |-> Image] /\ P' = [j \in VCpu |-> Entry] /\ O' = O
    BY <1>b, <2>1, <2>3
  <2>8. Others!Restart
    BY <2>5, <2>6, <2>7, OtherExec DEF Others!Restart
  <2> QED
    BY <2>8 DEF Others!Next
<1>2. CASE StartCpu \/ DisableGpu
  BY <1>2 DEF StartCpu, DisableGpu, OneGpuRun
<1>3. CASE CpuStep
  <2>1. phase # "idle" /\ (backend = "cpu" \/ phase \in {"exec", "serve"})
    BY <1>3 DEF CpuStep, CpuRound, CpuSkip, CpuEnter, CpuExec, CpuServe,
                CpuCollect
  <2> QED
    BY <2>1 DEF OneGpuRun
<1>4. ASSUME UNCHANGED <<dev, backend, ram, pcs, out>>,
             backend = "gpu" \/ vcpus' = vcpus
      PROVE  UNCHANGED Others!guests
  BY <1>b, <1>4, OthersStutter DEF Live
<1>5. CASE Launch \/ Sync \/ GpuCollect \/ EndRound \/ LeaveLoop
           \/ FaultyLaunch \/ FaultySync \/ FaultyCollect
  <2>1. UNCHANGED <<dev, backend, ram, pcs, out>> /\ phase # "idle"
    BY <1>5 DEF Launch, Sync, GpuCollect, EndRound, LeaveLoop, FaultyLaunch,
                FaultySync, FaultyCollect, shared
  <2> QED
    BY <1>4, <1>c, <2>1
<1>6. CASE UNCHANGED vars
  BY <1>4, <1>6 DEF vars
<1>7. CASE HandleTraps
  <2>1. /\ UNCHANGED <<dev, backend, ram, pcs>> /\ phase = "traps"
        /\ \A i \in VCpu : ~vcpus[i].syscall_pending => out'[i] = out[i]
    BY <1>7 DEF HandleTraps
  <2>2. \A i \in VCpu \ flaky : ~vcpus[i].syscall_pending
    BY <1>c, <2>1 DEF OthersInv
  <2> QED
    BY <1>b, <1>c, <2>1, <2>2, OthersStutter DEF Live
<1>8. CASE Drain
  <2>1. cur \in VCpu /\ backend = "gpu" /\ backend' = "gpu"
    BY <1>8, <1>a DEF Drain, TypeOK, VCpu
  <2>2. PICK i \in VCpu : i = cur
    BY <2>1
  <2>3. ram' = ram /\ pcs' = pcs /\ memory' = ram[i]
    BY <1>8, <1>a, <2>2 DEF Drain, TypeOK
  <2>4. CASE i \notin flaky /\ dev[i].syscall_pending
    <3>1. /\ Live(i) = dev[i] /\ Live(i)' = Dispatch(dev[i])
          /\ \A j \in VCpu : j # i => Live(j)' = Live(j)
      BY <1>8, <1>a, <2>1, <2>2, <2>4 DEF Drain, Live, TypeOK
    <3>2. out' = [out EXCEPT ![i] = out[i] \o Printed(dev[i], ram[i])]
      BY <1>8, <2>2, <2>3, <2>4 DEF Drain
    <3>3. Others!Serve(i)
      BY <1>a, <1>b, <2>3, <2>4, <3>1, <3>2, OtherServe
    <3> QED
      BY <3>3, OtherExec DEF Others!Next
  <2>5. CASE i \in flaky
    <3>1. \A j \in VCpu : j # i => dev'[j] = dev[j] /\ out'[j] = out[j]
      BY <1>8, <1>a, <2>2 DEF Drain, TypeOK
    <3> QED
      BY <1>b, <2>1, <2>3, <2>5, <3>1, OthersStutter DEF Live
  <2>6. CASE ~dev[i].syscall_pending
    <3>1. dev' = dev /\ out' = out
      BY <1>8, <2>2, <2>6 DEF Drain
    <3> QED
      BY <1>b, <2>1, <2>3, <3>1, OthersStutter DEF Live
  <2> QED
    BY <2>4, <2>5, <2>6
<1>9. CASE FaultyDrain
  <2>1. PICK lost \in Losses(cur, Copies) : DrainLosing(lost, ZeroCpu)
    BY <1>9 DEF FaultyDrain
  <2>2. /\ phase = "scan" /\ UNCHANGED <<backend, pcs>>
        /\ \A i \in VCpu \ flaky : /\ dev'[i] = dev[i] /\ ram'[i] = ram[i]
                                   /\ out'[i] = out[i]
    BY <2>1, DrainLosingAlone
  <2> QED
    BY <1>b, <1>c, <2>2, OthersStutter DEF Live
<1>10. ASSUME NEW i \in VCpu, KernelStep(i)
       PROVE  Others!Next \/ UNCHANGED Others!guests
  <2>1. backend = "gpu" /\ backend' = "gpu" /\ left[i] > 0
    BY <1>10, <1>c DEF KernelStep, shared
  <2>2. /\ Live(i) = dev[i] /\ Exec(i, dev[i]) /\ out' = out
        /\ Live(i)' = ExecCpu(dev[i], ram[i], pcs[i])
        /\ \A j \in VCpu : j # i => Live(j)' = Live(j)
    BY <1>10, <1>a, <2>1 DEF KernelStep, Live, TypeOK
  <2>3. CASE i \in flaky
    <3>1. \A j \in VCpu : j # i => ram'[j] = ram[j] /\ pcs'[j] = pcs[j]
      BY <1>a, <2>2 DEF Exec, TypeOK
    <3> QED
      BY <1>b, <2>2, <2>3, <3>1, OthersStutter
  <2>4. CASE i \notin flaky
    <3>1. ~dev[i].halt /\ ~dev[i].syscall_pending
      BY <1>10, <1>c, <2>1, <2>4 DEF KernelStep, OthersInv
    <3>2. Others!Step(i)
      BY <1>a, <1>b, <2>2, <2>4, <3>1, OtherStep
    <3> QED
      BY <3>2, OtherExec DEF Others!Next
  <2> QED
    BY <2>3, <2>4
<1> QED
  BY <1>1, <1>2, <1>3, <1>5, <1>6, <1>7, <1>8, <1>9, <1>10
     DEF FaultNext, FaultyStep, Next, HostStep, GpuStep, Done, faultVars, vars

\* Whatever device calls fail for the vCPUs in flaky, whatever launches fail,
\* and whenever a kernel dies, the other vCPUs are, on the device, independent
\* guests: a dying kernel stops them but changes nothing they hold.
THEOREM OthersImplementGuests ==
  ASSUME HasGpu, ~MayFallBack, MaxRuns <= 1
  PROVE  FaultSpec => OthersUnharmed
<1>1. FaultInit => FaultTypeOK /\ OneGpuRun /\ OthersInv /\ Others!Init
  <2> SUFFICES ASSUME FaultInit
               PROVE  FaultTypeOK /\ OneGpuRun /\ OthersInv /\ Others!Init
    OBVIOUS
  <2>1. FaultTypeOK
    BY TypeInit DEF FaultInit, FaultTypeOK
  <2>2. OneGpuRun /\ OthersInv
    BY HasGpu DEF FaultInit, Init, OneGpuRun, OthersInv
  <2>3. /\ [i \in VCpu |-> IF i \in flaky THEN Boot[i] ELSE Live(i)] = Boot
        /\ [i \in VCpu |-> IF i \in flaky THEN Image ELSE ram[i]]
             = [i \in VCpu |-> Image]
        /\ [i \in VCpu |-> IF i \in flaky THEN Entry ELSE pcs[i]]
             = [i \in VCpu |-> Entry]
        /\ [i \in VCpu |-> IF i \in flaky THEN << >> ELSE out[i]]
             = [i \in VCpu |-> << >>]
    BY DEF FaultInit, Init, Live, Boot
  <2> QED
    BY <2>1, <2>2, <2>3, OtherExec DEF Others!Init
<1>2. FaultTypeOK /\ OneGpuRun /\ OthersInv /\ [FaultNext]_faultVars
        => FaultTypeOK' /\ OneGpuRun' /\ OthersInv'
  BY FaultTypeStep, OneGpuRunStep, OthersInvStep
<1>3. FaultTypeOK /\ OneGpuRun /\ OthersInv /\ [FaultNext]_faultVars
        => [Others!Next]_(Others!guests)
  BY OthersNext
<1> QED
  BY <1>1, <1>2, <1>3, PTL DEF FaultSpec, OthersUnharmed, Others!Spec
=============================================================================
