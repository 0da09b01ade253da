------------------------------- MODULE RunLoop -------------------------------
(***************************************************************************)
(* Emulator::run of src/emulator.cpp, with its two backends, over a fixed  *)
(* translated guest and N vCPUs:                                           *)
(*                                                                         *)
(*  run_cpu  gives every vCPU a copy of the master RAM, mem_, and runs the *)
(*           vCPUs in turn, a chunk of IR steps each, serving a system     *)
(*           call as soon as it traps;                                     *)
(*  run_gpu  uploads every vCPU and a copy of mem_ to the device, launches *)
(*           a kernel of one thread per vCPU for a chunk, waits for it,    *)
(*           and drains the vCPUs one by one through mem_, which it uses   *)
(*           as the buffer of every download.                              *)
(*                                                                         *)
(* One action is one IR instruction of one vCPU or one host step between   *)
(* two of them; the threads of a kernel interleave freely.                 *)
(***************************************************************************)
EXTENDS LinuxSyscalls

CONSTANTS
  N,          \* number of vCPUs
  Entry,      \* flat_.ir_index_for(rip): where every run of a vCPU begins
  Image,      \* guest RAM as the loader left it
  InitRsp,    \* VirtualCpu's initial stack pointer
  Chunk,      \* IR steps per slice or launch (4096 in the code)
  Budgets,    \* the values run's argument max_steps_per_vcpu takes
  TotalMod,   \* total is unsigned: it counts modulo TotalMod (2^32)
  HasGpu,     \* gpuemu_cuda_available(), asked by the constructor
  MayFallBack,\* the executor may fail to be created, or the GPU be disabled
  MaxRuns     \* bound: how often run() is called

VCpu == 0 .. N - 1

ASSUME RunAssumption ==
  /\ N \in Nat \ {0}
  /\ Entry \in Nat
  /\ Image \in Mem
  /\ InitRsp \in Int
  /\ Chunk \in Nat \ {0}
  /\ Budgets \subseteq Nat
  /\ TotalMod \in Nat \ {0}
  /\ HasGpu \in BOOLEAN
  /\ MayFallBack \in BOOLEAN
  /\ MaxRuns \in Nat

\* CpuState cpu{} with the register main.cpp sets: RDI is the vCPU's number.
Boot == [i \in VCpu |->
  [gpr |-> [r \in Reg |-> CASE r = "RDI" -> i [] r = "RSP" -> InitRsp
                            [] OTHER -> 0],
   zf |-> FALSE, lt |-> FALSE, halt |-> FALSE, syscall_pending |-> FALSE,
   syscall_num |-> 0, syscall_ret |-> 0]]

VARIABLES
  memory,      \* mem_, the master RAM
  vcpus,       \* vcpus_[i]->state()
  vcpuMem,     \* vcpu_mem_: the RAM snapshots of the last run
  ram,         \* RAM vCPU i executes on: mem_slices[i], or its part of d_mem
  pcs,         \* pcs (CPU) or d_pcs (GPU): IR index of vCPU i
  dev,         \* d_vcpus: the device's copy of the CpuStates
  useGpu,      \* use_gpu_
  handle,      \* cuda_handle_ # nullptr
  backend,     \* which of run_cpu and run_gpu the last run() chose
  phase,       \* where run() is; "idle" outside it
  maxSteps,    \* max_steps
  total,       \* steps charged so far
  cur,         \* index of the loop over the vCPUs
  anyRunning,  \* any_running
  left,        \* left[i]: iterations exec_ir may still make for vCPU i
  result,      \* RunResult of the last run that returned
  runs,        \* calls of run() so far
  executed,    \* history: IR steps vCPU i took in this run, counted up to
               \* maxSteps + Chunk
  out          \* history: what was printed for vCPU i

shared == <<memory, maxSteps, useGpu, handle, backend, runs, result>>
vars == <<memory, vcpus, vcpuMem, ram, pcs, dev, useGpu, handle, backend,
          phase, maxSteps, total, cur, anyRunning, left, result, runs,
          executed, out>>

Phase == {"idle", "round", "scan", "exec", "serve", "kernel", "collect",
          "traps"}

Init ==
  /\ memory = Image
  /\ vcpus = Boot
  /\ vcpuMem = [i \in VCpu |-> Image]
  /\ ram = [i \in VCpu |-> Image]
  /\ pcs = [i \in VCpu |-> Entry]
  /\ dev = Boot
  /\ useGpu = HasGpu
  /\ handle = FALSE
  /\ backend = "cpu"
  /\ phase = "idle"
  /\ maxSteps = 0
  /\ total = 0
  /\ cur = 0
  /\ anyRunning = FALSE
  /\ left = [i \in VCpu |-> 0]
  /\ result = [halted |-> FALSE, exit_code |-> 0]
  /\ runs = 0
  /\ executed = [i \in VCpu |-> 0]
  /\ out = [i \in VCpu |-> << >>]

-----------------------------------------------------------------------------
(* Choosing a backend.                                                     *)

\* What both backends do first: a RAM of its own for every vCPU, filled from
\* mem_, and its pc at the entry point again.
StartRun ==
  /\ phase = "idle"
  /\ runs < MaxRuns
  /\ CodeLen > 0
  /\ runs' = runs + 1
  /\ phase' = "round"
  /\ ram' = [i \in VCpu |-> memory]
  /\ pcs' = [i \in VCpu |-> Entry]
  /\ maxSteps' \in Budgets
  /\ total' = 0
  /\ executed' = [i \in VCpu |-> 0]
  /\ UNCHANGED <<memory, vcpus, vcpuMem, cur, anyRunning, left, result, out>>

\* The GPU is not used, or init_gpu fails now, and with it the GPU for good.
StartCpu ==
  /\ StartRun
  /\ useGpu => ~handle /\ MayFallBack
  /\ useGpu' = FALSE
  /\ backend' = "cpu"
  /\ UNCHANGED <<handle, dev>>

\* Mutant of StartGpu: the vCPUs are uploaded as they were added.
StartGpuFromBoot ==
  /\ StartRun
  /\ useGpu
  /\ handle' = TRUE
  /\ backend' = "gpu"
  /\ dev' = Boot
  /\ UNCHANGED useGpu

\* The executor exists, or init_gpu creates it.
StartGpu ==
  /\ StartRun
  /\ useGpu
  /\ handle' = TRUE
  /\ backend' = "gpu"
  /\ dev' = vcpus
  /\ UNCHANGED useGpu

DisableGpu ==
  /\ phase = "idle"
  /\ useGpu
  /\ MayFallBack
  /\ useGpu' = FALSE
  /\ UNCHANGED <<memory, vcpus, vcpuMem, ram, pcs, dev, handle, backend, phase,
                 maxSteps, total, cur, anyRunning, left, result, runs, executed, out>>

-----------------------------------------------------------------------------
(* The loop both backends run while total < max_steps.                     *)

\* vCPU i, whose registers are c, executes one IR instruction.
Exec(i, c) ==
  /\ ram' = [ram EXCEPT ![i] = ExecMem(c, ram[i], pcs[i])]
  /\ pcs' = [pcs EXCEPT ![i] = ExecPc(c, ram[i], pcs[i])]
  /\ left' = [left EXCEPT ![i] = IF Status(pcs[i]) = "running" THEN @ - 1
                                                               ELSE 0]
  /\ executed' = [executed EXCEPT ![i] = IF @ < maxSteps + Chunk THEN @ + 1
                                                                ELSE @]

CpuRound ==
  /\ phase = "round" /\ backend = "cpu"
  /\ total < maxSteps
  /\ phase' = "scan"
  /\ cur' = 0
  /\ anyRunning' = FALSE
  /\ UNCHANGED <<shared, vcpus, vcpuMem, ram, pcs, dev, total, left, executed,
                 out>>

\* if (cpu.halt) continue;
CpuSkip ==
  /\ phase = "scan" /\ backend = "cpu"
  /\ cur < N
  /\ vcpus[cur].halt
  /\ cur' = cur + 1
  /\ UNCHANGED <<shared, vcpus, vcpuMem, ram, pcs, dev, phase, total,
                 anyRunning, left, executed, out>>

\* Mutant of CpuEnter: a vCPU that has halted is run again.
CpuEnterHalted ==
  /\ phase = "scan" /\ backend = "cpu"
  /\ cur < N
  /\ anyRunning' = TRUE
  /\ left' = [left EXCEPT ![cur] = Chunk]
  /\ phase' = "exec"
  /\ UNCHANGED <<shared, vcpus, vcpuMem, ram, pcs, dev, total, cur, executed,
                 out>>

\* Mutant of CpuEnter: exec_ir's loop makes one step too many.
CpuEnterOneMore ==
  /\ phase = "scan" /\ backend = "cpu"
  /\ cur < N
  /\ ~vcpus[cur].halt
  /\ anyRunning' = TRUE
  /\ left' = [left EXCEPT ![cur] = Chunk + 1]
  /\ phase' = "exec"
  /\ UNCHANGED <<shared, vcpus, vcpuMem, ram, pcs, dev, total, cur, executed,
                 out>>

\* run_ir is called for vCPU cur ...
CpuEnter ==
  /\ phase = "scan" /\ backend = "cpu"
  /\ cur < N
  /\ ~vcpus[cur].halt
  /\ anyRunning' = TRUE
  /\ left' = [left EXCEPT ![cur] = Chunk]
  /\ phase' = "exec"
  /\ UNCHANGED <<shared, vcpus, vcpuMem, ram, pcs, dev, total, cur, executed,
                 out>>

\* Mutant of CpuExec: the trap exec_ir returns with is ignored.
CpuExecIgnoresTrap ==
  /\ phase = "exec"
  /\ vcpus' = [vcpus EXCEPT ![cur] = ExecCpu(@, ram[cur], pcs[cur])]
  /\ Exec(cur, vcpus[cur])
  /\ phase' = IF left'[cur] > 0 THEN "exec" ELSE "scan"
  /\ cur' = IF phase' = "scan" THEN cur + 1 ELSE cur
  /\ UNCHANGED <<shared, vcpuMem, dev, total, anyRunning, out>>

\* ... and returns when the chunk is used up, on a halt or on a trap.
CpuExec ==
  /\ phase = "exec"
  /\ vcpus' = [vcpus EXCEPT ![cur] = ExecCpu(@, ram[cur], pcs[cur])]
  /\ Exec(cur, vcpus[cur])
  /\ phase' = IF Status(pcs[cur]) = "syscall" THEN "serve"
              ELSE IF left'[cur] > 0 THEN "exec" ELSE "scan"
  /\ cur' = IF phase' = "scan" THEN cur + 1 ELSE cur
  /\ UNCHANGED <<shared, vcpuMem, dev, total, anyRunning, out>>

\* handle_syscall works on mem_, whatever the vCPU's slice holds.
CpuServe ==
  /\ phase = "serve"
  /\ vcpus' = [vcpus EXCEPT ![cur] = Dispatch(@)]
  /\ out' = [out EXCEPT ![cur] = @ \o Printed(vcpus[cur], memory)]
  /\ phase' = "scan"
  /\ cur' = cur + 1
  /\ UNCHANGED <<shared, vcpuMem, ram, pcs, dev, total, anyRunning, left,
                 executed>>

\* Mutant of Launch: the kernel runs vCPUs that have halted.
LaunchHalted ==
  /\ phase = "round" /\ backend = "gpu"
  /\ total < maxSteps
  /\ phase' = "kernel"
  /\ left' = [i \in VCpu |-> Chunk]
  /\ UNCHANGED <<shared, vcpus, vcpuMem, ram, pcs, dev, total, cur, anyRunning,
                 executed, out>>

\* gpuemu_cuda_run: a thread whose vCPU has halted returns at once.
Launch ==
  /\ phase = "round" /\ backend = "gpu"
  /\ total < maxSteps
  /\ phase' = "kernel"
  /\ left' = [i \in VCpu |-> IF dev[i].halt THEN 0 ELSE Chunk]
  /\ UNCHANGED <<shared, vcpus, vcpuMem, ram, pcs, dev, total, cur, anyRunning,
                 executed, out>>

\* The thread of vCPU i executes one instruction on the device.
KernelStep(i) ==
  /\ phase = "kernel"
  /\ left[i] > 0
  /\ dev' = [dev EXCEPT ![i] = ExecCpu(@, ram[i], pcs[i])]
  /\ Exec(i, dev[i])
  /\ UNCHANGED <<shared, vcpus, vcpuMem, phase, total, cur, anyRunning, out>>

\* cudaDeviceSynchronize returns when every thread has.
Sync ==
  /\ phase = "kernel"
  /\ \A i \in VCpu : left[i] = 0
  /\ phase' = "scan"
  /\ cur' = 0
  /\ anyRunning' = FALSE
  /\ UNCHANGED <<shared, vcpus, vcpuMem, ram, pcs, dev, total, left, executed,
                 out>>

\* Mutants of Drain: the system call is served in the RAM read, the RAM in the
\* vCPU is replaced by sent, and its CpuState is uploaded if back.
DrainAs(read, sent, back) ==
  /\ phase = "scan" /\ backend = "gpu"
  /\ cur < N
  /\ LET c    == dev[cur]
         trap == c.syscall_pending
         done == IF trap THEN Dispatch(c) ELSE c
     IN  /\ vcpus' = [vcpus EXCEPT ![cur] = done]
         /\ dev' = IF trap /\ back THEN [dev EXCEPT ![cur] = done] ELSE dev
         /\ ram' = IF trap THEN [ram EXCEPT ![cur] = sent] ELSE ram
         /\ out' = IF trap THEN [out EXCEPT ![cur] = @ \o Printed(c, read)]
                           ELSE out
         /\ anyRunning' = (anyRunning \/ ~done.halt)
  /\ memory' = ram[cur]
  /\ cur' = cur + 1
  /\ UNCHANGED <<vcpuMem, pcs, useGpu, handle, backend, phase, maxSteps, total,
                 left, result, runs, executed>>

DrainServesStaleRam == DrainAs(memory, ram[cur], TRUE)
DrainSendsStaleRam  == DrainAs(ram[cur], memory, TRUE)
DrainForgetsUpload  == DrainAs(ram[cur], ram[cur], FALSE)

\* vCPU cur is downloaded, its RAM into mem_; a pending system call is served
\* there and the vCPU uploaded again, its RAM from mem_.
Drain ==
  /\ phase = "scan" /\ backend = "gpu"
  /\ cur < N
  /\ memory' = ram[cur]
  /\ LET c    == dev[cur]
         trap == c.syscall_pending
         done == IF trap THEN Dispatch(c) ELSE c
     IN  /\ vcpus' = [vcpus EXCEPT ![cur] = done]
         /\ dev' = IF trap THEN [dev EXCEPT ![cur] = done] ELSE dev
         /\ ram' = IF trap THEN [ram EXCEPT ![cur] = memory'] ELSE ram
         /\ out' = IF trap THEN [out EXCEPT ![cur] = @ \o Printed(c, memory')]
                           ELSE out
         /\ anyRunning' = (anyRunning \/ ~done.halt)
  /\ cur' = cur + 1
  /\ UNCHANGED <<vcpuMem, pcs, useGpu, handle, backend, phase, maxSteps, total,
                 left, result, runs, executed>>

\* Mutants of EndRound: a round is charged as charge steps, and is followed by
\* another one if again.
EndRoundAs(charge, again) ==
  /\ phase = "scan"
  /\ cur = N
  /\ total' = (total + charge) % TotalMod
  /\ phase' = IF again THEN "round" ELSE "collect"
  /\ cur' = 0
  /\ UNCHANGED <<shared, vcpus, vcpuMem, ram, pcs, dev, anyRunning, left,
                 executed, out>>

EndRoundFree    == EndRoundAs(0, anyRunning)
EndRoundOneStep == EndRoundAs(1, anyRunning)
EndRoundOnce    == EndRoundAs(Chunk, ~anyRunning)

\* total += chunk; if (!any_running) break;
EndRound ==
  /\ phase = "scan"
  /\ cur = N
  /\ total' = (total + Chunk) % TotalMod
  /\ phase' = IF anyRunning THEN "round" ELSE "collect"
  /\ cur' = 0
  /\ UNCHANGED <<shared, vcpus, vcpuMem, ram, pcs, dev, anyRunning, left,
                 executed, out>>

\* The while condition fails.
LeaveLoop ==
  /\ phase = "round"
  /\ total >= maxSteps
  /\ phase' = "collect"
  /\ cur' = 0
  /\ UNCHANGED <<shared, vcpus, vcpuMem, ram, pcs, dev, total, anyRunning, left,
                 executed, out>>

-----------------------------------------------------------------------------
(* After the loop.                                                         *)

\* Mutant of CpuCollect: the first slice is copied back to mem_.
CpuCollectIntoMaster ==
  /\ phase = "collect" /\ backend = "cpu"
  /\ vcpuMem' = ram
  /\ memory' = ram[0]
  /\ phase' = "traps"
  /\ UNCHANGED <<maxSteps, useGpu, handle, backend, runs, result, vcpus, ram,
                 pcs, dev, total, cur, anyRunning, left, executed, out>>

\* vcpu_mem_ = std::move(mem_slices);
CpuCollect ==
  /\ phase = "collect" /\ backend = "cpu"
  /\ vcpuMem' = ram
  /\ phase' = "traps"
  /\ UNCHANGED <<shared, vcpus, ram, pcs, dev, total, cur, anyRunning, left,
                 executed, out>>

\* vCPU cur is downloaded once more, its RAM into vcpu_mem_[cur].
GpuCollect ==
  /\ phase = "collect" /\ backend = "gpu"
  /\ vcpus' = [vcpus EXCEPT ![cur] = dev[cur]]
  /\ vcpuMem' = [vcpuMem EXCEPT ![cur] = ram[cur]]
  /\ cur' = cur + 1
  /\ phase' = IF cur + 1 < N THEN "collect" ELSE "traps"
  /\ UNCHANGED <<shared, ram, pcs, dev, total, anyRunning, left, executed, out>>

\* The exit code run() reports is that of the last vCPU that has halted.
ExitCode(states) ==
  LET halted == {i \in VCpu : states[i].halt}
  IN  IF halted = {} THEN 0
      ELSE states[CHOOSE i \in halted : \A j \in halted : j <= i].syscall_ret

\* handle_traps, then the result.
HandleTraps ==
  /\ phase = "traps"
  /\ LET trap(i) == vcpus[i].syscall_pending IN
     /\ vcpus' = [i \in VCpu |-> IF trap(i) THEN Dispatch(vcpus[i])
                                            ELSE vcpus[i]]
     /\ out' = [i \in VCpu |-> IF trap(i)
                               THEN out[i] \o Printed(vcpus[i], memory)
                               ELSE out[i]]
  /\ result' = [halted    |-> \A i \in VCpu : vcpus'[i].halt,
                exit_code |-> ExitCode(vcpus')]
  /\ phase' = "idle"
  /\ UNCHANGED <<memory, vcpuMem, ram, pcs, dev, useGpu, handle, backend,
                 maxSteps, total, cur, anyRunning, left, runs, executed>>

\* The program has made its last call of run().
Done == phase = "idle" /\ runs = MaxRuns /\ UNCHANGED vars

-----------------------------------------------------------------------------
CpuStep == CpuRound \/ CpuSkip \/ CpuEnter \/ CpuExec \/ CpuServe \/ CpuCollect
GpuStep == Launch \/ Sync \/ Drain \/ GpuCollect

\* The steps run() itself takes once it is called.
HostStep == CpuStep \/ GpuStep \/ EndRound \/ LeaveLoop \/ HandleTraps

Next == \/ StartCpu \/ StartGpu \/ DisableGpu
        \/ HostStep
        \/ \E i \in VCpu : KernelStep(i)
        \/ Done

Spec == Init /\ [][Next]_vars

\* The thread in run() does not stop of itself, nor does a CUDA thread of a
\* launched kernel.  Nothing obliges a caller to call run().
Fairness == WF_vars(HostStep) /\ \A i \in VCpu : WF_vars(KernelStep(i))

FairSpec == Spec /\ Fairness

-----------------------------------------------------------------------------
(* Properties.                                                             *)

\* The CpuState the vCPU really runs on: the device's on the GPU.
Live(i) == IF backend = "gpu" THEN dev[i] ELSE vcpus[i]

\* Every variable of run() keeps its type.
TypeOK ==
  /\ memory \in Mem
  /\ vcpus \in [VCpu -> CpuState]
  /\ vcpuMem \in [VCpu -> Mem]
  /\ ram \in [VCpu -> Mem]
  /\ pcs \in [VCpu -> Int]
  /\ dev \in [VCpu -> CpuState]
  /\ useGpu \in BOOLEAN
  /\ handle \in BOOLEAN
  /\ backend \in {"cpu", "gpu"}
  /\ phase \in Phase
  /\ maxSteps \in Nat
  /\ total \in Nat
  /\ cur \in 0 .. N
  /\ phase \in {"exec", "serve", "collect"} => cur < N
  /\ anyRunning \in BOOLEAN
  /\ left \in [VCpu -> 0 .. Chunk]
  /\ phase = "exec" => left[cur] > 0
  /\ result.halted \in BOOLEAN
  /\ runs \in 0 .. MaxRuns
  /\ executed \in [VCpu -> Nat]
  /\ out \in [VCpu -> Seq(Int)]

\* exec_ir never looks at syscall_pending, and the kernel looks at halt only
\* when it starts: it is the host loop that must see to it that no vCPU takes
\* a step while its system call is unanswered or after it has halted.
NoStepBeforeAnswer ==
  \A i \in VCpu : left[i] > 0 => ~Live(i).syscall_pending /\ ~Live(i).halt

\* When a round ends, every system call it raised has been answered, on the
\* host and on the device: handle_traps has nothing to do after the loop, and
\* would otherwise answer a call with whatever RAM mem_ happens to hold.
NoTrapLeft ==
  phase \in {"idle", "round", "collect", "traps"} =>
    \A i \in VCpu : /\ ~vcpus[i].syscall_pending
                    /\ backend = "gpu" => ~dev[i].syscall_pending

\* Between launches the host's and the device's CpuStates agree, so the last
\* download cannot undo what the host did for a vCPU in the loop.
HostMatchesDevice ==
  backend = "gpu" /\ phase \in {"idle", "round", "collect", "traps"} =>
    vcpus = dev

\* The inductive invariant behind the three properties above: where in the
\* loop a vCPU may have steps left or an unanswered system call, and how far
\* the host's CpuStates have caught up with the device's.
CpuInv ==
  /\ phase # "kernel"
  /\ \A i \in VCpu : vcpus[i].syscall_pending => phase = "serve" /\ i = cur
  /\ \A i \in VCpu : left[i] > 0 => phase = "exec" /\ i = cur
  /\ phase = "exec" => ~vcpus[cur].halt

GpuInv ==
  /\ phase \notin {"exec", "serve"}
  /\ \A i \in VCpu : left[i] > 0 =>
       phase = "kernel" /\ ~dev[i].halt /\ ~dev[i].syscall_pending
  /\ \A i \in VCpu : dev[i].syscall_pending =>
       phase = "kernel" \/ (phase = "scan" /\ cur <= i)
  /\ \A i \in VCpu :
       phase # "kernel" /\ (phase = "scan" => i < cur) => vcpus[i] = dev[i]

LoopInv == TypeOK /\ (IF backend = "cpu" THEN CpuInv ELSE GpuInv)

\* Isolation within a run: the RAM of a vCPU changes only in a step of its own.
\* The drain reuses mem_ for every vCPU and must not leak one into another.
RamChangesByOwnSteps ==
  [][ phase # "idle" =>
        \A i \in VCpu : ram'[i] # ram[i] => left'[i] < left[i]
    ]_vars

\* The budget is charged a chunk at a time: a vCPU exceeds max_steps by less
\* than a chunk in one run.
WithinBudget == \A i \in VCpu : executed[i] < maxSteps + Chunk

\* Although a trap gives up the rest of the chunk it is charged for, no vCPU
\* is starved: one that has not halted got a step in every round.
NoGuestStarved ==
  phase = "traps" =>
    \A i \in VCpu : vcpus[i].halt \/ executed[i] * Chunk >= maxSteps

\* Once run() has reported that all vCPUs halted, another run changes neither
\* their registers, nor what it reports, and prints nothing.
FinishedForGood ==
  [][ result.halted => UNCHANGED <<vcpus, result, out>> ]_vars

\* A system call is served with the RAM of the vCPU that made it.
ServedInOwnRam ==
  [][ \A i \in VCpu :
        out'[i] # out[i] => out'[i] = out[i] \o Printed(Live(i), ram[i]) ]_vars

\* Every run starts every vCPU in the image the loader left.
StartsFromImage ==
  [][ phase = "idle" /\ phase' = "round" =>
        \A i \in VCpu : ram'[i] = Image ]_vars

\* A call of run() returns, whether or not the guests halt.
RunReturns == phase # "idle" ~> phase = "idle"

\* The run loop implements N independent guests.
Guests == INSTANCE IndependentGuests
            WITH cpu <- [i \in VCpu |-> Live(i)], mem <- ram, pc <- pcs

ImplementsGuests == Guests!Spec
=============================================================================
