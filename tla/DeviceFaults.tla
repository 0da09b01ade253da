---------------------------- MODULE DeviceFaults ----------------------------
(***************************************************************************)
(* RunLoop with calls of the CUDA executor that fail.  upload and download *)
(* of cuda/executor.cu make two copies each, CpuState and RAM, and report  *)
(* an error after both; set_pc makes one; run launches the kernel.  Each   *)
(* can fail by itself, and run_gpu looks at none of the results.           *)
(*                                                                         *)
(* The copies of the vCPUs in flaky, any set, may fail, any launch may be  *)
(* refused, and a running kernel may die: a fault of one of its threads,   *)
(* or the driver's watchdog.  CUDA reports that to the synchronise call    *)
(* and from then on fails every call of the process; nothing resets it.    *)
(* MaxFaults bounds the host steps in which calls fail before that.        *)
(***************************************************************************)
EXTENDS RunLoop

CONSTANT MaxFaults

ASSUME FaultAssumption == MaxFaults \in Nat

VARIABLES
  flaky,    \* the vCPUs whose copies may fail
  faults,   \* host steps in which device calls have failed
  dead      \* the CUDA context is lost: every device call fails

faultVars == <<vars, flaky, faults, dead>>

\* CpuState cpu{}, and cudaMemset's zeros.
ZeroCpu == [gpr |-> [r \in Reg |-> 0], zf |-> FALSE, lt |-> FALSE,
            halt |-> FALSE, syscall_pending |-> FALSE, syscall_num |-> 0,
            syscall_ret |-> 0]
ZeroMem == [a \in Addr |-> 0]

Fails == /\ IF dead THEN UNCHANGED faults
                    ELSE faults < MaxFaults /\ faults' = faults + 1
         /\ UNCHANGED flaky

Uploads == {"cpu", "ram", "pc"}
Copies  == {"cpuDown", "ramDown", "cpuUp", "ramUp"}

\* Which of calls, made for vCPU i, may fail together.
Losses(i, calls) == IF dead THEN {calls}
                    ELSE IF i \in flaky THEN SUBSET calls \ {{}} ELSE {}

FaultInit == Init /\ faults = 0 /\ flaky \in SUBSET VCpu /\ dead = FALSE

\* run_gpu begins, and of what it uploads some does not arrive, for one vCPU or
\* for several: the device keeps what it had, zeros if the executor is new.
FaultyStart ==
  /\ Fails /\ UNCHANGED dead
  /\ phase = "idle" /\ useGpu
  /\ runs < MaxRuns
  /\ CodeLen > 0
  /\ \E lost \in [VCpu -> SUBSET Uploads] :
       /\ \A i \in VCpu : lost[i] # {} \/ dead => lost[i] \in Losses(i, Uploads)
       /\ \E i \in VCpu : lost[i] # {}
       /\ dev' = [i \in VCpu |-> IF "cpu" \notin lost[i] THEN vcpus[i]
                                 ELSE IF handle THEN dev[i] ELSE ZeroCpu]
       /\ ram' = [i \in VCpu |-> IF "ram" \notin lost[i] THEN memory
                                 ELSE IF handle THEN ram[i] ELSE ZeroMem]
       /\ pcs' = [i \in VCpu |-> IF "pc" \notin lost[i] THEN Entry
                                 ELSE IF handle THEN pcs[i] ELSE 0]
  /\ runs' = runs + 1
  /\ phase' = "round"
  /\ maxSteps' \in Budgets
  /\ total' = 0
  /\ executed' = [i \in VCpu |-> 0]
  /\ handle' = TRUE
  /\ backend' = "gpu"
  /\ UNCHANGED <<memory, vcpus, vcpuMem, useGpu, cur, anyRunning, left, result,
                 out>>

\* The kernel is not launched; the round goes on without a step.
FaultyLaunch ==
  /\ Fails /\ UNCHANGED dead
  /\ phase = "round" /\ backend = "gpu"
  /\ total < maxSteps
  /\ phase' = "scan"
  /\ cur' = 0
  /\ anyRunning' = FALSE
  /\ UNCHANGED <<shared, vcpus, vcpuMem, ram, pcs, dev, total, left, executed,
                 out>>

\* The kernel dies: every thread stops where it is, having taken none, some or
\* all of its steps.  Where in an instruction does not matter, for nothing on
\* the device can be read any more.
FaultySync ==
  /\ Fails
  /\ phase = "kernel"
  /\ dead' = TRUE
  /\ left' = [i \in VCpu |-> 0]
  /\ phase' = "scan"
  /\ cur' = 0
  /\ anyRunning' = FALSE
  /\ UNCHANGED <<shared, vcpus, vcpuMem, ram, pcs, dev, total, executed, out>>

\* vCPU cur is drained, and the copies in lost fail; blank is the CpuState the
\* download was to fill.
DrainLosing(lost, blank) ==
  /\ Fails /\ UNCHANGED dead
  /\ phase = "scan" /\ backend = "gpu"
  /\ cur < N
  /\ memory' = IF "ramDown" \in lost THEN memory ELSE ram[cur]
  /\ LET c    == IF "cpuDown" \in lost THEN blank ELSE dev[cur]
         trap == c.syscall_pending
         done == IF trap THEN Dispatch(c) ELSE c
     IN  /\ vcpus' = [vcpus EXCEPT ![cur] = done]
         /\ dev' = IF trap /\ "cpuUp" \notin lost
                   THEN [dev EXCEPT ![cur] = done] ELSE dev
         /\ ram' = IF trap /\ "ramUp" \notin lost
                   THEN [ram EXCEPT ![cur] = memory'] ELSE ram
         /\ out' = IF trap THEN [out EXCEPT ![cur] = @ \o Printed(c, memory')]
                           ELSE out
         /\ anyRunning' = (anyRunning \/ ~done.halt)
  /\ cur' = cur + 1
  /\ UNCHANGED <<vcpuMem, pcs, useGpu, handle, backend, phase, maxSteps, total,
                 left, result, runs, executed>>

\* Mutant of FaultyDrain: a vCPU that cannot be read counts as halted.
FaultyDrainHalts ==
  \E lost \in Losses(cur, Copies) :
    DrainLosing(lost, [ZeroCpu EXCEPT !.halt = TRUE])

FaultyDrain == \E lost \in Losses(cur, Copies) : DrainLosing(lost, ZeroCpu)

\* The last download fails for the CpuState, the RAM or both: here they keep
\* what the last drain, or the run before, left in them.
FaultyCollect ==
  /\ Fails /\ UNCHANGED dead
  /\ phase = "collect" /\ backend = "gpu"
  /\ \E lost \in Losses(cur, {"cpu", "ram"}) :
       /\ vcpus' = IF "cpu" \in lost THEN vcpus
                                     ELSE [vcpus EXCEPT ![cur] = dev[cur]]
       /\ vcpuMem' = IF "ram" \in lost THEN vcpuMem
                                       ELSE [vcpuMem EXCEPT ![cur] = ram[cur]]
  /\ cur' = cur + 1
  /\ phase' = IF cur + 1 < N THEN "collect" ELSE "traps"
  /\ UNCHANGED <<shared, ram, pcs, dev, total, anyRunning, left, executed, out>>

-----------------------------------------------------------------------------
\* Every device call of the step works: there is none, or the context lives.
Works == /\ UNCHANGED <<flaky, faults, dead>>
         /\ dead => ~(StartGpu \/ GpuStep)

FaultyStep == FaultyLaunch \/ FaultySync \/ FaultyDrain \/ FaultyCollect

FaultNext == (Next /\ Works) \/ FaultyStart \/ FaultyStep

FaultSpec == FaultInit /\ [][FaultNext]_faultVars

\* As in RunLoop: whether its calls fail or not, the thread in run() goes on,
\* and so do the threads of a launched kernel.
FaultFairSpec ==
  /\ FaultSpec
  /\ WF_faultVars((HostStep /\ Works) \/ FaultyStep)
  /\ \A i \in VCpu : WF_faultVars(KernelStep(i) /\ Works)

-----------------------------------------------------------------------------
(* Properties.                                                             *)

\* However the device fails the vCPUs in flaky, the others behave as
\* independent guests: a failing copy leaves a neighbour's RAM in mem_ and in
\* the flaky vCPU, and never the other way round.  With flaky empty this is
\* RunLoop's ImplementsGuests on the GPU.
Others == INSTANCE IndependentGuests
            WITH cpu <- [i \in VCpu |-> IF i \in flaky THEN Boot[i] ELSE Live(i)],
                 mem <- [i \in VCpu |-> IF i \in flaky THEN Image ELSE ram[i]],
                 pc  <- [i \in VCpu |-> IF i \in flaky THEN Entry ELSE pcs[i]],
                 out <- [i \in VCpu |-> IF i \in flaky THEN << >> ELSE out[i]]

OthersUnharmed == Others!Spec

\* A failing device delays or loses work but invents no end: at the end of a
\* round a vCPU the host holds for halted has halted on the device, or the
\* device still shows the call by which it exits.
HaltIsReal ==
  backend = "gpu" /\ phase \in {"round", "collect", "traps", "idle"} =>
    \A i \in VCpu :
      vcpus[i].halt => \/ dev[i].halt
                       \/ dev[i].syscall_pending /\ IsExit(dev[i])
=============================================================================
