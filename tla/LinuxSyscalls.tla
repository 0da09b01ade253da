---------------------------- MODULE LinuxSyscalls ----------------------------
(***************************************************************************)
(* The Linux personality of src/linux/syscalls.cpp: what                   *)
(* VirtualCpu::handle_syscall does to a trapped vCPU when no handler of its *)
(* own is installed (none ever is), given the RAM it is called with.       *)
(* Buffers, lengths and results are unbounded integers here: the wrap of   *)
(* addr + len at 2^64 is not reached by the guests modelled.               *)
(***************************************************************************)
EXTENDS ExecIr, Sequences

Enosys == -38
Efault == -14

Sys == [read |-> 0, write |-> 1, brk |-> 12, exit |-> 60, exit_group |-> 231]

\* guest_ptr: the buffer lies in RAM.  Its result is tested as a Boolean, so
\* a buffer at address zero counts as a fault.
GuestPtr(buf, len) ==
  /\ buf \in 1 .. MemSize
  /\ len \in 0 .. MemSize
  /\ buf + len <= MemSize

\* The write call reaches the console.
Writes(cpu) == /\ cpu.syscall_num = Sys.write
               /\ cpu.gpr["RDI"] \in {1, 2}
               /\ GuestPtr(cpu.gpr["RSI"], cpu.gpr["RDX"])

SysWrite(cpu) == IF cpu.gpr["RDI"] \notin {1, 2} THEN Enosys
                 ELSE IF Writes(cpu) THEN cpu.gpr["RDX"]
                 ELSE Efault

SysRead(cpu) == IF cpu.gpr["RDI"] = 0 THEN 0 ELSE Enosys

Brk(cpu) == IF cpu.gpr["RDI"] # 0 THEN cpu.gpr["RDI"] ELSE MemSize \div 2

IsExit(cpu) == cpu.syscall_num \in {Sys.exit, Sys.exit_group}

DispatchRet(cpu) ==
  CASE cpu.syscall_num = Sys.read  -> SysRead(cpu)
    [] cpu.syscall_num = Sys.write -> SysWrite(cpu)
    [] cpu.syscall_num = Sys.brk   -> Brk(cpu)
    [] IsExit(cpu)                 -> cpu.gpr["RDI"]
    [] OTHER                       -> Enosys

\* The CpuState dispatch leaves behind.
Dispatch(cpu) == [cpu EXCEPT !.halt = @ \/ IsExit(cpu),
                             !.syscall_ret = DispatchRet(cpu),
                             !.gpr = [@ EXCEPT !["RAX"] = DispatchRet(cpu)],
                             !.syscall_pending = FALSE]

\* What dispatch, called with the RAM mem, prints.
Printed(cpu, mem) ==
  IF Writes(cpu)
  THEN [k \in 1 .. cpu.gpr["RDX"] |-> LoadMem(mem, cpu.gpr["RSI"] + k - 1)]
  ELSE << >>
=============================================================================
