-------------------------- MODULE IndependentGuests --------------------------
(***************************************************************************)
(* What the emulator promises about its virtual CPUs: "N independent x86   *)
(* guests run simultaneously" and "all vCPUs share the same translated IR  *)
(* but have independent register files and memory views" (README.md).      *)
(* Each guest owns its registers, its RAM and its output; an instruction   *)
(* of one guest, or a system call served for it, touches nothing of        *)
(* another's and sees nothing but its own.  Chunks, rounds, backends, the  *)
(* shared master RAM and the copies between host and device do not appear. *)
(***************************************************************************)
EXTENDS LinuxSyscalls

CONSTANTS
  N,        \* number of vCPUs
  Entry,    \* IR index of the guest's entry point
  Image,    \* guest RAM as the loader left it
  Boot      \* the CpuState each vCPU is added with

VCpu == 0 .. N - 1

VARIABLES cpu, mem, pc, out

guests == <<cpu, mem, pc, out>>

Init == /\ cpu = Boot
        /\ mem = [i \in VCpu |-> Image]
        /\ pc  = [i \in VCpu |-> Entry]
        /\ out = [i \in VCpu |-> << >>]

\* Guest i executes one instruction; a guest that waits for a system call,
\* or has halted, executes none.
Step(i) ==
  /\ ~cpu[i].halt /\ ~cpu[i].syscall_pending
  /\ cpu' = [cpu EXCEPT ![i] = ExecCpu(cpu[i], mem[i], pc[i])]
  /\ mem' = [mem EXCEPT ![i] = ExecMem(cpu[i], mem[i], pc[i])]
  /\ pc'  = [pc  EXCEPT ![i] = ExecPc(cpu[i], mem[i], pc[i])]
  /\ UNCHANGED out

\* The pending system call of guest i is served, once, in its own RAM.
Serve(i) ==
  /\ cpu[i].syscall_pending
  /\ cpu' = [cpu EXCEPT ![i] = Dispatch(cpu[i])]
  /\ out' = [out EXCEPT ![i] = @ \o Printed(cpu[i], mem[i])]
  /\ UNCHANGED <<mem, pc>>

\* Emulator::run is called again: every guest begins at its entry point in
\* the loaded image, with the registers it had.
Restart ==
  /\ \A i \in VCpu : ~cpu[i].syscall_pending
  /\ mem' = [i \in VCpu |-> Image]
  /\ pc'  = [i \in VCpu |-> Entry]
  /\ UNCHANGED <<cpu, out>>

Next == (\E i \in VCpu : Step(i) \/ Serve(i)) \/ Restart

Spec == Init /\ [][Next]_guests
=============================================================================
