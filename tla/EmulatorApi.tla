----------------------------- MODULE EmulatorApi -----------------------------
(***************************************************************************)
(* The lives of Emulator objects (src/emulator.cpp), one after another:    *)
(* their public methods called in any order, the CUDA executor that comes  *)
(* and goes with them, and their end.  A guest program stands for the      *)
(* bytes loaded, the IR they are translated to and the entry point its     *)
(* vCPUs are given; what run() does once it has chosen a backend is the    *)
(* subject of RunLoop.                                                     *)
(***************************************************************************)
EXTENDS Naturals, Sequences

CONSTANTS
  Guest,       \* guests whose text translates to some IR
  HasGpu,      \* gpuemu_cuda_available()
  MaxVcpus,    \* bound on the calls of add_vcpu
  MaxObjects,  \* bound on the Emulators of a process
  Nothing      \* no guest, no IR, no executor

Damaged == "damaged"   \* RAM a failed load has partly overwritten

ASSUME ApiAssumption ==
  /\ HasGpu \in BOOLEAN
  /\ MaxVcpus \in Nat
  /\ MaxObjects \in Nat \ {0}
  /\ Nothing \notin Guest
  /\ Damaged \notin Guest \cup {Nothing}

VARIABLES
  ram,         \* whose bytes mem_ holds at code_base_
  loaded,      \* the guest code_base_ and code_size_ were set for
  vcpus,       \* the guest whose entry each vCPU was added with
  translated,  \* translated_
  flat,        \* flat_: what the IR is a translation of
  useGpu,      \* use_gpu_
  handle,      \* cuda_handle_: its vCPU count and IR, or Nothing
  made,        \* the Emulators there have been
  alive,       \* the last of them still exists
  orphans,     \* device array sets allocated that no handle owns
  lastRun      \* the last run() that executed: its backend, the vCPUs it had
               \* room for and the vCPUs that had been added

object == <<made, alive>>
vars == <<ram, loaded, vcpus, translated, flat, useGpu, handle, object, orphans,
          lastRun>>

Init ==
  /\ made = 1
  /\ alive = TRUE
  /\ ram = Nothing
  /\ loaded = Nothing
  /\ vcpus = << >>
  /\ translated = FALSE
  /\ flat = Nothing
  /\ useGpu = HasGpu
  /\ handle = Nothing
  /\ orphans = 0
  /\ lastRun = Nothing

\* Mutant of Load: the old translation stays valid.
LoadKeepsTranslation(g) ==
  /\ ram' = g
  /\ loaded' = g
  /\ UNCHANGED <<vcpus, translated, flat, useGpu, handle, orphans, lastRun>>

\* load_code, and load_guest when the file loads.
Load(g) ==
  /\ ram' = g
  /\ loaded' = g
  /\ translated' = FALSE
  /\ UNCHANGED <<vcpus, flat, useGpu, handle, orphans, lastRun>>

\* load_guest returns early: the loader may have written to RAM already.
LoadFails ==
  /\ ram' \in {ram, Damaged}
  /\ UNCHANGED <<loaded, vcpus, translated, flat, useGpu, handle, orphans,
                 lastRun>>

\* add_vcpu, with the entry point that load_guest gave.
AddVcpu ==
  /\ loaded # Nothing
  /\ Len(vcpus) < MaxVcpus
  /\ vcpus' = Append(vcpus, loaded)
  /\ UNCHANGED <<ram, loaded, translated, flat, useGpu, handle, orphans,
                 lastRun>>

\* The IR made of the bytes now in RAM: bytes that are no guest's may not
\* translate to any, and there is none before code_size_ is set.
IrOfText == IF loaded = Nothing THEN {Nothing}
            ELSE IF ram = Damaged THEN {Damaged, Nothing}
            ELSE {ram}

\* Mutant of Translate: the executor is kept.
TranslateKeepsExecutor ==
  /\ flat' \in IrOfText
  /\ translated' = TRUE
  /\ UNCHANGED <<ram, loaded, vcpus, useGpu, handle, orphans, lastRun>>

\* The IR is made from the bytes found in RAM; the executor, which holds a
\* copy of the old IR, is destroyed.
Translate ==
  /\ flat' \in IrOfText
  /\ translated' = TRUE
  /\ handle' = Nothing
  /\ UNCHANGED <<ram, loaded, vcpus, useGpu, orphans, lastRun>>

DisableGpu ==
  /\ useGpu' = FALSE
  /\ UNCHANGED <<ram, loaded, vcpus, translated, flat, handle, orphans, lastRun>>

-----------------------------------------------------------------------------
(* The executor.                                                           *)

\* Mutant of CanCreate: an executor for no vCPU.
CanCreateEmpty == useGpu /\ flat # Nothing

CanCreate == useGpu /\ flat # Nothing /\ vcpus # << >>

Created == /\ handle' = [n |-> Len(vcpus), ir |-> flat]
           /\ UNCHANGED <<useGpu, orphans>>

\* Mutant of CreateFailed: the GPU is tried again the next time.
CreateFailedRetries == /\ handle' = Nothing
                       /\ orphans' \in {orphans, orphans + 1}
                       /\ UNCHANGED useGpu

\* gpuemu_cuda_create deletes the handle of an executor whose init failed,
\* but not the device arrays that were allocated; the GPU is given up.
CreateFailed == /\ handle' = Nothing
                /\ useGpu' = FALSE
                /\ orphans' \in {orphans, orphans + 1}

\* init_gpu: any old executor is destroyed first.
InitGpu == IF CanCreate THEN Created \/ CreateFailed
                        ELSE UNCHANGED <<handle, useGpu, orphans>>

InitGpuBackend ==
  /\ InitGpu
  /\ UNCHANGED <<ram, loaded, vcpus, translated, flat, lastRun>>

\* Mutant of Run: an executor is used although the GPU was given up.
RunIgnoresUseGpu ==
  /\ translated
  /\ flat # Nothing
  /\ IF useGpu /\ handle = Nothing
     THEN InitGpu
     ELSE UNCHANGED <<handle, useGpu, orphans>>
  /\ lastRun' =
       LET gpu == handle' # Nothing IN
       [backend |-> IF gpu THEN "gpu" ELSE "cpu",
        n       |-> IF gpu THEN handle'.n ELSE Len(vcpus),
        added   |-> Len(vcpus)]
  /\ UNCHANGED <<ram, loaded, vcpus, translated, flat>>

\* run: with no executor yet, one is created now, or the CPU takes over.
Run ==
  /\ translated
  /\ flat # Nothing
  /\ IF useGpu /\ handle = Nothing
     THEN InitGpu
     ELSE UNCHANGED <<handle, useGpu, orphans>>
  /\ lastRun' =
       LET gpu == useGpu' /\ handle' # Nothing IN
       [backend |-> IF gpu THEN "gpu" ELSE "cpu",
        n       |-> IF gpu THEN handle'.n ELSE Len(vcpus),
        added   |-> Len(vcpus)]
  /\ UNCHANGED <<ram, loaded, vcpus, translated, flat>>

\* run() returns at once: nothing translated, or nothing came of it.
RunNothing ==
  /\ ~translated \/ flat = Nothing
  /\ UNCHANGED <<ram, loaded, vcpus, translated, flat, useGpu, handle, orphans,
                 lastRun>>

\* The Emulator goes out of scope.  It has no destructor: the pointer is lost and
\* the executor, if there is one, is not destroyed.
Destroy ==
  /\ alive' = FALSE
  /\ handle' = Nothing
  /\ orphans' = IF handle = Nothing THEN orphans ELSE orphans + 1
  /\ UNCHANGED <<ram, loaded, vcpus, translated, flat, useGpu, made, lastRun>>

\* Another Emulator.
Construct ==
  /\ made < MaxObjects
  /\ made' = made + 1
  /\ alive' = TRUE
  /\ ram' = Nothing /\ loaded' = Nothing /\ vcpus' = << >>
  /\ translated' = FALSE /\ flat' = Nothing
  /\ useGpu' = HasGpu
  /\ handle' = Nothing
  /\ lastRun' = Nothing
  /\ UNCHANGED orphans

\* The process ends.
Exited == made = MaxObjects /\ UNCHANGED vars

\* What a program may call on an Emulator.
Method ==
  \/ \E g \in Guest : Load(g)
  \/ LoadFails \/ AddVcpu \/ Translate \/ DisableGpu
  \/ InitGpuBackend \/ Run \/ RunNothing

Next ==
  \/ alive /\ Method /\ UNCHANGED object
  \/ alive /\ Destroy
  \/ ~alive /\ (Construct \/ Exited)

Spec == Init /\ [][Next]_vars

-----------------------------------------------------------------------------
(* Properties.                                                             *)

Executor == [n : 1 .. MaxVcpus, ir : Guest \cup {Damaged}]

\* Every variable keeps its type.
TypeOK ==
  /\ ram \in Guest \cup {Nothing, Damaged}
  /\ loaded \in Guest \cup {Nothing}
  /\ vcpus \in Seq(Guest)
  /\ Len(vcpus) <= MaxVcpus
  /\ translated \in BOOLEAN
  /\ flat \in Guest \cup {Nothing, Damaged}
  /\ useGpu \in BOOLEAN
  /\ handle \in Executor \cup {Nothing}
  /\ made \in 1 .. MaxObjects
  /\ alive \in BOOLEAN
  /\ orphans \in Nat

\* The device never holds another IR than the host, whose pc_to_idx decides
\* where each vCPU starts in it.
DeviceRunsHostIr == handle # Nothing => handle.ir = flat

\* As long as no load has failed half-way, what run() would execute is the
\* translation of the guest loaded last, not of one loaded before it.
NoStaleTranslation ==
  translated /\ ram = loaded => flat = loaded

\* An Emulator loses one set of device arrays at most: to an init that fails or,
\* with no destructor, to its own end.  None is lost as long as it may use the GPU
\* or has an executor.
AtMostOneOrphan ==
  /\ orphans <= made
  /\ alive /\ (useGpu \/ handle # Nothing) => orphans < made

\* A GPU that was given up, by the caller or by a failure, is given up for good:
\* nothing an Emulator is asked to do brings it back, makes another executor or
\* runs on the one that may be left.
CpuForGood ==
  [][ alive /\ alive' /\ ~useGpu =>
        /\ ~useGpu'
        /\ handle' \in {handle, Nothing}
        /\ Run => lastRun'.backend = "cpu" ]_vars
=============================================================================
