# A TLA+ model of the Apex-Emu GPU/CPU emulator

`alpha/gpu-cpu-emulator` (below: the emulator; all paths are relative to it)
runs N copies of one x86-64 guest. The host decodes the guest's text once,
translates it to a flat stream of IR instructions, and executes that stream for
every virtual CPU, either on the CPU, one vCPU after the other, or on CUDA, one
thread per vCPU. Linux system calls trap back to the host.

This directory holds the TLA+ specifications of that program, the TLC
configurations that check them on small instances, and TLAPS proofs of theorems
that hold for every value of the constants. `PROJECT.json` lists the runs, the
source lines each definition models, the hazards and the disagreements found.

    tlc -config RunBoth.cfg MCRunLoop      # or any other pair of the table below
    tlapm RunLoop_proofs.tla

## 1. The system

| Part | State | Operations | Talks to |
|---|---|---|---|
| `Emulator::run` and its backends (`src/emulator.cpp`) | `mem_`, `vcpus_`, `vcpu_mem_`, `use_gpu_`, `cuda_handle_`; per call: RAM slices, pcs, `total` | `run`, `run_cpu`, `run_gpu`, `handle_traps` | interpreter, executor, vCPUs |
| Emulator object | the same and `code_base_`, `code_size_`, `flat_`, `translated_` | `load_code`, `load_guest`, `add_vcpu`, `translate`, `disable_gpu`, `init_gpu_backend`; no destructor | loader, translator, executor |
| CUDA executor (`cuda/executor.cu`) | `d_mem`, `d_vcpus`, `d_pcs`, `d_ir` | create, upload, set_pc, run, download, destroy | called by `run_gpu`, which looks at no result but create's |
| IR interpreter (`cuda/ir_interpreter.cuh`) | a `CpuState`, its RAM, an IR index | `exec_ir`, compiled for both sides | host loop, kernel |
| Linux personality (`src/linux/syscalls.cpp`, `src/virt/vcpu.cpp`) | none of its own | `read`, `write`, `brk`, `exit`, `exit_group` | the trapped vCPU, RAM it is handed |
| Translator, flattening (`src/translator.cpp`, `flatten_ir`) | blocks, `pc_to_idx`, flat code | `translate`, `emit_x86`, two passes of `flatten_ir` | decoder |
| x86 decoder (`src/x86`) | `pc_` | `decode_one`, `decode_basic_block` | translator |
| ELF loader (`src/guest/elf_loader.cpp`) | per file: cursor, `sec_addr`, `error` | `load_elf`, `load_object` with `place`, `sym_value`, `apply_rela` | guest memory |
| Guest memory (`src/virt/memory.cpp`) | bytes | checked reads and writes | loader |
| Command line (`src/main.cpp`) | `obj`, `num_vcpus`, `max_steps`, two modes | options, showcase, Mandelbrot demo, plain guest | Emulator |

The build files, `decode_test.cpp`, the guest programs and the archives of
binaries are inputs or tools, with no behaviour of the emulator in them.

**What is hard here.** Kernel threads interleave on neighbouring parts of one device
array. `run_gpu` moves every vCPU's RAM through the single buffer `mem_`; a system
call must be answered in that buffer between the download and the upload of that
vCPU and before the next launch, since `exec_ir` never looks at `syscall_pending`.
The host's and the device's `CpuState`s are copies of each other that must agree
when the last download overwrites the host's. The budget is charged in chunks by an
unsigned counter. `run` may be called again. The executor caches a copy of the IR
and of the number of vCPUs. The numbering of instructions is computed in one pass
and used in another, and it decides where every branch and every vCPU goes. Operands
pass through three representations, in which scale, flags, sub-operation and index
share one byte and the literal another. An upload, a download or a launch may fail,
a kernel may die, and nobody looks. The loader goes on after a section that failed,
and applies relocations to sections it did not place. Options act in their order.

**What makes each part correct.**

- *Run loop*: no vCPU steps while a call is unanswered; every call is answered
  once, in the caller's RAM; no vCPU's RAM changes but by its own steps; the
  budget bounds every vCPU and starves none; `run` returns.
- *Emulator object*: the device never runs other IR than the host's, nor a run
  an older guest than was loaded; a GPU given up stays given up; device memory is
  lost once at most.
- *Executor*: what fails for one vCPU harms no other, delays no run for ever and
  invents no halt.
- *Interpreter*: conditions after an instruction mean what they are named for.
- *Decoder and operands*: an instruction has its length, and reads, writes and
  computes what a processor would, exactly in the cases that can be named.
- *Translation*: index and instruction agree; branches lead to the instruction
  at their target; the stream keeps the text's order; the sweep ends.
- *ELF loader*: sections lie aligned and apart in RAM; nothing else is written,
  also when loading fails; what can be linked is linked as a linker would; the
  code found is code.
- *Command line*: what was given is what is used; all rows are computed.

## 2. Modules

| Module | Models | Notes |
|---|---|---|
| `ExecIr` | `exec_ir` on one vCPU | pure operators: `ExecCpu`, `ExecMem`, `ExecPc`, `Status` |
| `LinuxSyscalls` | `dispatch`, `handle_syscall` | `Dispatch` changes the vCPU, `Printed` is what reaches the console |
| `IndependentGuests` | abstract specification | N guests that share nothing |
| `RunLoop` | `Emulator::run`, both backends | one action per host step and per IR instruction |
| `DeviceFaults` | `RunLoop` with device calls that fail | copies of any set of vCPUs, launches, kernels that die |
| `MCRunLoop`, `MCDeviceFaults` | instances for TLC | three guests, of 10, 11 and 12 instructions |
| `RunLoop_proofs` | | theorems about `RunLoop` |
| `Refinement_proofs` | | `RunLoop` and `DeviceFaults` implement `IndependentGuests` |
| `EmulatorApi` | the public methods, the executor's and the object's life | a guest is a model value |
| `EmulatorApi_proofs` | | theorems about `EmulatorApi` |
| `Translation` | `translate`, `decode_basic_block`, `flatten_ir` | what bytes decode to is an arbitrary function of the offset |
| `Translation_proofs` | | theorems about `Translation` |
| `Operands` | one instruction through `decode_one`, `emit_x86`, `exec_ir` | against what a processor makes of the same bytes |
| `MCOperands` | every r/m form for TLC | registers that mean something of their own, and others |
| `Operands_proofs` | | theorems about `Operands` |
| `ElfLoader` | `load_guest_file`: `load_object`, `load_elf` | in words of 4 bytes |
| `MCElfLoader` | small files for TLC | objects, executables, broken ones |
| `ElfLoader_proofs` | | theorems about `ElfLoader` |
| `Flags` | `update_flags`, `eval_cc`, `TestReg` | operands of any even modulus |
| `Flags_proofs` | | theorems about `Flags` |
| `Cli` | `main()`, the rows of `run_mandel` | one step per option |
| `Cli_proofs` | | theorems about `Cli` |

`RunLoop` EXTENDS `LinuxSyscalls`, which EXTENDS `ExecIr`; it instantiates
`IndependentGuests` with the refinement mapping *cpu* <- the `CpuState` the vCPU
really runs on (the device's on the GPU), *mem* <- `ram`, *pc* <- `pcs`.
`DeviceFaults` EXTENDS `RunLoop` and instantiates `IndependentGuests` once more,
with the vCPUs whose copies may fail masked out.

### RunLoop

| Variable | Code |
|---|---|
| `memory`, `vcpus`, `vcpuMem` | `mem_`, the vCPUs' states, `vcpu_mem_` |
| `ram`, `pcs`, `dev` | `mem_slices` or `d_mem`; `pcs` or `d_pcs`; `d_vcpus` |
| `useGpu`, `handle` | `use_gpu_`, `cuda_handle_` |
| `maxSteps`, `total`, `cur`, `anyRunning` | the locals of the loops |
| `left` | iterations of `exec_ir`'s loop a vCPU still has in this chunk |
| `backend`, `phase` | where control is |
| `executed`, `out` | history: steps taken, output |

`StartCpu` and `StartGpu` are the beginning of `run`. A CPU round is `CpuRound`,
then per vCPU `CpuSkip`, or `CpuEnter`, `CpuExec` (one per instruction) and
`CpuServe`; a GPU round is `Launch`, `KernelStep(i)` in any interleaving, `Sync`,
and one `Drain` per vCPU, which contains download, answer and upload. `EndRound`
and `LeaveLoop` are the end of the while loop, `CpuCollect`, `GpuCollect` and
`HandleTraps` what follows it. Download, answer and upload are one action because
no thread runs on the device between them. Device calls succeed here, and fail in
`DeviceFaults`.

Memory cells are words and RAM has a few of them; registers hold integers. The
run-loop properties do not depend on the width of either; widths matter to the
flags, which have a module of their own. `Mem`, `Reg` and the program are
constants, and the proofs hold for all of them.

### DeviceFaults

| Variable | Code |
|---|---|
| `flaky` | the vCPUs whose `cudaMemcpy` may fail, any set, chosen at the start |
| `faults` | in how many host steps device calls have failed, at most `MaxFaults` |
| `dead` | the CUDA context is lost: every device call fails |

`upload` and `download` make two copies each, the `CpuState` and the RAM, and
report an error after both; `set_pc` makes one. Each can fail by itself; `Losses`
says which can fail together. `FaultyStart` is the uploads at the beginning of
`run_gpu`, of which any of any flaky vCPUs are lost: what does not arrive leaves on
the device what was there, zeros in a new executor. `FaultyLaunch` is a kernel that
is refused: the round goes on without a step. `FaultyDrain` is the download, answer
and upload of one vCPU: a `CpuState` that cannot be read is the fresh `CpuState{}` it
was to go to, a RAM that cannot be read leaves in `mem_` the RAM of the vCPU before,
in which the call is then served and which the upload may then store in this vCPU.
`FaultyCollect` is the last download.

`FaultySync` is a kernel that dies under way, as `cudaDeviceSynchronize` in
executor.cu:98 would report: every thread has taken none, some or all of its steps.
CUDA calls such an error sticky: all later calls of the process fail, and nothing in
the code resets the device. So `dead` stays, all copies are lost from then on
(`Losses`), also those of vCPUs that are not flaky, and run goes on to its budget
with what it has (`Works` keeps the actions of `RunLoop` from succeeding).

### EmulatorApi

A guest is a value that stands for its bytes, its IR and its entry point. `ram`,
`flat`, `handle.ir` and the entries in `vcpus` say which guest the respective
object was made from, so that stale copies show. A load can fail having written
part of its sections (`Damaged`). Creating the executor can fail with or without
having allocated device arrays. `Destroy` is the end of the object: there is no
destructor, `cuda_handle_` is a plain pointer, and a live executor's arrays are lost
with it. `Construct` makes another Emulator, up to `MaxObjects`. The showcase of
main.cpp has several at a time; they share nothing but the device, so here they
follow one another.

### Translation

`text` maps each offset to an outcome of `decode_one`: an instruction with its
kind, length and target, a failure that moves on, or one that does not. Every
such function is an initial state, overlapping instructions included. Branches
have the lengths in `JumpLength` and `CallLength`, other outcomes those in
`OpLength`. `DecodeOne`
and `DecodeFails` are steps of `decode_basic_block`; `CloseBlock` is the rest of
an iteration of `translate`. `IndexBlock` and `EmitBlock` are the two passes.

### Operands

| Variable | Code |
|---|---|
| `shape` | the bytes, by their fields: opcode, REX bits, ModRM and SIB |
| `insn` | the `x86::Instruction` `decode_one` makes (`Decoded`) |
| `ir` | the `ir::Instr` `emit_x86` makes of it (`Emitted`, `EncodeMemAddr`, `EncodeSource`) |
| `effect` | what `exec_ir` reads, writes and computes (`Executed`, `EffAddr`) |

`aux` is the set of its bits, so that the uses the code makes of one bit meet as
they do in the code: bit 4 is the low bit of the scale and `kMemImmStore`, bit 0
is rip-relative, a sub-operation and a sign extension. `imm` holds a literal, the
number of a register or an address. An effect is symbolic: how often each
register counts in an address, the operation, the number of bytes, and how the
rest of a register is filled. A call changes the top of the stack as well: the code
to the index of the next IR instruction (`ReturnIndex`), a processor to its address
(`ReturnPc`). Displacements and literals themselves are left out, as are flags and
the conditions of jumps.
`X86Effect` and `X86Length` say the same of a processor, independently of the code.

### ElfLoader

| Variable | Code |
|---|---|
| `file` | the file: header, sections, segments, symbols, relocations |
| `step`, `k` | where the loader is, and the index of its loop |
| `cursor`, `secAddr`, `error` | the locals of `load_object` |
| `ram`, `image` | guest RAM; `code_addr`, `code_size`, `entry` |

`Place` is one call of `place()`, `ApplyRela` one relocation, `FindEntry` the
search for `_start`; `LoadSegment` and `FindCode` are `load_elf`. A word of the
file has a value of its own, above every address, so that it is known where each
word of RAM came from. A loader that is called through `Emulator::load_guest` is one
action of `EmulatorApi`, whose `Damaged` is what `WritesStayInSections` bounds.

### Flags

One action per class of flag-setting instructions; `last` remembers operands and
result, `seen` the signs of all results since the last instruction that was no
`test`. P and NP are approximated by the code and no property speaks of them.

### Cli

One action per option; `opts` remembers the options and `run` what was started.
Numbers are what `strtoul` returns, converted modulo `Modulus`.

## 3. Runs

Each passing property has a mutant: a change to one definition, in the module
next to it, by which TLC finds the property violated. They show that the
property depends on that piece of code.

| Run | Module, cfg | Shows | Bounds |
|---|---|---|---|
| run_both | MCRunLoop, RunBoth | type, safety and isolation on either backend, with fallback | 3 vCPUs, RAM of 5 words, chunk 3, three budgets, 3 runs |
| gpu_implements | MCDeviceFaults, GpuImplements | a GPU run with failing device calls and dying kernels refines `IndependentGuests` for all vCPUs that are not flaky; it returns although a guest spins; no halt is invented | 2 vCPUs, chunk 4, budgets that do and do not suffice, 3 host steps with faults, any number once a kernel died |
| cpu_implements | MCRunLoop, CpuImplements | CPU runs refine it for a guest that prints what the loader placed; a rerun starts from the image; they return although guests spin | 3 vCPUs, 2 runs |
| api | EmulatorApi, EmulatorApi | no stale IR or executor; each Emulator leaks once at most; CPU for good | 2 guests, 2 vCPUs, 2 Emulators |
| translate | Translation, Translate | numbering, branch targets, order, gaps, end | every text of 6 bytes; jumps of 2 bytes, calls of 5, the rest of 1 or 2; one target inside, one outside |
| operands | MCOperands, Operands | what decoding, translation and execution make of an instruction is what a processor does exactly if `Faithful`, which no call is; its length always | every opcode, prefix and addressing form; reg fields 0, 1, 4, 5 |
| elf | MCElfLoader, ElfLoader | layout, extent of writes, links, code range | files of 5 words, RAM of 7, up to two relocations |
| flags | Flags, Flags | conditions after cmp, add, logic, and a series of tests | 4-bit operands, all pairs, any order |
| cli | Cli, Cli | given values are kept, a vCPU and a budget always, rows | up to 4 options |

Why the bounds suffice. Three vCPUs let one be drained while another has not been
and a third already has; a chunk of 3 is shorter than the guest and not a divisor of
every budget, so that chunks end before, at and after traps. A text of six bytes
holds three short jumps, or a call and one byte before or after it, or blocks with
gaps between them; 3 lies behind, before or inside a branch, depending on what is
around it, and 6 outside. Jumps of 5 and 6 bytes, and branches behind a prefix,
differ in nothing the passes see but that they need a longer text; the proofs have
every length. At a width of 4 bits every combination of signs, borrow and overflow
occurs. Two guests are enough for a stale one; two vCPUs for an executor that is too
small, and two Emulators for what one leaves to the next. Two vCPUs are enough for
failing copies, as what a failure leaves behind is a neighbour's; three faults let
an upload, a launch and a download fail in one run, or the same copy three times, or
copies fail before a kernel dies; in each of these steps calls for any of the flaky
vCPUs fail, which are any set, the empty one included. The guest of that run prints
from its RAM, exits, or spins if it has number 1. The fields of an instruction are
each taken from the values that mean something of their own (4 and 5 as rm, index
and base; every mod, scale and REX bit) and from two that do not, so that two
registers can be told apart. Seven words of RAM hold four sections with an alignment
gap, or fail to; two relocations may overlap, end in RAM's last word, be of a kind
that is skipped, and refer to what is placed, not placed, absolute or undefined.
Four options hold both modes, a count and a path in every order; the numbers include
0, 1, the modulus and its successor, divisors and non-divisors of the height.

Deadlock is checked except in Cli: main() ends.

### Where code and documents disagree

Three runs end in a counterexample, each to what a document says:

| Run | Property | What TLC shows |
|---|---|---|
| cpu_write | `ServedInOwnRam` | on the CPU a system call is served in the master RAM, not in the vCPU's |
| gpu_rerun | `StartsFromImage` | a second GPU run starts every vCPU in what the last one left |
| test_sticky | `TestDecides` | ZF of an earlier instruction survives a `test` |

`cpu_write` is why `cpu_implements` uses a guest that prints only what the
loader placed, and `gpu_rerun` why `gpu_implements` makes one run: within those
limits the refinement holds, and outside them it does not. Failing device
calls need no such limit: copies that fail harm only the vCPUs they fail for, and a
kernel that dies stops all, which then stand where independent guests could.

The models have further behaviours that differ from the documents; the
definitions keep them, and no run is spent on them:

- `total` is unsigned: with a budget above 2^32 - 4096 and a guest that spins it
  wraps and `run` does not return (`EndRound`; the runs and `NoWrap` keep below);
- a budget that is no multiple of 4096 is exceeded by up to 4095 steps
  (`WithinBudget` has the bound that holds, main.cpp:389 says "max");
- a branch to an address where nothing was decoded goes to index 0 (`IndexOf`;
  README.md:29 says "resolved");
- a block also ends at bytes that do not decode, which are then skipped
  (`CloseBlock`; decode.hpp:43 says "ends at branch/halt");
- an Emulator has no destructor: the device arrays of an executor that is alive when
  it ends are never freed (`Destroy`; emulator.hpp:36);
- a vCPU added after the executor was created has no room on the device, whose
  arrays are not made anew (`Created`, `AddVcpu`);
- relocations of kinds other than R_X86_64_64, 32, 32S and PC32, the PLT32 of a call
  among them, are skipped, as are those in the last 8 bytes of RAM; a section that
  was not placed is taken to be at address 0 for relocations and symbols; sections
  after one that failed are still placed (`ApplyRela`, `SymValue`, `Place`);
- README.md:165-173 lists `mov`, arithmetic "(reg/mem forms)", `cmp`, `test`, `push`
  and `pop` as supported, without a limit on their operands. They are executed as
  written only if `Faithful`. Its conjuncts name what is not: REX.X has no effect;
  PUSH, POP and B8+r are extended by REX.R; the index that means none is RSP; odd
  scales take the index from another field, unless a literal is stored, when even
  ones do; arithmetic into memory loses its operation behind a SIB byte; loads and
  stores relative to rip start from where the vCPU started; comparisons and MOVSXD
  keep the base of a SIB byte only; a register source of 8B, 0FB6 and 63 is read as
  an address, a memory source of 33, 03 and 2B as RAX; many instructions are 64 bits
  wide without REX.W; byte registers are not told from the others; the target of a
  branch behind a prefix is one byte short; a CALL stores the index of an IR
  instruction where the return address belongs, so that none is faithful (RET takes
  it from there, and a guest that looks sees it);
- `-p 1` before a mode option counts as not given (`OrDefault`), a plain guest
  ignores `--steps` (`Start`), and an option after `--bench` replaces its guest
  (`MandelMode`, `GenericGuest`; main.cpp:386-389).

### Fairness

`RunLoop!FairSpec` has weak fairness of `HostStep`, the thread inside `run()`,
which blocks only in `cudaDeviceSynchronize`, and of `KernelStep(i)` for each i,
since CUDA runs every thread of a launched kernel to its end. Nothing obliges a
caller to call `run()`. `Translation` has weak fairness of `Step`: straight-line
host code. `DeviceFaults!FaultFairSpec` is `FairSpec` with the host's steps that
find a device call failed: such a step is a step of the host thread like any other,
and no fairness is asked of failing. No other module claims liveness.

## 4. Proofs

All theorems hold for every value of the constants that satisfies the named
assumptions: `CodeAssumption` and the others of `ExecIr` (a program of `CodeLen`
well-formed instructions), `RunAssumption` (at least one vCPU, a chunk of at least
one step), `ApiAssumption`, `HalfAssumption`, `CliAssumption` (defaults of two vCPUs
or more, below the modulus), `ElfAssumption` (objects go to an address above 0,
files are well-formed, with alignments that are powers of two),
`TranslationAssumption` (a text of `Size` bytes, instructions and branches of any
lengths from 1 on), `OperandsAssumption` (fields of the widths they have). A theorem
that needs more states it as its own hypothesis:

| Theorem | Hypothesis | Without it |
|---|---|---|
| `BudgetKept` | `NoWrap`: no budget plus a chunk exceeds the counter's range | the counter wraps and the vCPU goes on |
| `RunsStartFromImage` | no GPU, or one run | run gpu_rerun |
| `GpuServesOwnRam` | a GPU that is not given up | run cpu_write |
| `RunImplementsGuests` | `ServedInOwnRam` and `StartsFromImage` | the same two runs |
| `HaltsAreReal`, `OthersImplementGuests` | one run (the latter also a GPU that is not given up) | in a second run an upload that fails leaves a new executor with zeros for a vCPU the host has as halted |

**RunLoop_proofs.** `TypeCorrect` proves `TypeOK`. It includes a few facts of
control (in a chunk the current vCPU exists and has a step left), without which
indices could not be typed. `LoopCorrect` proves the inductive invariant `LoopInv`.
On the CPU it says that only the vCPU the loop is at can have steps left or a call
pending, the latter only while it is being served. On the GPU it says that steps are
left only during a kernel and only to vCPUs with neither a halt nor a call pending;
that a pending call is found only during the kernel or in the part of the drain that
has not reached its vCPU (`cur <= i`); and that host and device agree on a vCPU
except during a kernel and before its drain. The last two are what the safety
properties lack to be inductive: `Sync` makes every vCPU's host copy stale at once,
and each `Drain` repairs one. From `LoopInv` follow `StepsAreAnswered`,
`TrapsAreAnswered` and `HostCoherent` at once. `Isolation` looks at the one step
that writes RAM without executing, `Drain`, which stores back what it read.
`FinishedStays` needs in addition that a result with `halted` means that all vCPUs
have halted, so that the loop only skips them. `BudgetKept` needs that a vCPU's
`executed` and what is left of its chunk stay within what has been charged.
`NobodyStarves` is the opposite bound and rests on `Fed`: a vCPU that has not halted
has taken a step in every round charged so far (`Due`), and in the round in progress
one as well (`Stepped`) as soon as it has had its turn, of which `any_running` then
knows. It needs no `NoWrap`. `RunsStartFromImage` and `GpuServesOwnRam` are the two
properties the code violates, where it does not: the master RAM stays the image
until a GPU run collects into it, and on the GPU a call is served while `mem_` holds
the caller's RAM.

**Refinement_proofs.** `RunImplementsGuests` is the refinement of
`IndependentGuests`, step by step: the initial state maps to its initial state
(`StartsFromImage` is needed when `run` is called again), `KernelStep` and `CpuExec`
to a step of one guest (`GuestExec`), `Drain` and `CpuServe` to an answered call of
the guest that made it (`GuestDispatch`, `ServesTrap`; here `ServedInOwnRam` is
needed) or, without a pending call, to a stutter, and everything else to a stutter.
It holds of every configuration, with any number of runs and with fallback from the
GPU to the CPU, so that the two disagreements of section 3 are the only ways in
which the program deviates from guests that share nothing. `GpuRunImplementsGuests`
and `CpuRunsImplementGuests` discharge the hypotheses where the code does.

With device calls that fail, `FaultTypes` is type correctness. `HaltsAreReal` rests
on `HaltInv`: from its drain to the next launch, a vCPU the host holds for halted is
halted on the device or has asked there to exit (`Ends`), and a call the host still
holds for pending is one the last download brought; a failed download, which leaves
a fresh `CpuState{}`, can lose a halt but not invent one; after a kernel has died
every drain leaves one, so that the host holds nobody for halted.
`OthersImplementGuests` is the refinement for the vCPUs that are not flaky. Its
invariant, `OneGpuRun` with `OthersInv`, says that for these, and only these, host
and device still agree as in `LoopInv` while the context lives, and that once it is
lost no thread runs and no call is pending; what a fault does in a drain concerns
the flaky vCPU that is drained (`DrainLosingAlone`).

**EmulatorApi_proofs.** `ApiTypes`, `DeviceIr`, `FreshIr`, `OneOrphan` and
`GivenUp`, the first four from their conjunction, which is inductive: an executor is
made of the IR at hand, and whatever replaces the IR destroys the executor; RAM
changes without the translation becoming invalid only when a load fails, and then it
is damaged. An init that fails gives the GPU up, so that no executor is there to be
lost when the object ends. `GivenUp` looks at every method that could bring the GPU
back: only `init_gpu` makes an executor, and it asks `use_gpu_` first.

**Flags_proofs.** `FlagTypes`; `CompareAndJump`: after cmp or sub the ten conditions
decide the comparison they name, at every width; `AdditionOverflow`; `LogicFlags`:
and, or and xor leave nothing of earlier flags, test leaves all of ZF and SF. The
first three are inductive by themselves, since `last` and the four flags are set by
the same step; `LogicFlags` rests on `Sticky`, that ZF and SF say whether `seen` has
a zero and a negative result. The proofs split on the signs of the operands and on
whether the subtraction borrows or the sum wraps.

**Translation_proofs.** `TranslationInvariant` proves `IInv`, for a text of any
length whose bytes decode to anything. Its four parts follow the code's passes.
`Decoding`: the instructions of the block at hand lie one behind the other (`Lined`).
`Swept`: so do the blocks (`Stacked`), with at most one stretch that did not decode
between two (`Close`); `CloseBlock` is the step to look at, as it decides where the
next block begins. `Indexing`: `pc_to_idx` numbers the instructions of the blocks
seen so far from 0 on without a gap (`Numbers`); here instructions must have
different addresses, or the second of two would take the number of the first, and
this is what `Stacked` is for. `Emitting`: the stream has as many instructions as
were numbered, and each stands at its number (`Flat`). `PassesAgree` and
`BranchesResolved` compare `Flat` with `Numbers`; `StreamOrder` and `OneGap` compare
it with `Stacked` and `Close`; `TranslationTypes` and `SweepEnds` are parts of it.
That an index lies in the text needs the bound in `Numbers`, that no number exceeds
the address it stands for: every instruction has at least one byte.

**ElfLoader_proofs.** `LayoutInvariant` proves, for objects of any layout,
types (`Types`), which sections have been placed at which step (`PlacedSoFar`), that of two
sections placed one ends before the other begins and all end before the cursor
(`Upwards`), and `WritesStayInSections` itself. `AlignUp` loses nothing and gives a
multiple; a section placed is new, so the others keep their extents; a relocation
that an assembler makes (`Assembled`) lies inside its section, which has been placed,
or below `load_base`. `LayoutFits` and `NothingElseWritten` follow.

`LoadedAsLinked` adds what the words hold: as long as nothing failed a section placed
holds what the file does (`PlacedWords`), and after k relocations what a linker
makes of it with the first k of them (`LinkedSoFar`, `WordAfter`). Relocations may
cover one another's words; the last that covers a word decides, and the next one
covers a word either as the last (`CoversNext`) or not at all. Its hypotheses are
part of `ImageAsLinked`: relocations lie in their sections (`Assembled`), the last one
that covers the word is one the loader can link (`Linkable`, `LastLinks`; the others
may be anything), and `_start` is in a section that is placed. It says nothing of
words on which a PLT32, a symbol in a section that is not placed, or the end of RAM
has the last word: there the loader departs from a linker, as section 3 says.
`CodeLoaded` rests on `SegmentsLoaded`: every segment so far is in RAM, as a later one
does not cover it (`LinkedRight`); the code range is that of a segment, or lies in one
at the same distance as in the file (`InSegment`).

**Operands_proofs.** `LengthsRight`: the displacement that parse_sib and parse_modrm
step over (`ModrmLength`) and the literal (`ImmLength`) are those of the instruction,
for every combination of fields, not only those of `MCOperands`.

`OperandsRight` is the equivalence that `ExecutedAsWritten` states. The invariant
(`Carried`) is small: every step holds what decode_one, emit_x86 and exec_ir made of
the bytes in turn, and no step touches what it is given. The work is about the
operators, in four layers:

- what the fields of an r/m operand are after parse_modrm (`RmReg`, `RmPlain`,
  `RmSib`), and what the same bytes are to a processor (`X86RmIs`, `X86RegIs`);
- addresses as counts of registers: counting an index and a base gives the
  processor's address exactly if index and scale are those encoded (`SibIndex`),
  and a base alone gives it exactly if there is no index (`SibBase`) or, where mod
  0 means that there is no base either, an unscaled index that happens to be that
  register. Both compare the functions register by register;
- what survives the aux byte: `ScaleBitsAre` and `SibEff` for the scale, whose low
  bit is also the mark of a literal; `OpsIn` and `MemOpIs` for the operation; and
  from them what an instruction reads (`SourceSib`, `LoadRight`) and writes
  (`TargetSib`);
- one lemma for each group of opcodes with the same path through the IR
  (`AgreesLoad`, `AgreesStore`, `AgreesToRm`, ...), put together in `X86Agrees`;
  what decode_one rejects is not done at all, and a processor always does something
  (`X86Acts`). Jumps and conditional jumps (`AgreesJump`) agree unless a prefix shifts
  their target, calls (`AgreesCall`) never, as they push an index.

Bits and scales are tables in the model, not powers of two: the provers know nothing
of exponents, and there are five numbers and four scales.

**Cli_proofs.** `CliTypes`: no command line starts a run without a vCPU, whatever
`strtoul` makes of its numbers. `CountsKept` needs that the variables hold what the
last option of their kind said, and that a mode's default replaces only what reads
as not given. `RowsCovered` is arithmetic: if a count divides the height, row r
belongs to vCPU r \div (rows each) and to no other.

**Only model-checked.** Liveness (`RunReturns`, `Terminates`), which is out of the
prover's reach. Every other property of a passing run is the statement of a theorem.

## 5. Not modelled

- An instruction cut off by the end of the text: the code reads its missing bytes
  as 0 or fails where it stands; `Translation` has both outcomes, `Operands` none.
- The values of displacements and literals; the flags of shifts and of IMUL, CF
  after INC and DEC; the parity conditions, which the code takes for the signed ones.
- In whole guests (`ExecIr`): reads and writes narrower than a memory cell, scaled
  addresses, shifts and multiplication, which occur one at a time in `Operands` only.
- Several Emulators alive at once, and what a device context lost by one means to the
  next (`EmulatorApi` has one after the other, `DeviceFaults` one).
- ELF headers and tables that point outside the file; sums of addresses that wrap.
- The checks of `virt/memory.cpp`, which only `load_code` reaches.
- The exit code a run reports when several guests exit; printing, timing and the
  showcase's comparison of tallies; the guest programs and `decode_test.cpp`.

## 6. Plan

Done: the run loop with and without device faults, the Emulator object, translation,
operands, the ELF loader, flags and the command line, in the order of how much of the
program rests on them; proofs of the safety of all of them and of both refinements. What is
left:

1. `ExecIr` with widths, shifts and multiplication, and `Operands`' IR in its place.
2. An Emulator whose executor is too small, with the device arrays as one array: what
   the uploads past its end do is undefined.
