-------------------------------- MODULE Cli --------------------------------
(***************************************************************************)
(* The command line of gpuemu (src/main.cpp).  main() takes the options    *)
(* one by one and in their order, keeps what they say in five local        *)
(* variables, and then starts one of three programs: the showcase, the     *)
(* Mandelbrot demo, whose rows are shared out among the vCPUs, or a plain   *)
(* guest.  One step is one option; opts remembers those taken.             *)
(***************************************************************************)
EXTENDS Naturals, Sequences

CONSTANTS
  Numbers,        \* what strtoul makes of the numbers on a command line
  Modulus,        \* number of values of a uint32_t
  Height,         \* kMandelHeight, rows of the picture
  BenchCount,     \* vCPUs of the showcase, 512, and of the demo, 8, by default
  MandelCount,
  DefaultSteps,   \* 64 << 20
  MandelSteps,    \* 256 << 20
  GuestSteps,     \* 1 << 22, what run_guest passes to run()
  MaxOpts         \* bound on the number of options

ASSUME CliAssumption ==
  /\ Numbers \subseteq Nat
  /\ Modulus \in Nat /\ Modulus > 1
  /\ Height \in Nat \ {0}
  /\ BenchCount \in 2 .. Modulus - 1 /\ MandelCount \in 2 .. Modulus - 1
  /\ {DefaultSteps, MandelSteps, GuestSteps} \subseteq Nat
  /\ MaxOpts \in Nat

VARIABLES
  obj,      \* path of the guest
  vcpus, steps,
  bench, mandel,
  opts,     \* the options taken
  run       \* what main() started, or how it ended
vars == <<obj, vcpus, steps, bench, mandel, opts, run>>

\* The built-in guests, one for each kind; println is the default.
Kind == [println |-> "Generic", simple |-> "Generic",
         mandel |-> "Mandel", gpubench |-> "Bench"]
Builtins == DOMAIN Kind
Path == "file.o"               \* a path on the command line
Word(n) == n % Modulus         \* static_cast<uint32_t>

Parsing == [as |-> "Options"]
Ended(as) == [as |-> as]
Started(as, o, n, s) == [as |-> as, obj |-> o, vcpus |-> n, steps |-> s]

Init ==
  /\ obj = "println" /\ vcpus = 1 /\ steps = DefaultSteps
  /\ bench = FALSE /\ mandel = FALSE
  /\ opts = <<>> /\ run = Parsing

Take(opt) == /\ run = Parsing
             /\ Len(opts) < MaxOpts
             /\ opts' = Append(opts, opt)
Option(name) == [opt |-> name]
NumOption(name, n) == [opt |-> name, n |-> n]
GuestOption(g) == [opt |-> "guest", guest |-> g]

\* Mutant of OrDefault: the mode's default replaces whatever was given.
OrDefaultAlways(value, own, default) == default

\* A mode's defaults replace values that are the program's own defaults.
OrDefault(value, own, default) == IF value = own THEN default ELSE value

MandelMode ==
  /\ mandel' = TRUE /\ obj' = "mandel"
  /\ vcpus' = OrDefault(vcpus, 1, MandelCount)
  /\ steps' = OrDefault(steps, DefaultSteps, MandelSteps)
  /\ UNCHANGED bench

BenchMode ==
  /\ bench' = TRUE /\ obj' = "gpubench"
  /\ vcpus' = OrDefault(vcpus, 1, BenchCount)
  /\ UNCHANGED <<mandel, steps>>

GenericGuest(g) == obj' = g /\ UNCHANGED <<vcpus, steps, bench, mandel>>

\* --guest NAME with a name of the table.
Guest(g) ==
  /\ Take(GuestOption(g))
  /\ \/ Kind[g] = "Mandel" /\ MandelMode
     \/ Kind[g] = "Bench" /\ BenchMode
     \/ Kind[g] = "Generic" /\ GenericGuest(g)
  /\ UNCHANGED run

Bench == Take(Option("bench")) /\ BenchMode /\ UNCHANGED run
Mandel == Take(Option("mandel")) /\ MandelMode /\ UNCHANGED run

Steps(n) ==
  /\ Take(NumOption("steps", n))
  /\ steps' = Word(n)
  /\ UNCHANGED <<obj, vcpus, bench, mandel, run>>

\* Mutant of Count: 0 is replaced before the conversion to 32 bits.
CountChecksFirst(n) ==
  /\ Take(NumOption("p", n))
  /\ vcpus' = IF n = 0 THEN 1 ELSE Word(n)
  /\ UNCHANGED <<obj, steps, bench, mandel, run>>

\* -p N, --parallel N
Count(n) ==
  /\ Take(NumOption("p", n))
  /\ vcpus' = IF Word(n) = 0 THEN 1 ELSE Word(n)
  /\ UNCHANGED <<obj, steps, bench, mandel, run>>

\* Anything else that does not begin with a dash.
GuestPath ==
  /\ Take(Option("path"))
  /\ obj' = IF mandel \/ bench THEN obj ELSE Path
  /\ UNCHANGED <<vcpus, steps, bench, mandel, run>>

\* -h and --list-guests end the program with 0; a missing or unknown name, a
\* missing number and an unknown option end it with 1.
Stop ==
  /\ run = Parsing
  /\ run' \in {Ended("Help"), Ended("Error")}
  /\ UNCHANGED <<obj, vcpus, steps, bench, mandel, opts>>

-----------------------------------------------------------------------------
\* The rows of vCPU i, from RCX to RDX, and the vCPU whose RAM row y is
\* printed from.
RowsPer(n) == Height \div n
Band(i, n) == i * RowsPer(n) .. (i + 1) * RowsPer(n) - 1
PrintedFrom(y, n) == y \div RowsPer(n)

\* Mutant of Divides: as many rows as vCPUs or more are enough.
DividesFits(n) == n <= Height

Divides(n) == Height % n = 0

\* After the last option.  The guest's file may be missing or unreadable, and
\* then nothing runs; run_guest does not hand on --steps.
Start ==
  /\ run = Parsing
  /\ \/ bench /\ run' = Started("Showcase", obj, vcpus, steps)
     \/ ~bench /\ mandel /\ Divides(vcpus) /\ run' = Started("Mandel", obj, vcpus, steps)
     \/ ~bench /\ mandel /\ ~Divides(vcpus) /\ run' = Ended("Indivisible")
     \/ ~bench /\ ~mandel /\ run' = Started("Guest", obj, vcpus, GuestSteps)
     \/ run' = Ended("NotLoaded")
  /\ UNCHANGED <<obj, vcpus, steps, bench, mandel, opts>>

Next == \/ \E g \in Builtins : Guest(g)
        \/ \E n \in Numbers : Steps(n) \/ Count(n)
        \/ Bench \/ Mandel \/ GuestPath \/ Stop \/ Start

Spec == Init /\ [][Next]_vars

-----------------------------------------------------------------------------
Runs == {"Showcase", "Mandel", "Guest"}
Ends == {"Options", "Help", "Error", "Indivisible", "NotLoaded"}

\* The variables' types; there is always a vCPU, which the division of the
\* rows relies on, whatever number was given.
TypeOK ==
  /\ obj \in Builtins \cup {Path}
  /\ vcpus \in 1 .. Modulus - 1
  /\ steps \in Nat
  /\ bench \in BOOLEAN /\ mandel \in BOOLEAN
  /\ Len(opts) <= MaxOpts
  /\ \/ run.as \in Ends
     \/ run.as \in Runs /\ run = Started(run.as, run.obj, run.vcpus, run.steps)

Given(name) == {i \in 1 .. Len(opts) : opts[i].opt = name}
IsLast(i, S) == i \in S /\ \A j \in S : j <= i

\* The number of vCPUs and the budget given last are those used, in whatever
\* order they and the modes come, unless they are the program's own defaults.
GivenKept ==
  /\ \A i \in Given("p") :
       IsLast(i, Given("p")) /\ Word(opts[i].n) > 1 => vcpus = Word(opts[i].n)
  /\ \A i \in Given("steps") :
       IsLast(i, Given("steps")) /\ Word(opts[i].n) # DefaultSteps =>
         steps = Word(opts[i].n)

\* Every row of the picture is computed by exactly one vCPU and printed from
\* that vCPU's RAM, for whatever count was given or left to the defaults.
RowsShared ==
  run.as = "Mandel" =>
    LET n == run.vcpus IN
    /\ RowsPer(n) > 0
    /\ \A y \in 0 .. Height - 1 :
         /\ PrintedFrom(y, n) \in 0 .. n - 1
         /\ \A i \in 0 .. n - 1 : y \in Band(i, n) <=> i = PrintedFrom(y, n)
=============================================================================
