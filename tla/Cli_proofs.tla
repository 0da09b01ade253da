----------------------------- MODULE Cli_proofs ------------------------------
(***************************************************************************)
(* Theorems about Cli, for command lines of any length and any numbers.    *)
(***************************************************************************)
EXTENDS Cli, Integers, TLAPS

\* A number converted to 32 bits is one.
LEMMA WordRange ==
  ASSUME NEW n \in Nat
  PROVE  Word(n) \in 0 .. Modulus - 1
BY CliAssumption DEF Word

\* The options there are.
OptType == [opt : {"bench", "mandel", "path"}]
             \union [opt : {"p", "steps"}, n : Numbers]
             \union [opt : {"guest"}, guest : Builtins]

\* The types of the variables and of the options taken.
Types ==
  /\ TypeOK
  /\ opts \in Seq(OptType)

\* A mode's default is a count of vCPUs, and so is what it does not replace.
LEMMA DefaultsType ==
  ASSUME Types
  PROVE  /\ OrDefault(vcpus, 1, MandelCount) \in 1 .. Modulus - 1
         /\ OrDefault(vcpus, 1, BenchCount) \in 1 .. Modulus - 1
         /\ OrDefault(steps, DefaultSteps, MandelSteps) \in Nat
BY CliAssumption DEF Types, TypeOK, OrDefault

\* Taking an option makes the list of options one longer.
LEMMA TakeType ==
  ASSUME Types, NEW o \in OptType, Take(o)
  PROVE  /\ opts' \in Seq(OptType)
         /\ Len(opts') = Len(opts) + 1
         /\ Len(opts') <= MaxOpts
         /\ \A i \in 1 .. Len(opts) : opts'[i] = opts[i]
         /\ opts'[Len(opts')] = o
         /\ run = Parsing
BY CliAssumption DEF Types, TypeOK, Take

\* The state right at the beginning has its types.
LEMMA TypesInit == Init => Types
<1> SUFFICES ASSUME Init PROVE Types
  OBVIOUS
<1>1. obj \in Builtins
  BY DEF Init, Builtins, Kind
<1>2. run.as \in Ends
  BY DEF Init, Parsing, Ends
<1>3. bench \in BOOLEAN /\ mandel \in BOOLEAN
  BY DEF Init
<1>4. opts \in Seq(OptType) /\ Len(opts) = 0
  BY DEF Init
<1> QED
  BY <1>1, <1>2, <1>3, <1>4, CliAssumption DEF Init, Types, TypeOK

\* Every step but the last takes an option, keeps the types, and changes the
\* counts as a mode or the option itself does.
LEMMA TypesStep ==
  ASSUME Types, [Next]_vars
  PROVE  Types'
<1> USE CliAssumption DEF Types
<1>1. ASSUME NEW g \in Builtins, Guest(g) PROVE Types'
  <2>1. GuestOption(g) \in OptType
    BY DEF GuestOption, OptType
  <2>2. Take(GuestOption(g)) /\ UNCHANGED run
    BY <1>1 DEF Guest
  <2>3. /\ obj' \in Builtins /\ vcpus' \in 1 .. Modulus - 1 /\ steps' \in Nat
        /\ bench' \in BOOLEAN /\ mandel' \in BOOLEAN
    <3>1. CASE MandelMode
      BY <3>1, DefaultsType DEF MandelMode, TypeOK, Builtins, Kind
    <3>2. CASE BenchMode
      BY <3>2, DefaultsType DEF BenchMode, TypeOK, Builtins, Kind
    <3>3. CASE GenericGuest(g)
      BY <3>3 DEF GenericGuest, TypeOK
    <3> QED BY <1>1, <3>1, <3>2, <3>3 DEF Guest
  <2> QED BY <2>1, <2>2, <2>3, TakeType DEF TypeOK
<1>2. ASSUME NEW n \in Numbers, Steps(n) PROVE Types'
  <2>1. NumOption("steps", n) \in OptType
    BY DEF NumOption, OptType
  <2>2. Take(NumOption("steps", n)) /\ steps' = Word(n)
        /\ UNCHANGED <<obj, vcpus, bench, mandel, run>>
    BY <1>2 DEF Steps
  <2>3. steps' \in Nat
    BY <2>2, WordRange
  <2> QED BY <2>1, <2>2, <2>3, TakeType DEF TypeOK
<1>3. ASSUME NEW n \in Numbers, Count(n) PROVE Types'
  <2>1. NumOption("p", n) \in OptType
    BY DEF NumOption, OptType
  <2>2. Take(NumOption("p", n)) /\ UNCHANGED <<obj, steps, bench, mandel, run>>
    BY <1>3 DEF Count
  <2>3. vcpus' \in 1 .. Modulus - 1
    <3>1. Word(n) \in 0 .. Modulus - 1
      BY WordRange
    <3>2. vcpus' = IF Word(n) = 0 THEN 1 ELSE Word(n)
      BY <1>3 DEF Count
    <3> QED BY <3>1, <3>2
  <2> QED BY <2>1, <2>2, <2>3, TakeType DEF TypeOK
<1>4. CASE Bench \/ Mandel \/ GuestPath
  <2>1. \A o \in {"bench", "mandel", "path"} : Option(o) \in OptType
    BY DEF Option, OptType
  <2>2. CASE Bench
    <3>1. Take(Option("bench")) /\ BenchMode /\ UNCHANGED run
      BY <2>2 DEF Bench
    <3>2. /\ obj' \in Builtins /\ vcpus' \in 1 .. Modulus - 1 /\ steps' \in Nat
          /\ bench' \in BOOLEAN /\ mandel' \in BOOLEAN
      BY <3>1, DefaultsType DEF BenchMode, TypeOK, Builtins, Kind
    <3> QED BY <2>1, <3>1, <3>2, TakeType DEF TypeOK
  <2>3. CASE Mandel
    <3>1. Take(Option("mandel")) /\ MandelMode /\ UNCHANGED run
      BY <2>3 DEF Mandel
    <3>2. /\ obj' \in Builtins /\ vcpus' \in 1 .. Modulus - 1 /\ steps' \in Nat
          /\ bench' \in BOOLEAN /\ mandel' \in BOOLEAN
      BY <3>1, DefaultsType DEF MandelMode, TypeOK, Builtins, Kind
    <3> QED BY <2>1, <3>1, <3>2, TakeType DEF TypeOK
  <2>4. CASE GuestPath
    <3>1. Take(Option("path")) /\ UNCHANGED <<vcpus, steps, bench, mandel, run>>
      BY <2>4 DEF GuestPath
    <3>2. obj' \in Builtins \cup {Path}
      BY <2>4 DEF GuestPath, TypeOK
    <3> QED BY <2>1, <3>1, <3>2, TakeType DEF TypeOK
  <2> QED BY <1>4, <2>2, <2>3, <2>4
<1>5. CASE Stop
  BY <1>5 DEF Stop, TypeOK, Ended, Ends
<1>6. CASE Start
  <2>1. /\ UNCHANGED <<obj, vcpus, steps, bench, mandel, opts>>
        /\ \/ \E as \in Runs, s \in Nat : run' = Started(as, obj, vcpus, s)
           \/ \E as \in Ends : run' = Ended(as)
    BY <1>6 DEF Start, TypeOK, Runs, Ends
  <2>2. \/ run'.as \in Ends
        \/ run'.as \in Runs /\ run' = Started(run'.as, run'.obj, run'.vcpus, run'.steps)
    BY <2>1 DEF Started, Ended
  <2> QED BY <2>1, <2>2 DEF TypeOK
<1>7. CASE UNCHANGED vars
  BY <1>7 DEF vars, TypeOK
<1> QED BY <1>1, <1>2, <1>3, <1>4, <1>5, <1>6, <1>7 DEF Next

\* The types hold throughout.
LEMMA TypesAlways == Spec => []Types
BY TypesInit, TypesStep, PTL DEF Spec

\* On every command line main()'s variables keep their types, and there is
\* always a vCPU: Count replaces 0 after the conversion to 32 bits.
THEOREM CliTypes == Spec => []TypeOK
<1>1. Types => TypeOK
  BY DEF Types
<1> QED BY <1>1, TypesAlways, PTL

-----------------------------------------------------------------------------
(* Given counts.                                                           *)

\* Taking an option with another name leaves the last of a name the last.
LEMMA LastKept ==
  ASSUME Types, NEW o \in OptType, Take(o), NEW name, o.opt # name
  PROVE  \A i \in Given(name)' :
           /\ i \in Given(name)
           /\ opts'[i] = opts[i]
           /\ IsLast(i, Given(name)') => IsLast(i, Given(name))
<1>1. /\ Len(opts) \in Nat /\ Len(opts') = Len(opts) + 1
      /\ \A i \in 1 .. Len(opts) : opts'[i] = opts[i]
      /\ opts'[Len(opts')] = o
  BY TakeType DEF Types
<1>2. Given(name)' = Given(name)
  BY <1>1 DEF Given
<1> QED BY <1>1, <1>2 DEF Given, IsLast

\* One that has the name becomes the last.
LEMMA LastTaken ==
  ASSUME Types, NEW o \in OptType, Take(o)
  PROVE  \A i \in Given(o.opt)' : IsLast(i, Given(o.opt)') => opts'[i] = o
<1>1. /\ Len(opts) \in Nat /\ Len(opts') = Len(opts) + 1
      /\ opts'[Len(opts')] = o
  BY TakeType DEF Types
<1>2. Len(opts') \in Given(o.opt)'
  BY <1>1 DEF Given
<1>3. \A i \in Given(o.opt)' : i \in Nat /\ i <= Len(opts')
  BY <1>1 DEF Given
<1> QED BY <1>1, <1>2, <1>3 DEF IsLast

\* The two halves of GivenKept.
CountKept ==
  \A i \in Given("p") :
    IsLast(i, Given("p")) /\ Word(opts[i].n) > 1 => vcpus = Word(opts[i].n)
StepsKept ==
  \A i \in Given("steps") :
    IsLast(i, Given("steps")) /\ Word(opts[i].n) # DefaultSteps =>
      steps = Word(opts[i].n)

\* A given count that is not 1 survives an option that gives none.
LEMMA CountKeptBy ==
  ASSUME Types, CountKept, NEW o \in OptType, Take(o), o.opt # "p",
         \/ vcpus' = vcpus
         \/ vcpus' = OrDefault(vcpus, 1, MandelCount)
         \/ vcpus' = OrDefault(vcpus, 1, BenchCount)
  PROVE  CountKept'
<1> SUFFICES ASSUME NEW i \in Given("p")', IsLast(i, Given("p")'),
                    Word(opts'[i].n) > 1
             PROVE  vcpus' = Word(opts'[i].n)
  BY DEF CountKept, Word
<1>1. i \in Given("p") /\ opts'[i] = opts[i] /\ IsLast(i, Given("p"))
  BY LastKept
<1>2. vcpus = Word(opts[i].n) /\ vcpus # 1
  BY <1>1 DEF CountKept
<1> QED BY <1>1, <1>2 DEF OrDefault

\* A given budget that is not the program's own survives likewise.
LEMMA StepsKeptBy ==
  ASSUME Types, StepsKept, NEW o \in OptType, Take(o), o.opt # "steps",
         \/ steps' = steps
         \/ steps' = OrDefault(steps, DefaultSteps, MandelSteps)
  PROVE  StepsKept'
<1> SUFFICES ASSUME NEW i \in Given("steps")', IsLast(i, Given("steps")'),
                    Word(opts'[i].n) # DefaultSteps
             PROVE  steps' = Word(opts'[i].n)
  BY DEF StepsKept, Word
<1>1. i \in Given("steps") /\ opts'[i] = opts[i] /\ IsLast(i, Given("steps"))
  BY LastKept
<1>2. steps = Word(opts[i].n) /\ steps # DefaultSteps
  BY <1>1 DEF StepsKept
<1> QED BY <1>1, <1>2 DEF OrDefault

\* Every option keeps what was given.
LEMMA GivenStep ==
  ASSUME Types, CountKept, StepsKept, [Next]_vars
  PROVE  CountKept' /\ StepsKept'
<1>1. ASSUME NEW g \in Builtins, Guest(g) PROVE CountKept' /\ StepsKept'
  <2>1. GuestOption(g) \in OptType /\ GuestOption(g).opt = "guest"
    BY DEF GuestOption, OptType
  <2>2. /\ Take(GuestOption(g))
        /\ \/ vcpus' = vcpus
           \/ vcpus' = OrDefault(vcpus, 1, MandelCount)
           \/ vcpus' = OrDefault(vcpus, 1, BenchCount)
        /\ \/ steps' = steps
           \/ steps' = OrDefault(steps, DefaultSteps, MandelSteps)
    BY <1>1 DEF Guest, MandelMode, BenchMode, GenericGuest
  <2> QED BY <2>1, <2>2, CountKeptBy, StepsKeptBy
<1>2. ASSUME NEW n \in Numbers, Steps(n) PROVE CountKept' /\ StepsKept'
  <2>1. /\ NumOption("steps", n) \in OptType
        /\ NumOption("steps", n).opt = "steps" /\ NumOption("steps", n).n = n
    BY DEF NumOption, OptType
  <2>2. /\ Take(NumOption("steps", n))
        /\ steps' = Word(n) /\ vcpus' = vcpus
    BY <1>2 DEF Steps
  <2>3. \A i \in Given("steps")' :
          IsLast(i, Given("steps")') => opts'[i] = NumOption("steps", n)
    BY <2>1, <2>2, LastTaken
  <2>4. StepsKept'
    BY <2>1, <2>2, <2>3 DEF StepsKept, Word
  <2> QED BY <2>1, <2>2, <2>4, CountKeptBy
<1>3. ASSUME NEW n \in Numbers, Count(n) PROVE CountKept' /\ StepsKept'
  <2>1. /\ NumOption("p", n) \in OptType
        /\ NumOption("p", n).opt = "p" /\ NumOption("p", n).n = n
    BY DEF NumOption, OptType
  <2>2. /\ Take(NumOption("p", n))
        /\ vcpus' = IF Word(n) = 0 THEN 1 ELSE Word(n)
        /\ steps' = steps
    BY <1>3 DEF Count
  <2>3. \A i \in Given("p")' :
          IsLast(i, Given("p")') => opts'[i] = NumOption("p", n)
    BY <2>1, <2>2, LastTaken
  <2>4. Word(n) \in Nat
    BY WordRange, CliAssumption
  <2>5. CountKept'
    <3> SUFFICES ASSUME NEW i \in Given("p")', IsLast(i, Given("p")'),
                        Word(opts'[i].n) > 1
                 PROVE  vcpus' = Word(opts'[i].n)
      BY DEF CountKept, Word
    <3> QED BY <2>1, <2>2, <2>3, <2>4
  <2> QED BY <2>1, <2>2, <2>5, StepsKeptBy
<1>4. ASSUME NEW o \in {"bench", "mandel", "path"}, Take(Option(o)),
             \/ vcpus' = vcpus
             \/ vcpus' = OrDefault(vcpus, 1, MandelCount)
             \/ vcpus' = OrDefault(vcpus, 1, BenchCount),
             \/ steps' = steps
             \/ steps' = OrDefault(steps, DefaultSteps, MandelSteps)
      PROVE  CountKept' /\ StepsKept'
  <2>1. Option(o) \in OptType /\ Option(o).opt # "p" /\ Option(o).opt # "steps"
    BY DEF Option, OptType
  <2> QED BY <1>4, <2>1, CountKeptBy, StepsKeptBy
<1>5. CASE Bench \/ Mandel \/ GuestPath
  <2>1. CASE Bench
    BY <1>4, <2>1 DEF Bench, BenchMode
  <2>2. CASE Mandel
    BY <1>4, <2>2 DEF Mandel, MandelMode
  <2>3. CASE GuestPath
    BY <1>4, <2>3 DEF GuestPath
  <2> QED BY <1>5, <2>1, <2>2, <2>3
<1>6. CASE Stop \/ Start \/ UNCHANGED vars
  <2>1. UNCHANGED <<vcpus, steps, opts>>
    BY <1>6 DEF Stop, Start, vars
  <2> QED BY <2>1 DEF CountKept, StepsKept, Given, IsLast
<1> QED BY <1>1, <1>2, <1>3, <1>5, <1>6 DEF Next

\* On every command line, of any length, the count and the budget given last
\* are those used, in whatever order they and the modes come.
THEOREM CountsKept == Spec => []GivenKept
<1>1. Init => CountKept /\ StepsKept
  BY DEF Init, CountKept, StepsKept, Given
<1>2. CountKept /\ StepsKept => GivenKept
  BY DEF CountKept, StepsKept, GivenKept
<1> QED BY <1>1, <1>2, TypesAlways, GivenStep, PTL DEF Spec

-----------------------------------------------------------------------------
(* The rows of the picture.                                                *)

\* Division of natural numbers.
LEMMA Division ==
  ASSUME NEW a \in Nat, NEW q \in Nat \ {0}
  PROVE  /\ a \div q \in Nat
         /\ q * (a \div q) <= a
         /\ a < q * (a \div q) + q
  OBVIOUS

\* A number lies in the i-th of equal bands exactly if i is its quotient.
LEMMA OneBand ==
  ASSUME NEW a \in Nat, NEW q \in Nat \ {0}, NEW i \in Nat
  PROVE  a \in i * q .. (i + 1) * q - 1 <=> i = a \div q
<1> DEFINE d == a \div q
<1>1. d \in Nat /\ q * d <= a /\ a < q * d + q
  BY Division
<1> HIDE DEF d
<1>2. CASE i < d
  <2>1. (i + 1) * q <= d * q
    BY <1>1, <1>2, SMT
  <2>2. d * q = q * d
    BY <1>1, SMT
  <2> QED BY <1>1, <1>2, <2>1, <2>2, SMT DEF d
<1>3. CASE i > d
  <2>1. i * q >= (d + 1) * q
    BY <1>1, <1>3, SMT
  <2>2. (d + 1) * q = q * d + q
    BY <1>1, SMT
  <2> QED BY <1>1, <1>3, <2>1, <2>2, SMT DEF d
<1>4. CASE i = d
  <2>1. i * q = q * d /\ (i + 1) * q = q * d + q
    BY <1>1, <1>4, SMT
  <2> QED BY <1>1, <1>4, <2>1, SMT DEF d
<1> QED BY <1>1, <1>2, <1>3, <1>4

\* When the demo was started the number of vCPUs divides the height.
Divided == run.as = "Mandel" => run.vcpus \in Nat \ {0} /\ Divides(run.vcpus)

\* Then the rows are shared out.
LEMMA DividedShares == Divided => RowsShared
<1> SUFFICES ASSUME Divided, run.as = "Mandel" PROVE RowsShared
  BY DEF RowsShared
<1> DEFINE n == run.vcpus
           q == Height \div n
<1>1. n \in Nat \ {0} /\ Height % n = 0
  BY DEF Divided, Divides
<1>2. q \in Nat /\ Height = n * q
  BY <1>1, CliAssumption, SMT
<1>3. q > 0
  BY <1>1, <1>2, CliAssumption, SMT
<1>4. ASSUME NEW y \in 0 .. Height - 1
      PROVE  /\ y \div q \in 0 .. n - 1
             /\ \A i \in 0 .. n - 1 : y \in i * q .. (i + 1) * q - 1 <=> i = y \div q
  <2> DEFINE d == y \div q
  <2>1. y \in Nat /\ y < n * q
    BY <1>2, <1>1, CliAssumption
  <2>2. d \in Nat /\ q * d <= y
    BY <1>2, <1>3, <2>1, Division
  <2> HIDE DEF q, d, n
  <2>3. d < n
    <3>1. ASSUME d >= n PROVE FALSE
      <4>1. q * d >= n * q
        BY <1>1, <1>2, <2>2, <3>1, SMT
      <4>2. q * d \in Int /\ n * q \in Int
        BY <1>1, <1>2, <2>2, SMT
      <4> QED BY <2>1, <2>2, <4>1, <4>2, SMT
    <3> QED BY <3>1, <1>1, <2>2, SMT
  <2>4. \A i \in Nat : y \in i * q .. (i + 1) * q - 1 <=> i = y \div q
    BY <1>2, <1>3, <2>1, OneBand
  <2> QED BY <1>1, <2>2, <2>3, <2>4 DEF d
<1> HIDE DEF n
<1> QED BY <1>3, <1>4 DEF RowsShared, RowsPer, Band, PrintedFrom, n

\* Every row of the picture is computed by exactly one vCPU and printed from
\* its RAM, for every height and every count the options can lead to.
THEOREM RowsCovered == Spec => []RowsShared
<1>1. Init => Divided
  BY DEF Init, Divided, Parsing
<1>2. Types /\ Divided /\ [Next]_vars => Divided'
  <2> SUFFICES ASSUME Types, Divided, [Next]_vars PROVE Divided'
    OBVIOUS
  <2>1. CASE Start
    <3>1. vcpus \in Nat \ {0}
      BY CliAssumption DEF Types, TypeOK
    <3> QED BY <2>1, <3>1 DEF Start, Divided, Started, Ended
  <2>2. CASE Stop
    BY <2>2 DEF Stop, Divided, Ended
  <2>3. CASE UNCHANGED run
    BY <2>3 DEF Divided
  <2> QED BY <2>1, <2>2, <2>3
          DEF Next, vars, Guest, Steps, Count, Bench, Mandel, GuestPath
<1> QED BY <1>1, <1>2, TypesAlways, DividedShares, PTL DEF Spec
=============================================================================
