------------------------- MODULE EmulatorApi_proofs -------------------------
(***************************************************************************)
(* Theorems about EmulatorApi for every set of guests, every sequence of   *)
(* calls and any number of Emulators.                                      *)
(***************************************************************************)
EXTENDS EmulatorApi, TLAPS

\* A new Emulator has the types.
LEMMA TypeInit == Init => TypeOK
<1> SUFFICES ASSUME Init PROVE TypeOK
  OBVIOUS
<1>1. translated \in BOOLEAN /\ useGpu \in BOOLEAN /\ alive \in BOOLEAN
  BY ApiAssumption DEF Init
<1> QED
  BY <1>1, ApiAssumption DEF Init, TypeOK

\* init_gpu leaves an executor of the IR at hand, or none.
LEMMA InitGpuType ==
  ASSUME TypeOK, InitGpu
  PROVE  /\ handle' \in Executor \cup {Nothing}
         /\ useGpu' \in BOOLEAN
         /\ orphans' \in Nat
         /\ handle' = handle \/ handle' = Nothing \/ handle'.ir = flat
<1>1. CASE CanCreate /\ Created
  <2>1. flat \in Guest \cup {Damaged} /\ Len(vcpus) \in 1 .. MaxVcpus
    BY <1>1, ApiAssumption DEF CanCreate, TypeOK
  <2>2. [n |-> Len(vcpus), ir |-> flat] \in Executor
    BY <2>1 DEF Executor
  <2> QED
    BY <1>1, <2>2 DEF Created, TypeOK
<1>2. CASE CanCreate /\ CreateFailed
  <2>1. useGpu' \in BOOLEAN
    BY <1>2 DEF CreateFailed
  <2>2. orphans' \in Nat
    BY <1>2 DEF CreateFailed, TypeOK
  <2> QED
    BY <1>2, <2>1, <2>2 DEF CreateFailed
<1>3. CASE ~CanCreate
  BY <1>3 DEF InitGpu, TypeOK
<1> QED
  BY <1>1, <1>2, <1>3 DEF InitGpu

\* Whatever is translated is a guest's IR, or that of damaged bytes, or none;
\* it is the loaded guest's if the RAM is.
LEMMA IrOfTextType ==
  ASSUME TypeOK, NEW ir \in IrOfText
  PROVE  /\ ir \in Guest \cup {Nothing, Damaged}
         /\ ram = loaded => ir = loaded
BY ApiAssumption DEF IrOfText, TypeOK

\* Every method keeps the types.
LEMMA MethodTypes ==
  ASSUME TypeOK, Method, UNCHANGED object
  PROVE  TypeOK'
<1> USE ApiAssumption DEF object
<1>1. ASSUME NEW g \in Guest, Load(g) PROVE TypeOK'
  <2>1. translated' \in BOOLEAN
    BY <1>1 DEF Load
  <2> QED
    BY <1>1, <2>1 DEF Load, TypeOK
<1>2. CASE LoadFails
  BY <1>2 DEF LoadFails, TypeOK
<1>3. CASE AddVcpu
  <2>1. loaded \in Guest /\ Len(vcpus) < MaxVcpus
    BY <1>3 DEF AddVcpu, TypeOK
  <2>2. vcpus' \in Seq(Guest) /\ Len(vcpus') = Len(vcpus) + 1
    BY <1>3, <2>1 DEF AddVcpu, TypeOK
  <2> QED
    BY <1>3, <2>1, <2>2 DEF AddVcpu, TypeOK
<1>4. CASE Translate
  <2>1. translated' \in BOOLEAN
    BY <1>4 DEF Translate
  <2>2. flat' \in Guest \cup {Nothing, Damaged}
    BY <1>4, IrOfTextType DEF Translate
  <2> QED
    BY <1>4, <2>1, <2>2 DEF Translate, TypeOK
<1>5. CASE DisableGpu
  <2>1. useGpu' \in BOOLEAN
    BY <1>5 DEF DisableGpu
  <2> QED
    BY <1>5, <2>1 DEF DisableGpu, TypeOK
<1>6. CASE InitGpuBackend
  <2>1. InitGpu
    BY <1>6 DEF InitGpuBackend
  <2> QED
    BY <1>6, <2>1, InitGpuType DEF InitGpuBackend, TypeOK
<1>7. CASE Run
  <2>1. CASE InitGpu
    BY <1>7, <2>1, InitGpuType DEF Run, TypeOK
  <2>2. CASE ~InitGpu
    BY <1>7, <2>2 DEF Run, TypeOK
  <2> QED
    BY <2>1, <2>2
<1>8. CASE RunNothing
  BY <1>8 DEF RunNothing, TypeOK
<1> QED
  BY <1>1, <1>2, <1>3, <1>4, <1>5, <1>6, <1>7, <1>8 DEF Method

\* So do the end of an Emulator and the beginning of another.
LEMMA TypeStep == TypeOK /\ [Next]_vars => TypeOK'
<1> SUFFICES ASSUME TypeOK, [Next]_vars PROVE TypeOK'
  OBVIOUS
<1> USE ApiAssumption
<1>1. CASE alive /\ Method /\ UNCHANGED object
  BY <1>1, MethodTypes
<1>2. CASE Destroy
  <2>1. alive' \in BOOLEAN /\ translated' \in BOOLEAN /\ useGpu' \in BOOLEAN
    BY <1>2 DEF Destroy, TypeOK
  <2> QED
    BY <1>2, <2>1 DEF Destroy, TypeOK
<1>3. CASE Construct
  <2>1. alive' \in BOOLEAN /\ translated' \in BOOLEAN /\ useGpu' \in BOOLEAN
    BY <1>3 DEF Construct
  <2> QED
    BY <1>3, <2>1 DEF Construct, TypeOK
<1>4. CASE UNCHANGED vars
  BY <1>4 DEF vars, object, TypeOK
<1> QED
  BY <1>1, <1>2, <1>3, <1>4 DEF Next, Exited

\* An Emulator's state keeps its type in every sequence of calls.
THEOREM ApiTypes == Spec => []TypeOK
BY TypeInit, TypeStep, PTL DEF Spec

-----------------------------------------------------------------------------
\* The safety properties together are inductive.
Inv == TypeOK /\ DeviceRunsHostIr /\ NoStaleTranslation /\ AtMostOneOrphan

\* init_gpu loses device arrays only if it leaves neither a GPU nor an executor.
LEMMA InitGpuLoses ==
  ASSUME TypeOK, AtMostOneOrphan, alive, InitGpu, UNCHANGED object
  PROVE  AtMostOneOrphan'
<1> USE DEF AtMostOneOrphan, TypeOK, object
<1>1. CASE CanCreate /\ Created
  BY <1>1 DEF CanCreate, Created
<1>2. CASE CanCreate /\ CreateFailed
  BY <1>2 DEF CanCreate, CreateFailed
<1>3. CASE ~CanCreate
  BY <1>3 DEF InitGpu
<1> QED BY <1>1, <1>2, <1>3 DEF InitGpu

\* Every method keeps the invariant.
LEMMA MethodKeeps ==
  ASSUME Inv, alive, Method, UNCHANGED object
  PROVE  Inv'
<1> USE ApiAssumption DEF Inv, object
<1>a. TypeOK'
  BY MethodTypes
<1>b. made' = made /\ alive' /\ made \in Nat /\ orphans \in Nat
  BY DEF TypeOK
<1>1. ASSUME NEW g \in Guest, Load(g) PROVE Inv'
  BY <1>1, <1>a, <1>b DEF Load, DeviceRunsHostIr, NoStaleTranslation, AtMostOneOrphan
<1>2. CASE LoadFails
  BY <1>2, <1>a, <1>b DEF LoadFails, TypeOK, DeviceRunsHostIr, NoStaleTranslation,
                    AtMostOneOrphan
<1>3. CASE AddVcpu
  BY <1>3, <1>a, <1>b DEF AddVcpu, DeviceRunsHostIr, NoStaleTranslation,
                    AtMostOneOrphan
<1>4. CASE Translate
  BY <1>4, <1>a, <1>b, IrOfTextType DEF Translate, DeviceRunsHostIr, NoStaleTranslation,
                    AtMostOneOrphan
<1>5. CASE DisableGpu
  BY <1>5, <1>a, <1>b DEF DisableGpu, DeviceRunsHostIr, NoStaleTranslation,
                    AtMostOneOrphan
<1>6. CASE InitGpuBackend
  <2>1. InitGpu
    BY <1>6 DEF InitGpuBackend
  <2> QED
    BY <1>6, <1>a, <2>1, InitGpuType, InitGpuLoses
       DEF InitGpuBackend, TypeOK, DeviceRunsHostIr, NoStaleTranslation
<1>7. CASE Run
  <2>1. CASE InitGpu
    BY <1>7, <1>a, <2>1, InitGpuType, InitGpuLoses
       DEF Run, TypeOK, DeviceRunsHostIr, NoStaleTranslation
  <2>2. CASE ~InitGpu
    BY <1>7, <1>a, <1>b, <2>2
       DEF Run, DeviceRunsHostIr, NoStaleTranslation, AtMostOneOrphan
  <2> QED
    BY <2>1, <2>2
<1>8. CASE RunNothing
  BY <1>8, <1>a, <1>b DEF RunNothing, DeviceRunsHostIr, NoStaleTranslation,
                    AtMostOneOrphan
<1> QED
  BY <1>1, <1>2, <1>3, <1>4, <1>5, <1>6, <1>7, <1>8 DEF Method

\* So do the end of an Emulator, where a live executor is what makes room for
\* another loss, and the beginning of the next.
LEMMA InvStep == Inv /\ [Next]_vars => Inv'
<1> SUFFICES ASSUME Inv, [Next]_vars PROVE Inv'
  OBVIOUS
<1> USE ApiAssumption DEF Inv
<1>a. TypeOK' /\ made \in Nat /\ orphans \in Nat
  BY TypeStep DEF TypeOK
<1>1. CASE alive /\ Method /\ UNCHANGED object
  BY <1>1, MethodKeeps
<1>2. CASE alive /\ Destroy
  BY <1>2, <1>a DEF Destroy, DeviceRunsHostIr, NoStaleTranslation, AtMostOneOrphan
<1>3. CASE Construct
  BY <1>3, <1>a DEF Construct, DeviceRunsHostIr, NoStaleTranslation, AtMostOneOrphan
<1>4. CASE UNCHANGED vars
  BY <1>4, <1>a DEF vars, object, DeviceRunsHostIr, NoStaleTranslation, AtMostOneOrphan
<1> QED
  BY <1>1, <1>2, <1>3, <1>4 DEF Next, Exited

\* The invariant holds throughout.
LEMMA InvAlways == Spec => []Inv
<1>1. Init => Inv
  BY TypeInit, ApiAssumption
     DEF Init, Inv, DeviceRunsHostIr, NoStaleTranslation, AtMostOneOrphan
<1> QED
  BY <1>1, InvStep, PTL DEF Spec

\* Whatever the order of calls, an executor holds the host's IR.
THEOREM DeviceIr == Spec => []DeviceRunsHostIr
<1>1. Inv => DeviceRunsHostIr
  BY DEF Inv
<1> QED
  BY <1>1, InvAlways, PTL

\* Whatever the order of calls, run() does not execute the IR of a guest
\* loaded before the last one.
THEOREM FreshIr == Spec => []NoStaleTranslation
<1>1. Inv => NoStaleTranslation
  BY DEF Inv
<1> QED
  BY <1>1, InvAlways, PTL

\* Whatever the order of calls, an Emulator loses at most one set of device arrays
\* in its life, its end included.
THEOREM OneOrphan == Spec => []AtMostOneOrphan
<1>1. Inv => AtMostOneOrphan
  BY DEF Inv
<1> QED
  BY <1>1, InvAlways, PTL

\* Whatever the order of calls, a GPU that was given up stays given up: there is
\* no new executor and no run on an old one until the Emulator ends.
THEOREM GivenUp == Spec => CpuForGood
<1>1. TypeOK /\ [Next]_vars
        => (alive /\ alive' /\ ~useGpu =>
              /\ ~useGpu' /\ handle' \in {handle, Nothing}
              /\ Run => lastRun'.backend = "cpu")
  <2> SUFFICES ASSUME TypeOK, [Next]_vars, alive, alive', ~useGpu
               PROVE  /\ ~useGpu' /\ handle' \in {handle, Nothing}
                      /\ Run => lastRun'.backend = "cpu"
    OBVIOUS
  <2>1. ~useGpu' /\ handle' \in {handle, Nothing}
    <3>1. CASE Method
      <4>1. CASE InitGpu
        BY <4>1 DEF InitGpu, CanCreate
      <4>2. CASE ~InitGpu
        BY <3>1, <4>2 DEF Method, Load, LoadFails, AddVcpu, Translate, DisableGpu,
                          InitGpuBackend, Run, RunNothing
      <4> QED BY <4>1, <4>2
    <3>2. CASE UNCHANGED vars
      BY <3>2 DEF vars
    <3> QED BY <3>1, <3>2 DEF Next, Destroy, Exited
  <2>2. Run => lastRun'.backend = "cpu"
    BY <2>1 DEF Run
  <2> QED BY <2>1, <2>2
<1> QED
  BY <1>1, ApiTypes, PTL DEF Spec, CpuForGood
=============================================================================
