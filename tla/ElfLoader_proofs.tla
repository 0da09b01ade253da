-------------------------- MODULE ElfLoader_proofs ---------------------------
(***************************************************************************)
(* Theorems about ElfLoader for files, RAM and load addresses of any size. *)
(***************************************************************************)
EXTENDS ElfLoader, WellFoundedInduction, TLAPS

\* Multiples of a leave no remainder.
LEMMA MultipleMod ==
  ASSUME NEW a \in Nat \ {0}, NEW d \in Nat
  PROVE  (a * d) % a = 0
OBVIOUS

\* A number less its remainder is a multiple, at most the divisor below it.
LEMMA Rounded ==
  ASSUME NEW x \in Nat, NEW a \in Nat \ {0}
  PROVE  /\ x - (x % a) \in Nat
         /\ x - (x % a) > x - a
         /\ (x - (x % a)) % a = 0
<1>1. x - (x % a) \in Nat /\ x - (x % a) > x - a
  OBVIOUS
<1>2. x \div a \in Nat /\ x - (x % a) = a * (x \div a)
  OBVIOUS
<1> QED BY <1>1, <1>2, MultipleMod

\* Rounding an address up to a multiple of a does that, and loses nothing.
LEMMA AlignUpCorrect ==
  ASSUME NEW v \in Nat, NEW a \in Nat \ {0}
  PROVE  /\ AlignUp(v, a) \in Nat
         /\ AlignUp(v, a) >= v
         /\ AlignUp(v, a) % a = 0
<1>1. PICK x \in Nat : x = v + a - 1
  OBVIOUS
<1>2. AlignUp(v, a) = x - (x % a)
  BY <1>1 DEF AlignUp
<1>3. AlignUp(v, a) \in Nat /\ AlignUp(v, a) > x - a /\ AlignUp(v, a) % a = 0
  BY <1>2, Rounded
<1> QED BY <1>1, <1>3

\* The names of the sections that are placed, in their order.
LEMMA OrderNames ==
  /\ \A j \in 1 .. 4 : Order[j] \in Placed
  /\ \A i, j \in 1 .. 4 : i # j => Order[i] # Order[j]
  /\ \A n \in Placed : \E j \in 1 .. 4 : n = Order[j]
  /\ Placed \subseteq SecName
  /\ "other" \in SecName /\ "other" \notin Placed /\ "undef" \notin Placed
  /\ "abs" \notin Placed
<1>1. Order[1] = ".text" /\ Order[2] = ".rodata" /\ Order[3] = ".data"
        /\ Order[4] = ".bss"
  BY DEF Order
<1>2. \A j \in 1 .. 4 : j = 1 \/ j = 2 \/ j = 3 \/ j = 4
  OBVIOUS
<1>3. \A i, j \in 1 .. 4 : i # j => Order[i] # Order[j]
  BY <1>1, <1>2
<1>4. \A j \in 1 .. 4 : /\ Order[j] \in Placed
                       /\ Order[j] # "other" /\ Order[j] # "undef"
                       /\ Order[j] # "abs"
  BY <1>1, <1>2 DEF Placed
<1> QED BY <1>3, <1>4 DEF Placed, SecName

\* The types of the variables, and which loop the loader is in.
Types ==
  /\ file \in Files
  /\ k \in Nat \ {0}
  /\ cursor \in Nat /\ cursor >= LoadBase
  /\ secAddr \in [SecName -> Nat]
  /\ error \in BOOLEAN
  /\ step = "segments" => file.type # "rel"
  /\ step \in {"place", "relocate"} => file.type = "rel"

\* Which sections have been placed when.
PlacedSoFar ==
  /\ secAddr["other"] = 0
  /\ step = "header" => k = 1
  /\ step \in {"header", "place"} =>
       \A j \in 1 .. 4 : j >= k => secAddr[Order[j]] = 0
  /\ step = "place" =>
       \A j \in 1 .. 4 : j < k /\ Has(Order[j]) => secAddr[Order[j]] # 0
  /\ step = "relocate" => \A n \in Placed : Has(n) => secAddr[n] # 0

\* Where section n ends.
End(n) == secAddr[n] + file.secs[n].size

\* Sections are laid out upwards: each ends before the cursor, and of two one
\* ends before the other begins.
Upwards ==
  ~error =>
    \A n \in Laid :
      /\ secAddr[n] >= LoadBase /\ End(n) <= cursor
      /\ file.secs[n].align > 0 => secAddr[n] % file.secs[n].align = 0
      /\ file.secs[n].size > 0 => End(n) <= RamSize
      /\ \A m \in Laid \ {n} : End(m) <= secAddr[n] \/ End(n) <= secAddr[m]

\* What a file says of a section that it has, of a relocation, and of a symbol.
LEMMA FileTypes ==
  ASSUME file \in Files
  PROVE  /\ \A n \in SecName : Has(n) =>
              /\ file.secs[n].size \in Nat /\ file.secs[n].align \in Nat
              /\ file.secs[n].nobits \in BOOLEAN /\ file.secs[n].off \in Nat
         /\ \A j \in 1 .. Len(file.relas) : file.relas[j] \in Rela
         /\ Len(file.relas) \in Nat
<1>1. FileOk(file)
  BY ElfAssumption
<1>2. \A n \in DOMAIN file.secs : file.secs[n] \in Section
  BY <1>1 DEF FileOk
<1> QED BY <1>1, <1>2 DEF FileOk, Has, Section

\* Where place() puts the next section.
LEMMA NextPlace ==
  ASSUME Types, step = "place", k <= 4, Has(Order[k]),
         NEW s, s = file.secs[Order[k]],
         NEW at, at = AlignUp(cursor, IF s.align = 0 THEN 1 ELSE s.align)
  PROVE  /\ s.size \in Nat /\ s.align \in Nat
         /\ at \in Nat /\ at >= cursor
         /\ s.align > 0 => at % s.align = 0
<1>1. Order[k] \in SecName
  BY OrderNames DEF Types
<1>2. s.size \in Nat /\ s.align \in Nat
  BY <1>1, FileTypes DEF Types
<1> QED BY <1>2, AlignUpCorrect DEF Types

\* Every step keeps the types.
LEMMA TypesStep ==
  ASSUME Types, [Next]_vars
  PROVE  Types'
<1> USE ElfAssumption DEF Types
<1>1. CASE CheckHeader
  BY <1>1 DEF CheckHeader, Fail
<1>2. CASE Place
  <2>1. CASE Has(Order[k])
    <3> DEFINE s == file.secs[Order[k]]
               at == AlignUp(cursor, IF s.align = 0 THEN 1 ELSE s.align)
    <3>1. /\ s.size \in Nat /\ at \in Nat /\ at >= cursor
      BY <1>2, <2>1, NextPlace DEF Place
    <3>2. /\ secAddr' = [secAddr EXCEPT ![Order[k]] = at]
          /\ cursor' \in {at, at + s.size}
          /\ k' = k + 1 /\ UNCHANGED <<file, step, image>>
          /\ error' \in BOOLEAN
      BY <1>2, <2>1 DEF Place
    <3> HIDE DEF s, at
    <3>3. cursor' \in Nat /\ cursor' >= LoadBase
      BY <3>1, <3>2
    <3>4. secAddr' \in [SecName -> Nat]
      BY <3>1, <3>2
    <3> QED BY <1>2, <3>2, <3>3, <3>4 DEF Place
  <2> QED BY <1>2, <2>1 DEF Place
<1>3. CASE EndPlacing
  BY <1>3 DEF EndPlacing
<1>4. CASE ApplyRela
  BY <1>4 DEF ApplyRela
<1>5. CASE FindEntry
  <2>1. step' = "loaded" /\ UNCHANGED <<file, k, cursor, secAddr, error>>
    BY <1>5 DEF FindEntry
  <2> QED BY <2>1
<1>6. CASE LoadSegment
  <2>1. k' = k + 1 /\ UNCHANGED <<file, cursor, secAddr>>
    BY <1>6 DEF LoadSegment
  <2>2. step = "segments" /\ error' \in BOOLEAN
        /\ step' \in {"segments", "failed"}
    BY <1>6 DEF LoadSegment, Fail
  <2> QED BY <2>1, <2>2
<1>7. CASE FindCode
  BY <1>7 DEF FindCode, Fail
<1>8. CASE Finished \/ UNCHANGED vars
  BY <1>8 DEF Finished, vars
<1> QED BY <1>1, <1>2, <1>3, <1>4, <1>5, <1>6, <1>7, <1>8 DEF Next
\* Every step keeps track of the sections placed.
LEMMA PlacedStep ==
  ASSUME Types, PlacedSoFar, [Next]_vars
  PROVE  PlacedSoFar'
<1> USE ElfAssumption DEF Types, PlacedSoFar
<1>1. CASE CheckHeader
  <2>1. UNCHANGED <<file, k, cursor, secAddr>>
        /\ step' \in {"failed", "place", "segments"} /\ step = "header"
    BY <1>1 DEF CheckHeader, Fail
  <2> QED BY <2>1 DEF Has
<1>2. CASE Place
  <2>1. k \in 1 .. 4 /\ k' = k + 1 /\ step = "place" /\ UNCHANGED <<file, step>>
    BY <1>2 DEF Place
  <2>2. CASE Has(Order[k])
    <3>1. PICK at \in Nat : /\ at # 0
                            /\ secAddr' = [secAddr EXCEPT ![Order[k]] = at]
      BY <1>2, <2>2, NextPlace DEF Place
    <3>2. Order[k] \in SecName /\ Order[k] # "other" /\ "other" \in SecName
      BY <2>1, OrderNames
    <3>3. secAddr'[Order[k]] = at
      BY <3>1, <3>2
    <3>4. \A j \in 1 .. 4 : j # k => secAddr'[Order[j]] = secAddr[Order[j]]
      BY <2>1, <3>1, OrderNames
    <3>5. secAddr'["other"] = 0
      BY <3>1, <3>2
    <3>6. \A j \in 1 .. 4 : j < k + 1 /\ Has(Order[j]) => secAddr'[Order[j]] # 0
      BY <2>1, <3>1, <3>3, <3>4
    <3>7. \A j \in 1 .. 4 : j >= k + 1 => secAddr'[Order[j]] = 0
      BY <2>1, <3>4
    <3> QED BY <2>1, <3>5, <3>6, <3>7 DEF Has
  <2>3. CASE ~Has(Order[k])
    <3>1. UNCHANGED <<secAddr, cursor>>
      BY <1>2, <2>3 DEF Place
    <3> QED BY <2>1, <2>3, <3>1 DEF Has
  <2> QED BY <2>2, <2>3
<1>3. CASE EndPlacing
  <2>1. /\ step = "place" /\ k > 4 /\ UNCHANGED <<file, cursor, secAddr>>
        /\ step' \in {"failed", "relocate"}
    BY <1>3 DEF EndPlacing
  <2>2. \A n \in Placed : Has(n) => secAddr[n] # 0
    BY <2>1, OrderNames
  <2> QED BY <2>1, <2>2 DEF Has
<1>4. CASE ApplyRela
  BY <1>4 DEF ApplyRela, Has
<1>5. CASE FindEntry
  <2>1. step' = "loaded" /\ UNCHANGED <<file, k, cursor, secAddr, error>>
    BY <1>5 DEF FindEntry
  <2> QED BY <2>1 DEF Has
<1>6. CASE LoadSegment
  <2>1. /\ UNCHANGED <<file, cursor, secAddr>>
        /\ step = "segments" /\ step' \in {"segments", "failed"}
    BY <1>6 DEF LoadSegment, Fail
  <2> QED BY <2>1 DEF Has
<1>7. CASE FindCode
  <2>1. UNCHANGED <<file, cursor, secAddr>> /\ step' \in {"loaded", "failed"}
    BY <1>7 DEF FindCode, Fail
  <2> QED BY <2>1 DEF Has
<1>8. CASE Finished \/ UNCHANGED vars
  BY <1>8 DEF Finished, vars, Has
<1> QED BY <1>1, <1>2, <1>3, <1>4, <1>5, <1>6, <1>7, <1>8 DEF Next

\* Placing the next section adds one that lies behind those there are.
LEMMA PlaceUpwards ==
  ASSUME Types, Upwards, Place, ~error'
  PROVE  Upwards'
<1> USE ElfAssumption DEF Types
<1>1. k \in 1 .. 4 /\ step = "place" /\ UNCHANGED file /\ ~error
  BY DEF Place
<1>2. CASE ~Has(Order[k])
  BY <1>1, <1>2 DEF Place, Upwards, Laid, End, Has
<1>3. CASE Has(Order[k])
  <2>0. PICK nn : nn = Order[k]
    OBVIOUS
  <2> DEFINE s == file.secs[Order[k]]
             at == AlignUp(cursor, IF s.align = 0 THEN 1 ELSE s.align)
  <2>1. /\ s.size \in Nat /\ s.align \in Nat /\ at \in Nat /\ at >= cursor
        /\ s.align > 0 => at % s.align = 0
    BY <1>1, <1>3, NextPlace
  <2>2. /\ secAddr' = [secAddr EXCEPT ![Order[k]] = at]
        /\ cursor' = at + s.size
        /\ s.size > 0 => at + s.size <= RamSize
    <3>1. /\ secAddr' = [secAddr EXCEPT ![Order[k]] = at]
          /\ cursor' = IF at + s.size <= RamSize /\ (s.nobits \/ s.off + s.size <= file.len)
                       THEN at + s.size ELSE at
          /\ ~(s.size > 0 /\ ~(at + s.size <= RamSize /\ (s.nobits \/ s.off + s.size <= file.len)))
      BY <1>1, <1>3 DEF Place
    <3> QED BY <2>1, <3>1
  <2>3. nn \in Placed /\ nn \in SecName
    BY <1>1, <2>0, OrderNames
  <2> HIDE DEF s, at
  <2>4. secAddr'[nn] = at /\ \A m \in Placed : m # nn => secAddr'[m] = secAddr[m]
    BY <2>0, <2>2, <2>3, OrderNames
  <2>5. End(nn)' = at + s.size
    BY <1>1, <2>0, <2>4 DEF End, s
  <2>6. ASSUME NEW m \in Laid', m # nn
        PROVE  m \in Laid /\ End(m)' = End(m) /\ End(m) \in Nat
    <3>1. m \in Placed /\ m \in SecName /\ Has(m) /\ secAddr'[m] # 0
      BY <1>1, OrderNames DEF Laid, Has
    <3>2. secAddr'[m] = secAddr[m]
      BY <2>4, <2>6, <3>1
    <3> QED BY <1>1, <3>1, <3>2, FileTypes DEF Laid, End
  <2>7. ASSUME NEW n \in Laid', n # nn
        PROVE  /\ secAddr'[n] >= LoadBase /\ End(n)' <= cursor
               /\ file.secs[n].align > 0 => secAddr'[n] % file.secs[n].align = 0
               /\ file.secs[n].size > 0 => End(n)' <= RamSize
    <3>1. n \in Laid /\ secAddr'[n] = secAddr[n] /\ End(n)' = End(n)
      BY <2>4, <2>6, <2>7 DEF Laid
    <3> QED BY <1>1, <3>1 DEF Upwards
  <2>8. ASSUME NEW n \in Laid', NEW m \in Laid', n # m
        PROVE  End(m)' <= secAddr'[n] \/ End(n)' <= secAddr'[m]
    <3>1. CASE n = nn
      BY <2>1, <2>4, <2>6, <2>7, <2>8, <3>1
    <3>2. CASE m = nn
      BY <2>1, <2>4, <2>6, <2>7, <2>8, <3>2
    <3>3. CASE n # nn /\ m # nn
      BY <1>1, <2>4, <2>6, <2>8, <3>3 DEF Upwards, Laid
    <3> QED BY <3>1, <3>2, <3>3
  <2>9. \A n \in Laid' : n # nn => End(n)' <= cursor'
    BY <2>1, <2>2, <2>6, <2>7
  <2>10. ASSUME NEW n \in Laid'
         PROVE  /\ secAddr'[n] >= LoadBase /\ End(n)' <= cursor'
                /\ file.secs[n].align > 0 => secAddr'[n] % file.secs[n].align = 0
                /\ file.secs[n].size > 0 => End(n)' <= RamSize
    <3>1. CASE n = nn
      <4>1. file.secs[n].align = s.align /\ file.secs[n].size = s.size
        BY <2>0, <3>1 DEF s
      <4>2. secAddr'[n] = at /\ End(n)' = at + s.size /\ cursor' = at + s.size
        BY <2>2, <2>4, <2>5, <3>1
      <4> QED BY <2>1, <2>2, <4>1, <4>2
    <3>2. CASE n # nn
      BY <2>7, <2>9, <3>2
    <3> QED BY <3>1, <3>2
  <2> QED BY <1>1, <2>8, <2>10 DEF Upwards
<1> QED BY <1>2, <1>3

\* Every step lays sections out upwards.
LEMMA UpwardsStep ==
  ASSUME Types, Upwards, [Next]_vars
  PROVE  Upwards'
<1> SUFFICES ASSUME ~error' PROVE Upwards'
  BY DEF Upwards
<1>1. CASE Place
  BY <1>1, PlaceUpwards
<1>2. CASE ~Place
  <2>1. UNCHANGED <<file, cursor, secAddr>>
    BY <1>2 DEF Next, vars, CheckHeader, EndPlacing, ApplyRela, FindEntry,
                LoadSegment, FindCode, Finished
  <2>2. ~error
    BY <1>2 DEF Next, vars, CheckHeader, EndPlacing, ApplyRela, FindEntry,
                LoadSegment, FindCode, Finished, Fail
  <2> QED BY <2>1, <2>2 DEF Upwards, Laid, End, Has
<1> QED BY <1>1, <1>2

\* The words place() writes are those of the section it places.
LEMMA PlaceWrites ==
  ASSUME Types, PlacedSoFar, WritesStayInSections, Place,
         file.type = "rel", Assembled(file),
         NEW a \in Ram, a >= LoadBase, ram'[a] # Before
  PROVE  \E n \in Laid' : a \in Extent(n)'
<1> USE ElfAssumption DEF Types
<1>1. k \in 1 .. 4 /\ step = "place" /\ UNCHANGED file
  BY DEF Place
<1>2. CASE ram'[a] # ram[a]
  <2>1. Has(Order[k]) /\ Order[k] \in Placed /\ Order[k] \in SecName
    BY <1>1, <1>2, OrderNames DEF Place
  <2>2. PICK nn : nn = Order[k]
    OBVIOUS
  <2> DEFINE s == file.secs[Order[k]]
             at == AlignUp(cursor, IF s.align = 0 THEN 1 ELSE s.align)
  <2>3. at \in Nat /\ at >= cursor
    BY <1>1, <2>1, NextPlace
  <2>4. secAddr' = [secAddr EXCEPT ![Order[k]] = at]
    BY <2>1 DEF Place
  <2>5. ram' \in {ram, Copied(ram, at, s.off, s.size), Cleared(ram, at, s.size)}
    BY <2>1 DEF Place
  <2>6. a \in Words(at, s.size)
    BY <1>2, <2>5 DEF Copied, Cleared
  <2>7. secAddr'[nn] = at /\ at # 0
    BY <2>1, <2>2, <2>3, <2>4
  <2>8. nn \in Laid'
    BY <1>1, <2>1, <2>2, <2>7 DEF Laid, Has
  <2>9. Extent(nn)' = Words(at, s.size)
    BY <1>1, <2>2, <2>7 DEF Extent
  <2> QED BY <2>6, <2>8, <2>9
<1>3. CASE ram'[a] = ram[a]
  <2>1. PICK n \in Laid : a \in Extent(n)
    BY <1>3 DEF WritesStayInSections
  <2>2. secAddr[Order[k]] = 0
    BY <1>1 DEF PlacedSoFar
  <2>3. n # Order[k] /\ n \in SecName
    BY <2>1, <2>2, OrderNames DEF Laid
  <2>4. secAddr'[n] = secAddr[n]
    BY <2>3 DEF Place
  <2> QED BY <1>1, <2>1, <2>4 DEF Laid, Has, Extent
<1> QED BY <1>2, <1>3

\* What apply_rela writes above load_base lies in a section that was placed.
LEMMA RelaWrites ==
  ASSUME Types, PlacedSoFar, WritesStayInSections, ApplyRela,
         file.type = "rel", Assembled(file),
         NEW a \in Ram, a >= LoadBase, ram'[a] # Before
  PROVE  \E n \in Laid : a \in Extent(n)
<1> USE ElfAssumption DEF Types
<1>1. CASE ram'[a] = ram[a]
  BY <1>1 DEF WritesStayInSections
<1>2. CASE ram'[a] # ram[a]
  <2> DEFINE r == file.relas[k]
             at == secAddr[r.target] + r.offset
             v == SymValue(r.sym) + r.addend - Base(r, at)
  <2>1. k \in 1 .. Len(file.relas) /\ step = "relocate"
    BY FileTypes DEF ApplyRela
  <2>2. ram' \in {ram, Patched(at, v, Width(r))}
    BY DEF ApplyRela
  <2>3. r \in Rela /\ k \in DOMAIN file.relas
    BY <2>1, FileTypes, ElfAssumption DEF FileOk
  <2>4. /\ r.target \in SecName /\ r.offset \in Nat /\ r.type \in RelType
        /\ r.target \in DOMAIN file.secs
        /\ r.offset + Width(r) <= file.secs[r.target].size
        /\ r.target \notin Placed => r.offset + 2 <= LoadBase
    BY <2>3 DEF Rela, Assembled
  <2>5. Width(r) \in 1 .. 2
    BY DEF Width
  <2>6. /\ a = at \/ (a = at + 1 /\ Width(r) = 2)
        /\ at \in Nat
    BY <1>2, <2>2, <2>4 DEF Patched
  <2>7. file.secs[r.target].size \in Nat
    BY <2>4, FileTypes DEF Has
  <2> HIDE DEF v
  <2>8. CASE r.target \in Placed
    <3>1. r.target \in Laid
      BY <2>1, <2>4, <2>8 DEF PlacedSoFar, Laid, Has
    <3>2. secAddr[r.target] \in Nat
      BY <2>4
    <3>3. a \in Extent(r.target)
      BY <2>4, <2>5, <2>6, <2>7, <3>2 DEF Extent, Words
    <3> QED BY <3>1, <3>3
  <2>9. CASE r.target \notin Placed
    <3>1. r.target = "other"
      BY <2>4, <2>9 DEF SecName
    <3>2. at = r.offset
      BY <2>4, <3>1 DEF PlacedSoFar
    <3> QED BY <2>4, <2>6, <2>9, <3>2
  <2> QED BY <2>8, <2>9
<1> QED BY <1>1, <1>2

\* Every step writes only to sections that are placed.
LEMMA WritesStep ==
  ASSUME Types, PlacedSoFar, WritesStayInSections, [Next]_vars
  PROVE  WritesStayInSections'
<1>0. UNCHANGED file
  BY DEF Next, vars, CheckHeader, Place, EndPlacing, ApplyRela, FindEntry,
         LoadSegment, FindCode, Finished
<1> SUFFICES ASSUME file.type = "rel", Assembled(file),
                    NEW a \in Ram, a >= LoadBase, ram'[a] # Before
             PROVE  \E n \in Laid' : a \in Extent(n)'
  BY <1>0 DEF WritesStayInSections, Assembled, Ram
<1>1. CASE Place
  BY <1>1, PlaceWrites
<1>2. CASE ApplyRela
  <2>1. PICK n \in Laid : a \in Extent(n)
    BY <1>2, RelaWrites
  <2>2. UNCHANGED secAddr
    BY <1>2 DEF ApplyRela
  <2> QED BY <1>0, <2>1, <2>2 DEF Laid, Has, Extent
<1>3. CASE ~Place /\ ~ApplyRela
  <2>1. UNCHANGED <<secAddr, ram>>
    BY <1>3 DEF Types, Next, vars, CheckHeader, EndPlacing, FindEntry,
                LoadSegment, FindCode, Finished
  <2>2. PICK n \in Laid : a \in Extent(n)
    BY <2>1 DEF WritesStayInSections
  <2> QED BY <1>0, <2>1, <2>2 DEF Laid, Has, Extent
<1> QED BY <1>1, <1>2, <1>3

\* The invariant holds at first.
LEMMA InvInit == Init => Types /\ PlacedSoFar /\ Upwards /\ WritesStayInSections
<1> SUFFICES ASSUME Init
             PROVE  Types /\ PlacedSoFar /\ Upwards /\ WritesStayInSections
  OBVIOUS
<1>1. secAddr \in [SecName -> Nat] /\ \A n \in SecName : secAddr[n] = 0
  BY DEF Init
<1>2. Laid = {}
  BY <1>1, OrderNames DEF Laid
<1>3. Types
  <2>1. cursor \in Nat /\ cursor >= LoadBase
    BY ElfAssumption DEF Init
  <2>2. k \in Nat \ {0}
    BY DEF Init
  <2> QED BY <1>1, <2>1, <2>2 DEF Init, Types
<1>4. PlacedSoFar
  BY <1>1, OrderNames DEF Init, PlacedSoFar
<1>5. \A a \in Ram : ram[a] = Before
  BY DEF Init
<1>6. WritesStayInSections
  BY <1>5 DEF WritesStayInSections
<1> QED BY <1>2, <1>3, <1>4, <1>6 DEF Upwards

\* The invariant holds throughout.
THEOREM LayoutInvariant ==
  Spec => [](Types /\ PlacedSoFar /\ Upwards /\ WritesStayInSections)
<1> DEFINE Inv == Types /\ PlacedSoFar /\ Upwards /\ WritesStayInSections
<1>1. Init => Inv
  BY InvInit
<1>2. Inv /\ [Next]_vars => Inv'
  BY TypesStep, PlacedStep, UpwardsStep, WritesStep
<1> QED BY <1>1, <1>2, PTL DEF Spec

\* What the invariant says of two sections: their words are apart.
LEMMA UpwardsFit ==
  ASSUME Types, Upwards
  PROVE  SectionsFit
<1> SUFFICES ASSUME ~error, NEW n \in Laid
             PROVE  /\ file.secs[n].align > 0 => secAddr[n] % file.secs[n].align = 0
                    /\ Extent(n) \subseteq LoadBase .. RamSize - 1
                    /\ \A m \in Laid \ {n} : Extent(m) \cap Extent(n) = {}
  BY DEF SectionsFit
<1> USE ElfAssumption DEF Types
<1>1. \A m \in Laid : /\ secAddr[m] \in Nat /\ file.secs[m].size \in Nat
                     /\ End(m) = secAddr[m] + file.secs[m].size
  BY FileTypes, OrderNames DEF Laid, End
<1>2. file.secs[n].align > 0 => secAddr[n] % file.secs[n].align = 0
  BY DEF Upwards
<1>3. Extent(n) \subseteq LoadBase .. RamSize - 1
  BY <1>1 DEF Upwards, Extent, Words
<1>4. ASSUME NEW m \in Laid \ {n} PROVE Extent(m) \cap Extent(n) = {}
  <2>1. End(m) <= secAddr[n] \/ End(n) <= secAddr[m]
    BY DEF Upwards
  <2> QED BY <1>1, <2>1 DEF Extent, Words
<1> QED BY <1>2, <1>3, <1>4

\* Objects of any layout: the sections placed are aligned, in RAM, and apart.
THEOREM LayoutFits == Spec => []SectionsFit
BY LayoutInvariant, UpwardsFit, PTL

\* Objects of any layout: no word outside the sections placed is written.
THEOREM NothingElseWritten == Spec => []WritesStayInSections
BY LayoutInvariant, PTL

-----------------------------------------------------------------------------
(* What is loaded.                                                         *)

\* The largest element of a set is the one that no other exceeds.
LEMMA MaxIs ==
  ASSUME NEW S \in SUBSET Int, NEW m \in S, \A y \in S : m >= y
  PROVE  Max(S) = m
<1>1. Max(S) \in S /\ \A y \in S : Max(S) >= y
  BY Zenon DEF Max
<1>2. PICK x \in Int : x = Max(S)
  BY <1>1
<1>3. x >= m /\ m >= x /\ m \in Int
  BY <1>1, <1>2
<1> QED BY <1>2, <1>3

\* The words of a section placed lie in RAM, from load_base on, and in no other
\* section.
LEMMA WordPlace ==
  ASSUME Types, Upwards, ~error, NEW n \in Laid,
         NEW o \in 0 .. file.secs[n].size - 1
  PROVE  /\ secAddr[n] \in Nat /\ file.secs[n].size \in Nat /\ o \in Nat
         /\ secAddr[n] + o \in Ram
         /\ secAddr[n] + o >= LoadBase /\ secAddr[n] + o < cursor
         /\ \A m \in Laid \ {n} : secAddr[n] + o \notin Extent(m)
<1> USE ElfAssumption DEF Types
<1>1. \A m \in Laid : /\ secAddr[m] \in Nat /\ file.secs[m].size \in Nat
                     /\ End(m) = secAddr[m] + file.secs[m].size
  BY FileTypes, OrderNames DEF Laid, End
<1>2. o \in Nat /\ file.secs[n].size > 0 /\ secAddr[n] + o < End(n)
  BY <1>1
<1>3. secAddr[n] >= LoadBase /\ End(n) <= cursor /\ End(n) <= RamSize
  BY <1>2 DEF Upwards
<1>4. secAddr[n] + o \in Ram
  BY <1>1, <1>2, <1>3 DEF Ram
<1>5. ASSUME NEW m \in Laid \ {n} PROVE secAddr[n] + o \notin Extent(m)
  <2>1. End(m) <= secAddr[n] \/ End(n) <= secAddr[m]
    BY DEF Upwards
  <2> QED BY <1>1, <1>2, <2>1 DEF Extent, Words
<1> QED BY <1>1, <1>2, <1>3, <1>4, <1>5

\* While sections are being placed, those that are hold what the file does.
PlacedWords ==
  step = "place" /\ ~error =>
    \A n \in Laid : \A o \in 0 .. file.secs[n].size - 1 :
      ram[secAddr[n] + o] = Held(n, o)

\* Placing a section fills it and leaves those before it alone.
LEMMA PlaceFills ==
  ASSUME Types, PlacedSoFar, Upwards, PlacedWords, Place
  PROVE  PlacedWords'
<1> USE ElfAssumption DEF Types
<1> SUFFICES ASSUME ~error', NEW n \in Laid',
                    NEW o \in 0 .. file.secs[n].size - 1
             PROVE  ram'[secAddr'[n] + o] = Held(n, o)
  BY DEF PlacedWords, Held, Place
<1>1. k \in 1 .. 4 /\ step = "place" /\ UNCHANGED file /\ ~error
  BY DEF Place
<1>2. n \in Placed /\ n \in SecName /\ Has(n) /\ secAddr'[n] # 0
  BY <1>1, OrderNames DEF Laid, Has
<1>3. PICK nn : nn = Order[k]
  OBVIOUS
<1>4. nn \in Placed /\ nn \in SecName /\ secAddr[nn] = 0
  BY <1>1, <1>3, OrderNames DEF PlacedSoFar
<1>5. CASE ~Has(nn)
  <2>1. UNCHANGED <<secAddr, ram>>
    BY <1>3, <1>5 DEF Place
  <2> QED BY <1>1, <1>2, <2>1 DEF PlacedWords, Laid
<1>6. CASE Has(nn)
  <2> DEFINE s == file.secs[Order[k]]
             at == AlignUp(cursor, IF s.align = 0 THEN 1 ELSE s.align)
  <2>1. s.size \in Nat /\ at \in Nat /\ at >= cursor
    BY <1>1, <1>3, <1>6, NextPlace
  <2>2. secAddr' = [secAddr EXCEPT ![nn] = at]
    BY <1>3, <1>6 DEF Place
  <2>3. s.size > 0 => at + s.size <= RamSize /\ (s.nobits \/ s.off + s.size <= file.len)
    BY <1>1, <1>3, <1>6 DEF Place
  <2>4. s.size > 0 => ram' = IF ~s.nobits THEN Copied(ram, at, s.off, s.size)
                             ELSE Cleared(ram, at, s.size)
    BY <1>1, <1>3, <1>6, <2>3 DEF Place
  <2>5. s.size = 0 => ram' = ram
    BY <1>1, <1>3, <1>6 DEF Place
  <2>6. s = file.secs[nn] /\ s.off \in Nat /\ s.nobits \in BOOLEAN
    BY <1>3, <1>4, <1>6, FileTypes
  <2> HIDE DEF s, at
  <2>7. CASE n = nn
    <3>1. o \in Nat /\ o < s.size /\ s.size > 0 /\ secAddr'[n] = at
      BY <1>4, <2>1, <2>2, <2>6, <2>7
    <3>2. at + o \in Ram /\ at + o \in Words(at, s.size)
      BY <2>1, <2>3, <3>1 DEF Ram, Words
    <3>3. s.off + (at + o) - at = s.off + o
      BY <2>1, <2>6, <3>1
    <3>4. ram'[at + o] = IF s.nobits THEN 0 ELSE FileWord(s.off + o)
      BY <2>4, <3>1, <3>2, <3>3 DEF Copied, Cleared
    <3> QED BY <2>6, <2>7, <3>1, <3>4 DEF Held
  <2>8. CASE n # nn
    <3>1. secAddr'[n] = secAddr[n] /\ n \in Laid
      BY <1>2, <1>4, <2>2, <2>8 DEF Laid
    <3>2. PICK a : a = secAddr[n] + o
      OBVIOUS
    <3>3. a \in Ram /\ a < cursor /\ a \in Nat
      BY <1>1, <3>1, <3>2, WordPlace DEF Ram
    <3>4. a \notin Words(at, s.size)
      BY <2>1, <3>3 DEF Words
    <3>5. ram'[a] = ram[a]
      BY <2>1, <2>4, <2>5, <3>3, <3>4 DEF Copied, Cleared
    <3> QED BY <1>1, <3>1, <3>2, <3>5 DEF PlacedWords
  <2> QED BY <2>7, <2>8
<1> QED BY <1>5, <1>6

\* The words a relocation is about are its section's, or lie below load_base.
LEMMA RelaPlace ==
  ASSUME Types, PlacedSoFar, step = "relocate", Assembled(file),
         NEW j \in 1 .. Len(file.relas), NEW r, r = file.relas[j],
         NEW at, at = secAddr[r.target] + r.offset
  PROVE  /\ r \in Rela /\ j \in DOMAIN file.relas
         /\ secAddr[r.target] \in Nat /\ r.offset \in Nat /\ at \in Nat
         /\ Width(r) \in 1 .. 2
         /\ \/ r.target \in Laid /\ Words(at, Width(r)) \subseteq Extent(r.target)
            \/ r.target \notin Placed /\ at + Width(r) <= LoadBase
<1> USE ElfAssumption DEF Types
<1>1. r \in Rela /\ j \in DOMAIN file.relas
  BY FileTypes, ElfAssumption DEF FileOk
<1>2. /\ r.target \in SecName /\ r.offset \in Nat /\ r.type \in RelType
      /\ r.target \in DOMAIN file.secs
      /\ r.offset + Width(r) <= file.secs[r.target].size
      /\ r.target \notin Placed => r.offset + 2 <= LoadBase
  BY <1>1 DEF Rela, Assembled
<1>3. Width(r) \in 1 .. 2
  BY DEF Width
<1>4. file.secs[r.target].size \in Nat
  BY <1>2, FileTypes DEF Has
<1>5. secAddr[r.target] \in Nat /\ at \in Nat
  BY <1>2
<1>6. CASE r.target \in Placed
  <2>1. r.target \in Laid
    BY <1>2, <1>6 DEF PlacedSoFar, Laid, Has
  <2>2. ASSUME NEW a \in Words(at, Width(r)) PROVE a \in Extent(r.target)
    <3>1. PICK w \in 1 .. 2, p \in Nat, z \in Nat, o \in Nat :
            /\ w = Width(r) /\ p = secAddr[r.target]
            /\ z = file.secs[r.target].size /\ o = r.offset
      BY <1>2, <1>3, <1>4, <1>5
    <3>2. o + w <= z /\ at = p + o
      BY <1>2, <3>1
    <3>3. a \in at .. at + w - 1
      BY <3>1 DEF Words
    <3>4. a \in p .. p + z - 1
      BY <3>2, <3>3
    <3> QED BY <3>1, <3>4 DEF Extent, Words
  <2> QED BY <1>1, <1>2, <1>3, <1>5, <2>1, <2>2
<1>7. CASE r.target \notin Placed
  <2>1. r.target = "other"
    BY <1>2, <1>7 DEF SecName
  <2>2. at = r.offset
    BY <1>2, <2>1 DEF PlacedSoFar
  <2> QED BY <1>1, <1>2, <1>3, <1>5, <1>7, <2>2
<1> QED BY <1>6, <1>7

\* While relocations are applied, every section holds what those before the
\* next one make of it, where the last of them can be linked.
LinkedSoFar ==
  step = "relocate" /\ Assembled(file) =>
    \A n \in Laid : \A o \in 0 .. file.secs[n].size - 1 :
      LastLinks(n, o, k - 1) => ram[secAddr[n] + o] = WordAfter(n, o, k - 1)

\* No relocation stores to a word before the first.
LEMMA NoneYet ==
  ASSUME NEW n, NEW o
  PROVE  WordAfter(n, o, 0) = Held(n, o)
<1>1. Covers(n, o, 0) = {}
  BY DEF Covers
<1> QED BY <1>1 DEF WordAfter

\* The next relocation is the last that stores to a word, if it does so at all.
LEMMA CoversNext ==
  ASSUME NEW n, NEW o, NEW m \in Nat \ {0}
  PROVE  /\ m \in Covers(n, o, m) => Max(Covers(n, o, m)) = m
         /\ m \notin Covers(n, o, m) => Covers(n, o, m) = Covers(n, o, m - 1)
<1>1. ASSUME m \in Covers(n, o, m) PROVE Max(Covers(n, o, m)) = m
  <2>1. Covers(n, o, m) \in SUBSET Int /\ \A y \in Covers(n, o, m) : m >= y
    BY DEF Covers
  <2> QED BY <1>1, <2>1, MaxIs
<1>2. ASSUME m \notin Covers(n, o, m) PROVE Covers(n, o, m) = Covers(n, o, m - 1)
  <2>1. Covers(n, o, m) \subseteq 1 .. m /\ Covers(n, o, m - 1) \subseteq 1 .. m - 1
    BY DEF Covers
  <2>2. \A j \in 1 .. m - 1 : j \in Covers(n, o, m) <=> j \in Covers(n, o, m - 1)
    BY DEF Covers
  <2>3. \A j \in 1 .. m : j # m => j \in 1 .. m - 1
    OBVIOUS
  <2> QED BY <1>2, <2>1, <2>2, <2>3
<1> QED BY <1>1, <1>2

\* A symbol in a section placed has the address a linker gives it.
LEMMA SymbolAddress ==
  ASSUME Types, NEW i \in DOMAIN file.syms,
         file.syms[i].sec \in Placed \union {"abs"}
  PROVE  /\ SymValue(i) = SymAddr(file.syms[i])
         /\ file.syms[i].value \in Nat
<1>1. file.syms \in Seq(Symbol)
  BY ElfAssumption DEF Types, FileOk
<1>2. file.syms[i] \in Symbol
  BY <1>1
<1>3. PICK y \in Symbol : y = file.syms[i]
  BY <1>2
<1>4. y.sec # "undef" /\ y.value \in Nat /\ y.sec \in Placed \union {"abs"}
  <2>1. y.sec \in Placed \union {"abs"}
    BY <1>3
  <2>2. y.sec # "undef"
    BY <2>1, OrderNames
  <2> QED BY <2>1, <2>2 DEF Symbol
<1>5. y.sec # "abs" => secAddr[y.sec] \in Nat
  BY <1>4, OrderNames DEF Types
<1>6. SymValue(i) = y.value + (IF y.sec = "abs" THEN 0 ELSE secAddr[y.sec])
  BY <1>3, <1>4 DEF SymValue
<1> QED BY <1>3, <1>4, <1>5, <1>6 DEF SymAddr

\* Where the loop over the relocations is; nothing has failed before it.
Relocating ==
  step = "relocate" => ~error /\ k <= Len(file.relas) + 1

\* One relocation makes of its words what a linker does, and leaves the others.
LEMMA RelaLinks ==
  ASSUME Types, PlacedSoFar, Upwards, Relocating, LinkedSoFar, ApplyRela
  PROVE  LinkedSoFar'
<1> USE ElfAssumption DEF Types
<1>0. step = "relocate" /\ UNCHANGED <<file, step, secAddr, error>> /\ k' = k + 1
      /\ k \in 1 .. Len(file.relas) /\ ~error
  BY FileTypes DEF ApplyRela, Relocating
<1> SUFFICES ASSUME Assembled(file), NEW n \in Laid,
                    NEW o \in 0 .. file.secs[n].size - 1, LastLinks(n, o, k)
             PROVE  ram'[secAddr[n] + o] = WordAfter(n, o, k)
  <2>1. k' - 1 = k
    BY <1>0
  <2>2. UNCHANGED <<Assembled(file), Laid>>
    BY <1>0 DEF Assembled, Laid, Has
  <2>3. \A n, o : WordAfter(n, o, k - 1)' = WordAfter(n, o, k)
    <3> TAKE n, o
    <3>1. Covers(n, o, k - 1)' = Covers(n, o, k)
      BY <1>0, <2>1 DEF Covers
    <3>2. Held(n, o)' = Held(n, o)
      BY <1>0 DEF Held
    <3>3. Max(Covers(n, o, k - 1))' = Max(Covers(n, o, k))
      BY <3>1
    <3>4. PICK c : c = Max(Covers(n, o, k))
      OBVIOUS
    <3> QED BY <1>0, <3>1, <3>2, <3>3, <3>4 DEF WordAfter, SymAddr
  <2>4. \A n, o : LastLinks(n, o, k - 1)' <=> LastLinks(n, o, k)
    <3> TAKE n, o
    <3>1. Covers(n, o, k - 1)' = Covers(n, o, k)
      BY <1>0, <2>1 DEF Covers
    <3>2. Max(Covers(n, o, k - 1))' = Max(Covers(n, o, k))
      BY <3>1
    <3>3. PICK c : c = Max(Covers(n, o, k))
      OBVIOUS
    <3> QED BY <1>0, <3>1, <3>2, <3>3 DEF LastLinks, Linkable
  <2> QED BY <1>0, <2>1, <2>2, <2>3, <2>4 DEF LinkedSoFar
<1> DEFINE r  == file.relas[k]
           at == secAddr[r.target] + r.offset
           v  == SymValue(r.sym) + r.addend - Base(r, at)
<1>1. ram' = IF at + 2 > RamSize \/ r.type = "PLT32" THEN ram
             ELSE Patched(at, v, Width(r))
  BY DEF ApplyRela
<1>2. /\ r \in Rela /\ k \in DOMAIN file.relas
      /\ secAddr[r.target] \in Nat /\ r.offset \in Nat /\ at \in Nat
      /\ Width(r) \in 1 .. 2
      /\ \/ r.target \in Laid /\ Words(at, Width(r)) \subseteq Extent(r.target)
         \/ r.target \notin Placed /\ at + Width(r) <= LoadBase
  BY <1>0, RelaPlace
<1>3. /\ secAddr[n] \in Nat /\ file.secs[n].size \in Nat /\ o \in Nat
      /\ secAddr[n] + o \in Ram /\ secAddr[n] + o >= LoadBase
      /\ \A m \in Laid \ {n} : secAddr[n] + o \notin Extent(m)
  BY <1>0, WordPlace
<1>4. k \in Covers(n, o, k) <=> r.target = n /\ o \in Words(r.offset, Width(r))
  BY <1>0 DEF Covers
<1>5. CASE k \in Covers(n, o, k)
  <2>1. r.target = n /\ n \in Placed /\ o \in Words(r.offset, Width(r))
    BY <1>4, <1>5 DEF Laid
  <2>2. /\ r.type # "PLT32" /\ r.sym \in DOMAIN file.syms
        /\ file.syms[r.sym].sec \in Placed \union {"abs"}
        /\ at + 2 <= RamSize
    <3>1. Max(Covers(n, o, k)) = k /\ Covers(n, o, k) # {}
      BY <1>0, <1>5, CoversNext
    <3>2. Linkable(k)
      BY <3>1 DEF LastLinks
    <3> QED BY <3>2 DEF Linkable
  <2>3. ram' = Patched(at, v, Width(r))
    BY <1>1, <1>2, <2>2, ElfAssumption
  <2>4. SymValue(r.sym) = SymAddr(file.syms[r.sym])
    BY <2>2, SymbolAddress
  <2>5. WordAfter(n, o, k) = IF o = r.offset THEN v ELSE High(v)
    <3>1. Max(Covers(n, o, k)) = k /\ Covers(n, o, k) # {}
      BY <1>0, <1>5, CoversNext
    <3> QED BY <2>1, <2>4, <3>1 DEF WordAfter
  <2> HIDE DEF v
  <2>6. o = r.offset \/ (o = r.offset + 1 /\ Width(r) = 2)
    BY <1>2, <1>3, <2>1 DEF Words
  <2>7. PICK a \in Ram : a = secAddr[n] + o
    BY <1>3
  <2>8. IF o = r.offset THEN a = at ELSE a = at + 1 /\ Width(r) = 2
    BY <1>2, <1>3, <2>1, <2>6, <2>7
  <2>9. a = at <=> o = r.offset
    BY <1>2, <2>8
  <2>10. at \in Nat /\ at # at + 1
    BY <1>2
  <2> HIDE DEF at
  <2>11. Patched(at, v, Width(r))[a] = IF a = at THEN v ELSE High(v)
    <3>1. CASE a = at
      BY <2>10, <3>1 DEF Patched
    <3>2. CASE a # at
      <4>1. a = at + 1 /\ Width(r) = 2
        BY <2>8, <2>9, <3>2
      <4> QED BY <3>2, <4>1 DEF Patched
    <3> QED BY <3>1, <3>2
  <2> QED BY <2>3, <2>5, <2>7, <2>9, <2>11
<1>6. CASE k \notin Covers(n, o, k)
  <2>1. WordAfter(n, o, k) = WordAfter(n, o, k - 1)
    BY <1>0, <1>6, CoversNext DEF WordAfter
  <2>2. PICK a \in Ram : a = secAddr[n] + o
    BY <1>3
  <2>3. a \notin Words(at, Width(r))
    <3>1. CASE r.target = n
      <4>1. o \notin Words(r.offset, Width(r))
        BY <1>4, <1>6, <3>1
      <4>2. PICK w \in 1 .. 2, p \in Nat, q \in Nat :
              w = Width(r) /\ p = secAddr[n] /\ q = r.offset
        BY <1>2, <1>3
      <4>3. at = p + q /\ a = p + o /\ o \notin q .. q + w - 1
        BY <2>2, <3>1, <4>1, <4>2 DEF Words
      <4>4. a \notin at .. at + w - 1
        BY <1>3, <4>2, <4>3
      <4> QED BY <4>2, <4>4 DEF Words
    <3>2. CASE r.target \in Laid /\ r.target # n
      BY <1>2, <1>3, <2>2, <3>2 DEF Laid
    <3>3. CASE r.target \notin Laid
      <4>1. at + Width(r) <= LoadBase /\ a >= LoadBase
        BY <1>2, <1>3, <2>2, <3>3
      <4> QED BY <1>2, <4>1 DEF Words
    <3> QED BY <3>1, <3>2, <3>3
  <2> HIDE DEF v, at
  <2>4. \A w : Patched(at, w, Width(r))[a] = ram[a]
    <3>1. a # at /\ ~(a = at + 1 /\ Width(r) = 2)
      BY <1>2, <2>3 DEF Words, at
    <3> QED BY <3>1 DEF Patched
  <2>5. ram'[a] = ram[a]
    BY <1>1, <2>4
  <2>6. ram[secAddr[n] + o] = WordAfter(n, o, k - 1)
    <3>1. LastLinks(n, o, k - 1)
      BY <1>0, <1>6, CoversNext DEF LastLinks
    <3> QED BY <1>0, <3>1 DEF LinkedSoFar
  <2> QED BY <2>1, <2>2, <2>5, <2>6
<1> QED BY <1>5, <1>6

\* What is said of an object depends on the file and on where its sections are.
LEMMA SameObject ==
  ASSUME UNCHANGED <<file, secAddr>>
  PROVE  /\ Assembled(file)' = Assembled(file)
         /\ \A n, o, m : LastLinks(n, o, m)' <=> LastLinks(n, o, m)
         /\ \A n, o : Links(n, o)' <=> Links(n, o)
         /\ Laid' = Laid /\ Starts' = Starts
         /\ \A n, o, m : WordAfter(n, o, m)' = WordAfter(n, o, m)
         /\ \A n, o : LinkedWord(n, o)' = LinkedWord(n, o)
         /\ \A y : SymAddr(y)' = SymAddr(y)
<1>1. Assembled(file)' = Assembled(file) /\ Laid' = Laid /\ Starts' = Starts
  BY DEF Assembled, Laid, Has, Starts
<1>2. ASSUME NEW n, NEW o, NEW m
      PROVE  LastLinks(n, o, m)' <=> LastLinks(n, o, m)
  <2>1. Covers(n, o, m)' = Covers(n, o, m)
    BY DEF Covers
  <2>2. Max(Covers(n, o, m))' = Max(Covers(n, o, m))
    BY <2>1
  <2>3. PICK c : c = Max(Covers(n, o, m))
    OBVIOUS
  <2> QED BY <2>1, <2>2, <2>3 DEF LastLinks, Linkable
<1>6. ASSUME NEW n, NEW o
      PROVE  Links(n, o)' <=> Links(n, o)
  <2>1. PICK m : m = Len(file.relas)
    OBVIOUS
  <2>2. m = Len(file'.relas)
    BY <2>1
  <2>3. Covers(n, o, Len(file.relas))' = Covers(n, o, m)
    BY <2>2 DEF Covers
  <2>4. Max(Covers(n, o, Len(file.relas)))' = Max(Covers(n, o, m))
    BY <2>3
  <2>5. PICK c : c = Max(Covers(n, o, m))
    OBVIOUS
  <2>6. Links(n, o)' <=> LastLinks(n, o, m)
    BY <2>3, <2>4, <2>5 DEF Links, LastLinks, Linkable
  <2> QED BY <2>1, <2>6 DEF Links
<1>3. \A y : SymAddr(y)' = SymAddr(y)
  BY DEF SymAddr
<1>4. ASSUME NEW n, NEW o, NEW m
      PROVE  WordAfter(n, o, m)' = WordAfter(n, o, m)
  <2>1. Covers(n, o, m)' = Covers(n, o, m)
    BY DEF Covers
  <2>2. Held(n, o)' = Held(n, o)
    BY DEF Held
  <2>3. Max(Covers(n, o, m))' = Max(Covers(n, o, m))
    BY <2>1
  <2>4. PICK c : c = Max(Covers(n, o, m))
    OBVIOUS
  <2> QED BY <2>1, <2>2, <2>3, <2>4 DEF WordAfter, SymAddr
<1>5. ASSUME NEW n, NEW o
      PROVE  LinkedWord(n, o)' = LinkedWord(n, o)
  <2>1. PICK m : m = Len(file.relas)
    OBVIOUS
  <2>2. m = Len(file'.relas)
    BY <2>1
  <2>3. Covers(n, o, Len(file.relas))' = Covers(n, o, m)
    BY <2>2 DEF Covers
  <2>4. Held(n, o)' = Held(n, o)
    BY DEF Held
  <2>5. Max(Covers(n, o, Len(file.relas)))' = Max(Covers(n, o, m))
    BY <2>3
  <2>6. PICK c : c = Max(Covers(n, o, m))
    OBVIOUS
  <2>7. LinkedWord(n, o)' = WordAfter(n, o, m)
    BY <2>3, <2>4, <2>5, <2>6 DEF LinkedWord, WordAfter, SymAddr
  <2> QED BY <2>1, <2>7 DEF LinkedWord
<1> QED BY <1>1, <1>2, <1>3, <1>4, <1>5, <1>6

\* Every step keeps what is known of the loop over the relocations.
LEMMA RelocatingStep ==
  ASSUME Types, Relocating, [Next]_vars
  PROVE  Relocating'
<1>1. CASE EndPlacing
  <2>1. /\ UNCHANGED <<file, error>> /\ k' = 1
        /\ step' = "relocate" => ~error
    BY <1>1 DEF EndPlacing
  <2> QED BY <2>1, FileTypes DEF Types, Relocating
<1>2. CASE ApplyRela
  <2>1. /\ UNCHANGED <<file, step, error>> /\ k' = k + 1
        /\ step = "relocate" /\ k <= Len(file.relas)
    BY <1>2 DEF ApplyRela
  <2> QED BY <2>1, FileTypes DEF Types, Relocating
<1>3. CASE UNCHANGED vars
  BY <1>3 DEF vars, Relocating
<1>4. CASE CheckHeader \/ Place \/ FindEntry \/ LoadSegment \/ FindCode
  <2>1. step' # "relocate"
    BY <1>4 DEF CheckHeader, Place, FindEntry, LoadSegment, FindCode, Fail
  <2> QED BY <2>1 DEF Relocating
<1>5. CASE Finished
  BY <1>5 DEF Finished, vars, Relocating
<1> QED BY <1>1, <1>2, <1>3, <1>4, <1>5 DEF Next

\* Every step keeps the words of the sections placed.
LEMMA PlacedWordsStep ==
  ASSUME Types, PlacedSoFar, Upwards, PlacedWords, [Next]_vars
  PROVE  PlacedWords'
<1>1. CASE Place
  BY <1>1, PlaceFills
<1>2. CASE CheckHeader
  <2>1. UNCHANGED <<file, k, secAddr>> /\ step = "header"
    BY <1>2 DEF CheckHeader
  <2>2. \A n \in Placed : secAddr[n] = 0
    BY <2>1, OrderNames DEF PlacedSoFar
  <2> QED BY <2>1, <2>2 DEF PlacedWords, Laid
<1>3. CASE EndPlacing \/ ApplyRela \/ FindEntry \/ LoadSegment \/ FindCode
  <2>1. step' # "place"
    BY <1>3 DEF EndPlacing, ApplyRela, FindEntry, LoadSegment, FindCode, Fail
  <2> QED BY <2>1 DEF PlacedWords
<1>4. CASE Finished \/ UNCHANGED vars
  BY <1>4 DEF Finished, vars, PlacedWords, Laid, Has, Held
<1> QED BY <1>1, <1>2, <1>3, <1>4 DEF Next

\* Every step keeps the words that relocations have been applied to.
LEMMA LinkedStep ==
  ASSUME Types, PlacedSoFar, Upwards, PlacedWords, Relocating, LinkedSoFar,
         [Next]_vars
  PROVE  LinkedSoFar'
<1>1. CASE ApplyRela
  BY <1>1, RelaLinks
<1>2. CASE EndPlacing
  <2> SUFFICES ASSUME step' = "relocate", NEW n \in Laid,
                      NEW o \in 0 .. file.secs[n].size - 1
               PROVE  ram'[secAddr'[n] + o] = WordAfter(n, o, k - 1)'
    BY <1>2 DEF LinkedSoFar, EndPlacing, Laid, Has
  <2>1. UNCHANGED <<file, secAddr, ram>> /\ k' = 1 /\ step = "place" /\ ~error
    BY <1>2 DEF EndPlacing
  <2>2. ram[secAddr[n] + o] = Held(n, o)
    BY <2>1 DEF PlacedWords
  <2>3. Covers(n, o, k - 1)' = {}
    BY <2>1 DEF Covers
  <2>4. WordAfter(n, o, k - 1)' = Held(n, o)
    BY <2>1, <2>3 DEF WordAfter, Held
  <2> QED BY <2>1, <2>2, <2>4
<1>3. CASE CheckHeader \/ Place \/ FindEntry \/ LoadSegment \/ FindCode
  <2>1. step' # "relocate"
    BY <1>3 DEF CheckHeader, Place, FindEntry, LoadSegment, FindCode, Fail
  <2> QED BY <2>1 DEF LinkedSoFar
<1>4. CASE Finished \/ UNCHANGED vars
  <2>1. CASE step = "relocate"
    <3>1. UNCHANGED vars
      BY <1>4, <2>1 DEF Finished
    <3>2. UNCHANGED <<file, secAddr, step, ram, k>>
      BY <3>1 DEF vars
    <3>3. /\ Assembled(file)' = Assembled(file) /\ Laid' = Laid
          /\ \A n, o, m : LastLinks(n, o, m)' <=> LastLinks(n, o, m)
          /\ \A n, o, m : WordAfter(n, o, m)' = WordAfter(n, o, m)
      BY <3>2, SameObject
    <3>4. \A n, o : /\ LastLinks(n, o, k - 1)' <=> LastLinks(n, o, k - 1)
                    /\ WordAfter(n, o, k - 1)' = WordAfter(n, o, k - 1)
      BY <3>2, <3>3
    <3> QED BY <3>2, <3>3, <3>4 DEF LinkedSoFar
  <2>2. CASE step # "relocate"
    BY <1>4, <2>2 DEF Finished, vars, LinkedSoFar
  <2> QED BY <2>1, <2>2
<1> QED BY <1>1, <1>2, <1>3, <1>4 DEF Next

\* Once the last relocation has been applied, the image is the linker's.
LEMMA EntryFound ==
  ASSUME Types, PlacedSoFar, Upwards, Relocating, LinkedSoFar, FindEntry
  PROVE  ImageAsLinked'
<1> USE ElfAssumption DEF Types
<1>1. /\ step = "relocate" /\ ~error /\ k - 1 = Len(file.relas)
      /\ UNCHANGED <<file, secAddr, ram>>
  BY FileTypes DEF FindEntry, Relocating
<1> SUFFICES ASSUME Assembled(file)
             PROVE  /\ \A n \in Laid : \A o \in 0 .. file.secs[n].size - 1 :
                         Links(n, o) => ram[secAddr[n] + o] = LinkedWord(n, o)
                    /\ \A i \in Starts :
                         i = Min(Starts) /\ file.syms[i].sec \in Laid =>
                           image'.entry = SymAddr(file.syms[i])
  <2>1. /\ Assembled(file)' = Assembled(file)
        /\ \A n, o : Links(n, o)' <=> Links(n, o)
        /\ Laid' = Laid /\ Starts' = Starts
        /\ \A n, o : LinkedWord(n, o)' = LinkedWord(n, o)
        /\ \A y : SymAddr(y)' = SymAddr(y)
    BY <1>1, SameObject
  <2> QED BY <1>1, <2>1 DEF ImageAsLinked
<1>2. \A n \in Laid : \A o \in 0 .. file.secs[n].size - 1 :
        Links(n, o) => ram[secAddr[n] + o] = LinkedWord(n, o)
  BY <1>1 DEF LinkedSoFar, Links, LinkedWord
<1>3. ASSUME NEW i \in Starts, i = Min(Starts), file.syms[i].sec \in Laid
      PROVE  image'.entry = SymAddr(file.syms[i])
  <2>1. i \in DOMAIN file.syms /\ Starts # {} /\ file.syms[i].sec \in Placed
    BY <1>3 DEF Starts, Laid
  <2>2. SymValue(i) = SymAddr(file.syms[i]) /\ file.syms[i].value \in Nat
    BY <2>1, SymbolAddress
  <2>3. secAddr[file.syms[i].sec] \in Nat \ {0}
    BY <1>3, <2>1, OrderNames DEF Laid
  <2>4. SymAddr(file.syms[i]) # 0
    <3>1. PICK y : y = file.syms[i]
      OBVIOUS
    <3>2. y.sec # "abs"
      BY <2>1, <3>1, OrderNames
    <3>3. SymAddr(y) = secAddr[y.sec] + y.value
      BY <3>2 DEF SymAddr
    <3>4. secAddr[y.sec] \in Nat \ {0} /\ y.value \in Nat
      BY <2>2, <2>3, <3>1
    <3> QED BY <3>1, <3>3, <3>4
  <2>5. image'.entry = SymValue(i)
    <3>1. image'.entry = IF SymValue(Min(Starts)) = 0 THEN secAddr[".text"]
                         ELSE SymValue(Min(Starts))
      BY <2>1 DEF FindEntry
    <3> QED BY <1>3, <2>2, <2>4, <3>1
  <2> QED BY <2>2, <2>5
<1> QED BY <1>2, <1>3

\* Every step keeps the image of an object as a linker would have made it.
LEMMA ImageStep ==
  ASSUME Types, PlacedSoFar, Upwards, Relocating, LinkedSoFar, ImageAsLinked,
         [Next]_vars
  PROVE  ImageAsLinked'
<1>1. CASE FindEntry
  BY <1>1, EntryFound
<1>2. CASE FindCode
  <2>1. file'.type # "rel"
    BY <1>2 DEF FindCode, Types
  <2> QED BY <2>1 DEF ImageAsLinked
<1>3. CASE CheckHeader \/ Place \/ EndPlacing \/ ApplyRela \/ LoadSegment
  <2>1. step' # "loaded"
    BY <1>3 DEF CheckHeader, Place, EndPlacing, ApplyRela, LoadSegment, Fail
  <2> QED BY <2>1 DEF ImageAsLinked
<1>4. CASE Finished \/ UNCHANGED vars
  <2>1. UNCHANGED vars
    BY <1>4 DEF Finished
  <2>2. /\ Assembled(file)' = Assembled(file)
        /\ \A n, o : Links(n, o)' <=> Links(n, o)
        /\ Laid' = Laid /\ Starts' = Starts
        /\ \A n, o : LinkedWord(n, o)' = LinkedWord(n, o)
        /\ \A y : SymAddr(y)' = SymAddr(y)
    BY <2>1, SameObject DEF vars
  <2> QED BY <2>1, <2>2 DEF vars, ImageAsLinked
<1> QED BY <1>1, <1>2, <1>3, <1>4 DEF Next

\* Objects of any layout with relocations of any number and kind: every word whose
\* last relocation is one the loader can link, and the entry, are as a linker would
\* have them, whatever the other relocations are.
THEOREM LoadedAsLinked == Spec => []ImageAsLinked
<1> DEFINE Layout == Types /\ PlacedSoFar /\ Upwards /\ WritesStayInSections
           Inv == Relocating /\ PlacedWords /\ LinkedSoFar /\ ImageAsLinked
<1>1. Init => Inv
  BY DEF Init, Relocating, PlacedWords, LinkedSoFar, ImageAsLinked
<1>2. Layout /\ Inv /\ [Next]_vars => Inv'
  BY RelocatingStep, PlacedWordsStep, LinkedStep, ImageStep
<1>3. Spec => []Layout
  BY LayoutInvariant
<1>4. Inv => ImageAsLinked
  OBVIOUS
<1> HIDE DEF Layout, Inv
<1> QED BY <1>1, <1>2, <1>3, <1>4, PTL DEF Spec

\* A set of numbers that is not empty has a least one.
LEMMA MinIn ==
  ASSUME NEW S \in SUBSET Nat, S # {}
  PROVE  Min(S) \in S
<1> DEFINE Less == {p \in Nat \X Nat : p[1] < p[2]}
<1>1. IsWellFoundedOn(Less, Nat)
  BY NatLessThanWellFounded, Zenon DEF OpToRel
<1>2. PICK x \in S : \A y \in S : ~(<<y, x>> \in Less)
  <2> HIDE DEF Less
  <2> QED BY <1>1, WFMin
<1>3. ASSUME NEW y \in S PROVE x =< y
  <2>1. <<y, x>> \in Nat \X Nat /\ <<y, x>>[1] = y /\ <<y, x>>[2] = x
    OBVIOUS
  <2>2. ~(y < x)
    BY <1>2, <2>1, Zenon
  <2> QED BY <2>2
<1>4. \E z \in S : \A y \in S : z =< y
  BY <1>3
<1> QED BY <1>4, Zenon DEF Min

\* What a file says of its segments.
LEMMA SegmentTypes ==
  ASSUME file \in Files
  PROVE  /\ Len(file.segs) \in Nat /\ DOMAIN file.segs = 1 .. Len(file.segs)
         /\ \A j \in DOMAIN file.segs :
              /\ file.segs[j].off \in Nat /\ file.segs[j].vaddr \in Nat
              /\ file.segs[j].filesz \in Nat /\ file.segs[j].memsz \in Nat
              /\ file.segs[j].load \in BOOLEAN
<1>1. file.segs \in Seq(Segment)
  BY ElfAssumption DEF FileOk
<1>2. \A j \in DOMAIN file.segs : file.segs[j] \in Segment
  BY <1>1
<1> QED BY <1>1, <1>2 DEF Segment

\* What the loop over the segments has loaded is in RAM.
SegmentsLoaded ==
  step = "segments" /\ LinkedRight(file) =>
    \A j \in DOMAIN file.segs : j < k /\ file.segs[j].load =>
      /\ Fits(file.segs[j])
      /\ \A i \in 0 .. file.segs[j].filesz - 1 :
           ram[file.segs[j].vaddr + i] = FileWord(file.segs[j].off + i)

\* The next segment is loaded, over none that has been.
LEMMA SegmentLoads ==
  ASSUME Types, SegmentsLoaded, LoadSegment
  PROVE  SegmentsLoaded'
<1> USE ElfAssumption DEF Types
<1>1. step = "segments" /\ k \in 1 .. Len(file.segs) /\ k' = k + 1
      /\ UNCHANGED file /\ k \in DOMAIN file.segs
  BY SegmentTypes DEF LoadSegment
<1> SUFFICES ASSUME step' = "segments", LinkedRight(file),
                    NEW j \in DOMAIN file.segs, j < k + 1, file.segs[j].load
             PROVE  /\ Fits(file.segs[j])
                    /\ \A i \in 0 .. file.segs[j].filesz - 1 :
                         ram'[file.segs[j].vaddr + i]
                           = FileWord(file.segs[j].off + i)
  BY <1>1 DEF SegmentsLoaded, Fits
<1> DEFINE g == file.segs[k]
<1>2. g.load => Fits(g)
  BY DEF LoadSegment, Fail
<1>3. ram' = IF g.load THEN Copied(Cleared(ram, g.vaddr, g.memsz),
                                   g.vaddr, g.off, g.filesz)
             ELSE ram
  BY <1>2 DEF LoadSegment
<1>4. /\ g.off \in Nat /\ g.vaddr \in Nat /\ g.filesz \in Nat /\ g.memsz \in Nat
      /\ g.load \in BOOLEAN
  BY <1>1, SegmentTypes
<1>5. PICK s : s = file.segs[j]
  OBVIOUS
<1>6. /\ s.off \in Nat /\ s.vaddr \in Nat /\ s.filesz \in Nat /\ s.memsz \in Nat
      /\ s.filesz <= s.memsz /\ j \in Nat
  BY <1>5, SegmentTypes DEF LinkedRight
<1>7. CASE j = k
  <2>1. s = g /\ g.load /\ Fits(g)
    BY <1>2, <1>5, <1>7
  <2> HIDE DEF g
  <2>2. ASSUME NEW i \in 0 .. s.filesz - 1
        PROVE  ram'[s.vaddr + i] = FileWord(s.off + i)
    <3>1. PICK a : a = s.vaddr + i
      OBVIOUS
    <3>2. a \in Nat /\ a < s.vaddr + s.filesz /\ a >= s.vaddr
      BY <1>6, <3>1
    <3>3. a < RamSize
      BY <1>6, <2>1, <3>2 DEF Fits
    <3>4. a \in Ram /\ a \in Words(s.vaddr, s.filesz)
      BY <1>6, <3>2, <3>3 DEF Ram, Words
    <3>5. s.off + a - s.vaddr = s.off + i
      BY <1>6, <3>1
    <3>6. ram'[a] = FileWord(s.off + a - s.vaddr)
      BY <1>3, <2>1, <3>4 DEF Copied
    <3> QED BY <3>1, <3>5, <3>6
  <2> QED BY <1>5, <2>1, <2>2
<1>8. CASE j # k
  <2>1. j < k
    BY <1>1, <1>6, <1>8
  <2>2. Fits(s) /\ \A i \in 0 .. s.filesz - 1 :
                     ram[s.vaddr + i] = FileWord(s.off + i)
    BY <1>1, <1>5, <2>1 DEF SegmentsLoaded
  <2>3. g.load => /\ g.filesz <= g.memsz
                  /\ Words(s.vaddr, s.memsz) \cap Words(g.vaddr, g.memsz) = {}
    BY <1>1, <1>5, <1>8 DEF LinkedRight
  <2> HIDE DEF g
  <2>4. ASSUME NEW i \in 0 .. s.filesz - 1
        PROVE  ram'[s.vaddr + i] = ram[s.vaddr + i]
    <3>1. PICK a : a = s.vaddr + i
      OBVIOUS
    <3>2. a \in Nat /\ a < s.vaddr + s.memsz /\ a >= s.vaddr
      BY <1>6, <3>1
    <3>3. a \in Words(s.vaddr, s.memsz)
      BY <1>6, <3>2 DEF Words
    <3>4. a \in Ram
      BY <1>6, <2>2, <3>2 DEF Ram, Fits
    <3>5. CASE g.load
      <4>1. a \notin Words(g.vaddr, g.memsz)
        BY <2>3, <3>3, <3>5
      <4>2. a \notin Words(g.vaddr, g.filesz)
        BY <1>4, <2>3, <3>2, <3>5, <4>1 DEF Words
      <4>3. ram'[a] = ram[a]
        BY <1>3, <3>4, <3>5, <4>1, <4>2 DEF Copied, Cleared
      <4> QED BY <3>1, <4>3
    <3>6. CASE ~g.load
      BY <1>3, <3>6
    <3> QED BY <1>4, <3>5, <3>6
  <2> QED BY <1>5, <2>2, <2>4
<1> QED BY <1>7, <1>8

\* Every step keeps the segments loaded.
LEMMA SegmentsStep ==
  ASSUME Types, PlacedSoFar, SegmentsLoaded, [Next]_vars
  PROVE  SegmentsLoaded'
<1>1. CASE LoadSegment
  BY <1>1, SegmentLoads
<1>2. CASE CheckHeader
  <2>1. k' = 1 /\ UNCHANGED file
    BY <1>2 DEF CheckHeader, PlacedSoFar
  <2>2. \A j \in DOMAIN file.segs : ~(j < 1)
    BY SegmentTypes DEF Types
  <2> QED BY <2>1, <2>2 DEF SegmentsLoaded
<1>3. CASE Place \/ EndPlacing \/ ApplyRela \/ FindEntry \/ FindCode
  <2>1. step' # "segments"
    BY <1>3 DEF Place, EndPlacing, ApplyRela, FindEntry, FindCode, Fail
  <2> QED BY <2>1 DEF SegmentsLoaded
<1>4. CASE Finished \/ UNCHANGED vars
  <2>1. UNCHANGED <<file, step, k, ram>>
    BY <1>4 DEF Finished, vars
  <2> QED BY <2>1 DEF SegmentsLoaded, Fits
<1> QED BY <1>1, <1>2, <1>3, <1>4 DEF Next

\* Words of the file that lie in a segment are where the segment went.
LEMMA InSegment ==
  ASSUME Types, step = "segments", SegmentsLoaded, LinkedRight(file),
         NEW j \in DOMAIN file.segs, j < k, file.segs[j].load,
         NEW off \in Nat, NEW size \in Nat,
         file.segs[j].off <= off,
         off + size <= file.segs[j].off + file.segs[j].filesz,
         NEW i \in 0 .. size - 1
  PROVE  ram[file.segs[j].vaddr + off - file.segs[j].off + i] = FileWord(off + i)
<1>1. PICK s : s = file.segs[j]
  OBVIOUS
<1>2. s.off \in Nat /\ s.vaddr \in Nat /\ s.filesz \in Nat
  BY <1>1, SegmentTypes DEF Types
<1>3. PICK x \in 0 .. s.filesz - 1 : x = off - s.off + i
  BY <1>1, <1>2
<1>4. ram[s.vaddr + x] = FileWord(s.off + x)
  BY <1>1 DEF SegmentsLoaded
<1>5. s.vaddr + x = s.vaddr + off - s.off + i /\ s.off + x = off + i
  BY <1>2, <1>3
<1> QED BY <1>1, <1>4, <1>5

\* Once the last segment is loaded, the range given as code holds it.
LEMMA CodeFound ==
  ASSUME Types, SegmentsLoaded, FindCode
  PROVE  CodeIsLoaded'
<1> USE ElfAssumption DEF Types
<1>1. /\ step = "segments" /\ UNCHANGED <<file, ram>>
      /\ \A j \in DOMAIN file.segs : j < k
  BY SegmentTypes DEF FindCode
<1> SUFFICES ASSUME step' = "loaded", LinkedRight(file)
             PROVE  \E o \in {file.segs[j].off : j \in DOMAIN file.segs}
                             \union {file.secs[n].off : n \in DOMAIN file.secs} :
                      \A i \in 0 .. CodeRange.code_size - 1 :
                        ram[CodeRange.code_addr + i] = FileWord(o + i)
  BY <1>1 DEF FindCode, CodeIsLoaded
<1>2. CodeRange.code_size # 0
  BY DEF FindCode, Fail
<1> DEFINE execs == {j \in DOMAIN file.segs :
                       file.segs[j].load /\ file.segs[j].exec}
<1>3. CASE execs # {} /\ (TextRange.code_size = 0 \/ TextRange.code_addr = 0)
  <2>1. execs \in SUBSET Nat
    BY SegmentTypes
  <2>2. PICK m \in execs : m = Min(execs)
    BY <1>3, <2>1, MinIn
  <2>3. CodeRange.code_addr = file.segs[m].vaddr
        /\ CodeRange.code_size = file.segs[m].filesz
    BY <1>3, <2>2 DEF CodeRange
  <2>4. \A i \in 0 .. file.segs[m].filesz - 1 :
          ram[file.segs[m].vaddr + i] = FileWord(file.segs[m].off + i)
    BY <1>1, <2>2 DEF SegmentsLoaded
  <2> QED BY <2>2, <2>3, <2>4
<1>4. CASE ~(execs # {} /\ (TextRange.code_size = 0 \/ TextRange.code_addr = 0))
  <2>1. CodeRange = TextRange
    BY <1>4 DEF CodeRange
  <2>2. Has(".text")
    BY <1>2, <2>1 DEF TextRange
  <2> DEFINE t == file.secs[".text"]
             around == {j \in DOMAIN file.segs :
                          /\ file.segs[j].load
                          /\ file.segs[j].off <= t.off
                          /\ t.off + t.size <= file.segs[j].off
                                                 + file.segs[j].filesz}
  <2>3. /\ TextRange.code_size = t.size
        /\ TextRange.code_addr =
             IF t.size = 0 \/ t.addr # 0 \/ around = {} THEN t.addr
             ELSE file.segs[Min(around)].vaddr + t.off - file.segs[Min(around)].off
    BY <2>2 DEF TextRange
  <2>4. t.size \in Nat /\ t.off \in Nat
    <3>1. ".text" \in SecName
      BY OrderNames DEF Order
    <3> QED BY <2>2, <3>1, FileTypes
  <2>5. PICK j \in around : t.addr \in {0, file.segs[j].vaddr + t.off
                                             - file.segs[j].off}
    BY <2>2 DEF LinkedRight, Has
  <2>6. around \in SUBSET Nat /\ Min(around) \in around
    <3>1. around \in SUBSET Nat /\ around # {}
      BY <2>5, SegmentTypes
    <3> HIDE DEF around
    <3> QED BY <3>1, MinIn
  <2>7. PICK m \in around : TextRange.code_addr = file.segs[m].vaddr + t.off
                                                    - file.segs[m].off
    BY <1>2, <2>1, <2>3, <2>5, <2>6
  <2>8. \A i \in 0 .. t.size - 1 :
          ram[file.segs[m].vaddr + t.off - file.segs[m].off + i]
            = FileWord(t.off + i)
    <3>1. /\ m \in DOMAIN file.segs /\ m < k /\ file.segs[m].load
          /\ file.segs[m].off <= t.off
          /\ t.off + t.size <= file.segs[m].off + file.segs[m].filesz
      BY <1>1
    <3> HIDE DEF t, around, execs
    <3> QED BY <1>1, <2>4, <3>1, InSegment
  <2> QED BY <2>1, <2>2, <2>3, <2>7, <2>8 DEF Has
<1> QED BY <1>3, <1>4

\* Every step keeps the code of an executable where it is said to be.
LEMMA CodeStep ==
  ASSUME Types, SegmentsLoaded, CodeIsLoaded, [Next]_vars
  PROVE  CodeIsLoaded'
<1>1. CASE FindCode
  BY <1>1, CodeFound
<1>2. CASE FindEntry
  BY <1>2 DEF FindEntry, CodeIsLoaded, Types
<1>3. CASE CheckHeader \/ Place \/ EndPlacing \/ ApplyRela \/ LoadSegment
  <2>1. step' # "loaded"
    BY <1>3 DEF CheckHeader, Place, EndPlacing, ApplyRela, LoadSegment, Fail
  <2> QED BY <2>1 DEF CodeIsLoaded
<1>4. CASE Finished \/ UNCHANGED vars
  BY <1>4 DEF Finished, vars, CodeIsLoaded
<1> QED BY <1>1, <1>2, <1>3, <1>4 DEF Next

\* Executables of any number of segments that a linker may have made: the code
\* the image points to is the file's.
THEOREM CodeLoaded == Spec => []CodeIsLoaded
<1> DEFINE Layout == Types /\ PlacedSoFar /\ Upwards /\ WritesStayInSections
           Inv == SegmentsLoaded /\ CodeIsLoaded
<1>1. Init => Inv
  BY DEF Init, SegmentsLoaded, CodeIsLoaded
<1>2. Layout /\ Inv /\ [Next]_vars => Inv'
  BY SegmentsStep, CodeStep
<1>3. Spec => []Layout
  BY LayoutInvariant
<1>4. Inv => CodeIsLoaded
  OBVIOUS
<1> HIDE DEF Layout, Inv
<1> QED BY <1>1, <1>2, <1>3, <1>4, PTL DEF Spec
=============================================================================
