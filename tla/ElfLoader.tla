------------------------------ MODULE ElfLoader ------------------------------
(***************************************************************************)
(* guest::load_guest_file of src/guest/elf_loader.cpp: a relocatable       *)
(* object is laid out, relocated and given an entry by load_object, an     *)
(* executable is copied segment by segment by load_elf.                    *)
(*                                                                         *)
(* Addresses, sizes and file offsets are counted in 4-byte words, the      *)
(* smallest thing a relocation writes.  Word k of the file is FileWord(k); *)
(* it lies above every address, so that contents and relocated words do    *)
(* not look alike.  What a section is for is its name; an object has each  *)
(* at most once.  Sums do not reach 2^64.                                  *)
(***************************************************************************)
EXTENDS Integers, Sequences, FiniteSetsExt

CONSTANTS
  RamSize,    \* mem.size()
  LoadBase,   \* load_base, where objects go
  Before,     \* what RAM held before, in every word
  Files       \* the files that may be given to the loader

\* The sections place() is called for, in this order; "other" stands for any
\* section with another name (.rodata.str1.1, .text.startup, .eh_frame).
Order  == <<".text", ".rodata", ".data", ".bss">>
Placed == {Order[j] : j \in 1 .. 4}
SecName == Placed \union {"other"}

Section == [size : Nat, align : Nat, nobits : BOOLEAN, off : Nat, addr : Nat]
Segment == [load : BOOLEAN, exec : BOOLEAN, off : Nat, vaddr : Nat,
            filesz : Nat, memsz : Nat]
Symbol  == [sec : SecName \union {"undef", "abs"}, value : Nat,
            start : BOOLEAN]
RelType == {"64", "32", "32S", "PC32", "PLT32"}
Rela    == [target : SecName, offset : Nat, type : RelType, sym : Nat,
            addend : Int]

\* An alignment is a power of two, or 0 where there is none to keep.
Alignment == {0} \union {a \in Nat : \E i \in 0 .. a : a = 2 ^ i}

\* header is whether the checks of the ELF header pass; secs has the sections
\* that are present.
FileOk(f) ==
  /\ f.header \in BOOLEAN /\ f.type \in {"rel", "exec"}
  /\ f.len \in Nat /\ f.entry \in Nat
  /\ DOMAIN f.secs \subseteq SecName /\ f.secs \in [DOMAIN f.secs -> Section]
  /\ \A n \in DOMAIN f.secs : f.secs[n].align \in Alignment
  /\ f.segs \in Seq(Segment) /\ f.syms \in Seq(Symbol)
  /\ f.relas \in Seq(Rela)

ASSUME ElfAssumption ==
  /\ RamSize \in Nat
  /\ LoadBase \in Nat \ {0}
  /\ Before \in Int
  /\ \A f \in Files : FileOk(f)

VARIABLES
  file,     \* the file being loaded
  step,     \* where the loader is
  k,        \* index of its current loop
  cursor,   \* cursor: where the next section goes
  secAddr,  \* sec_addr, 0 for a section that has not been placed
  error,    \* error is not empty
  ram,      \* guest RAM
  image     \* code_addr, code_size, entry of the LoadedImage

vars == <<file, step, k, cursor, secAddr, error, ram, image>>

Ram == 0 .. RamSize - 1
FileWord(j) == 2 * RamSize + 100 + j

\* Mutant of AlignUp: an address is rounded down.
AlignDown(v, a) == v - (v % a)

\* (v + a - 1) & ~(a - 1), which rounds up because a is a power of two.
AlignUp(v, a) == (v + a - 1) - ((v + a - 1) % a)

Init ==
  /\ file \in Files
  /\ step = "header"
  /\ k = 1
  /\ cursor = LoadBase
  /\ secAddr = [n \in SecName |-> 0]
  /\ error = FALSE
  /\ ram = [a \in Ram |-> Before]
  /\ image = [code_addr |-> 0, code_size |-> 0, entry |-> 0]

Has(n)  == n \in DOMAIN file.secs
Words(from, size) == from .. from + size - 1

\* size words of RAM from at are copied from the file, from off on.
Copied(mem, at, off, size) ==
  [a \in Ram |-> IF a \in Words(at, size) THEN FileWord(off + a - at)
                                          ELSE mem[a]]
Cleared(mem, at, size) ==
  [a \in Ram |-> IF a \in Words(at, size) THEN 0 ELSE mem[a]]

-----------------------------------------------------------------------------
Fail == step' = "failed" /\ error' = TRUE

\* The checks of the header; an object needs a .text.
CheckHeader ==
  /\ step = "header"
  /\ IF ~file.header \/ (file.type = "rel" /\ ~Has(".text"))
     THEN Fail
     ELSE /\ step' = IF file.type = "rel" THEN "place" ELSE "segments"
          /\ UNCHANGED error
  /\ UNCHANGED <<file, k, cursor, secAddr, ram, image>>

\* place(): the next section goes to the cursor, aligned.  One that does not
\* fit, or whose data is not in the file, records an error but does not stop
\* the ones after it, which go where it would have gone.
Place ==
  /\ step = "place" /\ k <= 4
  /\ IF Has(Order[k])
     THEN LET s     == file.secs[Order[k]]
              at    == AlignUp(cursor, IF s.align = 0 THEN 1 ELSE s.align)
              fits  == at + s.size <= RamSize
              there == s.nobits \/ s.off + s.size <= file.len
          IN  /\ secAddr' = [secAddr EXCEPT ![Order[k]] = at]
              /\ cursor' = IF fits /\ there THEN at + s.size ELSE at
              /\ error' = (error \/ (s.size > 0 /\ ~(fits /\ there)))
              /\ ram' = IF s.size = 0 \/ ~fits THEN ram
                        ELSE IF there /\ ~s.nobits
                             THEN Copied(ram, at, s.off, s.size)
                             ELSE Cleared(ram, at, s.size)
     ELSE UNCHANGED <<cursor, secAddr, error, ram>>
  /\ k' = k + 1
  /\ UNCHANGED <<file, step, image>>

\* All sections have been placed, or tried.
EndPlacing ==
  /\ step = "place" /\ k > 4
  /\ step' = IF error THEN "failed" ELSE "relocate"
  /\ k' = 1
  /\ UNCHANGED <<file, cursor, secAddr, error, ram, image>>

\* Mutant of SymValue: the section of a symbol is forgotten.
SymOffset(i) ==
  IF i \notin DOMAIN file.syms \/ file.syms[i].sec = "undef" THEN 0
  ELSE file.syms[i].value

\* sym_value: a symbol in a section that was not placed is taken for one of a
\* section at address 0; an undefined one is 0.
SymValue(i) ==
  IF i \notin DOMAIN file.syms \/ file.syms[i].sec = "undef" THEN 0
  ELSE LET y == file.syms[i]
       IN  y.value + (IF y.sec = "abs" THEN 0 ELSE secAddr[y.sec])

\* The value v is stored in size words at address at.
High(v) == IF v < 0 THEN -1 ELSE 0
Patched(at, v, size) ==
  [a \in Ram |-> CASE a = at                 -> v
                   [] a = at + 1 /\ size = 2 -> High(v)
                   [] OTHER                  -> ram[a]]

Width(r) == IF r.type = "64" THEN 2 ELSE 1
Base(r, at) == IF r.type = "PC32" THEN at ELSE 0

\* Mutant of ApplyRela: every kind of relocation stores 64 bits.
ApplyRelaWide ==
  /\ step = "relocate" /\ k <= Len(file.relas)
  /\ LET r  == file.relas[k]
         at == secAddr[r.target] + r.offset
         v  == SymValue(r.sym) + r.addend - Base(r, at)
     IN  ram' = IF at + 2 > RamSize THEN ram ELSE Patched(at, v, 2)
  /\ k' = k + 1
  /\ UNCHANGED <<file, step, cursor, secAddr, error, image>>

\* One iteration of apply_rela.  What has no room for 8 bytes before the end of
\* RAM is left alone, whatever its width, and so is a type that is not known.
\* A target section that was not placed is taken to be at address 0.
ApplyRela ==
  /\ step = "relocate" /\ k <= Len(file.relas)
  /\ LET r  == file.relas[k]
         at == secAddr[r.target] + r.offset
         v  == SymValue(r.sym) + r.addend - Base(r, at)
     IN  ram' = IF at + 2 > RamSize \/ r.type = "PLT32" THEN ram
                ELSE Patched(at, v, Width(r))
  /\ k' = k + 1
  /\ UNCHANGED <<file, step, cursor, secAddr, error, image>>

Starts == {i \in DOMAIN file.syms : file.syms[i].start}

\* code_addr and code_size are .text's; the entry is the first function called
\* _start, or .text if there is none, or one at address 0.
FindEntry ==
  /\ step = "relocate" /\ k > Len(file.relas)
  /\ LET start == IF Starts = {} THEN 0 ELSE SymValue(Min(Starts))
     IN  image' = [code_addr |-> secAddr[".text"],
                   code_size |-> file.secs[".text"].size,
                   entry     |-> IF start = 0 THEN secAddr[".text"] ELSE start]
  /\ step' = "loaded"
  /\ UNCHANGED <<file, k, cursor, secAddr, error, ram>>

-----------------------------------------------------------------------------
(* load_elf.                                                               *)

Fits(g) == g.off + g.filesz <= file.len /\ g.vaddr + g.memsz <= RamSize

\* Mutant of LoadSegment: the memory of a segment is cleared last.
LoadSegmentThenClear ==
  /\ step = "segments" /\ k <= Len(file.segs)
  /\ LET g == file.segs[k] IN
       IF g.load /\ ~Fits(g) THEN Fail /\ UNCHANGED ram
       ELSE /\ ram' = IF g.load
                     THEN Cleared(Copied(ram, g.vaddr, g.off, g.filesz),
                                  g.vaddr, g.memsz)
                     ELSE ram
            /\ UNCHANGED <<step, error>>
  /\ k' = k + 1
  /\ UNCHANGED <<file, cursor, secAddr, image>>

\* The next segment, if it is to be loaded, is cleared and copied.
LoadSegment ==
  /\ step = "segments" /\ k <= Len(file.segs)
  /\ LET g == file.segs[k] IN
       IF g.load /\ ~Fits(g) THEN Fail /\ UNCHANGED ram
       ELSE /\ ram' = IF g.load
                     THEN Copied(Cleared(ram, g.vaddr, g.memsz),
                                 g.vaddr, g.off, g.filesz)
                     ELSE ram
            /\ UNCHANGED <<step, error>>
  /\ k' = k + 1
  /\ UNCHANGED <<file, cursor, secAddr, image>>

\* The address and size of .text; when it says it is at 0, where the segment
\* around it went.
TextRange ==
  IF ~Has(".text") THEN [code_addr |-> 0, code_size |-> 0]
  ELSE LET t == file.secs[".text"]
           around == {j \in DOMAIN file.segs :
                        /\ file.segs[j].load
                        /\ file.segs[j].off <= t.off
                        /\ t.off + t.size <= file.segs[j].off
                                               + file.segs[j].filesz}
           g == file.segs[Min(around)]
       IN  [code_addr |-> IF t.size = 0 \/ t.addr # 0 \/ around = {} THEN t.addr
                          ELSE g.vaddr + t.off - g.off,
            code_size |-> t.size]

\* Without a .text the code is the first executable segment.
CodeRange ==
  LET execs == {j \in DOMAIN file.segs :
                  file.segs[j].load /\ file.segs[j].exec}
      g     == file.segs[Min(execs)]
  IN  IF execs # {} /\ (TextRange.code_size = 0 \/ TextRange.code_addr = 0)
      THEN [code_addr |-> g.vaddr, code_size |-> g.filesz]
      ELSE TextRange

FindCode ==
  /\ step = "segments" /\ k > Len(file.segs)
  /\ image' = [code_addr |-> CodeRange.code_addr,
               code_size |-> CodeRange.code_size, entry |-> file.entry]
  /\ IF CodeRange.code_size = 0 THEN Fail
     ELSE step' = "loaded" /\ UNCHANGED error
  /\ UNCHANGED <<file, k, cursor, secAddr, ram>>

-----------------------------------------------------------------------------
Finished == step \in {"loaded", "failed"} /\ UNCHANGED vars

Next == \/ CheckHeader \/ Place \/ EndPlacing \/ ApplyRela \/ FindEntry
        \/ LoadSegment \/ FindCode
        \/ Finished

Spec == Init /\ [][Next]_vars

-----------------------------------------------------------------------------
(* Properties.                                                             *)

\* The sections that have been placed, and the words a section has.
Laid == {n \in Placed : Has(n) /\ secAddr[n] # 0}
Extent(n) == Words(secAddr[n], file.secs[n].size)

\* As long as nothing failed, the sections placed are aligned, lie in RAM from
\* load_base on, and do not overlap, whatever their sizes and alignments.
SectionsFit ==
  file.type = "rel" /\ ~error =>
    \A n \in Laid :
      /\ file.secs[n].align > 0 => secAddr[n] % file.secs[n].align = 0
      /\ Extent(n) \subseteq LoadBase .. RamSize - 1
      /\ \A m \in Laid \ {n} : Extent(m) \cap Extent(n) = {}

\* What an assembler makes of relocations: each lies inside its section.  Those
\* of sections that are not placed must end below load_base.
Assembled(f) ==
  \A j \in DOMAIN f.relas :
    LET r == f.relas[j] IN
    /\ r.target \in DOMAIN f.secs
    /\ r.offset + Width(r) <= f.secs[r.target].size
    /\ r.target \notin Placed => r.offset + 2 <= LoadBase

\* Also when it fails half way, and although relocations of sections that are
\* not placed are applied as well, loading an object changes no word from
\* load_base on but those of its own sections.
WritesStayInSections ==
  file.type = "rel" /\ Assembled(file) =>
    \A a \in Ram : a >= LoadBase /\ ram[a] # Before =>
      \E n \in Laid : a \in Extent(n)

\* What the loader can link: a relocation of a kind it knows, against a symbol in
\* a section it places, that does not end in the last word of RAM.
Linkable(j) ==
  LET r == file.relas[j] IN
  /\ r.type # "PLT32"
  /\ r.sym \in DOMAIN file.syms
  /\ file.syms[r.sym].sec \in Placed \union {"abs"}
  /\ secAddr[r.target] + r.offset + 2 <= RamSize

\* Word o of section n as the linker's rules have it after the first m
\* relocations: S + A or S + A - P of the last that stores to it, or what the
\* file holds.
SymAddr(y) == IF y.sec = "abs" THEN y.value ELSE secAddr[y.sec] + y.value
Covers(n, o, m) ==
  {j \in 1 .. m : /\ file.relas[j].target = n
                  /\ o \in Words(file.relas[j].offset, Width(file.relas[j]))}
Held(n, o) == IF file.secs[n].nobits THEN 0 ELSE FileWord(file.secs[n].off + o)
WordAfter(n, o, m) ==
  LET r == file.relas[Max(Covers(n, o, m))]
      v == SymAddr(file.syms[r.sym]) + r.addend
             - Base(r, secAddr[n] + r.offset)
  IN  IF Covers(n, o, m) = {} THEN Held(n, o)
      ELSE IF o = r.offset THEN v ELSE High(v)
LinkedWord(n, o) == WordAfter(n, o, Len(file.relas))

\* The last of the first m relocations that store to the word can be linked.
LastLinks(n, o, m) == Covers(n, o, m) # {} => Linkable(Max(Covers(n, o, m)))
Links(n, o) == LastLinks(n, o, Len(file.relas))

\* An object is loaded as a linker would: every word of every section placed, but
\* where a relocation that cannot be linked has the last word on it, and the entry
\* at _start if its section is placed.
ImageAsLinked ==
  step = "loaded" /\ file.type = "rel" /\ Assembled(file) =>
    /\ \A n \in Laid : \A o \in 0 .. file.secs[n].size - 1 :
         Links(n, o) => ram[secAddr[n] + o] = LinkedWord(n, o)
    /\ \A i \in Starts :
         i = Min(Starts) /\ file.syms[i].sec \in Laid =>
           image.entry = SymAddr(file.syms[i])

\* What a linker makes of an executable: its segments lie apart, with room for
\* what the file holds of them, and .text is in one, at its address or at none.
LinkedRight(f) ==
  LET Loads == {j \in DOMAIN f.segs : f.segs[j].load} IN
  /\ \A j \in Loads : f.segs[j].filesz <= f.segs[j].memsz
  /\ \A i, j \in Loads :
       i # j => Words(f.segs[i].vaddr, f.segs[i].memsz)
                  \cap Words(f.segs[j].vaddr, f.segs[j].memsz) = {}
  /\ ".text" \in DOMAIN f.secs =>
       \E j \in Loads :
         LET g == f.segs[j]  t == f.secs[".text"] IN
         /\ g.off <= t.off /\ t.off + t.size <= g.off + g.filesz
         /\ t.addr \in {0, g.vaddr + t.off - g.off}

\* The range given as an executable's code holds the words of its .text, or
\* of a segment.
CodeIsLoaded ==
  step = "loaded" /\ file.type = "exec" /\ LinkedRight(file) =>
    \E o \in {file.segs[j].off : j \in DOMAIN file.segs}
            \union {file.secs[n].off : n \in DOMAIN file.secs} :
      \A i \in 0 .. image.code_size - 1 :
        ram[image.code_addr + i] = FileWord(o + i)
=============================================================================
