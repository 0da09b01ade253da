---------------------------- MODULE MCElfLoader -----------------------------
(***************************************************************************)
(* Small files for the ELF loader: 7 words of RAM, objects loaded from     *)
(* word 2 on.                                                              *)
(***************************************************************************)
EXTENDS ElfLoader

Sec(size, align, nobits, off) ==
  [size |-> size, align |-> align, nobits |-> nobits, off |-> off, addr |-> 0]

\* A file of 5 words.
FileLen == 5

Absent == Sec(-1, 0, FALSE, 0)

\* The sections an object may have; .data may be cut short
\* by the end of the file, and .bss may be too big for RAM.
Texts  == {Sec(1, 1, FALSE, 0), Sec(2, 2, FALSE, 0)}
Rodata == {Absent, Sec(1, 2, FALSE, 2), Sec(0, 0, FALSE, 2)}
Datas  == {Absent, Sec(1, 2, FALSE, 3), Sec(2, 1, FALSE, 3),
           Sec(2, 1, FALSE, 4)}
Bsses  == {Absent, Sec(1, 1, TRUE, 4), Sec(2, 2, TRUE, 4)}
Others == {Absent, Sec(2, 1, FALSE, 3)}

Present(f) == [n \in {m \in DOMAIN f : f[m] # Absent} |-> f[n]]

Layouts ==
  {Present([m \in SecName |-> CASE m = ".text"   -> t
                                [] m = ".rodata" -> r
                                [] m = ".data"   -> d
                                [] m = ".bss"    -> b
                                [] m = "other"   -> o]) :
     t \in Texts, r \in Rodata, d \in Datas, b \in Bsses, o \in Others}

Sym(sec, value, start) == [sec |-> sec, value |-> value, start |-> start]

\* The null symbol, one in each kind of place, and a _start.
Symbols ==
  {<<Sym("undef", 0, FALSE), Sym(".text", 0, FALSE), Sym(".data", 1, FALSE),
     Sym("other", 1, FALSE), Sym("abs", 5, FALSE), Sym(sec, value, TRUE)>> :
     sec \in {".text", "undef", "other"}, value \in {0, 1}}

Relocs ==
  [target : {".text", ".data", "other"}, offset : {0, 1}, type : RelType,
   sym : {1, 3, 4, 5, 9}, addend : {0, -1}]

\* .rela.text comes before .rela.data.
InOrder(relas) == Len(relas) = 2 => relas[1].target = ".text"

Object(l, y, r) ==
  [header |-> TRUE, type |-> "rel", len |-> FileLen, secs |-> l, segs |-> <<>>,
   syms |-> y, relas |-> r, entry |-> 0]

\* Objects without relocations, in every layout; with one, in a few; and with
\* two, which may store to the same word.
Full(t, r, d, b) == {l \in Layouts : /\ l[".text"] = t
                                     /\ ".rodata" \in DOMAIN l /\ l[".rodata"] = r
                                     /\ ".data" \in DOMAIN l /\ l[".data"] = d
                                     /\ ".bss" \in DOMAIN l => l[".bss"] = b}
Roomy == Full(Sec(2, 2, FALSE, 0), Sec(0, 0, FALSE, 2), Sec(2, 1, FALSE, 3),
              Sec(1, 1, TRUE, 4))
Tight == Full(Sec(1, 1, FALSE, 0), Sec(1, 2, FALSE, 2), Sec(1, 2, FALSE, 3),
              Sec(1, 1, TRUE, 4))
AnySymbols == CHOOSE y \in Symbols : TRUE

Objects ==
  {Object(l, y, <<>>) : l \in Layouts, y \in Symbols}
  \union
  {Object(l, y, <<r>>) : l \in Roomy \union Tight, y \in Symbols, r \in Relocs}
  \union
  {Object(l, AnySymbols, <<q, r>>) : l \in Roomy,
       q \in {w \in Relocs : w.sym = 3 /\ w.addend = 0},
       r \in {w \in Relocs : w.sym = 5 /\ w.addend = -1}}

Seg(load, exec, off, vaddr, filesz, memsz) ==
  [load |-> load, exec |-> exec, off |-> off, vaddr |-> vaddr,
   filesz |-> filesz, memsz |-> memsz]

\* A header that is no PT_LOAD, code, and data that may be cut short or be too
\* big for RAM.
Programs ==
  {<<Seg(FALSE, TRUE, 0, 0, 1, 1), Seg(TRUE, TRUE, 0, v, f, f)>> :
     v \in {0, 1, 2}, f \in {1, 2}}
  \union
  {<<Seg(TRUE, x, 0, v, 2, 2), Seg(TRUE, y, o, 4, f, m)>> :
     x \in BOOLEAN, y \in BOOLEAN, v \in {0, 1, 2}, o \in {2, 4},
     f \in {1, 2}, m \in {2, 3, 4}}

TextIn(size, off, addr) ==
  [size |-> size, align |-> 1, nobits |-> FALSE, off |-> off, addr |-> addr]

\* A linker gives .text the address its segment puts it at, or none.
Executables ==
  {[header |-> TRUE, type |-> "exec", len |-> FileLen,
    secs |-> s, segs |-> g, syms |-> <<>>, relas |-> <<>>, entry |-> 3] :
     s \in {<<>>} \union {[n \in {".text"} |-> TextIn(z, o, a)] :
                             z \in {1, 2}, o \in {0, 1}, a \in 0 .. 3},
     g \in Programs}

Broken ==
  {[header |-> h, type |-> "rel", len |-> FileLen, secs |-> <<>>, segs |-> <<>>,
    syms |-> <<>>, relas |-> <<>>, entry |-> 0] : h \in BOOLEAN}

MCFiles ==
  {f \in Objects : Assembled(f) /\ InOrder(f.relas)}
    \union {f \in Executables : LinkedRight(f)} \union Broken
=============================================================================
