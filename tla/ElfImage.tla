------------------------------ MODULE ElfImage ------------------------------
(***************************************************************************)
(* What AdressResolverPass reads from the linked binary: symbols become       *)
(* function entries and data objects, code sections become a list of         *)
(* instructions with address and bytes.                                     *)
(*                                                                         *)
(* An image is a record: symbols, a sequence of records with name, addr,     *)
(* section, isFunction and undefined; sections, a sequence of records with   *)
(* name, base and contents, the words in order: an instruction is a record   *)
(* with its bytes and its size in words, anything else has the size 0 and    *)
(* takes one word.  Addresses count 16-bit words.                           *)
(***************************************************************************)
EXTENDS Naturals, Sequences, SequencesExt, FiniteSetsExt

CodeSections == {".text", "__reset_vector", "__interrupt_vector"}
IgnoredSections == {".debug", ".comment", ".MSP430.attributes", ".symtab", ".strtab", ".shstrtab"}

\* Everything that is neither code nor metadata holds objects.
classifySection(name) ==
  IF name \in CodeSections THEN "Code" ELSE IF name \in IgnoredSections THEN "Ignore" ELSE "Data"

\* The symbols that count.
usable(elf) == {k \in DOMAIN elf.symbols : ~elf.symbols[k].undefined /\ elf.symbols[k].name # ""}

namesOf(elf, S) == {elf.symbols[k].name : k \in S}

\* The first symbol of a name counts.
firstAddr(elf, S, n) == elf.symbols[Min({k \in S : elf.symbols[k].name = n})].addr

FunctionEntryAddr(elf) ==
  LET functions == {k \in usable(elf) : elf.symbols[k].isFunction}
  IN  [n \in namesOf(elf, functions) |-> firstAddr(elf, functions, n)]

AllSymbolAddrs(elf) == {elf.symbols[k].addr : k \in usable(elf)}

\* finishParse: an object ends where the next symbol begins, the last has size 0.
sizeFrom(elf, a) ==
  LET above == {b \in AllSymbolAddrs(elf) : b > a} IN IF above = {} THEN 0 ELSE Min(above) - a

DataObjects(elf) ==
  LET objects == {k \in usable(elf) :
                    ~elf.symbols[k].isFunction /\ classifySection(elf.symbols[k].section) = "Data"}
      addr(n) == firstAddr(elf, objects, n)
  IN  [n \in namesOf(elf, objects) |-> [addr |-> addr(n), size |-> sizeFrom(elf, addr(n))]]

\* Linear disassembly: what does not decode is skipped word by word.
decode(section) ==
  FoldLeft(LAMBDA d, w : IF w.size = 0 THEN [d EXCEPT !.addr = @ + 1]
                         ELSE [addr |-> d.addr + w.size,
                               found |-> Append(d.found, [addr |-> d.addr, bytes |-> w.bytes, size |-> w.size])],
           [addr |-> section.base, found |-> << >>], section.contents).found

DumpInstructions(elf) ==
  LET code == SelectSeq(elf.sections, LAMBDA s : classifySection(s.name) = "Code")
  IN  FlattenSeq([i \in DOMAIN code |-> decode(code[i])])

\* The instructions from the entry of a function to the next entry, by address.
rangeOf(elf, name) ==
  LET entry == FunctionEntryAddr(elf)[name]
      beyond == {a \in Range(FunctionEntryAddr(elf)) : a > entry}
      inside(d) == d.addr >= entry /\ \A a \in beyond : d.addr < a
  IN  SortSeq(SelectSeq(DumpInstructions(elf), inside), LAMBDA d, e : d.addr < e.addr)
=============================================================================
