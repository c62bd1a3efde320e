------------------------------ MODULE FakeDlopen ------------------------------
(***************************************************************************)
(* fake_dlopen, fake_dlsym and fake_dlclose of fake_dlfcn.c: find a library *)
(* that is mapped into the process, map its file a second time, copy its     *)
(* symbol and string tables to the heap, and look names up in the copies.    *)
(*                                                                         *)
(* A call touches only its own locals, its own blocks and one mapping, so a *)
(* behaviour is the life of one handle: opened, used, closed.  A step is    *)
(* one test of the code with what leads to it.  An ELF file is the virtual  *)
(* address range of its PT_LOAD headers and the names of its sections; the  *)
(* names of symbols are model values, which stands for a lookup in the      *)
(* string table that belongs to the symbol table.  The memory of a section  *)
(* copy is a block named by the index of the section.                       *)
(***************************************************************************)
EXTENDS Integers, Sequences, FiniteSets

CONSTANTS
  Segments,   \* the program headers a file may have: sequences of PT_LOADs
  Layouts,    \* the section headers a file may have: sequences of names
  Dynsym,     \* the entries of a .dynsym section
  Symtab,     \* the entries of a .symtab section
  Names,      \* names fake_dlsym is asked for
  LoadBiases, \* where the system's linker may have put the library
  PageSize

SectionNames == {".symtab", ".strtab", ".dynsym", ".dynstr", ".text"}

Segment == [p_vaddr: Nat, p_memsz: Nat]

Symbol == [name: Names, st_value: Nat, defined: BOOLEAN]

ASSUME SegmentsOK == Segments \subseteq Seq(Segment)

ASSUME LayoutsOK == Layouts \subseteq Seq(SectionNames)

ASSUME SymbolsOK == Dynsym \in Seq(Symbol) /\ Symtab \in Seq(Symbol)

ASSUME AddressesOK == LoadBiases \subseteq Nat /\ PageSize \in Nat \ {0}

VARIABLES
  loads,      \* the PT_LOAD headers of the file
  sections,   \* the section names of the file
  loadBias,   \* where the linker put it
  pc,         \* where the call is
  fd,         \* "closed" or "open"
  elf,        \* "failed" (MAP_FAILED), "mapped", "null"
  ctx,        \* the fields of the handle
  live,       \* allocated blocks
  k,          \* the section header the loop is at
  freed,      \* history: blocks free has been called on, in order
  nullUnmap   \* history: munmap has been called with address 0

file == <<loads, sections, loadBias>>

vars == <<loads, sections, loadBias, pc, fd, elf, ctx, live, k, freed,
          nullUnmap>>

(* The block of the handle itself; 0 is the null pointer.                   *)
CtxBlock == Len(sections) + 1

Blocks == 1..CtxBlock

NullCtx == [load_addr |-> 0, base |-> 0, bias |-> 0, mem_size |-> 0,
            dynsym |-> 0, dynstr |-> 0, symtab |-> 0, strtab |-> 0,
            nsyms |-> 0, nsymtabs |-> 0]

Working == {"maps", "open", "lseek", "mmap", "calloc", "phdrs", "sections",
            "err_exit"}

TypeOK ==
  /\ loads \in Segments /\ sections \in Layouts /\ loadBias \in LoadBiases
  /\ pc \in Working \cup {"opened", "failed", "closed"}
  /\ fd \in {"closed", "open"}
  /\ elf \in {"failed", "mapped", "null"}
  /\ ctx \in [load_addr: Nat, base: Int, bias: Nat, mem_size: Nat,
              dynsym: {0} \cup Blocks, dynstr: {0} \cup Blocks,
              symtab: {0} \cup Blocks, strtab: {0} \cup Blocks,
              nsyms: Nat, nsymtabs: Nat]
  /\ live \subseteq Blocks
  /\ k \in 1..CtxBlock
  /\ freed \in Seq(Blocks)
  /\ nullUnmap \in BOOLEAN

Init ==
  /\ loads \in Segments /\ sections \in Layouts /\ loadBias \in LoadBiases
  /\ pc = "maps"
  /\ fd = "closed"
  /\ elf = "failed"
  /\ ctx = NullCtx
  /\ live = {}
  /\ k = 1
  /\ freed = <<>>
  /\ nullUnmap = FALSE

Goto(from, to) == pc = from /\ pc' = to

PageStart(addr) == addr - (addr % PageSize)

(* The start of the first mapping of the file: the linker maps whole pages. *)
FirstMapping ==
  loadBias + (IF loads = <<>> THEN 0 ELSE PageStart(loads[1].p_vaddr))

-----------------------------------------------------------------------------

(* A test of the code that changes nothing but where it goes on.            *)
Test(from, to) ==
  /\ pc = from
  /\ pc' \in {to, "err_exit"}
  /\ UNCHANGED <<file, fd, elf, ctx, live, k, freed, nullUnmap>>

(* Lines 79-98: the first line of /proc/self/maps that contains libpath is  *)
(* the first mapping of the file, whichever library's line it is; no such   *)
(* line, an unreadable maps file or a line sscanf cannot split is an error.  *)
FindMapping == Test("maps", "open")

Open ==
  /\ \/ Goto("open", "lseek") /\ fd' = "open"
     \/ Goto("open", "err_exit") /\ UNCHANGED fd
  /\ UNCHANGED <<file, elf, ctx, live, k, freed, nullUnmap>>

Lseek == Test("lseek", "mmap")

(* The descriptor is closed whether or not mmap succeeds.                   *)
Mmap ==
  /\ fd' = "closed"
  /\ \/ Goto("mmap", "calloc") /\ elf' = "mapped"
     \/ Goto("mmap", "err_exit") /\ UNCHANGED elf
  /\ UNCHANGED <<file, ctx, live, k, freed, nullUnmap>>

Calloc ==
  /\ \/ /\ Goto("calloc", "phdrs")
        /\ live' = live \cup {CtxBlock}
        /\ ctx' = [NullCtx EXCEPT !.load_addr = FirstMapping]
     \/ Goto("calloc", "err_exit") /\ UNCHANGED <<live, ctx>>
  /\ UNCHANGED <<file, fd, elf, k, freed, nullUnmap>>

(* Lines 125-142: the first PT_LOAD gives the bias, the highest end of one  *)
(* the size.                                                                *)
ReadProgramHeaders ==
  LET ends == {0} \cup {loads[i].p_vaddr + loads[i].p_memsz : i \in DOMAIN loads}
      size == CHOOSE e \in ends : \A other \in ends : other <= e
  IN /\ Goto("phdrs", "sections")
     /\ ctx' = IF loads = <<>>
               THEN [ctx EXCEPT !.mem_size = size]
               ELSE [ctx EXCEPT !.mem_size = size,
                                !.bias = loads[1].p_vaddr,
                                !.base = ctx.load_addr - loads[1].p_vaddr]
     /\ UNCHANGED <<file, fd, elf, live, k, freed, nullUnmap>>

-----------------------------------------------------------------------------

(* Mutation of Stored: .symtab sets the number of dynamic symbols.          *)
StoredInNsyms(name) ==
  CASE name = ".symtab" -> [ctx EXCEPT !.symtab = k, !.nsyms = Len(Symtab)]
    [] name = ".strtab" -> [ctx EXCEPT !.strtab = k]
    [] name = ".dynsym" -> [ctx EXCEPT !.dynsym = k, !.nsyms = Len(Dynsym)]
    [] name = ".dynstr" -> [ctx EXCEPT !.dynstr = k]

(* What the loop of lines 146-210 stores for section k of each name; a      *)
(* second .strtab or .dynstr replaces the pointer to the first.             *)
Stored(name) ==
  CASE name = ".symtab" -> [ctx EXCEPT !.symtab = k, !.nsymtabs = Len(Symtab)]
    [] name = ".strtab" -> [ctx EXCEPT !.strtab = k]
    [] name = ".dynsym" -> [ctx EXCEPT !.dynsym = k, !.nsyms = Len(Dynsym)]
    [] name = ".dynstr" -> [ctx EXCEPT !.dynstr = k]

(* The duplicate tests the loop has.                                        *)
Duplicate(name) ==
  \/ name = ".symtab" /\ ctx.symtab # 0
  \/ name = ".dynsym" /\ ctx.dynsym # 0

CopySection ==
  /\ pc = "sections"
  /\ k <= Len(sections)
  /\ sections[k] # ".text"
  /\ ~Duplicate(sections[k])
  /\ live' = live \cup {k}
  /\ ctx' = Stored(sections[k])
  /\ k' = k + 1
  /\ UNCHANGED <<file, pc, fd, elf, freed, nullUnmap>>

SkipSection ==
  /\ pc = "sections"
  /\ k <= Len(sections)
  /\ sections[k] = ".text"
  /\ k' = k + 1
  /\ UNCHANGED <<file, pc, fd, elf, ctx, live, freed, nullUnmap>>

(* A duplicate, or malloc returns NULL, which the code stores.              *)
SectionFails ==
  /\ Goto("sections", "err_exit")
  /\ k <= Len(sections)
  /\ sections[k] # ".text"
  /\ ctx' = IF Duplicate(sections[k])
            THEN ctx
            ELSE CASE sections[k] = ".symtab" -> [ctx EXCEPT !.symtab = 0]
                   [] sections[k] = ".strtab" -> [ctx EXCEPT !.strtab = 0]
                   [] sections[k] = ".dynsym" -> [ctx EXCEPT !.dynsym = 0]
                   [] sections[k] = ".dynstr" -> [ctx EXCEPT !.dynstr = 0]
  /\ UNCHANGED <<file, fd, elf, live, k, freed, nullUnmap>>

(* Lines 212-221.                                                           *)
Munmap ==
  /\ k > Len(sections)
  /\ IF ctx.dynstr # 0 /\ ctx.dynsym # 0
     THEN Goto("sections", "opened")
     ELSE Goto("sections", "err_exit")
  /\ elf' = "null"
  /\ UNCHANGED <<file, fd, ctx, live, k, freed, nullUnmap>>

-----------------------------------------------------------------------------

IfNotNull(block) == IF block = 0 THEN <<>> ELSE <<block>>

(* Mutations of Closing: dynsym is freed in the place of symtab, or symtab  *)
(* is forgotten.                                                            *)
ClosingDynsymTwice ==
  IfNotNull(ctx.dynsym) \o IfNotNull(ctx.dynstr) \o IfNotNull(ctx.dynsym) \o <<CtxBlock>>

ClosingNoSymtab == IfNotNull(ctx.dynsym) \o IfNotNull(ctx.dynstr) \o <<CtxBlock>>

(* fake_dlclose frees three tables and the handle; strtab is not among them. *)
Closing ==
  IfNotNull(ctx.dynsym) \o IfNotNull(ctx.dynstr) \o IfNotNull(ctx.symtab) \o <<CtxBlock>>

Free(blocks) ==
  /\ freed' = freed \o blocks
  /\ live' = live \ {blocks[i] : i \in DOMAIN blocks}

(* Mutation of ErrExit: the descriptor is not closed.                       *)
ErrExitKeepsFile ==
  /\ Goto("err_exit", "failed")
  /\ elf' = IF elf = "mapped" THEN "null" ELSE elf
  /\ nullUnmap' = (nullUnmap \/ elf = "null")
  /\ IF CtxBlock \in live THEN Free(Closing) ELSE UNCHANGED <<freed, live>>
  /\ UNCHANGED <<file, fd, ctx, k>>

(* Lines 224-227.  elf is 0, not MAP_FAILED, once it was unmapped.          *)
ErrExit ==
  /\ Goto("err_exit", "failed")
  /\ fd' = "closed"
  /\ elf' = IF elf = "mapped" THEN "null" ELSE elf
  /\ nullUnmap' = (nullUnmap \/ elf = "null")
  /\ IF CtxBlock \in live THEN Free(Closing) ELSE UNCHANGED <<freed, live>>
  /\ UNCHANGED <<file, ctx, k>>

Close ==
  /\ Goto("opened", "closed")
  /\ Free(Closing)
  /\ UNCHANGED <<file, fd, elf, ctx, k, nullUnmap>>

FakeDlopen ==
  \/ FindMapping \/ Open \/ Lseek \/ Mmap \/ Calloc \/ ReadProgramHeaders
  \/ CopySection \/ SkipSection \/ SectionFails \/ Munmap \/ ErrExit

Next == FakeDlopen \/ Close

Spec == Init /\ [][Next]_vars

-----------------------------------------------------------------------------

(* The first entry of a table with a name.                                  *)
FirstEntry(table, name) ==
  CHOOSE i \in DOMAIN table :
    /\ table[i].name = name
    /\ \A j \in 1..(i - 1) : table[j].name # name

Has(table, n, name) == \E i \in 1..n : table[i].name = name

(* What fake_dlsym does for a name: return an address or 0, or read through *)
(* a null pointer.                                                          *)
Answer(kind, addr) == [kind |-> kind, addr |-> addr]

(* Mutation of Found: the bias is not subtracted.                           *)
FoundWithBias(table, name) ==
  Answer("address", ctx.load_addr + table[FirstEntry(table, name)].st_value)

Found(table, name) ==
  Answer("address",
         ctx.load_addr + table[FirstEntry(table, name)].st_value - ctx.bias)

(* .dynsym first, then .symtab, whose names are in strtab.                  *)
Dlsym(name) ==
  CASE Has(Dynsym, ctx.nsyms, name) -> Found(Dynsym, name)
    [] ~Has(Dynsym, ctx.nsyms, name) /\ ctx.nsymtabs > 0 /\ ctx.strtab = 0 ->
         Answer("crash", 0)
    [] ~Has(Dynsym, ctx.nsyms, name) /\ ~(ctx.nsymtabs > 0 /\ ctx.strtab = 0) ->
         IF Has(Symtab, ctx.nsymtabs, name)
         THEN Found(Symtab, name)
         ELSE Answer("zero", 0)

-----------------------------------------------------------------------------

Returned == pc \in {"opened", "failed", "closed"}

HasSection(name) == \E i \in DOMAIN sections : sections[i] = name

(* Whatever test fails, fake_dlopen returns with the file closed and the    *)
(* view of it unmapped.                                                     *)
FileIsReleased == Returned => fd = "closed" /\ elf # "mapped"

(* A handle the caller gets owns the tables it points to, of the right      *)
(* sections and with the right number of entries, so that fake_dlsym reads  *)
(* inside them.                                                             *)
HandleIsUsable ==
  pc = "opened" =>
    /\ CtxBlock \in live
    /\ ctx.dynsym \in live /\ sections[ctx.dynsym] = ".dynsym"
    /\ ctx.dynstr \in live /\ sections[ctx.dynstr] = ".dynstr"
    /\ ctx.nsyms = Len(Dynsym)
    /\ IF HasSection(".symtab")
       THEN /\ ctx.symtab \in live /\ sections[ctx.symtab] = ".symtab"
            /\ ctx.nsymtabs = Len(Symtab)
       ELSE ctx.nsymtabs = 0
    /\ HasSection(".strtab") =>
         ctx.strtab \in live /\ sections[ctx.strtab] = ".strtab"

(* No block is freed twice, and none that was never allocated, on any error *)
(* path or by the caller's fake_dlclose.                                    *)
FreedOnce ==
  \A i \in DOMAIN freed :
    /\ freed[i] \notin live
    /\ freed[i] < k \/ freed[i] = CtxBlock
    /\ \A j \in DOMAIN freed : freed[i] = freed[j] => i = j

(* What a handle leaves behind once it is closed or could not be opened:    *)
(* copies of .strtab, which fake_dlclose forgets, and of a .dynstr that a   *)
(* second section of that name replaced.  The handle and the symbol tables  *)
(* never leak.                                                              *)
OnlyStringTablesLeak ==
  pc \in {"failed", "closed"} =>
    \A b \in live :
      /\ b \in DOMAIN sections
      /\ \/ sections[b] = ".strtab"
         \/ /\ sections[b] = ".dynstr"
            /\ \E c \in (b + 1)..k : c \in DOMAIN sections /\ sections[c] = ".dynstr"

(* munmap is called with address 0 only for a file without the dynamic      *)
(* tables.                                                                  *)
NullUnmapNeedsMissingTable ==
  nullUnmap => ~HasSection(".dynsym") \/ ~HasSection(".dynstr")

(* The error path and fake_dlclose have no other defects than these.         *)
OnlyKnownDefects == OnlyStringTablesLeak /\ NullUnmapNeedsMissingTable

(* The entry the linker would bind name to is where the code says it is.    *)
Defines(table, name) == \E i \in DOMAIN table : table[i].name = name /\ table[i].defined

Imports(table, name) == \E i \in DOMAIN table : table[i].name = name /\ ~table[i].defined

(* fake_dlsym returns the address the system's linker gave a definition of  *)
(* the name, provided the first segment starts a page and the name is not   *)
(* also imported; it returns 0 only for a name no table defines, and reads  *)
(* through a null pointer only in a file with .symtab and without .strtab.  *)
LookupFindsDefinition ==
  pc = "opened" => \A name \in Names :
    CASE Dlsym(name).kind = "zero" ->
           /\ ~Defines(Dynsym, name)
           /\ HasSection(".symtab") => ~Defines(Symtab, name)
      [] Dlsym(name).kind = "crash" ->
           HasSection(".symtab") /\ ~HasSection(".strtab")
      [] Dlsym(name).kind = "address" ->
           \/ loads # <<>> /\ PageStart(loads[1].p_vaddr) # loads[1].p_vaddr
           \/ Imports(Dynsym, name) \/ Imports(Symtab, name)
           \/ \E table \in {Dynsym, Symtab} : \E i \in DOMAIN table :
                /\ table[i].name = name
                /\ table[i].defined
                /\ Dlsym(name).addr = loadBias + table[i].st_value
=============================================================================
