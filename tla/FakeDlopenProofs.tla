--------------------------- MODULE FakeDlopenProofs ---------------------------
(***************************************************************************)
(* Theorems about FakeDlopen, for any file, symbol tables and load address. *)
(***************************************************************************)
EXTENDS FakeDlopen, SequenceTheorems, WellFoundedInduction, TLAPS

(* A table that has a name has a first entry with it.                       *)
LEMMA FirstEntryExists ==
  ASSUME NEW table \in Seq(Symbol), NEW name, NEW n \in DOMAIN table, table[n].name = name
  PROVE  FirstEntry(table, name) \in DOMAIN table /\ table[FirstEntry(table, name)].name = name
<1> DEFINE T == {i \in DOMAIN table : table[i].name = name}
<1>1. T \subseteq Nat /\ T # {} /\ DOMAIN table = 1..Len(table)
  BY LenProperties
<1>2. \E x \in T : \A y \in T : <<y, x>> \notin OpToRel(<, Nat)
  <2> HIDE DEF T
  <2> QED
    BY <1>1, WFMin, NatLessThanWellFounded
<1>3. PICK x \in T : \A y \in T : ~(y < x)
  BY <1>1, <1>2 DEF OpToRel
<1>4. x \in DOMAIN table /\ table[x].name = name
  OBVIOUS
<1>5. \A j \in 1..(x - 1) : table[j].name # name
  BY <1>1, <1>3, <1>4, LenProperties
<1> QED
  BY <1>4, <1>5 DEF FirstEntry

(* Freeing one more block, unless it is null, frees it once.                *)
Distinct(blocks) == \A i, j \in DOMAIN blocks : blocks[i] = blocks[j] => i = j

LEMMA OneMoreBlock ==
  ASSUME NEW s \in Seq(Nat), Distinct(s), NEW b \in Nat, b = 0 \/ b \notin Range(s)
  PROVE  /\ s \o IfNotNull(b) \in Seq(Nat)
         /\ Distinct(s \o IfNotNull(b))
         /\ Range(s \o IfNotNull(b)) = Range(s) \cup ({b} \ {0})
<1>1. CASE b = 0
  BY <1>1, ConcatEmptySeq DEF IfNotNull
<1>2. CASE b # 0
  <2> DEFINE u == s \o <<b>>
  <2>1. IfNotNull(b) = <<b>> /\ <<b>> \in Seq(Nat) /\ Len(<<b>>) = 1 /\ <<b>>[1] = b
    BY <1>2 DEF IfNotNull
  <2>2. /\ u \in Seq(Nat) /\ Len(u) = Len(s) + 1 /\ Len(s) \in Nat
        /\ \A i \in 1..(Len(s) + 1) : u[i] = IF i <= Len(s) THEN s[i] ELSE <<b>>[i - Len(s)]
    BY <2>1, ConcatProperties, LenProperties
  <2>3. DOMAIN u = 1..(Len(s) + 1) /\ DOMAIN s = 1..Len(s)
    BY <2>2, LenProperties
  <2>4. \A i \in DOMAIN s : i \in DOMAIN u /\ u[i] = s[i]
    BY <2>2, <2>3
  <2>5. Len(s) + 1 \in DOMAIN u /\ u[Len(s) + 1] = b
    BY <2>1, <2>2, <2>3
  <2>6. \A i \in DOMAIN u : i \in DOMAIN s \/ i = Len(s) + 1
    BY <2>2, <2>3
  <2>7. \A i \in DOMAIN s : s[i] # b
    BY <1>2 DEF Range
  <2> HIDE DEF u
  <2>8. Distinct(u)
    BY <2>4, <2>5, <2>6, <2>7 DEF Distinct
  <2>9. Range(u) = Range(s) \cup {b}
    BY <2>4, <2>5, <2>6 DEF Range
  <2> QED
    BY <1>2, <2>1, <2>2, <2>8, <2>9 DEF u
<1> QED
  BY <1>1, <1>2

(* fake_dlclose frees each of the tables of a handle, and the handle, once. *)
LEMMA ClosingBlocks ==
  ASSUME NEW a \in Nat, NEW b \in Nat, NEW c \in Nat, NEW d \in Nat \ {0},
         a = 0 \/ a # b, a = 0 \/ a # c, b = 0 \/ b # c, a # d, b # d, c # d
  PROVE  LET blocks == IfNotNull(a) \o IfNotNull(b) \o IfNotNull(c) \o <<d>> IN
         blocks \in Seq(Nat) /\ Distinct(blocks) /\ Range(blocks) = {a, b, c, d} \ {0}
<1>1. /\ <<>> \in Seq(Nat) /\ Distinct(<<>>) /\ Range(<<>>) = {}
      /\ IfNotNull(a) = <<>> \o IfNotNull(a) /\ IfNotNull(d) = <<d>>
  BY ConcatEmptySeq DEF IfNotNull, Distinct, Range
<1> DEFINE s1 == IfNotNull(a)
           s2 == s1 \o IfNotNull(b)
           s3 == s2 \o IfNotNull(c)
<1>2. s1 \in Seq(Nat) /\ Distinct(s1) /\ Range(s1) = {a} \ {0}
  <2>1. /\ <<>> \o IfNotNull(a) \in Seq(Nat)
        /\ Distinct(<<>> \o IfNotNull(a))
        /\ Range(<<>> \o IfNotNull(a)) = Range(<<>>) \cup ({a} \ {0})
    BY <1>1, OneMoreBlock
  <2> QED
    BY <1>1, <2>1
<1> HIDE DEF s1
<1>3. s2 \in Seq(Nat) /\ Distinct(s2) /\ Range(s2) = {a, b} \ {0}
  BY <1>2, OneMoreBlock
<1> HIDE DEF s2
<1>4. s3 \in Seq(Nat) /\ Distinct(s3) /\ Range(s3) = {a, b, c} \ {0}
  BY <1>3, OneMoreBlock
<1> HIDE DEF s3
<1>5. /\ s3 \o IfNotNull(d) \in Seq(Nat) /\ Distinct(s3 \o IfNotNull(d))
      /\ Range(s3 \o IfNotNull(d)) = {a, b, c, d} \ {0}
  BY <1>4, OneMoreBlock
<1> QED
  BY <1>1, <1>5 DEF s1, s2, s3

-----------------------------------------------------------------------------

(* The calls before the handle is allocated.                                *)
Early == {"maps", "open", "lseek", "mmap", "calloc"}

(* The file is open, and the view of it there, only while fake_dlopen needs *)
(* them; the error path finds no view only for a file without the tables.   *)
LacksTable == ~HasSection(".dynsym") \/ ~HasSection(".dynstr")

FileInv ==
  /\ fd = "open" => pc \in {"lseek", "mmap", "err_exit"}
  /\ elf = "mapped" => pc \in {"calloc", "phdrs", "sections", "err_exit"}
  /\ elf = "null" => pc \in {"err_exit", "opened", "failed", "closed"}
  /\ elf = "null" /\ pc = "err_exit" => LacksTable
  /\ nullUnmap => LacksTable

(* The blocks allocated are those of the sections so far and the handle.    *)
BlockInv ==
  /\ pc \in Early => k = 1 /\ ctx = NullCtx /\ live = {}
  /\ pc = "phdrs" => k = 1 /\ ctx = [NullCtx EXCEPT !.load_addr = FirstMapping]
  /\ pc \in {"phdrs", "sections", "opened"} => CtxBlock \in live
  /\ pc = "err_exit" => CtxBlock \in live \/ live = {}
  /\ \A b \in live : b < k \/ b = CtxBlock

(* A pointer of the handle is null or of a section of its name,             *)
IsOf(block, name) ==
  block # 0 =>
    /\ block < k
    /\ sections[block] = name
    /\ pc \notin {"failed", "closed"} => block \in live

TablesInv ==
  /\ IsOf(ctx.dynsym, ".dynsym") /\ IsOf(ctx.dynstr, ".dynstr")
  /\ IsOf(ctx.symtab, ".symtab") /\ IsOf(ctx.strtab, ".strtab")

(* a later section of that name replaces block b,                           *)
Replaced(b) == \E c \in (b + 1)..k : c \in DOMAIN sections /\ sections[c] = ".dynstr"

(* and every block but a string table is pointed to.                        *)
PointedInv ==
  pc \notin {"failed", "closed"} =>
    \A b \in live \ {CtxBlock} :
      /\ sections[b] = ".dynsym" => b = ctx.dynsym
      /\ sections[b] = ".symtab" => b = ctx.symtab
      /\ sections[b] = ".dynstr" => b = ctx.dynstr \/ Replaced(b)
      /\ sections[b] # ".text"

(* The sections behind are in the handle, with the number of their entries. *)
CountInv ==
  /\ ctx.nsyms = IF ctx.dynsym = 0 THEN 0 ELSE Len(Dynsym)
  /\ ctx.nsymtabs = IF ctx.symtab = 0 THEN 0 ELSE Len(Symtab)
  /\ pc \in {"sections", "opened"} =>
       \A i \in 1..(k - 1) :
         /\ sections[i] = ".dynsym" => ctx.dynsym # 0
         /\ sections[i] = ".dynstr" => ctx.dynstr # 0
         /\ sections[i] = ".symtab" => ctx.symtab # 0
         /\ sections[i] = ".strtab" => ctx.strtab # 0
  /\ pc = "opened" => k > Len(sections) /\ ctx.dynsym # 0 /\ ctx.dynstr # 0

(* fake_dlsym computes with the first mapping and the first segment.        *)
AddressInv ==
  pc \in {"sections", "opened"} =>
    /\ ctx.load_addr = FirstMapping
    /\ ctx.bias = IF loads = <<>> THEN 0 ELSE loads[1].p_vaddr

(* Nothing is freed before the end.                                         *)
FreedInv ==
  /\ pc \notin {"failed", "closed"} => freed = <<>>
  /\ FreedOnce
  /\ OnlyStringTablesLeak

Inv ==
  /\ TypeOK
  /\ FileInv /\ BlockInv /\ TablesInv /\ PointedInv /\ CountInv /\ AddressInv /\ FreedInv

-----------------------------------------------------------------------------

(* The largest end of a segment exists: the size of a handle is a number.   *)
Ends(n) == {0} \cup {loads[i].p_vaddr + loads[i].p_memsz : i \in 1..n}

LEMMA EndIsNat ==
  ASSUME loads \in Seq(Segment), NEW i \in 1..Len(loads)
  PROVE  loads[i].p_vaddr \in Nat /\ loads[i].p_vaddr + loads[i].p_memsz \in Nat
<1>1. loads[i] \in Segment
  BY ElementOfSeq
<1> QED
  BY <1>1 DEF Segment

LEMMA LargestEndExists ==
  ASSUME loads \in Seq(Segment), NEW n \in 0..Len(loads)
  PROVE  \E e \in Ends(n) : \A other \in Ends(n) : other <= e
<1> DEFINE HasLargest(m) == \E e \in Ends(m) : \A other \in Ends(m) : other <= e
           Bad == {m \in 0..Len(loads) : ~HasLargest(m)}
<1>1. Len(loads) \in Nat /\ \A i \in 1..Len(loads) : loads[i].p_vaddr + loads[i].p_memsz \in Nat
  BY EndIsNat, LenProperties
<1>2. Bad \subseteq Nat
  BY <1>1
<1>3. ASSUME Bad # {} PROVE FALSE
  <2>1. \E x \in Bad : \A y \in Bad : <<y, x>> \notin OpToRel(<, Nat)
    <3> HIDE DEF Bad
    <3> QED
      BY <1>2, <1>3, WFMin, NatLessThanWellFounded
  <2>2. PICK x \in Bad : \A y \in Bad : ~(y < x)
    BY <1>2, <2>1 DEF OpToRel
  <2>3. HasLargest(0)
    BY DEF Ends
  <2>4. x \in 1..Len(loads) /\ x - 1 \in 0..Len(loads) /\ x - 1 < x
    BY <1>1, <2>2, <2>3
  <2>5. HasLargest(x - 1)
    BY <2>2, <2>4
  <2>6. PICK e \in Ends(x - 1) : \A other \in Ends(x - 1) : other <= e
    BY <2>5
  <2> DEFINE last == loads[x].p_vaddr + loads[x].p_memsz
  <2>7. Ends(x) = Ends(x - 1) \cup {last}
    <3>1. 1..x = 1..(x - 1) \cup {x}
      BY <1>1, <2>4
    <3> QED
      BY <3>1 DEF Ends
  <2>8. e \in Nat /\ last \in Nat
    BY <1>1, <2>4, <2>6 DEF Ends
  <2>9. CASE last <= e
    <3>1. e \in Ends(x) /\ \A other \in Ends(x) : other <= e
      BY <2>6, <2>7, <2>9
    <3> QED
      BY <2>2, <3>1
  <2>10. CASE e < last
    <3>1. \A other \in Ends(x - 1) : other \in Nat
      BY <1>1, <2>4 DEF Ends
    <3>2. last \in Ends(x) /\ \A other \in Ends(x) : other <= last
      BY <2>6, <2>7, <2>8, <2>10, <3>1
    <3> QED
      BY <2>2, <3>2
  <2> QED
    BY <2>8, <2>9, <2>10
<1> QED
  BY <1>3

LEMMA SizeIsNat ==
  ASSUME loads \in Seq(Segment)
  PROVE  LET ends == {0} \cup {loads[i].p_vaddr + loads[i].p_memsz : i \in DOMAIN loads}
         IN  (CHOOSE e \in ends : \A other \in ends : other <= e) \in Nat
<1> DEFINE ends == Ends(Len(loads))
<1>1. Len(loads) \in Nat /\ DOMAIN loads = 1..Len(loads) /\ Len(loads) \in 0..Len(loads)
  BY LenProperties
<1>2. \A e \in ends : e \in Nat
  BY <1>1, EndIsNat DEF Ends
<1>3. \E e \in ends : \A other \in ends : other <= e
  BY <1>1, LargestEndExists
<1>4. (CHOOSE e \in ends : \A other \in ends : other <= e) \in Nat
  <2> HIDE DEF ends
  <2> QED
    BY <1>2, <1>3
<1> QED
  BY <1>1, <1>4 DEF Ends

(* Rounding to a page, as any address is, gives an address.                 *)
LEMMA FirstMappingIsNat ==
  ASSUME loads \in Segments, loadBias \in LoadBiases
  PROVE  FirstMapping \in Nat
<1>1. loads # <<>> => loads[1].p_vaddr \in Nat
  <2>1. SUFFICES ASSUME loads # <<>> PROVE loads[1].p_vaddr \in Nat
    OBVIOUS
  <2>2. loads \in Seq(Segment)
    BY SegmentsOK
  <2>3. 1 \in 1..Len(loads)
    BY <2>1, <2>2, EmptySeq, LenProperties
  <2> QED
    BY <2>2, <2>3, EndIsNat
<1>2. ASSUME NEW addr \in Nat PROVE PageStart(addr) \in Nat
  <2>1. PageSize \in Nat \ {0}
    BY AddressesOK
  <2>2. addr \div PageSize \in Nat /\ addr % PageSize \in 0..(PageSize - 1)
    BY <2>1
  <2>3. addr - (addr % PageSize) = PageSize * (addr \div PageSize)
    BY <2>1
  <2> DEFINE pages == addr \div PageSize
  <2>4. PageSize * pages \in Nat
    <3> HIDE DEF pages
    <3>1. pages \in Nat
      BY <2>2 DEF pages
    <3> QED
      BY <2>1, <3>1
  <2> QED
    BY <2>3, <2>4 DEF PageStart
<1> DEFINE first == IF loads = <<>> THEN 0 ELSE PageStart(loads[1].p_vaddr)
<1>3. first \in Nat
  BY <1>1, <1>2
<1>4. loadBias \in Nat
  BY AddressesOK
<1>5. FirstMapping = loadBias + first
  BY DEF FirstMapping
<1> HIDE DEF first
<1> QED
  BY <1>3, <1>4, <1>5

-----------------------------------------------------------------------------

(* What the steps below know of the file and of the handle.                 *)
Handles ==
  [load_addr: Nat, base: Int, bias: Nat, mem_size: Nat,
   dynsym: {0} \cup Blocks, dynstr: {0} \cup Blocks,
   symtab: {0} \cup Blocks, strtab: {0} \cup Blocks,
   nsyms: Nat, nsymtabs: Nat]

LEMMA FileFacts ==
  ASSUME TypeOK
  PROVE  /\ loads \in Seq(Segment)
         /\ sections \in Seq(SectionNames)
         /\ Len(sections) \in Nat /\ DOMAIN sections = 1..Len(sections)
         /\ \A i \in 1..Len(sections) : sections[i] \in SectionNames
         /\ Len(Dynsym) \in Nat /\ Len(Symtab) \in Nat
         /\ DOMAIN Dynsym = 1..Len(Dynsym) /\ DOMAIN Symtab = 1..Len(Symtab)
         /\ FirstMapping \in Nat
         /\ CtxBlock \in Nat \ {0} /\ CtxBlock = Len(sections) + 1
         /\ ctx \in Handles
<1>1. loads \in Seq(Segment) /\ sections \in Seq(SectionNames)
  BY SegmentsOK, LayoutsOK DEF TypeOK
<1>2. Len(sections) \in Nat /\ DOMAIN sections = 1..Len(sections)
  BY <1>1, LenProperties
<1>3. \A i \in 1..Len(sections) : sections[i] \in SectionNames
  BY <1>1, ElementOfSeq
<1>4. /\ Len(Dynsym) \in Nat /\ Len(Symtab) \in Nat
      /\ DOMAIN Dynsym = 1..Len(Dynsym) /\ DOMAIN Symtab = 1..Len(Symtab)
  BY SymbolsOK, LenProperties
<1>5. FirstMapping \in Nat
  BY FirstMappingIsNat DEF TypeOK
<1>6. ctx \in Handles
  BY DEF TypeOK, Handles
<1> QED
  BY <1>1, <1>2, <1>3, <1>4, <1>5, <1>6 DEF CtxBlock

(* Behind the loop every section is one the loop has seen.                  *)
LEMMA SectionsBehind ==
  ASSUME TypeOK, k > Len(sections)
  PROVE  \A i \in DOMAIN sections : i \in 1..(k - 1)
<1>1. Len(sections) \in Nat /\ DOMAIN sections = 1..Len(sections)
  BY FileFacts
<1>2. k \in Nat
  BY FileFacts DEF TypeOK
<1> QED
  BY <1>1, <1>2

(* A step leaves the file, and what is computed from it, as it is.          *)
LEMMA FileStays ==
  ASSUME [Next]_vars
  PROVE  /\ loads' = loads /\ sections' = sections /\ loadBias' = loadBias
         /\ CtxBlock' = CtxBlock /\ Blocks' = Blocks /\ Handles' = Handles
         /\ FirstMapping' = FirstMapping
         /\ LacksTable' = LacksTable
         /\ \A name : HasSection(name)' = HasSection(name)
<1>1. loads' = loads /\ sections' = sections /\ loadBias' = loadBias
  BY DEF Next, FakeDlopen, FindMapping, Lseek, Test, Open, Mmap, Calloc, ReadProgramHeaders,
         CopySection, SkipSection, SectionFails, Munmap, ErrExit, Close, file, vars
<1> QED
  BY <1>1 DEF CtxBlock, Blocks, Handles, FirstMapping, LacksTable, HasSection

(* What the loop stores for a section: the block of a table it did not have, *)
(* or of a string table, and the number of the table's entries.             *)
LEMMA StoredFields ==
  ASSUME TypeOK, NEW name \in SectionNames \ {".text"}
  PROVE  /\ k \in {0} \cup Blocks => Stored(name) \in Handles
         /\ Stored(name).dynsym = IF name = ".dynsym" THEN k ELSE ctx.dynsym
         /\ Stored(name).dynstr = IF name = ".dynstr" THEN k ELSE ctx.dynstr
         /\ Stored(name).symtab = IF name = ".symtab" THEN k ELSE ctx.symtab
         /\ Stored(name).strtab = IF name = ".strtab" THEN k ELSE ctx.strtab
         /\ Stored(name).nsyms = IF name = ".dynsym" THEN Len(Dynsym) ELSE ctx.nsyms
         /\ Stored(name).nsymtabs = IF name = ".symtab" THEN Len(Symtab) ELSE ctx.nsymtabs
         /\ Stored(name).load_addr = ctx.load_addr /\ Stored(name).bias = ctx.bias
<1>1. ctx \in Handles /\ Len(Dynsym) \in Nat /\ Len(Symtab) \in Nat
  BY FileFacts
<1>2. CASE name = ".symtab"
  BY <1>1, <1>2 DEF Stored, Handles
<1>3. CASE name = ".strtab"
  BY <1>1, <1>3 DEF Stored, Handles
<1>4. CASE name = ".dynsym"
  BY <1>1, <1>4 DEF Stored, Handles
<1>5. CASE name = ".dynstr"
  BY <1>1, <1>5 DEF Stored, Handles
<1> QED
  BY <1>2, <1>3, <1>4, <1>5 DEF SectionNames

(* The pointer of a section whose copy could not be allocated is null; a    *)
(* duplicate changes nothing.                                               *)
LEMMA FailedFields ==
  ASSUME TypeOK, SectionFails
  PROVE  /\ ctx' \in Handles
         /\ ctx'.dynsym = ctx.dynsym /\ ctx'.symtab = ctx.symtab
         /\ ctx'.dynstr = IF sections[k] = ".dynstr" THEN 0 ELSE ctx.dynstr
         /\ ctx'.strtab = IF sections[k] = ".strtab" THEN 0 ELSE ctx.strtab
         /\ ctx'.nsyms = ctx.nsyms /\ ctx'.nsymtabs = ctx.nsymtabs
<1>1. ctx \in Handles
  BY FileFacts
<1>2. k \in 1..Len(sections) /\ sections[k] \in SectionNames \ {".text"}
  BY FileFacts DEF SectionFails, TypeOK
<1>3. CASE Duplicate(sections[k])
  BY <1>1, <1>3 DEF SectionFails, Duplicate
<1>4. CASE ~Duplicate(sections[k]) /\ sections[k] = ".symtab"
  BY <1>1, <1>4 DEF SectionFails, Handles, Duplicate
<1>5. CASE ~Duplicate(sections[k]) /\ sections[k] = ".strtab"
  BY <1>1, <1>5 DEF SectionFails, Handles, Duplicate
<1>6. CASE ~Duplicate(sections[k]) /\ sections[k] = ".dynsym"
  BY <1>1, <1>6 DEF SectionFails, Handles, Duplicate
<1>7. CASE ~Duplicate(sections[k]) /\ sections[k] = ".dynstr"
  BY <1>1, <1>7 DEF SectionFails, Handles, Duplicate
<1> QED
  BY <1>2, <1>3, <1>4, <1>5, <1>6, <1>7 DEF SectionNames

-----------------------------------------------------------------------------

(* Freeing the blocks of a handle: what fake_dlclose and the error path do. *)
LEMMA Freeing ==
  ASSUME Inv, pc \in {"err_exit", "opened"}, CtxBlock \in live, Free(Closing)
  PROVE  /\ freed' \in Seq(Blocks) /\ Distinct(freed')
         /\ Range(freed') = {ctx.dynsym, ctx.dynstr, ctx.symtab, CtxBlock} \ {0}
         /\ live' = live \ Range(freed')
<1> DEFINE a == ctx.dynsym
           b == ctx.dynstr
           c == ctx.symtab
<1>1. ctx \in Handles /\ CtxBlock \in Nat \ {0} /\ freed = <<>> /\ k \in 1..CtxBlock
  BY FileFacts DEF Inv, FreedInv, TypeOK
<1>2. a \in {0} \cup Blocks /\ b \in {0} \cup Blocks /\ c \in {0} \cup Blocks
  BY <1>1 DEF Handles
<1>3. a \in Nat /\ b \in Nat /\ c \in Nat
  BY <1>1, <1>2 DEF Blocks
<1>4. /\ a # 0 => a < k /\ sections[a] = ".dynsym"
      /\ b # 0 => b < k /\ sections[b] = ".dynstr"
      /\ c # 0 => c < k /\ sections[c] = ".symtab"
  BY DEF Inv, TablesInv, IsOf
<1>5. a # CtxBlock /\ b # CtxBlock /\ c # CtxBlock
  BY <1>1, <1>3, <1>4
<1>6. (a = 0 \/ a # b) /\ (a = 0 \/ a # c) /\ (b = 0 \/ b # c)
  BY <1>4
<1>7. /\ Closing \in Seq(Nat) /\ Distinct(Closing)
      /\ Range(Closing) = {a, b, c, CtxBlock} \ {0}
  <2> HIDE DEF a, b, c
  <2>1. Closing = IfNotNull(a) \o IfNotNull(b) \o IfNotNull(c) \o <<CtxBlock>>
    BY DEF Closing, a, b, c
  <2>2. LET blocks == IfNotNull(a) \o IfNotNull(b) \o IfNotNull(c) \o <<CtxBlock>> IN
        /\ blocks \in Seq(Nat) /\ Distinct(blocks)
        /\ Range(blocks) = {a, b, c, CtxBlock} \ {0}
    BY ONLY <1>1, <1>3, <1>5, <1>6, ClosingBlocks
  <2> QED
    BY ONLY <2>1, <2>2
<1>8. freed' = Closing
  <2>1. freed' = freed \o Closing
    BY DEF Free
  <2> QED
    BY <1>1, <1>7, <2>1, ConcatEmptySeq
<1>9. Range(Closing) \subseteq Blocks
  <2>1. CtxBlock \in Blocks
    BY <1>1 DEF Blocks
  <2> QED
    BY <1>2, <1>7, <2>1
<1>10. Closing \in Seq(Blocks)
  <2>1. \A i \in 1..Len(Closing) : Closing[i] \in Blocks
    BY <1>7, <1>9, LenProperties DEF Range
  <2> QED
    BY <1>7, <2>1, IsASeq, LenProperties
<1>11. live' = live \ Range(Closing)
  BY DEF Free, Range
<1> QED
  BY <1>7, <1>8, <1>10, <1>11

(* The error path frees the blocks of the handle, if there is one.          *)
LEMMA Exiting ==
  ASSUME Inv, ErrExit
  PROVE  \/ live = {} /\ live' = {} /\ freed' = <<>>
         \/ /\ CtxBlock \in live
            /\ freed' \in Seq(Blocks) /\ Distinct(freed')
            /\ Range(freed') = {ctx.dynsym, ctx.dynstr, ctx.symtab, CtxBlock} \ {0}
            /\ live' = live \ Range(freed')
<1>1. pc = "err_exit" /\ freed = <<>> /\ (CtxBlock \in live \/ live = {})
  BY DEF ErrExit, Goto, Inv, FreedInv, BlockInv
<1>2. CASE CtxBlock \in live
  BY <1>1, <1>2, Freeing DEF ErrExit
<1>3. CASE CtxBlock \notin live
  BY <1>1, <1>3 DEF ErrExit
<1> QED
  BY <1>2, <1>3

LEMMA Closed ==
  ASSUME Inv, Close
  PROVE  /\ freed' \in Seq(Blocks) /\ Distinct(freed')
         /\ Range(freed') = {ctx.dynsym, ctx.dynstr, ctx.symtab, CtxBlock} \ {0}
         /\ live' = live \ Range(freed')
  BY Freeing DEF Close, Goto, Inv, BlockInv

(* What has to be shown of the variables that a step may change.            *)
LEMMA Typed ==
  ASSUME TypeOK, [Next]_vars,
         pc' = pc \/ pc' \in Working \cup {"opened", "failed", "closed"},
         fd' = fd \/ fd' \in {"closed", "open"},
         elf' = elf \/ elf' \in {"failed", "mapped", "null"},
         ctx' = ctx \/ ctx' \in Handles,
         live' = live \/ live' \subseteq Blocks,
         k' = k \/ k' \in 1..CtxBlock,
         freed' = freed \/ freed' \in Seq(Blocks),
         nullUnmap' = nullUnmap \/ nullUnmap' \in BOOLEAN
  PROVE  TypeOK'
<1>1. /\ loads' \in Segments /\ sections' \in Layouts /\ loadBias' \in LoadBiases
      /\ pc' \in Working' \cup {"opened", "failed", "closed"}
  BY FileStays DEF TypeOK, Working
<1>2. ctx' \in Handles'
  BY FileStays, FileFacts
<1>3. live' \subseteq Blocks' /\ freed' \in Seq(Blocks') /\ k' \in 1..CtxBlock'
  BY FileStays DEF TypeOK
<1>4. /\ fd' \in {"closed", "open"} /\ elf' \in {"failed", "mapped", "null"}
      /\ nullUnmap' \in BOOLEAN
  BY DEF TypeOK
<1> QED
  BY <1>1, <1>2, <1>3, <1>4 DEF TypeOK, Handles

(* Every step keeps the types.                                              *)
LEMMA KeepsType ==
  ASSUME Inv, [Next]_vars
  PROVE  TypeOK'
<1> USE FileFacts, FileStays DEF Inv
<1>2. ASSUME \/ FindMapping \/ Open \/ Lseek \/ Mmap
             \/ UNCHANGED vars
      PROVE  TypeOK'
  <2>1. UNCHANGED <<ctx, live, k, freed, nullUnmap>>
    BY <1>2 DEF FindMapping, Lseek, Test, Open, Mmap, vars
  <2>2. pc' \in Working \cup {"opened", "failed", "closed"}
    BY <1>2 DEF FindMapping, Lseek, Test, Open, Mmap, Goto, vars, TypeOK, Working
  <2>3. fd' \in {"closed", "open"} /\ elf' \in {"failed", "mapped", "null"}
    BY <1>2 DEF FindMapping, Lseek, Test, Open, Mmap, vars, TypeOK
  <2> QED
    BY <2>1, <2>2, <2>3 DEF TypeOK
<1>3. CASE Calloc
  <2>1. ctx' \in Handles
    <3>1. FirstMapping \in Nat /\ ctx \in Handles
      OBVIOUS
    <3>2. [NullCtx EXCEPT !.load_addr = FirstMapping] \in Handles
      <4> DEFINE first == FirstMapping
      <4>1. first \in Nat
        BY <3>1
      <4> HIDE DEF first
      <4>2. [NullCtx EXCEPT !.load_addr = first] \in Handles
        BY <4>1 DEF NullCtx, Handles
      <4> QED
        BY <4>2 DEF first
    <3> QED
      BY <1>3, <3>1, <3>2 DEF Calloc
  <2>2. live' \subseteq Blocks
    BY <1>3 DEF Calloc, TypeOK, Blocks
  <2>3. pc' \in Working /\ UNCHANGED <<fd, elf, k, freed, nullUnmap>>
    BY <1>3 DEF Calloc, Goto, Working
  <2> QED
    BY <2>1, <2>2, <2>3, Typed
<1>4. CASE ReadProgramHeaders
  <2> DEFINE ends == {0} \cup {loads[i].p_vaddr + loads[i].p_memsz : i \in DOMAIN loads}
             size == CHOOSE e \in ends : \A other \in ends : other <= e
  <2>1. size \in Nat
    BY SizeIsNat
  <2>2. ctx' = IF loads = <<>>
               THEN [ctx EXCEPT !.mem_size = size]
               ELSE [ctx EXCEPT !.mem_size = size,
                                !.bias = loads[1].p_vaddr,
                                !.base = ctx.load_addr - loads[1].p_vaddr]
    BY <1>4 DEF ReadProgramHeaders
  <2>3. loads # <<>> => loads[1].p_vaddr \in Nat
    <3>1. loads # <<>> => 1 \in 1..Len(loads)
      BY EmptySeq, LenProperties
    <3> QED
      BY <3>1, EndIsNat
  <2> HIDE DEF size
  <2>4. ctx' \in Handles
    <3>1. ctx \in Handles
      OBVIOUS
    <3>2. CASE loads = <<>>
      <4>1. ctx' = [ctx EXCEPT !.mem_size = size]
        BY <2>2, <3>2
      <4> QED
        BY ONLY <2>1, <3>1, <4>1 DEF Handles
    <3>3. CASE loads # <<>>
      <4> DEFINE first == loads[1].p_vaddr
                 start == ctx.load_addr - first
      <4>1. ctx' = [ctx EXCEPT !.mem_size = size, !.bias = first, !.base = start]
        BY <2>2, <3>3
      <4>2. first \in Nat /\ start \in Int
        <5>1. ctx.load_addr \in Nat
          BY <3>1 DEF Handles
        <5> QED
          BY <2>3, <3>3, <5>1
      <4> HIDE DEF first, start
      <4> QED
        BY ONLY <2>1, <3>1, <4>1, <4>2 DEF Handles
    <3> QED
      BY <3>2, <3>3
  <2>5. pc' \in Working /\ UNCHANGED <<fd, elf, live, k, freed, nullUnmap>>
    BY <1>4 DEF ReadProgramHeaders, Goto, Working
  <2> QED
    BY <2>4, <2>5, Typed
<1>5. CASE CopySection
  <2>1. k \in Blocks /\ k + 1 \in 1..CtxBlock
    BY <1>5 DEF CopySection, TypeOK, Blocks
  <2>2. ctx' \in Handles
    <3>1. sections[k] \in SectionNames \ {".text"}
      BY <1>5, <2>1 DEF CopySection, Blocks
    <3>2. Stored(sections[k]) \in Handles
      BY <2>1, <3>1, StoredFields
    <3> QED
      BY <1>5, <3>2 DEF CopySection
  <2>3. live' \subseteq Blocks /\ k' \in 1..CtxBlock
    BY <1>5, <2>1 DEF CopySection, TypeOK
  <2>4. UNCHANGED <<pc, fd, elf, freed, nullUnmap>>
    BY <1>5 DEF CopySection
  <2> QED
    BY <2>2, <2>3, <2>4, Typed
<1>6. CASE SkipSection
  <2>1. k' \in 1..CtxBlock
    BY <1>6 DEF SkipSection, TypeOK
  <2>2. UNCHANGED <<pc, fd, elf, ctx, live, freed, nullUnmap>>
    BY <1>6 DEF SkipSection
  <2> QED
    BY <2>1, <2>2, Typed
<1>7. CASE SectionFails
  <2>1. ctx' \in Handles
    BY <1>7, FailedFields
  <2>2. pc' \in Working /\ UNCHANGED <<fd, elf, live, k, freed, nullUnmap>>
    BY <1>7 DEF SectionFails, Goto, Working
  <2> QED
    BY <2>1, <2>2, Typed
<1>8. CASE Munmap
  <2>1. /\ pc' \in Working \cup {"opened", "failed", "closed"}
        /\ elf' \in {"failed", "mapped", "null"} /\ fd' \in {"closed", "open"}
        /\ nullUnmap' \in BOOLEAN
    BY <1>8 DEF Munmap, Goto, TypeOK, Working
  <2>2. UNCHANGED <<ctx, live, k, freed>>
    BY <1>8 DEF Munmap, Goto
  <2> QED
    BY <2>1, <2>2, Typed
<1>9. CASE ErrExit
  <2>1. freed' \in Seq(Blocks) /\ live' \subseteq live
    <3>1. <<>> \in Seq(Blocks)
      OBVIOUS
    <3> QED
      BY <1>9, <3>1, Exiting
  <2>2. /\ pc' = "failed" /\ fd' = "closed" /\ elf' \in {"failed", "mapped", "null"}
        /\ nullUnmap' \in BOOLEAN
        /\ UNCHANGED <<ctx, k>>
    BY <1>9 DEF ErrExit, Goto, TypeOK
  <2> QED
    BY <2>1, <2>2 DEF TypeOK
<1>10. CASE Close
  <2>1. freed' \in Seq(Blocks) /\ live' \subseteq live
    BY <1>10, Closed
  <2>2. pc' = "closed" /\ UNCHANGED <<fd, elf, ctx, k, nullUnmap>>
    BY <1>10 DEF Close, Goto
  <2> QED
    BY <2>1, <2>2 DEF TypeOK
<1> QED
  BY <1>2, <1>3, <1>4, <1>5, <1>6, <1>7, <1>8, <1>9, <1>10 DEF Next, FakeDlopen

-----------------------------------------------------------------------------

(* The steps before the handle is allocated leave it and the blocks alone.  *)
Quiet == FindMapping \/ Open \/ Lseek \/ Mmap \/ UNCHANGED vars

LEMMA QuietSteps ==
  ASSUME Quiet
  PROVE  /\ UNCHANGED <<ctx, live, k, freed, nullUnmap>>
         /\ UNCHANGED pc \/ (pc \in Early /\ pc' \in Early \cup {"err_exit"})
  BY DEF Quiet, Early, FindMapping, Lseek, Test, Open, Mmap, Goto, vars

LEMMA KeepsFile ==
  ASSUME Inv, [Next]_vars
  PROVE  FileInv'
<1> USE FileFacts, FileStays DEF Inv
<1>1. CASE FindMapping \/ Open \/ Lseek \/ Mmap \/ UNCHANGED vars
  BY <1>1 DEF FindMapping, Lseek, Test, Open, Mmap, Goto, vars, FileInv, TypeOK
<1>2. CASE Calloc \/ ReadProgramHeaders
  BY <1>2 DEF Calloc, ReadProgramHeaders, Goto, FileInv
<1>3. CASE CopySection \/ SkipSection \/ SectionFails
  BY <1>3 DEF CopySection, SkipSection, SectionFails, Goto, FileInv
<1>4. CASE Munmap
  <2>1. ctx.dynsym = 0 \/ ctx.dynstr = 0 => LacksTable
    <3>1. pc = "sections" /\ k > Len(sections)
      BY <1>4 DEF Munmap, Goto
    <3>2. \A i \in DOMAIN sections : i \in 1..(k - 1)
      BY <3>1, SectionsBehind
    <3> QED
      BY <3>1, <3>2 DEF CountInv, LacksTable, HasSection
  <2> QED
    BY <1>4, <2>1 DEF Munmap, Goto, FileInv
<1>5. CASE ErrExit
  BY <1>5 DEF ErrExit, Goto, FileInv
<1>6. CASE Close
  BY <1>6 DEF Close, Goto, FileInv
<1> QED
  BY <1>1, <1>2, <1>3, <1>4, <1>5, <1>6 DEF Next, FakeDlopen

LEMMA KeepsBlocks ==
  ASSUME Inv, [Next]_vars
  PROVE  BlockInv'
<1> USE FileFacts, FileStays DEF Inv
<1>1. CASE Quiet
  BY <1>1, QuietSteps DEF BlockInv, Early, NullCtx
<1>2. CASE Calloc
  BY <1>2 DEF Calloc, Goto, BlockInv, Early, TypeOK, NullCtx
<1>3. CASE ReadProgramHeaders
  BY <1>3 DEF ReadProgramHeaders, Goto, BlockInv, Early
<1>4. CASE CopySection
  <2>1. k \in 1..Len(sections) /\ live \subseteq 1..CtxBlock
    BY <1>4 DEF CopySection, TypeOK, Blocks
  <2>2. \A b \in live' : b < k' \/ b = CtxBlock
    BY <1>4, <2>1 DEF CopySection, BlockInv
  <2> QED
    BY <1>4, <2>1, <2>2 DEF CopySection, BlockInv, Early
<1>5. CASE SkipSection
  <2>1. k \in 1..Len(sections) /\ live \subseteq 1..CtxBlock
    BY <1>5 DEF SkipSection, TypeOK, Blocks
  <2> QED
    BY <1>5, <2>1 DEF SkipSection, BlockInv, Early
<1>6. CASE SectionFails
  BY <1>6 DEF SectionFails, Goto, BlockInv, Early
<1>7. CASE Munmap
  BY <1>7 DEF Munmap, Goto, BlockInv, Early
<1>8. CASE ErrExit
  <2>1. live' \subseteq live
    BY <1>8, Exiting
  <2> QED
    BY <1>8, <2>1 DEF ErrExit, Goto, BlockInv, Early
<1>9. CASE Close
  <2>1. live' \subseteq live
    BY <1>9, Closed
  <2> QED
    BY <1>9, <2>1 DEF Close, Goto, BlockInv, Early
<1> QED
  BY <1>1, <1>2, <1>3, <1>4, <1>5, <1>6, <1>7, <1>8, <1>9 DEF Next, FakeDlopen, Quiet

LEMMA KeepsTables ==
  ASSUME Inv, [Next]_vars
  PROVE  TablesInv'
<1> USE FileFacts, FileStays DEF Inv
<1>1. CASE Quiet
  BY <1>1, QuietSteps DEF TablesInv, IsOf, Early
<1>2. CASE Calloc
  BY <1>2 DEF Calloc, Goto, TablesInv, IsOf, NullCtx, BlockInv, Early
<1>3. CASE ReadProgramHeaders
  <2>1. /\ ctx'.dynsym = ctx.dynsym /\ ctx'.dynstr = ctx.dynstr
        /\ ctx'.symtab = ctx.symtab /\ ctx'.strtab = ctx.strtab
    BY <1>3 DEF ReadProgramHeaders, Handles
  <2> QED
    BY <1>3, <2>1 DEF ReadProgramHeaders, Goto, TablesInv, IsOf
<1>4. CASE CopySection
  <2> DEFINE name == sections[k]
  <2>1. k \in 1..Len(sections) /\ name \in SectionNames \ {".text"}
    BY <1>4 DEF CopySection, TypeOK
  <2>2. ctx' = Stored(name) /\ live' = live \cup {k} /\ k' = k + 1 /\ pc' = "sections"
    BY <1>4 DEF CopySection
  <2>3. \A b \in {0} \cup Blocks : b < k => b < k'
    BY <2>1, <2>2 DEF Blocks
  <2>4. ASSUME NEW b \in {0} \cup Blocks, NEW n, IsOf(b, n)
        PROVE  b # 0 => b < k' /\ sections[b] = n /\ b \in live'
    BY <1>4, <2>2, <2>3, <2>4 DEF IsOf, CopySection
  <2>5. k < k' /\ k \in live'
    BY <2>1, <2>2
  <2>6. /\ ctx'.dynsym = IF name = ".dynsym" THEN k ELSE ctx.dynsym
        /\ ctx'.dynstr = IF name = ".dynstr" THEN k ELSE ctx.dynstr
        /\ ctx'.symtab = IF name = ".symtab" THEN k ELSE ctx.symtab
        /\ ctx'.strtab = IF name = ".strtab" THEN k ELSE ctx.strtab
    BY <2>1, <2>2, StoredFields
  <2>7. /\ ctx.dynsym \in {0} \cup Blocks /\ ctx.dynstr \in {0} \cup Blocks
        /\ ctx.symtab \in {0} \cup Blocks /\ ctx.strtab \in {0} \cup Blocks
    BY DEF Handles
  <2>8. /\ IsOf(ctx.dynsym, ".dynsym")' /\ IsOf(ctx.dynstr, ".dynstr")'
        /\ IsOf(ctx.symtab, ".symtab")' /\ IsOf(ctx.strtab, ".strtab")'
    BY <2>4, <2>5, <2>6, <2>7 DEF TablesInv, IsOf
  <2> QED
    BY <2>8 DEF TablesInv
<1>5. CASE SkipSection
  <2>1. /\ ctx.dynsym \in {0} \cup Blocks /\ ctx.dynstr \in {0} \cup Blocks
        /\ ctx.symtab \in {0} \cup Blocks /\ ctx.strtab \in {0} \cup Blocks
    BY DEF Handles
  <2>2. \A b \in {0} \cup Blocks : b < k => b < k'
    BY <1>5 DEF Blocks, SkipSection, TypeOK
  <2> QED
    BY <1>5, <2>1, <2>2 DEF SkipSection, TablesInv, IsOf
<1>6. CASE SectionFails
  <2>1. pc = "sections" /\ pc' = "err_exit" /\ UNCHANGED <<live, k>>
    BY <1>6 DEF SectionFails, Goto
  <2> QED
    BY <1>6, <2>1, FailedFields DEF TablesInv, IsOf
<1>7. CASE Munmap
  BY <1>7 DEF Munmap, Goto, TablesInv, IsOf
<1>8. CASE ErrExit
  BY <1>8 DEF ErrExit, Goto, TablesInv, IsOf
<1>9. CASE Close
  BY <1>9 DEF Close, Goto, TablesInv, IsOf
<1> QED
  BY <1>1, <1>2, <1>3, <1>4, <1>5, <1>6, <1>7, <1>8, <1>9 DEF Next, FakeDlopen, Quiet

LEMMA KeepsPointed ==
  ASSUME Inv, [Next]_vars
  PROVE  PointedInv'
<1> USE FileFacts, FileStays DEF Inv
<1>1. CASE Quiet
  BY <1>1, QuietSteps DEF PointedInv, Replaced, Early, BlockInv
<1>2. CASE Calloc
  BY <1>2 DEF Calloc, Goto, PointedInv, BlockInv, Early
<1>3. CASE ReadProgramHeaders
  <2>1. /\ ctx'.dynsym = ctx.dynsym /\ ctx'.dynstr = ctx.dynstr /\ ctx'.symtab = ctx.symtab
    BY <1>3 DEF ReadProgramHeaders, Handles
  <2> QED
    BY <1>3, <2>1 DEF ReadProgramHeaders, Goto, PointedInv, Replaced
<1>4. CASE CopySection
  <2> DEFINE name == sections[k]
  <2>1. /\ k \in 1..Len(sections) /\ name \in SectionNames \ {".text"} /\ ~Duplicate(name)
        /\ live \subseteq 1..CtxBlock
    BY <1>4 DEF CopySection, TypeOK, Blocks
  <2>2. ctx' = Stored(name) /\ live' = live \cup {k} /\ k' = k + 1 /\ pc = "sections"
    BY <1>4 DEF CopySection
  <2>3. /\ ctx'.dynsym = IF name = ".dynsym" THEN k ELSE ctx.dynsym
        /\ ctx'.dynstr = IF name = ".dynstr" THEN k ELSE ctx.dynstr
        /\ ctx'.symtab = IF name = ".symtab" THEN k ELSE ctx.symtab
    BY <2>1, <2>2, StoredFields
  <2>4. SUFFICES ASSUME NEW b \in live' \ {CtxBlock}
                 PROVE  /\ sections[b] = ".dynsym" => b = ctx'.dynsym
                        /\ sections[b] = ".symtab" => b = ctx'.symtab
                        /\ sections[b] = ".dynstr" => b = ctx'.dynstr \/ Replaced(b)'
                        /\ sections[b] # ".text"
    BY DEF PointedInv
  <2>5. CASE b = k
    BY <2>1, <2>3, <2>5
  <2>6. CASE b # k
    <3>1. b \in live \ {CtxBlock} /\ b \in 1..Len(sections) /\ b < k
      BY <2>1, <2>2, <2>6 DEF BlockInv
    <3>2. /\ sections[b] = ".dynsym" => b = ctx.dynsym
          /\ sections[b] = ".symtab" => b = ctx.symtab
          /\ sections[b] = ".dynstr" => b = ctx.dynstr \/ Replaced(b)
          /\ sections[b] # ".text"
      BY <2>2, <3>1 DEF PointedInv
    <3>3. Replaced(b) => Replaced(b)'
      BY <2>1, <2>2, <3>1 DEF Replaced
    <3>4. name = ".dynstr" => Replaced(b)'
      BY <2>1, <2>2, <3>1 DEF Replaced
    <3> QED
      BY <2>1, <2>3, <3>1, <3>2, <3>3, <3>4 DEF Duplicate
  <2> QED
    BY <2>5, <2>6
<1>5. CASE SkipSection
  <2>1. live \subseteq 1..CtxBlock /\ k \in 1..Len(sections) /\ k' = k + 1
    BY <1>5 DEF SkipSection, TypeOK, Blocks
  <2>2. ASSUME NEW b \in live, Replaced(b) PROVE Replaced(b)'
    BY <2>1, <2>2 DEF Replaced
  <2> QED
    BY <1>5, <2>2 DEF SkipSection, PointedInv
<1>6. CASE SectionFails
  <2>1. /\ pc = "sections" /\ UNCHANGED <<live, k>>
        /\ k \in 1..Len(sections) /\ live \subseteq 1..CtxBlock
    BY <1>6 DEF SectionFails, Goto, TypeOK, Blocks
  <2>2. ASSUME NEW b \in live \ {CtxBlock} PROVE b \in Nat /\ b < k
    BY <2>1 DEF BlockInv
  <2>3. ASSUME NEW b \in live \ {CtxBlock}, sections[k] = ".dynstr" PROVE Replaced(b)'
    BY <2>1, <2>2, <2>3 DEF Replaced
  <2>4. \A b : Replaced(b)' = Replaced(b)
    BY <2>1 DEF Replaced
  <2> QED
    BY <2>1, <2>3, <2>4, <1>6, FailedFields DEF PointedInv
<1>7. CASE Munmap
  BY <1>7 DEF Munmap, Goto, PointedInv, Replaced
<1>8. CASE ErrExit
  BY <1>8 DEF ErrExit, Goto, PointedInv
<1>9. CASE Close
  BY <1>9 DEF Close, Goto, PointedInv
<1> QED
  BY <1>1, <1>2, <1>3, <1>4, <1>5, <1>6, <1>7, <1>8, <1>9 DEF Next, FakeDlopen, Quiet

LEMMA KeepsCount ==
  ASSUME Inv, [Next]_vars
  PROVE  CountInv'
<1> USE FileFacts, FileStays DEF Inv
<1>1. CASE Quiet
  BY <1>1, QuietSteps DEF CountInv, Early
<1>2. CASE Calloc
  BY <1>2 DEF Calloc, Goto, CountInv, NullCtx
<1>3. CASE ReadProgramHeaders
  <2>1. /\ ctx'.dynsym = ctx.dynsym /\ ctx'.dynstr = ctx.dynstr
        /\ ctx'.symtab = ctx.symtab /\ ctx'.strtab = ctx.strtab
        /\ ctx'.nsyms = ctx.nsyms /\ ctx'.nsymtabs = ctx.nsymtabs
    BY <1>3 DEF ReadProgramHeaders, Handles
  <2>2. k' = 1 /\ pc' = "sections"
    BY <1>3 DEF ReadProgramHeaders, Goto, BlockInv
  <2> QED
    BY <2>1, <2>2 DEF CountInv
<1>4. CASE CopySection
  <2> DEFINE name == sections[k]
  <2>1. k \in 1..Len(sections) /\ name \in SectionNames \ {".text"}
    BY <1>4 DEF CopySection, TypeOK
  <2>2. ctx' = Stored(name) /\ k' = k + 1 /\ pc = "sections" /\ pc' = "sections"
    BY <1>4 DEF CopySection
  <2>3. /\ ctx'.dynsym = IF name = ".dynsym" THEN k ELSE ctx.dynsym
        /\ ctx'.dynstr = IF name = ".dynstr" THEN k ELSE ctx.dynstr
        /\ ctx'.symtab = IF name = ".symtab" THEN k ELSE ctx.symtab
        /\ ctx'.strtab = IF name = ".strtab" THEN k ELSE ctx.strtab
        /\ ctx'.nsyms = IF name = ".dynsym" THEN Len(Dynsym) ELSE ctx.nsyms
        /\ ctx'.nsymtabs = IF name = ".symtab" THEN Len(Symtab) ELSE ctx.nsymtabs
    BY <2>1, <2>2, StoredFields
  <2>4. k # 0 /\ \A i \in 1..(k' - 1) : i = k \/ i \in 1..(k - 1)
    BY <2>1, <2>2
  <2>5. /\ ctx'.nsyms = IF ctx'.dynsym = 0 THEN 0 ELSE Len(Dynsym)
        /\ ctx'.nsymtabs = IF ctx'.symtab = 0 THEN 0 ELSE Len(Symtab)
    BY <2>3, <2>4 DEF CountInv
  <2>6. \A i \in 1..(k' - 1) :
         /\ sections[i] = ".dynsym" => ctx'.dynsym # 0
         /\ sections[i] = ".dynstr" => ctx'.dynstr # 0
         /\ sections[i] = ".symtab" => ctx'.symtab # 0
         /\ sections[i] = ".strtab" => ctx'.strtab # 0
    BY <2>2, <2>3, <2>4 DEF CountInv
  <2> QED
    BY <2>2, <2>5, <2>6 DEF CountInv
<1>5. CASE SkipSection
  <2>1. /\ k \in 1..Len(sections) /\ sections[k] = ".text" /\ k' = k + 1
        /\ pc = "sections" /\ pc' = "sections" /\ ctx' = ctx
    BY <1>5 DEF SkipSection, TypeOK
  <2>2. \A i \in 1..(k' - 1) : i = k \/ i \in 1..(k - 1)
    BY <2>1
  <2> QED
    BY <2>1, <2>2 DEF CountInv
<1>6. CASE SectionFails
  BY <1>6, FailedFields DEF SectionFails, Goto, CountInv
<1>7. CASE Munmap
  BY <1>7 DEF Munmap, Goto, CountInv
<1>8. CASE ErrExit
  BY <1>8 DEF ErrExit, Goto, CountInv
<1>9. CASE Close
  BY <1>9 DEF Close, Goto, CountInv
<1> QED
  BY <1>1, <1>2, <1>3, <1>4, <1>5, <1>6, <1>7, <1>8, <1>9 DEF Next, FakeDlopen, Quiet

LEMMA KeepsAddress ==
  ASSUME Inv, [Next]_vars
  PROVE  AddressInv'
<1> USE FileFacts, FileStays DEF Inv
<1>1. CASE Quiet
  BY <1>1, QuietSteps DEF AddressInv, Early
<1>2. CASE ReadProgramHeaders
  <2>1. ctx.load_addr = FirstMapping /\ ctx.bias = 0
    BY <1>2 DEF ReadProgramHeaders, Goto, BlockInv, NullCtx
  <2>2. /\ ctx'.load_addr = ctx.load_addr
        /\ ctx'.bias = IF loads = <<>> THEN ctx.bias ELSE loads[1].p_vaddr
    BY <1>2 DEF ReadProgramHeaders, Handles
  <2> QED
    BY <2>1, <2>2 DEF AddressInv
<1>3. CASE CopySection
  <2>1. sections[k] \in SectionNames \ {".text"} /\ ctx' = Stored(sections[k])
    BY <1>3 DEF CopySection, TypeOK
  <2> QED
    BY <1>3, <2>1, StoredFields DEF CopySection, AddressInv
<1>4. CASE SkipSection
  BY <1>4 DEF SkipSection, AddressInv
<1>5. CASE Munmap
  BY <1>5 DEF Munmap, Goto, AddressInv
<1>6. CASE Calloc \/ SectionFails \/ ErrExit \/ Close
  BY <1>6 DEF Calloc, SectionFails, ErrExit, Close, Goto, AddressInv
<1> QED
  BY <1>1, <1>2, <1>3, <1>4, <1>5, <1>6 DEF Next, FakeDlopen, Quiet

(* After the blocks of a handle are freed, only string tables are left.     *)
LEMMA Freed ==
  ASSUME Inv, [Next]_vars, pc \in {"err_exit", "opened"}, UNCHANGED <<ctx, k>>,
         freed' \in Seq(Blocks), Distinct(freed'),
         Range(freed') = {ctx.dynsym, ctx.dynstr, ctx.symtab, CtxBlock} \ {0},
         live' = live \ Range(freed')
  PROVE  FreedOnce' /\ OnlyStringTablesLeak'
<1> USE FileFacts, FileStays DEF Inv
<1>1. \A i \in DOMAIN freed' : freed'[i] \in Range(freed')
  BY DEF Range
<1>2. \A b \in Range(freed') : b < k \/ b = CtxBlock
  BY DEF TablesInv, IsOf
<1>3. FreedOnce'
  BY <1>1, <1>2 DEF FreedOnce, Distinct
<1>4. ASSUME NEW b \in live'
      PROVE  /\ b \in DOMAIN sections
             /\ \/ sections[b] = ".strtab"
                \/ sections[b] = ".dynstr" /\ Replaced(b)
  <2>1. b \in live \ {CtxBlock} /\ b \in 1..CtxBlock
    BY <1>4 DEF TypeOK, Blocks
  <2>2. b \in DOMAIN sections /\ sections[b] \in SectionNames
    BY <2>1
  <2>3. b # ctx.dynsym /\ b # ctx.dynstr /\ b # ctx.symtab
    BY <1>4, <2>1
  <2>4. /\ sections[b] = ".dynsym" => b = ctx.dynsym
        /\ sections[b] = ".symtab" => b = ctx.symtab
        /\ sections[b] = ".dynstr" => b = ctx.dynstr \/ Replaced(b)
        /\ sections[b] # ".text"
    BY <2>1 DEF PointedInv
  <2> QED
    BY <2>2, <2>3, <2>4 DEF SectionNames
<1>5. OnlyStringTablesLeak'
  BY <1>4 DEF OnlyStringTablesLeak, Replaced
<1> QED
  BY <1>3, <1>5

LEMMA KeepsFreed ==
  ASSUME Inv, [Next]_vars
  PROVE  FreedInv'
<1> USE FileFacts, FileStays DEF Inv
<1>1. ASSUME pc \notin {"failed", "closed"}, pc' \notin {"failed", "closed"}, freed' = freed
      PROVE  FreedInv'
  BY <1>1 DEF FreedInv, FreedOnce, OnlyStringTablesLeak
<1>2. CASE FindMapping \/ Open \/ Lseek \/ Mmap \/ Calloc \/ ReadProgramHeaders
  BY <1>1, <1>2 DEF FindMapping, Lseek, Test, Open, Mmap, Calloc, ReadProgramHeaders, Goto
<1>3. CASE CopySection \/ SkipSection \/ SectionFails \/ Munmap
  BY <1>1, <1>3 DEF CopySection, SkipSection, SectionFails, Munmap, Goto
<1>4. CASE ErrExit
  <2>1. pc = "err_exit" /\ pc' = "failed" /\ UNCHANGED <<ctx, k>>
    BY <1>4 DEF ErrExit, Goto
  <2>2. CASE live = {} /\ live' = {} /\ freed' = <<>>
    BY <2>1, <2>2 DEF FreedInv, FreedOnce, OnlyStringTablesLeak
  <2>3. CASE /\ CtxBlock \in live
             /\ freed' \in Seq(Blocks) /\ Distinct(freed')
             /\ Range(freed') = {ctx.dynsym, ctx.dynstr, ctx.symtab, CtxBlock} \ {0}
             /\ live' = live \ Range(freed')
    BY <2>1, <2>3, Freed DEF FreedInv
  <2> QED
    BY <1>4, <2>2, <2>3, Exiting
<1>5. CASE Close
  <2>1. pc = "opened" /\ pc' = "closed" /\ UNCHANGED <<ctx, k>>
    BY <1>5 DEF Close, Goto
  <2> QED
    BY <1>5, <2>1, Closed, Freed DEF FreedInv
<1>6. CASE UNCHANGED vars
  BY <1>6 DEF vars, FreedInv, FreedOnce, OnlyStringTablesLeak
<1> QED
  BY <1>2, <1>3, <1>4, <1>5, <1>6 DEF Next, FakeDlopen

-----------------------------------------------------------------------------

LEMMA InitInv ==
  ASSUME Init
  PROVE  Inv
<1>1. TypeOK
  <2>1. sections \in Seq(SectionNames) /\ Len(sections) \in Nat
    BY LayoutsOK, LenProperties DEF Init
  <2>2. ctx \in Handles
    BY DEF Init, NullCtx, Handles
  <2>3. <<>> \in Seq(Blocks) /\ 1 \in 1..CtxBlock
    BY <2>1 DEF CtxBlock
  <2> QED
    BY <2>2, <2>3 DEF Init, TypeOK, Working, Handles
<1>2. FileInv /\ BlockInv /\ TablesInv /\ AddressInv
  BY DEF Init, FileInv, BlockInv, TablesInv, IsOf, AddressInv, NullCtx, Early
<1>3. PointedInv /\ CountInv
  BY DEF Init, PointedInv, CountInv, NullCtx
<1>4. FreedInv
  BY DEF Init, FreedInv, FreedOnce, OnlyStringTablesLeak
<1> QED
  BY <1>1, <1>2, <1>3, <1>4 DEF Inv

LEMMA StepInv ==
  ASSUME Inv, [Next]_vars
  PROVE  Inv'
<1>1. TypeOK' /\ FileInv' /\ BlockInv' /\ TablesInv'
  BY KeepsType, KeepsFile, KeepsBlocks, KeepsTables
<1>2. PointedInv' /\ CountInv' /\ AddressInv' /\ FreedInv'
  BY KeepsPointed, KeepsCount, KeepsAddress, KeepsFreed
<1> QED
  BY <1>1, <1>2 DEF Inv

(* The invariant, TypeOK included, holds for every file and every failure.  *)
THEOREM Invariance == Spec => []Inv
<1>1. Init => Inv
  BY InitInv
<1>2. Inv /\ [Next]_vars => Inv'
  BY StepInv
<1> QED
  BY <1>1, <1>2, PTL DEF Spec

(* FileIsReleased of any file: every return of fake_dlopen, on every error  *)
(* path, has closed the descriptor and unmapped the view.                   *)
THEOREM FileReleased == Spec => []FileIsReleased
<1>1. Inv => FileIsReleased
  BY DEF Inv, FileInv, FileIsReleased, Returned, TypeOK
<1> QED
  BY <1>1, Invariance, PTL

(* HandleIsUsable of any file: the tables of an opened handle are allocated, *)
(* of the right sections, and as long as nsyms and nsymtabs say.            *)
THEOREM HandlesAreUsable == Spec => []HandleIsUsable
<1>1. ASSUME Inv PROVE HandleIsUsable
  <2> SUFFICES ASSUME pc = "opened" PROVE HandleIsUsable
    BY DEF HandleIsUsable
  <2>1. CtxBlock \in live
    BY <1>1 DEF Inv, BlockInv
  <2>2. ctx.dynsym # 0 /\ ctx.dynstr # 0 /\ ctx.nsyms = Len(Dynsym)
    BY <1>1 DEF Inv, CountInv
  <2>3. \A i \in DOMAIN sections : i \in 1..(k - 1)
    BY <1>1, SectionsBehind DEF Inv, CountInv
  <2>4. HasSection(".symtab") => ctx.symtab # 0
    BY <1>1, <2>3 DEF Inv, CountInv, HasSection
  <2>5. HasSection(".strtab") => ctx.strtab # 0
    BY <1>1, <2>3 DEF Inv, CountInv, HasSection
  <2>6. ctx.symtab # 0 => HasSection(".symtab")
    <3>1. ctx.symtab # 0 => ctx.symtab \in Blocks /\ ctx.symtab < k
      BY <1>1, FileFacts DEF Inv, TablesInv, IsOf, Handles
    <3>2. k \in 1..CtxBlock
      BY <1>1 DEF Inv, TypeOK
    <3>3. ctx.symtab # 0 => ctx.symtab \in DOMAIN sections
      BY <1>1, <3>1, <3>2, FileFacts DEF Inv, Blocks
    <3> QED
      BY <1>1, <3>3 DEF Inv, TablesInv, IsOf, HasSection
  <2>7. /\ IsOf(ctx.dynsym, ".dynsym") /\ IsOf(ctx.dynstr, ".dynstr")
        /\ IsOf(ctx.symtab, ".symtab") /\ IsOf(ctx.strtab, ".strtab")
    BY <1>1 DEF Inv, TablesInv
  <2>8. ctx.nsymtabs = IF ctx.symtab = 0 THEN 0 ELSE Len(Symtab)
    BY <1>1 DEF Inv, CountInv
  <2> QED
    BY <2>1, <2>2, <2>4, <2>5, <2>6, <2>7, <2>8 DEF HandleIsUsable, IsOf
<1> QED
  BY <1>1, Invariance, PTL

(* FreedOnce of any file: no error path, and no fake_dlclose, frees a block *)
(* twice or one that was not allocated.                                     *)
THEOREM NothingFreedTwice == Spec => []FreedOnce
<1>1. Inv => FreedOnce
  BY DEF Inv, FreedInv
<1> QED
  BY <1>1, Invariance, PTL

(* OnlyKnownDefects of any file: only string tables leak, and address 0 is  *)
(* unmapped only for a file without the dynamic tables.                     *)
THEOREM DefectsAreKnown == Spec => []OnlyKnownDefects
<1>1. Inv => OnlyKnownDefects
  BY DEF Inv, FreedInv, FileInv, LacksTable, OnlyKnownDefects, NullUnmapNeedsMissingTable
<1> QED
  BY <1>1, Invariance, PTL

(* What fake_dlsym computes for an entry it found is where the system's     *)
(* linker put the entry, if the first segment starts a page.                *)
LEMMA FoundIsBound ==
  ASSUME Inv, pc = "opened", NEW table \in Seq(Symbol), NEW name,
         NEW n \in DOMAIN table, table[n].name = name
  PROVE  LET i == FirstEntry(table, name)
         IN  /\ i \in DOMAIN table /\ table[i].name = name
             /\ \/ loads # <<>> /\ PageStart(loads[1].p_vaddr) # loads[1].p_vaddr
                \/ Found(table, name).addr = loadBias + table[i].st_value
<1> DEFINE i == FirstEntry(table, name)
           value == table[i].st_value
<1>1. i \in DOMAIN table /\ table[i].name = name
  BY FirstEntryExists
<1>2. value \in Nat
  <2>1. i \in 1..Len(table)
    BY <1>1, LenProperties
  <2>2. table[i] \in Symbol
    BY <2>1, ElementOfSeq
  <2> QED
    BY <2>2 DEF Symbol
<1>3. loadBias \in Nat
  BY AddressesOK DEF Inv, TypeOK
<1>4. ctx.load_addr = FirstMapping /\ ctx.bias = IF loads = <<>> THEN 0 ELSE loads[1].p_vaddr
  BY DEF Inv, AddressInv
<1>5. Found(table, name).addr = ctx.load_addr + value - ctx.bias
  BY DEF Found, Answer
<1> HIDE DEF value
<1>6. CASE loads = <<>>
  BY <1>1, <1>2, <1>3, <1>4, <1>5, <1>6 DEF FirstMapping, value
<1>7. CASE loads # <<>> /\ PageStart(loads[1].p_vaddr) = loads[1].p_vaddr
  <2> DEFINE first == loads[1].p_vaddr
  <2>1. first \in Nat
    <3>1. loads \in Seq(Segment)
      BY FileFacts DEF Inv
    <3>2. 1 \in 1..Len(loads)
      BY <1>7, <3>1, EmptySeq, LenProperties
    <3> QED
      BY <3>1, <3>2, EndIsNat
  <2>2. ctx.load_addr = loadBias + first /\ ctx.bias = first
    BY <1>4, <1>7 DEF FirstMapping
  <2> HIDE DEF first
  <2>3. Found(table, name).addr = loadBias + value
    BY <1>2, <1>3, <1>5, <2>1, <2>2
  <2> QED
    BY <1>1, <2>3 DEF value
<1> QED
  BY <1>1, <1>6, <1>7

(* LookupFindsDefinition of any file, symbol tables and load address.       *)
THEOREM LookupIsRight == Spec => []LookupFindsDefinition
<1>1. ASSUME Inv, HandleIsUsable PROVE LookupFindsDefinition
  <2> SUFFICES ASSUME pc = "opened", NEW name \in Names
               PROVE  CASE Dlsym(name).kind = "zero" ->
                             /\ ~Defines(Dynsym, name)
                             /\ HasSection(".symtab") => ~Defines(Symtab, name)
                        [] Dlsym(name).kind = "crash" ->
                             HasSection(".symtab") /\ ~HasSection(".strtab")
                        [] Dlsym(name).kind = "address" ->
                             \/ loads # <<>> /\ PageStart(loads[1].p_vaddr) # loads[1].p_vaddr
                             \/ Imports(Dynsym, name) \/ Imports(Symtab, name)
                             \/ \E table \in {Dynsym, Symtab} : \E i \in DOMAIN table :
                                  /\ table[i].name = name
                                  /\ table[i].defined
                                  /\ Dlsym(name).addr = loadBias + table[i].st_value
    BY DEF LookupFindsDefinition
  <2>1. /\ ctx.nsyms = Len(Dynsym) /\ DOMAIN Dynsym = 1..Len(Dynsym)
        /\ DOMAIN Symtab = 1..Len(Symtab) /\ Len(Symtab) \in Nat
        /\ IF HasSection(".symtab") THEN ctx.nsymtabs = Len(Symtab) ELSE ctx.nsymtabs = 0
        /\ HasSection(".strtab") => ctx.strtab \in live
    BY <1>1, FileFacts DEF HandleIsUsable, Inv
  <2>2. 0 \notin live
    BY <1>1, FileFacts DEF Inv, TypeOK, Blocks
  <2>3. CASE Has(Dynsym, ctx.nsyms, name)
    <3>1. Dlsym(name) = Found(Dynsym, name) /\ Dlsym(name).kind = "address"
      BY <2>3 DEF Dlsym, Found, Answer
    <3>2. PICK n \in DOMAIN Dynsym : Dynsym[n].name = name
      BY <2>1, <2>3 DEF Has
    <3>3. LET i == FirstEntry(Dynsym, name)
          IN  /\ i \in DOMAIN Dynsym /\ Dynsym[i].name = name
              /\ \/ loads # <<>> /\ PageStart(loads[1].p_vaddr) # loads[1].p_vaddr
                 \/ Found(Dynsym, name).addr = loadBias + Dynsym[i].st_value
      BY <1>1, <3>2, FoundIsBound, SymbolsOK
    <3> QED
      BY <3>1, <3>3 DEF Imports
  <2>4. CASE ~Has(Dynsym, ctx.nsyms, name) /\ ctx.nsymtabs > 0 /\ ctx.strtab = 0
    <3>1. Dlsym(name).kind = "crash"
      BY <2>4 DEF Dlsym, Answer
    <3>2. HasSection(".symtab") /\ ~HasSection(".strtab")
      BY <2>1, <2>2, <2>4
    <3> QED
      BY <3>1, <3>2
  <2>5. CASE ~Has(Dynsym, ctx.nsyms, name) /\ ~(ctx.nsymtabs > 0 /\ ctx.strtab = 0)
    <3>1. CASE Has(Symtab, ctx.nsymtabs, name)
      <4>1. Dlsym(name) = Found(Symtab, name) /\ Dlsym(name).kind = "address"
        BY <2>5, <3>1 DEF Dlsym, Found, Answer
      <4>2. PICK n \in DOMAIN Symtab : Symtab[n].name = name
        BY <2>1, <3>1 DEF Has
      <4>3. LET i == FirstEntry(Symtab, name)
            IN  /\ i \in DOMAIN Symtab /\ Symtab[i].name = name
                /\ \/ loads # <<>> /\ PageStart(loads[1].p_vaddr) # loads[1].p_vaddr
                   \/ Found(Symtab, name).addr = loadBias + Symtab[i].st_value
        BY <1>1, <4>2, FoundIsBound, SymbolsOK
      <4> QED
        BY <4>1, <4>3 DEF Imports
    <3>2. CASE ~Has(Symtab, ctx.nsymtabs, name)
      <4>1. Dlsym(name).kind = "zero"
        BY <2>5, <3>2 DEF Dlsym, Answer
      <4>2. ~Defines(Dynsym, name)
        BY <2>1, <2>5 DEF Has, Defines
      <4>3. HasSection(".symtab") => ~Defines(Symtab, name)
        BY <2>1, <3>2 DEF Has, Defines
      <4> QED
        BY <4>1, <4>2, <4>3
    <3> QED
      BY <3>1, <3>2
  <2> QED
    BY <2>3, <2>4, <2>5
<1> QED
  BY <1>1, Invariance, HandlesAreUsable, PTL
=============================================================================
