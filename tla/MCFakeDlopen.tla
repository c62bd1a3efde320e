----------------------------- MODULE MCFakeDlopen -----------------------------
(* Instances of FakeDlopen for TLC: every list of at most MaxSections       *)
(* section headers; files that start at page 0, at a later page and inside  *)
(* a page.                                                                  *)
EXTENDS FakeDlopen

CONSTANT MaxSections

MCNames == {"a", "b", "c", "d", "e"}

MCSegments ==
  {<<[p_vaddr |-> 0, p_memsz |-> 3], [p_vaddr |-> 8, p_memsz |-> 6]>>,
   <<[p_vaddr |-> 4, p_memsz |-> 2]>>,
   <<[p_vaddr |-> 2, p_memsz |-> 9], [p_vaddr |-> 12, p_memsz |-> 1]>>}

MCLayouts == UNION {[1..n -> SectionNames] : n \in 0..MaxSections}

Definition(name, value) == [name |-> name, st_value |-> value, defined |-> TRUE]

Import(name) == [name |-> name, st_value |-> 0, defined |-> FALSE]

(* b is imported only, c is local, e is imported before it is defined.      *)
MCDynsym == <<Definition("a", 5), Import("b"), Import("e"), Definition("e", 9)>>

MCSymtab == <<Definition("c", 7), Definition("a", 5), Definition("e", 9)>>
=============================================================================
