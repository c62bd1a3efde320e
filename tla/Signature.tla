------------------------------- MODULE Signature -------------------------------
(***************************************************************************)
(* The helpers of HookEntry.java the tracer calls through JNI to describe a *)
(* method: getMethodShorty, getMethodSig and their variants for             *)
(* constructors.  The native side reads the va_list of a call by the letters *)
(* of the shorty and logs the signature.                                    *)
(*                                                                         *)
(* A class is an element (a primitive type or a class name) under a number  *)
(* of array dimensions; a string is a sequence of its letters, with a class *)
(* name as one letter.  The two strings are built side by side, one         *)
(* parameter at a time, as the loops of the code build each.                *)
(***************************************************************************)
EXTENDS Integers, Sequences

CONSTANTS
  ClassNames,     \* names of classes, in their internal form
  MaxDimensions,  \* bound: array dimensions of a type
  MaxParameters   \* bound: parameters of a method

ASSUME BoundsOK == MaxDimensions \in Nat /\ MaxParameters \in Nat

(* The classes for which Class.isPrimitive() holds.                         *)
Primitives ==
  {"boolean", "byte", "char", "short", "int", "float", "double", "long", "void"}

(* Their names are keywords of Java, and no class has one of them.          *)
ASSUME NamesAreNotPrimitive == ClassNames \cap Primitives = {}

Class(element, dims) == [element |-> element, dims |-> dims]

Classes ==
  {Class(e, d) : e \in (Primitives \ {"void"}) \cup ClassNames, d \in 0..MaxDimensions}

Void == Class("void", 0)

VARIABLES
  isInit,      \* a constructor is described
  parameters,  \* getParameterTypes()
  result,      \* getReturnType(); void for a constructor
  next,        \* the parameter the loops are at
  shorty, sig, \* the strings under construction
  pc           \* "loop" or "done"

vars == <<isInit, parameters, result, next, shorty, sig, pc>>

IsPrimitive(c) == c.dims = 0 /\ c.element \in Primitives

(* Class.getName(): that of an array is its descriptor, which begins with a *)
(* bracket and is the name of no other class.                               *)
NameOf(c) == IF c.dims > 0 THEN "[" ELSE c.element

(* Mutation of ShortyCases: a long is taken for a class.                    *)
ShortyCasesWithoutLong ==
  [boolean |-> "Z", byte |-> "B", char |-> "C", short |-> "S", int |-> "I",
   float |-> "F", double |-> "D", long |-> "L", void |-> "V"]

(* getShortyLetter's switch over Class.getName(), and its default.          *)
ShortyCases ==
  [boolean |-> "Z", byte |-> "B", char |-> "C", short |-> "S", int |-> "I",
   float |-> "F", double |-> "D", long |-> "J", void |-> "V"]

ShortyLetter(c) ==
  IF NameOf(c) \in DOMAIN ShortyCases THEN ShortyCases[NameOf(c)] ELSE "L"

(* getPrimitiveLetter compares with the class objects, in its own order.    *)
PrimitiveLetter ==
  [int |-> "I", void |-> "V", boolean |-> "Z", char |-> "C", byte |-> "B",
   short |-> "S", float |-> "F", long |-> "J", double |-> "D"]

(* Mutation of Desc: the name of a class is not closed.                     *)
OpenDesc[c \in Classes \cup {Void}] ==
  IF IsPrimitive(c) THEN <<PrimitiveLetter[c.element]>>
  ELSE IF c.dims > 0 THEN <<"[">> \o OpenDesc[Class(c.element, c.dims - 1)]
  ELSE <<"L", c.element>>

DescWithoutEnd(c) == OpenDesc[c]

(* getDesc: descends through the component types of an array; getType of a  *)
(* class is its name with slashes.                                          *)
Desc[c \in Classes \cup {Void}] ==
  IF IsPrimitive(c) THEN <<PrimitiveLetter[c.element]>>
  ELSE IF c.dims > 0 THEN <<"[">> \o Desc[Class(c.element, c.dims - 1)]
  ELSE <<"L", c.element, ";">>

GetDesc(c) == Desc[c]

TypeOK ==
  /\ parameters \in UNION {[1..k -> Classes] : k \in 0..MaxParameters}
  /\ result \in Classes \cup {Void}
  /\ next \in 1..(Len(parameters) + 1)
  /\ Len(shorty) = next
  /\ pc \in {"loop", "done"}

Init ==
  /\ parameters \in UNION {[1..k -> Classes] : k \in 0..MaxParameters}
  /\ isInit \in BOOLEAN
  /\ result \in IF isInit THEN {Void} ELSE Classes \cup {Void}
  /\ next = 1
  /\ shorty = IF isInit THEN <<"V">> ELSE <<ShortyLetter(result)>>
  /\ sig = <<"(">>
  /\ pc = "loop"

(* Lines 262-264 and 294-296; 272-274 and 282-284 for a constructor.        *)
AddParameter ==
  /\ pc = "loop"
  /\ next <= Len(parameters)
  /\ shorty' = Append(shorty, ShortyLetter(parameters[next]))
  /\ sig' = sig \o GetDesc(parameters[next])
  /\ next' = next + 1
  /\ UNCHANGED <<isInit, parameters, result, pc>>

(* Lines 297-299; 285-287 for a constructor.                                *)
AddResult ==
  /\ pc = "loop"
  /\ next > Len(parameters)
  /\ sig' = (sig \o <<")">>) \o (IF isInit THEN <<"V">> ELSE GetDesc(result))
  /\ pc' = "done"
  /\ UNCHANGED <<isInit, parameters, result, next, shorty>>

Next == AddParameter \/ AddResult

Spec == Init /\ [][Next]_vars

-----------------------------------------------------------------------------

(* The reference: the field descriptors of the class file format, read from *)
(* position k of a string.  The letters of the format, whatever the code    *)
(* writes,                                                                  *)
BaseType ==
  [B |-> "byte", C |-> "char", D |-> "double", F |-> "float", I |-> "int",
   J |-> "long", S |-> "short", Z |-> "boolean"]

(* the brackets at k,                                                       *)
Dimensions(s, k) ==
  CHOOSE n \in 0..Len(s) :
    /\ \A i \in k..(k + n - 1) : i <= Len(s) /\ s[i] = "["
    /\ k + n <= Len(s) => s[k + n] # "["

(* whether what follows them ends a descriptor, where it ends, and what it  *)
(* denotes;                                                                 *)
IsField(s, k) ==
  LET e == k + Dimensions(s, k)
  IN  /\ e <= Len(s)
      /\ \/ s[e] \in DOMAIN BaseType
         \/ s[e] = "L" /\ e + 2 <= Len(s) /\ s[e + 1] \in ClassNames /\ s[e + 2] = ";"

FieldEnd(s, k) ==
  LET e == k + Dimensions(s, k) IN IF s[e] = "L" THEN e + 3 ELSE e + 1

FieldType(s, k) ==
  LET e == k + Dimensions(s, k)
  IN  Class(IF s[e] = "L" THEN s[e + 1] ELSE BaseType[s[e]], Dimensions(s, k))

(* where the first, the second, ... of the descriptors from k on starts,    *)
(* the last of these places being one where there is none;                  *)
Starts(s, k) ==
  LET start[i \in 1..(Len(s) + 1)] ==
        IF i = 1 THEN k
        ELSE LET before == start[i - 1]
             IN  IF IsField(s, before) THEN FieldEnd(s, before) ELSE before
  IN  start

Count(s, k) ==
  LET start == Starts(s, k)
  IN  CHOOSE n \in 0..Len(s) :
        /\ \A i \in 1..n : IsField(s, start[i])
        /\ ~IsField(s, start[n + 1])

(* the types they denote, and what is behind the last of them.              *)
Fields(s, k) == [i \in 1..Count(s, k) |-> FieldType(s, Starts(s, k)[i])]

FieldsEnd(s, k) == Starts(s, k)[Count(s, k) + 1]

(* The signature reads back as the method it was made from: "(", parameter  *)
(* types, ")", result type, and nothing behind.                             *)
SignatureReadsBack ==
  pc = "done" =>
    LET close == FieldsEnd(sig, 2)
    IN  /\ sig[1] = "("
        /\ Fields(sig, 2) = parameters
        /\ close < Len(sig) /\ sig[close] = ")"
        /\ \/ result = Void /\ SubSeq(sig, close + 1, Len(sig)) = <<"V">>
           \/ /\ Fields(sig, close + 1) = <<result>>
              /\ FieldsEnd(sig, close + 1) = Len(sig) + 1

(* The letter by which JNI passes what a descriptor denotes: the first of   *)
(* the descriptor, an array being a reference like a class.                 *)
Passed(letter) == IF letter = "[" THEN "L" ELSE letter

(* The two strings agree, although the code makes their letters in two      *)
(* tables: the shorty has the first letter of the result's descriptor and   *)
(* of each parameter's, so that the native side, which reads the va_list by *)
(* the shorty, reads what the signature says was passed.                    *)
ShortyFollowsSignature ==
  pc = "done" =>
    LET start == Starts(sig, 2)
    IN  shorty = [k \in 1..(Count(sig, 2) + 1) |->
                    IF k = 1 THEN Passed(sig[FieldsEnd(sig, 2) + 1])
                    ELSE Passed(sig[start[k - 1]])]
=============================================================================
