---------------------------- MODULE SignatureProofs ----------------------------
(***************************************************************************)
(* Theorems about Signature: for any number of parameters and dimensions,   *)
(* and any class names.                                                     *)
(***************************************************************************)
EXTENDS Signature, SequenceTheorems, WellFoundedInduction, TLAPS

(* What has a descriptor: the classes, and void.                            *)
Described == Classes \cup {Void}

Letters ==
  {"(", ")", "[", "L", ";"} \cup {"B", "C", "D", "F", "I", "J", "S", "V", "Z"}
    \cup ClassNames

(* The descriptor without recursion: the brackets, and the element.         *)
Brackets(n) == [i \in 1..n |-> "["]

Base(c) ==
  IF c.element \in Primitives THEN <<PrimitiveLetter[c.element]>> ELSE <<"L", c.element, ";">>

Text(c) == Brackets(c.dims) \o Base(c)

-----------------------------------------------------------------------------

(* A set of numbers that is not empty has a least element.                  *)
LEMMA LeastExists ==
  ASSUME NEW T, T \subseteq Nat, T # {}
  PROVE  \E x \in T : \A y \in T : x <= y
<1>1. \E x \in T : \A y \in T : <<y, x>> \notin OpToRel(<, Nat)
  BY WFMin, NatLessThanWellFounded
<1>2. PICK x \in T : \A y \in T : ~(y < x)
  BY <1>1 DEF OpToRel
<1> QED
  BY <1>2

(* Two functions that start alike, and go on alike from alike values, are   *)
(* the same.                                                                *)
Alike(m, f, g) ==
  /\ f[1] = g[1]
  /\ \A i \in 1..m : i > 1 /\ f[i - 1] = g[i - 1] => f[i] = g[i]

LEMMA SameFunction ==
  ASSUME NEW m \in Nat, NEW f, NEW g, Alike(m, f, g)
  PROVE  \A i \in 1..m : f[i] = g[i]
<1> DEFINE T == {i \in 1..m : f[i] # g[i]}
<1>1. SUFFICES ASSUME T # {} PROVE FALSE
  OBVIOUS
<1>2. T \subseteq Nat
  OBVIOUS
<1> HIDE DEF T
<1>3. PICK x \in T : \A y \in T : x <= y
  BY <1>1, <1>2, LeastExists
<1>4. x \in 1..m /\ f[x] # g[x]
  BY <1>3 DEF T
<1>5. x > 1
  BY <1>4 DEF Alike
<1>6. x - 1 \in 1..m /\ x - 1 \notin T
  BY <1>3, <1>4, <1>5
<1> QED
  BY <1>4, <1>5, <1>6 DEF T, Alike

-----------------------------------------------------------------------------

LEMMA Triple ==
  ASSUME NEW L, NEW x \in L, NEW y \in L, NEW z \in L
  PROVE  /\ <<x, y, z>> \in Seq(L) /\ Len(<<x, y, z>>) = 3
         /\ <<x, y, z>>[1] = x /\ <<x, y, z>>[2] = y /\ <<x, y, z>>[3] = z
  OBVIOUS

LEMMA ClassFacts ==
  ASSUME NEW c \in Described
  PROVE  /\ c.element \in Primitives \cup ClassNames
         /\ c.dims \in Nat
         /\ c = Class(c.element, c.dims)
         /\ c # Void => c.element # "void"
         /\ c = Void => c.element = "void" /\ c.dims = 0
         /\ c.dims > 0 => Class(c.element, c.dims - 1) \in Described
<1> USE BoundsOK
<1>1. CASE c = Void
  BY <1>1 DEF Void, Class, Primitives
<1>2. CASE c \in Classes
  <2>1. PICK e \in (Primitives \ {"void"}) \cup ClassNames, d \in 0..MaxDimensions : c = Class(e, d)
    BY <1>2 DEF Classes
  <2>2. c.element = e /\ c.dims = d /\ "void" \in Primitives
    BY <2>1 DEF Class, Primitives
  <2>3. e # "void"
    BY <2>1, <2>2, NamesAreNotPrimitive
  <2>4. d > 0 => Class(e, d - 1) \in Classes
    BY <2>1 DEF Classes
  <2> QED
    BY <2>1, <2>2, <2>3, <2>4 DEF Described, Void, Class
<1> QED
  BY <1>1, <1>2 DEF Described

(* getPrimitiveLetter, entry by entry.                                      *)
LEMMA PrimitiveLetters ==
  /\ PrimitiveLetter["int"] = "I" /\ PrimitiveLetter["void"] = "V"
  /\ PrimitiveLetter["boolean"] = "Z" /\ PrimitiveLetter["char"] = "C"
  /\ PrimitiveLetter["byte"] = "B" /\ PrimitiveLetter["short"] = "S"
  /\ PrimitiveLetter["float"] = "F" /\ PrimitiveLetter["long"] = "J"
  /\ PrimitiveLetter["double"] = "D"
  BY DEF PrimitiveLetter

LEMMA BaseFacts ==
  ASSUME NEW c \in Described
  PROVE  /\ Base(c) \in Seq(Letters)
         /\ c.element \in Primitives =>
              Len(Base(c)) = 1 /\ Base(c)[1] = PrimitiveLetter[c.element]
         /\ c.element \notin Primitives =>
              /\ Len(Base(c)) = 3
              /\ Base(c)[1] = "L" /\ Base(c)[2] = c.element /\ Base(c)[3] = ";"
<1>1. c.element \in Primitives \cup ClassNames
  BY ClassFacts
<1>2. CASE c.element \in Primitives
  <2>1. PrimitiveLetter[c.element] \in Letters
    BY <1>2, PrimitiveLetters DEF Letters, Primitives
  <2> HIDE DEF Letters
  <2> QED
    BY <1>2, <2>1 DEF Base
<1>3. CASE c.element \notin Primitives
  <2>1. "L" \in Letters /\ c.element \in Letters /\ ";" \in Letters
    BY <1>1, <1>3 DEF Letters
  <2>2. Base(c) = <<"L", c.element, ";">>
    BY <1>3 DEF Base
  <2> QED
    <3> DEFINE t == <<"L", c.element, ";">>
    <3>1. t \in Seq(Letters) /\ Len(t) = 3 /\ t[1] = "L" /\ t[2] = c.element /\ t[3] = ";"
      BY <2>1, Triple
    <3> HIDE DEF t
    <3>2. Base(c) = t
      BY <2>2 DEF t
    <3> QED
      BY <1>3, <3>1, <3>2
<1> QED
  BY <1>2, <1>3

(* The letters of a descriptor, by their places.                            *)
LEMMA TextFacts ==
  ASSUME NEW c \in Described
  PROVE  /\ Text(c) \in Seq(Letters)
         /\ Len(Base(c)) \in {1, 3}
         /\ Len(Text(c)) = c.dims + Len(Base(c))
         /\ \A i \in 1..c.dims : Text(c)[i] = "["
         /\ \A j \in 1..Len(Base(c)) : Text(c)[c.dims + j] = Base(c)[j]
<1>1. c.dims \in Nat /\ Base(c) \in Seq(Letters) /\ Len(Base(c)) \in {1, 3}
  BY ClassFacts, BaseFacts
<1>2. /\ Brackets(c.dims) \in Seq(Letters) /\ Len(Brackets(c.dims)) = c.dims
      /\ \A i \in 1..c.dims : Brackets(c.dims)[i] = "["
  <2>1. "[" \in Letters
    BY DEF Letters
  <2> QED
    BY <1>1, <2>1 DEF Brackets
<1>3. /\ Text(c) \in Seq(Letters) /\ Len(Text(c)) = c.dims + Len(Base(c))
      /\ \A i \in 1..(c.dims + Len(Base(c))) :
           Text(c)[i] = IF i <= c.dims THEN Brackets(c.dims)[i] ELSE Base(c)[i - c.dims]
  <2> DEFINE u == Brackets(c.dims)
             v == Base(c)
  <2>1. u \in Seq(Letters) /\ v \in Seq(Letters) /\ Len(u) = c.dims
    BY <1>1, <1>2
  <2> HIDE DEF u, v
  <2>2. /\ u \o v \in Seq(Letters) /\ Len(u \o v) = Len(u) + Len(v)
        /\ \A i \in 1..(Len(u) + Len(v)) :
             (u \o v)[i] = IF i <= Len(u) THEN u[i] ELSE v[i - Len(u)]
    BY <2>1, ConcatProperties
  <2>3. Text(c) = u \o v
    BY DEF Text, u, v
  <2> QED
    BY <2>1, <2>2, <2>3 DEF u, v
<1>4. ASSUME NEW j \in 1..Len(Base(c)) PROVE Text(c)[c.dims + j] = Base(c)[j]
  <2>1. /\ c.dims + j \in 1..(c.dims + Len(Base(c))) /\ ~(c.dims + j <= c.dims)
        /\ (c.dims + j) - c.dims = j
    BY <1>1
  <2> QED
    BY <1>3, <2>1
<1>5. ASSUME NEW i \in 1..c.dims PROVE Text(c)[i] = "["
  <2>1. i \in 1..(c.dims + Len(Base(c))) /\ i <= c.dims
    BY <1>1
  <2> QED
    BY <1>2, <1>3, <2>1
<1> QED
  BY <1>1, <1>3, <1>4, <1>5

LEMMA TextLength ==
  ASSUME NEW c \in Described
  PROVE  Text(c) \in Seq(Letters) /\ Len(Text(c)) \in Nat \ {0}
<1>1. /\ Text(c) \in Seq(Letters) /\ Len(Text(c)) = c.dims + Len(Base(c))
      /\ c.dims \in Nat /\ (Len(Base(c)) = 1 \/ Len(Base(c)) = 3)
  BY TextFacts, ClassFacts
<1>2. ASSUME NEW d \in Nat, NEW m, m = 1 \/ m = 3 PROVE d + m \in Nat \ {0}
  BY <1>2
<1>3. c.dims + Len(Base(c)) \in Nat \ {0}
  BY ONLY <1>1, <1>2
<1> QED
  BY ONLY <1>1, <1>3

(* One dimension more is one bracket more.                                  *)
LEMMA OneMoreBracket ==
  ASSUME NEW c \in Described, c.dims > 0
  PROVE  Text(c) = <<"[">> \o Text(Class(c.element, c.dims - 1))
<1> DEFINE d == Class(c.element, c.dims - 1)
<1>1. c.dims \in Nat \ {0} /\ d \in Described /\ d.element = c.element /\ d.dims = c.dims - 1
  BY ClassFacts DEF Class
<1>2. Base(d) = Base(c) /\ Base(c) \in Seq(Letters) /\ "[" \in Letters
  BY <1>1, BaseFacts DEF Base, Letters
<1>3. Brackets(c.dims) = <<"[">> \o Brackets(d.dims)
  BY <1>1 DEF Brackets
<1>4. Brackets(d.dims) \in Seq(Letters) /\ <<"[">> \in Seq(Letters)
  BY <1>1, <1>2 DEF Brackets
<1> HIDE DEF d
<1>5. Text(c) = (<<"[">> \o Brackets(d.dims)) \o Base(c)
  BY <1>3 DEF Text
<1>6. Text(d) = Brackets(d.dims) \o Base(c)
  BY <1>2 DEF Text
<1>7. Text(c) = <<"[">> \o Text(d)
  BY <1>2, <1>4, <1>5, <1>6, ConcatAssociative
<1> QED
  BY <1>7 DEF d

(* The equation by which getDesc calls itself, for a function d.            *)
Descends(d) ==
  d = [c \in Described |->
        IF IsPrimitive(c) THEN <<PrimitiveLetter[c.element]>>
        ELSE IF c.dims > 0 THEN <<"[">> \o d[Class(c.element, c.dims - 1)]
        ELSE <<"L", c.element, ";">>]

LEMMA TextDescends == Descends([c \in Described |-> Text(c)])
<1> DEFINE d == [c \in Described |-> Text(c)]
<1>1. \A c \in Described : d[c] = Text(c)
  OBVIOUS
<1>2. d = [c \in Described |-> Text(c)]
  OBVIOUS
<1> HIDE DEF d
<1>3. ASSUME NEW c \in Described
      PROVE  Text(c) = IF IsPrimitive(c) THEN <<PrimitiveLetter[c.element]>>
                       ELSE IF c.dims > 0 THEN <<"[">> \o d[Class(c.element, c.dims - 1)]
                       ELSE <<"L", c.element, ";">>
  <2>1. c.dims \in Nat /\ Base(c) \in Seq(Letters)
    BY ClassFacts, BaseFacts
  <2>2. CASE c.dims > 0
    <3>1. d[Class(c.element, c.dims - 1)] = Text(Class(c.element, c.dims - 1))
      BY <1>1, <2>2, ClassFacts
    <3>2. ~IsPrimitive(c)
      BY <2>1, <2>2 DEF IsPrimitive
    <3> QED
      BY <2>2, <3>1, <3>2, OneMoreBracket
  <2>3. CASE c.dims = 0
    <3>1. Brackets(c.dims) = <<>>
      BY <2>3 DEF Brackets
    <3>2. Text(c) = Base(c)
      BY <2>1, <3>1 DEF Text
    <3>3. /\ IsPrimitive(c) <=> c.element \in Primitives
          /\ ~(c.dims > 0)
      BY <2>3 DEF IsPrimitive
    <3> QED
      BY <3>2, <3>3 DEF Base
  <2>4. c.dims > 0 \/ c.dims = 0
    BY <2>1
  <2> QED
    BY <2>2, <2>3, <2>4
<1>4. d = [c \in Described |-> IF IsPrimitive(c) THEN <<PrimitiveLetter[c.element]>>
                               ELSE IF c.dims > 0 THEN <<"[">> \o d[Class(c.element, c.dims - 1)]
                               ELSE <<"L", c.element, ";">>]
  BY <1>2, <1>3, Zenon
<1> QED
  BY <1>2, <1>4 DEF Descends

(* What getDesc makes of a class: its brackets and its element.             *)
LEMMA DescIsText ==
  ASSUME NEW c \in Described
  PROVE  GetDesc(c) = Text(c)
<1>1. Desc = CHOOSE d : Descends(d)
  BY DEF Desc, Descends, Described
<1>2. Descends(Desc)
  <2> HIDE DEF Descends
  <2> QED
    BY <1>1, TextDescends
<1> DEFINE Bad == {n \in Nat : \E a \in Described : a.dims = n /\ Desc[a] # Text(a)}
<1>3. SUFFICES ASSUME Bad # {} PROVE FALSE
  BY ClassFacts DEF GetDesc
<1>4. PICK n \in Bad : \A m \in Bad : n <= m
  <2>1. Bad \subseteq Nat
    OBVIOUS
  <2> HIDE DEF Bad
  <2> QED
    BY <1>3, <2>1, LeastExists
<1>5. PICK a \in Described : a.dims = n /\ Desc[a] # Text(a)
  BY <1>4
<1> DEFINE b == Class(a.element, a.dims - 1)
<1>6. /\ Desc[a] = IF IsPrimitive(a) THEN <<PrimitiveLetter[a.element]>>
                   ELSE IF a.dims > 0 THEN <<"[">> \o Desc[b]
                   ELSE <<"L", a.element, ";">>
      /\ Text(a) = IF IsPrimitive(a) THEN <<PrimitiveLetter[a.element]>>
                   ELSE IF a.dims > 0 THEN <<"[">> \o [x \in Described |-> Text(x)][b]
                   ELSE <<"L", a.element, ";">>
  <2>1. [x \in Described |-> Text(x)][a] = Text(a)
    OBVIOUS
  <2> QED
    BY <1>2, <1>5, <2>1, TextDescends, Zenon DEF Descends
<1>7. ~IsPrimitive(a) /\ a.dims > 0
  BY <1>5, <1>6
<1>8. b \in Described /\ b.dims = n - 1 /\ n \in Nat \ {0}
  BY <1>5, <1>7, ClassFacts DEF Class
<1>9. Desc[b] # Text(b)
  BY <1>5, <1>6, <1>7, <1>8
<1>10. n - 1 \in Bad
  BY <1>8, <1>9
<1> QED
  BY <1>4, <1>8, <1>10

-----------------------------------------------------------------------------

(* getPrimitiveLetter writes the letters of the class file format, and none *)
(* of them is another letter of a descriptor.                               *)
LEMMA LettersDiffer ==
  /\ \A p \in Primitives \ {"void"} :
       /\ PrimitiveLetter[p] \in DOMAIN BaseType
       /\ BaseType[PrimitiveLetter[p]] = p
  /\ \A p \in Primitives : PrimitiveLetter[p] \notin {"(", ")", "[", "L", ";"}
  /\ \A l \in {"(", ")", "[", "L", ";"} : l \notin DOMAIN BaseType
<1>2. /\ DOMAIN BaseType = {"B", "C", "D", "F", "I", "J", "S", "Z"}
      /\ BaseType["B"] = "byte" /\ BaseType["C"] = "char" /\ BaseType["D"] = "double"
      /\ BaseType["F"] = "float" /\ BaseType["I"] = "int" /\ BaseType["J"] = "long"
      /\ BaseType["S"] = "short" /\ BaseType["Z"] = "boolean"
  BY DEF BaseType
<1>3. ASSUME NEW p \in Primitives \ {"void"}
      PROVE  PrimitiveLetter[p] \in DOMAIN BaseType /\ BaseType[PrimitiveLetter[p]] = p
  BY <1>2, PrimitiveLetters DEF Primitives
<1>4. ASSUME NEW p \in Primitives PROVE PrimitiveLetter[p] \notin {"(", ")", "[", "L", ";"}
  BY PrimitiveLetters DEF Primitives
<1>5. ASSUME NEW l \in {"(", ")", "[", "L", ";"} PROVE l \notin DOMAIN BaseType
  BY <1>2
<1> QED
  BY <1>3, <1>4, <1>5

(* getShortyLetter has the letter by which JNI passes what a descriptor     *)
(* denotes, in a table of its own.                                          *)
LEMMA ShortyIsPassed ==
  ASSUME NEW c \in Described
  PROVE  Passed(Text(c)[1]) = ShortyLetter(c)
<1>1. /\ c.dims \in Nat /\ c.element \in Primitives \cup ClassNames
      /\ Len(Base(c)) \in {1, 3}
      /\ \A i \in 1..c.dims : Text(c)[i] = "["
      /\ \A j \in 1..Len(Base(c)) : Text(c)[c.dims + j] = Base(c)[j]
  BY ClassFacts, TextFacts
<1>2. DOMAIN ShortyCases = Primitives
  BY DEF ShortyCases, Primitives
<1>3. CASE c.dims > 0
  <2>1. 1 \in 1..c.dims
    BY <1>1, <1>3
  <2>2. NameOf(c) = "[" /\ "[" \notin Primitives
    BY <1>3 DEF NameOf, Primitives
  <2> QED
    BY <1>1, <1>2, <2>1, <2>2 DEF Passed, ShortyLetter
<1>4. CASE c.dims = 0
  <2>1. Text(c)[1] = Base(c)[1] /\ NameOf(c) = c.element
    <3>1. 1 \in 1..1 /\ 1 \in 1..3 /\ 0 + 1 = 1
      OBVIOUS
    <3>2. 1 \in 1..Len(Base(c))
      BY ONLY <1>1, <3>1
    <3> QED
      BY <1>1, <1>4, <3>1, <3>2 DEF NameOf
  <2>2. CASE c.element \in Primitives
    <3>1. Base(c)[1] = PrimitiveLetter[c.element] /\ ShortyLetter(c) = ShortyCases[c.element]
      BY <1>2, <2>1, <2>2, BaseFacts DEF ShortyLetter
    <3>2. /\ PrimitiveLetter[c.element] = ShortyCases[c.element]
          /\ PrimitiveLetter[c.element] # "["
      BY <2>2 DEF Primitives, PrimitiveLetter, ShortyCases
    <3> QED
      BY <2>1, <3>1, <3>2 DEF Passed
  <2>3. CASE c.element \notin Primitives
    BY <1>2, <2>1, <2>3, BaseFacts DEF Passed, ShortyLetter
  <2> QED
    BY <2>2, <2>3
<1> QED
  BY <1>1, <1>3, <1>4

(* The descriptor of c is in s, from position k on.                         *)
HasText(s, k, c) ==
  \A i \in 1..Len(Text(c)) : k + i - 1 <= Len(s) /\ s[k + i - 1] = Text(c)[i]

LEMMA Places ==
  ASSUME NEW k \in Nat, NEW d \in Nat, NEW e, e = k + d
  PROVE  /\ e + 1 - 1 = e /\ e + 2 - 1 = e + 1 /\ e + 3 - 1 = e + 2
         /\ k + d - 1 = e - 1
         /\ k + (d + 1) = e + 1 /\ k + (d + 3) = e + 3
  OBVIOUS

LEMMA ReadDimensions ==
  ASSUME NEW s, Len(s) \in Nat, NEW k \in Nat, NEW n \in 0..Len(s),
         \A i \in k..(k + n - 1) : i <= Len(s) /\ s[i] = "[",
         k + n <= Len(s) => s[k + n] # "["
  PROVE  Dimensions(s, k) = n
<1> DEFINE Right(m) == /\ \A i \in k..(k + m - 1) : i <= Len(s) /\ s[i] = "["
                       /\ k + m <= Len(s) => s[k + m] # "["
<1>1. ASSUME NEW m \in 0..Len(s), Right(m) PROVE m = n
  <2>1. CASE m < n
    <3>1. k + m \in k..(k + n - 1)
      BY <2>1
    <3> QED
      BY <1>1, <3>1
  <2>2. CASE n < m
    <3>1. k + n \in k..(k + m - 1)
      BY <2>2
    <3> QED
      BY <1>1, <3>1
  <2> QED
    BY <2>1, <2>2
<1>2. Right(n)
  OBVIOUS
<1>3. Dimensions(s, k) = CHOOSE m \in 0..Len(s) : Right(m)
  BY DEF Dimensions
<1> HIDE DEF Right
<1> QED
  BY <1>1, <1>2, <1>3

(* A descriptor reads back as its class, up to its end.                     *)
LEMMA ReadField ==
  ASSUME NEW s, Len(s) \in Nat, NEW k \in Nat \ {0}, NEW c \in Classes, HasText(s, k, c)
  PROVE  /\ IsField(s, k)
         /\ FieldEnd(s, k) = k + Len(Text(c))
         /\ FieldType(s, k) = c
<1> DEFINE e == k + c.dims
           b == Base(c)
<1>1. c \in Described /\ c.dims \in Nat /\ c = Class(c.element, c.dims)
  BY ClassFacts DEF Described
<1>0. e \in Nat /\ e = k + c.dims
  BY <1>1
<1> HIDE DEF e
<1>11. /\ e + 1 - 1 = e /\ e + 2 - 1 = e + 1 /\ e + 3 - 1 = e + 2
       /\ k + c.dims - 1 = e - 1
       /\ k + (c.dims + 1) = e + 1 /\ k + (c.dims + 3) = e + 3
  <2> DEFINE d == c.dims
  <2>1. d \in Nat /\ e = k + d
    BY <1>0, <1>1
  <2> HIDE DEF d
  <2>2. /\ e + 1 - 1 = e /\ e + 2 - 1 = e + 1 /\ e + 3 - 1 = e + 2
        /\ k + d - 1 = e - 1
        /\ k + (d + 1) = e + 1 /\ k + (d + 3) = e + 3
    BY <2>1, Places
  <2> QED
    BY <2>2 DEF d
<1>2. c.element \in (Primitives \ {"void"}) \cup ClassNames
  <2>1. c # Void
    BY NamesAreNotPrimitive DEF Classes, Class, Void, Primitives, PrimitiveLetter
  <2> QED
    BY <1>1, <2>1, ClassFacts
<1>3. /\ Len(b) \in {1, 3} /\ Len(Text(c)) = c.dims + Len(b)
      /\ \A i \in 1..c.dims : Text(c)[i] = "["
      /\ \A j \in 1..Len(b) : Text(c)[c.dims + j] = b[j]
  BY <1>1, TextFacts
<1>4. ASSUME NEW j \in 1..Len(b) PROVE e + j - 1 <= Len(s) /\ s[e + j - 1] = b[j]
  <2>1. c.dims + j \in 1..Len(Text(c)) /\ k + (c.dims + j) - 1 = e + j - 1
    BY <1>0, <1>1, <1>3
  <2> QED
    BY <1>3, <2>1 DEF HasText
<1>5. ASSUME NEW i \in k..(e - 1) PROVE i <= Len(s) /\ s[i] = "["
  <2>1. i - k + 1 \in 1..Len(Text(c)) /\ i - k + 1 \in 1..c.dims /\ k + (i - k + 1) - 1 = i
    BY <1>0, <1>1, <1>3
  <2> QED
    BY <1>3, <2>1 DEF HasText
<1>6. e <= Len(s) /\ s[e] = b[1]
  <2>1. 1 \in 1..Len(b) /\ e + 1 - 1 = e
    <3>1. Len(b) = 1 \/ Len(b) = 3
      BY <1>3
    <3>2. 1 \in 1..1 /\ 1 \in 1..3
      OBVIOUS
    <3>3. 1 \in 1..Len(b)
      BY ONLY <3>1, <3>2
    <3> QED
      BY <1>11, <3>3
  <2> QED
    BY <1>4, <2>1
<1>7. b[1] # "["
  BY <1>1, <1>2, BaseFacts, LettersDiffer
<1>8. Dimensions(s, k) = c.dims
  <2>1. c.dims \in 0..Len(s)
    BY <1>0, <1>1, <1>6
  <2>2. \A i \in k..(k + c.dims - 1) : i <= Len(s) /\ s[i] = "["
    BY <1>5, <1>11
  <2>3. s[k + c.dims] # "["
    BY <1>0, <1>6, <1>7
  <2> QED
    BY ONLY Len(s) \in Nat, k \in Nat \ {0}, <2>1, <2>2, <2>3, ReadDimensions
<1>9. CASE c.element \in Primitives
  <2>1. Len(b) = 1 /\ b[1] = PrimitiveLetter[c.element] /\ c.element # "void"
    BY <1>1, <1>2, <1>9, BaseFacts, NamesAreNotPrimitive
  <2> HIDE DEF b
  <2>2. s[e] = PrimitiveLetter[c.element] /\ s[e] # "L"
    BY <1>6, <1>9, <2>1, LettersDiffer
  <2>3. s[e] \in DOMAIN BaseType /\ BaseType[s[e]] = c.element
    BY <1>9, <2>1, <2>2, LettersDiffer
  <2>4. IsField(s, k)
    BY <1>0, <1>6, <1>8, <2>3 DEF IsField
  <2>5. FieldEnd(s, k) = e + 1
    BY <1>0, <1>8, <2>2 DEF FieldEnd
  <2>6. FieldType(s, k) = Class(c.element, c.dims)
    BY <1>0, <1>8, <2>2, <2>3 DEF FieldType
  <2> QED
    BY <1>1, <1>3, <1>11, <2>1, <2>4, <2>5, <2>6
<1>10. CASE c.element \notin Primitives
  <2>1. Len(b) = 3 /\ b[1] = "L" /\ b[2] = c.element /\ b[3] = ";"
    BY <1>1, <1>10, BaseFacts
  <2> HIDE DEF b
  <2>2. e + 2 <= Len(s) /\ s[e] = "L" /\ s[e + 1] = c.element /\ s[e + 2] = ";"
    <3>1. 2 \in 1..3 /\ 3 \in 1..3
      OBVIOUS
    <3>2. 2 \in 1..Len(b) /\ 3 \in 1..Len(b)
      BY <2>1, <3>1, Zenon
    <3> QED
      BY <1>4, <1>6, <1>11, <2>1, <3>2
  <2>3. IsField(s, k)
    BY <1>0, <1>2, <1>6, <1>8, <1>10, <2>2 DEF IsField
  <2>4. FieldEnd(s, k) = e + 3
    BY <1>0, <1>8, <2>2 DEF FieldEnd
  <2>5. FieldType(s, k) = Class(c.element, c.dims)
    BY <1>0, <1>8, <2>2 DEF FieldType
  <2> QED
    BY <1>1, <1>3, <1>11, <2>1, <2>3, <2>4, <2>5
<1> QED
  BY <1>9, <1>10

(* No descriptor starts with ")", or behind the end.                        *)
LEMMA ReadNothing ==
  ASSUME NEW s, Len(s) \in Nat, NEW k \in 1..(Len(s) + 1), k <= Len(s) => s[k] = ")"
  PROVE  ~IsField(s, k)
<1>1. Dimensions(s, k) = 0
  BY ReadDimensions
<1>2. k + 0 = k
  OBVIOUS
<1> QED
  BY <1>1, <1>2, LettersDiffer DEF IsField

-----------------------------------------------------------------------------

(* The equation by which the reader goes from descriptor to descriptor.     *)
Goes(s, k, f) ==
  f = [i \in 1..(Len(s) + 1) |->
        IF i = 1 THEN k
        ELSE LET before == f[i - 1]
             IN  IF IsField(s, before) THEN FieldEnd(s, before) ELSE before]

LEMMA StartsGoes ==
  ASSUME NEW s, NEW k, NEW w, Goes(s, k, w)
  PROVE  Goes(s, k, Starts(s, k))
<1>1. Starts(s, k) = CHOOSE f : Goes(s, k, f)
  BY DEF Starts, Goes
<1> QED
  BY <1>1

LEMMA GoesOn ==
  ASSUME NEW s, Len(s) \in Nat, NEW k, NEW f, Goes(s, k, f)
  PROVE  /\ f[1] = k
         /\ \A i \in 1..(Len(s) + 1) : i > 1 =>
              f[i] = IF IsField(s, f[i - 1]) THEN FieldEnd(s, f[i - 1]) ELSE f[i - 1]
<1>1. 1 \in 1..(Len(s) + 1)
  OBVIOUS
<1>2. \A i \in 1..(Len(s) + 1) :
        f[i] = IF i = 1 THEN k
               ELSE IF IsField(s, f[i - 1]) THEN FieldEnd(s, f[i - 1]) ELSE f[i - 1]
  BY Zenon DEF Goes
<1> QED
  BY <1>1, <1>2

(* The descriptors of n types follow each other in s, from k on, each at    *)
(* its place in at.                                                         *)
Placed(s, k, types, n, at) ==
  /\ at \in [1..(n + 1) -> Nat]
  /\ at[1] = k
  /\ \A i \in 1..n : HasText(s, at[i], types[i]) /\ at[i + 1] = at[i] + Len(Text(types[i]))
  /\ \A i \in 1..(n + 1) : at[i] >= k + (i - 1)

LEMMA ReadFields ==
  ASSUME NEW s, Len(s) \in Nat, NEW k \in Nat \ {0}, NEW n \in Nat,
         NEW types \in [1..n -> Classes], NEW at, Placed(s, k, types, n, at),
         at[n + 1] <= Len(s) + 1, ~IsField(s, at[n + 1])
  PROVE  /\ Fields(s, k) = types /\ FieldsEnd(s, k) = at[n + 1]
         /\ Count(s, k) = n
         /\ \A i \in 1..n : Starts(s, k)[i] = at[i]
<1> DEFINE w == [i \in 1..(Len(s) + 1) |-> IF i <= n THEN at[i] ELSE at[n + 1]]
           start == Starts(s, k)
<1>1. n \in 0..Len(s) /\ n + 1 \in 1..(Len(s) + 1) /\ at[1] = k
  <2>1. n + 1 \in 1..(n + 1)
    OBVIOUS
  <2>2. at[n + 1] \in Nat /\ at[n + 1] >= k + (n + 1 - 1)
    BY <2>1 DEF Placed
  <2> QED
    BY <2>2 DEF Placed
<1>2. ASSUME NEW i \in 1..n
      PROVE  /\ at[i] \in Nat \ {0}
             /\ IsField(s, at[i]) /\ FieldEnd(s, at[i]) = at[i + 1]
             /\ FieldType(s, at[i]) = types[i]
  <2>1. /\ at[i] \in Nat \ {0} /\ types[i] \in Classes /\ HasText(s, at[i], types[i])
        /\ at[i + 1] = at[i] + Len(Text(types[i]))
    <3>1. i \in 1..(n + 1)
      OBVIOUS
    <3>2. at[i] \in Nat /\ at[i] >= k + (i - 1)
      BY <3>1 DEF Placed
    <3> QED
      BY <3>2 DEF Placed
  <2> QED
    BY <2>1, ReadField
<1>3. \A i \in 1..(n + 1) : w[i] = at[i]
  BY <1>1
<1>4. ASSUME NEW i \in 1..(Len(s) + 1), i # 1
      PROVE  w[i] = IF IsField(s, w[i - 1]) THEN FieldEnd(s, w[i - 1]) ELSE w[i - 1]
  <2>1. i - 1 \in 1..(Len(s) + 1)
    BY <1>4
  <2>2. CASE i <= n + 1
    <3>1. i - 1 \in 1..n /\ i \in 1..(n + 1) /\ (i - 1) + 1 = i
      BY <1>4, <2>2
    <3>2. w[i - 1] = at[i - 1] /\ w[i] = at[i]
      BY <1>3, <3>1
    <3> HIDE DEF w
    <3> QED
      BY <1>2, <3>1, <3>2
  <2>3. CASE ~(i <= n + 1)
    <3>1. w[i - 1] = at[n + 1] /\ w[i] = at[n + 1]
      BY <2>1, <2>3
    <3> HIDE DEF w
    <3> QED
      BY <3>1
  <2> QED
    BY <2>2, <2>3
<1>5. Goes(s, k, w)
  <2>1. w[1] = k
    BY <1>1
  <2>2. w = [i \in 1..(Len(s) + 1) |-> w[i]]
    OBVIOUS
  <2> HIDE DEF w
  <2>3. \A i \in 1..(Len(s) + 1) :
          w[i] = IF i = 1 THEN k
                 ELSE LET before == w[i - 1]
                      IN  IF IsField(s, before) THEN FieldEnd(s, before) ELSE before
    BY <1>4, <2>1
  <2> QED
    BY <2>2, <2>3, Zenon DEF Goes
<1>6. \A i \in 1..(Len(s) + 1) : start[i] = w[i]
  <2> HIDE DEF w
  <2>1. Goes(s, k, start)
    BY <1>5, StartsGoes
  <2> HIDE DEF start
  <2>2. /\ start[1] = w[1]
        /\ \A i \in 1..(Len(s) + 1) : i > 1 /\ start[i - 1] = w[i - 1] => start[i] = w[i]
    BY <1>5, <2>1, GoesOn
  <2> DEFINE m == Len(s) + 1
  <2>3. m \in Nat
    OBVIOUS
  <2> HIDE DEF m
  <2>4. Alike(m, start, w)
    BY <2>2 DEF m, Alike
  <2>5. \A i \in 1..m : start[i] = w[i]
    BY <2>3, <2>4, SameFunction
  <2> QED
    BY <2>5 DEF m
<1>7. \A i \in 1..(n + 1) : start[i] = at[i]
  <2> HIDE DEF w, start
  <2>1. \A i \in 1..(n + 1) : i \in 1..(Len(s) + 1)
    BY <1>1
  <2> QED
    BY <1>3, <1>6, <2>1
<1> HIDE DEF w, start
<1>8. Count(s, k) = n
  <2> DEFINE Right(m) == /\ \A i \in 1..m : IsField(s, start[i])
                         /\ ~IsField(s, start[m + 1])
  <2>1. Right(n)
    <3>1. n + 1 \in 1..(n + 1) /\ \A i \in 1..n : i \in 1..(n + 1)
      OBVIOUS
    <3> QED
      BY <1>2, <1>7, <3>1
  <2>2. ASSUME NEW m \in 0..Len(s), Right(m) PROVE m = n
    <3>1. CASE m < n
      <4>1. m + 1 \in 1..n
        BY <3>1
      <4> QED
        BY <2>1, <2>2, <4>1
    <3>2. CASE n < m
      <4>1. n + 1 \in 1..m
        BY <3>2
      <4> QED
        BY <2>1, <2>2, <4>1
    <3> QED
      BY <3>1, <3>2
  <2>3. Count(s, k) = CHOOSE m \in 0..Len(s) : Right(m)
    BY DEF Count, start
  <2> HIDE DEF Right
  <2> QED
    BY <1>1, <2>1, <2>2, <2>3
<1>9. Fields(s, k) = types
  <2>1. \A i \in 1..n : FieldType(s, start[i]) = types[i]
    <3>1. \A i \in 1..n : i \in 1..(n + 1)
      OBVIOUS
    <3> QED
      BY <1>2, <1>7, <3>1
  <2>2. Fields(s, k) = [i \in 1..n |-> FieldType(s, start[i])]
    BY <1>8 DEF Fields, start
  <2> QED
    BY <2>1, <2>2
<1>10. FieldsEnd(s, k) = at[n + 1]
  <2>1. n + 1 \in 1..(n + 1)
    OBVIOUS
  <2>2. FieldsEnd(s, k) = start[n + 1]
    BY <1>8 DEF FieldsEnd, start
  <2> QED
    BY <1>7, <2>1, <2>2
<1>11. \A i \in 1..n : Starts(s, k)[i] = at[i]
  <2>1. \A i \in 1..n : i \in 1..(n + 1)
    OBVIOUS
  <2> QED
    BY <1>7, <2>1 DEF start
<1> QED
  BY <1>8, <1>9, <1>10, <1>11

-----------------------------------------------------------------------------

(* The method described: lines 260 and 280, what getParameterTypes returns. *)
MethodInv ==
  /\ Len(parameters) \in Nat
  /\ parameters \in [1..Len(parameters) -> Classes]
  /\ result \in Described /\ (isInit => result = Void)
  /\ next \in 1..(Len(parameters) + 1)

(* The shorty has a letter for the result and each parameter so far.        *)
ShortyInv ==
  /\ shorty \in Seq(Letters) /\ Len(shorty) = next
  /\ shorty[1] = ShortyLetter(result)
  /\ \A i \in 1..(next - 1) : shorty[i + 1] = ShortyLetter(parameters[i])

(* The signature has their descriptors one behind the other and, once done, *)
(* the closing parenthesis and the descriptor of the result.                *)
SigInv ==
  /\ sig \in Seq(Letters) /\ Len(sig) \in Nat \ {0} /\ sig[1] = "("
  /\ pc \in {"loop", "done"}
  /\ pc = "loop" =>
       \E at : Placed(sig, 2, parameters, next - 1, at) /\ at[next] = Len(sig) + 1
  /\ pc = "done" =>
       /\ next = Len(parameters) + 1
       /\ \E at : /\ Placed(sig, 2, parameters, next - 1, at)
                  /\ at[next] + Len(Text(result)) = Len(sig)
                  /\ sig[at[next]] = ")"
                  /\ HasText(sig, at[next] + 1, result)

Inv == MethodInv /\ ShortyInv /\ SigInv

(* What is appended leaves what is there where it is.                       *)
LEMMA Appending ==
  ASSUME NEW s \in Seq(Letters), NEW t \in Seq(Letters)
  PROVE  /\ s \o t \in Seq(Letters) /\ Len(s \o t) = Len(s) + Len(t) /\ Len(s) \in Nat
         /\ \A i \in 1..Len(s) : (s \o t)[i] = s[i]
         /\ \A i \in 1..Len(t) : (s \o t)[Len(s) + i] = t[i]
<1>1. /\ s \o t \in Seq(Letters) /\ Len(s \o t) = Len(s) + Len(t)
      /\ \A i \in 1..(Len(s) + Len(t)) : (s \o t)[i] = IF i <= Len(s) THEN s[i] ELSE t[i - Len(s)]
      /\ Len(s) \in Nat /\ Len(t) \in Nat
  BY ConcatProperties, LenProperties
<1>2. ASSUME NEW i \in 1..Len(t) PROVE (s \o t)[Len(s) + i] = t[i]
  <2>1. /\ Len(s) + i \in 1..(Len(s) + Len(t)) /\ ~(Len(s) + i <= Len(s))
        /\ (Len(s) + i) - Len(s) = i
    BY <1>1
  <2> QED
    BY <1>1, <2>1
<1>3. ASSUME NEW i \in 1..Len(s) PROVE (s \o t)[i] = s[i]
  <2>1. i \in 1..(Len(s) + Len(t)) /\ i <= Len(s)
    BY <1>1
  <2> QED
    BY <1>1, <2>1
<1> QED
  BY <1>1, <1>2, <1>3

LEMMA TextStays ==
  ASSUME NEW s \in Seq(Letters), NEW t \in Seq(Letters), NEW k \in Nat \ {0}, NEW c,
         c \in Described, HasText(s, k, c)
  PROVE  HasText(s \o t, k, c)
<1>1. Len(Text(c)) \in Nat /\ Len(s) \in Nat /\ Len(t) \in Nat
  BY TextFacts, LenProperties
<1>2. ASSUME NEW i \in 1..Len(Text(c))
      PROVE  k + i - 1 <= Len(s \o t) /\ (s \o t)[k + i - 1] = Text(c)[i]
  <2>1. k + i - 1 <= Len(s) /\ s[k + i - 1] = Text(c)[i]
    BY DEF HasText
  <2>2. k + i - 1 \in 1..Len(s)
    BY <1>1, <2>1
  <2>3. Len(s \o t) = Len(s) + Len(t) /\ (s \o t)[k + i - 1] = s[k + i - 1]
    BY <2>2, Appending
  <2> QED
    BY <1>1, <2>1, <2>3
<1> QED
  BY <1>2 DEF HasText

LEMMA TextAppended ==
  ASSUME NEW s \in Seq(Letters), NEW c \in Described
  PROVE  HasText(s \o Text(c), Len(s) + 1, c)
<1>1. /\ Text(c) \in Seq(Letters) /\ Len(s) \in Nat /\ Len(Text(c)) \in Nat
  BY TextFacts, LenProperties
<1>2. ASSUME NEW i \in 1..Len(Text(c))
      PROVE  /\ Len(s) + 1 + i - 1 <= Len(s \o Text(c))
             /\ (s \o Text(c))[Len(s) + 1 + i - 1] = Text(c)[i]
  <2>1. Len(s) + 1 + i - 1 = Len(s) + i
    BY <1>1
  <2>2. /\ Len(s \o Text(c)) = Len(s) + Len(Text(c))
        /\ (s \o Text(c))[Len(s) + i] = Text(c)[i]
    BY <1>1, Appending
  <2> QED
    BY <1>1, <2>1, <2>2
<1> QED
  BY <1>2 DEF HasText

(* What is appended leaves the places of the parameters.                    *)
LEMMA PlacesStay ==
  ASSUME NEW s \in Seq(Letters), NEW t \in Seq(Letters), NEW n \in Nat, NEW at,
         NEW types, \A i \in 1..n : types[i] \in Described,
         Placed(s, 2, types, n, at)
  PROVE  Placed(s \o t, 2, types, n, at)
<1>1. ASSUME NEW i \in 1..n PROVE HasText(s \o t, at[i], types[i])
  <2>1. i \in 1..(n + 1) /\ types[i] \in Described
    OBVIOUS
  <2>2. at[i] \in Nat /\ at[i] >= 2 + (i - 1) /\ HasText(s, at[i], types[i])
    BY <2>1 DEF Placed
  <2>3. at[i] \in Nat \ {0}
    BY <2>2
  <2> QED
    BY <2>1, <2>2, <2>3, TextStays
<1> QED
  BY <1>1 DEF Placed

(* A further descriptor has its place behind the others.                    *)
LEMMA OneMorePlace ==
  ASSUME NEW s \in Seq(Letters), NEW n \in Nat, NEW at, NEW types,
         \A i \in 1..(n + 1) : types[i] \in Described,
         Placed(s, 2, types, n, at), at[n + 1] = Len(s) + 1
  PROVE  LET t == Text(types[n + 1]) IN
         \E more : Placed(s \o t, 2, types, n + 1, more) /\ more[n + 2] = Len(s \o t) + 1
<1> DEFINE c == types[n + 1]
           t == Text(c)
           more == [i \in 1..(n + 2) |-> IF i <= n + 1 THEN at[i] ELSE Len(s \o t) + 1]
<1>1. /\ c \in Described /\ t \in Seq(Letters) /\ Len(s) \in Nat /\ Len(t) \in Nat
      /\ Len(s \o t) = Len(s) + Len(t) /\ Len(t) > 0
  <2>1. c \in Described
    OBVIOUS
  <2> HIDE DEF c
  <2>2. t \in Seq(Letters) /\ Len(t) > 0 /\ Len(s) \in Nat /\ Len(t) \in Nat
    <3>1. Text(c) \in Seq(Letters) /\ Len(Text(c)) \in Nat \ {0}
      BY <2>1, TextLength
    <3> HIDE DEF t
    <3> QED
      BY <3>1, LenProperties DEF t
  <2> HIDE DEF t
  <2> QED
    BY <2>1, <2>2, Appending
<1>2. Placed(s \o t, 2, types, n, at)
  <2> HIDE DEF t
  <2> QED
    BY <1>1, PlacesStay
<1>3. HasText(s \o t, at[n + 1], c)
  <2> HIDE DEF c
  <2> QED
    BY <1>1, TextAppended
<1> HIDE DEF t, c
<1>4. /\ \A i \in 1..(n + 1) : more[i] = at[i] /\ at[i] \in Nat
      /\ more[n + 2] = Len(s \o t) + 1
      /\ \A i \in 1..(n + 2) : i \in 1..(n + 1) \/ i = n + 2
  BY DEF Placed
<1>5. more \in [1..(n + 2) -> Nat]
  <2>1. Len(s \o t) + 1 \in Nat
    BY <1>1
  <2>2. \A i \in 1..(n + 2) : more[i] \in Nat
    BY <1>4, <2>1
  <2> QED
    BY ONLY <2>2
<1>6. more[1] = 2
  BY <1>4 DEF Placed
<1> HIDE DEF more
<1>7. ASSUME NEW i \in 1..(n + 1)
      PROVE  /\ HasText(s \o t, more[i], types[i])
             /\ more[i + 1] = more[i] + Len(Text(types[i]))
  <2>1. CASE i \in 1..n
    <3>1. i + 1 \in 1..(n + 1)
      BY <2>1
    <3> QED
      BY <1>2, <1>4, <2>1, <3>1 DEF Placed
  <2>2. CASE i = n + 1
    <3>1. more[i] = at[n + 1] /\ more[i + 1] = Len(s \o t) + 1 /\ types[i] = c
      BY <1>4, <2>2 DEF c
    <3> QED
      BY <1>1, <1>3, <3>1 DEF t
  <2> QED
    BY <2>1, <2>2
<1>8. ASSUME NEW i \in 1..(n + 2) PROVE more[i] >= 2 + (i - 1)
  <2>1. CASE i \in 1..(n + 1)
    BY <1>4, <2>1 DEF Placed
  <2>2. CASE i = n + 2
    <3>1. at[n + 1] \in Nat /\ at[n + 1] >= 2 + n
      <4>1. n + 1 \in 1..(n + 1)
        OBVIOUS
      <4> QED
        BY <4>1 DEF Placed
    <3> QED
      BY <1>1, <1>4, <2>2, <3>1
  <2> QED
    BY <1>4, <2>1, <2>2
<1>9. (n + 1) + 1 = n + 2
  OBVIOUS
<1>10. Placed(s \o t, 2, types, n + 1, more)
  BY <1>5, <1>6, <1>7, <1>8, <1>9 DEF Placed
<1> QED
  BY <1>4, <1>10 DEF t, c

LEMMA ParametersAreClasses ==
  ASSUME NEW p \in UNION {[1..n -> Classes] : n \in 0..MaxParameters}
  PROVE  Len(p) \in Nat /\ p \in [1..Len(p) -> Classes]
<1>1. PICK n \in 0..MaxParameters : p \in [1..n -> Classes]
  OBVIOUS
<1>2. n \in Nat
  BY BoundsOK
<1> QED
  BY <1>1, <1>2

LEMMA ShortyLetterFacts ==
  ASSUME NEW c \in Described
  PROVE  ShortyLetter(c) \in Letters
<1>1. /\ ShortyCases["int"] = "I" /\ ShortyCases["void"] = "V"
      /\ ShortyCases["boolean"] = "Z" /\ ShortyCases["char"] = "C"
      /\ ShortyCases["byte"] = "B" /\ ShortyCases["short"] = "S"
      /\ ShortyCases["float"] = "F" /\ ShortyCases["long"] = "J"
      /\ ShortyCases["double"] = "D"
  BY DEF ShortyCases
<1>2. ASSUME NEW p \in Primitives PROVE ShortyCases[p] \in Letters
  BY <1>1 DEF Primitives, Letters
<1>3. DOMAIN ShortyCases = Primitives
  BY DEF ShortyCases, Primitives
<1>4. "L" \in Letters
  BY DEF Letters
<1> QED
  BY <1>2, <1>3, <1>4 DEF ShortyLetter

LEMMA InitInv ==
  ASSUME Init
  PROVE  Inv
<1>1. MethodInv
  BY ParametersAreClasses DEF Init, MethodInv, Described
<1>2. ShortyInv
  <2>1. ShortyLetter(Void) = "V"
    BY DEF ShortyLetter, NameOf, Void, Class, ShortyCases
  <2>2. next = 1 /\ shorty = <<ShortyLetter(result)>> /\ ShortyLetter(result) \in Letters
    <3>1. result \in Described
      BY <1>1 DEF MethodInv
    <3> QED
      BY <1>1, <2>1, <3>1, ShortyLetterFacts DEF Init, MethodInv
  <2> DEFINE l == ShortyLetter(result)
  <2> HIDE DEF l
  <2>3. <<l>> \in Seq(Letters) /\ Len(<<l>>) = 1 /\ <<l>>[1] = l
    BY <2>2 DEF l
  <2> QED
    BY <2>2, <2>3 DEF ShortyInv, l
<1>3. SigInv
  <2>1. sig = <<"(">> /\ next = 1 /\ pc = "loop" /\ "(" \in Letters
    BY DEF Init, Letters
  <2>2. sig \in Seq(Letters) /\ Len(sig) = 1 /\ sig[1] = "("
    BY <2>1
  <2> DEFINE at == [i \in 1..1 |-> 2]
  <2>3. Placed(sig, 2, parameters, 0, at) /\ at[1] = Len(sig) + 1
    BY <2>2 DEF Placed
  <2> HIDE DEF at
  <2> QED
    BY <2>1, <2>2, <2>3 DEF SigInv
<1> QED
  BY <1>1, <1>2, <1>3 DEF Inv

LEMMA AddParameterInv ==
  ASSUME Inv, AddParameter
  PROVE  Inv'
<1> DEFINE c == parameters[next]
           n == next - 1
<1>1. /\ pc = "loop" /\ pc' = "loop" /\ next' = next + 1
      /\ UNCHANGED <<isInit, parameters, result>>
      /\ shorty' = Append(shorty, ShortyLetter(c)) /\ sig' = sig \o GetDesc(c)
  BY DEF AddParameter
<1>2. /\ Len(parameters) \in Nat /\ next \in 1..Len(parameters)
      /\ parameters \in [1..Len(parameters) -> Classes]
  BY DEF AddParameter, Inv, MethodInv
<1>3. c \in Described /\ n \in Nat /\ n + 1 = next /\ n + 2 = next' /\ next' - 1 = next
  BY <1>1, <1>2 DEF Described
<1>4. MethodInv'
  BY <1>1, <1>2 DEF Inv, MethodInv
<1>5. ShortyInv'
  <2>1. /\ shorty \in Seq(Letters) /\ Len(shorty) = next /\ ShortyLetter(c) \in Letters
        /\ shorty[1] = ShortyLetter(result)
        /\ \A i \in 1..(next - 1) : shorty[i + 1] = ShortyLetter(parameters[i])
    BY <1>3, ShortyLetterFacts DEF Inv, ShortyInv
  <2> DEFINE l == ShortyLetter(c)
  <2> HIDE DEF l
  <2>2. /\ Append(shorty, l) \in Seq(Letters) /\ Len(Append(shorty, l)) = next + 1
        /\ \A i \in 1..next : Append(shorty, l)[i] = shorty[i]
        /\ Append(shorty, l)[next + 1] = l
    BY <2>1, AppendProperties DEF l
  <2>3. ASSUME NEW i \in 1..(next' - 1) PROVE shorty'[i + 1] = ShortyLetter(parameters'[i])
    <3>1. CASE i = next
      BY <1>1, <2>2, <3>1 DEF l
    <3>2. CASE i \in 1..(next - 1)
      <4>1. i + 1 \in 1..next
        BY <1>2, <3>2
      <4> QED
        BY <1>1, <2>1, <2>2, <3>2, <4>1 DEF l
    <3> QED
      BY <1>2, <1>3, <3>1, <3>2
  <2>4. shorty'[1] = ShortyLetter(result')
    <3>1. 1 \in 1..next
      BY <1>2
    <3> QED
      BY <1>1, <2>1, <2>2, <3>1 DEF l
  <2> QED
    BY <1>1, <2>2, <2>3, <2>4 DEF ShortyInv, l
<1>6. SigInv'
  <2>1. /\ sig \in Seq(Letters) /\ Len(sig) \in Nat \ {0} /\ sig[1] = "("
        /\ \E at : Placed(sig, 2, parameters, n, at) /\ at[n + 1] = Len(sig) + 1
    BY <1>1, <1>3 DEF Inv, SigInv
  <2>2. PICK at : Placed(sig, 2, parameters, n, at) /\ at[n + 1] = Len(sig) + 1
    BY <2>1
  <2>3. \A i \in 1..(n + 1) : parameters[i] \in Described
    BY <1>2, <1>3 DEF Described
  <2>4. sig' = sig \o Text(parameters[n + 1])
    BY <1>1, <1>3, DescIsText
  <2> HIDE DEF c, n
  <2>5. PICK more : /\ Placed(sig', 2, parameters, n + 1, more)
                    /\ more[n + 2] = Len(sig') + 1
    BY <1>3, <2>1, <2>2, <2>3, <2>4, OneMorePlace
  <2>6. sig' \in Seq(Letters) /\ Len(sig') \in Nat \ {0} /\ sig'[1] = "("
    <3>1. Text(c) \in Seq(Letters) /\ Len(Text(c)) \in Nat /\ sig' = sig \o Text(c)
      BY <1>3, <2>4, TextFacts, LenProperties DEF c
    <3>2. 1 \in 1..Len(sig)
      BY <2>1
    <3> QED
      BY <2>1, <3>1, <3>2, Appending
  <2> QED
    BY <1>1, <1>3, <2>5, <2>6 DEF SigInv
<1> QED
  BY <1>4, <1>5, <1>6 DEF Inv

LEMMA TextOfVoid == Void \in Described /\ Text(Void) = <<"V">>
<1>1. /\ Void.dims = 0 /\ Void.element = "void" /\ "void" \in Primitives
      /\ PrimitiveLetter["void"] = "V"
  BY DEF Void, Class, Primitives, PrimitiveLetter
<1>2. Brackets(0) = <<>>
  BY DEF Brackets
<1>3. Base(Void) = <<"V">>
  BY <1>1 DEF Base
<1>4. <<>> \o <<"V">> = <<"V">>
  OBVIOUS
<1> QED
  BY <1>1, <1>2, <1>3, <1>4 DEF Text, Described

LEMMA AddResultInv ==
  ASSUME Inv, AddResult
  PROVE  Inv'
<1> DEFINE n == next - 1
           s == sig \o <<")">>
           t == Text(result)
<1>1. /\ pc = "loop" /\ pc' = "done" /\ next > Len(parameters)
      /\ UNCHANGED <<isInit, parameters, result, next, shorty>>
  BY DEF AddResult
<1>2. /\ Len(parameters) \in Nat /\ next = Len(parameters) + 1
      /\ parameters \in [1..Len(parameters) -> Classes]
      /\ result \in Described
  BY <1>1 DEF Inv, MethodInv
<1>3. n \in Nat /\ n + 1 = next /\ \A i \in 1..n : parameters[i] \in Described
  BY <1>2 DEF Described
<1>4. MethodInv' /\ ShortyInv'
  BY <1>1 DEF Inv, MethodInv, ShortyInv
<1>5. sig' = s \o t
  <2>1. GetDesc(result) = t
    BY <1>2, DescIsText
  <2>2. isInit => <<"V">> = t
    BY TextOfVoid DEF Inv, MethodInv
  <2> HIDE DEF t
  <2> QED
    BY <2>1, <2>2 DEF AddResult
<1>6. PICK at : Placed(sig, 2, parameters, n, at) /\ at[next] = Len(sig) + 1
  BY <1>1 DEF Inv, SigInv
<1>7. /\ sig \in Seq(Letters) /\ <<")">> \in Seq(Letters) /\ Len(<<")">>) = 1
      /\ <<")">>[1] = ")" /\ sig[1] = "(" /\ Len(sig) \in Nat \ {0}
  <2>1. ")" \in Letters
    BY DEF Letters
  <2>2. /\ <<")">> \in Seq(Letters) /\ Len(<<")">>) = 1 /\ <<")">>[1] = ")"
    BY <2>1
  <2>3. sig \in Seq(Letters) /\ sig[1] = "(" /\ Len(sig) \in Nat \ {0}
    BY DEF Inv, SigInv
  <2> QED
    BY ONLY <2>2, <2>3
<1>8. t \in Seq(Letters) /\ Len(t) \in Nat \ {0}
  BY <1>2, TextLength
<1>9. s \in Seq(Letters) /\ Len(s) = Len(sig) + 1 /\ s[Len(sig) + 1] = ")" /\ s[1] = "("
  <2>1. 1 \in 1..Len(sig) /\ 1 \in 1..Len(<<")">>)
    BY <1>7
  <2> QED
    BY <1>7, <2>1, Appending
<1>10. HasText(s \o t, Len(s) + 1, result)
  <2> HIDE DEF s
  <2> QED
    BY <1>2, <1>9, TextAppended
<1>11. Placed(s \o t, 2, parameters, n, at)
  <2>1. Placed(s, 2, parameters, n, at)
    BY <1>3, <1>6, <1>7, PlacesStay
  <2> HIDE DEF s, t
  <2> QED
    BY <1>3, <1>8, <1>9, <2>1, PlacesStay
<1>12. /\ s \o t \in Seq(Letters) /\ Len(s \o t) = Len(s) + Len(t)
       /\ (s \o t)[1] = "(" /\ (s \o t)[Len(sig) + 1] = ")"
  <2> HIDE DEF s, t
  <2>1. 1 \in 1..Len(s) /\ Len(sig) + 1 \in 1..Len(s)
    BY <1>7, <1>9
  <2> QED
    BY <1>8, <1>9, <2>1, Appending
<1> HIDE DEF s, t, n
<1>13. SigInv'
  <2>1. Len(s \o t) \in Nat \ {0}
    BY <1>7, <1>8, <1>9, <1>12
  <2>2. at[next] + Len(t) = Len(s \o t) /\ at[next] + 1 = Len(s) + 1
    BY <1>6, <1>7, <1>8, <1>9, <1>12
  <2>3. /\ Placed(sig', 2, parameters', next' - 1, at)
        /\ at[next'] + Len(Text(result')) = Len(sig')
        /\ sig'[at[next']] = ")"
        /\ HasText(sig', at[next'] + 1, result')
    BY <1>1, <1>5, <1>6, <1>10, <1>11, <1>12, <2>2 DEF t, n
  <2> QED
    BY <1>1, <1>2, <1>5, <1>12, <2>1, <2>3 DEF SigInv
<1> QED
  BY <1>4, <1>13 DEF Inv

(* The invariant, for every method.                                         *)
LEMMA InvAlways == Spec => []Inv
<1>1. Inv /\ [Next]_vars => Inv'
  <2> SUFFICES ASSUME Inv, [Next]_vars PROVE Inv'
    OBVIOUS
  <2>1. CASE UNCHANGED vars
    BY <2>1 DEF vars, Inv, MethodInv, ShortyInv, SigInv
  <2> QED
    BY <2>1, AddParameterInv, AddResultInv DEF Next
<1> QED
  BY <1>1, InitInv, PTL DEF Spec

-----------------------------------------------------------------------------

(* A finished signature: the parameters, and the place of the parenthesis.  *)
LEMMA ParametersRead ==
  ASSUME Inv, pc = "done"
  PROVE  /\ Fields(sig, 2) = parameters
         /\ FieldsEnd(sig, 2) \in Nat
         /\ sig[FieldsEnd(sig, 2)] = ")"
         /\ FieldsEnd(sig, 2) + Len(Text(result)) = Len(sig)
         /\ HasText(sig, FieldsEnd(sig, 2) + 1, result)
         /\ Count(sig, 2) = Len(parameters)
         /\ \A i \in 1..Len(parameters) :
              /\ Starts(sig, 2)[i] \in Nat
              /\ HasText(sig, Starts(sig, 2)[i], parameters[i])
<1> DEFINE n == Len(parameters)
<1>1. /\ n \in Nat /\ next = n + 1 /\ parameters \in [1..n -> Classes] /\ n = next - 1
      /\ result \in Described /\ Len(sig) \in Nat
  BY DEF Inv, MethodInv, SigInv
<1>2. PICK at : /\ Placed(sig, 2, parameters, next - 1, at)
                /\ at[next] + Len(Text(result)) = Len(sig)
                /\ sig[at[next]] = ")"
                /\ HasText(sig, at[next] + 1, result)
  BY DEF Inv, SigInv
<1> HIDE DEF n
<1>3. Placed(sig, 2, parameters, n, at) /\ at[next] = at[n + 1]
  BY <1>1, <1>2
<1>4. at[n + 1] \in Nat \ {0} /\ at[n + 1] <= Len(sig)
  <2>1. n + 1 \in 1..(n + 1) /\ Len(Text(result)) \in Nat
    BY <1>1, TextLength
  <2>2. at \in [1..(n + 1) -> Nat] /\ \A i \in 1..(n + 1) : at[i] >= 2 + (i - 1)
    BY <1>3 DEF Placed
  <2>3. at[n + 1] \in Nat /\ at[n + 1] >= 2 + (n + 1 - 1)
    BY ONLY <1>1, <2>1, <2>2
  <2>4. at[n + 1] + Len(Text(result)) = Len(sig)
    BY ONLY <1>2, <1>3
  <2> DEFINE a == at[n + 1]
             l == Len(Text(result))
             m == Len(sig)
  <2>5. /\ a \in Nat /\ a >= 2 + (n + 1 - 1) /\ a + l = m
        /\ l \in Nat /\ m \in Nat /\ n \in Nat
    BY ONLY <1>1, <2>1, <2>3, <2>4
  <2> HIDE DEF a, l, m
  <2>6. a \in Nat \ {0} /\ a <= m
    BY ONLY <2>5
  <2> QED
    BY ONLY <2>6 DEF a, m
<1>5. ~IsField(sig, at[n + 1])
  BY <1>1, <1>2, <1>3, <1>4, ReadNothing
<1>6. /\ Fields(sig, 2) = parameters /\ FieldsEnd(sig, 2) = at[n + 1]
      /\ Count(sig, 2) = n /\ \A i \in 1..n : Starts(sig, 2)[i] = at[i]
  BY <1>1, <1>3, <1>4, <1>5, ReadFields
<1>7. \A i \in 1..n : Starts(sig, 2)[i] \in Nat /\ HasText(sig, Starts(sig, 2)[i], parameters[i])
  <2>1. \A i \in 1..n : i \in 1..(n + 1)
    BY <1>1
  <2> QED
    BY <1>3, <1>6, <2>1 DEF Placed
<1> QED
  BY <1>2, <1>3, <1>4, <1>6, <1>7 DEF n

(* SignatureReadsBack of any method: what the tracer logs as the signature  *)
(* of a call is that of the method called, whatever its arrays and classes. *)
THEOREM SignaturesReadBack == Spec => []SignatureReadsBack
<1>1. ASSUME Inv PROVE SignatureReadsBack
  <2> SUFFICES ASSUME pc = "done" PROVE SignatureReadsBack
    BY DEF SignatureReadsBack
  <2> DEFINE close == FieldsEnd(sig, 2)
             k == close + 1
  <2>1. /\ Fields(sig, 2) = parameters /\ close \in Nat /\ sig[close] = ")"
        /\ close + Len(Text(result)) = Len(sig) /\ HasText(sig, k, result)
    BY <1>1, ParametersRead
  <2>2. /\ sig \in Seq(Letters) /\ Len(sig) \in Nat /\ sig[1] = "("
        /\ result \in Described
    BY <1>1 DEF Inv, SigInv, MethodInv
  <2>3. Len(Text(result)) \in Nat \ {0}
    BY <2>2, TextLength
  <2> HIDE DEF close
  <2>4. close < Len(sig) /\ k \in Nat \ {0}
    BY <2>1, <2>2, <2>3
  <2>5. CASE result = Void
    <3>1. Text(result) = <<"V">> /\ Len(Text(result)) = 1 /\ Text(result)[1] = "V"
      BY <2>5, TextOfVoid
    <3>2. Len(sig) = k
      BY <2>1, <2>2, <3>1
    <3>3. sig[k] = "V"
      <4>1. 1 \in 1..Len(Text(result)) /\ k + 1 - 1 = k
        BY <2>4, <3>1
      <4> QED
        BY <2>1, <3>1, <4>1 DEF HasText
    <3>4. SubSeq(sig, k, Len(sig)) = <<"V">>
      <4> DEFINE v == SubSeq(sig, k, Len(sig))
      <4>1. k \in Int /\ Len(sig) \in Int /\ k <= Len(sig) /\ Len(sig) - k + 1 = 1
        BY <2>4, <3>2
      <4>2. \A i \in k..Len(sig) : sig[i] \in {"V"}
        BY <2>4, <3>2, <3>3
      <4> HIDE DEF k
      <4>3. v \in Seq({"V"}) /\ Len(v) = 1
        BY <4>1, <4>2, SubSeqProperties
      <4> HIDE DEF v
      <4>4. v[1] = "V" /\ <<"V">> \in Seq({"V"}) /\ Len(<<"V">>) = 1 /\ <<"V">>[1] = "V"
        BY <4>3, ElementOfSeq
      <4>5. v = <<"V">>
        BY <4>3, <4>4, SeqEqual
      <4> QED
        BY <4>5 DEF v
    <3> QED
      BY <2>1, <2>2, <2>4, <2>5, <3>4 DEF SignatureReadsBack, close
  <2>6. CASE result # Void
    <3> DEFINE at == [i \in 1..2 |-> IF i = 1 THEN k ELSE Len(sig) + 1]
               types == <<result>>
    <3>1. result \in Classes
      BY <2>2, <2>6 DEF Described
    <3>2. k + Len(Text(result)) = Len(sig) + 1
      BY <2>1, <2>2, <2>3
    <3>3. /\ at \in [1..(1 + 1) -> Nat] /\ at[1] = k /\ at[1 + 1] = Len(sig) + 1
          /\ at[1 + 1] >= k + 1
      BY <2>2, <2>3, <2>4, <3>2
    <3>4. types \in [1..1 -> Classes] /\ types[1] = result
      BY <3>1
    <3>k. k \in Nat \ {0} /\ 1 \in Nat /\ at[1 + 1] <= Len(sig) + 1 /\ Len(sig) \in Nat
      BY <2>2, <2>4, <3>3
    <3> HIDE DEF at, k, types
    <3>5. Placed(sig, k, types, 1, at)
      BY <2>1, <2>4, <3>2, <3>3, <3>4 DEF Placed
    <3>6. ~IsField(sig, at[1 + 1])
      BY <2>2, <3>3, ReadNothing
    <3> DEFINE m == 1
    <3>8. /\ k \in Nat \ {0} /\ m \in Nat /\ Len(sig) \in Nat
          /\ types \in [1..m -> Classes] /\ Placed(sig, k, types, m, at)
          /\ at[m + 1] <= Len(sig) + 1 /\ ~IsField(sig, at[m + 1])
      BY <3>k, <3>4, <3>5, <3>6
    <3> HIDE DEF m
    <3>9. Fields(sig, k) = types /\ FieldsEnd(sig, k) = at[m + 1]
      BY ONLY <3>8, ReadFields
    <3>7. Fields(sig, k) = types /\ FieldsEnd(sig, k) = at[1 + 1]
      BY <3>9 DEF m
    <3> QED
      BY <2>1, <2>2, <2>4, <3>3, <3>7 DEF SignatureReadsBack, close, k, types
  <2> QED
    BY <2>5, <2>6
<1> QED
  BY <1>1, InvAlways, PTL

(* A descriptor in a string begins with the letter that is passed.          *)
LEMMA FirstIsPassed ==
  ASSUME NEW s, NEW k \in Nat, NEW c \in Described, HasText(s, k, c)
  PROVE  Passed(s[k]) = ShortyLetter(c)
<1>1. Len(Text(c)) \in Nat \ {0}
  BY TextLength
<1>2. 1 \in 1..Len(Text(c)) /\ k + 1 - 1 = k
  BY <1>1
<1>3. s[k] = Text(c)[1]
  BY <1>2 DEF HasText
<1> QED
  BY <1>3, ShortyIsPassed

(* ShortyFollowsSignature of any method: the native side takes from the     *)
(* va_list, for each parameter, what the signature says the caller passed,  *)
(* although the letters come from two tables.                               *)
THEOREM ShortiesFollowSignatures == Spec => []ShortyFollowsSignature
<1>1. ASSUME Inv PROVE ShortyFollowsSignature
  <2> SUFFICES ASSUME pc = "done" PROVE ShortyFollowsSignature
    BY DEF ShortyFollowsSignature
  <2> DEFINE n == Len(parameters)
             start == Starts(sig, 2)
             close == FieldsEnd(sig, 2)
  <2>1. /\ n \in Nat /\ next = n + 1 /\ parameters \in [1..n -> Classes]
        /\ result \in Described
        /\ shorty \in Seq(Letters) /\ Len(shorty) = n + 1
        /\ shorty[1] = ShortyLetter(result)
        /\ \A i \in 1..(next - 1) : shorty[i + 1] = ShortyLetter(parameters[i])
    BY <1>1 DEF Inv, MethodInv, ShortyInv, SigInv
  <2>2. /\ close \in Nat /\ HasText(sig, close + 1, result) /\ Count(sig, 2) = n
        /\ \A i \in 1..n : start[i] \in Nat /\ HasText(sig, start[i], parameters[i])
    BY <1>1, ParametersRead
  <2> HIDE DEF n, start, close
  <2>3. Passed(sig[close + 1]) = shorty[1]
    BY <2>1, <2>2, FirstIsPassed
  <2>4. ASSUME NEW k \in 1..(n + 1), k # 1 PROVE shorty[k] = Passed(sig[start[k - 1]])
    <3>1. k - 1 \in 1..n /\ n + 1 - 1 = n /\ (k - 1) + 1 = k
      BY <2>1, <2>4
    <3>2. parameters[k - 1] \in Described
      BY <2>1, <3>1 DEF Described
    <3>3. Passed(sig[start[k - 1]]) = ShortyLetter(parameters[k - 1])
      BY <2>2, <3>1, <3>2, FirstIsPassed
    <3> QED
      BY <2>1, <3>1, <3>3
  <2>5. shorty = [k \in 1..(n + 1) |->
                    IF k = 1 THEN Passed(sig[close + 1]) ELSE Passed(sig[start[k - 1]])]
    <3>1. shorty = [k \in 1..(n + 1) |-> shorty[k]]
      BY <2>1
    <3> QED
      BY <2>3, <2>4, <3>1
  <2> QED
    BY <2>2, <2>5 DEF ShortyFollowsSignature, n, start, close
<1> QED
  BY <1>1, InvAlways, PTL
===============================================================================
