-------------------------- MODULE ParamFormatProofs --------------------------
(***************************************************************************)
(* Theorems about ParamFormat, for all buffer sizes that fit each other and *)
(* all texts: the inductive invariant, and what follows from it.            *)
(***************************************************************************)
EXTENDS ParamFormat, TLAPS

USE SizesAreNumbers, CutFits, TextsAreLengths, NumbersFit

(* What is appended is never longer than what is counted: this is what      *)
(* makes the comparison of the counter bound the text.                      *)
LimitInv == header <= used /\ used - header <= n /\ used - header < Limit

(* The inductive invariant.                                                 *)
Inv == TypeOK /\ LimitInv /\ WordsMatch /\ OverflowNeedsLongHeaderOrDouble

(* Reading one argument keeps the va_list at or before the caller's word,   *)
(* and level with it unless a jfloat was read on armeabi-v7a.               *)
LEMMA ReadKeepsPace ==
  ASSUME TypeOK, WordsMatch, NEW letter \in Letters, Read(letter), abi' = abi
  PROVE  /\ passed' \in Nat /\ list' \in Nat /\ floats' \in BOOLEAN
         /\ list' <= passed'
         /\ ~(abi = "arm" /\ floats') => list' = passed'
         /\ ~(abi = "arm" /\ floats) => list = passed
<1>1. passed \in Nat /\ list \in Nat /\ list <= passed /\ floats \in BOOLEAN
  BY DEF TypeOK, WordsMatch, ReadsStayInside
<1>2. ~(abi = "arm" /\ floats) => list = passed
  BY DEF WordsMatch, ReadsOwnWords
<1>3. floats' \in BOOLEAN /\ (floats' <=> floats \/ letter = "F")
  BY <1>1 DEF Read
<1>4. \/ /\ passed' = passed + 1 /\ list' = list + 1
         /\ ~(abi = "arm" /\ letter = "F")
      \/ /\ passed' = passed + (passed % 2) + 2
         /\ list' = list + (list % 2) + 2
      \/ /\ passed' = passed + (passed % 2) + 2
         /\ list' = list + 1
         /\ abi = "arm" /\ letter = "F"
  BY DEF Read, Behind
<1>5. /\ passed % 2 \in {0, 1} /\ list % 2 \in {0, 1}
      /\ list < passed => list + (list % 2) <= passed + (passed % 2)
  BY <1>1
<1>6. passed' \in Nat /\ list' \in Nat
  BY <1>1, <1>4, <1>5
<1>7. list' <= passed'
  BY <1>1, <1>4, <1>5
<1>8. ~(abi = "arm" /\ floats') => list' = passed'
  BY <1>1, <1>2, <1>3, <1>4, <1>5
<1> QED
  BY <1>2, <1>3, <1>6, <1>7, <1>8

(* Printing a text that is no longer than what is counted for it, and fits  *)
(* ss unless it is a jdouble, keeps the invariant.                          *)
LEMMA RenderKeepsInv ==
  ASSUME Inv, NEW letter \in Letters, Read(letter),
         NEW counted \in Nat, NEW written \in Nat, Render(counted, written),
         written <= counted,
         wide' \in BOOLEAN, written >= SsSize => wide'
  PROVE  Inv'
<1>1. abi' = abi /\ header' = header /\ i' = i + 1 /\ n' = n + counted
  BY DEF Render
<1>2. /\ passed' \in Nat /\ list' \in Nat /\ floats' \in BOOLEAN
      /\ list' <= passed'
      /\ ~(abi = "arm" /\ floats') => list' = passed'
  BY <1>1, ReadKeepsPace DEF Inv
<1>3. pc' # "fault" /\ pc' \in {"print", "logged", "smashed"}
  BY DEF Render
<1>4. WordsMatch'
  BY <1>1, <1>2, <1>3 DEF WordsMatch, ReadsStayInside, ReadsOwnWords
<1>5. i \in Nat /\ n \in Nat /\ used \in Nat /\ header \in Nat
  BY DEF Inv, TypeOK
<1>6. wide' \in BOOLEAN
  OBVIOUS
<1>7. used' = used \/ (used' = used + written /\ n + counted < Limit)
  BY DEF Render, Appends
<1>8. LimitInv'
  BY <1>1, <1>5, <1>7 DEF Inv, LimitInv
<1>9. TypeOK'
  BY <1>1, <1>2, <1>3, <1>5, <1>6, <1>7 DEF Inv, TypeOK
<1>10. pc' = "smashed" =>
         \/ written >= SsSize
         \/ used' = used + written /\ used + written >= StrSize
  BY <1>5 DEF Render
<1>11. OverflowNeedsLongHeaderOrDouble'
  <2> SUFFICES ASSUME pc' = "smashed"
               PROVE  header' > StrSize - Limit \/ wide'
    BY DEF OverflowNeedsLongHeaderOrDouble
  <2>1. CASE written >= SsSize
    BY <2>1
  <2>2. CASE used' = used + written /\ used + written >= StrSize
    BY <2>2, <1>1, <1>5, <1>8 DEF LimitInv
  <2> QED
    BY <1>10, <2>1, <2>2
<1> QED
  BY <1>4, <1>8, <1>9, <1>11 DEF Inv

(* At first nothing is appended and nothing read.                           *)
LEMMA InitInv == Init => Inv
<1> SUFFICES ASSUME Init PROVE Inv
  OBVIOUS
<1>1. header \in Nat /\ Limit \in Nat /\ Limit > 0 /\ StrSize \in Nat
  BY DEF Init
<1>2. \/ pc = "print"
      \/ pc = "smashed" /\ ~(header < StrSize)
  BY DEF Init
<1>3. LimitInv
  BY <1>1 DEF Init, LimitInv
<1>4. TypeOK
  BY <1>1, <1>2 DEF Init, TypeOK
<1>5. OverflowNeedsLongHeaderOrDouble
  BY <1>1, <1>2 DEF OverflowNeedsLongHeaderOrDouble
<1>6. WordsMatch
  BY <1>2 DEF Init, WordsMatch, ReadsStayInside, ReadsOwnWords
<1> QED
  BY <1>3, <1>4, <1>5, <1>6 DEF Inv

(* Every way of rendering an argument keeps the invariant.                  *)
LEMMA NextInv == Inv /\ [Next]_vars => Inv'
<1> SUFFICES ASSUME Inv, [Next]_vars PROVE Inv'
  OBVIOUS
<1>1. CASE RenderNumber
  <2> PICK letter \in Letters \ {"D", "L"}, k \in NumberTexts :
        Read(letter) /\ Render(k, k) /\ UNCHANGED wide
    BY <1>1 DEF RenderNumber
  <2>1. k \in Nat /\ ~(k >= SsSize) /\ k <= k /\ wide' \in BOOLEAN
    BY DEF Inv, TypeOK
  <2> QED
    BY <2>1, RenderKeepsInv
<1>2. CASE RenderDouble
  <2> PICK k \in DoubleTexts : Read("D") /\ Render(k, k) /\ wide' = (k >= SsSize)
    BY <1>2 DEF RenderDouble
  <2>1. k \in Nat /\ k <= k /\ "D" \in Letters /\ wide' \in BOOLEAN
    BY DEF Letters
  <2> QED
    BY <2>1, RenderKeepsInv
<1>3. CASE RenderString
  <2> PICK k \in StringTexts : Read("L") /\ Render(k, CutText(k)) /\ UNCHANGED wide
    BY <1>3 DEF RenderString
  <2>1. k \in Nat /\ CutText(k) \in Nat /\ CutText(k) <= k /\ ~(CutText(k) >= SsSize)
    BY DEF CutText
  <2>2. "L" \in Letters /\ wide' \in BOOLEAN
    BY DEF Letters, Inv, TypeOK
  <2> QED
    BY <2>1, <2>2, RenderKeepsInv
<1>4. CASE RenderNothing
  <2>1. Read("L") /\ Render(0, 0) /\ "L" \in Letters /\ UNCHANGED wide
    BY <1>4 DEF RenderNothing, Letters
  <2>2. ~(0 >= SsSize) /\ 0 <= 0 /\ 0 \in Nat /\ wide' \in BOOLEAN
    BY <2>1 DEF Inv, TypeOK
  <2> QED
    BY <2>1, <2>2, RenderKeepsInv
<1>5. CASE StrayReference
  <2>1. Read("L") /\ "L" \in Letters /\ abi' = abi /\ list # passed
    BY <1>5 DEF StrayReference, Letters
  <2>2. UNCHANGED <<abi, i, n, used, header, wide>> /\ pc' = "fault"
    BY <1>5 DEF StrayReference
  <2>3. /\ passed' \in Nat /\ list' \in Nat /\ floats' \in BOOLEAN
        /\ list' <= passed'
        /\ ~(abi = "arm" /\ floats') => list' = passed'
        /\ ~(abi = "arm" /\ floats) => list = passed
    BY <2>1, ReadKeepsPace DEF Inv
  <2>4. abi = "arm" /\ floats'
    BY <2>1, <2>3 DEF Read
  <2> QED
    BY <2>2, <2>3, <2>4 DEF Inv, TypeOK, LimitInv, WordsMatch, ReadsStayInside,
       ReadsOwnWords, OverflowNeedsLongHeaderOrDouble
<1>6. CASE Log
  BY <1>6 DEF Log, Inv, TypeOK, LimitInv, WordsMatch, ReadsStayInside,
     ReadsOwnWords, OverflowNeedsLongHeaderOrDouble
<1>7. CASE UNCHANGED vars
  BY <1>7 DEF vars, Inv, TypeOK, LimitInv, WordsMatch, ReadsStayInside,
     ReadsOwnWords, OverflowNeedsLongHeaderOrDouble
<1> QED
  BY <1>1, <1>2, <1>3, <1>4, <1>5, <1>6, <1>7 DEF Next

(* The renderer's inductive invariant.                                      *)
LEMMA InvHolds == Spec => []Inv
  BY InitInv, NextInv, PTL DEF Spec

(* Whatever the sizes of the buffers and the texts, the counter of line 76  *)
(* keeps what is appended to call_method_str below the limit, and a buffer  *)
(* overflows only behind a long header or because of a long jdouble.        *)
THEOREM OverflowIsExplained == Spec => []BuffersHold
<1>1. Inv => BuffersHold
  BY DEF Inv, LimitInv, BuffersHold, AppendedStaysBelowLimit
<1> QED
  BY <1>1, InvHolds, PTL

(* The va_list is in step with the caller until a jfloat is read on         *)
(* armeabi-v7a, and never ahead of it, for any list of arguments.           *)
THEOREM WordsAreOwn == Spec => []WordsMatch
<1>1. Inv => WordsMatch
  BY DEF Inv
<1> QED
  BY <1>1, InvHolds, PTL
=============================================================================
