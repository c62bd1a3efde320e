----------------------------- MODULE ParamFormat -----------------------------
(***************************************************************************)
(* get_param_valist_val_str of jni_function_hook.cpp, and the buffer its     *)
(* caller log_method_info gives it: the arguments of an intercepted call    *)
(* are read from a va_list by their shorty letters, printed into ss[256],   *)
(* and appended to call_method_str[1024], behind the method's names, until   *)
(* a counter reaches 500.                                                   *)
(*                                                                         *)
(* A text is its length.  A va_list is the word it points to: on            *)
(* armeabi-v7a a jlong or jdouble takes two words, the first of them even,  *)
(* and so does a jfloat, which the caller's promotion made a double, while  *)
(* va_arg(list, jfloat) moves on by one word.  On arm64-v8a every argument  *)
(* has a slot of its own.                                                   *)
(***************************************************************************)
EXTENDS Integers

CONSTANTS
  Limit,         \* 500: the counter at which appending stops
  Cut,           \* 200: the size snprintf is given for a String argument
  SsSize,        \* 256: sizeof ss
  StrSize,       \* 1024: sizeof call_method_str
  NumberTexts,   \* lengths of an integer or jfloat, with its label
  DoubleTexts,   \* lengths of a jdouble: "%lf" prints up to 309 digits
  StringTexts,   \* lengths of a String argument, with its label
  HeaderTexts,   \* lengths of class, method and signature on line 104
  MaxArgs        \* bound: arguments of the call

ASSUME SizesAreNumbers == {Limit, Cut, SsSize, StrSize, MaxArgs} \subseteq Nat \ {0}

ASSUME CutFits == Cut <= SsSize

ASSUME TextsAreLengths ==
  NumberTexts \cup DoubleTexts \cup StringTexts \cup HeaderTexts \subseteq Nat

ASSUME NumbersFit == \A k \in NumberTexts : k < SsSize

VARIABLES
  abi,      \* the ABI the library was built for
  i,        \* arguments read so far
  n,        \* the counter
  used,     \* strlen of call_method_str
  header,   \* what line 104 put there
  passed,   \* the word behind the arguments read so far, where the caller put them
  list,     \* the word the va_list points to
  floats,   \* history: a jfloat was read
  wide,     \* history: a jdouble did not fit ss
  pc        \* "print", "logged", or how the thread ended: "smashed", "fault"

vars == <<abi, i, n, used, header, passed, list, floats, wide, pc>>

Letters == {"Z", "C", "B", "S", "I", "J", "F", "D", "L"}

TypeOK ==
  /\ abi \in {"arm", "arm64"}
  /\ i \in Nat /\ n \in Nat /\ used \in Nat /\ header \in Nat
  /\ passed \in Nat /\ list \in Nat
  /\ floats \in BOOLEAN /\ wide \in BOOLEAN
  /\ pc \in {"print", "logged", "smashed", "fault"}

(* log_method_info formats the header, lines 103-104.  The variable         *)
(* arguments of Call<Type>Method begin behind env, the object and the       *)
(* method id.                                                               *)
Init ==
  /\ abi \in {"arm", "arm64"}
  /\ header \in HeaderTexts
  /\ used = header
  /\ pc = IF header < StrSize THEN "print" ELSE "smashed"
  /\ i = 0 /\ n = 0
  /\ passed = 3 /\ list = 3
  /\ floats = FALSE /\ wide = FALSE

(* The word behind an argument of two words, or of one, that starts at w or *)
(* at the next even word.                                                   *)
Behind(w, two) ==
  IF abi = "arm" /\ two THEN w + (w % 2) + 2 ELSE w + 1

(* Mutation of Read: a jlong is read as a jint.                             *)
ReadJlongAsJint(letter) ==
  /\ passed' = Behind(passed, letter \in {"J", "D", "F"})
  /\ list' = Behind(list, letter = "D")
  /\ floats' = (floats \/ letter = "F")

(* va_arg of lines 43-67.                                                   *)
Read(letter) ==
  /\ passed' = Behind(passed, letter \in {"J", "D", "F"})
  /\ list' = Behind(list, letter \in {"J", "D"})
  /\ floats' = (floats \/ letter = "F")

(* The test of line 76.                                                     *)
Appends(counted) == n + counted < Limit

(* Lines 43-82 for one argument: its text is counted in n with all its      *)
(* length, and appended with the length ss holds.                           *)
Render(counted, written) ==
  /\ pc = "print"
  /\ i < MaxArgs
  /\ i' = i + 1
  /\ n' = n + counted
  /\ IF written >= SsSize
     THEN pc' = "smashed" /\ UNCHANGED used
     ELSE IF Appends(counted)
     THEN /\ used' = used + written
          /\ pc' = IF used + written < StrSize THEN "print" ELSE "smashed"
     ELSE pc' = "logged" /\ UNCHANGED used
  /\ UNCHANGED <<abi, header>>

RenderNumber ==
  \E letter \in Letters \ {"D", "L"}, k \in NumberTexts :
    Read(letter) /\ Render(k, k) /\ UNCHANGED wide

RenderDouble ==
  \E k \in DoubleTexts :
    Read("D") /\ Render(k, k) /\ wide' = (k >= SsSize)

(* Mutation of CutText: sprintf instead of snprintf.                        *)
Uncut(k) == k

(* What snprintf(ss, 200, ...) leaves of a String argument.                 *)
CutText(k) == IF k < Cut THEN k ELSE Cut - 1

RenderString ==
  \E k \in StringTexts :
    Read("L") /\ Render(k, CutText(k)) /\ UNCHANGED wide

(* A null argument, or an object of another class: nothing is printed.      *)
RenderNothing == Read("L") /\ Render(0, 0) /\ UNCHANGED wide

(* An object argument read from a word that is not its own: IsInstanceOf is *)
(* given a stray reference.                                                 *)
StrayReference ==
  /\ pc = "print" /\ i < MaxArgs
  /\ list # passed
  /\ Read("L")
  /\ pc' = "fault"
  /\ UNCHANGED <<abi, i, n, used, header, wide>>

(* The shorty ends; log_method_info logs the line.                          *)
Log ==
  /\ pc = "print"
  /\ pc' = "logged"
  /\ UNCHANGED <<abi, i, n, used, header, passed, list, floats, wide>>

Next ==
  RenderNumber \/ RenderDouble \/ RenderString \/ RenderNothing \/ StrayReference \/ Log

Spec == Init /\ [][Next]_vars

-----------------------------------------------------------------------------

(* What is appended stays below the limit, although it is the counter that  *)
(* is compared, and the two differ as soon as a String is cut.              *)
AppendedStaysBelowLimit == used - header < Limit

(* A buffer overflows only when class, method and signature leave less room *)
(* than the limit, or when a jdouble prints more than ss holds: never       *)
(* because of a String argument or of the number of arguments.              *)
OverflowNeedsLongHeaderOrDouble ==
  pc = "smashed" => header > StrSize - Limit \/ wide

(* The buffers hold what is printed, with these two exceptions.             *)
BuffersHold == AppendedStaysBelowLimit /\ OverflowNeedsLongHeaderOrDouble

(* Each argument is read from its own words, and no stray reference is      *)
(* used, unless a jfloat was read before on armeabi-v7a.                    *)
ReadsOwnWords ==
  ~(abi = "arm" /\ floats) => list = passed /\ pc # "fault"

(* Even then the reader never gets ahead of the caller: it reads no word    *)
(* beyond the arguments that were passed.                                   *)
ReadsStayInside == list <= passed

(* The words the tracer reads are those the application passed.             *)
WordsMatch == ReadsOwnWords /\ ReadsStayInside
=============================================================================
