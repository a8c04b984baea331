------------------------------ MODULE FmtPrint ------------------------------
(***************************************************************************)
(* print and println, src/kzadhbat/fmtprint.c: an interpreter of format    *)
(* strings that takes its arguments from a va_list, and strlib_print_int,  *)
(* which writes the digits of a number backwards into a static buffer.     *)
(*                                                                         *)
(* A size_t has W bits (64) and the buffer W + 3 characters (67); an       *)
(* argument is [type, val].  Characters are strings, "NUL" the last one of  *)
(* what is in the buffer.                                                  *)
(***************************************************************************)
EXTENDS Integers, SequencesExt

CONSTANTS
  W,          \* bits of a size_t
  Character,  \* the characters of strings
  Prints,     \* [fmt, args]: format strings and arguments that go with them
  MaxCalls    \* bound on the number of calls

Word == 2 ^ W

Digits == <<"0", "1", "2", "3", "4", "5", "6", "7", "8", "9", "A", "B", "C", "D", "E", "F">>

Conversions == {"s", "c", "d", "x", "o", "b"}
-----------------------------------------------------------------------------
(***************************************************************************)
(* What a format string f says: a % that no % before it has escaped begins *)
(* a conversion, which ends at its letter; an l may stand between them.    *)
(***************************************************************************)
Opens(f, k) ==
  /\ f[k] = "%"
  /\ \E n \in 0 .. k - 1 :
       /\ n % 2 = 0
       /\ \A j \in k - n .. k - 1 : f[j] = "%"
       /\ k - n > 1 => f[k - n - 1] # "%"

(* A conversion that has begun before k still waits for its letter. *)
Waits(f, k) == \E j \in 1 .. k - 1 : Opens(f, j) /\ \A m \in j + 1 .. k - 1 : f[m] = "l"

Converts(f, k) == f[k] \in Conversions /\ Waits(f, k)

(* How many conversions end at k or before it. *)
Conversion(f, k) == Cardinality({j \in 1 .. k : Converts(f, j)})

(* A % begins an escape or a conversion, or nothing comes of it. *)
ProperFormat(f) ==
  \A k \in DOMAIN f : Opens(f, k) =>
    \/ k < Len(f) /\ f[k + 1] = "%"
    \/ \E m \in k + 1 .. Len(f) : f[m] \in Conversions /\ \A j \in k + 1 .. m - 1 : f[j] = "l"
    \/ \A j \in k + 1 .. Len(f) : f[j] = "l"

Numbers == [type : {"size_t"}, val : 0 .. Word - 1]
             \cup [type : {"u32"}, val : 0 .. 2 ^ (W \div 2) - 1]
Texts   == [type : {"char", "str", "NULL"}, val : Seq(Character)]

(* Each conversion has an argument of its kind. *)
GoTogether(f, a) ==
  \A k \in DOMAIN f : Converts(f, k) =>
    /\ Conversion(f, k) \in DOMAIN a
    /\ a[Conversion(f, k)] \in IF f[k] \in {"s", "c"} THEN Texts ELSE Numbers

ASSUME FmtPrintAssumption ==
  /\ W \in Nat \ {0, 1, 2} /\ W % 2 = 0
  /\ MaxCalls \in Nat
  /\ Digits \in Seq(Character) /\ {"x", "o", "b", "%", "NL"} \subseteq Character
  /\ "NUL" \notin Character
  /\ \A p \in Prints :
       /\ p.fmt \in Seq(Character) /\ p.args \in Seq(Numbers \cup Texts)
       /\ ProperFormat(p.fmt) /\ GoTogether(p.fmt, p.args)

VARIABLES
  putchar_func,   \* is it set?
  calls,          \* how many calls of print and println have begun
  pc,             \* where the call is
  fmt, args, newline,   \* its arguments, and whether it is println
  pos, arg,       \* the next character and the next argument
  fmt_spec,
  val, base, i,   \* the local variables of strlib_print_int
  number,         \* history: the value it was called with
  buf,            \* its static buffer
  out             \* what the call has printed

callVars   == <<fmt, args, newline>>
intVars    == <<val, base, i, number>>
vars == <<putchar_func, calls, pc, callVars, pos, arg, fmt_spec, intVars, buf, out>>

(* Mutant: no room for the character at the end. *)
MAX_INT_BUF_SIZE_TIGHT == W + 2

MAX_INT_BUF_SIZE == W + 3

Init ==
  /\ putchar_func = FALSE
  /\ calls = 0
  /\ pc = "idle"
  /\ fmt = <<>> /\ args = <<>> /\ newline = FALSE
  /\ pos = 1 /\ arg = 1 /\ fmt_spec = FALSE
  /\ val = 0 /\ base = 0 /\ i = 0 /\ number = 0
  /\ buf = [k \in 0 .. MAX_INT_BUF_SIZE - 1 |-> "NUL"]
  /\ out = <<>>

(* strlib_initialize(putchar): NULL is ignored. *)
Initialize ==
  /\ pc = "idle"
  /\ putchar_func' \in {putchar_func, TRUE}
  /\ UNCHANGED <<calls, pc, callVars, pos, arg, fmt_spec, intVars, buf, out>>

Call ==
  /\ pc = "idle" /\ calls < MaxCalls
  /\ calls' = calls + 1
  /\ \E p \in Prints : fmt' = p.fmt /\ args' = p.args
  /\ newline' \in BOOLEAN
  /\ pos' = 1 /\ arg' = 1 /\ fmt_spec' = FALSE
  /\ out' = <<>>
  /\ pc' = "scan"
  /\ UNCHANGED <<putchar_func, intVars, buf>>

(* putchar_func(c): a call through a NULL pointer before it is set. *)
Put(s, next) ==
  IF s = <<>> \/ putchar_func THEN out' = out \o s /\ pc' = next
  ELSE pc' = "trap" /\ UNCHANGED out
-----------------------------------------------------------------------------
(***************************************************************************)
(* strlib_formatted_print: one character per step                          *)
(***************************************************************************)
Cur == fmt[pos]

Scanning == pc = "scan" /\ pos <= Len(fmt)

(* Mutant: the character is not passed over. *)
PercentStays ==
  /\ Scanning /\ Cur = "%"
  /\ fmt_spec' = ~fmt_spec
  /\ UNCHANGED <<putchar_func, calls, pc, callVars, pos, arg, intVars, buf, out>>

Percent ==
  /\ Scanning /\ Cur = "%"
  /\ Put(IF fmt_spec THEN <<Cur>> ELSE <<>>, "scan")
  /\ fmt_spec' = ~fmt_spec
  /\ pos' = pos + 1
  /\ UNCHANGED <<putchar_func, calls, callVars, arg, intVars, buf>>

(* Mutant: a character that is no conversion ends the specification. *)
PlainEndsSpec ==
  /\ Scanning /\ Cur # "%" /\ ~(fmt_spec /\ Cur \in Conversions)
  /\ Put(<<Cur>>, "scan")
  /\ fmt_spec' = FALSE
  /\ pos' = pos + 1
  /\ UNCHANGED <<putchar_func, calls, callVars, arg, intVars, buf>>

(* Any other character; a specification stays open. *)
Plain ==
  /\ Scanning /\ Cur # "%" /\ ~(fmt_spec /\ Cur \in Conversions)
  /\ Put(<<Cur>>, "scan")
  /\ pos' = pos + 1
  /\ UNCHANGED <<putchar_func, calls, callVars, arg, fmt_spec, intVars, buf>>

(* va_arg(args, size_t) of an argument of another type: the calling        *)
(* convention extends a u32 of W/2 bits by its sign.                       *)
SizeTOf(a) ==
  IF a.type = "u32" /\ a.val >= 2 ^ ((W \div 2) - 1) THEN Word - 2 ^ (W \div 2) + a.val
  ELSE a.val

(* strlib_print_str, and putchar_func of a character *)
Chars(a) == IF a.type = "NULL" THEN <<>> ELSE a.val

(* %s and %c *)
Text ==
  /\ Scanning /\ fmt_spec /\ Cur \in {"s", "c"}
  /\ Put(Chars(args[arg]), "scan")
  /\ arg' = arg + 1 /\ pos' = pos + 1 /\ fmt_spec' = FALSE
  /\ UNCHANGED <<putchar_func, calls, callVars, intVars, buf>>

BaseOf(c) == CASE c = "d" -> 10 [] c = "x" -> 16 [] c = "o" -> 8 [] c = "b" -> 2

(* %d, %x, %o, %b: the call of strlib_print_int *)
Number ==
  /\ Scanning /\ fmt_spec /\ Cur \in {"d", "x", "o", "b"}
  /\ val' = SizeTOf(args[arg]) /\ base' = BaseOf(Cur)
  /\ i' = MAX_INT_BUF_SIZE - 2
  /\ number' = val'
  /\ arg' = arg + 1 /\ pos' = pos + 1 /\ fmt_spec' = FALSE
  /\ pc' = "digits"
  /\ UNCHANGED <<putchar_func, calls, callVars, buf, out>>

Finish ==
  /\ pc = "scan" /\ pos > Len(fmt)
  /\ Put(IF newline THEN <<"NL">> ELSE <<>>, "idle")
  /\ UNCHANGED <<putchar_func, calls, callVars, pos, arg, fmt_spec, intVars, buf>>
-----------------------------------------------------------------------------
(***************************************************************************)
(* strlib_print_int                                                        *)
(***************************************************************************)
(* The characters of s, written backwards from index k on.  An index wraps *)
(* around below 0; what does not fit is lost here.                         *)
WriteBack(k, s) ==
  [c \in DOMAIN buf |->
     LET j == ((k - c) % Word) + 1 IN IF j \in DOMAIN s THEN s[j] ELSE buf[c]]

Back(k, n) == (k - n) % Word

Digit ==
  /\ pc = "digits" /\ val # 0 /\ i # 0
  /\ buf' = WriteBack(i, <<Digits[(val % base) + 1]>>)
  /\ i' = Back(i, 1) /\ val' = val \div base
  /\ UNCHANGED <<putchar_func, calls, pc, callVars, pos, arg, fmt_spec, base, number, out>>

(* The prefix of a number, the last character first. *)
Prefix ==
  CASE base = 16 -> <<"x", "0">> [] base = 8 -> <<"o", "0">> [] base = 2 -> <<"b", "0">>
    [] OTHER -> <<>>

(* Before it the digit of a zero. *)
FrontChars == (IF number = 0 THEN <<"0">> ELSE <<>>) \o Prefix

Prepend ==
  /\ pc = "digits" /\ (val = 0 \/ i = 0)
  /\ buf' = WriteBack(i, FrontChars)
  /\ i' = Back(i, Len(FrontChars))
  /\ pc' = "emit"
  /\ UNCHANGED <<putchar_func, calls, callVars, pos, arg, fmt_spec, val, base, number, out>>

(* The string in the buffer that begins at index k. *)
StringAt(k) ==
  LET nul == Min({c \in DOMAIN buf : c >= k /\ buf[c] = "NUL"})
  IN [n \in 1 .. nul - k |-> buf[k + n - 1]]

Emit ==
  /\ pc = "emit"
  /\ Put(StringAt((i + 1) % Word), "scan")
  /\ UNCHANGED <<putchar_func, calls, callVars, pos, arg, fmt_spec, intVars, buf>>

(* A trap is never left. *)
Trapped == pc = "trap" /\ UNCHANGED vars

Step == Percent \/ Plain \/ Text \/ Number \/ Finish \/ Digit \/ Prepend \/ Emit

Next == Initialize \/ Call \/ Step \/ Trapped

(* A call that has begun goes on. *)
Spec == Init /\ [][Next]_vars /\ WF_vars(Step)
-----------------------------------------------------------------------------
(* What a call should print. The numeral of n in base b. *)
Numeral(n, b) ==
  LET N[v \in 0 .. Word - 1] ==
        IF v < b THEN <<Digits[v + 1]>> ELSE Append(N[v \div b], Digits[(v % b) + 1])
  IN N[n]

Written(c, a) ==
  CASE c \in {"s", "c"} -> Chars(a)
    [] c = "d" -> Numeral(a.val, 10)
    [] c = "x" -> <<"0", "x">> \o Numeral(a.val, 16)
    [] c = "o" -> <<"0", "o">> \o Numeral(a.val, 8)
    [] c = "b" -> <<"0", "b">> \o Numeral(a.val, 2)

(* What the character at k of f adds to the output; the n-th conversion    *)
(* has the n-th of the arguments a.                                        *)
Adds(f, a, k) ==
  CASE Converts(f, k) -> Written(f[k], a[Conversion(f, k)])
    [] f[k] = "%" -> IF Opens(f, k) THEN <<>> ELSE <<"%">>
    [] OTHER -> <<f[k]>>

Faithful(a) == \A k \in DOMAIN a : a[k].type = "u32" => a[k].val = SizeTOf(a[k])

(* A call prints what its format says, each argument at its conversion and *)
(* each number in full, whatever earlier calls left in the static buffer.  *)
(* An l prints itself but does not put the arguments out of step ("%lx" in *)
(* the assertions of kinit).  A u32 in the upper half is not printed as    *)
(* its value, and is left out here.                                        *)
OutputRight ==
  pc = "idle" /\ calls > 0 /\ Faithful(args) =>
    out = FlattenSeq([k \in DOMAIN fmt |-> Adds(fmt, args, k)]) \o (IF newline THEN <<"NL">> ELSE <<>>)

(* strlib_print_int writes only into its buffer and never over its last    *)
(* character: the largest number in base 2 with its prefix fills it to the *)
(* first.  The index is below 0 only when nothing more is written.         *)
InBuffer ==
  /\ buf[MAX_INT_BUF_SIZE - 1] = "NUL"
  /\ pc = "digits" => i < MAX_INT_BUF_SIZE - 1 /\ (val = 0 => i + 1 >= Len(FrontChars))
  /\ pc = "digits" /\ val # 0 => i # 0

(* Every call returns, if the output was initialised. *)
Returns == pc \notin {"idle", "trap"} ~> pc \in {"idle", "trap"}
=============================================================================
