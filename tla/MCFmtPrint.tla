----------------------------- MODULE MCFmtPrint -----------------------------
(***************************************************************************)
(* Instances of FmtPrint for TLC: a size_t of 6 bits, a u32 of 3.          *)
(***************************************************************************)
EXTENDS FmtPrint

Num(n)  == [type |-> "size_t", val |-> n]
U32(n)  == [type |-> "u32", val |-> n]
Str(s)  == [type |-> "str", val |-> s]
Null    == [type |-> "NULL", val |-> <<>>]
Char(c) == [type |-> "char", val |-> <<c>>]

MCCharacter ==
  Range(Digits) \cup {"s", "c", "d", "x", "o", "b", "l", "h", "i", "k", " ", "!", "%", "NL"}

Of(f, a) == [fmt |-> f, args |-> a]

(* Zero, one digit and more in each base, and the largest number. *)
Values == 0 .. 10 \cup {15, 16, 17, 31, 32, 33, 42, 62, 63}

MCPrints ==
  {Of(<<"%", c>>, <<Num(n)>>) : c \in {"d", "x", "o", "b"}, n \in Values}
  \cup {Of(<<"d", "%", "d", "x", "%", "x", "b">>, <<Num(10), Num(63)>>),
        Of(<<"%", "l", "x", " ", "%", "l", "x">>, <<Num(5), Num(6)>>),
        Of(<<"%", "s", "%", "c", "c">>, <<Str(<<"h", "i">>), Char("!")>>),
        Of(<<"s", "%", "s", "%", "d">>, <<Null, Num(3)>>),
        Of(<<"%", "%", "d", "%", "%", "%", "d">>, <<Num(4)>>),
        Of(<<"o", "k">>, <<>>), Of(<<>>, <<>>)}
  \cup {Of(<<"%", "x">>, <<U32(n)>>) : n \in {3, 4, 7}}
=============================================================================
