------------------------------- MODULE ErrVal -------------------------------
(***************************************************************************)
(* errval_t, src/kzadhbat/error.c: a word that is meant to hold a stack of *)
(* eight errors of one byte each.  The word is the set of its bits that    *)
(* are one.                                                                *)
(*                                                                         *)
(* err_push and err_pop shift by sizeof(enum grouperError), which is one   *)
(* (the number of bytes), and not by the eight bits an error takes.        *)
(***************************************************************************)
EXTENDS Integers, Sequences

CONSTANTS
  WIDTH,       \* bits of errval_t
  SHIFT,       \* sizeof(enum grouperError)
  ErrorCode,   \* the values of enum grouperError other than ERR_OK
  GUARD,       \* GROUPER_ERROR_GUARD_VALUE, the length of grouper_error_str
  DEPTH        \* bound on the number of errors pushed: "of depth 8"

(* An error fits in a byte: the first SASSERT of error.c. *)
ASSUME ErrValAssumption ==
  /\ WIDTH \in Nat /\ WIDTH >= 8
  /\ SHIFT \in Nat \ {0}
  /\ GUARD \in 0 .. 256 /\ ErrorCode \subseteq 1 .. GUARD - 1
  /\ DEPTH \in Nat

VARIABLES
  errval,     \* the word
  pushed,     \* history: the errors pushed since err_new
  printing    \* err_print_stack is in its loop

vars == <<errval, pushed, printing>>

(* The bits of an error code. *)
PowersOf2 == <<1, 2, 4, 8, 16, 32, 64, 128>>
Bits(code) == {b \in 0 .. 7 : (code \div PowersOf2[b + 1]) % 2 = 1}

ShiftLeft(e)  == {b \in SHIFT .. WIDTH - 1 : b - SHIFT \in e}
ShiftRight(e) == {b \in 0 .. WIDTH - 1 - SHIFT : b + SHIFT \in e}

(* Mutants: the error is not entered; nothing is popped. *)
PushDropped(e, code) == ShiftLeft(e)
PopNothing(e)        == e

err_push(e, code) == ShiftLeft(e) \cup Bits(code)
err_pop(e)        == ShiftRight(e)
err_top(e)        == e \cap 0 .. 7
err_is_fail(e)    == err_top(e) # {}

(* err_new *)
Init ==
  /\ errval = {}
  /\ pushed = <<>>
  /\ printing = FALSE

(* A caller adds its own error to the one it received. *)
Push(code) ==
  /\ ~printing
  /\ Len(pushed) < DEPTH
  /\ errval' = err_push(errval, code)
  /\ pushed' = Append(pushed, code)
  /\ UNCHANGED printing

(* err_print_stack(errval): the loop prints and pops while the top is not  *)
(* ERR_OK.                                                                 *)
PrintStart ==
  /\ ~printing
  /\ pushed # <<>>
  /\ printing' = TRUE
  /\ UNCHANGED <<errval, pushed>>

PrintStep ==
  /\ printing
  /\ err_is_fail(errval)
  /\ errval' = err_pop(errval)
  /\ UNCHANGED <<pushed, printing>>

(* The loop ends; the caller's copy of the error is done with. *)
PrintEnd ==
  /\ printing
  /\ ~err_is_fail(errval)
  /\ errval' = {}
  /\ pushed' = <<>>
  /\ printing' = FALSE

Next == (\E code \in ErrorCode : Push(code)) \/ PrintStart \/ PrintStep \/ PrintEnd

(* The loop runs on: nothing preempts it. *)
Fairness == WF_vars(PrintStep) /\ WF_vars(PrintEnd)

Spec == Init /\ [][Next]_vars /\ Fairness
-----------------------------------------------------------------------------
(* A failure stays a failure however many errors are pushed on top of it   *)
(* on the way to the caller that tests it with err_is_fail.                *)
FailurePropagates == ~printing /\ pushed # <<>> => err_is_fail(errval)

(* The loop of err_print_stack ends for every error value. *)
PrintEnds == printing ~> ~printing
-----------------------------------------------------------------------------
(* "Returns the top error value from the stack": the last one pushed.      *)
TopIsLastPushed ==
  ~printing /\ pushed # <<>> => err_top(errval) = Bits(pushed[Len(pushed)])
=============================================================================
