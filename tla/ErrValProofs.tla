---------------------------- MODULE ErrValProofs ----------------------------
(***************************************************************************)
(* An error value that has an error in it is a failure to err_is_fail, for *)
(* every width of the word, every shift and every sequence of pushes: the  *)
(* shift by the wrong amount (module ErrVal) mixes the errors up but does  *)
(* not lose the failure.                                                   *)
(***************************************************************************)
EXTENDS ErrVal, TLAPS

(* An error code other than ERR_OK has a bit that is one. *)
LEMMA BitsNotEmpty ==
  ASSUME NEW code \in 1 .. 255
  PROVE  Bits(code) # {} /\ Bits(code) \subseteq 0 .. 7
<1>1. 1 % 2 = 1
  OBVIOUS
<1>2. ASSUME NEW b \in 0 .. 7, code \div PowersOf2[b + 1] = 1
      PROVE  Bits(code) # {}
  <2>1. (code \div PowersOf2[b + 1]) % 2 = 1
    BY <1>1, <1>2
  <2>2. b \in Bits(code)
    BY <2>1, Zenon DEF Bits
  <2> QED
    BY <2>2
<1>3. \/ code \div 1 = 1  \/ code \div 2 = 1  \/ code \div 4 = 1  \/ code \div 8 = 1
      \/ code \div 16 = 1 \/ code \div 32 = 1 \/ code \div 64 = 1 \/ code \div 128 = 1
  OBVIOUS
<1>4. \E b \in 0 .. 7 : code \div PowersOf2[b + 1] = 1
  <2>1. code \div 1 = 1 => code \div PowersOf2[0 + 1] = 1
    BY DEF PowersOf2
  <2>2. code \div 2 = 1 => code \div PowersOf2[1 + 1] = 1
    BY DEF PowersOf2
  <2>3. code \div 4 = 1 => code \div PowersOf2[2 + 1] = 1
    BY DEF PowersOf2
  <2>4. code \div 8 = 1 => code \div PowersOf2[3 + 1] = 1
    BY DEF PowersOf2
  <2>5. code \div 16 = 1 => code \div PowersOf2[4 + 1] = 1
    BY DEF PowersOf2
  <2>6. code \div 32 = 1 => code \div PowersOf2[5 + 1] = 1
    BY DEF PowersOf2
  <2>7. code \div 64 = 1 => code \div PowersOf2[6 + 1] = 1
    BY DEF PowersOf2
  <2>8. code \div 128 = 1 => code \div PowersOf2[7 + 1] = 1
    BY DEF PowersOf2
  <2>9. \A b \in {0, 1, 2, 3, 4, 5, 6, 7} : b \in 0 .. 7
    OBVIOUS
  <2> QED
    BY <1>3, <2>1, <2>2, <2>3, <2>4, <2>5, <2>6, <2>7, <2>8, <2>9, ZenonT(30)
<1> QED
  BY <1>2, <1>4 DEF Bits

(* err_push on any error value gives a failure. *)
LEMMA PushFails ==
  ASSUME NEW e, NEW code \in ErrorCode
  PROVE  err_is_fail(err_push(e, code))
<1>1. code \in 1 .. 255
  BY ErrValAssumption
<1>2. PICK b \in 0 .. 7 : b \in Bits(code)
  BY <1>1, BitsNotEmpty
<1> QED
  BY <1>2 DEF err_is_fail, err_top, err_push

(* A caller that tests the value it gets with err_is_fail sees a failure   *)
(* whenever an error was pushed on the way.                                *)
THEOREM FailureSeen == Spec => []FailurePropagates
<1>1. Init => FailurePropagates
  BY DEF Init, FailurePropagates
<1>2. FailurePropagates /\ [Next]_vars => FailurePropagates'
  <2> SUFFICES ASSUME FailurePropagates, [Next]_vars
               PROVE  FailurePropagates'
    OBVIOUS
  <2>1. ASSUME NEW code \in ErrorCode, Push(code)
        PROVE  FailurePropagates'
    BY <2>1, PushFails DEF Push, FailurePropagates
  <2>2. CASE PrintStart
    BY <2>2 DEF PrintStart, FailurePropagates
  <2>3. CASE PrintStep
    BY <2>3 DEF PrintStep, FailurePropagates
  <2>4. CASE PrintEnd
    BY <2>4 DEF PrintEnd, FailurePropagates
  <2>5. CASE UNCHANGED vars
    BY <2>5 DEF vars, FailurePropagates, err_is_fail, err_top
  <2> QED
    BY <2>1, <2>2, <2>3, <2>4, <2>5 DEF Next
<1> QED
  BY <1>1, <1>2, PTL DEF Spec
=============================================================================
