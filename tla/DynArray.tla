------------------------------ MODULE DynArray ------------------------------
(***************************************************************************)
(* The dynamic array, include/octiron/collections/array.h.  An array is    *)
(* the sequence of the blocks it has had: the last one is array.data, its  *)
(* length array.size.  The earlier ones were copied and left, not freed,   *)
(* so a pointer <<block, slot>> taken before a growth still refers to the  *)
(* old copy.                                                               *)
(***************************************************************************)
EXTENDS Naturals, Sequences

(* ARRAY_INIT *)
ARRAY_INIT == <<>>

NULL == <<0, 0>>

Data(mem) == mem[Len(mem)]

ARRAY_SIZE(mem) == IF mem = ARRAY_INIT THEN 0 ELSE Len(Data(mem))

(* first, the elements of a page, doubled with every growth *)
ARRAY_CAPACITY(mem, first) == IF mem = ARRAY_INIT THEN 0 ELSE first * 2 ^ (Len(mem) - 1)

(* Whether the next push asks pmm_alloc_aligned for a block. *)
MustGrow(mem, first) == ARRAY_SIZE(mem) >= ARRAY_CAPACITY(mem, first)

(* ARRAY_PUSH, once it has the memory it needs. *)
ARRAY_PUSH(mem, first, value) ==
  IF mem = ARRAY_INIT THEN <<<<value>>>>
  ELSE IF MustGrow(mem, first) THEN Append(mem, Append(Data(mem), value))
  ELSE [mem EXCEPT ![Len(mem)] = Append(@, value)]

(* Mutant: the slot behind the last element. *)
NewestPast(mem) == <<Len(mem), ARRAY_SIZE(mem) + 1>>

(* &array.data[ARRAY_SIZE(array) - 1] and &array.data[0] *)
Newest(mem) == <<Len(mem), ARRAY_SIZE(mem)>>
First(mem)  == <<Len(mem), 1>>

(* Read and write through a pointer. *)
Deref(mem, p)    == mem[p[1]][p[2]]
Store(mem, p, v) == [mem EXCEPT ![p[1]][p[2]] = v]
=============================================================================
