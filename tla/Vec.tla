-------------------------------- MODULE Vec ---------------------------------
(* The growing arrays of src/vec.c. A vector counts its elements in n and   *)
(* the room of its buffer in s; the buffer is a block of cells numbered     *)
(* from 0. What realloc() adds is uninitialised, and a write to a cell the  *)
(* buffer does not have is lost.                                            *)
(*                                                                          *)
(* Indices count from 0 as in the code. The assertions of vec_at() and      *)
(* vec_insert() are preconditions, met by every use in the other modules.   *)
EXTENDS Integers, Sequences

CONSTANT Junk   \* an uninitialised cell

vec_create == [n |-> 0, s |-> 1, buf |-> [c \in {0} |-> Junk]]

vec_len(v) == v.n

vec_at(v, i) == v.buf[i]

\* vec_at(v, i) = x
Assigned(v, i, x) == [v EXCEPT !.buf = [@ EXCEPT ![i] = x]]

vec_reset(v) == [v EXCEPT !.n = 0]

vec_pop(v) == [v EXCEPT !.n = @ - 1]

\* mutant: the buffer grows one element too late
Grown_Late(v) ==
  LET s == IF v.n > v.s THEN 2 * v.s ELSE v.s
  IN  [n |-> v.n + 1, s |-> s,
       buf |-> [c \in 0 .. s - 1 |-> IF c < v.s THEN v.buf[c] ELSE Junk]]

\* one more element, and twice the room when the last cell would be in use
Grown(v) ==
  LET s == IF v.n + 1 >= v.s THEN 2 * v.s ELSE v.s
  IN  [n |-> v.n + 1, s |-> s,
       buf |-> [c \in 0 .. s - 1 |-> IF c < v.s THEN v.buf[c] ELSE Junk]]

vec_append(v, x) == Assigned(Grown(v), v.n, x)

\* the cells from i on move up by one
Moved(v, i) ==
  [v EXCEPT !.buf = [c \in DOMAIN @ |-> IF i < c /\ c < v.n THEN @[c - 1] ELSE @[c]]]

vec_insert(v, x, i) ==
  IF i = v.n THEN vec_append(v, x) ELSE Assigned(Moved(Grown(v), i), i, x)

-----------------------------------------------------------------------------
\* what a vector holds
Contents(v) == [k \in 1 .. v.n |-> v.buf[k - 1]]

\* the buffer is as large as s says, one cell is always to spare, and no
\* element is uninitialised
IsVec(v, Elems) ==
  /\ DOMAIN v = {"n", "s", "buf"}
  /\ v.n \in Nat /\ v.s \in Nat /\ v.n < v.s
  /\ DOMAIN v.buf = 0 .. v.s - 1
  /\ \A c \in 0 .. v.n - 1 : v.buf[c] \in Elems
=============================================================================
