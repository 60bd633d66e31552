---------------------------- MODULE CorrectProofs ---------------------------
(* Proofs about the growing arrays of Vec and about the correction pass     *)
(* that inserts into one while iterating over it: the forms it leaves, the  *)
(* addresses it heeds, and that what blocks compute stays the same.         *)
EXTENDS Correct, Induction, TLAPS

-----------------------------------------------------------------------------
(* Vectors.                                                                 *)

LEMMA AssignedVec ==
  ASSUME NEW E, NEW v, IsVec(v, E), NEW i \in 0 .. v.n - 1, NEW x \in E
  PROVE  /\ IsVec(Assigned(v, i, x), E)
         /\ Assigned(v, i, x).n = v.n
         /\ \A c \in 0 .. v.n - 1 :
              Assigned(v, i, x).buf[c] = IF c = i THEN x ELSE v.buf[c]
<1>. DEFINE w == Assigned(v, i, x)
<1>1. DOMAIN w = {"n", "s", "buf"} /\ w.n = v.n /\ w.s = v.s
  BY DEF Assigned, IsVec
<1>2. w.buf = [v.buf EXCEPT ![i] = x]
  BY DEF Assigned, IsVec
<1>3. DOMAIN w.buf = 0 .. w.s - 1
  BY <1>1, <1>2 DEF IsVec
<1>4. \A c \in 0 .. v.n - 1 : w.buf[c] = IF c = i THEN x ELSE v.buf[c]
  BY <1>2 DEF IsVec
<1>. QED  BY <1>1, <1>3, <1>4 DEF IsVec

\* a vector w has room for one more element than v
Roomier(w, v) ==
  /\ DOMAIN w = {"n", "s", "buf"}
  /\ w.n = v.n + 1 /\ w.s \in Nat /\ w.n < w.s
  /\ DOMAIN w.buf = 0 .. w.s - 1
  /\ \A c \in 0 .. v.n - 1 : w.buf[c] = v.buf[c]

LEMMA GrownVec ==
  ASSUME NEW E, NEW v, IsVec(v, E)
  PROVE  Roomier(Grown(v), v)
<1>. DEFINE z == IF v.n + 1 >= v.s THEN 2 * v.s ELSE v.s
<1>1. v.n \in Nat /\ v.s \in Nat /\ v.n < v.s
  BY DEF IsVec
<1>2. z \in Nat /\ v.n + 1 < z
  BY <1>1
<1>3. Grown(v) = [n |-> v.n + 1, s |-> z,
                  buf |-> [c \in 0 .. z - 1 |-> IF c < v.s THEN v.buf[c] ELSE Junk]]
  BY DEF Grown
<1>. HIDE DEF z
<1>4. /\ DOMAIN Grown(v) = {"n", "s", "buf"} /\ Grown(v).n = v.n + 1 /\ Grown(v).s = z
      /\ Grown(v).buf = [c \in 0 .. z - 1 |-> IF c < v.s THEN v.buf[c] ELSE Junk]
  BY <1>3
<1>5. \A c \in 0 .. v.n - 1 : c \in 0 .. z - 1 /\ c < v.s
  BY <1>1, <1>2
<1>6. \A c \in 0 .. v.n - 1 : Grown(v).buf[c] = v.buf[c]
  BY <1>4, <1>5
<1>. QED  BY <1>2, <1>4, <1>6 DEF Roomier

\* w is v with x put in at i
PutIn(w, v, x, i, E) ==
  /\ IsVec(w, E)
  /\ w.n = v.n + 1
  /\ \A c \in 0 .. v.n :
       w.buf[c] = IF c < i THEN v.buf[c] ELSE IF c = i THEN x ELSE v.buf[c - 1]

LEMMA AppendVec ==
  ASSUME NEW E, NEW v, IsVec(v, E), NEW x \in E
  PROVE  PutIn(vec_append(v, x), v, x, v.n, E)
<1>. DEFINE g == Grown(v)
            w == [g EXCEPT !.buf = [@ EXCEPT ![v.n] = x]]
<1>1. Roomier(g, v) /\ v.n \in Nat
  BY GrownVec DEF IsVec
<1>. HIDE DEF g
<1>2. DOMAIN w = {"n", "s", "buf"} /\ w.n = g.n /\ w.s = g.s
      /\ w.buf = [g.buf EXCEPT ![v.n] = x]
  BY <1>1 DEF Roomier
<1>3. vec_append(v, x) = w
  BY DEF vec_append, Assigned, g
<1>. HIDE DEF w
<1>4. \A c \in 0 .. v.n : w.buf[c] = IF c < v.n THEN v.buf[c] ELSE x
  BY <1>1, <1>2 DEF Roomier
<1>5. \A c \in 0 .. v.n : w.buf[c] \in E
  <2>1. \A c \in 0 .. v.n - 1 : v.buf[c] \in E
    BY DEF IsVec
  <2>. QED  BY <1>1, <1>4, <2>1
<1>6. IsVec(w, E)
  BY <1>1, <1>2, <1>5 DEF Roomier, IsVec
<1>. QED  BY <1>1, <1>2, <1>3, <1>4, <1>6 DEF PutIn, Roomier

LEMMA InsertVec ==
  ASSUME NEW E, NEW v, IsVec(v, E), NEW x \in E, NEW i \in 0 .. v.n
  PROVE  PutIn(vec_insert(v, x, i), v, x, i, E)
<1>1. CASE i = v.n
  BY <1>1, AppendVec DEF vec_insert
<1>2. CASE i # v.n
  <2>. DEFINE g == Grown(v)
              m == [c \in DOMAIN g.buf |-> IF i < c /\ c < g.n THEN g.buf[c - 1] ELSE g.buf[c]]
              w == Assigned(Moved(g, i), i, x)
  <2>1. Roomier(g, v) /\ v.n \in Nat
    BY GrownVec DEF IsVec
  <2>. HIDE DEF g
  <2>2. /\ DOMAIN Moved(g, i) = {"n", "s", "buf"} /\ Moved(g, i).n = g.n
        /\ Moved(g, i).s = g.s /\ Moved(g, i).buf = m
    BY <2>1 DEF Moved, Roomier
  <2>3. /\ DOMAIN w = {"n", "s", "buf"} /\ w.n = g.n /\ w.s = g.s
        /\ w.buf = [m EXCEPT ![i] = x]
    BY <2>2 DEF Assigned
  <2>4. vec_insert(v, x, i) = w
    BY <1>2 DEF vec_insert, g
  <2>. HIDE DEF w
  <2>5. \A c \in 0 .. v.n :
          w.buf[c] = IF c < i THEN v.buf[c] ELSE IF c = i THEN x ELSE v.buf[c - 1]
    <3>. SUFFICES ASSUME NEW c \in 0 .. v.n
                  PROVE  w.buf[c] = IF c < i THEN v.buf[c] ELSE IF c = i THEN x ELSE v.buf[c - 1]
      OBVIOUS
    <3>1. c \in DOMAIN g.buf /\ c < g.n
      BY <2>1 DEF Roomier
    <3>2. w.buf[c] = IF c = i THEN x ELSE IF i < c THEN g.buf[c - 1] ELSE g.buf[c]
      BY <2>3, <3>1
    <3>3. c < i => g.buf[c] = v.buf[c]
      BY <2>1 DEF Roomier
    <3>4. i < c => g.buf[c - 1] = v.buf[c - 1]
      BY <2>1 DEF Roomier
    <3>. QED  BY <3>2, <3>3, <3>4, <2>1
  <2>6. \A c \in 0 .. v.n : w.buf[c] \in E
    <3>1. \A c \in 0 .. v.n - 1 : v.buf[c] \in E
      BY DEF IsVec
    <3>2. \A c \in 0 .. v.n :
            (c < i => c \in 0 .. v.n - 1) /\ (c > i => c - 1 \in 0 .. v.n - 1)
      BY <2>1
    <3>3. \A c \in 0 .. v.n : c < i \/ c = i \/ c > i
      BY <2>1
    <3>. QED  BY <2>1, <2>5, <3>1, <3>2, <3>3
  <2>7. IsVec(w, E)
    BY <2>1, <2>3, <2>6 DEF Roomier, IsVec
  <2>. QED  BY <2>1, <2>3, <2>4, <2>5, <2>7 DEF PutIn, Roomier
<1>. QED  BY <1>1, <1>2

\* v holds the sequence q
Holding(v, q) == Len(q) = v.n /\ \A k \in 1 .. v.n : q[k] = v.buf[k - 1]

LEMMA ContentsOf ==
  ASSUME NEW E, NEW v, IsVec(v, E)
  PROVE  Contents(v) \in Seq(E) /\ Holding(v, Contents(v))
BY DEF Contents, IsVec, Holding

\* r is q with x inserted after its first i elements
WithIn(r, q, x, i, E) ==
  /\ r \in Seq(E) /\ Len(r) = Len(q) + 1
  /\ \A k \in 1 .. Len(q) + 1 :
       r[k] = IF k <= i THEN q[k] ELSE IF k = i + 1 THEN x ELSE q[k - 1]

LEMMA InsertAtIsJoin ==
  ASSUME NEW q, NEW x, NEW i, NEW j, j - 1 = i
  PROVE  InsertAt(q, j, x) = SubSeq(q, 1, i) \o <<x>> \o SubSeq(q, j, Len(q))
BY DEF InsertAt

LEMMA InsertAtIs ==
  ASSUME NEW E, NEW q \in Seq(E), NEW x \in E, NEW i \in 0 .. Len(q)
  PROVE  WithIn(InsertAt(q, i + 1, x), q, x, i, E)
<1>. DEFINE a == SubSeq(q, 1, i)
            c == SubSeq(q, i + 1, Len(q))
            e == a \o <<x>>
<1>1. InsertAt(q, i + 1, x) = e \o c
  <2>1. (i + 1) - 1 = i
    OBVIOUS
  <2>. QED  BY <2>1, InsertAtIsJoin
<1>2. a \in Seq(E) /\ Len(a) = i /\ \A k \in 1 .. i : a[k] = q[k]
  OBVIOUS
<1>3. /\ c \in Seq(E) /\ Len(c) = Len(q) - i
      /\ \A k \in 1 .. Len(q) - i : c[k] = q[k + i]
  OBVIOUS
<1>. HIDE DEF a, c
<1>4. <<x>> \in Seq(E) /\ Len(<<x>>) = 1 /\ <<x>>[1] = x
  OBVIOUS
<1>5. /\ e \in Seq(E) /\ Len(e) = i + 1
      /\ \A k \in 1 .. i + 1 : e[k] = IF k <= i THEN q[k] ELSE x
  BY <1>2, <1>4
<1>. HIDE DEF e
<1>6. /\ e \o c \in Seq(E) /\ Len(e \o c) = Len(q) + 1
      /\ \A k \in 1 .. Len(q) + 1 : (e \o c)[k] = IF k <= i + 1 THEN e[k] ELSE c[k - (i + 1)]
  <2>1. e \in Seq(E) /\ Len(e) = i + 1 /\ c \in Seq(E) /\ Len(c) = Len(q) - i
    BY <1>3, <1>5
  <2>2. e \o c \in Seq(E) /\ Len(e \o c) = Len(q) + 1
    BY <2>1
  <2>. QED  BY <2>1, <2>2
<1>7. \A k \in 1 .. Len(q) + 1 : k > i + 1 => c[k - (i + 1)] = q[k - 1]
  BY <1>3
<1>8. \A k \in 1 .. Len(q) + 1 :
        (e \o c)[k] = IF k <= i THEN q[k] ELSE IF k = i + 1 THEN x ELSE q[k - 1]
  <2>. SUFFICES ASSUME NEW k \in 1 .. Len(q) + 1
                PROVE  (e \o c)[k] = IF k <= i THEN q[k] ELSE IF k = i + 1 THEN x ELSE q[k - 1]
    OBVIOUS
  <2>1. CASE k <= i
    BY <2>1, <1>5, <1>6
  <2>2. CASE k = i + 1
    BY <2>2, <1>5, <1>6
  <2>3. CASE k > i + 1
    <3>1. (e \o c)[k] = c[k - (i + 1)]
      BY <2>3, <1>6
    <3>2. c[k - (i + 1)] = q[k - 1]
      BY <2>3, <1>7
    <3>. QED  BY <2>3, <3>1, <3>2
  <2>4. Len(q) \in Nat
    OBVIOUS
  <2>5. k <= i \/ k = i + 1 \/ k > i + 1
    BY <2>4
  <2>. QED  BY <2>1, <2>2, <2>3, <2>5, Zenon
<1>9. PICK r : r = InsertAt(q, i + 1, x)
  OBVIOUS
<1>10. r = e \o c
  BY <1>1, <1>9
<1>11. WithIn(r, q, x, i, E)
  BY <1>6, <1>8, <1>10 DEF WithIn
<1>. QED  BY <1>9, <1>11

(* A vector grows before it is full, and inserting into it is inserting     *)
(* into the sequence it holds: no element is lost, overwritten or left      *)
(* uninitialised, wherever the new one goes and however large the vector    *)
(* (vec.c:40-75).                                                           *)
THEOREM InsertionInserts ==
  ASSUME NEW E, NEW v, IsVec(v, E), NEW x \in E, NEW i \in 0 .. v.n
  PROVE  /\ IsVec(vec_insert(v, x, i), E)
         /\ Contents(vec_insert(v, x, i)) = InsertAt(Contents(v), i + 1, x)
<1>1. PICK w : w = vec_insert(v, x, i)
  OBVIOUS
<1>2. PutIn(w, v, x, i, E) /\ IsVec(w, E)
  BY <1>1, InsertVec DEF PutIn
<1>3. PICK q : q = Contents(v)
  OBVIOUS
<1>4. q \in Seq(E) /\ Holding(v, q) /\ v.n \in Nat /\ Len(q) = v.n
  <2>1. q \in Seq(E) /\ Holding(v, q)
    BY <1>3, ContentsOf
  <2>. QED  BY <2>1 DEF IsVec, Holding
<1>5. PICK r : r = InsertAt(q, i + 1, x)
  OBVIOUS
<1>6. WithIn(r, q, x, i, E)
  BY <1>4, <1>5, InsertAtIs
<1>7. PICK p : p = Contents(w)
  OBVIOUS
<1>8. p \in Seq(E) /\ Holding(w, p)
  BY <1>2, <1>7, ContentsOf
<1>9. Len(p) = v.n + 1
  BY <1>2, <1>8 DEF PutIn, Holding
<1>10. \A k \in 1 .. v.n + 1 : p[k] = r[k]
  <2>. SUFFICES ASSUME NEW k \in 1 .. v.n + 1
                PROVE  p[k] = r[k]
    OBVIOUS
  <2>1. p[k] = w.buf[k - 1]
    BY <1>2, <1>8 DEF PutIn, Holding
  <2>2. w.buf[k - 1] = IF k <= i THEN v.buf[k - 1] ELSE IF k = i + 1 THEN x ELSE v.buf[k - 2]
    BY <1>2, <1>4 DEF PutIn
  <2>3. k <= i => v.buf[k - 1] = q[k]
    BY <1>4 DEF Holding
  <2>4. k > i + 1 => v.buf[k - 2] = q[k - 1]
    BY <1>4 DEF Holding
  <2>. QED  BY <1>4, <1>6, <2>1, <2>2, <2>3, <2>4 DEF WithIn
<1>11. p = r
  BY <1>4, <1>6, <1>8, <1>9, <1>10 DEF WithIn
<1>. QED  BY <1>1, <1>2, <1>3, <1>5, <1>7, <1>11

-----------------------------------------------------------------------------
(* The invariant of the pass: every vector holds instructions of the forms  *)
(* the grammar writes, and those the loops have passed are as the output    *)
(* stage needs them.                                                        *)

Fitting == {i \in Insn : Written(i)}

Blocks ==
  /\ source \in Functions
  /\ DOMAIN body = 1 .. NB
  /\ \A b \in 1 .. NB : /\ DOMAIN body[b] = {"insns", "cmp"}
                       /\ IsVec(body[b].insns, Fitting)
                       /\ body[b].cmp \in Val \X Val

Positions ==
  /\ bi \in 1 .. NB + 1 /\ ii \in Nat
  /\ ri \in Nat /\ ri >= NTmps

Rules == \A n \in DOMAIN rules : IsTmp(rules[n]) /\ rules[n] \in Val

\* the output stage can print i, or i is one of the two exceptions
Settled(i) == InRegister(i) \/ Constant(i) \/ Rewritten(i)

Passed ==
  \A b \in 1 .. NB : \A k \in 0 .. body[b].insns.n - 1 :
    b < bi \/ (b = bi /\ k < ii) => Settled(body[b].insns.buf[k])

Inv == Blocks /\ Positions /\ Rules /\ Passed

-----------------------------------------------------------------------------
(* The initial states.                                                      *)

LEMMA Sizes ==
  ASSUME NEW f \in Functions
  PROVE  /\ Len(f) \in Nat \ {0} /\ DOMAIN f = 1 .. Len(f)
         /\ \A b \in 1 .. Len(f) :
              /\ f[b].insns \in Seq(Fitting)
              /\ f[b].cmp \in Val \X Val
<1>1. f \in Seq([insns : Seq(Insn), cmp : Val \X Val]) /\ f # <<>>
  BY FunctionsAssumption
<1>2. Len(f) \in Nat \ {0} /\ DOMAIN f = 1 .. Len(f)
  BY <1>1
<1>3. ASSUME NEW b \in 1 .. Len(f)
      PROVE  f[b].insns \in Seq(Fitting) /\ f[b].cmp \in Val \X Val
  <2>1. f[b] \in [insns : Seq(Insn), cmp : Val \X Val]
    <3>. DEFINE B == [insns : Seq(Insn), cmp : Val \X Val]
    <3>1. f \in Seq(B)
      BY <1>1
    <3>. HIDE DEF B
    <3>2. f[b] \in B
      BY <3>1
    <3>. QED  BY <3>2 DEF B
  <2>2. \A k \in DOMAIN f[b].insns : Written(f[b].insns[k])
    BY <1>2, FunctionsAssumption
  <2>3. PICK q : q = f[b].insns
    OBVIOUS
  <2>4. q \in Seq(Insn) /\ \A k \in DOMAIN q : Written(q[k])
    BY <2>1, <2>2, <2>3
  <2>5. \A k \in 1 .. Len(q) : q[k] \in Fitting
    BY <2>4 DEF Fitting
  <2>6. q \in Seq(Fitting)
    BY <2>4, <2>5
  <2>. QED  BY <2>1, <2>3, <2>6
<1>. QED  BY <1>2, <1>3

LEMMA AppendedVec ==
  ASSUME NEW E, NEW q \in Seq(E), NEW v \in Appended(q)
  PROVE  IsVec(v, E)
<1>1. PICK s \in {2 ^ k : k \in 0 .. Len(q)} \cap Len(q) + 1 .. 2 * Len(q) + 1 :
        v = [n |-> Len(q), s |-> s,
             buf |-> [c \in 0 .. s - 1 |-> IF c < Len(q) THEN q[c + 1] ELSE Junk]]
  BY DEF Appended
<1>2. s \in Nat /\ Len(q) \in Nat /\ Len(q) < s
  OBVIOUS
<1>3. /\ DOMAIN v = {"n", "s", "buf"} /\ v.n = Len(q) /\ v.s = s
      /\ v.buf = [c \in 0 .. s - 1 |-> IF c < Len(q) THEN q[c + 1] ELSE Junk]
  BY <1>1
<1>4. \A c \in 0 .. Len(q) - 1 : v.buf[c] = q[c + 1] /\ c + 1 \in 1 .. Len(q)
  BY <1>2, <1>3
<1>5. \A c \in 0 .. Len(q) - 1 : v.buf[c] \in E
  BY <1>4
<1>. QED  BY <1>2, <1>3, <1>5 DEF IsVec

LEMMA InitInv == Init => Inv
<1>. SUFFICES ASSUME Init PROVE Inv
  OBVIOUS
<1>1. source \in Functions /\ NB \in Nat \ {0}
  BY Sizes DEF Init, NB
<1>2. ASSUME NEW b \in 1 .. NB
      PROVE  /\ DOMAIN body[b] = {"insns", "cmp"}
             /\ IsVec(body[b].insns, Fitting)
             /\ body[b].cmp \in Val \X Val
  <2>1. PICK v \in Appended(source[b].insns) : body[b] = [insns |-> v, cmp |-> source[b].cmp]
    BY DEF Init, Parsed
  <2>2. source[b].insns \in Seq(Fitting) /\ source[b].cmp \in Val \X Val
    BY <1>1, Sizes DEF NB
  <2>3. IsVec(v, Fitting)
    BY <2>1, <2>2, AppendedVec
  <2>. QED  BY <2>1, <2>2, <2>3
<1>3. DOMAIN body = 1 .. NB
  BY DEF Init
<1>4. Blocks
  BY <1>1, <1>2, <1>3 DEF Blocks
<1>5. Positions
  BY <1>1, TmpsAssumption DEF Init, Positions
<1>6. Rules
  BY DEF Init, Rules
<1>7. Passed
  <2>1. bi = 1 /\ ii = 0
    BY DEF Init
  <2>2. \A b \in 1 .. NB : \A k \in 0 .. body[b].insns.n - 1 : ~(b < 1) /\ ~(k < 0)
    BY <1>1, <1>2 DEF IsVec
  <2>. QED  BY <2>1, <2>2 DEF Passed
<1>. QED  BY <1>4, <1>5, <1>6, <1>7 DEF Inv

-----------------------------------------------------------------------------
(* A step of the loop over the instructions of a block.                     *)

LEMMA Kinds ==
  ASSUME NEW v \in Val
  PROVE  IsTmp(v) \/ IsImm(v) \/ IsRef(v) \/ v = None
BY DEF Val, IsTmp, IsImm, IsRef, None

LEMMA Made ==
  ASSUME NEW n \in Nat
  PROVE  Tmp(n) \in Val /\ IsTmp(Tmp(n)) /\ None \in Val /\ Tmp(n) # None
BY DEF Val, Tmp, IsTmp, None

\* the current instruction
LEMMA Current ==
  ASSUME Blocks, Positions, Visiting
  PROVE  /\ bi \in 1 .. NB /\ ii \in 0 .. body[bi].insns.n - 1
         /\ body[bi].insns.n \in Nat
         /\ IsVec(body[bi].insns, Fitting)
         /\ Cur = body[bi].insns.buf[ii]
         /\ Cur \in Fitting
<1>1. bi \in 1 .. NB /\ IsVec(body[bi].insns, Fitting)
  BY DEF Visiting, Blocks
<1>2. body[bi].insns.n \in Nat /\ ii \in 0 .. body[bi].insns.n - 1
  BY <1>1 DEF Visiting, Positions, vec_len, IsVec
<1>3. Cur = body[bi].insns.buf[ii]
  BY DEF Cur, insn_at, vec_at
<1>. QED  BY <1>1, <1>2, <1>3 DEF IsVec

\* v replaces the instructions of the current block: what was passed is as
\* it was, and what is at ii now can be printed
Corrected(v) ==
  /\ IsVec(v, Fitting)
  /\ \A c \in 0 .. ii - 1 : v.buf[c] = body[bi].insns.buf[c]
  /\ Settled(v.buf[ii])

LEMMA StepInv ==
  ASSUME Blocks, Positions, Passed, Visiting,
         NEW v, Corrected(v), Put(v),
         source' = source, bi' = bi, ii' = ii + 1, ri' \in Nat, ri' >= ri
  PROVE  Blocks' /\ Positions' /\ Passed'
<1>1. NB' = NB
  BY DEF NB
<1>2. bi \in 1 .. NB /\ ii \in 0 .. body[bi].insns.n - 1 /\ body[bi].insns.n \in Nat
  BY Current
<1>3. body' = [body EXCEPT ![bi] = [@ EXCEPT !.insns = v]]
  BY DEF Put
<1>4. /\ DOMAIN body' = 1 .. NB
      /\ body'[bi] = [body[bi] EXCEPT !.insns = v]
      /\ \A b \in 1 .. NB : b # bi => body'[b] = body[b]
  BY <1>2, <1>3 DEF Blocks
<1>5. DOMAIN body[bi] = {"insns", "cmp"} /\ body[bi].cmp \in Val \X Val
  BY <1>2 DEF Blocks
<1>6. /\ DOMAIN body'[bi] = {"insns", "cmp"} /\ body'[bi].insns = v
      /\ body'[bi].cmp = body[bi].cmp
  BY <1>4, <1>5
<1>7. Blocks'
  <2>1. ASSUME NEW b \in 1 .. NB
        PROVE  /\ DOMAIN body'[b] = {"insns", "cmp"}
               /\ IsVec(body'[b].insns, Fitting)
               /\ body'[b].cmp \in Val \X Val
    <3>1. CASE b = bi
      BY <3>1, <1>5, <1>6 DEF Corrected
    <3>2. CASE b # bi
      BY <3>2, <1>4 DEF Blocks
    <3>. QED  BY <3>1, <3>2
  <2>. QED  BY <1>1, <1>4, <2>1 DEF Blocks
<1>8. Positions'
  BY <1>1, <1>2, TmpsAssumption DEF Positions
<1>9. Passed'
  <2>1. ASSUME NEW b \in 1 .. NB, NEW k \in 0 .. body'[b].insns.n - 1,
               b < bi \/ (b = bi /\ k < ii + 1)
        PROVE  Settled(body'[b].insns.buf[k])
    <3>1. CASE b # bi
      BY <2>1, <3>1, <1>2, <1>4 DEF Passed
    <3>2. CASE b = bi /\ k < ii
      <4>1. v.n \in Nat /\ ii \in Nat /\ k \in 0 .. v.n - 1
        BY <3>2, <1>6 DEF Positions, Corrected, IsVec
      <4>2. k \in 0 .. ii - 1
        BY <3>2, <4>1
      <4>3. body'[b].insns.buf[k] = body[bi].insns.buf[k]
        BY <3>2, <4>2, <1>6 DEF Corrected
      <4>4. k \in 0 .. body[bi].insns.n - 1
        BY <1>2, <4>2
      <4>5. Settled(body[bi].insns.buf[k])
        BY <3>2, <4>4, <1>2 DEF Passed
      <4>. QED  BY <4>3, <4>5
    <3>3. CASE b = bi /\ k = ii
      BY <3>3, <1>6 DEF Corrected
    <3>. QED  BY <2>1, <3>1, <3>2, <3>3, <1>2, <1>6 DEF Corrected, IsVec
  <2>. QED  BY <2>1, <1>1 DEF Passed
<1>. QED  BY <1>7, <1>8, <1>9

\* instructions that the pass makes
LEMMA OpFits ==
  ASSUME NEW type \in {"load", "store", "addr", "copy"}, NEW n \in Nat, NEW a \in Val
  PROVE  /\ Op(type, Tmp(n), a, None) \in Fitting
         /\ Op(type, Tmp(n), a, None).type = type
         /\ Op(type, Tmp(n), a, None).out # None
<1>1. Tmp(n) \in Val /\ IsTmp(Tmp(n)) /\ None \in Val /\ Tmp(n) # None
  BY Made
<1>2. /\ Op(type, Tmp(n), a, None) \in Insn
      /\ Op(type, Tmp(n), a, None).type = type /\ Op(type, Tmp(n), a, None).out = Tmp(n)
  BY <1>1 DEF Op, Insn, Types, Plain
<1>. QED  BY <1>1, <1>2 DEF Fitting, Written

LEMMA OutFits ==
  ASSUME NEW i \in Fitting, NEW n \in Nat
  PROVE  /\ [i EXCEPT !.out = Tmp(n)] \in Fitting
         /\ [i EXCEPT !.out = Tmp(n)].type = i.type
         /\ [i EXCEPT !.out = Tmp(n)].in = i.in
         /\ [i EXCEPT !.out = Tmp(n)].out = Tmp(n)
<1>1. Tmp(n) \in Val /\ IsTmp(Tmp(n)) /\ None \in Val /\ Tmp(n) # None
  BY Made
<1>2. i \in Insn /\ Written(i)
  BY DEF Fitting
<1>3. /\ [i EXCEPT !.out = Tmp(n)] \in Insn
      /\ [i EXCEPT !.out = Tmp(n)].type = i.type
      /\ [i EXCEPT !.out = Tmp(n)].in = i.in
      /\ [i EXCEPT !.out = Tmp(n)].out = Tmp(n)
  BY <1>1, <1>2 DEF Insn
<1>. QED  BY <1>1, <1>2, <1>3 DEF Fitting, Written

LEMMA InFits ==
  ASSUME NEW i \in Fitting, NEW n \in Nat, NEW k \in {1, 2}
  PROVE  [i EXCEPT !.in[k] = Tmp(n)] \in Fitting
<1>1. Tmp(n) \in Val /\ IsTmp(Tmp(n)) /\ None \in Val /\ Tmp(n) # None
  BY Made
<1>2. i \in Insn /\ Written(i) /\ i.in \in Val \X Val
  BY DEF Fitting, Insn
<1>3. PICK q : q = [i.in EXCEPT ![k] = Tmp(n)]
  OBVIOUS
<1>4. q \in Val \X Val /\ (\A l \in {1, 2} : q[l] = IF l = k THEN Tmp(n) ELSE i.in[l])
  BY <1>1, <1>2, <1>3
<1>5. PICK j : j = [i EXCEPT !.in = q]
  OBVIOUS
<1>6. j \in Insn /\ j.type = i.type /\ j.out = i.out /\ j.in = q
  BY <1>2, <1>4, <1>5 DEF Insn
<1>7. Written(j)
  BY <1>1, <1>2, <1>4, <1>6 DEF Written
<1>8. [i EXCEPT !.in[k] = Tmp(n)] = j
  BY <1>3, <1>5
<1>. QED  BY <1>6, <1>7, <1>8 DEF Fitting

LEMMA SwapFits ==
  ASSUME NEW i \in Fitting, i.type = "arith", NEW q, q = <<i.in[2], i.in[1]>>
  PROVE  /\ [i EXCEPT !.in = q] \in Fitting
         /\ [i EXCEPT !.in = q].type = "arith"
         /\ [i EXCEPT !.in = q].in = q
<1>1. i \in Insn /\ Written(i) /\ i.in \in Val \X Val
  BY DEF Fitting, Insn
<1>2. q \in Val \X Val /\ q[1] = i.in[2] /\ q[2] = i.in[1]
  BY <1>1
<1>3. PICK j : j = [i EXCEPT !.in = q]
  OBVIOUS
<1>4. j \in Insn /\ j.type = i.type /\ j.out = i.out /\ j.in = q
  BY <1>1, <1>2, <1>3 DEF Insn
<1>5. Written(j)
  BY <1>1, <1>2, <1>4 DEF Written
<1>. QED  BY <1>3, <1>4, <1>5 DEF Fitting

\* v starts with the instructions that were passed, and has one at ii
Started(v) ==
  /\ IsVec(v, Fitting) /\ ii < v.n
  /\ \A c \in 0 .. ii - 1 : v.buf[c] = body[bi].insns.buf[c]

\* w starts the same way, and has i at ii
StartedWith(w, i) == Started(w) /\ w.buf[ii] = i

LEMMA AssignedStarted ==
  ASSUME ii \in Nat, NEW v, Started(v), NEW i \in Fitting
  PROVE  StartedWith(Assigned(v, ii, i), i)
<1>1. IsVec(v, Fitting) /\ ii \in 0 .. v.n - 1 /\ v.n \in Nat
  BY DEF Started, IsVec
<1>2. /\ IsVec(Assigned(v, ii, i), Fitting)
      /\ Assigned(v, ii, i).n = v.n
      /\ \A c \in 0 .. v.n - 1 :
           Assigned(v, ii, i).buf[c] = IF c = ii THEN i ELSE v.buf[c]
  BY <1>1, AssignedVec
<1>. QED  BY <1>1, <1>2 DEF Started, StartedWith

LEMMA InsertedStarted ==
  ASSUME ii \in Nat, NEW v, Started(v), NEW i \in Fitting, NEW new \in Fitting
  PROVE  /\ StartedWith(Inserted(v, i, new, ii), new)
         /\ StartedWith(Inserted(v, i, new, ii + 1), i)
<1>1. PICK a : a = Assigned(v, ii, i)
  OBVIOUS
<1>2. StartedWith(a, i)
  BY <1>1, AssignedStarted
<1>3. IsVec(a, Fitting) /\ ii < a.n /\ a.n \in Nat /\ a.buf[ii] = i
  BY <1>2 DEF Started, StartedWith, IsVec
<1>4. PutIn(vec_insert(a, new, ii), a, new, ii, Fitting)
  BY <1>3, InsertVec
<1>5. PutIn(vec_insert(a, new, ii + 1), a, new, ii + 1, Fitting)
  BY <1>3, InsertVec
<1>6. StartedWith(vec_insert(a, new, ii), new)
  BY <1>2, <1>3, <1>4 DEF PutIn, Started, StartedWith
<1>7. StartedWith(vec_insert(a, new, ii + 1), i)
  BY <1>2, <1>3, <1>5 DEF PutIn, Started, StartedWith
<1>. QED  BY <1>1, <1>6, <1>7 DEF Inserted

\* what store_rewrite() leaves of the instruction at ii
StillCur(i) ==
  /\ i \in Fitting /\ i.type = Cur.type /\ i.in = Cur.in
  /\ i.out = Cur.out \/ i.out # None

LEMMA StoredStarted ==
  ASSUME Blocks, Positions, Rules, Visiting
  PROVE  \E i : StillCur(i) /\ StartedWith(Stored, i)
<1>1. /\ bi \in 1 .. NB /\ ii \in 0 .. body[bi].insns.n - 1 /\ body[bi].insns.n \in Nat
      /\ IsVec(body[bi].insns, Fitting) /\ Cur = body[bi].insns.buf[ii] /\ Cur \in Fitting
  BY Current
<1>2. StartedWith(body[bi].insns, Cur)
  BY <1>1 DEF Started, StartedWith
<1>3. CASE ~InMemory(Cur.out)
  BY <1>1, <1>2, <1>3 DEF Stored, StillCur
<1>4. CASE InMemory(Cur.out)
  <2>1. PICK i : i = [Cur EXCEPT !.out = Tmp(ri)]
    OBVIOUS
  <2>2. ri \in Nat /\ ii \in Nat
    BY DEF Positions
  <2>3. i \in Fitting /\ i.type = Cur.type /\ i.in = Cur.in /\ i.out = Tmp(ri)
    BY <1>1, <2>1, <2>2, OutFits
  <2>4. StillCur(i)
    BY <2>2, <2>3, Made DEF StillCur
  <2>5. rules[Cur.out[2]] \in Val
    BY <1>4 DEF InMemory, Rules
  <2>6. PICK new : new = Op("store", Tmp(ri), rules[Cur.out[2]], None)
    OBVIOUS
  <2>7. new \in Fitting
    BY <2>2, <2>5, <2>6, OpFits
  <2>8. StartedWith(Inserted(body[bi].insns, i, new, ii + 1), i)
    BY <1>2, <2>2, <2>3, <2>7, InsertedStarted DEF StartedWith
  <2>. QED  BY <1>4, <2>1, <2>4, <2>6, <2>8 DEF Stored
<1>. QED  BY <1>3, <1>4

-----------------------------------------------------------------------------
(* The actions.                                                             *)

\* the vector v put in place of the current block's by a step of the loop
Stepped(v) ==
  /\ Put(v) /\ source' = source /\ bi' = bi /\ ii' = ii + 1
  /\ ri' \in {ri, ri + 1}

LEMMA SteppedInv ==
  ASSUME Inv, Visiting, NEW v, NEW i, StartedWith(v, i), Settled(i), Stepped(v), Rules'
  PROVE  Inv'
<1>1. Blocks /\ Positions /\ Rules /\ Passed
  BY DEF Inv
<1>2. Corrected(v)
  BY DEF StartedWith, Started, Corrected
<1>3. ri' \in Nat /\ ri' >= ri
  BY <1>1 DEF Stepped, Positions
<1>4. Blocks' /\ Positions' /\ Passed'
  BY <1>1, <1>2, <1>3, StepInv DEF Stepped
<1>. QED  BY <1>4 DEF Inv

LEMMA KeptRules ==
  ASSUME Inv, rules' = rules
  PROVE  Rules'
BY DEF Inv, Rules

LEMMA MadeSettled ==
  ASSUME NEW i, i.type \in {"load", "addr", "copy"}
  PROVE  Settled(i)
BY DEF Settled, InRegister

LEMMA RegistersSettled ==
  ASSUME NEW i,
         i.type \in {"arith", "positional"} => IsTmp(i.in[1]),
         i.type = "store" /\ i.out = None => IsTmp(i.in[1]) /\ IsTmp(i.in[2])
  PROVE  Settled(i)
<1>1. CASE i.type \in {"arith", "positional"}
  BY <1>1 DEF Settled, InRegister
<1>2. CASE i.type = "store" /\ i.out = None
  BY <1>2 DEF Settled, InRegister
<1>3. CASE i.type \notin {"arith", "positional"} /\ ~(i.type = "store" /\ i.out = None)
  BY <1>3 DEF Settled, InRegister, Rewritten
<1>. QED  BY <1>1, <1>2, <1>3

LEMMA LoadRewriteInv == Inv /\ LoadRewrite => Inv'
<1>. SUFFICES ASSUME Inv, LoadRewrite PROVE Inv'
  OBVIOUS
<1>1. Visiting /\ Blocks /\ Positions /\ Rules
  BY DEF LoadRewrite, Inv
<1>2. PICK k \in {1, 2} :
        /\ InMemory(Cur.in[k])
        /\ Put(Inserted(body[bi].insns, [Cur EXCEPT !.in[k] = Tmp(ri)],
                        Op("load", Tmp(ri), rules[Cur.in[k][2]], None), ii))
  BY DEF LoadRewrite
<1>3. PICK v : v = Inserted(body[bi].insns, [Cur EXCEPT !.in[k] = Tmp(ri)],
                            Op("load", Tmp(ri), rules[Cur.in[k][2]], None), ii)
  OBVIOUS
<1>4. Stepped(v)
  BY <1>2, <1>3 DEF LoadRewrite, Stepped
<1>5. PICK i : i = [Cur EXCEPT !.in[k] = Tmp(ri)]
  OBVIOUS
<1>6. PICK new : new = Op("load", Tmp(ri), rules[Cur.in[k][2]], None)
  OBVIOUS
<1>7. ri \in Nat /\ ii \in Nat /\ rules[Cur.in[k][2]] \in Val
  BY <1>1, <1>2 DEF Positions, Rules, InMemory
<1>8. Cur \in Fitting /\ Started(body[bi].insns)
  BY <1>1, Current DEF Started
<1>9. i \in Fitting
  BY <1>5, <1>7, <1>8, InFits
<1>10. new \in Fitting /\ new.type = "load"
  BY <1>6, <1>7, OpFits
<1>11. StartedWith(Inserted(body[bi].insns, i, new, ii), new)
  BY <1>7, <1>8, <1>9, <1>10, InsertedStarted
<1>12. StartedWith(v, new) /\ Settled(new)
  BY <1>3, <1>5, <1>6, <1>10, <1>11, MadeSettled
<1>13. Rules'
  BY KeptRules DEF LoadRewrite
<1>. QED  BY <1>1, <1>4, <1>12, <1>13, SteppedInv

LEMMA SpillInv ==
  ASSUME Inv, Loaded, NEW type \in {"addr", "copy"}, NEW k \in {1, 2}, SpillWith(type, k)
  PROVE  Inv'
<1>1. Visiting /\ Blocks /\ Positions /\ Rules
  BY DEF Loaded, Inv
<1>2. PICK v : v = Inserted(Stored, [Cur EXCEPT !.in[k] = Tmp(ri)],
                            Op(type, Tmp(ri), Cur.in[k], None), ii)
  OBVIOUS
<1>3. Stepped(v)
  BY <1>2 DEF SpillWith, Stepped
<1>4. PICK i : i = [Cur EXCEPT !.in[k] = Tmp(ri)]
  OBVIOUS
<1>5. PICK new : new = Op(type, Tmp(ri), Cur.in[k], None)
  OBVIOUS
<1>6. ri \in Nat /\ ii \in Nat
  BY <1>1 DEF Positions
<1>7. Cur \in Fitting /\ Cur.in[k] \in Val
  BY <1>1, Current DEF Fitting, Insn
<1>8. i \in Fitting
  BY <1>4, <1>6, <1>7, InFits
<1>9. new \in Fitting /\ new.type = type
  BY <1>5, <1>6, <1>7, OpFits
<1>10. Started(Stored)
  BY <1>1, StoredStarted DEF StartedWith
<1>11. StartedWith(Inserted(Stored, i, new, ii), new)
  BY <1>6, <1>8, <1>9, <1>10, InsertedStarted
<1>12. StartedWith(v, new) /\ Settled(new)
  BY <1>2, <1>4, <1>5, <1>9, <1>11, MadeSettled
<1>13. Rules'
  BY KeptRules DEF SpillWith
<1>. QED  BY <1>1, <1>3, <1>12, <1>13, SteppedInv

LEMMA SpillRefInv == Inv /\ SpillRef => Inv'
BY SpillInv DEF SpillRef

LEMMA SpillImmInv == Inv /\ SpillImm => Inv'
BY SpillInv DEF SpillImm, NoImm

LEMMA SwapInv == Inv /\ Swap => Inv'
<1>. SUFFICES ASSUME Inv, Swap PROVE Inv'
  OBVIOUS
<1>1. Visiting /\ Blocks /\ Positions /\ Rules /\ ~AnyRef /\ Swaps
  BY DEF Swap, Loaded, Inv
<1>2. PICK v : v = Assigned(Stored, ii, [Cur EXCEPT !.in = <<Cur.in[2], Cur.in[1]>>])
  OBVIOUS
<1>3. Stepped(v)
  BY <1>2 DEF Swap, Stepped
<1>4. PICK q : q = <<Cur.in[2], Cur.in[1]>>
  OBVIOUS
<1>5. PICK i : i = [Cur EXCEPT !.in = q]
  OBVIOUS
<1>6. ii \in Nat /\ Cur \in Fitting
  BY <1>1, Current DEF Positions
<1>7. Cur.type = "arith" /\ IsImm(Cur.in[1]) /\ ~IsRef(Cur.in[2])
  BY <1>1 DEF Swaps, AnyRef, RefAt
<1>8. i \in Fitting /\ i.type = "arith" /\ i.in = q
  BY <1>4, <1>5, <1>6, <1>7, SwapFits
<1>9. Cur.in[2] \in Val /\ Cur.in[2] # None
  BY <1>6, <1>7 DEF Fitting, Insn, Written
<1>10. IsTmp(i.in[1]) \/ (IsImm(i.in[1]) /\ IsImm(i.in[2]))
  BY <1>4, <1>7, <1>8, <1>9, Kinds
<1>11. Settled(i)
  BY <1>8, <1>10 DEF Settled, InRegister, Constant
<1>12. Started(Stored)
  BY <1>1, StoredStarted DEF StartedWith
<1>13. StartedWith(v, i)
  BY <1>2, <1>4, <1>5, <1>6, <1>8, <1>12, AssignedStarted
<1>14. Rules'
  BY KeptRules DEF Swap
<1>. QED  BY <1>1, <1>3, <1>11, <1>13, <1>14, SteppedInv

LEMMA TakeAddressInv == Inv /\ TakeAddress => Inv'
<1>. SUFFICES ASSUME Inv, TakeAddress PROVE Inv'
  OBVIOUS
<1>1. Visiting /\ Blocks /\ Positions /\ Rules /\ Takes
  BY DEF TakeAddress, Loaded, Inv
<1>2. PICK v : v = Stored
  OBVIOUS
<1>3. Stepped(v)
  BY <1>2 DEF TakeAddress, Stepped
<1>4. PICK i : StillCur(i) /\ StartedWith(Stored, i)
  BY <1>1, StoredStarted
<1>5. Cur.type = "addr" /\ Settled(i)
  BY <1>1, <1>4, MadeSettled DEF Takes, StillCur
<1>6. Rules'
  <2>1. Cur \in Fitting
    BY <1>1, Current
  <2>2. IsTmp(Cur.out) /\ Cur.out \in Val
    BY <1>5, <2>1 DEF Fitting, Written, Insn
  <2>. QED  BY <1>1, <2>2 DEF TakeAddress, Rules
<1>. QED  BY <1>1, <1>2, <1>3, <1>4, <1>5, <1>6, SteppedInv

LEMMA KeepInv == Inv /\ Keep => Inv'
<1>. SUFFICES ASSUME Inv, Keep PROVE Inv'
  OBVIOUS
<1>1. Visiting /\ Blocks /\ Positions /\ Rules /\ ~AnyRef /\ ~Swaps
  BY DEF Keep, Loaded, Inv
<1>2. PICK v : v = Stored
  OBVIOUS
<1>3. Stepped(v)
  BY <1>2 DEF Keep, Stepped
<1>4. PICK i : StillCur(i) /\ StartedWith(Stored, i)
  BY <1>1, StoredStarted
<1>5. Cur \in Fitting
  BY <1>1, Current
<1>6. /\ Cur \in Insn /\ Written(Cur) /\ Cur.in[1] \in Val /\ Cur.in[2] \in Val
  BY <1>5 DEF Fitting, Insn
<1>7. i.type = Cur.type /\ i.in = Cur.in /\ (i.out = None => Cur.out = None)
  BY <1>4 DEF StillCur
<1>8. ASSUME Cur.type \in {"arith", "positional"}
      PROVE  IsTmp(Cur.in[1])
  <2>1. ~IsImm(Cur.in[1])
    BY <1>1, <1>8 DEF Keep, Swaps, NoImm
  <2>2. ~IsRef(Cur.in[1]) /\ Cur.in[1] # None
    BY <1>1, <1>6, <1>8 DEF AnyRef, RefAt, Written
  <2>. QED  BY <2>1, <2>2, <1>6, Kinds
<1>9. ASSUME Cur.type = "store", Cur.out = None
      PROVE  IsTmp(Cur.in[1]) /\ IsTmp(Cur.in[2])
  <2>1. ~IsImm(Cur.in[2])
    BY <1>9 DEF Keep, NoImm
  <2>2. ~IsRef(Cur.in[2]) /\ Cur.in[2] # None /\ IsTmp(Cur.in[1])
    BY <1>1, <1>6, <1>9 DEF AnyRef, RefAt, Written
  <2>. QED  BY <2>1, <2>2, <1>6, Kinds
<1>10. Settled(i)
  <2>1. i.type \in {"arith", "positional"} => IsTmp(i.in[1])
    BY <1>7, <1>8
  <2>2. i.type = "store" /\ i.out = None => IsTmp(i.in[1]) /\ IsTmp(i.in[2])
    BY <1>7, <1>9
  <2>. QED  BY <2>1, <2>2, RegistersSettled
<1>11. Rules'
  BY KeptRules DEF Keep
<1>. QED  BY <1>1, <1>2, <1>3, <1>4, <1>10, <1>11, SteppedInv

\* an immediate of a comparison is copied into a fresh temporary
LEMMA CopyFits ==
  ASSUME Positions, NEW cmp \in Val \X Val, NEW k \in {1, 2}, k \in Loads(cmp)
  PROVE  /\ CmpCopied(cmp, k) \in Val
         /\ LoadedTo(cmp, k) \in Val
         /\ Op("copy", LoadedTo(cmp, k), CmpCopied(cmp, k), None) \in Fitting
         /\ Settled(Op("copy", LoadedTo(cmp, k), CmpCopied(cmp, k), None))
<1>1. ri \in Nat /\ ri + 1 \in Nat
  BY DEF Positions
<1>2. \A l \in {1, 2} : \E n \in Nat : LoadedTo(cmp, l) = Tmp(n)
  BY <1>1 DEF LoadedTo
<1>3. \A l \in {1, 2} : LoadedTo(cmp, l) \in Val
  BY <1>2, Made
<1>4. CmpTmps(cmp)[1] \in Val
  BY <1>3 DEF CmpTmps
<1>5. CmpCopied(cmp, k) \in Val
  BY <1>4 DEF CmpCopied
<1>6. PICK n \in Nat : LoadedTo(cmp, k) = Tmp(n)
  BY <1>2
<1>7. PICK i : i = Op("copy", Tmp(n), CmpCopied(cmp, k), None)
  OBVIOUS
<1>8. i \in Fitting /\ i.type = "copy"
  BY <1>5, <1>7, OpFits
<1>9. Settled(i)
  BY <1>8, MadeSettled
<1>. QED  BY <1>3, <1>5, <1>6, <1>7, <1>8, <1>9

\* w starts with v, and what follows can be printed
Extends(w, v) ==
  /\ IsVec(w, Fitting) /\ v.n <= w.n
  /\ \A c \in 0 .. v.n - 1 : w.buf[c] = v.buf[c]
  /\ \A c \in v.n .. w.n - 1 : Settled(w.buf[c])

LEMMA LoadExtends ==
  ASSUME Positions, NEW v, IsVec(v, Fitting), NEW cmp \in Val \X Val, NEW k \in {1, 2}
  PROVE  Extends(WithLoad(v, cmp, k), v)
<1>1. v.n \in Nat
  BY DEF IsVec
<1>2. CASE k \notin Loads(cmp)
  BY <1>1, <1>2 DEF WithLoad, Extends
<1>3. CASE k \in Loads(cmp)
  <2>1. PICK i : i = Op("copy", LoadedTo(cmp, k), CmpCopied(cmp, k), None)
    OBVIOUS
  <2>2. i \in Fitting /\ Settled(i)
    BY <1>3, <2>1, CopyFits
  <2>3. PICK w : w = vec_append(v, i)
    OBVIOUS
  <2>4. PutIn(w, v, i, v.n, Fitting)
    BY <2>2, <2>3, AppendVec
  <2>5. \A c \in v.n .. w.n - 1 : w.buf[c] = i
    BY <1>1, <2>4 DEF PutIn
  <2>6. Extends(w, v)
    BY <1>1, <2>2, <2>4, <2>5 DEF PutIn, Extends
  <2>. QED  BY <1>3, <2>1, <2>3, <2>6 DEF WithLoad
<1>. QED  BY <1>2, <1>3

LEMMA TmpsFit ==
  ASSUME Positions, NEW cmp \in Val \X Val
  PROVE  CmpTmps(cmp) \in Val \X Val
<1>1. \A k \in {1, 2} : k \in Loads(cmp) => LoadedTo(cmp, k) \in Val
  BY CopyFits
<1>2. PICK q : q = CmpTmps(cmp)
  OBVIOUS
<1>3. q[1] \in Val /\ q[2] \in Val /\ q = [k \in {1, 2} |-> q[k]]
  BY <1>1, <1>2 DEF CmpTmps
<1>4. q = <<q[1], q[2]>>
  BY <1>3
<1>. QED  BY <1>2, <1>3, <1>4

LEMMA EndBlockInv == Inv /\ EndBlock => Inv'
<1>. SUFFICES ASSUME Inv, EndBlock PROVE Inv'
  OBVIOUS
<1>1. Blocks /\ Positions /\ Rules /\ Passed /\ bi \in 1 .. NB
  BY DEF EndBlock, Inv
<1>2. PICK cmp : cmp = body[bi].cmp
  OBVIOUS
<1>3. PICK v : v = body[bi].insns
  OBVIOUS
<1>4. /\ cmp \in Val \X Val /\ IsVec(v, Fitting) /\ v.n \in Nat
      /\ DOMAIN body[bi] = {"insns", "cmp"}
  BY <1>1, <1>2, <1>3 DEF Blocks, IsVec
<1>5. PICK u : u = WithLoad(v, cmp, 1)
  OBVIOUS
<1>6. PICK w : w = WithLoad(u, cmp, 2)
  OBVIOUS
<1>7. Extends(u, v)
  BY <1>1, <1>4, <1>5, LoadExtends
<1>8. Extends(w, u)
  BY <1>1, <1>4, <1>6, <1>7, LoadExtends DEF Extends
<1>9. Extends(w, v)
  <2>1. u.n \in Nat /\ w.n \in Nat
    BY <1>7, <1>8 DEF Extends, IsVec
  <2>2. \A c \in v.n .. w.n - 1 : c \in v.n .. u.n - 1 \/ c \in u.n .. w.n - 1
    BY <1>4, <2>1
  <2>. QED  BY <1>4, <1>7, <1>8, <2>1, <2>2 DEF Extends
<1>10. PICK new : new = CmpTmps(cmp)
  OBVIOUS
<1>11. new \in Val \X Val
  BY <1>1, <1>4, <1>10, TmpsFit
<1>12. PICK b0 : b0 = [[body[bi] EXCEPT !.insns = w] EXCEPT !.cmp = new]
  OBVIOUS
<1>13. DOMAIN b0 = {"insns", "cmp"} /\ b0.insns = w /\ b0.cmp = new
  BY <1>4, <1>12
<1>14. body' = [body EXCEPT ![bi].insns = w, ![bi].cmp = new]
  BY <1>2, <1>3, <1>5, <1>6, <1>10 DEF EndBlock
<1>15. /\ DOMAIN body' = 1 .. NB
       /\ body'[bi] = b0
       /\ \A b \in 1 .. NB : b # bi => body'[b] = body[b]
  BY <1>1, <1>12, <1>14 DEF Blocks
<1>16. NB' = NB /\ source' = source /\ bi' = bi + 1 /\ ii' = 0 /\ rules' = rules
  BY DEF EndBlock, NB
<1>17. Blocks'
  <2>1. ASSUME NEW b \in 1 .. NB
        PROVE  /\ DOMAIN body'[b] = {"insns", "cmp"}
               /\ IsVec(body'[b].insns, Fitting)
               /\ body'[b].cmp \in Val \X Val
    <3>1. CASE b = bi
      BY <3>1, <1>9, <1>11, <1>13, <1>15 DEF Extends
    <3>2. CASE b # bi
      BY <3>2, <1>1, <1>15 DEF Blocks
    <3>. QED  BY <3>1, <3>2
  <2>. QED  BY <1>1, <1>15, <1>16, <2>1 DEF Blocks
<1>18. NB \in Nat
  BY <1>1, Sizes DEF Blocks, NB
<1>19. Positions'
  <2>1. ri' \in Nat /\ ri' >= ri
    BY <1>1 DEF EndBlock, Positions
  <2>. QED  BY <1>1, <1>16, <1>18, <2>1, TmpsAssumption DEF Positions
<1>20. Passed'
  <2>1. \A k \in 0 .. v.n - 1 : Settled(v.buf[k])
    <3>1. v.n <= ii /\ ii \in Nat
      BY <1>1, <1>3, <1>4 DEF EndBlock, Visiting, vec_len, Positions
    <3>. QED  BY <1>1, <1>3, <1>4, <3>1 DEF Passed
  <2>2. ASSUME NEW b \in 1 .. NB, NEW k \in 0 .. body'[b].insns.n - 1,
               b < bi + 1 \/ (b = bi + 1 /\ k < 0)
        PROVE  Settled(body'[b].insns.buf[k])
    <3>1. CASE b = bi
      <4>1. k \in 0 .. w.n - 1 /\ body'[b].insns = w /\ w.n \in Nat
        BY <3>1, <1>9, <1>13, <1>15 DEF Extends, IsVec
      <4>2. k \in 0 .. v.n - 1 \/ k \in v.n .. w.n - 1
        BY <4>1, <1>4
      <4>. QED  BY <4>1, <4>2, <1>9, <2>1 DEF Extends
    <3>2. CASE b # bi
      <4>1. body'[b] = body[b] /\ b < bi
        BY <3>2, <2>2, <1>1, <1>15, <1>18
      <4>. QED  BY <4>1, <1>1 DEF Passed
    <3>. QED  BY <3>1, <3>2
  <2>. QED  BY <1>16, <2>2 DEF Passed
<1>21. Rules'
  BY <1>16, KeptRules
<1>. QED  BY <1>17, <1>19, <1>20, <1>21 DEF Inv

LEMMA NextInv == Inv /\ [Next]_vars => Inv'
<1>. SUFFICES ASSUME Inv, [Next]_vars PROVE Inv'
  OBVIOUS
<1>1. CASE Next
  BY <1>1, LoadRewriteInv, SpillRefInv, SpillImmInv, SwapInv, TakeAddressInv, KeepInv,
     EndBlockInv DEF Next
<1>2. CASE UNCHANGED vars
  <2>1. source' = source /\ body' = body /\ bi' = bi /\ ii' = ii /\ ri' = ri /\ rules' = rules
    BY <1>2 DEF vars
  <2>2. Blocks'
    BY <2>1 DEF Inv, Blocks, NB
  <2>3. Positions' /\ Rules'
    BY <2>1 DEF Inv, Positions, Rules, NB
  <2>4. Passed'
    BY <2>1 DEF Inv, Passed, NB
  <2>. QED  BY <2>2, <2>3, <2>4 DEF Inv
<1>. QED  BY <1>1, <1>2

(* Wherever the loops are, what they have passed is in its final form.      *)
THEOREM InvAlways == Spec => []Inv
BY InitInv, NextInv, PTL DEF Spec

(* Inserting into the vector it iterates over, correct() never reads or     *)
(* writes beyond it, leaves no instruction uninitialised and makes only     *)
(* instructions of the known forms, for functions of any size (TypeOK).     *)
THEOREM CorrectTypes == Spec => []TypeOK
<1>1. Inv => TypeOK
  <2>. SUFFICES ASSUME Inv PROVE TypeOK
    OBVIOUS
  <2>1. \A b \in 1 .. NB : IsVec(body[b].insns, Insn) /\ body[b].cmp \in Val \X Val
    BY DEF Inv, Blocks, Fitting, IsVec
  <2>. QED  BY <2>1 DEF Inv, Positions, Rules, TypeOK
<1>. QED  BY <1>1, InvAlways, PTL

-----------------------------------------------------------------------------
(* As long as no address was taken, no instruction was made by              *)
(* store_rewrite(): a part of the invariant of its own.                     *)

Unwritten == {i \in Insn : ~Rewritten(i)}

NoneRewritten ==
  DOMAIN rules = {} => \A b \in 1 .. NB : IsVec(body[b].insns, Unwritten)

LEMMA InitNoneRewritten == Init => NoneRewritten
<1>. SUFFICES ASSUME Init, NEW b \in 1 .. NB PROVE IsVec(body[b].insns, Unwritten)
  BY DEF NoneRewritten
<1>1. source \in Functions
  BY DEF Init
<1>2. source[b].insns \in Seq(Fitting) /\ b \in DOMAIN source
  BY <1>1, Sizes DEF NB
<1>3. PICK q : q = source[b].insns
  OBVIOUS
<1>4. q \in Seq(Fitting) /\ \A k \in DOMAIN q : ~Rewritten(q[k])
  BY <1>1, <1>2, <1>3, FunctionsAssumption
<1>5. q \in Seq(Unwritten)
  <2>1. \A k \in 1 .. Len(q) : q[k] \in Unwritten
    BY <1>4 DEF Unwritten, Fitting
  <2>. QED  BY <1>4, <2>1
<1>6. PICK v \in Appended(q) : body[b] = [insns |-> v, cmp |-> source[b].cmp]
  BY <1>3 DEF Init, Parsed
<1>. QED  BY <1>5, <1>6, AppendedVec

\* the block at hand when no address was taken
LEMMA Unaddressed ==
  ASSUME Inv, NoneRewritten, Visiting, DOMAIN rules = {}
  PROVE  /\ IsVec(body[bi].insns, Unwritten) /\ ii \in 0 .. body[bi].insns.n - 1
         /\ Cur \in Fitting /\ Cur \in Unwritten
         /\ Stored = body[bi].insns
         /\ ri \in Nat
<1>1. bi \in 1 .. NB /\ ii \in 0 .. body[bi].insns.n - 1 /\ Cur = body[bi].insns.buf[ii]
      /\ Cur \in Fitting /\ ri \in Nat
  BY Current DEF Inv, Positions
<1>2. IsVec(body[bi].insns, Unwritten)
  BY <1>1 DEF NoneRewritten
<1>3. Cur \in Unwritten
  BY <1>1, <1>2 DEF IsVec
<1>4. Stored = body[bi].insns
  BY DEF Stored, InMemory
<1>. QED  BY <1>1, <1>2, <1>3, <1>4

\* v, without such stores, takes the place of the current block's instructions
LEMMA StepNoneRewritten ==
  ASSUME Inv, NoneRewritten, bi \in 1 .. NB, DOMAIN rules = {}, source' = source,
         NEW v, IsVec(v, Unwritten),
         DOMAIN body' = DOMAIN body, body'[bi].insns = v,
         \A b \in 1 .. NB : b # bi => body'[b] = body[b]
  PROVE  NoneRewritten'
<1>1. NB' = NB
  BY DEF NB
<1>2. \A b \in 1 .. NB : IsVec(body'[b].insns, Unwritten)
  BY DEF NoneRewritten
<1>. QED  BY <1>1, <1>2 DEF NoneRewritten

LEMMA PutNoneRewritten ==
  ASSUME Inv, NoneRewritten, Visiting, DOMAIN rules = {}, source' = source,
         NEW v, IsVec(v, Unwritten), Put(v)
  PROVE  NoneRewritten'
<1>1. bi \in 1 .. NB /\ DOMAIN body = 1 .. NB /\ DOMAIN body[bi] = {"insns", "cmp"}
  BY DEF Visiting, Inv, Blocks
<1>2. body' = [body EXCEPT ![bi] = [@ EXCEPT !.insns = v]]
  BY DEF Put
<1>3. /\ DOMAIN body' = DOMAIN body /\ body'[bi].insns = v
      /\ \A b \in 1 .. NB : b # bi => body'[b] = body[b]
  BY <1>1, <1>2
<1>. QED  BY <1>1, <1>3, StepNoneRewritten

\* the types and outputs of what is inserted
LEMMA OpUnwritten ==
  ASSUME NEW type \in {"addr", "copy"}, NEW n \in Nat, NEW a \in Val
  PROVE  Op(type, Tmp(n), a, None) \in Unwritten
<1>1. PICK i : i = Op(type, Tmp(n), a, None)
  OBVIOUS
<1>2. i \in Fitting /\ i.type = type
  BY <1>1, OpFits
<1>. QED  BY <1>1, <1>2 DEF Unwritten, Fitting, Rewritten

LEMMA InUnwritten ==
  ASSUME NEW i \in Insn, NEW j \in Insn, i \in Unwritten, j.type = i.type, j.out = i.out
  PROVE  j \in Unwritten
BY DEF Unwritten, Rewritten

LEMMA SpillNoneRewritten ==
  ASSUME Inv, NoneRewritten, Loaded, DOMAIN rules = {},
         NEW type \in {"addr", "copy"}, NEW k \in {1, 2}, SpillWith(type, k)
  PROVE  NoneRewritten'
<1>1. Visiting /\ source' = source
  BY DEF Loaded, SpillWith
<1>2. PICK b0 : b0 = body[bi].insns
  OBVIOUS
<1>3. /\ IsVec(b0, Unwritten) /\ ii \in 0 .. b0.n - 1 /\ b0.n \in Nat /\ ri \in Nat
      /\ Cur \in Fitting /\ Cur \in Unwritten /\ Stored = b0
  BY <1>1, <1>2, Unaddressed DEF IsVec
<1>4. PICK i : i = [Cur EXCEPT !.in[k] = Tmp(ri)]
  OBVIOUS
<1>5. PICK new : new = Op(type, Tmp(ri), Cur.in[k], None)
  OBVIOUS
<1>6. Cur \in Insn /\ Cur.in[k] \in Val
  BY <1>3 DEF Fitting, Insn
<1>7. i \in Unwritten
  <2>1. i \in Fitting
    BY <1>3, <1>4, InFits
  <2>2. i \in Insn
    BY <2>1 DEF Fitting
  <2>3. i.type = Cur.type /\ i.out = Cur.out
    BY <1>4, <1>6 DEF Insn
  <2>. QED  BY <1>3, <1>6, <2>2, <2>3, InUnwritten
<1>8. new \in Unwritten
  BY <1>3, <1>5, <1>6, OpUnwritten
<1>9. PICK a : a = Assigned(b0, ii, i)
  OBVIOUS
<1>10. IsVec(a, Unwritten) /\ a.n = b0.n
  BY <1>3, <1>7, <1>9, AssignedVec
<1>11. PICK v : v = vec_insert(a, new, ii)
  OBVIOUS
<1>12. ii \in 0 .. a.n
  BY <1>3, <1>10
<1>13. IsVec(v, Unwritten)
  BY <1>8, <1>10, <1>11, <1>12, InsertVec DEF PutIn
<1>14. Put(v)
  BY <1>3, <1>4, <1>5, <1>9, <1>11 DEF SpillWith, Inserted
<1>. QED  BY <1>1, <1>13, <1>14, PutNoneRewritten

LEMMA SwapNoneRewritten ==
  ASSUME Inv, NoneRewritten, DOMAIN rules = {}, Swap
  PROVE  NoneRewritten'
<1>1. Visiting /\ source' = source /\ Cur.type = "arith"
  BY DEF Swap, Loaded, Swaps
<1>2. PICK b0 : b0 = body[bi].insns
  OBVIOUS
<1>3. /\ IsVec(b0, Unwritten) /\ ii \in 0 .. b0.n - 1
      /\ Cur \in Fitting /\ Stored = b0
  BY <1>1, <1>2, Unaddressed
<1>4. PICK q : q = <<Cur.in[2], Cur.in[1]>>
  OBVIOUS
<1>5. PICK i : i = [Cur EXCEPT !.in = q]
  OBVIOUS
<1>6. i \in Fitting /\ i.type = "arith"
  BY <1>1, <1>3, <1>4, <1>5, SwapFits
<1>7. i \in Unwritten
  BY <1>6 DEF Unwritten, Fitting, Rewritten
<1>8. IsVec(Assigned(b0, ii, i), Unwritten)
  BY <1>3, <1>7, AssignedVec
<1>9. Put(Assigned(b0, ii, i))
  BY <1>3, <1>4, <1>5 DEF Swap
<1>. QED  BY <1>1, <1>8, <1>9, PutNoneRewritten

LEMMA KeepNoneRewritten ==
  ASSUME Inv, NoneRewritten, DOMAIN rules = {}, Keep
  PROVE  NoneRewritten'
<1>1. Visiting /\ source' = source /\ Put(Stored)
  BY DEF Keep, Loaded
<1>2. IsVec(Stored, Unwritten)
  BY <1>1, Unaddressed
<1>. QED  BY <1>1, <1>2, PutNoneRewritten

LEMMA LoadUnwritten ==
  ASSUME Positions, NEW v, IsVec(v, Unwritten), NEW cmp \in Val \X Val, NEW k \in {1, 2}
  PROVE  IsVec(WithLoad(v, cmp, k), Unwritten)
<1>1. CASE k \notin Loads(cmp)
  BY <1>1 DEF WithLoad
<1>2. CASE k \in Loads(cmp)
  <2>1. PICK n \in Nat : LoadedTo(cmp, k) = Tmp(n)
    BY DEF Positions, LoadedTo
  <2>2. Op("copy", LoadedTo(cmp, k), CmpCopied(cmp, k), None) \in Unwritten
    BY <1>2, <2>1, CopyFits, OpUnwritten
  <2>. QED  BY <1>2, <2>2, AppendVec DEF WithLoad, PutIn
<1>. QED  BY <1>1, <1>2

LEMMA EndBlockNoneRewritten ==
  ASSUME Inv, NoneRewritten, DOMAIN rules = {}, EndBlock
  PROVE  NoneRewritten'
<1>1. Blocks /\ Positions /\ bi \in 1 .. NB /\ source' = source
  BY DEF EndBlock, Inv
<1>2. PICK cmp : cmp = body[bi].cmp
  OBVIOUS
<1>3. PICK v : v = body[bi].insns
  OBVIOUS
<1>4. cmp \in Val \X Val /\ DOMAIN body[bi] = {"insns", "cmp"} /\ IsVec(v, Unwritten)
  BY <1>1, <1>2, <1>3 DEF Blocks, NoneRewritten
<1>5. PICK u : u = WithLoad(v, cmp, 1)
  OBVIOUS
<1>6. PICK w : w = WithLoad(u, cmp, 2)
  OBVIOUS
<1>7. IsVec(w, Unwritten)
  BY <1>1, <1>4, <1>5, <1>6, LoadUnwritten
<1>8. PICK new : new = CmpTmps(cmp)
  OBVIOUS
<1>9. PICK b0 : b0 = [[body[bi] EXCEPT !.insns = w] EXCEPT !.cmp = new]
  OBVIOUS
<1>10. b0.insns = w
  BY <1>4, <1>9
<1>11. body' = [body EXCEPT ![bi].insns = w, ![bi].cmp = new]
  BY <1>2, <1>3, <1>5, <1>6, <1>8 DEF EndBlock
<1>12. /\ DOMAIN body' = DOMAIN body /\ body'[bi] = b0
       /\ \A b \in 1 .. NB : b # bi => body'[b] = body[b]
  BY <1>1, <1>9, <1>11 DEF Blocks
<1>. QED  BY <1>1, <1>7, <1>10, <1>12, StepNoneRewritten

LEMMA NextNoneRewritten == Inv /\ NoneRewritten /\ [Next]_vars => NoneRewritten'
<1>. SUFFICES ASSUME Inv, NoneRewritten, [Next]_vars, DOMAIN rules' = {}
              PROVE  NoneRewritten'
  BY DEF NoneRewritten
<1>1. CASE LoadRewrite
  BY <1>1 DEF LoadRewrite, InMemory
<1>2. CASE SpillRef
  BY <1>2, SpillNoneRewritten DEF SpillRef, SpillWith
<1>3. CASE SpillImm
  BY <1>3, SpillNoneRewritten DEF SpillImm, SpillWith, NoImm
<1>4. CASE Swap
  BY <1>4, SwapNoneRewritten DEF Swap
<1>5. CASE TakeAddress
  BY <1>5 DEF TakeAddress
<1>6. CASE Keep
  BY <1>6, KeepNoneRewritten DEF Keep
<1>7. CASE EndBlock
  BY <1>7, EndBlockNoneRewritten DEF EndBlock
<1>8. CASE UNCHANGED vars
  BY <1>8 DEF vars, NoneRewritten, NB
<1>. QED  BY <1>1, <1>2, <1>3, <1>4, <1>5, <1>6, <1>7, <1>8 DEF Next

(* Whatever functions the grammar admits are corrected, every instruction   *)
(* comes out with registers where the output stage prints only registers    *)
(* (Selectable). The exceptions are additions of two constants and, only in *)
(* a function that takes an address, the stores of store_rewrite().         *)
THEOREM FormsAreSelectable == Spec => []Selectable
<1>1. Inv /\ NoneRewritten => Selectable
  <2>. SUFFICES ASSUME Inv, NoneRewritten,
                       NEW b \in 1 .. bi - 1,
                       NEW k \in 0 .. vec_len(body[b].insns) - 1,
                       NEW i, i = insn_at(b, k)
                PROVE  InRegister(i) \/ Constant(i) \/ (Rewritten(i) /\ rules # <<>>)
    BY DEF Selectable
  <2>1. source \in Functions /\ bi \in 1 .. NB + 1
    BY DEF Inv, Blocks, Positions
  <2>2. NB \in Nat
    BY <2>1, Sizes DEF NB
  <2>3. b \in 1 .. NB /\ b < bi
    BY <2>1, <2>2
  <2>4. i = body[b].insns.buf[k] /\ k \in 0 .. body[b].insns.n - 1
    BY DEF insn_at, vec_at, vec_len
  <2>5. InRegister(i) \/ Constant(i) \/ Rewritten(i)
    BY <2>3, <2>4 DEF Inv, Passed, Settled
  <2>6. rules = <<>> => ~Rewritten(i)
    <3>1. rules = <<>> => DOMAIN rules = {}
      OBVIOUS
    <3>. QED  BY <2>3, <2>4, <3>1 DEF NoneRewritten, IsVec, Unwritten
  <2>. QED  BY <2>5, <2>6
<1>2. Spec => []NoneRewritten
  BY InitNoneRewritten, NextNoneRewritten, InvAlways, PTL DEF Spec
<1>. QED  BY <1>1, <1>2, InvAlways, PTL

-----------------------------------------------------------------------------
(* Temporaries whose address was taken. The invariant knows three things:   *)
(* every address that was taken has its rule, all temporaries that are      *)
(* still to be met are older than the next free one, and what was passed    *)
(* after an address was taken heeds it.                                     *)

At(b, k) == body[b].insns.buf[k]

Seen(b, k) ==
  /\ b \in 1 .. NB /\ k \in 0 .. body[b].insns.n - 1
  /\ b < bi \/ (b = bi /\ k < ii)

Unseen(b, k) ==
  /\ b \in 1 .. NB /\ k \in 0 .. body[b].insns.n - 1
  /\ ~(b < bi \/ (b = bi /\ k < ii))

Earlier(c, j, b, k) == c < b \/ (c = b /\ j < k)

TakesOf(i, n) == i.type = "addr" /\ i.in[1] = Tmp(n)

\* Tmp(n) is an address of R
Address(R, n) == \E m \in DOMAIN R : R[m] = Tmp(n)

\* under the rules R, i neither reads nor writes Tmp(n) where it should not
Heeds(i, n, R) ==
  /\ i.in[1] = Tmp(n) \/ i.in[2] = Tmp(n) =>
       (i.type = "load" /\ Address(R, n)) \/ i.type = "copy"
  /\ i.out = Tmp(n) => i.type = "arith" /\ IsImm(i.in[2])

\* the temporaries of i are older than r, but for what a "store" that
\* store_rewrite() left behind writes to
Older(i, r) ==
  /\ Below(i.in[1], r) /\ Below(i.in[2], r)
  /\ i.type # "store" => Below(i.out, r)

Taken == \A b, k, n : Seen(b, k) /\ TakesOf(At(b, k), n) => n \in DOMAIN rules

Heeded ==
  \A b, k, c, j, n :
    Seen(b, k) /\ Seen(c, j) /\ Earlier(c, j, b, k) /\ TakesOf(At(c, j), n) =>
      Heeds(At(b, k), n, rules)

Ahead == \A b, k : Unseen(b, k) => Older(At(b, k), ri)

\* the rules R are about temporaries older than r
OldRules(R, r) == \A n \in DOMAIN R : n \in Nat /\ n < r /\ Below(R[n], r)

Addresses == Taken /\ Heeded /\ Ahead /\ OldRules(rules, ri)

LEMMA BelowMore ==
  ASSUME NEW v \in Val, NEW r \in Nat, NEW t \in Nat, r <= t, Below(v, r)
  PROVE  Below(v, t)
<1>1. IsTmp(v) => v[2] \in Nat
  BY DEF Val, IsTmp, None
<1>. QED  BY <1>1 DEF Below

LEMMA OlderMore ==
  ASSUME NEW i \in Insn, NEW r \in Nat, NEW t \in Nat, r <= t, Older(i, r)
  PROVE  Older(i, t)
<1>1. i.in[1] \in Val /\ i.in[2] \in Val /\ i.out \in Val
  BY DEF Insn
<1>. QED  BY <1>1, BelowMore DEF Older

LEMMA HeedsMore ==
  ASSUME NEW i, NEW n, NEW R, NEW S, Heeds(i, n, R),
         DOMAIN R \subseteq DOMAIN S, \A m \in DOMAIN R : S[m] = R[m]
  PROVE  Heeds(i, n, S)
<1>1. Address(R, n) => Address(S, n)
  BY DEF Address
<1>. QED  BY <1>1 DEF Heeds

LEMMA RulesMore ==
  ASSUME Rules, Positions, OldRules(rules, ri), NEW t \in Nat, ri <= t
  PROVE  OldRules(rules, t)
<1>. SUFFICES ASSUME NEW n \in DOMAIN rules
              PROVE  n \in Nat /\ n < t /\ Below(rules[n], t)
  BY DEF OldRules
<1>1. n \in Nat /\ n < ri /\ Below(rules[n], ri) /\ ri \in Nat /\ rules[n] \in Val
  BY DEF OldRules, Rules, Positions
<1>. QED  BY <1>1, BelowMore

LEMMA InitAddresses == Init => Addresses
<1>. SUFFICES ASSUME Init PROVE Addresses
  OBVIOUS
<1>1. Inv /\ bi = 1 /\ ii = 0 /\ rules = <<>> /\ ri = NTmps
  BY InitInv DEF Init
<1>2. NB \in Nat /\ source \in Functions
  BY <1>1, Sizes DEF Inv, Blocks, NB
<1>3. ASSUME NEW b, NEW k PROVE ~Seen(b, k)
  <2>1. ASSUME b \in 1 .. NB, k \in 0 .. body[b].insns.n - 1
        PROVE  ~(b < 1) /\ ~(k < 0)
    BY <2>1, <1>1, <1>2 DEF Inv, Blocks, IsVec
  <2>. QED  BY <1>1, <2>1 DEF Seen
<1>4. ASSUME NEW b, NEW k, Unseen(b, k) PROVE Older(At(b, k), ri)
  <2>1. b \in 1 .. NB /\ k \in 0 .. body[b].insns.n - 1
    BY <1>4 DEF Unseen
  <2>2. PICK v \in Appended(source[b].insns) : body[b] = [insns |-> v, cmp |-> source[b].cmp]
    BY <2>1 DEF Init, Parsed
  <2>3. PICK q : q = source[b].insns
    OBVIOUS
  <2>4. q \in Seq(Fitting) /\ b \in DOMAIN source
    BY <1>2, <2>1, <2>3, Sizes DEF NB
  <2>5. v.n = Len(q) /\ \A c \in 0 .. Len(q) - 1 : v.buf[c] = q[c + 1]
    <3>1. PICK s \in {2 ^ l : l \in 0 .. Len(q)} \cap Len(q) + 1 .. 2 * Len(q) + 1 :
            v = [n |-> Len(q), s |-> s,
                 buf |-> [c \in 0 .. s - 1 |-> IF c < Len(q) THEN q[c + 1] ELSE Junk]]
      BY <2>2, <2>3 DEF Appended
    <3>2. s \in Nat /\ Len(q) \in Nat /\ Len(q) < s
      BY <2>4
    <3>3. /\ v.n = Len(q)
          /\ v.buf = [c \in 0 .. s - 1 |-> IF c < Len(q) THEN q[c + 1] ELSE Junk]
      BY <3>1
    <3>4. \A c \in 0 .. Len(q) - 1 : c \in 0 .. s - 1 /\ c < Len(q)
      BY <3>2
    <3>. QED  BY <3>3, <3>4
  <2>6. At(b, k) = q[k + 1] /\ k + 1 \in 1 .. Len(q)
    BY <2>1, <2>2, <2>4, <2>5 DEF At
  <2>7. PICK i : i = q[k + 1]
    OBVIOUS
  <2>8. i \in Insn
    BY <2>4, <2>6, <2>7 DEF Fitting
  <2>9. \A x \in {i.out} \cup ToSet(i.in) : Below(x, NTmps)
    <3>1. k + 1 \in DOMAIN source[b].insns
      BY <2>3, <2>4, <2>6
    <3>. QED  BY <1>2, <2>3, <2>4, <2>7, <3>1, FunctionsAssumption
  <2>10. i.in[1] \in ToSet(i.in) /\ i.in[2] \in ToSet(i.in)
    <3>1. i.in \in Val \X Val
      BY <2>8 DEF Insn
    <3>2. DOMAIN i.in = {1, 2}
      BY <3>1
    <3>. QED  BY <3>2 DEF ToSet
  <2>. QED  BY <1>1, <2>6, <2>7, <2>9, <2>10 DEF Older
<1>. QED  BY <1>1, <1>3, <1>4 DEF Addresses, Taken, Heeded, Ahead, OldRules

\* the instructions behind ii have only temporaries older than r
After(v, r) == \A c \in ii + 1 .. v.n - 1 : Older(v.buf[c], r)

\* the rules of the next state hold all there are now
MoreRules ==
  DOMAIN rules \subseteq DOMAIN rules' /\ \A n \in DOMAIN rules : rules'[n] = rules[n]

\* i is passed by a step of the loop
Passes(i) ==
  /\ \A n : TakesOf(i, n) => n \in DOMAIN rules'
  /\ \A n \in DOMAIN rules : Heeds(i, n, rules')

LEMMA StepAddresses ==
  ASSUME Inv, Addresses, Visiting, NEW v, NEW i, StartedWith(v, i), Stepped(v),
         Passes(i), After(v, ri'), MoreRules, OldRules(rules', ri')
  PROVE  Addresses'
<1>1. Blocks /\ Positions /\ Taken /\ Heeded /\ Ahead
  BY DEF Inv, Addresses
<1>2. /\ bi \in 1 .. NB /\ ii \in 0 .. body[bi].insns.n - 1 /\ body[bi].insns.n \in Nat
      /\ NB \in Nat
  BY <1>1, Current, Sizes DEF Blocks, NB
<1>3. NB' = NB /\ bi' = bi /\ ii' = ii + 1
  BY DEF Stepped, NB
<1>4. body' = [body EXCEPT ![bi] = [@ EXCEPT !.insns = v]]
  BY DEF Stepped, Put
<1>5. /\ body'[bi] = [body[bi] EXCEPT !.insns = v]
      /\ \A b \in 1 .. NB : b # bi => body'[b] = body[b]
  BY <1>1, <1>2, <1>4 DEF Blocks
<1>6. body'[bi].insns = v
  BY <1>1, <1>2, <1>5 DEF Blocks
<1>7. v.n \in Nat /\ ii < v.n /\ v.buf[ii] = i
      /\ \A c \in 0 .. ii - 1 : v.buf[c] = body[bi].insns.buf[c]
  BY DEF StartedWith, Started, IsVec
<1>8. ASSUME NEW b, NEW k, Seen(b, k)'
      PROVE  (Seen(b, k) /\ At(b, k)' = At(b, k)) \/ (b = bi /\ k = ii /\ At(b, k)' = i)
  <2>1. b \in 1 .. NB /\ k \in 0 .. body'[b].insns.n - 1 /\ (b < bi \/ (b = bi /\ k < ii + 1))
    BY <1>3, <1>8 DEF Seen
  <2>2. CASE b # bi
    <3>1. body'[b] = body[b] /\ b < bi
      BY <2>1, <2>2, <1>5
    <3>. QED  BY <2>1, <3>1 DEF Seen, At
  <2>3. CASE b = bi /\ k = ii
    BY <2>3, <1>6, <1>7 DEF At
  <2>4. CASE b = bi /\ k # ii
    <3>1. k \in 0 .. ii - 1 /\ k \in 0 .. body[bi].insns.n - 1
      BY <2>1, <2>4, <1>2, <1>6, <1>7
    <3>2. At(b, k)' = At(b, k)
      BY <3>1, <2>4, <1>6, <1>7 DEF At
    <3>3. k < ii
      BY <3>1, <1>2
    <3>4. Seen(b, k)
      BY <3>1, <3>3, <2>1, <2>4 DEF Seen
    <3>. QED  BY <3>2, <3>4
  <2>. QED  BY <2>2, <2>3, <2>4
<1>9. Taken'
  <2>. SUFFICES ASSUME NEW b, NEW k, NEW n, Seen(b, k)', TakesOf(At(b, k)', n)
                PROVE  n \in DOMAIN rules'
    BY DEF Taken, TakesOf
  <2>. QED  BY <1>1, <1>8 DEF Taken, Passes, MoreRules
<1>10. Heeded'
  <2>. SUFFICES ASSUME NEW b, NEW k, NEW c, NEW j, NEW n,
                       Seen(b, k)', Seen(c, j)', Earlier(c, j, b, k), TakesOf(At(c, j)', n)
                PROVE  Heeds(At(b, k)', n, rules')
    BY DEF Heeded, TakesOf, Heeds, Earlier
  <2>1. Seen(c, j) /\ At(c, j)' = At(c, j)
    <3>1. ~(c = bi /\ j = ii)
      <4>1. b \in 1 .. NB /\ k \in Int /\ b <= bi /\ (b = bi => k <= ii)
        BY <1>2, <1>8 DEF Seen
      <4>. QED  BY <4>1, <1>2 DEF Earlier
    <3>. QED  BY <1>8, <3>1
  <2>2. n \in DOMAIN rules
    BY <2>1, <1>1 DEF Taken
  <2>3. CASE Seen(b, k) /\ At(b, k)' = At(b, k)
    <3>1. Heeds(At(b, k), n, rules)
      BY <2>1, <2>3, <1>1 DEF Heeded
    <3>2. Heeds(At(b, k), n, rules')
      BY <3>1, HeedsMore DEF MoreRules
    <3>. QED  BY <2>3, <3>2
  <2>4. CASE b = bi /\ k = ii /\ At(b, k)' = i
    BY <2>2, <2>4 DEF Passes
  <2>. QED  BY <1>8, <2>3, <2>4
<1>11. Ahead'
  <2>. SUFFICES ASSUME NEW b, NEW k, Unseen(b, k)'
                PROVE  Older(At(b, k)', ri')
    BY DEF Ahead, Older, Below
  <2>1. b \in 1 .. NB /\ k \in 0 .. body'[b].insns.n - 1 /\ ~(b < bi \/ (b = bi /\ k < ii + 1))
    BY <1>3 DEF Unseen
  <2>2. CASE b = bi
    <3>1. k \in ii + 1 .. v.n - 1 /\ At(b, k)' = v.buf[k]
      BY <2>1, <2>2, <1>2, <1>6, <1>7 DEF At
    <3>. QED  BY <3>1 DEF After
  <2>3. CASE b # bi
    <3>1. body'[b] = body[b] /\ IsVec(body[b].insns, Fitting)
      BY <2>1, <2>3, <1>1, <1>5 DEF Blocks
    <3>2. Unseen(b, k) /\ At(b, k)' = At(b, k)
      BY <2>1, <2>3, <3>1 DEF Unseen, At
    <3>3. At(b, k) \in Insn
      BY <2>1, <3>1 DEF At, IsVec, Fitting
    <3>4. ri \in Nat /\ ri' \in Nat /\ ri <= ri'
      BY <1>1 DEF Positions, Stepped
    <3>5. Older(At(b, k), ri)
      BY <3>2, <1>1 DEF Ahead
    <3>6. Older(At(b, k), ri')
      BY <3>3, <3>4, <3>5, OlderMore
    <3>. QED  BY <3>2, <3>6
  <2>. QED  BY <2>2, <2>3
<1>12. OldRules(rules, ri)'
  BY DEF OldRules, Below
<1>. QED  BY <1>9, <1>10, <1>11, <1>12 DEF Addresses

LEMMA AssignedAfter ==
  ASSUME ii \in Nat, NEW v, Started(v), NEW i \in Fitting, NEW r, After(v, r)
  PROVE  After(Assigned(v, ii, i), r)
<1>1. PICK w : w = Assigned(v, ii, i)
  OBVIOUS
<1>2. IsVec(v, Fitting) /\ ii \in 0 .. v.n - 1 /\ v.n \in Nat
  BY DEF Started, IsVec
<1>3. w.n = v.n /\ \A c \in 0 .. v.n - 1 : w.buf[c] = IF c = ii THEN i ELSE v.buf[c]
  BY <1>1, <1>2, AssignedVec
<1>4. \A c \in ii + 1 .. v.n - 1 : w.buf[c] = v.buf[c]
  BY <1>2, <1>3
<1>5. After(w, r)
  BY <1>3, <1>4 DEF After
<1>. QED  BY <1>1, <1>5

\* the new instruction comes before i, or just after it
LEMMA InsertedAfter ==
  ASSUME ii \in Nat, NEW v, Started(v), NEW i \in Fitting, NEW new \in Fitting,
         NEW r, After(v, r)
  PROVE  /\ Older(i, r) => After(Inserted(v, i, new, ii), r)
         /\ Older(new, r) => After(Inserted(v, i, new, ii + 1), r)
<1>1. PICK a : a = Assigned(v, ii, i)
  OBVIOUS
<1>2. StartedWith(a, i) /\ After(a, r)
  BY <1>1, AssignedStarted, AssignedAfter
<1>3. IsVec(a, Fitting) /\ ii < a.n /\ a.n \in Nat /\ a.buf[ii] = i
  BY <1>2 DEF Started, StartedWith, IsVec
<1>4. ASSUME Older(i, r) PROVE After(vec_insert(a, new, ii), r)
  <2>1. PICK w : w = vec_insert(a, new, ii)
    OBVIOUS
  <2>2. PutIn(w, a, new, ii, Fitting)
    BY <1>3, <2>1, InsertVec
  <2>3. \A c \in ii + 1 .. w.n - 1 :
          w.buf[c] = a.buf[c - 1] /\ (c - 1 = ii \/ c - 1 \in ii + 1 .. a.n - 1)
    BY <1>3, <2>2 DEF PutIn
  <2>4. After(w, r)
    BY <1>2, <1>3, <1>4, <2>3 DEF After
  <2>. QED  BY <2>1, <2>4
<1>5. ASSUME Older(new, r) PROVE After(vec_insert(a, new, ii + 1), r)
  <2>1. PICK w : w = vec_insert(a, new, ii + 1)
    OBVIOUS
  <2>2. PutIn(w, a, new, ii + 1, Fitting)
    BY <1>3, <2>1, InsertVec
  <2>3. \A c \in ii + 1 .. w.n - 1 :
          IF c = ii + 1 THEN w.buf[c] = new
          ELSE w.buf[c] = a.buf[c - 1] /\ c - 1 \in ii + 1 .. a.n - 1
    BY <1>3, <2>2 DEF PutIn
  <2>4. After(w, r)
    BY <1>2, <1>3, <1>5, <2>3 DEF After
  <2>. QED  BY <2>1, <2>4
<1>. QED  BY <1>1, <1>4, <1>5 DEF Inserted

\* what is met at ii, and behind it
LEMMA Met ==
  ASSUME Inv, Addresses, Visiting, NEW r \in Nat, ri <= r
  PROVE  /\ Older(Cur, ri) /\ Older(Cur, r)
         /\ Started(body[bi].insns) /\ After(body[bi].insns, r)
<1>1. Blocks /\ Positions /\ Ahead
  BY DEF Inv, Addresses
<1>2. /\ bi \in 1 .. NB /\ ii \in 0 .. body[bi].insns.n - 1 /\ body[bi].insns.n \in Nat
      /\ IsVec(body[bi].insns, Fitting) /\ Cur = body[bi].insns.buf[ii]
      /\ NB \in Nat /\ ri \in Nat
  BY <1>1, Current, Sizes DEF Blocks, NB, Positions
<1>3. ASSUME NEW k \in ii .. body[bi].insns.n - 1
      PROVE  Older(body[bi].insns.buf[k], ri) /\ Older(body[bi].insns.buf[k], r)
  <2>1. Unseen(bi, k) /\ k \in 0 .. body[bi].insns.n - 1
    BY <1>2 DEF Unseen
  <2>2. Older(body[bi].insns.buf[k], ri)
    BY <1>1, <2>1 DEF Ahead, At
  <2>3. body[bi].insns.buf[k] \in Insn
    BY <1>2, <2>1 DEF IsVec, Fitting
  <2>. QED  BY <1>2, <2>2, <2>3, OlderMore
<1>4. ii \in ii .. body[bi].insns.n - 1
  BY <1>2
<1>5. Older(Cur, ri) /\ Older(Cur, r)
  BY <1>2, <1>3, <1>4
<1>6. \A k \in ii + 1 .. body[bi].insns.n - 1 : k \in ii .. body[bi].insns.n - 1
  BY <1>2
<1>7. After(body[bi].insns, r)
  BY <1>3, <1>6 DEF After
<1>8. Started(body[bi].insns)
  BY <1>2 DEF Started
<1>. QED  BY <1>5, <1>7, <1>8

\* store_rewrite() changes what the instruction at ii writes to
Leaves(i) ==
  /\ i.type = Cur.type /\ i.in = Cur.in
  /\ i.out = IF InMemory(Cur.out) THEN Tmp(ri) ELSE Cur.out

\* an instruction that the pass makes has no temporaries but its own
LEMMA OpOlder ==
  ASSUME NEW type, NEW n \in Nat, NEW a \in Val, NEW r \in Nat, Below(a, r),
         type = "store" \/ n < r
  PROVE  Older(Op(type, Tmp(n), a, None), r)
BY DEF Older, Op, Below, Tmp, IsTmp, None

\* an operand replaced by a fresh temporary
LEMMA InOlder ==
  ASSUME ri \in Nat, NEW i \in Fitting, NEW k \in {1, 2}, Older(i, ri + 1)
  PROVE  Older([i EXCEPT !.in[k] = Tmp(ri)], ri + 1)
<1>1. i \in Insn /\ i.in \in Val \X Val
  BY DEF Fitting, Insn
<1>2. PICK q : q = [i.in EXCEPT ![k] = Tmp(ri)]
  OBVIOUS
<1>3. \A l \in {1, 2} : q[l] = IF l = k THEN Tmp(ri) ELSE i.in[l]
  BY <1>1, <1>2
<1>4. Below(Tmp(ri), ri + 1)
  BY DEF Below, Tmp
<1>5. Below(q[1], ri + 1) /\ Below(q[2], ri + 1)
  BY <1>3, <1>4 DEF Older
<1>6. PICK j : j = [i EXCEPT !.in = q]
  OBVIOUS
<1>7. j.type = i.type /\ j.out = i.out /\ j.in = q
  BY <1>1, <1>6 DEF Insn
<1>8. [i EXCEPT !.in[k] = Tmp(ri)] = j
  BY <1>2, <1>6
<1>. QED  BY <1>5, <1>7, <1>8 DEF Older

LEMMA StoredLeaves ==
  ASSUME Inv, Addresses, Visiting, NEW r \in Nat, ri <= r
  PROVE  /\ Started(Stored) /\ After(Stored, r)
         /\ \E i : Leaves(i) /\ StartedWith(Stored, i)
<1>1. Blocks /\ Positions /\ Rules /\ OldRules(rules, ri)
  BY DEF Inv, Addresses
<1>2. /\ Cur \in Fitting /\ ri \in Nat /\ ii \in Nat
      /\ Cur = body[bi].insns.buf[ii]
      /\ Started(body[bi].insns) /\ After(body[bi].insns, r)
  BY <1>1, Current, Met DEF Positions
<1>3. CASE ~InMemory(Cur.out)
  BY <1>2, <1>3 DEF Stored, Leaves, StartedWith
<1>4. CASE InMemory(Cur.out)
  <2>1. PICK i : i = [Cur EXCEPT !.out = Tmp(ri)]
    OBVIOUS
  <2>2. i \in Fitting /\ i.type = Cur.type /\ i.in = Cur.in /\ i.out = Tmp(ri)
    BY <1>2, <2>1, OutFits
  <2>3. PICK a : a = rules[Cur.out[2]]
    OBVIOUS
  <2>4. a \in Val /\ Below(a, r)
    <3>1. a \in Val /\ Below(a, ri)
      BY <1>1, <1>4, <2>3 DEF InMemory, Rules, OldRules
    <3>. QED  BY <1>2, <3>1, BelowMore
  <2>5. PICK new : new = Op("store", Tmp(ri), a, None)
    OBVIOUS
  <2>6. new \in Fitting /\ Older(new, r)
    BY <1>2, <2>4, <2>5, OpFits, OpOlder
  <2>7. Stored = Inserted(body[bi].insns, i, new, ii + 1)
    BY <1>4, <2>1, <2>3, <2>5 DEF Stored
  <2>8. StartedWith(Stored, i) /\ After(Stored, r)
    BY <1>2, <2>2, <2>6, <2>7, InsertedStarted, InsertedAfter
  <2>9. Leaves(i)
    BY <1>4, <2>2 DEF Leaves
  <2>. QED  BY <2>8, <2>9 DEF StartedWith
<1>. QED  BY <1>3, <1>4

LEMMA SameRules ==
  ASSUME Inv, Addresses, rules' = rules, ri' \in {ri, ri + 1}
  PROVE  MoreRules /\ OldRules(rules', ri')
<1>1. ri \in Nat /\ ri' \in Nat /\ ri <= ri'
  BY DEF Inv, Positions
<1>2. OldRules(rules, ri')
  BY <1>1, RulesMore DEF Inv, Addresses
<1>. QED  BY <1>2 DEF MoreRules

\* what the pass inserts before the current instruction heeds every address
LEMMA OpPasses ==
  ASSUME Inv, Addresses, rules' = rules,
         NEW type, NEW a \in Val, NEW i, i = Op(type, Tmp(ri), a, None),
         \/ type = "load" /\ \E m \in DOMAIN rules : rules[m] = a
         \/ type \in {"addr", "copy"} /\ ~IsTmp(a)
  PROVE  Passes(i)
<1>1. i.type = type /\ i.out = Tmp(ri) /\ i.in[1] = a /\ i.in[2] = None
  BY DEF Op
<1>2. \A n : Tmp(n) # None
  BY DEF Tmp, None
<1>3. \A n \in DOMAIN rules : Tmp(n) # Tmp(ri)
  BY DEF Inv, Positions, Addresses, OldRules, Tmp
<1>4. \A n : ~TakesOf(i, n)
  BY <1>1 DEF TakesOf, Tmp, IsTmp
<1>5. \A n : i.in[1] = Tmp(n) => i.type = "load" /\ Address(rules, n)
  BY <1>1 DEF Tmp, IsTmp, Address
<1>. QED  BY <1>1, <1>2, <1>3, <1>4, <1>5 DEF Passes, Heeds

LEMMA LoadRewriteAddresses == Inv /\ Addresses /\ LoadRewrite => Addresses'
<1>. SUFFICES ASSUME Inv, Addresses, LoadRewrite PROVE Addresses'
  OBVIOUS
<1>1. Visiting /\ Blocks /\ Positions /\ Rules
  BY DEF LoadRewrite, Inv
<1>2. PICK k \in {1, 2} :
        /\ InMemory(Cur.in[k])
        /\ Put(Inserted(body[bi].insns, [Cur EXCEPT !.in[k] = Tmp(ri)],
                        Op("load", Tmp(ri), rules[Cur.in[k][2]], None), ii))
  BY DEF LoadRewrite
<1>3. PICK i : i = [Cur EXCEPT !.in[k] = Tmp(ri)]
  OBVIOUS
<1>4. PICK a : a = rules[Cur.in[k][2]]
  OBVIOUS
<1>5. PICK new : new = Op("load", Tmp(ri), a, None)
  OBVIOUS
<1>6. PICK v : v = Inserted(body[bi].insns, i, new, ii)
  OBVIOUS
<1>7. Stepped(v) /\ ri' = ri + 1 /\ rules' = rules
  BY <1>2, <1>3, <1>4, <1>5, <1>6 DEF LoadRewrite, Stepped
<1>8. /\ ri \in Nat /\ ri + 1 \in Nat /\ ri <= ri + 1 /\ ii \in Nat
      /\ Cur \in Fitting /\ a \in Val /\ \E m \in DOMAIN rules : rules[m] = a
  BY <1>1, <1>2, <1>4, Current DEF Positions, Rules, InMemory
<1>9. i \in Fitting /\ new \in Fitting
  BY <1>3, <1>5, <1>8, InFits, OpFits
<1>10. Older(Cur, ri + 1) /\ Started(body[bi].insns) /\ After(body[bi].insns, ri + 1)
  BY <1>1, <1>8, Met
<1>11. Older(i, ri + 1)
  BY <1>3, <1>8, <1>10, InOlder
<1>12. StartedWith(v, new) /\ After(v, ri')
  BY <1>6, <1>7, <1>8, <1>9, <1>10, <1>11, InsertedStarted, InsertedAfter
<1>13. Passes(new)
  BY <1>5, <1>7, <1>8, OpPasses
<1>14. MoreRules /\ OldRules(rules', ri')
  BY <1>7, SameRules
<1>. QED  BY <1>1, <1>7, <1>12, <1>13, <1>14, StepAddresses

LEMMA SpillAddresses ==
  ASSUME Inv, Addresses, Loaded, NEW type \in {"addr", "copy"}, NEW k \in {1, 2},
         SpillWith(type, k), ~IsTmp(Cur.in[k])
  PROVE  Addresses'
<1>1. Visiting /\ Blocks /\ Positions
  BY DEF Loaded, Inv
<1>2. PICK i : i = [Cur EXCEPT !.in[k] = Tmp(ri)]
  OBVIOUS
<1>3. PICK a : a = Cur.in[k]
  OBVIOUS
<1>4. PICK new : new = Op(type, Tmp(ri), a, None)
  OBVIOUS
<1>5. PICK v : v = Inserted(Stored, i, new, ii)
  OBVIOUS
<1>6. Stepped(v) /\ ri' = ri + 1 /\ rules' = rules
  BY <1>2, <1>3, <1>4, <1>5 DEF SpillWith, Stepped
<1>7. /\ ri \in Nat /\ ri + 1 \in Nat /\ ri <= ri + 1 /\ ii \in Nat
      /\ Cur \in Fitting /\ a \in Val
  BY <1>1, <1>3, Current DEF Positions, Fitting, Insn
<1>8. i \in Fitting /\ new \in Fitting
  BY <1>2, <1>4, <1>7, InFits, OpFits
<1>9. Older(Cur, ri + 1)
  BY <1>1, <1>7, Met
<1>10. Older(i, ri + 1)
  BY <1>2, <1>7, <1>9, InOlder
<1>11. Started(Stored) /\ After(Stored, ri + 1)
  BY <1>1, <1>7, StoredLeaves
<1>12. StartedWith(v, new) /\ After(v, ri')
  BY <1>5, <1>6, <1>7, <1>8, <1>10, <1>11, InsertedStarted, InsertedAfter
<1>13. Passes(new)
  BY <1>3, <1>4, <1>6, <1>7, OpPasses
<1>14. MoreRules /\ OldRules(rules', ri')
  BY <1>6, SameRules
<1>. QED  BY <1>1, <1>6, <1>12, <1>13, <1>14, StepAddresses

LEMMA SpillRefAddresses == Inv /\ Addresses /\ SpillRef => Addresses'
<1>. SUFFICES ASSUME Inv, Addresses, SpillRef PROVE Addresses'
  OBVIOUS
<1>1. PICK k \in {1, 2} : RefAt(k) /\ SpillWith("addr", k)
  BY DEF SpillRef
<1>2. ~IsTmp(Cur.in[k])
  BY <1>1 DEF RefAt, IsRef, IsTmp
<1>. QED  BY <1>1, <1>2, SpillAddresses DEF SpillRef

LEMMA SpillImmAddresses == Inv /\ Addresses /\ SpillImm => Addresses'
<1>. SUFFICES ASSUME Inv, Addresses, SpillImm PROVE Addresses'
  OBVIOUS
<1>1. PICK k \in {1, 2} : IsImm(Cur.in[k]) /\ SpillWith("copy", k)
  BY DEF SpillImm, NoImm
<1>2. ~IsTmp(Cur.in[k])
  BY <1>1 DEF IsImm, IsTmp
<1>. QED  BY <1>1, <1>2, SpillAddresses DEF SpillImm

\* what is left after load_rewrite() and store_rewrite() names no temporary
\* that is in memory
LEMMA LeavesNone ==
  ASSUME Inv, Addresses, Loaded, NEW i, Leaves(i), NEW n \in DOMAIN rules
  PROVE  i.in[1] # Tmp(n) /\ i.in[2] # Tmp(n) /\ i.out # Tmp(n)
<1>1. InMemory(Tmp(n))
  BY DEF InMemory, IsTmp, Tmp
<1>2. ~InMemory(Cur.in[1]) /\ ~InMemory(Cur.in[2])
  BY DEF Loaded
<1>3. Tmp(n) # Tmp(ri)
  BY DEF Inv, Positions, Addresses, OldRules, Tmp
<1>4. i.in = Cur.in /\ i.out = IF InMemory(Cur.out) THEN Tmp(ri) ELSE Cur.out
  BY DEF Leaves
<1>. QED  BY <1>1, <1>2, <1>3, <1>4

LEMMA SwapAddresses == Inv /\ Addresses /\ Swap => Addresses'
<1>. SUFFICES ASSUME Inv, Addresses, Swap PROVE Addresses'
  OBVIOUS
<1>1. Visiting /\ Blocks /\ Positions /\ Swaps /\ Loaded
  BY DEF Swap, Loaded, Inv
<1>2. PICK q : q = <<Cur.in[2], Cur.in[1]>>
  OBVIOUS
<1>3. PICK i : i = [Cur EXCEPT !.in = q]
  OBVIOUS
<1>4. PICK v : v = Assigned(Stored, ii, i)
  OBVIOUS
<1>5. Stepped(v) /\ ri' = ri /\ rules' = rules
  BY <1>2, <1>3, <1>4 DEF Swap, Stepped
<1>6. ri \in Nat /\ ri <= ri /\ ii \in Nat /\ Cur \in Fitting
  BY <1>1, Current DEF Positions
<1>7. Cur.type = "arith" /\ IsImm(Cur.in[1])
  BY <1>1 DEF Swaps
<1>8. i \in Fitting /\ i.type = "arith" /\ i.in = q
  BY <1>2, <1>3, <1>6, <1>7, SwapFits
<1>9. Started(Stored) /\ After(Stored, ri)
  BY <1>1, <1>6, StoredLeaves
<1>10. StartedWith(v, i) /\ After(v, ri')
  BY <1>4, <1>5, <1>6, <1>8, <1>9, AssignedStarted, AssignedAfter
<1>11. Passes(i)
  <2>1. \A n : ~TakesOf(i, n)
    BY <1>8 DEF TakesOf
  <2>2. i.in[1] = Cur.in[2] /\ i.in[2] = Cur.in[1]
    BY <1>2, <1>8
  <2>3. \A n \in DOMAIN rules : InMemory(Tmp(n))
    BY DEF InMemory, IsTmp, Tmp
  <2>4. \A n \in DOMAIN rules : i.in[1] # Tmp(n) /\ i.in[2] # Tmp(n)
    BY <1>1, <2>2, <2>3 DEF Loaded
  <2>. QED  BY <1>7, <1>8, <2>1, <2>2, <2>4 DEF Passes, Heeds
<1>12. MoreRules /\ OldRules(rules', ri')
  BY <1>5, SameRules
<1>. QED  BY <1>1, <1>5, <1>10, <1>11, <1>12, StepAddresses

LEMMA TakeAddressAddresses == Inv /\ Addresses /\ TakeAddress => Addresses'
<1>. SUFFICES ASSUME Inv, Addresses, TakeAddress PROVE Addresses'
  OBVIOUS
<1>1. Visiting /\ Blocks /\ Positions /\ Rules /\ Takes /\ Loaded /\ OldRules(rules, ri)
  BY DEF TakeAddress, Loaded, Inv, Addresses
<1>2. PICK v : v = Stored
  OBVIOUS
<1>3. PICK m : m = Cur.in[1][2]
  OBVIOUS
<1>4. PICK o : o = Cur.out
  OBVIOUS
<1>5. Stepped(v) /\ ri' = ri
  BY <1>2 DEF TakeAddress, Stepped
<1>6. rules' = [n \in DOMAIN rules \cup {m} |-> IF n = m THEN o ELSE rules[n]]
  BY <1>3, <1>4 DEF TakeAddress
<1>7. ri \in Nat /\ ri <= ri /\ Cur \in Fitting
  BY <1>1, Current DEF Positions
<1>8. Cur.type = "addr" /\ IsTmp(Cur.in[1]) /\ Cur.in[1] \in Val
  BY <1>1, <1>7 DEF Takes, Fitting, Insn
<1>9. m \in Nat /\ m < ri /\ m \notin DOMAIN rules /\ Below(o, ri)
  <2>1. Older(Cur, ri)
    BY <1>1, <1>7, Met
  <2>2. m \in Nat
    BY <1>3, <1>8 DEF Val, IsTmp, None
  <2>. QED  BY <1>1, <1>3, <1>4, <1>8, <2>1, <2>2 DEF Older, Below, Loaded, InMemory
<1>10. MoreRules
  BY <1>6, <1>9 DEF MoreRules
<1>11. OldRules(rules', ri')
  BY <1>1, <1>5, <1>6, <1>9 DEF OldRules
<1>12. After(Stored, ri) /\ \E i : Leaves(i) /\ StartedWith(Stored, i)
  BY <1>1, <1>7, StoredLeaves
<1>13. PICK i : Leaves(i) /\ StartedWith(Stored, i)
  BY <1>12
<1>14. Passes(i)
  <2>1. \A n \in DOMAIN rules : Heeds(i, n, rules')
    BY <1>1, <1>13, LeavesNone DEF Heeds
  <2>2. ASSUME NEW n, TakesOf(i, n) PROVE n \in DOMAIN rules'
    <3>1. Tmp(n) = Cur.in[1]
      BY <1>13, <2>2 DEF TakesOf, Leaves
    <3>2. n = m
      BY <1>3, <3>1 DEF Tmp
    <3>. QED  BY <1>6, <3>2
  <2>. QED  BY <2>1, <2>2 DEF Passes
<1>15. StartedWith(v, i) /\ After(v, ri')
  BY <1>2, <1>5, <1>12, <1>13
<1>. QED  BY <1>1, <1>5, <1>10, <1>11, <1>14, <1>15, StepAddresses

LEMMA KeepAddresses == Inv /\ Addresses /\ Keep => Addresses'
<1>. SUFFICES ASSUME Inv, Addresses, Keep PROVE Addresses'
  OBVIOUS
<1>1. Visiting /\ Blocks /\ Positions /\ Loaded /\ ~Takes
  BY DEF Keep, Loaded, Inv
<1>2. PICK v : v = Stored
  OBVIOUS
<1>3. Stepped(v) /\ ri' = ri /\ rules' = rules
  BY <1>2 DEF Keep, Stepped
<1>4. ri \in Nat /\ ri <= ri
  BY <1>1 DEF Positions
<1>5. After(Stored, ri) /\ \E i : Leaves(i) /\ StartedWith(Stored, i)
  BY <1>1, <1>4, StoredLeaves
<1>6. PICK i : Leaves(i) /\ StartedWith(Stored, i)
  BY <1>5
<1>7. Passes(i)
  <2>1. \A n \in DOMAIN rules : Heeds(i, n, rules')
    BY <1>1, <1>6, LeavesNone DEF Heeds
  <2>2. \A n : ~TakesOf(i, n)
    BY <1>1, <1>6 DEF TakesOf, Leaves, Takes, IsTmp, Tmp
  <2>. QED  BY <2>1, <2>2 DEF Passes
<1>8. StartedWith(v, i) /\ After(v, ri')
  BY <1>2, <1>3, <1>5, <1>6
<1>9. MoreRules /\ OldRules(rules', ri')
  BY <1>3, SameRules
<1>. QED  BY <1>1, <1>3, <1>7, <1>8, <1>9, StepAddresses

-----------------------------------------------------------------------------
(* The end of a block.                                                      *)

\* w starts with v, and what follows are copies into fresh temporaries
CopiesTo(w, v) ==
  /\ IsVec(w, Fitting) /\ v.n <= w.n
  /\ \A c \in 0 .. v.n - 1 : w.buf[c] = v.buf[c]
  /\ \A c \in v.n .. w.n - 1 :
       w.buf[c].type = "copy" /\ \E n \in Nat : n >= ri /\ w.buf[c].out = Tmp(n)

LEMMA LoadCopies ==
  ASSUME Positions, NEW v, IsVec(v, Fitting), NEW cmp \in Val \X Val, NEW k \in {1, 2}
  PROVE  CopiesTo(WithLoad(v, cmp, k), v)
<1>1. v.n \in Nat /\ ri \in Nat
  BY DEF IsVec, Positions
<1>2. CASE k \notin Loads(cmp)
  BY <1>1, <1>2 DEF WithLoad, CopiesTo
<1>3. CASE k \in Loads(cmp)
  <2>1. PICK i : i = Op("copy", LoadedTo(cmp, k), CmpCopied(cmp, k), None)
    OBVIOUS
  <2>2. i \in Fitting
    BY <1>3, <2>1, CopyFits
  <2>3. i.type = "copy" /\ i.out = LoadedTo(cmp, k)
    BY <2>1 DEF Op
  <2>4. \E n \in Nat : n >= ri /\ LoadedTo(cmp, k) = Tmp(n)
    BY <1>1 DEF LoadedTo
  <2>5. PICK w : w = vec_append(v, i)
    OBVIOUS
  <2>6. PutIn(w, v, i, v.n, Fitting)
    BY <2>2, <2>5, AppendVec
  <2>7. \A c \in v.n .. w.n - 1 : w.buf[c] = i
    BY <1>1, <2>6 DEF PutIn
  <2>8. CopiesTo(w, v)
    BY <1>1, <2>3, <2>4, <2>6, <2>7 DEF PutIn, CopiesTo
  <2>. QED  BY <1>3, <2>1, <2>5, <2>8 DEF WithLoad
<1>. QED  BY <1>2, <1>3

\* i is such a copy
CopyToFresh(i) == i.type = "copy" /\ \E n \in Nat : n >= ri /\ i.out = Tmp(n)

LEMMA EndBlockAddresses == Inv /\ Addresses /\ EndBlock => Addresses'
<1>. SUFFICES ASSUME Inv, Addresses, EndBlock PROVE Addresses'
  OBVIOUS
<1>1. /\ Blocks /\ Positions /\ Rules /\ Taken /\ Heeded /\ Ahead /\ OldRules(rules, ri)
      /\ bi \in 1 .. NB /\ NB \in Nat
  BY Sizes DEF EndBlock, Inv, Addresses, Blocks, NB
<1>2. PICK cmp : cmp = body[bi].cmp
  OBVIOUS
<1>3. PICK v : v = body[bi].insns
  OBVIOUS
<1>4. /\ cmp \in Val \X Val /\ IsVec(v, Fitting) /\ v.n \in Nat
      /\ DOMAIN body[bi] = {"insns", "cmp"}
  BY <1>1, <1>2, <1>3 DEF Blocks, IsVec
<1>5. PICK u : u = WithLoad(v, cmp, 1)
  OBVIOUS
<1>6. PICK w : w = WithLoad(u, cmp, 2)
  OBVIOUS
<1>7. CopiesTo(u, v)
  BY <1>1, <1>4, <1>5, LoadCopies
<1>8. CopiesTo(w, u)
  <2>1. IsVec(u, Fitting)
    BY <1>7 DEF CopiesTo
  <2>. QED  BY <1>1, <1>4, <1>6, <2>1, LoadCopies
<1>9. u.n \in Nat /\ w.n \in Nat
  BY <1>7, <1>8 DEF CopiesTo, IsVec
<1>10. PICK new : new = CmpTmps(cmp)
  OBVIOUS
<1>11. body' = [body EXCEPT ![bi].insns = w, ![bi].cmp = new]
  BY <1>2, <1>3, <1>5, <1>6, <1>10 DEF EndBlock
<1>12. body'[bi].insns = w /\ \A b \in 1 .. NB : b # bi => body'[b] = body[b]
  <2>1. PICK b0 : b0 = [[body[bi] EXCEPT !.insns = w] EXCEPT !.cmp = new]
    OBVIOUS
  <2>2. b0.insns = w
    BY <1>4, <2>1
  <2>3. body'[bi] = b0 /\ \A b \in 1 .. NB : b # bi => body'[b] = body[b]
    BY <1>1, <1>11, <2>1 DEF Blocks
  <2>. QED  BY <2>2, <2>3
<1>13. NB' = NB /\ bi' = bi + 1 /\ ii' = 0 /\ rules' = rules
  BY DEF EndBlock, NB
<1>14. ri \in Nat /\ ri' \in Nat /\ ri <= ri'
  BY <1>1 DEF EndBlock, Positions
<1>15. v.n <= ii /\ ii \in Nat
  BY <1>1, <1>3, <1>4 DEF EndBlock, Visiting, vec_len, Positions
<1>16. ASSUME NEW b, NEW k, Seen(b, k)'
       PROVE  (Seen(b, k) /\ At(b, k)' = At(b, k)) \/ CopyToFresh(At(b, k)')
  <2>1. b \in 1 .. NB /\ k \in 0 .. body'[b].insns.n - 1 /\ (b < bi + 1 \/ (b = bi + 1 /\ k < 0))
    BY <1>13, <1>16 DEF Seen
  <2>2. CASE b = bi
    <3>1. k \in 0 .. w.n - 1 /\ At(b, k)' = w.buf[k]
      BY <2>1, <2>2, <1>12 DEF At
    <3>2. CASE k \in 0 .. v.n - 1
      <4>1. k \in 0 .. u.n - 1
        BY <3>2, <1>4, <1>7, <1>9 DEF CopiesTo
      <4>2. w.buf[k] = v.buf[k]
        BY <3>2, <4>1, <1>7, <1>8 DEF CopiesTo
      <4>3. k < ii /\ Seen(b, k)
        BY <3>2, <2>2, <1>1, <1>3, <1>4, <1>15 DEF Seen
      <4>. QED  BY <2>2, <3>1, <4>2, <4>3, <1>3 DEF At
    <3>3. CASE k \in v.n .. u.n - 1
      <4>1. w.buf[k] = u.buf[k]
        BY <3>3, <1>4, <1>8, <1>9 DEF CopiesTo
      <4>. QED  BY <3>1, <3>3, <4>1, <1>7 DEF CopiesTo, CopyToFresh
    <3>4. CASE k \in u.n .. w.n - 1
      BY <3>1, <3>4, <1>8 DEF CopiesTo, CopyToFresh
    <3>5. k \in 0 .. v.n - 1 \/ k \in v.n .. u.n - 1 \/ k \in u.n .. w.n - 1
      BY <3>1, <1>4, <1>9
    <3>. QED  BY <3>2, <3>3, <3>4, <3>5
  <2>3. CASE b # bi
    <3>1. body'[b] = body[b] /\ IsVec(body[b].insns, Fitting)
      BY <2>1, <2>3, <1>1, <1>12 DEF Blocks
    <3>2. b < bi
      BY <2>1, <2>3, <1>1, <3>1 DEF IsVec
    <3>. QED  BY <2>1, <3>1, <3>2 DEF Seen, At
  <2>. QED  BY <2>2, <2>3
<1>17. \A i, n : CopyToFresh(i) => ~TakesOf(i, n)
  BY DEF CopyToFresh, TakesOf
<1>18. \A i : \A n \in DOMAIN rules : CopyToFresh(i) => Heeds(i, n, rules)
  BY <1>1, <1>14 DEF CopyToFresh, Heeds, OldRules, Tmp
<1>19. Taken'
  <2>. SUFFICES ASSUME NEW b, NEW k, NEW n, Seen(b, k)', TakesOf(At(b, k)', n)
                PROVE  n \in DOMAIN rules'
    BY DEF Taken, TakesOf
  <2>. QED  BY <1>1, <1>13, <1>16, <1>17 DEF Taken
<1>20. Heeded'
  <2>. SUFFICES ASSUME NEW b, NEW k, NEW c, NEW j, NEW n,
                       Seen(b, k)', Seen(c, j)', Earlier(c, j, b, k), TakesOf(At(c, j)', n)
                PROVE  Heeds(At(b, k)', n, rules')
    BY DEF Heeded, TakesOf, Heeds, Earlier
  <2>1. Seen(c, j) /\ At(c, j)' = At(c, j)
    BY <1>16, <1>17
  <2>2. n \in DOMAIN rules
    BY <2>1, <1>1 DEF Taken
  <2>3. CASE Seen(b, k) /\ At(b, k)' = At(b, k)
    BY <2>1, <2>3, <1>1, <1>13 DEF Heeded
  <2>4. CASE CopyToFresh(At(b, k)')
    BY <2>2, <2>4, <1>13, <1>18
  <2>. QED  BY <1>16, <2>3, <2>4
<1>21. Ahead'
  <2>. SUFFICES ASSUME NEW b, NEW k, Unseen(b, k)'
                PROVE  Older(At(b, k)', ri')
    BY DEF Ahead, Older, Below
  <2>1. b \in 1 .. NB /\ k \in 0 .. body'[b].insns.n - 1 /\ ~(b < bi + 1)
    BY <1>13 DEF Unseen
  <2>2. b # bi /\ body'[b] = body[b] /\ IsVec(body[b].insns, Fitting)
    BY <2>1, <1>1, <1>12 DEF Blocks
  <2>3. Unseen(b, k) /\ At(b, k)' = At(b, k)
    BY <2>1, <2>2, <1>1 DEF Unseen, At
  <2>4. At(b, k) \in Insn
    BY <2>1, <2>2 DEF At, IsVec, Fitting
  <2>5. Older(At(b, k), ri)
    BY <2>3, <1>1 DEF Ahead
  <2>. QED  BY <2>3, <2>4, <2>5, <1>14, OlderMore
<1>22. OldRules(rules, ri)'
  <2>1. OldRules(rules, ri')
    BY <1>1, <1>14, RulesMore
  <2>. QED  BY <2>1, <1>13
<1>. QED  BY <1>19, <1>20, <1>21, <1>22 DEF Addresses

LEMMA NextAddresses == Inv /\ Addresses /\ [Next]_vars => Addresses'
<1>. SUFFICES ASSUME Inv, Addresses, [Next]_vars PROVE Addresses'
  OBVIOUS
<1>1. CASE Next
  BY <1>1, LoadRewriteAddresses, SpillRefAddresses, SpillImmAddresses, SwapAddresses,
     TakeAddressAddresses, KeepAddresses, EndBlockAddresses DEF Next
<1>2. CASE UNCHANGED vars
  <2>1. source' = source /\ body' = body /\ bi' = bi /\ ii' = ii /\ ri' = ri /\ rules' = rules
    BY <1>2 DEF vars
  <2>2. NB' = NB
    BY <2>1 DEF NB
  <2>3. Taken'
    BY <2>1, <2>2 DEF Addresses, Taken, Seen, At, TakesOf
  <2>4. Heeded'
    <3>. SUFFICES ASSUME NEW b, NEW k, NEW c, NEW j, NEW n,
                         Seen(b, k)', Seen(c, j)', Earlier(c, j, b, k), TakesOf(At(c, j)', n)
                  PROVE  Heeds(At(b, k)', n, rules')
      BY DEF Heeded, TakesOf, Heeds, Earlier
    <3>1. Seen(b, k) /\ Seen(c, j) /\ At(b, k)' = At(b, k) /\ At(c, j)' = At(c, j)
      BY <2>1, <2>2 DEF Seen, At
    <3>. QED  BY <2>1, <3>1 DEF Addresses, Heeded
  <2>5. Ahead'
    BY <2>1, <2>2 DEF Addresses, Ahead, Unseen, At, Older, Below
  <2>6. OldRules(rules, ri)'
    BY <2>1 DEF Addresses, OldRules, Below
  <2>. QED  BY <2>3, <2>4, <2>5, <2>6 DEF Addresses
<1>. QED  BY <1>1, <1>2

LEMMA AddressesAlways == Spec => []Addresses
BY InitInv, NextInv, InitAddresses, NextAddresses, PTL DEF Spec

\* the instructions passed after one that takes the address of n heed it
LEMMA PassedHeeds ==
  ASSUME Inv, Addresses, NEW n, NEW p \in PassedAfter(n)
  PROVE  Heeds(insn_at(p[1], p[2]), n, rules) /\ insn_at(p[1], p[2]) \in Insn
<1>. DEFINE visited == {q \in UNION {{b} \X (0 .. vec_len(body[b].insns) - 1) : b \in 1 .. NB} :
                          q[1] < bi \/ (q[1] = bi /\ q[2] < ii)}
<1>1. ASSUME NEW q \in visited PROVE Seen(q[1], q[2])
  <2>1. PICK b \in 1 .. NB : q \in {b} \X (0 .. vec_len(body[b].insns) - 1)
    OBVIOUS
  <2>2. q[1] = b /\ q[2] \in 0 .. body[b].insns.n - 1
    BY <2>1 DEF vec_len
  <2>. QED  BY <2>2 DEF Seen
<1>2. PICK q \in visited :
        /\ p \in visited
        /\ q[1] < p[1] \/ (q[1] = p[1] /\ q[2] < p[2])
        /\ insn_at(q[1], q[2]).type = "addr" /\ insn_at(q[1], q[2]).in[1] = Tmp(n)
  BY DEF PassedAfter
<1>3. Seen(p[1], p[2]) /\ Seen(q[1], q[2])
  BY <1>1, <1>2
<1>. HIDE DEF visited
<1>4. Heeds(At(p[1], p[2]), n, rules)
  BY <1>2, <1>3 DEF Addresses, Heeded, Earlier, TakesOf, At, insn_at, vec_at
<1>5. At(p[1], p[2]) \in Insn
  BY <1>3 DEF Inv, Blocks, Seen, At, IsVec, Fitting
<1>. QED  BY <1>4, <1>5 DEF At, insn_at, vec_at

(* However many addresses are taken and in whatever order, no instruction   *)
(* after one that takes the address of a temporary still reads it from a    *)
(* register, but for what the pass inserts itself (ReadFromMemory).         *)
THEOREM ReadsGoToMemory == Spec => []ReadFromMemory
<1>1. Inv /\ Addresses => ReadFromMemory
  <2>. SUFFICES ASSUME Inv, Addresses, NEW n \in DOMAIN rules, NEW p \in PassedAfter(n),
                       NEW i, i = insn_at(p[1], p[2]), Tmp(n) \in ToSet(i.in)
                PROVE  (i.type = "load" /\ Tmp(n) \in Range(rules)) \/ i.type = "copy"
    BY DEF ReadFromMemory
  <2>1. Heeds(i, n, rules) /\ i \in Insn
    BY PassedHeeds
  <2>2. i.in[1] = Tmp(n) \/ i.in[2] = Tmp(n)
    <3>1. i.in \in Val \X Val
      BY <2>1 DEF Insn
    <3>2. DOMAIN i.in = {1, 2}
      BY <3>1
    <3>. QED  BY <3>2 DEF ToSet
  <2>3. Address(rules, n) => Tmp(n) \in Range(rules)
    BY DEF Address, Range
  <2>. QED  BY <2>1, <2>2, <2>3 DEF Heeds
<1>. QED  BY <1>1, InvAlways, AddressesAlways, PTL

(* Nor does one write it to a register, but for an addition whose operands  *)
(* were exchanged (WrittenToMemory). This is why the temporaries that the   *)
(* pass makes up must be new, although store_rewrite() does not count its.  *)
THEOREM WritesGoToMemory == Spec => []WrittenToMemory
<1>1. Inv /\ Addresses => WrittenToMemory
  BY PassedHeeds DEF WrittenToMemory, Heeds
<1>. QED  BY <1>1, InvAlways, AddressesAlways, PTL

-----------------------------------------------------------------------------
(* What blocks compute. The state after a prefix of the instructions is     *)
(* told by its computation, so that it does not matter what follows.        *)

Initially(R) == [env |-> [n \in 0 .. R - 1 |-> <<"entry", n>>], reads |-> <<>>]

\* the states that the first k of the instructions c go through
Computes(f, c, k, R) ==
  f[0] = Initially(R) /\ \A j \in 1 .. k : f[j] = Executed(f[j - 1], c[j])

\* they lead to the state s
Leads(c, k, R, s) == \E f : Computes(f, c, k, R) /\ f[k] = s

LEMMA LeadsFirst ==
  ASSUME NEW c, NEW R PROVE Leads(c, 0, R, Initially(R))
<1>1. PICK f : f = [j \in {0} |-> Initially(R)]
  OBVIOUS
<1>2. f[0] = Initially(R)
  BY <1>1
<1>3. 1 .. 0 = {}
  OBVIOUS
<1>. QED  BY <1>2, <1>3 DEF Leads, Computes

LEMMA LeadsOn ==
  ASSUME NEW c, NEW k \in Nat, NEW R, NEW s, Leads(c, k, R, s)
  PROVE  Leads(c, k + 1, R, Executed(s, c[k + 1]))
<1>1. PICK f : /\ f[0] = Initially(R) /\ f[k] = s
               /\ \A j \in 1 .. k : f[j] = Executed(f[j - 1], c[j])
  BY DEF Leads, Computes
<1>2. PICK x : x = Executed(s, c[k + 1])
  OBVIOUS
<1>3. PICK g : g = [j \in 0 .. k + 1 |-> IF j = k + 1 THEN x ELSE f[j]]
  OBVIOUS
<1>4. g[0] = f[0] /\ g[k + 1] = x /\ \A j \in 0 .. k : g[j] = f[j]
  BY <1>3
<1>5. ASSUME NEW j \in 1 .. k + 1 PROVE g[j] = Executed(g[j - 1], c[j])
  <2>1. CASE j = k + 1
    <3>1. j - 1 = k /\ k \in 0 .. k
      BY <2>1
    <3>. QED  BY <1>1, <1>2, <1>4, <2>1, <3>1
  <2>2. CASE j # k + 1
    <3>1. j \in 1 .. k /\ j \in 0 .. k /\ j - 1 \in 0 .. k
      BY <2>2
    <3>. QED  BY <1>1, <1>4, <3>1
  <2>. QED  BY <2>1, <2>2
<1>6. g[0] = Initially(R)
  BY <1>1, <1>4
<1>. QED  BY <1>2, <1>4, <1>5, <1>6 DEF Leads, Computes

LEMMA LeadsSame ==
  ASSUME NEW c, NEW d, NEW k \in Nat, NEW R, NEW s, Leads(c, k, R, s),
         \A j \in 1 .. k : d[j] = c[j]
  PROVE  Leads(d, k, R, s)
BY DEF Leads, Computes

LEMMA LeadsOnce ==
  ASSUME NEW c, NEW k \in Nat, NEW R, NEW f, NEW g,
         Computes(f, c, k, R), Computes(g, c, k, R)
  PROVE  f[k] = g[k]
<1>. DEFINE Bad == {j \in 0 .. k : f[j] # g[j]}
<1>1. ASSUME Bad # {} PROVE FALSE
  <2>1. Bad \in SUBSET Nat
    OBVIOUS
  <2>2. PICK n \in Bad : \A m \in Bad : n <= m
    <3>. HIDE DEF Bad
    <3>. QED  BY <1>1, <2>1, LeastOf
  <2>6. n # 0
    BY <2>2 DEF Computes
  <2>3. n \in 1 .. k /\ n - 1 \in 0 .. k /\ ~(n <= n - 1)
    BY <2>2, <2>6
  <2>4. f[n - 1] = g[n - 1]
    BY <2>2, <2>3 DEF Computes
  <2>5. f[n] = g[n]
    BY <2>3, <2>4 DEF Computes
  <2>. QED  BY <2>2, <2>5
<1>2. k \in 0 .. k
  OBVIOUS
<1>. QED  BY <1>1, <1>2 DEF Computes

(* Run is where all the instructions lead.                                  *)
LEMMA RunIs ==
  ASSUME NEW b, Len(b.insns) \in Nat, NEW s, Leads(b.insns, Len(b.insns), ri, s)
  PROVE  Run(b) = s
<1>. DEFINE N == Len(b.insns)
            Unfold(f) == [k \in 0 .. N |->
                            IF k = 0 THEN [env |-> [n \in 0 .. ri - 1 |-> <<"entry", n>>], reads |-> <<>>]
                            ELSE Executed(f[k - 1], b.insns[k])]
            run == CHOOSE f : f = Unfold(f)
<1>1. Run(b) = run[N]
  BY DEF Run
<1>2. PICK f : /\ f[0] = Initially(ri) /\ f[N] = s
               /\ \A j \in 1 .. N : f[j] = Executed(f[j - 1], b.insns[j])
  BY DEF Leads, Computes
<1>3. PICK g : g = [k \in 0 .. N |-> f[k]]
  OBVIOUS
<1>4. g = Unfold(g)
  <2>1. ASSUME NEW k \in 0 .. N PROVE g[k] = Unfold(g)[k]
    <3>1. CASE k = 0
      BY <1>2, <1>3, <3>1 DEF Initially
    <3>2. CASE k # 0
      <4>1. k \in 1 .. N /\ k - 1 \in 0 .. N
        BY <3>2
      <4>2. g[k] = f[k] /\ g[k - 1] = f[k - 1]
        BY <1>3, <4>1
      <4>3. Unfold(g)[k] = Executed(g[k - 1], b.insns[k])
        BY <3>2
      <4>. QED  BY <1>2, <4>1, <4>2, <4>3
    <3>. QED  BY <3>1, <3>2
  <2>. HIDE DEF N
  <2>. QED  BY <1>3, <2>1
<1>5. run = Unfold(run)
  <2>. HIDE DEF Unfold
  <2>. QED  BY <1>4
<1>6. run[0] = Initially(ri) /\ \A j \in 1 .. N : run[j] = Executed(run[j - 1], b.insns[j])
  <2>. HIDE DEF run
  <2>1. 0 \in 0 .. N /\ \A j \in 1 .. N : j \in 0 .. N /\ j # 0
    OBVIOUS
  <2>2. run[0] = Initially(ri)
    BY <1>5, <2>1 DEF Initially
  <2>3. ASSUME NEW j \in 1 .. N PROVE run[j] = Executed(run[j - 1], b.insns[j])
    BY <1>5, <2>1
  <2>. QED  BY <2>2, <2>3
<1>7. N \in Nat
  OBVIOUS
<1>8. run[N] = f[N]
  <2>1. PICK c : c = b.insns
    OBVIOUS
  <2>. HIDE DEF run, N
  <2>2. PICK r : r = run
    OBVIOUS
  <2>3. PICK n \in Nat : n = N
    BY <1>7
  <2>4. Computes(r, c, n, ri)
    BY <1>6, <2>1, <2>2, <2>3 DEF Computes
  <2>5. Computes(f, c, n, ri)
    BY <1>2, <2>1, <2>3 DEF Computes
  <2>8. r[n] = f[n]
    BY <2>4, <2>5, LeadsOnce
  <2>. QED  BY <2>2, <2>3, <2>8
<1>. QED  BY <1>1, <1>2, <1>8

-----------------------------------------------------------------------------
(* Executing one instruction.                                               *)

HandsOn(i) == i.type \in {"copy", "move"} \/ (i.type = "addr" /\ IsRef(i.in[1]))

ReadBy(s, i) ==
  LET a == ValueOf(s.env, i.in[1])
      b == ValueOf(s.env, i.in[2])
  IN  IF i.type = "arith" THEN {<<a, b>>, <<b, a>>} ELSE {<<a, b>>}

Result(s, i) ==
  IF HandsOn(i) THEN ValueOf(s.env, i.in[1]) ELSE <<"result", Len(s.reads) + 1>>

LEMMA ExecutedIs ==
  ASSUME NEW s, NEW i
  PROVE  /\ Executed(s, i).env = IF IsTmp(i.out) THEN [s.env EXCEPT ![i.out[2]] = Result(s, i)]
                                 ELSE s.env
         /\ Executed(s, i).reads = IF HandsOn(i) THEN s.reads ELSE Append(s.reads, ReadBy(s, i))
BY DEF Executed, Result, ReadBy, HandsOn

LEMMA ExecutedEnv ==
  ASSUME NEW s, NEW i, NEW D, DOMAIN s.env = D
  PROVE  /\ DOMAIN Executed(s, i).env = D
         /\ \A n \in D :
              Executed(s, i).env[n] = IF IsTmp(i.out) /\ n = i.out[2] THEN Result(s, i) ELSE s.env[n]
<1>1. PICK e : e = Executed(s, i).env
  OBVIOUS
<1>2. PICK x : x = Result(s, i)
  OBVIOUS
<1>3. e = IF IsTmp(i.out) THEN [s.env EXCEPT ![i.out[2]] = x] ELSE s.env
  BY <1>1, <1>2, ExecutedIs
<1>4. DOMAIN e = D /\ \A n \in D : e[n] = IF IsTmp(i.out) /\ n = i.out[2] THEN x ELSE s.env[n]
  BY <1>3
<1>. QED  BY <1>1, <1>2, <1>4

\* s and t differ in fresh temporaries only
Agrees(s, t, R) ==
  /\ s.reads = t.reads
  /\ DOMAIN s.env = 0 .. R - 1 /\ DOMAIN t.env = 0 .. R - 1
  /\ \A n \in 0 .. NTmps - 1 : s.env[n] = t.env[n]

\* i in s does what j does
Acts(s, i, j) ==
  /\ i.type = j.type /\ i.out = j.out
  /\ HandsOn(i) <=> HandsOn(j)
  /\ ReadBy(s, i) = ReadBy(s, j)
  /\ HandsOn(i) => ValueOf(s.env, i.in[1]) = ValueOf(s.env, j.in[1])

LEMMA ValuesAgree ==
  ASSUME NEW R, NEW s, NEW t, Agrees(s, t, R), NEW v \in Val, Below(v, NTmps)
  PROVE  ValueOf(s.env, v) = ValueOf(t.env, v)
<1>1. IsTmp(v) => v[2] \in 0 .. NTmps - 1
  BY TmpsAssumption DEF Below, Val, IsTmp, None
<1>. QED  BY <1>1 DEF Agrees, ValueOf

LEMMA ActsAgree ==
  ASSUME NEW R \in Nat, R >= NTmps, NEW s, NEW t, Agrees(s, t, R),
         NEW i, NEW j \in Insn, Acts(s, i, j), Below(j.in[1], NTmps), Below(j.in[2], NTmps)
  PROVE  Agrees(Executed(s, i), Executed(t, j), R)
<1>1. j.in[1] \in Val /\ j.in[2] \in Val
  BY DEF Insn
<1>2. /\ ValueOf(s.env, j.in[1]) = ValueOf(t.env, j.in[1])
      /\ ValueOf(s.env, j.in[2]) = ValueOf(t.env, j.in[2])
  BY <1>1, ValuesAgree
<1>3. ReadBy(s, i) = ReadBy(t, j)
  BY <1>2 DEF Acts, ReadBy
<1>4. s.reads = t.reads
  BY DEF Agrees
<1>5. Result(s, i) = Result(t, j)
  BY <1>2, <1>4 DEF Acts, Result
<1>6. Executed(s, i).reads = Executed(t, j).reads
  BY <1>3, <1>4, ExecutedIs DEF Acts
<1>7. /\ DOMAIN Executed(s, i).env = 0 .. R - 1 /\ DOMAIN Executed(t, j).env = 0 .. R - 1
      /\ \A n \in 0 .. R - 1 :
           /\ Executed(s, i).env[n] = IF IsTmp(i.out) /\ n = i.out[2] THEN Result(s, i) ELSE s.env[n]
           /\ Executed(t, j).env[n] = IF IsTmp(j.out) /\ n = j.out[2] THEN Result(t, j) ELSE t.env[n]
  BY ExecutedEnv DEF Agrees
<1>8. ASSUME NEW n \in 0 .. NTmps - 1 PROVE Executed(s, i).env[n] = Executed(t, j).env[n]
  <2>1. n \in 0 .. R - 1
    BY TmpsAssumption
  <2>2. i.out = j.out /\ s.env[n] = t.env[n]
    BY DEF Acts, Agrees
  <2>. QED  BY <1>5, <1>7, <2>1, <2>2
<1>. QED  BY <1>6, <1>7, <1>8 DEF Agrees

-----------------------------------------------------------------------------
(* The invariant: how far the corrected part of a block computes what the   *)
(* corresponding part of its source does, as long as no address was taken.  *)
(* It is stated for every number of temporaries from the next free one on,  *)
(* so that it does not depend on how many are still to come.                *)

\* i, as changed so far, does in state s what j of the source does
Stands(s, i, j) ==
  /\ i.type = j.type /\ i.out = j.out
  /\ ValueOf(s.env, i.in[1]) = ValueOf(s.env, j.in[1])
  /\ ValueOf(s.env, i.in[2]) = ValueOf(s.env, j.in[2])
  /\ i.type = "addr" => i.in[1] = j.in[1] \/ IsTmp(i.in[1])

\* with R temporaries, the first n instructions of v lead to a state that
\* agrees with that after the first m of q, and the next stands for the next
Meet(v, q, n, m, R, s, t) ==
  /\ Leads(Contents(v), n, R, s) /\ Leads(q, m, R, t)
  /\ Agrees(s, t, R)
  /\ n < v.n => Stands(s, v.buf[n], q[m + 1])

Matches(v, q, n, m, R) == \E s, t : Meet(v, q, n, m, R, s, t)

\* the vector v is corrected up to position n, where the next instruction
\* stands for the one after the first m of the source q
UpTo(v, q, n, m, r) ==
  /\ v.n - n = Len(q) - m
  /\ \A c \in n + 1 .. v.n - 1 : v.buf[c] = q[m + 1 + (c - n)]
  /\ n < v.n => Below(v.buf[n].in[1], r) /\ Below(v.buf[n].in[2], r)
  /\ \A R \in Nat : R >= r => Matches(v, q, n, m, R)

Underway(v, q, n, r) == \E m \in 0 .. Len(q) : UpTo(v, q, n, m, r)

\* block c is corrected and does what b of the source does
KeptAs(b, c, R, s, t) ==
  /\ Leads(Contents(c.insns), c.insns.n, R, s) /\ Leads(b.insns, Len(b.insns), R, t)
  /\ Agrees(s, t, R)
  /\ ~IsImm(b.cmp[2]) =>
       \A k \in {1, 2} : ValueOf(s.env, c.cmp[k]) = ValueOf(t.env, b.cmp[k])

Kept(b, c, r) == \A R \in Nat : R >= r => \E s, t : KeptAs(b, c, R, s, t)

\* block c is as it was parsed
Waits(b, c) == c.cmp = b.cmp /\ Holding(c.insns, b.insns)

Same ==
  DOMAIN rules = {} =>
    \A b \in 1 .. NB :
      /\ b < bi => Kept(source[b], body[b], ri)
      /\ b = bi => body[b].cmp = source[b].cmp /\ Underway(body[b].insns, source[b].insns, ii, ri)
      /\ b > bi => Waits(source[b], body[b])

-----------------------------------------------------------------------------
\* the instructions q use temporaries of the source only
OfSource(q) ==
  /\ q \in Seq(Fitting)
  /\ \A k \in 1 .. Len(q) : Below(q[k].in[1], NTmps) /\ Below(q[k].in[2], NTmps)

LEMMA SourceFacts ==
  ASSUME NEW f \in Functions, NEW b \in 1 .. Len(f)
  PROVE  /\ OfSource(f[b].insns) /\ f[b].cmp \in Val \X Val
         /\ Below(f[b].cmp[1], NTmps) /\ Below(f[b].cmp[2], NTmps)
<1>1. DOMAIN f = 1 .. Len(f) /\ f[b].insns \in Seq(Fitting) /\ f[b].cmp \in Val \X Val
  BY Sizes
<1>2. /\ \A k \in DOMAIN f[b].insns : \A v \in ToSet(f[b].insns[k].in) : Below(v, NTmps)
      /\ \A v \in ToSet(f[b].cmp) : Below(v, NTmps)
  BY <1>1, FunctionsAssumption
<1>3. ASSUME NEW p \in Val \X Val PROVE p[1] \in ToSet(p) /\ p[2] \in ToSet(p)
  <2>1. DOMAIN p = {1, 2}
    OBVIOUS
  <2>. QED  BY <2>1 DEF ToSet
<1>4. PICK q : q = f[b].insns
  OBVIOUS
<1>5. ASSUME NEW k \in 1 .. Len(q) PROVE Below(q[k].in[1], NTmps) /\ Below(q[k].in[2], NTmps)
  <2>1. q \in Seq(Fitting) /\ k \in DOMAIN q /\ q[k] \in Fitting
    BY <1>1, <1>4
  <2>2. q[k].in \in Val \X Val
    BY <2>1 DEF Fitting, Insn
  <2>3. PICK p : p = q[k].in
    OBVIOUS
  <2>4. p[1] \in ToSet(p) /\ p[2] \in ToSet(p)
    BY <1>3, <2>2, <2>3
  <2>. QED  BY <1>2, <1>4, <2>1, <2>3, <2>4
<1>6. PICK p : p = f[b].cmp
  OBVIOUS
<1>7. p[1] \in ToSet(p) /\ p[2] \in ToSet(p)
  BY <1>1, <1>3, <1>6
<1>. QED  BY <1>1, <1>2, <1>4, <1>5, <1>6, <1>7 DEF OfSource

LEMMA KeptMore ==
  ASSUME NEW b, NEW c, NEW r \in Nat, NEW u \in Nat, r <= u, Kept(b, c, r)
  PROVE  Kept(b, c, u)
<1>1. \A R \in Nat : R >= u => R >= r
  OBVIOUS
<1>. QED  BY <1>1 DEF Kept

LEMMA FirstAgree ==
  ASSUME NEW R \in Nat PROVE Agrees(Initially(R), Initially(R), R)
BY DEF Agrees, Initially

(* A block that waits has nothing corrected yet.                            *)
LEMMA WaitsUnderway ==
  ASSUME NEW v, IsVec(v, Fitting), NEW q, OfSource(q), Holding(v, q),
         NEW r \in Nat, r >= NTmps
  PROVE  Underway(v, q, 0, r)
<1>1. v.n \in Nat /\ v.n = Len(q) /\ \A k \in 1 .. v.n : q[k] = v.buf[k - 1]
  BY DEF IsVec, Holding
<1>2. \A c \in 0 + 1 .. v.n - 1 : v.buf[c] = q[0 + 1 + (c - 0)]
  <2>1. TAKE c \in 0 + 1 .. v.n - 1
  <2>2. c + 1 \in 1 .. v.n /\ (c + 1) - 1 = c /\ 0 + 1 + (c - 0) = c + 1
    BY <1>1
  <2>. QED  BY <1>1, <2>2
<1>3. 0 < v.n => 1 \in 1 .. Len(q) /\ v.buf[0] = q[1] /\ q[1] \in Fitting
  <2>1. 0 < v.n => 1 \in 1 .. v.n /\ 1 - 1 = 0
    BY <1>1
  <2>. QED  BY <1>1, <2>1 DEF OfSource
<1>4. ASSUME 0 < v.n PROVE Below(v.buf[0].in[1], r) /\ Below(v.buf[0].in[2], r)
  <2>1. q[1] \in Insn /\ q[1].in[1] \in Val /\ q[1].in[2] \in Val
    BY <1>3, <1>4 DEF Fitting, Insn
  <2>2. Below(q[1].in[1], NTmps) /\ Below(q[1].in[2], NTmps)
    BY <1>3, <1>4 DEF OfSource
  <2>. QED  BY <1>3, <1>4, <2>1, <2>2, TmpsAssumption, BelowMore
<1>5. ASSUME NEW R \in Nat, R >= r
      PROVE  Matches(v, q, 0, 0, R)
  <2>1. \A s : 0 < v.n => Stands(s, v.buf[0], q[0 + 1])
    BY <1>3 DEF Stands
  <2>. QED  BY <2>1, LeadsFirst, FirstAgree DEF Matches, Meet
<1>6. UpTo(v, q, 0, 0, r)
  <2>1. v.n - 0 = Len(q) - 0
    BY <1>1
  <2>. QED  BY <1>2, <1>4, <1>5, <2>1 DEF UpTo
<1>. QED  BY <1>1, <1>6 DEF Underway

LEMMA ContentsAt ==
  ASSUME NEW v, v.n \in Nat
  PROVE  \A c \in 0 .. v.n - 1 : Contents(v)[c + 1] = v.buf[c]
<1>. SUFFICES ASSUME NEW c \in 0 .. v.n - 1 PROVE Contents(v)[c + 1] = v.buf[c]
  OBVIOUS
<1>1. c + 1 \in 1 .. v.n /\ (c + 1) - 1 = c
  OBVIOUS
<1>. QED  BY <1>1 DEF Contents

\* vectors with the same first n elements lead to the same states
LEMMA StartLeads ==
  ASSUME NEW v, NEW w, v.n \in Nat, w.n \in Nat, NEW n \in Nat, n <= v.n, n <= w.n,
         \A c \in 0 .. n - 1 : w.buf[c] = v.buf[c],
         NEW R, NEW s, Leads(Contents(v), n, R, s)
  PROVE  Leads(Contents(w), n, R, s)
<1>1. ASSUME NEW j \in 1 .. n PROVE Contents(w)[j] = Contents(v)[j]
  <2>1. j - 1 \in 0 .. n - 1 /\ j - 1 \in 0 .. v.n - 1 /\ j - 1 \in 0 .. w.n - 1 /\ (j - 1) + 1 = j
    OBVIOUS
  <2>2. PICK c : c = j - 1
    OBVIOUS
  <2>3. Contents(w)[c + 1] = w.buf[c] /\ Contents(v)[c + 1] = v.buf[c]
    BY <2>1, <2>2, ContentsAt
  <2>. QED  BY <2>1, <2>2, <2>3
<1>. QED  BY <1>1, LeadsSame

(* The instruction at n is executed, as it is or as it became.              *)
LEMMA Advances ==
  ASSUME NEW v, IsVec(v, Fitting), NEW n \in Nat, n < v.n,
         NEW w, w.n = v.n, \A c \in 0 .. v.n - 1 : c # n => w.buf[c] = v.buf[c],
         NEW q, OfSource(q), NEW r \in Nat, r >= NTmps, Underway(v, q, n, r),
         \A s, j : j \in Insn /\ Stands(s, v.buf[n], j) => Acts(s, w.buf[n], j)
  PROVE  Underway(w, q, n + 1, r)
<1>1. PICK m \in 0 .. Len(q) : UpTo(v, q, n, m, r)
  BY DEF Underway
<1>2. v.n \in Nat /\ Len(q) \in Nat /\ v.n - n = Len(q) - m
  BY <1>1 DEF IsVec, OfSource, UpTo
<1>3. m \in Nat /\ m + 1 \in 1 .. Len(q)
  BY <1>2
<1>4. w.n - (n + 1) = Len(q) - (m + 1)
  BY <1>2, <1>3
<1>5. ASSUME NEW c \in n + 1 .. w.n - 1 PROVE w.buf[c] = q[m + 1 + (c - n)]
  <2>1. c \in 0 .. v.n - 1 /\ c # n /\ c \in n + 1 .. v.n - 1
    BY <1>2
  <2>. QED  BY <1>1, <2>1 DEF UpTo
<1>6. \A c \in (n + 1) + 1 .. w.n - 1 : w.buf[c] = q[(m + 1) + 1 + (c - (n + 1))]
  <2>1. TAKE c \in (n + 1) + 1 .. w.n - 1
  <2>2. c \in n + 1 .. w.n - 1 /\ m + 1 + (c - n) = (m + 1) + 1 + (c - (n + 1))
    BY <1>2, <1>3
  <2>. QED  BY <1>5, <2>2
<1>7. ASSUME n + 1 < w.n
      PROVE  /\ w.buf[n + 1] = q[(m + 1) + 1] /\ (m + 1) + 1 \in 1 .. Len(q)
             /\ q[(m + 1) + 1] \in Insn
  <2>1. n + 1 \in n + 1 .. w.n - 1 /\ m + 1 + ((n + 1) - n) = (m + 1) + 1
    BY <1>2, <1>3, <1>7
  <2>2. w.buf[n + 1] = q[(m + 1) + 1]
    BY <1>5, <2>1
  <2>3. (m + 1) + 1 \in 1 .. Len(q)
    BY <1>2, <1>3, <1>7
  <2>. QED  BY <2>2, <2>3 DEF OfSource, Fitting
<1>8. ASSUME n + 1 < w.n
      PROVE  Below(w.buf[n + 1].in[1], r) /\ Below(w.buf[n + 1].in[2], r)
  <2>1. PICK j : j = q[(m + 1) + 1]
    OBVIOUS
  <2>2. j.in[1] \in Val /\ j.in[2] \in Val
    BY <1>7, <1>8, <2>1 DEF Insn
  <2>3. Below(j.in[1], NTmps) /\ Below(j.in[2], NTmps)
    BY <1>7, <1>8, <2>1 DEF OfSource
  <2>. QED  BY <1>7, <1>8, <2>1, <2>2, <2>3, TmpsAssumption, BelowMore
<1>9. ASSUME NEW R \in Nat, R >= r
      PROVE  Matches(w, q, n + 1, m + 1, R)
  <2>20. Matches(v, q, n, m, R)
    BY <1>1, <1>9 DEF UpTo
  <2>21. PICK s, t : Meet(v, q, n, m, R, s, t)
    BY <2>20 DEF Matches
  <2>1. /\ Leads(Contents(v), n, R, s) /\ Leads(q, m, R, t)
        /\ Agrees(s, t, R)
        /\ n < v.n => Stands(s, v.buf[n], q[m + 1])
    BY <2>21 DEF Meet
  <2>2. PICK j : j = q[m + 1]
    OBVIOUS
  <2>3. j \in Insn /\ Below(j.in[1], NTmps) /\ Below(j.in[2], NTmps)
    BY <1>3, <2>2 DEF OfSource, Fitting
  <2>4. PICK i : i = w.buf[n]
    OBVIOUS
  <2>5. Acts(s, i, j)
    BY <2>1, <2>2, <2>3, <2>4
  <2>6. R >= NTmps
    BY <1>9, TmpsAssumption
  <2>7. Agrees(Executed(s, i), Executed(t, j), R)
    BY <2>1, <2>3, <2>5, <2>6, ActsAgree
  <2>8. Leads(Contents(w), n, R, s)
    <3>1. \A c \in 0 .. n - 1 : w.buf[c] = v.buf[c]
      <4>1. \A c \in 0 .. n - 1 : c \in 0 .. v.n - 1 /\ c # n
        BY <1>2
      <4>. QED  BY <4>1
    <3>2. w.n \in Nat /\ n <= v.n /\ n <= w.n
      BY <1>2
    <3>. QED  BY <1>2, <2>1, <3>1, <3>2, StartLeads
  <2>9. Contents(w)[n + 1] = i
    <3>1. n \in 0 .. w.n - 1 /\ w.n \in Nat
      BY <1>2
    <3>. QED  BY <2>4, <3>1, ContentsAt
  <2>10. Leads(Contents(w), n + 1, R, Executed(s, i))
    BY <2>8, <2>9, LeadsOn
  <2>11. Leads(q, m + 1, R, Executed(t, j))
    BY <1>3, <2>1, <2>2, LeadsOn
  <2>12. n + 1 < w.n => Stands(Executed(s, i), w.buf[n + 1], q[(m + 1) + 1])
    BY <1>7 DEF Stands
  <2>. QED  BY <2>7, <2>10, <2>11, <2>12 DEF Matches, Meet
<1>10. UpTo(w, q, n + 1, m + 1, r)
  BY <1>4, <1>6, <1>8, <1>9 DEF UpTo
<1>11. m + 1 \in 0 .. Len(q)
  BY <1>3
<1>. QED  BY <1>10, <1>11 DEF Underway

\* w is v with new put in before position n, where i is now
Shifted(w, v, n, i, new) ==
  /\ w.n = v.n + 1
  /\ \A c \in 0 .. n - 1 : w.buf[c] = v.buf[c]
  /\ w.buf[n] = new /\ w.buf[n + 1] = i
  /\ \A c \in n + 2 .. v.n : w.buf[c] = v.buf[c - 1]

\* new loads operand k of cur into temporary r, and i has that instead
Spills(cur, k, r, i, new) ==
  /\ k \in {1, 2}
  /\ i = [cur EXCEPT !.in[k] = Tmp(r)]
  /\ \/ new = Op("addr", Tmp(r), cur.in[k], None) /\ IsRef(cur.in[k])
     \/ new = Op("copy", Tmp(r), cur.in[k], None) /\ IsImm(cur.in[k])

LEMMA SpillStands ==
  ASSUME NEW R \in Nat, NEW r \in Nat, r < R, r >= NTmps,
         NEW s, NEW t, Agrees(s, t, R), NEW j \in Insn,
         Below(j.in[1], NTmps), Below(j.in[2], NTmps),
         NEW cur \in Insn, Stands(s, cur, j), Below(cur.in[1], r), Below(cur.in[2], r),
         NEW k, NEW i, NEW new, Spills(cur, k, r, i, new)
  PROVE  /\ Agrees(Executed(s, new), t, R)
         /\ Stands(Executed(s, new), i, j)
         /\ Below(i.in[1], r + 1) /\ Below(i.in[2], r + 1)
<1>1. PICK a : a = cur.in[k]
  OBVIOUS
<1>2. ~IsTmp(a) /\ k \in {1, 2} /\ cur.in \in Val \X Val
  BY <1>1 DEF Spills, IsTmp, IsRef, IsImm, Insn
<1>3. /\ HandsOn(new) /\ new.in[1] = a /\ new.out = Tmp(r)
  BY <1>1 DEF Spills, HandsOn, Op
<1>4. IsTmp(new.out) /\ new.out[2] = r
  BY <1>3 DEF Tmp, IsTmp
<1>5. Result(s, new) = a
  BY <1>2, <1>3 DEF Result, ValueOf
<1>6. PICK u : u = Executed(s, new)
  OBVIOUS
<1>7. /\ DOMAIN u.env = 0 .. R - 1 /\ u.reads = s.reads
      /\ \A n \in 0 .. R - 1 : u.env[n] = IF n = r THEN a ELSE s.env[n]
  BY <1>3, <1>4, <1>5, <1>6, ExecutedEnv, ExecutedIs DEF Agrees
<1>8. ASSUME NEW v \in Val, Below(v, r) PROVE ValueOf(u.env, v) = ValueOf(s.env, v)
  <2>1. IsTmp(v) => v[2] \in 0 .. R - 1 /\ v[2] # r
    BY <1>8 DEF Below, Val, IsTmp, None
  <2>. QED  BY <1>7, <2>1 DEF ValueOf
<1>9. Agrees(u, t, R)
  <2>1. \A n \in 0 .. NTmps - 1 : n \in 0 .. R - 1 /\ n # r
    BY TmpsAssumption
  <2>2. \A n \in 0 .. NTmps - 1 : u.env[n] = t.env[n]
    BY <1>7, <2>1 DEF Agrees
  <2>. QED  BY <1>7, <2>2 DEF Agrees
<1>10. /\ i.type = cur.type /\ i.out = cur.out
       /\ \A l \in {1, 2} : i.in[l] = IF l = k THEN Tmp(r) ELSE cur.in[l]
  <2>1. PICK p : p = [cur.in EXCEPT ![k] = Tmp(r)]
    OBVIOUS
  <2>2. \A l \in {1, 2} : p[l] = IF l = k THEN Tmp(r) ELSE cur.in[l]
    BY <1>2, <2>1
  <2>3. i = [cur EXCEPT !.in = p]
    BY <2>1 DEF Spills
  <2>4. i.type = cur.type /\ i.out = cur.out /\ i.in = p
    BY <2>3 DEF Insn
  <2>. QED  BY <2>2, <2>4
<1>11. ValueOf(u.env, Tmp(r)) = a /\ IsTmp(Tmp(r))
  <2>1. Tmp(r)[2] = r /\ IsTmp(Tmp(r)) /\ r \in 0 .. R - 1
    BY DEF Tmp, IsTmp
  <2>. QED  BY <1>7, <2>1 DEF ValueOf
<1>12. ASSUME NEW l \in {1, 2} PROVE ValueOf(u.env, i.in[l]) = ValueOf(u.env, j.in[l])
  <2>1. j.in[l] \in Val /\ Below(j.in[l], NTmps)
    BY DEF Insn
  <2>2. Below(j.in[l], r)
    BY <2>1, TmpsAssumption, BelowMore
  <2>3. ValueOf(u.env, j.in[l]) = ValueOf(s.env, cur.in[l])
    BY <1>8, <2>1, <2>2 DEF Stands
  <2>4. CASE l = k
    <3>1. ValueOf(s.env, cur.in[l]) = a
      BY <1>1, <1>2, <2>4 DEF ValueOf
    <3>. QED  BY <1>10, <1>11, <2>3, <2>4, <3>1
  <2>5. CASE l # k
    <3>1. i.in[l] = cur.in[l] /\ cur.in[l] \in Val /\ Below(cur.in[l], r)
      BY <1>2, <1>10, <2>5
    <3>. QED  BY <1>8, <2>3, <3>1
  <2>. QED  BY <2>4, <2>5
<1>13. Stands(u, i, j)
  BY <1>10, <1>11, <1>12 DEF Stands
<1>14. ASSUME NEW l \in {1, 2} PROVE Below(i.in[l], r + 1)
  <2>1. CASE l = k
    BY <1>10, <2>1 DEF Below, Tmp
  <2>2. CASE l # k
    <3>1. i.in[l] = cur.in[l] /\ cur.in[l] \in Val /\ Below(cur.in[l], r)
      BY <1>2, <1>10, <2>2
    <3>2. r + 1 \in Nat /\ r <= r + 1
      OBVIOUS
    <3>. QED  BY <3>1, <3>2, BelowMore
  <2>. QED  BY <2>1, <2>2
<1>. QED  BY <1>6, <1>9, <1>13, <1>14

(* An operand is loaded before the instruction at n.                        *)
LEMMA Inserts ==
  ASSUME NEW v, IsVec(v, Fitting), NEW n \in Nat, n < v.n,
         NEW q, OfSource(q), NEW r \in Nat, r >= NTmps, Underway(v, q, n, r),
         NEW k, NEW i, NEW new, Spills(v.buf[n], k, r, i, new),
         NEW w, Shifted(w, v, n, i, new)
  PROVE  Underway(w, q, n + 1, r + 1)
<1>1. PICK m \in 0 .. Len(q) : UpTo(v, q, n, m, r)
  BY DEF Underway
<1>2. /\ v.n \in Nat /\ Len(q) \in Nat /\ v.n - n = Len(q) - m
      /\ w.n \in Nat /\ w.n = v.n + 1
  BY <1>1 DEF IsVec, OfSource, UpTo, Shifted
<1>3. m \in Nat /\ m + 1 \in 1 .. Len(q)
  BY <1>2
<1>4. w.n - (n + 1) = Len(q) - m
  BY <1>2, <1>3
<1>5. \A c \in (n + 1) + 1 .. w.n - 1 : w.buf[c] = q[m + 1 + (c - (n + 1))]
  <2>1. TAKE c \in (n + 1) + 1 .. w.n - 1
  <2>2. c \in n + 2 .. v.n /\ c - 1 \in n + 1 .. v.n - 1
        /\ m + 1 + (c - (n + 1)) = m + 1 + ((c - 1) - n)
    <3>1. PICK z \in Nat : z = v.n
      BY <1>2
    <3>2. c \in Int /\ n + 2 <= c /\ c <= z
      BY <1>2, <3>1
    <3>3. c \in n + 2 .. z
      BY <3>2
    <3>4. c - 1 \in n + 1 .. z - 1
      BY <3>2
    <3>5. m + 1 + (c - (n + 1)) = m + 1 + ((c - 1) - n)
      BY <1>3, <3>2
    <3>. QED  BY <3>1, <3>3, <3>4, <3>5
  <2>3. w.buf[c] = v.buf[c - 1]
    BY <2>2 DEF Shifted
  <2>4. PICK d : d = c - 1
    OBVIOUS
  <2>5. v.buf[d] = q[m + 1 + (d - n)]
    BY <1>1, <2>2, <2>4 DEF UpTo
  <2>. QED  BY <2>2, <2>3, <2>4, <2>5
<1>6. PICK cur : cur = v.buf[n]
  OBVIOUS
<1>7. cur \in Insn /\ Below(cur.in[1], r) /\ Below(cur.in[2], r)
  <2>1. n \in 0 .. v.n - 1
    BY <1>2
  <2>. QED  BY <1>1, <1>6, <2>1 DEF IsVec, Fitting, UpTo
<1>8. PICK j : j = q[m + 1]
  OBVIOUS
<1>9. j \in Insn /\ Below(j.in[1], NTmps) /\ Below(j.in[2], NTmps)
  BY <1>3, <1>8 DEF OfSource, Fitting
<1>10. Spills(cur, k, r, i, new)
  BY <1>6
<1>11. ASSUME NEW R \in Nat, R > r
       PROVE  Matches(w, q, n + 1, m, R) /\ Below(i.in[1], r + 1) /\ Below(i.in[2], r + 1)
  <2>20. Matches(v, q, n, m, R)
    BY <1>1, <1>11 DEF UpTo
  <2>21. PICK s, t : Meet(v, q, n, m, R, s, t)
    BY <2>20 DEF Matches
  <2>1. /\ Leads(Contents(v), n, R, s) /\ Leads(q, m, R, t)
        /\ Agrees(s, t, R)
        /\ n < v.n => Stands(s, v.buf[n], q[m + 1])
    BY <2>21 DEF Meet
  <2>2. Stands(s, cur, j) /\ r < R
    BY <1>6, <1>8, <1>11, <2>1
  <2>3. /\ Agrees(Executed(s, new), t, R)
        /\ Stands(Executed(s, new), i, j)
        /\ Below(i.in[1], r + 1) /\ Below(i.in[2], r + 1)
    BY <1>7, <1>9, <1>10, <2>1, <2>2, SpillStands
  <2>4. Leads(Contents(w), n, R, s)
    <3>1. n <= v.n /\ n <= w.n
      BY <1>2
    <3>2. \A c \in 0 .. n - 1 : w.buf[c] = v.buf[c]
      BY DEF Shifted
    <3>. QED  BY <1>2, <2>1, <3>1, <3>2, StartLeads
  <2>5. Contents(w)[n + 1] = new
    <3>1. n \in 0 .. w.n - 1 /\ w.n \in Nat
      BY <1>2
    <3>. QED  BY <3>1, ContentsAt DEF Shifted
  <2>6. Leads(Contents(w), n + 1, R, Executed(s, new))
    BY <2>4, <2>5, LeadsOn
  <2>7. w.buf[n + 1] = i
    BY DEF Shifted
  <2>. QED  BY <1>8, <2>1, <2>3, <2>6, <2>7 DEF Matches, Meet
<1>12. Below(i.in[1], r + 1) /\ Below(i.in[2], r + 1)
  <2>1. r + 1 \in Nat /\ r + 1 > r
    OBVIOUS
  <2>. QED  BY <1>11, <2>1
<1>13. \A R \in Nat : R >= r + 1 => Matches(w, q, n + 1, m, R)
  BY <1>11
<1>14. w.buf[n + 1] = i
  BY DEF Shifted
<1>15. UpTo(w, q, n + 1, m, r + 1)
  BY <1>4, <1>5, <1>12, <1>13, <1>14 DEF UpTo
<1>. QED  BY <1>15 DEF Underway

-----------------------------------------------------------------------------
(* The steps of the loop.                                                   *)

LEMMA SameFacts ==
  ASSUME Inv, bi \in 1 .. NB
  PROVE  /\ source \in Functions /\ NB \in Nat /\ OfSource(source[bi].insns)
         /\ ri \in Nat /\ ri >= NTmps /\ ii \in Nat
<1>1. source \in Functions /\ ri \in Nat /\ ri >= NTmps /\ ii \in Nat
  BY DEF Inv, Blocks, Positions
<1>2. NB = Len(source)
  BY DEF NB
<1>. QED  BY <1>1, <1>2, Sizes, SourceFacts

\* the vector v is put in place of the current block's
LEMMA StepSame ==
  ASSUME Inv, Same, Visiting, DOMAIN rules = {},
         NEW v, Put(v), source' = source, bi' = bi, ii' = ii + 1, ri' \in {ri, ri + 1},
         Underway(v, source[bi].insns, ii + 1, ri')
  PROVE  Same'
<1>1. Blocks /\ Positions /\ bi \in 1 .. NB /\ NB' = NB
  BY DEF Inv, Visiting, NB
<1>2. ri \in Nat /\ ri' \in Nat /\ ri <= ri'
  BY <1>1 DEF Positions
<1>3. body' = [body EXCEPT ![bi] = [@ EXCEPT !.insns = v]]
  BY DEF Put
<1>4. body'[bi] = [body[bi] EXCEPT !.insns = v] /\ \A b \in 1 .. NB : b # bi => body'[b] = body[b]
  BY <1>1, <1>3 DEF Blocks
<1>5. DOMAIN body[bi] = {"insns", "cmp"}
  BY <1>1 DEF Blocks
<1>6. body'[bi].insns = v /\ body'[bi].cmp = body[bi].cmp
  BY <1>4, <1>5
<1>7. ASSUME NEW b \in 1 .. NB
      PROVE  /\ b < bi => Kept(source[b], body'[b], ri')
             /\ b = bi => /\ body'[b].cmp = source[b].cmp
                         /\ Underway(body'[b].insns, source[b].insns, ii + 1, ri')
             /\ b > bi => Waits(source[b], body'[b])
  <2>1. CASE b = bi
    BY <1>6, <2>1 DEF Same
  <2>2. CASE b # bi
    <3>1. /\ b < bi => Kept(source[b], body[b], ri)
          /\ b > bi => Waits(source[b], body[b])
      BY DEF Same
    <3>2. b < bi => Kept(source[b], body[b], ri')
      BY <1>2, <3>1, KeptMore
    <3>. QED  BY <1>4, <2>2, <3>1, <3>2
  <2>. QED  BY <2>1, <2>2
<1>. QED  BY <1>1, <1>7 DEF Same

LEMMA NoRules ==
  ASSUME DOMAIN rules = {}
  PROVE  Stored = body[bi].insns /\ \A v : ~InMemory(v)
BY DEF Stored, InMemory

LEMMA SpillSame ==
  ASSUME Inv, Same, Loaded, DOMAIN rules = {}, NEW k \in {1, 2}, NEW type,
         \/ type = "addr" /\ IsRef(Cur.in[k])
         \/ type = "copy" /\ IsImm(Cur.in[k]),
         SpillWith(type, k)
  PROVE  Same'
<1>1. Visiting /\ Blocks /\ Positions /\ bi \in 1 .. NB
  BY DEF Inv, Loaded, Visiting
<1>2. PICK v : v = body[bi].insns
  OBVIOUS
<1>3. PICK cur : cur = Cur
  OBVIOUS
<1>4. /\ IsVec(v, Fitting) /\ v.n \in Nat /\ ii \in 0 .. v.n - 1 /\ cur = v.buf[ii] /\ cur \in Fitting
  BY <1>1, <1>2, <1>3, Current
<1>5. /\ source \in Functions /\ NB \in Nat /\ OfSource(source[bi].insns)
      /\ ri \in Nat /\ ri >= NTmps /\ ii \in Nat /\ ii < v.n
  BY <1>1, <1>4, SameFacts
<1>6. PICK i : i = [cur EXCEPT !.in[k] = Tmp(ri)]
  OBVIOUS
<1>7. PICK new : new = Op(type, Tmp(ri), cur.in[k], None)
  OBVIOUS
<1>8. Spills(cur, k, ri, i, new)
  BY <1>3, <1>6, <1>7 DEF Spills
<1>9. PICK w : w = Inserted(v, i, new, ii)
  OBVIOUS
<1>10. Put(w) /\ source' = source /\ bi' = bi /\ ii' = ii + 1 /\ ri' = ri + 1
  BY <1>2, <1>3, <1>6, <1>7, <1>9, NoRules DEF SpillWith
<1>11. Shifted(w, v, ii, i, new)
  <2>1. i \in Fitting /\ new \in Fitting
    <3>1. cur.in[k] \in Val
      BY <1>4 DEF Fitting, Insn
    <3>2. type \in {"load", "store", "addr", "copy"}
      OBVIOUS
    <3>. QED  BY <1>4, <1>5, <1>6, <1>7, <3>1, <3>2, InFits, OpFits
  <2>2. PICK a : a = Assigned(v, ii, i)
    OBVIOUS
  <2>3. /\ IsVec(a, Fitting) /\ a.n = v.n
        /\ \A c \in 0 .. v.n - 1 : a.buf[c] = IF c = ii THEN i ELSE v.buf[c]
    BY <1>4, <2>1, <2>2, AssignedVec
  <2>4. ii \in 0 .. a.n
    BY <1>4, <2>3
  <2>5. w = vec_insert(a, new, ii)
    BY <1>9, <2>2 DEF Inserted
  <2>6. PutIn(w, a, new, ii, Fitting)
    BY <2>1, <2>3, <2>4, <2>5, InsertVec
  <2>7. /\ w.n = v.n + 1
        /\ \A c \in 0 .. v.n :
             w.buf[c] = IF c < ii THEN a.buf[c] ELSE IF c = ii THEN new ELSE a.buf[c - 1]
    BY <2>3, <2>6 DEF PutIn
  <2>8. \A c \in 0 .. ii - 1 : w.buf[c] = v.buf[c]
    <3>1. \A c \in 0 .. ii - 1 : c \in 0 .. v.n /\ c < ii /\ c \in 0 .. v.n - 1 /\ c # ii
      BY <1>4
    <3>. QED  BY <2>3, <2>7, <3>1
  <2>9. w.buf[ii] = new
    <3>1. ii \in 0 .. v.n /\ ~(ii < ii)
      BY <1>4
    <3>. QED  BY <2>7, <3>1
  <2>10. w.buf[ii + 1] = i
    <3>1. ii + 1 \in 0 .. v.n /\ ~(ii + 1 < ii) /\ ii + 1 # ii /\ (ii + 1) - 1 = ii
      BY <1>4
    <3>. QED  BY <1>4, <2>3, <2>7, <3>1
  <2>11. \A c \in ii + 2 .. v.n : w.buf[c] = v.buf[c - 1]
    <3>1. TAKE c \in ii + 2 .. v.n
    <3>2. c \in 0 .. v.n /\ ~(c < ii) /\ c # ii /\ c - 1 \in 0 .. v.n - 1 /\ c - 1 # ii
      BY <1>4
    <3>. QED  BY <2>3, <2>7, <3>2
  <2>. QED  BY <2>7, <2>8, <2>9, <2>10, <2>11 DEF Shifted
<1>12. Underway(v, source[bi].insns, ii, ri)
  BY <1>1, <1>2 DEF Same
<1>13. Underway(w, source[bi].insns, ii + 1, ri')
  <2>1. Spills(v.buf[ii], k, ri, i, new)
    BY <1>4, <1>8
  <2>2. PICK q : q = source[bi].insns
    OBVIOUS
  <2>3. OfSource(q) /\ Underway(v, q, ii, ri)
    BY <1>5, <1>12, <2>2
  <2>4. Underway(w, q, ii + 1, ri + 1)
    BY <1>4, <1>5, <1>11, <2>1, <2>3, Inserts
  <2>. QED  BY <1>10, <2>2, <2>4
<1>. QED  BY <1>1, <1>10, <1>13, StepSame

\* the instruction at ii is done with, as i
LEMMA AdvanceSame ==
  ASSUME Inv, Same, Visiting, DOMAIN rules = {}, NEW i \in Fitting,
         \A s, j : j \in Insn /\ Stands(s, Cur, j) => Acts(s, i, j),
         NEW w, w = Assigned(body[bi].insns, ii, i) \/ (w = body[bi].insns /\ i = Cur),
         Put(w), source' = source, bi' = bi, ii' = ii + 1, ri' = ri
  PROVE  Same'
<1>1. Blocks /\ Positions /\ bi \in 1 .. NB
  BY DEF Inv, Visiting
<1>2. PICK v : v = body[bi].insns
  OBVIOUS
<1>3. /\ IsVec(v, Fitting) /\ v.n \in Nat /\ ii \in 0 .. v.n - 1 /\ Cur = v.buf[ii]
  BY <1>1, <1>2, Current
<1>4. PICK q : q = source[bi].insns
  OBVIOUS
<1>5. /\ OfSource(q) /\ ri \in Nat /\ ri >= NTmps /\ ii \in Nat /\ ii < v.n
  BY <1>1, <1>3, <1>4, SameFacts
<1>6. Underway(v, q, ii, ri)
  BY <1>1, <1>2, <1>4 DEF Same
<1>7. /\ w.n = v.n /\ w.buf[ii] = i
      /\ \A c \in 0 .. v.n - 1 : c # ii => w.buf[c] = v.buf[c]
  <2>1. CASE w = Assigned(v, ii, i)
    BY <1>3, <2>1, AssignedVec
  <2>2. CASE w = v /\ i = Cur
    BY <1>3, <2>2
  <2>. QED  BY <1>2, <2>1, <2>2
<1>8. \A s, j : j \in Insn /\ Stands(s, v.buf[ii], j) => Acts(s, w.buf[ii], j)
  BY <1>3, <1>7
<1>9. Underway(w, q, ii + 1, ri)
  BY <1>3, <1>5, <1>6, <1>7, <1>8, Advances
<1>10. Underway(w, source[bi].insns, ii + 1, ri')
  BY <1>4, <1>9
<1>. QED  BY <1>10, StepSame

LEMMA KeepSame ==
  ASSUME Inv, Same, Keep, DOMAIN rules = {}
  PROVE  Same'
<1>1. Visiting /\ ~Takes /\ Blocks /\ Positions
  BY DEF Keep, Loaded, Inv
<1>2. Cur \in Fitting
  BY <1>1, Current
<1>3. ASSUME NEW s, NEW j \in Insn, Stands(s, Cur, j) PROVE Acts(s, Cur, j)
  <2>1. Cur.type = "addr" => Cur.in[1] = j.in[1]
    BY <1>1, <1>3 DEF Stands, Takes
  <2>. QED  BY <1>3, <2>1 DEF Stands, Acts, HandsOn, ReadBy
<1>4. PICK w : w = body[bi].insns
  OBVIOUS
<1>5. Put(w) /\ source' = source /\ bi' = bi /\ ii' = ii + 1 /\ ri' = ri
  BY <1>4, NoRules DEF Keep
<1>6. \A s, j : j \in Insn /\ Stands(s, Cur, j) => Acts(s, Cur, j)
  BY <1>3
<1>. QED  BY <1>1, <1>2, <1>4, <1>5, <1>6, AdvanceSame

LEMMA SwapSame ==
  ASSUME Inv, Same, Swap, DOMAIN rules = {}
  PROVE  Same'
<1>1. Visiting /\ Swaps /\ Blocks /\ Positions
  BY DEF Swap, Loaded, Inv
<1>2. Cur \in Fitting /\ Cur.type = "arith"
  BY <1>1, Current DEF Swaps
<1>3. PICK p : p = <<Cur.in[2], Cur.in[1]>>
  OBVIOUS
<1>4. PICK i : i = [Cur EXCEPT !.in = p]
  OBVIOUS
<1>5. i \in Fitting /\ i.type = "arith" /\ i.in = p /\ i.out = Cur.out
  <2>1. i \in Fitting /\ i.type = "arith" /\ i.in = p
    BY <1>2, <1>3, <1>4, SwapFits
  <2>2. i.out = Cur.out
    BY <1>2, <1>4 DEF Fitting, Insn
  <2>. QED  BY <2>1, <2>2
<1>6. ASSUME NEW s, NEW j \in Insn, Stands(s, Cur, j) PROVE Acts(s, i, j)
  <2>1. j.type = "arith" /\ j.out = Cur.out
    BY <1>2, <1>6 DEF Stands
  <2>2. PICK a : a = ValueOf(s.env, Cur.in[1])
    OBVIOUS
  <2>3. PICK b : b = ValueOf(s.env, Cur.in[2])
    OBVIOUS
  <2>4. ReadBy(s, j) = {<<a, b>>, <<b, a>>}
    BY <1>6, <2>1, <2>2, <2>3 DEF Stands, ReadBy
  <2>5. i.in[1] = Cur.in[2] /\ i.in[2] = Cur.in[1]
    BY <1>3, <1>5
  <2>6. ReadBy(s, i) = {<<b, a>>, <<a, b>>}
    BY <1>5, <2>2, <2>3, <2>5 DEF ReadBy
  <2>7. ~HandsOn(i) /\ ~HandsOn(j)
    BY <1>5, <2>1 DEF HandsOn
  <2>. QED  BY <1>5, <2>1, <2>4, <2>6, <2>7 DEF Acts
<1>7. PICK w : w = Assigned(body[bi].insns, ii, i)
  OBVIOUS
<1>8. Put(w) /\ source' = source /\ bi' = bi /\ ii' = ii + 1 /\ ri' = ri
  BY <1>3, <1>4, <1>7, NoRules DEF Swap
<1>9. \A s, j : j \in Insn /\ Stands(s, Cur, j) => Acts(s, i, j)
  BY <1>6
<1>. QED  BY <1>1, <1>5, <1>7, <1>8, <1>9, AdvanceSame

-----------------------------------------------------------------------------
(* The end of a block.                                                      *)

LEMMA AppendLeads ==
  ASSUME NEW v, IsVec(v, Fitting), NEW R \in Nat, NEW s, NEW t,
         Leads(Contents(v), v.n, R, s), Agrees(s, t, R),
         NEW n \in Nat, n >= NTmps, n < R, NEW a \in Val,
         NEW x, x = vec_append(v, Op("copy", Tmp(n), a, None))
  PROVE  /\ IsVec(x, Fitting)
         /\ \E u : /\ Leads(Contents(x), x.n, R, u) /\ Agrees(u, t, R)
                  /\ u.env[n] = ValueOf(s.env, a)
<1>1. PICK i : i = Op("copy", Tmp(n), a, None)
  OBVIOUS
<1>2. i \in Fitting
  BY <1>1, OpFits
<1>3. PutIn(x, v, i, v.n, Fitting) /\ v.n \in Nat
  BY <1>1, <1>2, AppendVec DEF IsVec
<1>4. x.n = v.n + 1 /\ x.n \in Nat /\ \A c \in 0 .. v.n - 1 : x.buf[c] = v.buf[c]
  <2>1. \A c \in 0 .. v.n - 1 : c \in 0 .. v.n /\ c < v.n
    BY <1>3
  <2>. QED  BY <1>3, <2>1 DEF PutIn
<1>5. x.buf[v.n] = i
  BY <1>3 DEF PutIn
<1>6. Leads(Contents(x), v.n, R, s)
  BY <1>3, <1>4, StartLeads
<1>7. Contents(x)[v.n + 1] = i
  <2>1. v.n \in 0 .. x.n - 1
    BY <1>3, <1>4
  <2>. QED  BY <1>4, <1>5, <2>1, ContentsAt
<1>8. Leads(Contents(x), x.n, R, Executed(s, i))
  BY <1>3, <1>4, <1>6, <1>7, LeadsOn
<1>9. HandsOn(i) /\ IsTmp(i.out) /\ i.out[2] = n /\ i.in[1] = a
  BY <1>1 DEF HandsOn, Op, Tmp, IsTmp
<1>10. PICK u : u = Executed(s, i)
  OBVIOUS
<1>11. /\ DOMAIN u.env = 0 .. R - 1 /\ u.reads = s.reads
       /\ \A l \in 0 .. R - 1 : u.env[l] = IF l = n THEN ValueOf(s.env, a) ELSE s.env[l]
  BY <1>9, <1>10, ExecutedEnv, ExecutedIs DEF Agrees, Result
<1>12. Agrees(u, t, R)
  <2>1. \A l \in 0 .. NTmps - 1 : l \in 0 .. R - 1 /\ l # n
    BY TmpsAssumption
  <2>2. \A l \in 0 .. NTmps - 1 : u.env[l] = t.env[l]
    BY <1>11, <2>1 DEF Agrees
  <2>. QED  BY <1>11, <2>2 DEF Agrees
<1>13. u.env[n] = ValueOf(s.env, a)
  <2>1. n \in 0 .. R - 1
    OBVIOUS
  <2>. QED  BY <1>11, <2>1
<1>. QED  BY <1>3, <1>8, <1>10, <1>12, <1>13 DEF PutIn

\* after the vector x state u agrees with t and holds, if the operand k of
\* the comparison cmp was loaded to temporary n, what it was in s
LoadsAs(cmp, k, n, x, R, s, t, u) ==
  /\ Leads(Contents(x), x.n, R, u) /\ Agrees(u, t, R)
  /\ k \in Loads(cmp) => u.env[n] = ValueOf(s.env, CmpCopied(cmp, k))

LEMMA LoadLeads ==
  ASSUME Positions, NEW v, IsVec(v, Fitting), NEW R \in Nat, NEW s, NEW t,
         Leads(Contents(v), v.n, R, s), Agrees(s, t, R),
         NEW cmp \in Val \X Val, NEW k \in {1, 2},
         NEW n \in Nat, LoadedTo(cmp, k) = Tmp(n), n >= ri, k \in Loads(cmp) => n < R,
         NEW x, x = WithLoad(v, cmp, k)
  PROVE  IsVec(x, Fitting) /\ \E u : LoadsAs(cmp, k, n, x, R, s, t, u)
<1>1. CASE k \notin Loads(cmp)
  <2>1. x = v /\ LoadsAs(cmp, k, n, x, R, s, t, s)
    BY <1>1 DEF WithLoad, LoadsAs
  <2>. QED  BY <2>1
<1>2. CASE k \in Loads(cmp)
  <2>1. PICK a : a = CmpCopied(cmp, k)
    OBVIOUS
  <2>2. a \in Val
    BY <1>2, <2>1, CopyFits
  <2>3. x = vec_append(v, Op("copy", Tmp(n), a, None))
    BY <1>2, <2>1 DEF WithLoad
  <2>4. n >= NTmps /\ n < R
    BY <1>2, TmpsAssumption DEF Positions
  <2>5. PICK u : /\ Leads(Contents(x), x.n, R, u) /\ Agrees(u, t, R)
                 /\ u.env[n] = ValueOf(s.env, a)
    BY <2>2, <2>3, <2>4, AppendLeads
  <2>6. LoadsAs(cmp, k, n, x, R, s, t, u)
    BY <2>1, <2>5 DEF LoadsAs
  <2>7. IsVec(x, Fitting)
    BY <2>2, <2>3, <2>4, AppendLeads
  <2>. QED  BY <2>6, <2>7
<1>. QED  BY <1>1, <1>2

\* all instructions of a block are corrected, and its comparison is now
LEMMA BlockKept ==
  ASSUME Positions, NEW v, IsVec(v, Fitting), NEW q, OfSource(q),
         ii >= v.n, Underway(v, q, ii, ri),
         NEW b, b.insns = q, b.cmp \in Val \X Val,
         Below(b.cmp[1], NTmps), Below(b.cmp[2], NTmps),
         NEW c, c.insns = WithLoad(WithLoad(v, b.cmp, 1), b.cmp, 2), c.cmp = CmpTmps(b.cmp),
         NEW r \in Nat,
         r = ri + (IF 1 \in Loads(b.cmp) THEN 1 ELSE 0) + (IF 2 \in Loads(b.cmp) THEN 1 ELSE 0)
  PROVE  Kept(b, c, r)
<1>1. ri \in Nat /\ ri + 1 \in Nat /\ ri >= NTmps /\ ii \in Nat /\ v.n \in Nat /\ Len(q) \in Nat
  BY DEF Positions, IsVec, OfSource
<1>2. ii = v.n /\ UpTo(v, q, ii, Len(q), ri)
  <2>1. PICK m \in 0 .. Len(q) : UpTo(v, q, ii, m, ri)
    BY DEF Underway
  <2>2. v.n - ii = Len(q) - m
    BY <2>1 DEF UpTo
  <2>3. ii = v.n /\ m = Len(q)
    BY <1>1, <2>2
  <2>. QED  BY <2>1, <2>3
<1>3. PICK cmp : cmp = b.cmp
  OBVIOUS
<1>4. cmp \in Val \X Val /\ cmp[1] \in Val /\ cmp[2] \in Val
  BY <1>3
<1>5. PICK x : x = WithLoad(v, cmp, 1)
  OBVIOUS
<1>6. c.insns = WithLoad(x, cmp, 2)
  BY <1>3, <1>5
<1>7. LoadedTo(cmp, 1) = Tmp(ri) /\ LoadedTo(cmp, 2) = Tmp(IF 1 \in Loads(cmp) THEN ri + 1 ELSE ri)
  BY DEF LoadedTo
<1>8. PICK n \in Nat : n = IF 1 \in Loads(cmp) THEN ri + 1 ELSE ri
  BY <1>1
<1>9. n >= ri /\ ri <= r /\ (1 \in Loads(cmp) => ri < r) /\ (2 \in Loads(cmp) => n < r)
  BY <1>1, <1>3, <1>8
<1>. SUFFICES ASSUME NEW R \in Nat, R >= r
              PROVE  \E s, t : KeptAs(b, c, R, s, t)
  BY DEF Kept
<1>10. /\ R >= ri /\ (1 \in Loads(cmp) => ri < R) /\ (2 \in Loads(cmp) => n < R)
  BY <1>1, <1>9
<1>11. Matches(v, q, v.n, Len(q), R)
  BY <1>2, <1>10 DEF UpTo
<1>12. PICK s, t : Meet(v, q, v.n, Len(q), R, s, t)
  BY <1>11 DEF Matches
<1>13. Leads(Contents(v), v.n, R, s) /\ Leads(q, Len(q), R, t) /\ Agrees(s, t, R)
  BY <1>12 DEF Meet
<1>14. IsVec(x, Fitting) /\ \E u : LoadsAs(cmp, 1, ri, x, R, s, t, u)
  <2>1. LoadedTo(cmp, 1) = Tmp(ri) /\ ri >= ri /\ (1 \in Loads(cmp) => ri < R) /\ 1 \in {1, 2}
    BY <1>1, <1>7, <1>10
  <2>. QED  BY <1>1, <1>4, <1>5, <1>13, <2>1, LoadLeads
<1>. PICK u : LoadsAs(cmp, 1, ri, x, R, s, t, u)
  BY <1>14
<1>15. /\ Leads(Contents(x), x.n, R, u) /\ Agrees(u, t, R)
       /\ 1 \in Loads(cmp) => u.env[ri] = ValueOf(s.env, CmpCopied(cmp, 1))
  BY DEF LoadsAs
<1>16. PICK y : y = c.insns
  OBVIOUS
<1>17. \E w : Leads(Contents(y), y.n, R, w) /\ Agrees(w, t, R)
  <2>1. LoadedTo(cmp, 2) = Tmp(n) /\ 2 \in {1, 2}
    BY <1>7, <1>8
  <2>2. y = WithLoad(x, cmp, 2)
    BY <1>6, <1>16
  <2>3. PICK w : LoadsAs(cmp, 2, n, y, R, u, t, w)
    BY <1>4, <1>9, <1>10, <1>14, <1>15, <2>1, <2>2, LoadLeads
  <2>. QED  BY <2>3 DEF LoadsAs
<1>18. CASE IsImm(cmp[2])
  <2>1. PICK w : Leads(Contents(y), y.n, R, w) /\ Agrees(w, t, R)
    BY <1>17
  <2>2. KeptAs(b, c, R, w, t)
    BY <1>3, <1>13, <1>16, <1>18, <2>1 DEF KeptAs
  <2>. QED  BY <2>2
<1>19. CASE ~IsImm(cmp[2])
  <2>1. y = x /\ 2 \notin Loads(cmp)
    BY <1>6, <1>16, <1>19 DEF WithLoad, Loads
  <2>2. c.cmp[2] = cmp[2] /\ c.cmp[1] = IF 1 \in Loads(cmp) THEN Tmp(ri) ELSE cmp[1]
    BY <1>3, <1>7, <2>1 DEF CmpTmps
  <2>3. ValueOf(u.env, cmp[2]) = ValueOf(t.env, cmp[2])
    BY <1>3, <1>4, <1>15, ValuesAgree
  <2>4. ValueOf(u.env, c.cmp[1]) = ValueOf(t.env, cmp[1])
    <3>1. CASE 1 \notin Loads(cmp)
      BY <1>3, <1>4, <1>15, <2>2, <3>1, ValuesAgree
    <3>2. CASE 1 \in Loads(cmp)
      <4>1. IsImm(cmp[1]) /\ ~IsTmp(cmp[1])
        BY <3>2 DEF Loads, IsImm, IsTmp
      <4>2. u.env[ri] = cmp[1]
        BY <1>15, <3>2, <4>1 DEF CmpCopied, ValueOf
      <4>3. ValueOf(u.env, Tmp(ri)) = cmp[1]
        BY <4>2 DEF ValueOf, Tmp, IsTmp
      <4>. QED  BY <2>2, <3>2, <4>1, <4>3 DEF ValueOf
    <3>. QED  BY <3>1, <3>2
  <2>5. \A k \in {1, 2} : ValueOf(u.env, c.cmp[k]) = ValueOf(t.env, cmp[k])
    BY <2>2, <2>3, <2>4
  <2>6. KeptAs(b, c, R, u, t)
    BY <1>3, <1>13, <1>15, <1>16, <2>1, <2>5 DEF KeptAs
  <2>. QED  BY <2>6
<1>. QED  BY <1>18, <1>19

LEMMA EndBlockSame ==
  ASSUME Inv, Same, EndBlock, DOMAIN rules = {}
  PROVE  Same'
<1>1. Blocks /\ Positions /\ bi \in 1 .. NB /\ NB' = NB /\ ~Visiting
  BY DEF Inv, EndBlock, NB
<1>2. /\ source \in Functions /\ NB \in Nat /\ OfSource(source[bi].insns)
      /\ ri \in Nat /\ ri >= NTmps /\ ii \in Nat
  BY <1>1, SameFacts
<1>3. PICK v : v = body[bi].insns
  OBVIOUS
<1>4. PICK cmp : cmp = body[bi].cmp
  OBVIOUS
<1>5. IsVec(v, Fitting) /\ cmp \in Val \X Val /\ DOMAIN body[bi] = {"insns", "cmp"}
  BY <1>1, <1>3, <1>4 DEF Blocks
<1>6. ii >= v.n
  BY <1>1, <1>2, <1>3, <1>5 DEF Visiting, vec_len, IsVec
<1>7. cmp = source[bi].cmp /\ Underway(v, source[bi].insns, ii, ri)
  BY <1>1, <1>3, <1>4 DEF Same
<1>8. PICK w : w = WithLoad(WithLoad(v, cmp, 1), cmp, 2)
  OBVIOUS
<1>9. PICK new : new = CmpTmps(cmp)
  OBVIOUS
<1>10. body' = [body EXCEPT ![bi].insns = w, ![bi].cmp = new]
  BY <1>3, <1>4, <1>8, <1>9 DEF EndBlock
<1>11. /\ body'[bi].insns = w /\ body'[bi].cmp = new
       /\ \A b \in 1 .. NB : b # bi => body'[b] = body[b]
  <2>1. PICK b0 : b0 = [[body[bi] EXCEPT !.insns = w] EXCEPT !.cmp = new]
    OBVIOUS
  <2>2. b0.insns = w /\ b0.cmp = new
    BY <1>5, <2>1
  <2>3. body'[bi] = b0 /\ \A b \in 1 .. NB : b # bi => body'[b] = body[b]
    BY <1>1, <1>10, <2>1 DEF Blocks
  <2>. QED  BY <2>2, <2>3
<1>12. bi' = bi + 1 /\ ii' = 0 /\ source' = source
  BY DEF EndBlock
<1>13. /\ ri' = ri + (IF 1 \in Loads(cmp) THEN 1 ELSE 0) + (IF 2 \in Loads(cmp) THEN 1 ELSE 0)
       /\ ri' \in Nat /\ ri <= ri' /\ ri' >= NTmps
  <2>1. ri' = ri + (IF 1 \in Loads(cmp) THEN 1 ELSE 0) + (IF 2 \in Loads(cmp) THEN 1 ELSE 0)
    BY <1>4 DEF EndBlock
  <2>. QED  BY <1>2, <2>1, TmpsAssumption
<1>14. Kept(source[bi], body'[bi], ri')
  <2>1. PICK b : b = source[bi]
    OBVIOUS
  <2>2. PICK q : q = b.insns
    OBVIOUS
  <2>3. PICK c : c = body'[bi]
    OBVIOUS
  <2>4. PICK r \in Nat : r = ri'
    BY <1>13
  <2>5. b.cmp = cmp /\ Below(b.cmp[1], NTmps) /\ Below(b.cmp[2], NTmps)
    <3>1. bi \in 1 .. Len(source)
      BY <1>1 DEF NB
    <3>. QED  BY <1>2, <1>7, <2>1, <3>1, SourceFacts
  <2>6. OfSource(q) /\ Underway(v, q, ii, ri)
    BY <1>2, <1>7, <2>1, <2>2
  <2>7. c.insns = WithLoad(WithLoad(v, b.cmp, 1), b.cmp, 2) /\ c.cmp = CmpTmps(b.cmp)
    BY <1>8, <1>9, <1>11, <2>3, <2>5
  <2>8. r = ri + (IF 1 \in Loads(b.cmp) THEN 1 ELSE 0) + (IF 2 \in Loads(b.cmp) THEN 1 ELSE 0)
    BY <1>13, <2>4, <2>5
  <2>9. b.insns = q /\ b.cmp \in Val \X Val
    BY <1>5, <2>2, <2>5
  <2>10. Kept(b, c, r)
    BY <1>1, <1>5, <1>6, <2>5, <2>6, <2>7, <2>8, <2>9, BlockKept
  <2>. QED  BY <2>1, <2>3, <2>4, <2>10
<1>15. ASSUME NEW b \in 1 .. NB
       PROVE  /\ b < bi + 1 => Kept(source[b], body'[b], ri')
              /\ b = bi + 1 => /\ body'[b].cmp = source[b].cmp
                              /\ Underway(body'[b].insns, source[b].insns, 0, ri')
              /\ b > bi + 1 => Waits(source[b], body'[b])
  <2>1. b \in Int /\ bi \in Int
    BY <1>1, <1>2
  <2>2. CASE b < bi
    <3>1. Kept(source[b], body[b], ri)
      BY <2>2 DEF Same
    <3>2. Kept(source[b], body[b], ri')
      BY <1>2, <1>13, <3>1, KeptMore
    <3>3. ~(b = bi + 1) /\ ~(b > bi + 1) /\ b # bi
      BY <2>1, <2>2
    <3>. QED  BY <1>11, <3>2, <3>3
  <2>3. CASE b = bi
    <3>1. ~(b = bi + 1) /\ ~(b > bi + 1)
      BY <2>1, <2>3
    <3>. QED  BY <1>14, <2>3, <3>1
  <2>4. CASE b > bi
    <3>1. ~(b < bi + 1) /\ b # bi
      BY <2>1, <2>4
    <3>2. Waits(source[b], body[b])
      BY <2>4 DEF Same
    <3>3. IsVec(body[b].insns, Fitting)
      BY <1>1 DEF Blocks
    <3>4. OfSource(source[b].insns)
      <4>1. b \in 1 .. Len(source)
        BY DEF NB
      <4>. QED  BY <1>2, <4>1, SourceFacts
    <3>5. PICK x : x = body[b].insns
      OBVIOUS
    <3>6. PICK q : q = source[b].insns
      OBVIOUS
    <3>7. IsVec(x, Fitting) /\ OfSource(q) /\ Holding(x, q)
      BY <3>2, <3>3, <3>4, <3>5, <3>6 DEF Waits
    <3>8. Underway(x, q, 0, ri')
      BY <1>13, <3>7, WaitsUnderway
    <3>9. body[b].cmp = source[b].cmp
      BY <3>2 DEF Waits
    <3>. QED  BY <1>11, <3>1, <3>2, <3>5, <3>6, <3>8, <3>9
  <2>. QED  BY <2>1, <2>2, <2>3, <2>4
<1>. QED  BY <1>1, <1>12, <1>15 DEF Same

LEMMA InitSame == Init => Same
<1>. SUFFICES ASSUME Init PROVE Same
  OBVIOUS
<1>1. Blocks /\ Positions
  BY InitInv DEF Inv
<1>2. source \in Functions /\ NB \in Nat /\ bi = 1 /\ ii = 0
  BY <1>1, Sizes DEF Init, Blocks, NB
<1>3. ri \in Nat /\ ri >= NTmps
  BY <1>1 DEF Positions
<1>4. ASSUME NEW b \in 1 .. NB PROVE Waits(source[b], body[b])
  <2>1. PICK v \in Appended(source[b].insns) : body[b] = [insns |-> v, cmp |-> source[b].cmp]
    BY DEF Init, Parsed
  <2>2. PICK q : q = source[b].insns
    OBVIOUS
  <2>3. PICK n \in Nat : n = Len(q)
    <3>1. q \in Seq(Fitting)
      BY <1>2, <2>2, Sizes DEF NB
    <3>. QED  BY <3>1
  <2>4. \E e : v = [n |-> n, s |-> e,
                    buf |-> [c \in 0 .. e - 1 |-> IF c < n THEN q[c + 1] ELSE Junk]]
                /\ e \in Nat /\ n < e
    BY <2>1, <2>2, <2>3 DEF Appended
  <2>5. PICK e : v = [n |-> n, s |-> e,
                      buf |-> [c \in 0 .. e - 1 |-> IF c < n THEN q[c + 1] ELSE Junk]]
                 /\ e \in Nat /\ n < e
    BY <2>4
  <2>6. v.n = n /\ v.buf = [c \in 0 .. e - 1 |-> IF c < n THEN q[c + 1] ELSE Junk]
    BY <2>5
  <2>7. ASSUME NEW k \in 1 .. n PROVE q[k] = v.buf[k - 1]
    <3>1. k - 1 \in 0 .. e - 1 /\ k - 1 < n /\ (k - 1) + 1 = k
      BY <2>5
    <3>. QED  BY <2>6, <3>1
  <2>8. Holding(v, q)
    BY <2>3, <2>6, <2>7 DEF Holding
  <2>. QED  BY <2>1, <2>2, <2>8 DEF Waits
<1>5. ASSUME NEW b \in 1 .. NB
      PROVE  body[b].cmp = source[b].cmp /\ Underway(body[b].insns, source[b].insns, ii, ri)
  <2>1. PICK x : x = body[b].insns
    OBVIOUS
  <2>2. PICK q : q = source[b].insns
    OBVIOUS
  <2>3. OfSource(q)
    BY <1>2, <2>2, SourceFacts DEF NB
  <2>4. IsVec(x, Fitting) /\ Holding(x, q)
    BY <1>1, <1>4, <2>1, <2>2 DEF Blocks, Waits
  <2>5. Underway(x, q, 0, ri)
    BY <1>3, <2>3, <2>4, WaitsUnderway
  <2>. QED  BY <1>2, <1>4, <2>1, <2>2, <2>5 DEF Waits
<1>6. \A b \in 1 .. NB : ~(b < bi)
  BY <1>2
<1>. QED  BY <1>4, <1>5, <1>6 DEF Same

LEMMA NextSame == Inv /\ Same /\ [Next]_vars => Same'
<1>. SUFFICES ASSUME Inv, Same, [Next]_vars, DOMAIN rules' = {} PROVE Same'
  BY DEF Same
<1>1. CASE TakeAddress
  <2>1. Cur.in[1][2] \in DOMAIN rules'
    BY <1>1 DEF TakeAddress
  <2>. QED  BY <2>1
<1>2. CASE LoadRewrite
  <2>1. rules' = rules /\ DOMAIN rules # {}
    BY <1>2 DEF LoadRewrite, InMemory
  <2>. QED  BY <2>1
<1>3. CASE SpillRef
  <2>1. PICK k \in {1, 2} : RefAt(k) /\ SpillWith("addr", k)
    BY <1>3 DEF SpillRef
  <2>2. rules' = rules /\ Loaded /\ IsRef(Cur.in[k])
    BY <1>3, <2>1 DEF SpillRef, SpillWith, RefAt
  <2>. QED  BY <2>1, <2>2, SpillSame
<1>4. CASE SpillImm
  <2>1. PICK k \in {1, 2} : IsImm(Cur.in[k]) /\ SpillWith("copy", k)
    BY <1>4 DEF SpillImm, NoImm
  <2>2. rules' = rules /\ Loaded
    BY <1>4, <2>1 DEF SpillImm, SpillWith
  <2>. QED  BY <2>1, <2>2, SpillSame
<1>5. CASE Swap
  BY <1>5, SwapSame DEF Swap
<1>6. CASE Keep
  BY <1>6, KeepSame DEF Keep
<1>7. CASE EndBlock
  BY <1>7, EndBlockSame DEF EndBlock
<1>8. CASE UNCHANGED vars
  <2>1. source' = source /\ body' = body /\ bi' = bi /\ ii' = ii /\ ri' = ri /\ rules' = rules
    BY <1>8 DEF vars
  <2>. QED  BY <2>1 DEF Same, NB
<1>. QED  BY <1>1, <1>2, <1>3, <1>4, <1>5, <1>6, <1>7, <1>8 DEF Next

(* As long as no address is taken, a corrected block of any length computes *)
(* what it computed as parsed: its instructions read the same values, the   *)
(* temporaries of the source end with the same, and the same values are     *)
(* compared, unless the second is an immediate; although instructions were  *)
(* put in before others, and operands exchanged.                            *)
THEOREM ResultsAreSame == Spec => []SameResults
<1>1. Inv /\ Same => SameResults
  <2>. SUFFICES ASSUME Inv, Same, rules = <<>>, NEW b \in 1 .. bi - 1
                PROVE  LET old == Run(source[b])
                           new == Run(Text(b))
                       IN  /\ old.reads = new.reads
                           /\ \A n \in 0 .. NTmps - 1 : old.env[n] = new.env[n]
                           /\ ~IsImm(source[b].cmp[2]) => Compared(source[b]) = Compared(Text(b))
    BY DEF SameResults
  <2>1. Blocks /\ Positions /\ DOMAIN rules = {}
    BY DEF Inv
  <2>2. NB \in Nat /\ source \in Functions /\ b \in 1 .. NB /\ b < bi
    BY <2>1, Sizes DEF Blocks, Positions, NB
  <2>3. ri \in Nat /\ ri >= ri
    BY <2>1 DEF Positions
  <2>4. Kept(source[b], body[b], ri)
    BY <2>1, <2>2 DEF Same
  <2>. PICK s, t : KeptAs(source[b], body[b], ri, s, t)
    BY <2>3, <2>4 DEF Kept
  <2>5. /\ Leads(Contents(body[b].insns), body[b].insns.n, ri, s)
        /\ Leads(source[b].insns, Len(source[b].insns), ri, t)
        /\ Agrees(s, t, ri)
        /\ ~IsImm(source[b].cmp[2]) =>
             \A k \in {1, 2} : ValueOf(s.env, body[b].cmp[k]) = ValueOf(t.env, source[b].cmp[k])
    BY DEF KeptAs
  <2>6. Run(source[b]) = t
    <3>1. Len(source[b].insns) \in Nat
      <4>1. PICK q : q = source[b].insns
        OBVIOUS
      <4>2. q \in Seq(Fitting)
        BY <2>2, <4>1, Sizes DEF NB
      <4>. QED  BY <4>1, <4>2
    <3>. QED  BY <2>5, <3>1, RunIs
  <2>7. Run(Text(b)) = s
    <3>1. PICK x : x = body[b].insns
      OBVIOUS
    <3>2. IsVec(x, Fitting)
      BY <2>1, <2>2, <3>1 DEF Blocks
    <3>3. Len(Contents(x)) = x.n /\ x.n \in Nat
      BY <3>2, ContentsOf DEF Holding, IsVec
    <3>4. PICK d : d = Text(b)
      OBVIOUS
    <3>5. d.insns = Contents(x)
      BY <3>1, <3>4 DEF Text
    <3>6. Len(d.insns) \in Nat /\ Leads(d.insns, Len(d.insns), ri, s)
      BY <2>5, <3>1, <3>3, <3>5
    <3>. QED  BY <3>4, <3>6, RunIs
  <2>8. Text(b).cmp = body[b].cmp
    BY DEF Text
  <2>. QED  BY <2>5, <2>6, <2>7, <2>8 DEF Agrees, Compared
<1>. QED  BY <1>1, InvAlways, InitSame, NextSame, PTL DEF Spec
=============================================================================
