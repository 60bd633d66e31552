----------------------------- MODULE SsaProofs -----------------------------
(* Proofs about the SSA pass, for functions of any size and with any edges. *)
(* In order: the stack, type correctness, the blocks the traversals visit,  *)
(* the arguments of the edges, the fresh numbers, the layout, functions     *)
(* without loops, and what the parameters have to do with liveness.         *)
EXTENDS Ssa, Induction, SequenceTheorems

-----------------------------------------------------------------------------
(* The explicit stack.                                                      *)

(* Length and elements of a concatenation.                                  *)
LEMMA Concat ==
  ASSUME NEW S, NEW r \in Seq(S), NEW u \in Seq(S)
  PROVE  /\ r \o u \in Seq(S)
         /\ Len(r \o u) = Len(r) + Len(u)
         /\ \A i \in 1 .. Len(r) : (r \o u)[i] = r[i]
         /\ \A i \in Len(r) + 1 .. Len(r \o u) : (r \o u)[i] = u[i - Len(r)]
BY LenProperties, ConcatProperties

(* Popping the stack: the top is a block, and the rest is the stack without *)
(* its last position (vect_pop in ssa.c:74 and ssa.c:190).                  *)
LEMMA PopFacts ==
  ASSUME stack \in Seq(Blocks), stack # <<>>
  PROVE  /\ Len(stack) \in Nat /\ Len(stack) >= 1
         /\ Top \in Blocks
         /\ Rest \in Seq(Blocks)
         /\ Len(Rest) = Len(stack) - 1
         /\ \A i \in 1 .. Len(stack) - 1 : Rest[i] = stack[i]
<1>1. Len(stack) \in Nat /\ Len(stack) >= 1
  BY EmptySeq, LenProperties
<1>2. Top \in Blocks
  BY <1>1, ElementOfSeq DEF Top
<1>. DEFINE n == Len(stack) - 1
<1>3. n \in Nat /\ \A i \in 1 .. n : stack[i] \in Blocks
  BY <1>1, ElementOfSeq
<1>. HIDE DEF n
<1>4. /\ SubSeq(stack, 1, n) \in Seq(Blocks)
      /\ Len(SubSeq(stack, 1, n)) = n
      /\ \A i \in 1 .. n : SubSeq(stack, 1, n)[i] = stack[i]
  BY <1>3
<1>. QED
  BY <1>1, <1>2, <1>4 DEF n, Rest

(* The successors queued are those that exist (ssa.c:88-91, 197-201).       *)
LEMMA EdgesFacts ==
  ASSUME NEW t1 \in Blocks \cup {NoBlock}, NEW t2 \in Blocks \cup {NoBlock}
  PROVE  /\ Edges(t1, t2) \in Seq(Blocks)
         /\ Len(Edges(t1, t2)) \in Nat
         /\ \A t \in {t1, t2} \ {NoBlock} :
              \E j \in 1 .. Len(Edges(t1, t2)) : Edges(t1, t2)[j] = t
         /\ \A j \in 1 .. Len(Edges(t1, t2)) : Edges(t1, t2)[j] \in {t1, t2} \ {NoBlock}
<1>1. CASE t1 = NoBlock /\ t2 = NoBlock
  <2>1. Edges(t1, t2) = <<>>
    BY <1>1 DEF Edges
  <2>. QED  BY <1>1, <2>1
<1>2. CASE t1 = NoBlock /\ t2 # NoBlock
  <2>1. Edges(t1, t2) = <<t2>>
    BY <1>2 DEF Edges
  <2>. QED  BY <1>2, <2>1
<1>3. CASE t1 # NoBlock /\ (t2 = NoBlock \/ t2 = t1)
  <2>1. Edges(t1, t2) = <<t1>> \o <<>>
    BY <1>3 DEF Edges
  <2>. QED  BY <1>3, <2>1
<1>4. CASE t1 # NoBlock /\ t2 # NoBlock /\ t2 # t1
  <2>1. Edges(t1, t2) = <<t1>> \o <<t2>>
    BY <1>4 DEF Edges
  <2>2. <<t1>> \in Seq(Blocks) /\ <<t2>> \in Seq(Blocks)
    BY <1>4
  <2>3. /\ Edges(t1, t2) \in Seq(Blocks) /\ Len(Edges(t1, t2)) = 2
        /\ Edges(t1, t2)[1] = t1 /\ Edges(t1, t2)[2] = t2
    BY <2>1, <2>2
  <2>. QED  BY <1>4, <2>3
<1>. QED  BY <1>1, <1>2, <1>3, <1>4

\* q is the stack with b in the place of its top and the blocks ts above b
IsPushed(q, b, ts) ==
  /\ q \in Seq(Blocks)
  /\ Len(q) \in Nat /\ Len(q) >= Len(stack)
  /\ \A i \in 1 .. Len(stack) - 1 : q[i] = stack[i]
  /\ q[Len(stack)] = b
  /\ \A t \in ts : \E j \in Len(stack) + 1 .. Len(q) : q[j] = t
  /\ \A j \in Len(stack) + 1 .. Len(q) : q[j] \in ts

(* Queueing the successors keeps what lies below, puts the block back in    *)
(* its position and only its successors above it (ssa.c:86-91, 195-201).    *)
LEMMA QueuedFacts ==
  ASSUME stack \in Seq(Blocks), stack # <<>>,
         NEW b \in Blocks,
         NEW t1 \in Blocks \cup {NoBlock}, NEW t2 \in Blocks \cup {NoBlock}
  PROVE  IsPushed(Queued(b, t1, t2), b, {t1, t2} \ {NoBlock})
<1>. DEFINE q == Queued(b, t1, t2)
<1>. DEFINE n == Len(stack)
<1>. DEFINE u == Edges(t1, t2)
<1>. DEFINE r == Rest \o <<b>>
<1>1. /\ n \in Nat /\ n >= 1 /\ Rest \in Seq(Blocks) /\ Len(Rest) = n - 1
      /\ \A i \in 1 .. n - 1 : Rest[i] = stack[i]
  BY PopFacts
<1>2. /\ u \in Seq(Blocks) /\ Len(u) \in Nat
      /\ \A t \in {t1, t2} \ {NoBlock} : \E j \in 1 .. Len(u) : u[j] = t
      /\ \A j \in 1 .. Len(u) : u[j] \in {t1, t2} \ {NoBlock}
  BY EdgesFacts
<1>3. <<b>> \in Seq(Blocks) /\ Len(<<b>>) = 1 /\ <<b>>[1] = b
  OBVIOUS
<1>. HIDE DEF u, n
<1>4. /\ r \in Seq(Blocks) /\ Len(r) = n /\ r[n] = b
      /\ \A i \in 1 .. n - 1 : r[i] = stack[i]
  BY <1>1, <1>3
<1>. HIDE DEF r
<1>5. q = r \o u
  BY DEF Queued, r, u
<1>. HIDE DEF q
<1>6. /\ q \in Seq(Blocks) /\ Len(q) = n + Len(u)
      /\ \A i \in 1 .. n : q[i] = r[i]
      /\ \A i \in n + 1 .. Len(q) : q[i] = u[i - n]
  <2>1. r \in Seq(Blocks) /\ u \in Seq(Blocks)
    BY <1>2, <1>4
  <2>2. /\ r \o u \in Seq(Blocks)
        /\ Len(r \o u) = Len(r) + Len(u)
        /\ \A i \in 1 .. Len(r) : (r \o u)[i] = r[i]
        /\ \A i \in Len(r) + 1 .. Len(r \o u) : (r \o u)[i] = u[i - Len(r)]
    BY <2>1, Concat
  <2>. QED
    BY <1>1, <1>2, <1>4, <1>5, <2>2
<1>7. \A t \in {t1, t2} \ {NoBlock} : \E j \in n + 1 .. Len(q) : q[j] = t
  <2>1. TAKE t \in {t1, t2} \ {NoBlock}
  <2>2. PICK k \in 1 .. Len(u) : u[k] = t
    BY <1>2
  <2>3. n + k \in n + 1 .. Len(q) /\ q[n + k] = u[(n + k) - n] /\ (n + k) - n = k
    BY <1>1, <1>2, <1>6
  <2>. QED  BY <2>2, <2>3
<1>8. \A j \in n + 1 .. Len(q) : q[j] \in {t1, t2} \ {NoBlock}
  <2>1. TAKE j \in n + 1 .. Len(q)
  <2>2. j - n \in 1 .. Len(u) /\ q[j] = u[j - n]
    BY <1>1, <1>2, <1>6
  <2>. QED  BY <1>2, <2>2
<1>9. Len(q) \in Nat /\ Len(q) >= n
  BY <1>1, <1>2, <1>6
<1>10. (\A i \in 1 .. n - 1 : q[i] = stack[i]) /\ q[n] = b
  <2>1. n \in 1 .. n /\ \A i \in 1 .. n - 1 : i \in 1 .. n
    BY <1>1
  <2>. QED  BY <1>4, <1>6, <2>1
<1>. QED  BY <1>6, <1>7, <1>8, <1>9, <1>10 DEF n, q, IsPushed

-----------------------------------------------------------------------------
(* Type correctness. TypeOK is not inductive: that base becomes 2 and the   *)
(* visited counters stay within 4 needs what the traversal does with the    *)
(* blocks it has entered.                                                   *)

OnStack(b) == \E i \in 1 .. Len(stack) : stack[i] = b

Shape == \A b \in Blocks : ret[b] => s1[b] = NoBlock /\ s2[b] = NoBlock

Walk ==
  /\ base = IF phase = "build" THEN 0 ELSE 2
  /\ \A b \in Blocks : visited[b] <= base + 2
  /\ \A b \in Blocks : Entered(b) /\ ~Done(b) => OnStack(b)
  /\ phase \in {"build", "collect"} => OnStack(Entry) \/ Done(Entry)
  /\ phase \notin {"build", "collect"} => stack = <<>>

TypeInv == TypeOK /\ Shape /\ Walk

LEMMA EntryIsBlock == Entry \in Blocks /\ NoBlock \notin Blocks
BY SizeAssumption DEF Entry, Blocks, NoBlock

(* The numbers a block's definitions and parameters take are naturals.      *)
LEMMA CountsAreNat ==
  ASSUME TypeOK, NEW b \in Blocks
  PROVE  /\ Cardinality(params[b]) \in Nat
         /\ Cardinality(DefinesAt(b)) \in Nat
<1>1. params[b] \subseteq Tmps
  BY DEF TypeOK
<1>2. IsFiniteSet(params[b])
  BY <1>1, TmpsAssumption, FS_Subset
<1>3. body[b].insns \in Seq(Insn)
  BY BodiesAssumption DEF TypeOK
<1>4. DefinesAt(b) \subseteq 1 .. Len(body[b].insns) /\ Len(body[b].insns) \in Nat
  BY <1>3, LenProperties DEF DefinesAt
<1>5. IsFiniteSet(1 .. Len(body[b].insns))
  BY <1>4, FS_Interval
<1>6. IsFiniteSet(DefinesAt(b))
  BY <1>4, <1>5, FS_Subset
<1>. QED
  BY <1>2, <1>6, FS_CardinalityType

(* What a block requires is made of temporaries of the function.            *)
LEMMA RequiredType ==
  ASSUME TypeOK, NEW b \in Blocks
  PROVE  Required(b) \subseteq Tmps
<1>1. body[b].insns \in Seq(Insn) /\ body[b].cmp \subseteq Tmps
  BY BodiesAssumption DEF TypeOK
<1>2. \A k \in DOMAIN body[b].insns : body[b].insns[k].ins \subseteq Tmps
  <2>1. \A k \in DOMAIN body[b].insns : body[b].insns[k] \in Insn
    BY <1>1, LenProperties, ElementOfSeq
  <2>. QED  BY <2>1 DEF Insn
<1>3. Exposed(b) \subseteq Tmps
  <2>1. SUFFICES ASSUME NEW t \in Exposed(b) PROVE t \in Tmps
    OBVIOUS
  <2>2. CASE t \in body[b].cmp
    BY <1>1, <2>2
  <2>3. CASE t \notin body[b].cmp
    <3>1. t \in UNION {body[b].insns[k].ins \ OutsUpto(b, k - 1) : k \in DOMAIN body[b].insns}
      BY <2>1, <2>3, Zenon DEF Exposed
    <3>2. PICK k \in DOMAIN body[b].insns : t \in body[b].insns[k].ins \ OutsUpto(b, k - 1)
      BY <3>1, Zenon
    <3>. QED  BY <1>2, <3>2
  <2>. QED  BY <2>2, <2>3
<1>4. Forward(b) \subseteq Tmps
  BY DEF Forward, Succ, TypeOK
<1>. QED
  BY <1>3, <1>4 DEF Required

LEMMA InitTypeInv == Init => TypeInv
<1>. SUFFICES ASSUME Init PROVE TypeInv
  OBVIOUS
<1>. USE EntryIsBlock
<1>1. stack = <<Entry>> /\ stack \in Seq(Blocks) /\ Len(stack) = 1 /\ stack[1] = Entry
  BY DEF Init
<1>2. s1 \in [Blocks -> Blocks \cup {NoBlock}]
  <2>1. \A b \in Blocks : ~ret[b] => b + 1 \in Blocks
    <3>1. \A b \in Blocks : ~ret[b] => b # NB
      BY SizeAssumption DEF Init, Blocks
    <3>. QED  BY <3>1, SizeAssumption DEF Blocks
  <2>. QED  BY <2>1 DEF Init
<1>3. TypeOK
  BY <1>1, <1>2, SizeAssumption DEF Init, TypeOK, Phases, Blocks
<1>4. Shape
  BY DEF Init, Shape
<1>5. OnStack(Entry)
  BY <1>1 DEF OnStack
<1>6. Walk
  BY <1>5 DEF Init, Walk, Entered, Done
<1>. QED
  BY <1>3, <1>4, <1>6 DEF TypeInv

(* Entering a block moves no edge: a block that returns has none to clear.  *)
LEMMA EnterKeepsEdges ==
  ASSUME TypeInv, Enter
  PROVE  s1' = s1 /\ s2' = s2 /\ stack' = Queued(Top, s1[Top], s2[Top])
<1>1. Top \in Blocks
  BY PopFacts DEF Enter, Traversing, TypeInv, TypeOK
<1>2. ret[Top] => s1[Top] = NoBlock /\ s2[Top] = NoBlock
  BY <1>1 DEF TypeInv, Shape
<1>3. ret[Top] => [s1 EXCEPT ![Top] = NoBlock] = s1 /\ [s2 EXCEPT ![Top] = NoBlock] = s2
  BY <1>1, <1>2 DEF TypeInv, TypeOK
<1>4. s1' = s1 /\ s2' = s2
  BY <1>3 DEF Enter
<1>. QED
  BY <1>4 DEF Enter

(* A step of the traversal: where a block sits on the old stack, it sits on *)
(* the new one, unless it is the block that was popped.                     *)
LEMMA PopKeeps ==
  ASSUME TypeOK, Traversing, stack' = Rest, NEW b \in Blocks
  PROVE  /\ b # Top /\ OnStack(b) => OnStack(b)'
         /\ OnStack(b)' => OnStack(b)
<1>1. /\ Len(stack) \in Nat /\ Len(stack) >= 1 /\ Len(Rest) = Len(stack) - 1
      /\ \A k \in 1 .. Len(stack) - 1 : Rest[k] = stack[k]
  BY PopFacts DEF Traversing, TypeOK
<1>2. OnStack(b)' => OnStack(b)
  BY <1>1 DEF OnStack
<1>. SUFFICES ASSUME b # Top, OnStack(b) PROVE OnStack(b)'
  BY <1>2
<1>3. PICK i \in 1 .. Len(stack) : stack[i] = b
  BY DEF OnStack
<1>4. i # Len(stack)
  BY <1>3 DEF Top
<1>5. i \in 1 .. Len(Rest) /\ Rest[i] = b
  BY <1>1, <1>3, <1>4
<1>. QED
  BY <1>5 DEF OnStack

LEMMA QueueKeeps ==
  ASSUME TypeOK, Traversing,
         NEW t1 \in Blocks \cup {NoBlock}, NEW t2 \in Blocks \cup {NoBlock},
         stack' = Queued(Top, t1, t2)
  PROVE  /\ \A b \in Blocks : OnStack(b) => OnStack(b)'
         /\ \A b \in Blocks : b = Top => OnStack(b)'
         /\ \A t \in {t1, t2} \ {NoBlock} : OnStack(t)'
         /\ \A b \in Blocks : OnStack(b)' => OnStack(b) \/ b \in {t1, t2} \ {NoBlock}
<1>1. /\ Top \in Blocks /\ Top = stack[Len(stack)]
      /\ stack \in Seq(Blocks) /\ stack # <<>> /\ Len(stack) \in Nat /\ Len(stack) >= 1
  BY PopFacts DEF Traversing, TypeOK, Top
<1>2. /\ Len(stack') \in Nat /\ Len(stack') >= Len(stack)
      /\ \A i \in 1 .. Len(stack) - 1 : stack'[i] = stack[i]
      /\ stack'[Len(stack)] = Top
      /\ \A t \in {t1, t2} \ {NoBlock} :
           \E j \in Len(stack) + 1 .. Len(stack') : stack'[j] = t
      /\ \A j \in Len(stack) + 1 .. Len(stack') : stack'[j] \in {t1, t2} \ {NoBlock}
  <2>1. IsPushed(stack', Top, {t1, t2} \ {NoBlock})
    BY <1>1, QueuedFacts
  <2>. QED  BY <2>1 DEF IsPushed
<1>3. \A i \in 1 .. Len(stack) : i \in 1 .. Len(stack') /\ stack'[i] = stack[i]
  BY <1>1, <1>2
<1>4. \A b \in Blocks : OnStack(b) => OnStack(b)'
  BY <1>3 DEF OnStack
<1>5. \A b \in Blocks : b = Top => OnStack(b)'
  <2>1. Len(stack) \in 1 .. Len(stack') /\ stack'[Len(stack)] = Top
    BY <1>1, <1>2
  <2>. QED  BY <2>1 DEF OnStack
<1>6. \A t \in {t1, t2} \ {NoBlock} : OnStack(t)'
  <2>1. TAKE t \in {t1, t2} \ {NoBlock}
  <2>2. PICK j \in Len(stack) + 1 .. Len(stack') : stack'[j] = t
    BY <1>2
  <2>3. j \in 1 .. Len(stack')
    BY <1>1, <1>2
  <2>. QED  BY <2>2, <2>3 DEF OnStack
<1>7. \A b \in Blocks : OnStack(b)' => OnStack(b) \/ b \in {t1, t2} \ {NoBlock}
  <2>1. \A i \in 1 .. Len(stack') : i \in 1 .. Len(stack) \/ i \in Len(stack) + 1 .. Len(stack')
    BY <1>1, <1>2
  <2>. QED  BY <1>2, <1>3, <2>1 DEF OnStack
<1>. QED
  BY <1>4, <1>5, <1>6, <1>7

(* The traversal's four actions preserve type correctness and the counters. *)
LEMMA SkipTypeInv ==
  ASSUME TypeInv, Skip PROVE TypeInv'
<1>1. /\ Top \in Blocks /\ Rest \in Seq(Blocks) /\ stack' = Rest /\ Done(Top)
  BY PopFacts DEF Skip, Traversing, TypeInv, TypeOK
<1>2. TypeOK'
  BY <1>1 DEF Skip, TypeInv, TypeOK, cfgVars, renameVars
<1>3. Shape'
  BY DEF Skip, TypeInv, Shape, cfgVars
<1>4. \A b \in Blocks : Entered(b)' = Entered(b) /\ Done(b)' = Done(b)
  BY DEF Skip, Entered, Done
<1>5. \A b \in Blocks : OnStack(b) => OnStack(b)' \/ Done(b)
  BY <1>1, PopKeeps DEF Skip, TypeInv
<1>6. Walk'
  BY <1>4, <1>5, EntryIsBlock DEF Skip, TypeInv, Walk, Traversing
<1>. QED  BY <1>2, <1>3, <1>6 DEF TypeInv

LEMMA EnterTypeInv ==
  ASSUME TypeInv, Enter PROVE TypeInv'
<1>1. /\ Top \in Blocks /\ Traversing /\ TypeOK /\ ~Entered(Top)
      /\ s1[Top] \in Blocks \cup {NoBlock} /\ s2[Top] \in Blocks \cup {NoBlock}
  BY PopFacts DEF Enter, Traversing, TypeInv, TypeOK
<1>2. s1' = s1 /\ s2' = s2 /\ stack' = Queued(Top, s1[Top], s2[Top])
  BY EnterKeepsEdges
<1>3. visited' = [visited EXCEPT ![Top] = @ + 1]
  BY DEF Enter
<1>4. stack' \in Seq(Blocks)
  <2>1. IsPushed(stack', Top, {s1[Top], s2[Top]} \ {NoBlock})
    BY <1>1, <1>2, QueuedFacts DEF Traversing, TypeOK
  <2>. QED  BY <2>1 DEF IsPushed
<1>5. visited[Top] \in Nat /\ visited[Top] <= base /\ base \in {0, 2}
  BY <1>1 DEF Entered, TypeOK
<1>6. visited' \in [Blocks -> 0 .. 4]
  BY <1>1, <1>3, <1>5 DEF TypeOK
<1>7. TypeOK'
  BY <1>1, <1>2, <1>4, <1>6 DEF Enter, TypeOK, renameVars
<1>8. Shape'
  BY <1>2 DEF Enter, TypeInv, Shape
<1>9. /\ \A b \in Blocks : OnStack(b) => OnStack(b)'
      /\ \A b \in Blocks : b = Top => OnStack(b)'
  BY <1>1, <1>2, QueueKeeps
<1>10. \A b \in Blocks \ {Top} : Entered(b)' = Entered(b) /\ Done(b)' = Done(b)
  BY <1>1, <1>3 DEF Enter, Entered, Done, TypeOK
<1>11. \A b \in Blocks : visited'[b] <= base + 2
  BY <1>1, <1>3, <1>5 DEF TypeInv, Walk, TypeOK
<1>12. ~Done(Top)
  BY <1>5 DEF Done
<1>13. Walk'
  <2>1. \A b \in Blocks : Entered(b)' /\ ~Done(b)' => OnStack(b)'
    BY <1>9, <1>10 DEF TypeInv, Walk
  <2>2. OnStack(Entry)' \/ Done(Entry)'
    BY <1>1, <1>9, <1>10, <1>12, EntryIsBlock DEF TypeInv, Walk, Traversing
  <2>. QED
    BY <1>1, <1>11, <2>1, <2>2 DEF Enter, TypeInv, Walk, Traversing
<1>. QED  BY <1>7, <1>8, <1>13 DEF TypeInv

\* what the two forms of the second visit to a block have in common
Leave ==
  /\ Traversing
  /\ Entered(Top) /\ ~Done(Top)
  /\ visited' = [visited EXCEPT ![Top] = @ + 1]
  /\ stack' = Rest
  /\ UNCHANGED <<phase, blks, cfgVars, base, renameVars>>

LEMMA LeaveFacts ==
  ASSUME TypeInv, Leave
  PROVE  /\ Top \in Blocks
         /\ visited[Top] = base + 1 /\ visited'[Top] = base + 2
         /\ \A b \in Blocks : b = Top => Entered(b)' /\ Done(b)'
         /\ visited' \in [Blocks -> 0 .. 4]
         /\ stack' \in Seq(Blocks)
         /\ \A b \in Blocks \ {Top} : Entered(b)' = Entered(b) /\ Done(b)' = Done(b)
         /\ \A b \in Blocks \ {Top} : OnStack(b) => OnStack(b)'
<1>1. /\ Top \in Blocks /\ Rest \in Seq(Blocks)
  BY PopFacts DEF Leave, Traversing, TypeInv, TypeOK
<1>2. visited[Top] \in Nat /\ base \in {0, 2} /\ visited \in [Blocks -> 0 .. 4]
  BY <1>1 DEF TypeInv, TypeOK
<1>3. visited[Top] = base + 1 /\ visited'[Top] = base + 2
  BY <1>1, <1>2 DEF Leave, Entered, Done
<1>4. visited' \in [Blocks -> 0 .. 4]
  BY <1>1, <1>2, <1>3 DEF Leave
<1>5. \A b \in Blocks : b = Top => Entered(b)' /\ Done(b)'
  BY <1>1, <1>2, <1>3 DEF Leave, Entered, Done
<1>6. \A b \in Blocks \ {Top} : Entered(b)' = Entered(b) /\ Done(b)' = Done(b)
  BY <1>1, <1>2 DEF Leave, Entered, Done
<1>7. \A b \in Blocks \ {Top} : OnStack(b) => OnStack(b)'
  BY PopKeeps DEF Leave, TypeInv
<1>. QED
  BY <1>1, <1>3, <1>4, <1>5, <1>6, <1>7 DEF Leave

LEMMA LeaveWalk ==
  ASSUME TypeInv, Leave PROVE Shape' /\ Walk'
<1>1. Shape'
  BY DEF Leave, TypeInv, Shape, cfgVars
<1>2. \A b \in Blocks : Entered(b)' /\ ~Done(b)' => OnStack(b)'
  BY LeaveFacts DEF TypeInv, Walk
<1>3. OnStack(Entry)' \/ Done(Entry)'
  BY LeaveFacts, EntryIsBlock DEF Leave, Traversing, TypeInv, Walk
<1>4. \A b \in Blocks : visited'[b] <= base + 2
  BY LeaveFacts DEF Leave, TypeInv, Walk, TypeOK
<1>5. Walk'
  BY <1>2, <1>3, <1>4 DEF Leave, Traversing, TypeInv, Walk
<1>. QED  BY <1>1, <1>5

LEMMA BuildWorkTypeInv ==
  ASSUME TypeInv, BuildWork PROVE TypeInv'
<1>1. Leave
  BY DEF BuildWork, Leave
<1>2. params' \in [Blocks -> SUBSET Tmps]
  BY <1>1, LeaveFacts, RequiredType DEF BuildWork, TypeInv, TypeOK
<1>3. TypeOK'
  BY <1>1, <1>2, LeaveFacts DEF BuildWork, TypeInv, TypeOK, cfgVars, renameVars
<1>. QED  BY <1>1, <1>3, LeaveWalk DEF TypeInv

LEMMA CollectWorkTypeInv ==
  ASSUME TypeInv, CollectWork PROVE TypeInv'
<1>1. Leave
  BY DEF CollectWork, Leave
<1>2. args1' \in [Blocks -> SUBSET Tmps] /\ args2' \in [Blocks -> SUBSET Tmps]
  <2>1. /\ Top \in Blocks
        /\ s1[Top] \in Blocks \cup {NoBlock} /\ s2[Top] \in Blocks \cup {NoBlock}
    BY <1>1, LeaveFacts DEF TypeInv, TypeOK
  <2>. QED  BY <2>1 DEF CollectWork, TypeInv, TypeOK
<1>3. TypeOK'
  BY <1>1, <1>2, LeaveFacts DEF CollectWork, TypeInv, TypeOK, cfgVars, renameVars
<1>. QED  BY <1>1, <1>3, LeaveWalk DEF TypeInv

(* The other actions leave the traversal or do not touch it.                *)
LEMMA RemoveUnvisitedTypeInv ==
  ASSUME TypeInv, RemoveUnvisited PROVE TypeInv'
<1>1. stack = <<>> /\ base = 0 /\ phase = "build"
  BY DEF RemoveUnvisited, TypeInv, Walk
<1>2. \A b \in Blocks : ~OnStack(b)
  BY <1>1, EmptySeq DEF OnStack
<1>3. visited[Entry] = 2
  <2>1. Done(Entry) /\ visited[Entry] <= 2 /\ visited[Entry] \in Nat
    BY <1>1, <1>2, EntryIsBlock DEF TypeInv, Walk, TypeOK
  <2>. QED  BY <1>1, <2>1 DEF Done
<1>4. stack' = <<Entry>> /\ stack' \in Seq(Blocks) /\ OnStack(Entry)'
  BY EntryIsBlock DEF RemoveUnvisited, OnStack
<1>5. TypeOK'
  BY <1>3, <1>4 DEF RemoveUnvisited, TypeInv, TypeOK, Phases, cfgVars, renameVars
<1>6. Shape'
  BY DEF RemoveUnvisited, TypeInv, Shape, cfgVars
<1>7. \A b \in Blocks : visited[b] <= 2 /\ visited[b] \in Nat
  BY <1>1 DEF TypeInv, Walk, TypeOK
<1>8. Walk'
  BY <1>3, <1>4, <1>7 DEF RemoveUnvisited, Walk, Entered, Done
<1>. QED  BY <1>5, <1>6, <1>8 DEF TypeInv

LEMMA StartRenameTypeInv ==
  ASSUME TypeInv, StartRename PROVE TypeInv'
<1>1. TypeOK'
  BY DEF StartRename, TypeInv, TypeOK, Phases, cfgVars, renameVars
<1>2. Shape'
  BY DEF StartRename, TypeInv, Shape, cfgVars
<1>3. Walk'
  BY DEF StartRename, TypeInv, Walk, Entered, Done, OnStack
<1>. QED  BY <1>1, <1>2, <1>3 DEF TypeInv

LEMMA RenameTypeInv ==
  ASSUME TypeInv, Rename PROVE TypeInv'
<1>1. PICK b \in Blocks :
        /\ next' = next + Cardinality(params[b]) + Cardinality(DefinesAt(b))
        /\ pos' = b
  BY DEF Rename
<1>2. Cardinality(params[b]) \in Nat /\ Cardinality(DefinesAt(b)) \in Nat
  BY CountsAreNat DEF TypeInv
<1>3. next' \in Nat /\ pos' \in 0 .. NB
  BY <1>1, <1>2, SizeAssumption DEF TypeInv, TypeOK, Blocks
<1>4. TypeOK'
  BY <1>3 DEF Rename, TypeInv, TypeOK, cfgVars
<1>5. Shape'
  BY DEF Rename, TypeInv, Shape, cfgVars
<1>6. Walk'
  BY DEF Rename, TypeInv, Walk, Entered, Done, OnStack
<1>. QED  BY <1>4, <1>5, <1>6 DEF TypeInv

LEMMA EndTypeInv ==
  ASSUME TypeInv, RenameAbort \/ Finish PROVE TypeInv'
<1>1. TypeOK'
  BY DEF RenameAbort, Finish, TypeInv, TypeOK, Phases, cfgVars, renameVars
<1>2. Shape'
  BY DEF RenameAbort, Finish, TypeInv, Shape, cfgVars
<1>3. Walk'
  BY DEF RenameAbort, Finish, TypeInv, Walk, Entered, Done, OnStack
<1>. QED  BY <1>1, <1>2, <1>3 DEF TypeInv

LEMMA StutterTypeInv ==
  ASSUME TypeInv, UNCHANGED vars PROVE TypeInv'
BY DEF TypeInv, TypeOK, Shape, Walk, Entered, Done, OnStack, vars, cfgVars, renameVars

LEMMA NextTypeInv == TypeInv /\ [Next]_vars => TypeInv'
BY SkipTypeInv, EnterTypeInv, BuildWorkTypeInv, CollectWorkTypeInv,
   RemoveUnvisitedTypeInv, StartRenameTypeInv, RenameTypeInv, EndTypeInv,
   StutterTypeInv DEF Next

LEMMA TypeInvariance == Spec => []TypeInv
BY InitTypeInv, NextTypeInv, PTL DEF Spec

(* For every function, whatever its size and its edges, the pass keeps its  *)
(* state well formed: no block's counter passes 4, the stack holds blocks   *)
(* only, and the fresh numbers are naturals.                                *)
THEOREM TypeCorrect == Spec => []TypeOK
<1>1. TypeInv => TypeOK
  BY DEF TypeInv
<1>. QED  BY <1>1, TypeInvariance, PTL
-----------------------------------------------------------------------------
(* Which blocks the two traversals visit, for functions of any size and     *)
(* with any edges, loops included: both visit the least set of blocks that  *)
(* holds the entry and is closed under the edges, so that every block kept  *)
(* is worked on by collect_params and an edge's arguments agree with its    *)
(* target's parameters.                                                     *)

LEMMA SuccFacts ==
  ASSUME TypeOK, NEW b \in Blocks
  PROVE  /\ Succ(b) \subseteq Blocks
         /\ Succ(b) = {s1[b], s2[b]} \ {NoBlock}
         /\ s1[b] \in Blocks \cup {NoBlock} /\ s2[b] \in Blocks \cup {NoBlock}
BY DEF TypeOK, Succ

\* no action changes an edge
LEMMA EdgesStay ==
  ASSUME TypeInv, [Next]_vars
  PROVE  s1' = s1 /\ s2' = s2 /\ body' = body /\ ret' = ret
<1>1. CASE Enter
  BY <1>1, EnterKeepsEdges DEF Enter
<1>2. CASE ~Enter
  BY <1>2 DEF Next, vars, cfgVars, Skip, BuildWork, CollectWork,
       RemoveUnvisited, StartRename, Rename, RenameAbort, Finish
<1>. QED  BY <1>1, <1>2

LEMMA SuccStays ==
  ASSUME s1' = s1, s2' = s2
  PROVE  \A b \in Blocks : Succ(b)' = Succ(b)
BY DEF Succ

IsClosed(S) == Entry \in S /\ \A b \in S : Succ(b) \subseteq S

\* an edge from an entered block leads to an entered or a queued one
Frontier ==
  \A b \in Blocks : Entered(b) => \A s \in Succ(b) : Entered(s) \/ OnStack(s)

\* once build_params has returned, the blocks kept are those it visited
Kept ==
  /\ phase = "build" => blks = Blocks
  /\ phase # "build" => /\ blks = {b \in Blocks : visited[b] >= 2}
                        /\ IsClosed(blks)
                        /\ \A b \in Blocks : OnStack(b) => b \in blks

\* what is visited or queued is in every closed set
Least ==
  \A S \in SUBSET Blocks : IsClosed(S) =>
    \A b \in Blocks : (phase = "build" /\ Entered(b)) \/ (phase # "build" /\ b \in blks)
                        \/ OnStack(b) => b \in S

Revisited == phase \notin {"build", "collect"} => \A b \in blks : Done(b)

ReachInv == TypeInv /\ Frontier /\ Kept /\ Least /\ Revisited

LEMMA InitReach == Init => ReachInv
<1>. SUFFICES ASSUME Init PROVE ReachInv
  OBVIOUS
<1>1. \A b \in Blocks : ~Entered(b)
  BY DEF Init, Entered
<1>2. \A b \in Blocks : OnStack(b) => b = Entry
  BY DEF Init, OnStack
<1>. QED
  BY <1>1, <1>2, InitTypeInv DEF Init, ReachInv, Frontier, Kept, Least, Revisited, IsClosed

\* a step that removes the top of the stack, a block finished by then
LEMMA PopReach ==
  ASSUME ReachInv, Traversing, stack' = Rest, phase' = phase, blks' = blks,
         s1' = s1, s2' = s2, Entered(Top),
         \A b \in Blocks : Entered(b)' = Entered(b),
         \A b \in Blocks : visited'[b] >= 2 <=> visited[b] >= 2 \/ (phase = "build" /\ b = Top)
  PROVE  Frontier' /\ Kept' /\ Least' /\ Revisited'
<1>1. \A b \in Blocks : Succ(b)' = Succ(b) /\ Succ(b) \subseteq Blocks
  BY SuccStays, SuccFacts DEF ReachInv, TypeInv
<1>2. \A b \in Blocks : /\ b # Top /\ OnStack(b) => OnStack(b)'
                        /\ OnStack(b)' => OnStack(b)
  BY PopKeeps DEF ReachInv, TypeInv
<1>3. \A S \in SUBSET Blocks : IsClosed(S)' = IsClosed(S)
  BY <1>1 DEF IsClosed
<1>4. blks \in SUBSET Blocks
  BY DEF ReachInv, TypeInv, TypeOK
<1>5. Frontier'
  BY <1>1, <1>2 DEF ReachInv, Frontier
<1>6. Kept'
  BY <1>2, <1>3, <1>4 DEF ReachInv, Kept
<1>7. Least'
  BY <1>2, <1>3 DEF ReachInv, Least
<1>8. Revisited'
  BY DEF Traversing, Revisited
<1>. QED  BY <1>5, <1>6, <1>7, <1>8

LEMMA SkipReach == ASSUME ReachInv, Skip PROVE ReachInv'
<1>1. Traversing /\ Top \in Blocks /\ Done(Top)
  BY PopFacts DEF Skip, Traversing, ReachInv, TypeInv, TypeOK
<1>2. Entered(Top)
  BY <1>1 DEF Entered, Done, ReachInv, TypeInv, TypeOK
<1>3. \A b \in Blocks : Entered(b)' = Entered(b)
  BY DEF Skip, Entered
<1>4. phase = "build" => visited[Top] >= 2
  BY <1>1 DEF Done, ReachInv, TypeInv, Walk
<1>5. \A b \in Blocks : visited'[b] >= 2 <=> visited[b] >= 2 \/ (phase = "build" /\ b = Top)
  BY <1>4 DEF Skip
<1>. QED
  BY <1>1, <1>2, <1>3, <1>5, PopReach, SkipTypeInv DEF Skip, cfgVars, ReachInv

LEMMA LeaveReach ==
  ASSUME ReachInv, Leave PROVE Frontier' /\ Kept' /\ Least' /\ Revisited'
<1>1. PICK t \in Blocks : t = Top
  BY LeaveFacts DEF ReachInv
<1>2. /\ visited[t] = base + 1 /\ visited'[t] = base + 2 /\ base \in {0, 2}
      /\ \A b \in Blocks \ {t} : visited'[b] = visited[b]
      /\ base = IF phase = "build" THEN 0 ELSE 2
  BY <1>1, LeaveFacts DEF Leave, ReachInv, TypeInv, TypeOK, Walk
<1>3. \A b \in Blocks : Entered(b)' = Entered(b)
  BY <1>1, <1>2 DEF Leave, Entered
<1>4. \A b \in Blocks : visited'[b] >= 2 <=> visited[b] >= 2 \/ (phase = "build" /\ b = Top)
  BY <1>1, <1>2
<1>. QED
  BY <1>3, <1>4, PopReach DEF Leave, cfgVars

LEMMA EnterReach == ASSUME ReachInv, Enter PROVE ReachInv'
<1>1. PICK t \in Blocks : t = Top
  BY PopFacts DEF Enter, Traversing, ReachInv, TypeInv, TypeOK
<1>2. s1' = s1 /\ s2' = s2 /\ stack' = Queued(Top, s1[Top], s2[Top])
  BY EnterKeepsEdges DEF ReachInv
<1>3. /\ Succ(t) = {s1[Top], s2[Top]} \ {NoBlock}
      /\ s1[Top] \in Blocks \cup {NoBlock} /\ s2[Top] \in Blocks \cup {NoBlock}
  BY <1>1, SuccFacts DEF ReachInv, TypeInv
<1>4. \A b \in Blocks : Succ(b)' = Succ(b) /\ Succ(b) \subseteq Blocks
  BY <1>2, SuccStays, SuccFacts DEF ReachInv, TypeInv
<1>5. /\ \A b \in Blocks : OnStack(b) => OnStack(b)'
      /\ \A s \in Succ(t) : OnStack(s)'
      /\ \A b \in Blocks : OnStack(b)' => OnStack(b) \/ b \in Succ(t)
  BY <1>1, <1>2, <1>3, QueueKeeps DEF Enter, ReachInv, TypeInv
<1>6. OnStack(t)
  BY <1>1, PopFacts DEF OnStack, Top, Enter, Traversing, ReachInv, TypeInv, TypeOK
<1>7. /\ visited'[t] = visited[t] + 1 /\ visited[t] \in Nat /\ base' = base
      /\ phase' = phase /\ blks' = blks
      /\ \A b \in Blocks \ {t} : visited'[b] = visited[b]
      /\ base = IF phase = "build" THEN 0 ELSE 2
      /\ ~Entered(t) /\ Traversing
  BY <1>1 DEF Enter, ReachInv, TypeInv, TypeOK, Walk
<1>8. \A b \in Blocks : (Entered(b) => Entered(b)') /\ (Entered(b)' => Entered(b) \/ b = t)
  BY <1>7 DEF Entered
<1>9. \A S \in SUBSET Blocks : IsClosed(S)' = IsClosed(S)
  BY <1>4 DEF IsClosed
<1>10. blks \in SUBSET Blocks
  BY DEF ReachInv, TypeInv, TypeOK
<1>11. Frontier'
  BY <1>4, <1>5, <1>8 DEF ReachInv, Frontier
<1>12. Kept'
  <2>1. phase # "build" => t \in blks /\ visited[t] >= 2
    BY <1>6 DEF ReachInv, Kept
  <2>2. phase # "build" => {b \in Blocks : visited'[b] >= 2} = {b \in Blocks : visited[b] >= 2}
    BY <1>7, <2>1
  <2>3. phase # "build" => \A b \in Blocks : OnStack(b)' => b \in blks
    BY <1>5, <2>1 DEF ReachInv, Kept, IsClosed
  <2>. QED  BY <1>7, <1>9, <1>10, <2>2, <2>3 DEF ReachInv, Kept
<1>13. Least'
  <2>1. \A S \in SUBSET Blocks : IsClosed(S) => t \in S /\ Succ(t) \subseteq S
    BY <1>6 DEF ReachInv, Least, IsClosed
  <2>. QED  BY <1>5, <1>7, <1>8, <1>9, <2>1 DEF ReachInv, Least
<1>14. Revisited'
  BY <1>7 DEF Traversing, Revisited
<1>. QED  BY <1>11, <1>12, <1>13, <1>14, EnterTypeInv DEF ReachInv

LEMMA RemoveUnvisitedReach == ASSUME ReachInv, RemoveUnvisited PROVE ReachInv'
<1>1. /\ stack = <<>> /\ base = 0 /\ phase = "build" /\ base' = 2 /\ phase' = "collect"
      /\ s1' = s1 /\ s2' = s2 /\ visited' = visited /\ stack' = <<Entry>>
  BY RemoveUnvisitedTypeInv DEF RemoveUnvisited, cfgVars, ReachInv, TypeInv, Walk
<1>2. \A b \in Blocks : ~OnStack(b)
  BY <1>1, EmptySeq DEF OnStack
<1>3. \A b \in Blocks : visited[b] <= 2 /\ visited[b] \in Nat
  BY <1>1 DEF ReachInv, TypeInv, Walk, TypeOK
<1>4. \A b \in Blocks : Entered(b) <=> visited[b] >= 2
  BY <1>1, <1>2, <1>3 DEF ReachInv, TypeInv, Walk, Entered, Done
<1>5. visited[Entry] = 2
  BY <1>1, <1>2, <1>3, EntryIsBlock DEF ReachInv, TypeInv, Walk, Done
<1>6. \A b \in Blocks : Succ(b)' = Succ(b) /\ Succ(b) \subseteq Blocks
  BY <1>1, SuccStays, SuccFacts DEF ReachInv, TypeInv
<1>7. blks' = {b \in Blocks : visited[b] >= 2}
  BY <1>1, <1>5 DEF RemoveUnvisited, ReachInv, Kept
<1>8. IsClosed(blks')
  BY <1>2, <1>4, <1>5, <1>6, <1>7, EntryIsBlock DEF IsClosed, ReachInv, Frontier
<1>9. \A b \in Blocks : OnStack(b)' => b = Entry
  BY <1>1 DEF OnStack
<1>10. \A b \in Blocks : ~Entered(b)'
  BY <1>1, <1>3 DEF Entered
<1>11. Frontier'
  BY <1>10 DEF Frontier
<1>12. Kept'
  BY <1>1, <1>6, <1>7, <1>8, <1>9 DEF Kept, IsClosed
<1>13. \A S \in SUBSET Blocks : IsClosed(S)' = IsClosed(S)
  BY <1>6 DEF IsClosed
<1>14. Least'
  BY <1>1, <1>4, <1>7, <1>9, <1>13 DEF ReachInv, Least, IsClosed
<1>15. Revisited'
  BY <1>1 DEF Revisited
<1>. QED  BY <1>11, <1>12, <1>14, <1>15, RemoveUnvisitedTypeInv DEF ReachInv

(* collect_params has worked on every block it was to work on: the blocks   *)
(* it visited are a closed set, and the blocks kept are the least one.      *)
LEMMA StartRenameReach == ASSUME ReachInv, StartRename PROVE ReachInv'
<1>1. /\ stack = <<>> /\ phase = "collect" /\ base = 2 /\ phase' = "rename"
      /\ UNCHANGED <<s1, s2, visited, stack, blks, base>>
  BY DEF StartRename, cfgVars, ReachInv, TypeInv, Walk
<1>2. \A b \in Blocks : ~OnStack(b)
  BY <1>1, EmptySeq DEF OnStack
<1>3. \A b \in Blocks : Succ(b)' = Succ(b) /\ Succ(b) \subseteq Blocks
  BY <1>1, SuccStays, SuccFacts DEF ReachInv, TypeInv
<1>. DEFINE E == {b \in Blocks : Entered(b)}
<1>4. IsClosed(E)
  <2>1. Entered(Entry)
    <3>1. Done(Entry)
      BY <1>1, <1>2, EntryIsBlock DEF ReachInv, TypeInv, Walk
    <3>. QED  BY <1>1, <3>1, EntryIsBlock DEF Done, Entered, ReachInv, TypeInv, TypeOK
  <2>. QED  BY <1>2, <1>3, <2>1, EntryIsBlock DEF IsClosed, ReachInv, Frontier
<1>5. \A b \in blks : Entered(b)
  <2>1. \A b \in Blocks : b \in blks => b \in E
    BY <1>1, <1>4 DEF ReachInv, Least
  <2>. QED  BY <2>1 DEF ReachInv, TypeInv, TypeOK
<1>6. \A b \in blks : Done(b)
  BY <1>2, <1>5 DEF ReachInv, TypeInv, TypeOK, Walk
<1>7. Revisited'
  BY <1>1, <1>6 DEF Revisited, Done
<1>8. \A b \in Blocks : OnStack(b)' = OnStack(b) /\ Entered(b)' = Entered(b)
  BY <1>1 DEF OnStack, Entered
<1>9. \A S \in SUBSET Blocks : IsClosed(S)' = IsClosed(S)
  BY <1>3 DEF IsClosed
<1>10. blks \in SUBSET Blocks
  BY DEF ReachInv, TypeInv, TypeOK
<1>11. Frontier' /\ Kept' /\ Least'
  BY <1>1, <1>3, <1>8, <1>9, <1>10 DEF ReachInv, Frontier, Kept, Least
<1>. QED  BY <1>7, <1>11, StartRenameTypeInv DEF ReachInv

LEMMA LateReach ==
  ASSUME ReachInv, Rename \/ RenameAbort \/ Finish \/ UNCHANGED vars
  PROVE  ReachInv'
<1>1. /\ UNCHANGED <<s1, s2, visited, stack, blks, base>>
      /\ (phase = "build") = (phase' = "build")
      /\ phase' \notin {"build", "collect"} => phase \notin {"build", "collect"}
  BY DEF Rename, RenameAbort, Finish, vars, cfgVars
<1>2. \A b \in Blocks : Succ(b)' = Succ(b) /\ Succ(b) \subseteq Blocks
  BY <1>1, SuccStays, SuccFacts DEF ReachInv, TypeInv
<1>3. \A b \in Blocks : /\ OnStack(b)' = OnStack(b)
                        /\ Entered(b)' = Entered(b) /\ Done(b)' = Done(b)
  BY <1>1 DEF OnStack, Entered, Done
<1>4. \A S \in SUBSET Blocks : IsClosed(S)' = IsClosed(S)
  BY <1>2 DEF IsClosed
<1>5. blks \in SUBSET Blocks
  BY DEF ReachInv, TypeInv, TypeOK
<1>6. Frontier'
  BY <1>2, <1>3 DEF ReachInv, Frontier
<1>7. Kept'
  BY <1>1, <1>3, <1>4, <1>5 DEF ReachInv, Kept
<1>8. Least'
  BY <1>1, <1>3, <1>4 DEF ReachInv, Least
<1>9. Revisited'
  BY <1>1, <1>3, <1>5 DEF ReachInv, Revisited
<1>. QED
  BY <1>6, <1>7, <1>8, <1>9, RenameTypeInv, EndTypeInv, StutterTypeInv DEF ReachInv

LEMMA NextReach == ReachInv /\ [Next]_vars => ReachInv'
<1>. SUFFICES ASSUME ReachInv, [Next]_vars PROVE ReachInv'
  OBVIOUS
<1>1. CASE BuildWork
  <2>1. Leave
    BY <1>1 DEF BuildWork, Leave
  <2>. QED  BY <1>1, <2>1, LeaveReach, BuildWorkTypeInv DEF ReachInv
<1>2. CASE CollectWork
  <2>1. Leave
    BY <1>2 DEF CollectWork, Leave
  <2>. QED  BY <1>2, <2>1, LeaveReach, CollectWorkTypeInv DEF ReachInv
<1>. QED
  BY <1>1, <1>2, SkipReach, EnterReach, RemoveUnvisitedReach, StartRenameReach,
     LateReach DEF Next

LEMMA ReachInvariance == Spec => []ReachInv
BY InitReach, NextReach, PTL DEF Spec

-----------------------------------------------------------------------------
(* Arguments and parameters of an edge.                                     *)

\* what collect_params gives the edge to s
Passed(b, s) == IF Done(b) /\ s # NoBlock THEN params[s] ELSE {}

Filled ==
  /\ phase = "build" => \A b \in Blocks : args1[b] = {} /\ args2[b] = {}
  /\ phase # "build" =>
       \A b \in Blocks : args1[b] = Passed(b, s1[b]) /\ args2[b] = Passed(b, s2[b])

\* the blocks renamed so far carry their lists' names
Renamed ==
  /\ DOMAIN newParam = Blocks /\ DOMAIN newArg1 = Blocks /\ DOMAIN newArg2 = Blocks
  /\ phase \in {"build", "collect"} => pos = 0
  /\ \A b \in blks : b <= pos =>
       /\ DOMAIN newParam[b] = params[b]
       /\ DOMAIN newArg1[b] = args1[b] /\ DOMAIN newArg2[b] = args2[b]
  /\ phase = "done" => \A b \in blks : b <= pos

EdgeInv == ReachInv /\ Filled /\ Renamed

LEMMA InitEdge == Init => EdgeInv
<1>. SUFFICES ASSUME Init PROVE EdgeInv
  OBVIOUS
<1>1. \A b \in blks : ~(b <= pos)
  BY SizeAssumption DEF Init, Blocks
<1>. QED  BY <1>1, InitReach DEF Init, EdgeInv, Filled, Renamed

LEMMA CollectWorkEdge == ASSUME EdgeInv, CollectWork PROVE Filled'
<1>1. /\ Leave /\ phase = "collect" /\ phase' = "collect"
      /\ s1' = s1 /\ s2' = s2 /\ params' = params
  BY DEF CollectWork, Leave, cfgVars
<1>2. PICK t \in Blocks : t = Top
  BY <1>1, LeaveFacts DEF EdgeInv, ReachInv
<1>3. /\ ~Done(t) /\ Done(t)' /\ \A b \in Blocks \ {t} : Done(b)' = Done(b)
  BY <1>1, <1>2, LeaveFacts DEF Leave, EdgeInv, ReachInv
<1>4. args1[t] = {} /\ args2[t] = {}
  BY <1>1, <1>3 DEF EdgeInv, Filled, Passed
<1>5. /\ \A b \in Blocks \ {t} : args1'[b] = args1[b] /\ args2'[b] = args2[b]
      /\ args1'[t] = IF s1[t] # NoBlock THEN params[s1[t]] ELSE {}
      /\ args2'[t] = IF s2[t] # NoBlock THEN params[s2[t]] ELSE {}
  BY <1>2, <1>4 DEF CollectWork, EdgeInv, ReachInv, TypeInv, TypeOK
<1>6. \A b \in Blocks : /\ args1'[b] = (Passed(b, s1[b]))'
                        /\ args2'[b] = (Passed(b, s2[b]))'
  BY <1>1, <1>3, <1>5 DEF EdgeInv, Filled, Passed
<1>. QED  BY <1>1, <1>6 DEF Filled

LEMMA RenameEdge == ASSUME EdgeInv, Rename PROVE Renamed'
<1>1. PICK b \in Blocks :
        /\ Current(b)
        /\ newParam' = [newParam EXCEPT ![b] = ParamNumber(b)]
        /\ newArg1' = [newArg1 EXCEPT ![b] = [t \in args1[b] |-> Latest(b, t)]]
        /\ newArg2' = [newArg2 EXCEPT ![b] = [t \in args2[b] |-> Latest(b, t)]]
        /\ pos' = b
  BY DEF Rename
<1>2. /\ DOMAIN newParam' = Blocks /\ DOMAIN newArg1' = Blocks /\ DOMAIN newArg2' = Blocks
  BY <1>1 DEF EdgeInv, Renamed
<1>3. DOMAIN ParamNumber(b) = params[b]
  BY DEF ParamNumber
<1>4. /\ DOMAIN newParam'[b] = params[b]
      /\ DOMAIN newArg1'[b] = args1[b] /\ DOMAIN newArg2'[b] = args2[b]
  BY <1>1, <1>3 DEF EdgeInv, Renamed
<1>5. \A c \in blks : c # b => /\ newParam'[c] = newParam[c]
                              /\ newArg1'[c] = newArg1[c] /\ newArg2'[c] = newArg2[c]
  BY <1>1 DEF EdgeInv, Renamed, ReachInv, TypeInv, TypeOK
<1>6. \A c \in blks : c <= b /\ c # b => c <= pos
  <2>1. TAKE c \in blks
  <2>2. c \in Nat /\ b \in Nat /\ pos \in Nat
    BY SizeAssumption DEF EdgeInv, ReachInv, TypeInv, TypeOK, Blocks
  <2>3. c \in Pending => b <= c
    BY <1>1 DEF Current
  <2>. QED  BY <2>2, <2>3 DEF Pending
<1>7. phase' = "rename" /\ blks' = blks /\ params' = params /\ args1' = args1 /\ args2' = args2
  BY DEF Rename
<1>. QED  BY <1>1, <1>2, <1>4, <1>5, <1>6, <1>7 DEF EdgeInv, Renamed

LEMMA NextEdge == EdgeInv /\ [Next]_vars => EdgeInv'
<1>. SUFFICES ASSUME EdgeInv, [Next]_vars PROVE EdgeInv'
  OBVIOUS
<1>1. ReachInv'
  BY NextReach DEF EdgeInv
<1>2. s1' = s1 /\ s2' = s2
  BY EdgesStay DEF EdgeInv, ReachInv
<1>3. CASE CollectWork
  <2>1. Renamed'
    <3>1. \A b \in blks : ~(b <= pos)
      BY <1>3, SizeAssumption
         DEF CollectWork, EdgeInv, Renamed, ReachInv, TypeInv, TypeOK, Blocks
    <3>. QED  BY <1>3, <3>1 DEF CollectWork, renameVars, EdgeInv, Renamed
  <2>. QED  BY <1>1, <1>3, <2>1, CollectWorkEdge DEF EdgeInv
<1>4. CASE Rename
  <2>1. \A b \in Blocks : Done(b)' = Done(b)
    BY <1>4 DEF Rename, Done
  <2>2. Filled'
    BY <1>4, <2>1 DEF Rename, cfgVars, EdgeInv, Filled, Passed
  <2>. QED  BY <1>1, <1>4, <2>2, RenameEdge DEF EdgeInv
<1>5. CASE Skip \/ Enter \/ BuildWork \/ RemoveUnvisited
  <2>1. UNCHANGED <<args1, args2, renameVars>>
    BY <1>5 DEF Skip, Enter, BuildWork, RemoveUnvisited
  <2>2. /\ phase' # "build" /\ phase # "build" => params' = params
        /\ phase \in {"build", "collect"} /\ phase' \in {"build", "collect"}
    BY <1>5 DEF Skip, Enter, BuildWork, RemoveUnvisited, Traversing
  <2>3. phase # "build" => phase' # "build" /\ \A b \in Blocks : Done(b)' = Done(b)
    <3>1. CASE Skip
      BY <3>1 DEF Skip, Done
    <3>2. CASE Enter
      <4>1. PICK t \in Blocks : t = Top
        BY <3>2, PopFacts DEF Enter, Traversing, EdgeInv, ReachInv, TypeInv, TypeOK
      <4>. QED
        BY <3>2, <4>1 DEF Enter, Entered, Done, EdgeInv, ReachInv, TypeInv, TypeOK
    <3>. QED  BY <1>5, <3>1, <3>2 DEF BuildWork, RemoveUnvisited
  <2>4. phase = "build" /\ phase' # "build" => \A b \in Blocks : ~Done(b)'
    <3>1. SUFFICES ASSUME RemoveUnvisited PROVE \A b \in Blocks : ~Done(b)'
      BY <1>5 DEF Skip, Enter, BuildWork
    <3>2. base' = 2 /\ visited' = visited /\ base = 0
      BY <1>1, <3>1 DEF RemoveUnvisited, EdgeInv, ReachInv, TypeInv, Walk
    <3>. QED  BY <3>2 DEF EdgeInv, ReachInv, TypeInv, TypeOK, Walk, Done
  <2>5. Filled'
    BY <1>2, <2>1, <2>2, <2>3, <2>4 DEF EdgeInv, Filled, Passed
  <2>6. blks' \subseteq Blocks
    BY <1>1 DEF ReachInv, TypeInv, TypeOK
  <2>7. \A b \in Blocks : ~(b <= pos)
    BY <2>2, SizeAssumption DEF EdgeInv, Renamed, Blocks
  <2>8. Renamed'
    BY <2>1, <2>2, <2>6, <2>7 DEF renameVars, EdgeInv, Renamed
  <2>. QED  BY <1>1, <2>5, <2>8 DEF EdgeInv
<1>6. CASE StartRename \/ RenameAbort \/ Finish \/ UNCHANGED vars
  <2>1. /\ UNCHANGED <<visited, base, blks, params, args1, args2, renameVars>>
        /\ (phase = "build") = (phase' = "build")
        /\ phase' \in {"build", "collect"} => phase \in {"build", "collect"}
    BY <1>6 DEF StartRename, RenameAbort, Finish, vars
  <2>2. phase' = "done" => phase = "done" \/ Pending = {}
    BY <1>6 DEF StartRename, RenameAbort, Finish, vars
  <2>3. phase' = "done" => \A b \in blks : b <= pos
    BY <2>2, SizeAssumption
       DEF Pending, EdgeInv, Renamed, ReachInv, TypeInv, TypeOK, Blocks
  <2>4. \A b \in Blocks : Done(b)' = Done(b)
    BY <2>1 DEF Done
  <2>5. Filled'
    BY <1>2, <2>1, <2>4 DEF EdgeInv, Filled, Passed
  <2>6. Renamed'
    BY <2>1, <2>3 DEF renameVars, EdgeInv, Renamed
  <2>. QED  BY <1>1, <2>5, <2>6 DEF EdgeInv
<1>. QED  BY <1>3, <1>4, <1>5, <1>6 DEF Next

(* When the pass is over every edge of every block kept carries one         *)
(* argument for each parameter of its target, loops or not: what            *)
(* assert(vec_len(params) == vec_len(args)) in asm.c:462 relies on.         *)
THEOREM ArgumentsMatch == Spec => []EdgesMatchParams
<1>1. EdgeInv => EdgesMatchParams
  <2>. SUFFICES ASSUME EdgeInv, phase = "done", NEW b \in blks
                PROVE  /\ s1[b] # NoBlock => DOMAIN newArg1[b] = DOMAIN newParam[s1[b]]
                       /\ s2[b] # NoBlock => DOMAIN newArg2[b] = DOMAIN newParam[s2[b]]
    BY DEF EdgesMatchParams
  <2>1. b \in Blocks /\ Done(b)
    BY DEF EdgeInv, ReachInv, TypeInv, TypeOK, Revisited
  <2>2. \A c \in blks : DOMAIN newParam[c] = params[c]
    BY DEF EdgeInv, Renamed
  <2>3. DOMAIN newArg1[b] = args1[b] /\ DOMAIN newArg2[b] = args2[b]
    BY DEF EdgeInv, Renamed
  <2>4. args1[b] = Passed(b, s1[b]) /\ args2[b] = Passed(b, s2[b])
    BY <2>1 DEF EdgeInv, Filled
  <2>5. Succ(b) \subseteq blks
    BY DEF EdgeInv, ReachInv, Kept, IsClosed
  <2>. QED  BY <2>1, <2>2, <2>3, <2>4, <2>5 DEF Passed, Succ
<1>2. Spec => []EdgeInv
  BY InitEdge, NextEdge, PTL DEF Spec
<1>. QED  BY <1>1, <1>2, PTL

-----------------------------------------------------------------------------
(* Numbers. rename_temps gives the parameters of a block the next free      *)
(* numbers in the order of their names, and its definitions the ones after  *)
(* those in the order of the instructions.                                  *)

\* numbers below those of another element of the same set are fewer
LEMMA CountBefore ==
  ASSUME NEW S \in SUBSET Nat, IsFiniteSet(S), NEW t \in S
  PROVE  /\ Cardinality(Before(S, t)) \in 0 .. Cardinality(S) - 1
         /\ \A u \in S : Cardinality(Before(S, u)) = Cardinality(Before(S, t)) => u = t
<1>1. \A u \in S : /\ Before(S, u) \subseteq S /\ u \notin Before(S, u)
                   /\ IsFiniteSet(Before(S, u)) /\ Cardinality(Before(S, u)) \in Nat
                   /\ Cardinality(Before(S, u)) < Cardinality(S)
  <2>1. TAKE u \in S
  <2>2. Before(S, u) \subseteq S /\ u \notin Before(S, u)
    BY DEF Before
  <2>. QED  BY <2>2, FS_Subset, FS_CardinalityType
<1>2. ASSUME NEW u \in S, NEW v \in S, u < v
      PROVE  Cardinality(Before(S, u)) < Cardinality(Before(S, v))
  <2>1. Before(S, u) \subseteq Before(S, v) /\ u \in Before(S, v)
    <3>1. u \in Int /\ v \in Int /\ \A w \in S : w \in Int
      OBVIOUS
    <3>2. \A w \in S : w < u => w < v
      BY <1>2, <3>1
    <3>3. Before(S, u) \subseteq Before(S, v)
      BY <3>2 DEF Before
    <3>4. u \in Before(S, v)
      BY <1>2 DEF Before
    <3>. QED  BY <3>3, <3>4
  <2>. QED  BY <1>1, <2>1, FS_Subset
<1>3. Cardinality(S) \in Nat
  BY FS_CardinalityType
<1>4. \A u \in S : Cardinality(Before(S, u)) = Cardinality(Before(S, t)) => u = t
  <2>1. \A u \in S : u < t \/ t < u \/ u = t
    OBVIOUS
  <2>2. \A u \in S : Cardinality(Before(S, u)) \in Int
    BY <1>1
  <2>. QED  BY <1>2, <2>1, <2>2
<1>. QED  BY <1>1, <1>3, <1>4

LEMMA DefinesFacts ==
  ASSUME TypeOK, NEW b \in Blocks
  PROVE  /\ DefinesAt(b) \in SUBSET Nat /\ IsFiniteSet(DefinesAt(b))
         /\ params[b] \in SUBSET Nat /\ IsFiniteSet(params[b])
         /\ DefinesAt(b) \subseteq 1 .. Len(body[b].insns)
         /\ body[b].insns \in Seq(Insn) /\ Len(body[b].insns) \in Nat
<1>1. params[b] \subseteq Tmps
  BY DEF TypeOK
<1>2. IsFiniteSet(params[b]) /\ params[b] \in SUBSET Nat
  BY <1>1, TmpsAssumption, FS_Subset
<1>3. body[b].insns \in Seq(Insn)
  BY BodiesAssumption DEF TypeOK
<1>4. DefinesAt(b) \subseteq 1 .. Len(body[b].insns) /\ Len(body[b].insns) \in Nat
  BY <1>3, LenProperties DEF DefinesAt
<1>5. IsFiniteSet(1 .. Len(body[b].insns))
  BY <1>4, FS_Interval
<1>. QED  BY <1>2, <1>3, <1>4, <1>5, FS_Subset

(* The numbers one block takes: all different, from next on.                *)
LEMMA BlockNumbers ==
  ASSUME TypeOK, NEW b \in Blocks
  PROVE  LET end == next + Cardinality(params[b]) + Cardinality(DefinesAt(b))
         IN  /\ end \in Nat
             /\ \A t \in params[b] : ParamNumber(b)[t] \in next .. end - 1
             /\ \A k \in DefinesAt(b) : OutNumber(b)[k] \in next .. end - 1
             /\ \A t, u \in params[b] : ParamNumber(b)[t] = ParamNumber(b)[u] => t = u
             /\ \A j, k \in DefinesAt(b) : OutNumber(b)[j] = OutNumber(b)[k] => j = k
             /\ \A t \in params[b], k \in DefinesAt(b) : ParamNumber(b)[t] # OutNumber(b)[k]
<1>. DEFINE P == Cardinality(params[b])
<1>. DEFINE D == Cardinality(DefinesAt(b))
<1>1. P \in Nat /\ D \in Nat /\ next \in Nat
  BY CountsAreNat DEF TypeOK
<1>2. \A t \in params[b] : ParamNumber(b)[t] = next + Cardinality(Before(params[b], t))
  BY DEF ParamNumber
<1>3. \A k \in DefinesAt(b) : OutNumber(b)[k] = next + P + Cardinality(Before(DefinesAt(b), k))
  BY DEF OutNumber
<1>4. \A t \in params[b] :
        /\ Cardinality(Before(params[b], t)) \in 0 .. P - 1
        /\ \A u \in params[b] :
             Cardinality(Before(params[b], u)) = Cardinality(Before(params[b], t)) => u = t
  BY DefinesFacts, CountBefore
<1>5. \A k \in DefinesAt(b) :
        /\ Cardinality(Before(DefinesAt(b), k)) \in 0 .. D - 1
        /\ \A j \in DefinesAt(b) :
             Cardinality(Before(DefinesAt(b), j)) = Cardinality(Before(DefinesAt(b), k)) => j = k
  BY DefinesFacts, CountBefore
<1>. HIDE DEF P, D
<1>6. /\ \A t \in params[b] : ParamNumber(b)[t] \in next .. next + P - 1
      /\ \A t, u \in params[b] : ParamNumber(b)[t] = ParamNumber(b)[u] => t = u
  <2>1. \A t \in params[b] : Cardinality(Before(params[b], t)) \in Int
    BY <1>4
  <2>. QED  BY <1>1, <1>2, <1>4, <2>1
<1>7. /\ \A k \in DefinesAt(b) : OutNumber(b)[k] \in next + P .. next + P + D - 1
      /\ \A j, k \in DefinesAt(b) : OutNumber(b)[j] = OutNumber(b)[k] => j = k
  <2>1. \A k \in DefinesAt(b) : Cardinality(Before(DefinesAt(b), k)) \in Int
    BY <1>5
  <2>. QED  BY <1>1, <1>3, <1>5, <2>1
<1>8. \A t \in params[b], k \in DefinesAt(b) : ParamNumber(b)[t] # OutNumber(b)[k]
  BY <1>1, <1>6, <1>7
<1>9. /\ \A t \in params[b] : ParamNumber(b)[t] \in next .. next + P + D - 1
      /\ \A k \in DefinesAt(b) : OutNumber(b)[k] \in next .. next + P + D - 1
  BY <1>1, <1>6, <1>7
<1>. QED  BY <1>1, <1>6, <1>7, <1>8, <1>9 DEF P, D

(* What rename_temps has numbered so far. Blocks it has not come to have    *)
(* no numbers.                                                              *)
ParamsNumbered ==
  \A b \in Blocks :
    /\ \A t \in DOMAIN newParam[b] : newParam[b][t] \in 0 .. next - 1
    /\ \A c \in Blocks : \A t \in DOMAIN newParam[b], u \in DOMAIN newParam[c] :
         newParam[b][t] = newParam[c][u] => b = c /\ t = u

OutsNumbered ==
  \A b \in Blocks :
    /\ \A k \in DOMAIN newOut[b] : newOut[b][k] \in 0 .. next - 1
    /\ \A c \in Blocks : \A k \in DOMAIN newOut[b], j \in DOMAIN newOut[c] :
         newOut[b][k] = newOut[c][j] => b = c /\ k = j

NumbersApart ==
  \A b, c \in Blocks : \A t \in DOMAIN newParam[b], k \in DOMAIN newOut[c] :
    newParam[b][t] # newOut[c][k]

Unnumbered ==
  /\ DOMAIN newParam = Blocks /\ DOMAIN newOut = Blocks
  /\ DOMAIN newArg1 = Blocks /\ DOMAIN newArg2 = Blocks
  /\ \A b \in Blocks : b > pos => DOMAIN newParam[b] = {} /\ DOMAIN newOut[b] = {}

NumberInv ==
  /\ TypeInv
  /\ ParamsNumbered /\ OutsNumbered /\ NumbersApart /\ Unnumbered
  /\ ArgumentsAreLocal

LEMMA InitNumber == Init => NumberInv
<1>. SUFFICES ASSUME Init PROVE NumberInv
  OBVIOUS
<1>1. \A b \in Blocks : /\ DOMAIN newParam[b] = {} /\ DOMAIN newOut[b] = {}
                        /\ DOMAIN newArg1[b] = {} /\ DOMAIN newArg2[b] = {}
  BY DEF Init
<1>2. ParamsNumbered /\ OutsNumbered /\ NumbersApart
  BY <1>1 DEF ParamsNumbered, OutsNumbered, NumbersApart
<1>3. Unnumbered
  BY <1>1 DEF Init, Unnumbered
<1>4. ArgumentsAreLocal
  BY <1>1 DEF ArgumentsAreLocal
<1>. QED  BY <1>2, <1>3, <1>4, InitTypeInv DEF NumberInv

\* the names the rewrite map holds at the end of a block
LEMMA MappedAtEnd ==
  ASSUME TypeOK, NEW b \in Blocks
  PROVE  Mapped(b, Len(body[b].insns) + 1) = params[b] \cup Generated(b)
<1>1. (Len(body[b].insns) + 1) - 1 = Len(body[b].insns)
  BY DefinesFacts
<1>. QED  BY <1>1 DEF Mapped, Generated

\* a name of the rewrite map is replaced by a number of its own block
LEMMA LatestIsLocal ==
  ASSUME TypeOK, NEW b \in Blocks, NEW t \in params[b] \cup Generated(b)
  PROVE  \/ \E u \in params[b] : Latest(b, t) = ParamNumber(b)[u]
         \/ \E k \in DefinesAt(b) : Latest(b, t) = OutNumber(b)[k]
<1>. DEFINE defs == {k \in DefinesAt(b) : t \in body[b].insns[k].out}
<1>1. CASE defs = {}
  <2>1. t \notin Generated(b)
    <3>1. \A k \in 1 .. Len(body[b].insns) : t \in body[b].insns[k].out => k \in defs
      BY DefinesFacts, LenProperties DEF DefinesAt
    <3>. QED  BY <1>1, <3>1 DEF Generated, OutsUpto
  <2>. QED  BY <1>1, <2>1 DEF Latest
<1>2. CASE defs # {}
  <2>. DEFINE n == Len(body[b].insns)
  <2>. DEFINE gaps == {n - k : k \in defs}
  <2>1. n \in Nat /\ \A k \in defs : k \in 1 .. n
    BY DefinesFacts
  <2>2. \E k \in defs : \A j \in defs : j <= k
    <3>. HIDE DEF n, defs
    <3>1. gaps \in SUBSET Nat /\ gaps # {}
      BY <1>2, <2>1
    <3>2. PICK g \in gaps : \A h \in gaps : g <= h
      <4>. HIDE DEF gaps
      <4>. QED  BY <3>1, LeastOf
    <3>3. PICK k \in defs : g = n - k
      BY <3>2
    <3>4. ASSUME NEW j \in defs PROVE j <= k
      <4>1. n - j \in gaps /\ g <= n - j
        BY <3>2
      <4>. QED  BY <2>1, <3>3, <4>1
    <3>. QED  BY <3>4
  <2>. DEFINE last == CHOOSE k \in defs : \A j \in defs : j <= k
  <2>3. last \in defs
    <3>. HIDE DEF defs
    <3>. QED  BY <2>2
  <2>4. Latest(b, t) = OutNumber(b)[last]
    BY <1>2 DEF Latest
  <2>. QED  BY <2>3, <2>4
<1>. QED  BY <1>1, <1>2

LEMMA RenameNumber == ASSUME NumberInv, Rename PROVE NumberInv'
<1>1. PICK b \in Blocks :
        /\ Current(b)
        /\ RewritesDefined(b)
        /\ newParam' = [newParam EXCEPT ![b] = ParamNumber(b)]
        /\ newOut' = [newOut EXCEPT ![b] = OutNumber(b)]
        /\ newArg1' = [newArg1 EXCEPT ![b] = [t \in args1[b] |-> Latest(b, t)]]
        /\ newArg2' = [newArg2 EXCEPT ![b] = [t \in args2[b] |-> Latest(b, t)]]
        /\ next' = next + Cardinality(params[b]) + Cardinality(DefinesAt(b))
        /\ pos' = b
  BY DEF Rename
<1>2. TypeOK /\ pos \in Nat /\ next \in Nat /\ b \in Nat /\ b > pos
  BY <1>1, SizeAssumption DEF NumberInv, TypeInv, TypeOK, Blocks, Current, Pending
<1>3. /\ DOMAIN ParamNumber(b) = params[b] /\ DOMAIN OutNumber(b) = DefinesAt(b)
  BY DEF ParamNumber, OutNumber
<1>4. /\ next' \in Nat /\ next <= next'
      /\ \A t \in params[b] : ParamNumber(b)[t] \in next .. next' - 1
      /\ \A k \in DefinesAt(b) : OutNumber(b)[k] \in next .. next' - 1
      /\ \A t, u \in params[b] : ParamNumber(b)[t] = ParamNumber(b)[u] => t = u
      /\ \A j, k \in DefinesAt(b) : OutNumber(b)[j] = OutNumber(b)[k] => j = k
      /\ \A t \in params[b], k \in DefinesAt(b) : ParamNumber(b)[t] # OutNumber(b)[k]
  <2>1. next <= next + Cardinality(params[b]) + Cardinality(DefinesAt(b))
    BY <1>2, CountsAreNat
  <2>. QED  BY <1>1, <1>2, <2>1, BlockNumbers
<1>5. /\ newParam'[b] = ParamNumber(b) /\ newOut'[b] = OutNumber(b)
      /\ newArg1'[b] = [t \in args1[b] |-> Latest(b, t)]
      /\ newArg2'[b] = [t \in args2[b] |-> Latest(b, t)]
      /\ \A c \in Blocks : c # b =>
           /\ newParam'[c] = newParam[c] /\ newOut'[c] = newOut[c]
           /\ newArg1'[c] = newArg1[c] /\ newArg2'[c] = newArg2[c]
  BY <1>1 DEF NumberInv, Unnumbered
<1>6. /\ \A c \in Blocks : \A t \in DOMAIN newParam[c] : newParam[c][t] \in 0 .. next - 1
      /\ \A c \in Blocks : \A k \in DOMAIN newOut[c] : newOut[c][k] \in 0 .. next - 1
  BY DEF NumberInv, ParamsNumbered, OutsNumbered
<1>7. ParamsNumbered'
  <2>1. ASSUME NEW c \in Blocks, NEW t \in DOMAIN newParam'[c]
        PROVE  newParam'[c][t] \in 0 .. next' - 1 /\ (c # b => newParam'[c][t] < next)
    BY <1>2, <1>3, <1>4, <1>5, <1>6
  <2>2. \A t \in DOMAIN newParam'[b] : newParam'[b][t] >= next
    BY <1>2, <1>3, <1>4, <1>5
  <2>3. ASSUME NEW c \in Blocks, NEW d \in Blocks,
               NEW t \in DOMAIN newParam'[c], NEW u \in DOMAIN newParam'[d],
               newParam'[c][t] = newParam'[d][u]
        PROVE  c = d /\ t = u
    <3>1. CASE c = b /\ d = b
      BY <1>3, <1>4, <1>5, <2>3, <3>1
    <3>2. CASE c # b /\ d # b
      BY <1>5, <2>3, <3>2 DEF NumberInv, ParamsNumbered
    <3>3. CASE ~(c = b <=> d = b)
      BY <1>2, <2>1, <2>2, <2>3, <3>3
    <3>. QED  BY <3>1, <3>2, <3>3
  <2>. QED  BY <2>1, <2>3 DEF ParamsNumbered
<1>8. OutsNumbered'
  <2>1. ASSUME NEW c \in Blocks, NEW k \in DOMAIN newOut'[c]
        PROVE  newOut'[c][k] \in 0 .. next' - 1 /\ (c # b => newOut'[c][k] < next)
    BY <1>2, <1>3, <1>4, <1>5, <1>6
  <2>2. \A k \in DOMAIN newOut'[b] : newOut'[b][k] >= next
    BY <1>2, <1>3, <1>4, <1>5
  <2>3. ASSUME NEW c \in Blocks, NEW d \in Blocks,
               NEW k \in DOMAIN newOut'[c], NEW j \in DOMAIN newOut'[d],
               newOut'[c][k] = newOut'[d][j]
        PROVE  c = d /\ k = j
    <3>1. CASE c = b /\ d = b
      BY <1>3, <1>4, <1>5, <2>3, <3>1
    <3>2. CASE c # b /\ d # b
      BY <1>5, <2>3, <3>2 DEF NumberInv, OutsNumbered
    <3>3. CASE ~(c = b <=> d = b)
      BY <1>2, <2>1, <2>2, <2>3, <3>3
    <3>. QED  BY <3>1, <3>2, <3>3
  <2>. QED  BY <2>1, <2>3 DEF OutsNumbered
<1>9. NumbersApart'
  <2>. SUFFICES ASSUME NEW c \in Blocks, NEW d \in Blocks,
                       NEW t \in DOMAIN newParam'[c], NEW k \in DOMAIN newOut'[d]
                PROVE  newParam'[c][t] # newOut'[d][k]
    BY DEF NumbersApart
  <2>1. CASE c = b /\ d = b
    BY <1>3, <1>4, <1>5, <2>1
  <2>2. CASE c # b /\ d # b
    BY <1>5, <2>2 DEF NumberInv, NumbersApart
  <2>3. CASE c = b /\ d # b
    <3>1. newParam'[c][t] \in Int /\ newParam'[c][t] >= next
      BY <1>2, <1>3, <1>4, <1>5, <2>3
    <3>2. newOut'[d][k] \in Int /\ newOut'[d][k] < next
      BY <1>2, <1>5, <1>6, <2>3
    <3>. QED  BY <1>2, <3>1, <3>2
  <2>4. CASE c # b /\ d = b
    <3>1. newParam'[c][t] \in Int /\ newParam'[c][t] < next
      BY <1>2, <1>5, <1>6, <2>4
    <3>2. newOut'[d][k] \in Int /\ newOut'[d][k] >= next
      BY <1>2, <1>3, <1>4, <1>5, <2>4
    <3>. QED  BY <1>2, <3>1, <3>2
  <2>. QED  BY <2>1, <2>2, <2>3, <2>4
<1>10. Unnumbered'
  <2>1. \A c \in Blocks : c > b => c > pos /\ c # b
    BY <1>2, SizeAssumption DEF Blocks
  <2>. QED  BY <1>1, <1>5, <2>1 DEF NumberInv, Unnumbered
<1>11. ArgumentsAreLocal'
  <2>. DEFINE own(c) == {newParam[c][t] : t \in DOMAIN newParam[c]}
                          \cup {newOut[c][k] : k \in DOMAIN newOut[c]}
  <2>. SUFFICES ASSUME NEW c \in Blocks
                PROVE  /\ \A t \in DOMAIN newArg1'[c] : newArg1'[c][t] \in own(c)'
                       /\ \A t \in DOMAIN newArg2'[c] : newArg2'[c][t] \in own(c)'
    BY DEF ArgumentsAreLocal
  <2>1. CASE c = b
    <3>1. args1[b] \cup args2[b] \subseteq params[b] \cup Generated(b)
      BY <1>1, <1>2, MappedAtEnd DEF RewritesDefined
    <3>2. \A t \in params[b] \cup Generated(b) : Latest(b, t) \in own(b)'
      <4>1. TAKE t \in params[b] \cup Generated(b)
      <4>2. CASE \E u \in params[b] : Latest(b, t) = ParamNumber(b)[u]
        BY <1>3, <1>5, <4>2
      <4>3. CASE \E k \in DefinesAt(b) : Latest(b, t) = OutNumber(b)[k]
        BY <1>3, <1>5, <4>3
      <4>. QED  BY <1>2, <4>2, <4>3, LatestIsLocal
    <3>. QED  BY <1>5, <2>1, <3>1, <3>2
  <2>2. CASE c # b
    BY <1>5, <2>2 DEF NumberInv, ArgumentsAreLocal
  <2>. QED  BY <2>1, <2>2
<1>. QED  BY <1>7, <1>8, <1>9, <1>10, <1>11, RenameTypeInv DEF NumberInv

LEMMA NextNumber == NumberInv /\ [Next]_vars => NumberInv'
<1>. SUFFICES ASSUME NumberInv, [Next]_vars PROVE NumberInv'
  OBVIOUS
<1>1. CASE Rename
  BY <1>1, RenameNumber
<1>2. CASE ~Rename
  <2>1. UNCHANGED renameVars
    BY <1>2 DEF Next, vars, Skip, Enter, BuildWork, CollectWork,
         RemoveUnvisited, StartRename, RenameAbort, Finish
  <2>2. TypeInv'
    BY NextTypeInv DEF NumberInv
  <2>. QED  BY <2>1, <2>2 DEF renameVars, NumberInv, ParamsNumbered, OutsNumbered,
              NumbersApart, Unnumbered, ArgumentsAreLocal
<1>. QED  BY <1>1, <1>2

LEMMA NumberInvariance == Spec => []NumberInv
BY InitNumber, NextNumber, PTL DEF Spec

(* Each number is given to one parameter or one definition of one block,    *)
(* in functions of any size: the result of the pass, and every state on the *)
(* way to it, is in single assignment form.                                 *)
THEOREM AssignedOnce == Spec => []SingleAssignment
<1>1. NumberInv => SingleAssignment
  <2>. SUFFICES ASSUME NumberInv PROVE SingleAssignment
    OBVIOUS
  <2>. DEFINE site(b) == ({"param"} \X {b} \X DOMAIN newParam[b])
                           \cup ({"out"} \X {b} \X DOMAIN newOut[b])
  <2>. DEFINE sites == UNION {site(b) : b \in Blocks}
  <2>. DEFINE number(s) == IF s[1] = "param" THEN newParam[s[2]][s[3]]
                           ELSE newOut[s[2]][s[3]]
  <2>1. ASSUME NEW s \in sites
        PROVE  \/ \E b \in Blocks : \E t \in DOMAIN newParam[b] :
                    s = <<"param", b, t>> /\ number(s) = newParam[b][t]
               \/ \E b \in Blocks : \E k \in DOMAIN newOut[b] :
                    s = <<"out", b, k>> /\ number(s) = newOut[b][k]
    OBVIOUS
  <2>. HIDE DEF sites, number
  <2>2. \A s \in sites : number(s) \in 0 .. next - 1
    BY <2>1 DEF NumberInv, ParamsNumbered, OutsNumbered
  <2>3. \A s, r \in sites : number(s) = number(r) => s = r
    <3>. SUFFICES ASSUME NEW s \in sites, NEW r \in sites, number(s) = number(r)
                  PROVE  s = r
      OBVIOUS
    <3>1. CASE \E b \in Blocks : \E t \in DOMAIN newParam[b] :
                 s = <<"param", b, t>> /\ number(s) = newParam[b][t]
      BY <2>1, <3>1 DEF NumberInv, ParamsNumbered, NumbersApart
    <3>2. CASE \E b \in Blocks : \E k \in DOMAIN newOut[b] :
                 s = <<"out", b, k>> /\ number(s) = newOut[b][k]
      BY <2>1, <3>2 DEF NumberInv, OutsNumbered, NumbersApart
    <3>. QED  BY <2>1, <3>1, <3>2
  <2>. QED  BY <2>2, <2>3 DEF SingleAssignment, sites, number
<1>. QED  BY <1>1, NumberInvariance, PTL

(* An argument on an edge is one of the numbers of the block it leaves, so  *)
(* later passes can take the temporaries of one block at a time.            *)
THEOREM ArgumentsStayLocal == Spec => []ArgumentsAreLocal
<1>1. NumberInv => ArgumentsAreLocal
  BY DEF NumberInv
<1>. QED  BY <1>1, NumberInvariance, PTL

-----------------------------------------------------------------------------
(* The layout the output stage counts on.                                   *)

\* the blocks an edge from a set leads to, and the set
Spread(S) == S \cup UNION {Succ(b) : b \in S}

(* The reference definition of reachability is what it looks like: some     *)
(* function collects the blocks within n edges of the entry.                *)
LEMMA ReachUnfolds ==
  ASSUME TypeOK
  PROVE  \E reach \in [0 .. NB -> SUBSET Blocks] :
           /\ reach[0] = {Entry}
           /\ \A n \in 1 .. NB : reach[n] = Spread(reach[n - 1])
           /\ ReachableBlocks = reach[NB]
<1>. DEFINE G == [S \in SUBSET Blocks |-> Spread(S)]
<1>. DEFINE Unfold(f) == [n \in 0 .. NB |->
                            IF n = 0 THEN {Entry}
                            ELSE f[n - 1] \cup UNION {Succ(b) : b \in f[n - 1]}]
<1>1. G \in [SUBSET Blocks -> SUBSET Blocks]
  BY SuccFacts DEF Spread
<1>2. NB \in Nat /\ {Entry} \in SUBSET Blocks
  BY SizeAssumption, EntryIsBlock
<1>3. PICK f \in [0 .. NB -> SUBSET Blocks] :
        \A n \in 0 .. NB : f[n] = IF n = 0 THEN {Entry} ELSE G[f[n - 1]]
  <2>. DEFINE T == SUBSET Blocks
  <2>. DEFINE a == {Entry}
  <2>1. NB \in Nat
    BY <1>2
  <2>2. a \in T
    BY <1>2
  <2>3. G \in [T -> T]
    BY <1>1
  <2>. HIDE DEF G, T, a
  <2>4. PICK f : Iterates(f, NB, T, a, G)
    BY <2>1, <2>2, <2>3, RecursionExists
  <2>. QED  BY <2>4 DEF Iterates, T, a
<1>4. f = Unfold(f)
  <2>1. \A n \in 0 .. NB : n # 0 => G[f[n - 1]] = Spread(f[n - 1])
    BY <1>2
  <2>2. \A n \in 0 .. NB :
          f[n] = IF n = 0 THEN {Entry} ELSE f[n - 1] \cup UNION {Succ(b) : b \in f[n - 1]}
    BY <1>3, <2>1 DEF Spread
  <2>. QED  BY <2>2
<1>. DEFINE reach == CHOOSE g : g = Unfold(g)
<1>5. reach = Unfold(reach)
  <2>. HIDE DEF Unfold
  <2>. QED  BY <1>4
<1>6. ReachableBlocks = reach[NB]
  BY DEF ReachableBlocks
<1>. HIDE DEF reach
<1>7. /\ reach[0] = {Entry}
      /\ \A n \in 1 .. NB : reach[n] = Spread(reach[n - 1])
  <2>1. \A n \in 0 .. NB :
          reach[n] = IF n = 0 THEN {Entry}
                     ELSE reach[n - 1] \cup UNION {Succ(b) : b \in reach[n - 1]}
    BY <1>5
  <2>2. \A n \in 1 .. NB : n \in 0 .. NB /\ n # 0
    BY <1>2
  <2>3. 0 \in 0 .. NB
    BY <1>2
  <2>. HIDE DEF Unfold
  <2>. QED  BY <2>1, <2>2, <2>3 DEF Spread
<1>8. reach \in [0 .. NB -> SUBSET Blocks]
  <2>. DEFINE Bad == {n \in 0 .. NB : ~(reach[n] \subseteq Blocks)}
  <2>1. ASSUME Bad # {} PROVE FALSE
    <3>1. PICK n \in Bad : \A m \in Bad : n <= m
      <4>1. Bad \in SUBSET Nat
        BY <1>2
      <4>. HIDE DEF Bad
      <4>. QED  BY <2>1, <4>1, LeastOf
    <3>2. n # 0 /\ n - 1 \in 0 .. NB /\ n \in 1 .. NB /\ n - 1 \notin Bad
      BY <1>2, <1>7, <3>1
    <3>. QED  BY <1>7, <3>1, <3>2, SuccFacts DEF Spread
  <2>2. DOMAIN reach = 0 .. NB /\ reach = [n \in 0 .. NB |-> reach[n]]
    BY <1>5
  <2>. QED  BY <2>1, <2>2
<1>. QED  BY <1>6, <1>7, <1>8

(* The blocks within NB edges of the entry are closed under the edges, and  *)
(* lie in every closed set.                                                 *)
LEMMA ReachableIsLeast ==
  ASSUME TypeOK
  PROVE  /\ ReachableBlocks \subseteq Blocks
         /\ IsClosed(ReachableBlocks)
         /\ \A S \in SUBSET Blocks : IsClosed(S) => ReachableBlocks \subseteq S
<1>1. PICK reach \in [0 .. NB -> SUBSET Blocks] :
        /\ reach[0] = {Entry}
        /\ \A n \in 1 .. NB : reach[n] = Spread(reach[n - 1])
        /\ ReachableBlocks = reach[NB]
  BY ReachUnfolds
<1>2. NB \in Nat /\ NB \in 0 .. NB /\ 0 \in 0 .. NB
  BY SizeAssumption
<1>. DEFINE G == [S \in SUBSET Blocks |-> Spread(S)]
<1>3. /\ G \in [SUBSET Blocks -> SUBSET Blocks]
      /\ \A S, V \in SUBSET Blocks : S \subseteq V => G[S] \subseteq G[V]
      /\ \A S \in SUBSET Blocks : G[S] = Spread(S) /\ S \subseteq Spread(S)
  BY SuccFacts DEF Spread
<1>4. IsFiniteSet(Blocks) /\ Cardinality(Blocks) <= NB
  <2>1. IsFiniteSet(1 .. NB) /\ Cardinality(1 .. NB) = NB
    BY <1>2, FS_Interval
  <2>. QED  BY <1>2, <2>1 DEF Blocks
<1>5. G[reach[NB]] = reach[NB]
  <2>. DEFINE a == {Entry}
  <2>1. Grows(Blocks, G)
    BY <1>3 DEF Grows
  <2>2. a \in SUBSET Blocks
    BY EntryIsBlock
  <2>3. a \subseteq G[a]
    BY <1>3, <2>2
  <2>4. Iterates(reach, NB, SUBSET Blocks, a, G)
    <3>1. \A n \in 0 .. NB : n # 0 => n \in 1 .. NB /\ n - 1 \in 0 .. NB
      BY <1>2
    <3>. HIDE DEF G
    <3>. QED  BY <1>1, <1>3, <3>1 DEF Iterates
  <2>5. NB \in Nat
    BY <1>2
  <2>6. IsFiniteSet(Blocks)
    BY <1>4
  <2>7. Cardinality(Blocks) <= NB
    BY <1>4
  <2>. HIDE DEF G, a
  <2>. QED  BY <2>1, <2>2, <2>3, <2>4, <2>5, <2>6, <2>7, ChainStops
<1>6. \A b \in reach[NB] : Succ(b) \subseteq reach[NB]
  BY <1>2, <1>3, <1>5 DEF Spread
<1>7. ASSUME NEW S \in SUBSET Blocks, IsClosed(S)
      PROVE  \A n \in 0 .. NB : reach[n] \subseteq S
  <2>. DEFINE Bad == {n \in 0 .. NB : ~(reach[n] \subseteq S)}
  <2>1. ASSUME Bad # {} PROVE FALSE
    <3>1. PICK n \in Bad : \A m \in Bad : n <= m
      <4>1. Bad \in SUBSET Nat
        BY <1>2
      <4>. HIDE DEF Bad
      <4>. QED  BY <2>1, <4>1, LeastOf
    <3>2. n # 0 /\ n - 1 \in 0 .. NB /\ n \in 1 .. NB /\ n - 1 \notin Bad
      BY <1>1, <1>2, <1>7, <3>1 DEF IsClosed
    <3>. QED  BY <1>1, <1>7, <3>1, <3>2 DEF IsClosed, Spread
  <2>. QED  BY <2>1
<1>8. Entry \in reach[NB]
  <2>. DEFINE Bad == {n \in 0 .. NB : Entry \notin reach[n]}
  <2>1. ASSUME Bad # {} PROVE FALSE
    <3>1. PICK n \in Bad : \A m \in Bad : n <= m
      <4>1. Bad \in SUBSET Nat
        BY <1>2
      <4>. HIDE DEF Bad
      <4>. QED  BY <2>1, <4>1, LeastOf
    <3>2. n # 0 /\ n - 1 \in 0 .. NB /\ n \in 1 .. NB /\ n - 1 \notin Bad
      BY <1>1, <1>2, <3>1
    <3>. QED  BY <1>1, <3>1, <3>2 DEF Spread
  <2>. QED  BY <1>2, <2>1
<1>. QED  BY <1>1, <1>2, <1>6, <1>7, <1>8 DEF IsClosed

LayoutInv == ReachInv /\ \A b \in Blocks : ~ret[b] => s1[b] = b + 1

(* remove_unvisited() keeps exactly the blocks the entry leads to, an edge  *)
(* of a block kept leads to one kept, and each falls through to the block   *)
(* that was laid out after it, in functions of any size.                    *)
THEOREM LayoutIsSound == Spec => []LayoutSound
<1>1. Init => LayoutInv
  BY InitReach DEF Init, LayoutInv
<1>2. LayoutInv /\ [Next]_vars => LayoutInv'
  BY NextReach, EdgesStay DEF LayoutInv, ReachInv
<1>3. LayoutInv => LayoutSound
  <2>. SUFFICES ASSUME LayoutInv, phase # "build" PROVE LayoutSound
    BY DEF LayoutSound
  <2>1. TypeOK /\ blks \in SUBSET Blocks /\ IsClosed(blks)
    BY DEF LayoutInv, ReachInv, TypeInv, TypeOK, Kept
  <2>2. \A S \in SUBSET Blocks : IsClosed(S) => blks \subseteq S
    BY <2>1 DEF LayoutInv, ReachInv, Least
  <2>3. blks = ReachableBlocks
    BY <2>1, <2>2, ReachableIsLeast
  <2>. QED  BY <2>1, <2>3 DEF LayoutInv, LayoutSound, IsClosed
<1>. QED  BY <1>1, <1>2, <1>3, PTL DEF Spec

-----------------------------------------------------------------------------
(* What the pass computes on functions without loops: the order in which    *)
(* build_params works on the blocks, the parameter lists it builds, and     *)
(* that rename_temps does not abort.                                        *)
(*                                                                          *)
(* "Without loops" is a rank that falls along every edge. The key to the    *)
(* order is what lies on the stack above a block that has been entered and  *)
(* not finished: only blocks of smaller rank, and among them every          *)
(* successor that is not finished yet. When the block is at the top again   *)
(* nothing lies above it, so no successor is unfinished.                    *)

IsRank(rank) ==
  /\ rank \in [Blocks -> Blocks]
  /\ \A b \in Blocks : \A s \in Succ(b) : rank[s] < rank[b]

\* position i of the stack is the entry b waits in for its successors
Waits(rank, b, i) ==
  /\ i \in 1 .. Len(stack)
  /\ stack[i] = b
  /\ \A j \in i + 1 .. Len(stack) : rank[stack[j]] < rank[b]
  /\ \A s \in Succ(b) : Done(s) \/ \E j \in i + 1 .. Len(stack) : stack[j] = s

Deps(rank) ==
  IsRank(rank) /\ phase = "build" =>
    \A b \in Blocks : Entered(b) /\ ~Done(b) => \E i \in Nat : Waits(rank, b, i)

LEMMA RankStays ==
  ASSUME s1' = s1, s2' = s2
  PROVE  (\A rank : IsRank(rank)' = IsRank(rank)) /\ Acyclic' = Acyclic
BY SuccStays DEF IsRank, Acyclic

(* A block worked on in build_params has every successor finished.          *)
LEMMA TopReady ==
  ASSUME TypeInv, phase = "build", Leave,
         NEW rank, IsRank(rank), Deps(rank)
  PROVE  /\ \A s \in Succ(Top) : Done(s) /\ s # Top
<1>1. /\ Top \in Blocks /\ Top = stack[Len(stack)]
      /\ Len(stack) \in Nat /\ Len(stack) >= 1
  BY PopFacts DEF Leave, Traversing, TypeInv, TypeOK, Top
<1>2. PICK i \in Nat : Waits(rank, Top, i)
  BY <1>1 DEF Leave, Deps
<1>3. rank[Top] \in Int
  BY <1>1 DEF IsRank, Blocks
<1>4. i = Len(stack)
  <2>1. SUFFICES ASSUME i # Len(stack) PROVE FALSE
    OBVIOUS
  <2>2. Len(stack) \in i + 1 .. Len(stack)
    BY <1>1, <1>2, <2>1 DEF Waits
  <2>3. rank[stack[Len(stack)]] < rank[Top]
    BY <1>2, <2>2 DEF Waits
  <2>. QED  BY <1>1, <1>3, <2>3
<1>5. \A s \in Succ(Top) : Done(s)
  BY <1>1, <1>2, <1>4 DEF Waits
<1>. QED  BY <1>5 DEF Leave

(* Popping a finished block, or one that is finished now, leaves the        *)
(* waiting entries of the others where they are.                            *)
LEMMA PopDeps ==
  ASSUME TypeInv, phase = "build", Traversing, stack' = Rest,
         s1' = s1, s2' = s2, base' = base,
         \A b \in Blocks : b = Top => Done(b)',
         \A b \in Blocks \ {Top} : Entered(b)' = Entered(b) /\ Done(b)' = Done(b),
         NEW rank, Deps(rank)
  PROVE  Deps(rank)'
<1>1. SUFFICES ASSUME IsRank(rank), NEW b \in Blocks, Entered(b)', ~Done(b)'
               PROVE  \E i \in Nat : Waits(rank, b, i)'
  BY SuccStays, RankStays DEF Deps
<1>2. b # Top /\ Entered(b) /\ ~Done(b)
  BY <1>1
<1>3. PICK i \in Nat : Waits(rank, b, i)
  BY <1>1, <1>2 DEF Deps
<1>4. /\ Top \in Blocks /\ Top = stack[Len(stack)]
      /\ Len(stack) \in Nat /\ Len(stack) >= 1 /\ Len(Rest) = Len(stack) - 1
      /\ \A k \in 1 .. Len(stack) - 1 : Rest[k] = stack[k]
  BY PopFacts DEF Traversing, TypeInv, TypeOK, Top
<1>5. i \in 1 .. Len(stack) - 1
  BY <1>2, <1>3, <1>4 DEF Waits
<1>6. \A j \in i + 1 .. Len(Rest) : j \in i + 1 .. Len(stack) /\ Rest[j] = stack[j]
  BY <1>4, <1>5
<1>7. \A s \in Succ(b) : Done(s)' \/ \E j \in i + 1 .. Len(Rest) : Rest[j] = s
  <2>1. TAKE s \in Succ(b)
  <2>2. s \in Blocks
    BY SuccFacts DEF TypeInv
  <2>3. CASE Done(s) \/ s = Top
    BY <2>2, <2>3
  <2>4. CASE ~Done(s) /\ s # Top
    <3>1. PICK j \in i + 1 .. Len(stack) : stack[j] = s
      BY <1>3, <2>4 DEF Waits
    <3>2. j \in i + 1 .. Len(Rest) /\ j \in 1 .. Len(stack) - 1
      BY <1>4, <1>5, <2>4, <3>1
    <3>. QED  BY <1>4, <3>1, <3>2
  <2>. QED  BY <2>3, <2>4
<1>8. \A j \in i + 1 .. Len(Rest) : rank[Rest[j]] < rank[b]
  BY <1>3, <1>6 DEF Waits
<1>9. i \in 1 .. Len(Rest) /\ Rest[i] = b
  BY <1>3, <1>4, <1>5 DEF Waits
<1>10. Succ(b)' = Succ(b)
  BY SuccStays
<1>. QED
  BY <1>7, <1>8, <1>9, <1>10 DEF Waits

(* Entering a block puts it on the stack below its successors, and above    *)
(* the waiting entries only blocks of smaller rank.                         *)
LEMMA EnterDeps ==
  ASSUME TypeInv, Enter, phase = "build", NEW rank, Deps(rank)
  PROVE  Deps(rank)'
<1>1. s1' = s1 /\ s2' = s2 /\ stack' = Queued(Top, s1[Top], s2[Top]) /\ base' = base
  BY EnterKeepsEdges DEF Enter
<1>2. SUFFICES ASSUME IsRank(rank), NEW b \in Blocks, Entered(b)', ~Done(b)'
               PROVE  \E i \in Nat : Waits(rank, b, i)'
  BY <1>1, SuccStays, RankStays DEF Deps
<1>3. /\ Top \in Blocks /\ Top = stack[Len(stack)] /\ ~Entered(Top)
      /\ Len(stack) \in Nat /\ Len(stack) >= 1
  BY PopFacts DEF Enter, Traversing, TypeInv, TypeOK, Top
<1>4. /\ Succ(Top) \subseteq Blocks
      /\ Succ(Top) = {s1[Top], s2[Top]} \ {NoBlock}
      /\ \A c \in Blocks : Succ(c)' = Succ(c)
  BY <1>1, <1>3, SuccFacts, SuccStays DEF TypeInv
<1>5. IsPushed(stack', Top, Succ(Top))
  <2>1. s1[Top] \in Blocks \cup {NoBlock} /\ s2[Top] \in Blocks \cup {NoBlock}
    BY <1>3 DEF TypeInv, TypeOK
  <2>2. stack \in Seq(Blocks) /\ stack # <<>>
    BY DEF Enter, Traversing, TypeInv, TypeOK
  <2>3. IsPushed(stack', Top, {s1[Top], s2[Top]} \ {NoBlock})
    BY <1>1, <1>3, <2>1, <2>2, QueuedFacts
  <2>. QED  BY <1>4, <2>3
<1>6. /\ Len(stack') \in Nat /\ Len(stack') >= Len(stack)
      /\ \A j \in 1 .. Len(stack) : stack'[j] = stack[j]
      /\ \A s \in Succ(Top) : \E j \in Len(stack) + 1 .. Len(stack') : stack'[j] = s
      /\ \A j \in Len(stack) + 1 .. Len(stack') : stack'[j] \in Succ(Top)
  BY <1>3, <1>5 DEF IsPushed
<1>7. \A c \in Blocks : rank[c] \in Int
  BY <1>2 DEF IsRank, Blocks
<1>8. \A j \in Len(stack) + 1 .. Len(stack') : rank[stack'[j]] < rank[Top]
  BY <1>2, <1>3, <1>6 DEF IsRank
<1>9. CASE b = Top
  <2>1. PICK i \in Nat : i = Len(stack)
    BY <1>3
  <2>2. i \in 1 .. Len(stack') /\ stack'[i] = b
    BY <1>3, <1>6, <1>9, <2>1
  <2>3. \A j \in i + 1 .. Len(stack') : rank[stack'[j]] < rank[b]
    BY <1>8, <1>9, <2>1
  <2>4. \A s \in Succ(b) : \E j \in i + 1 .. Len(stack') : stack'[j] = s
    BY <1>6, <1>9, <2>1
  <2>5. Waits(rank, b, i)'
    BY <1>4, <2>2, <2>3, <2>4 DEF Waits
  <2>. QED  BY <2>5
<1>10. CASE b # Top
  <2>1. \A c \in Blocks : c # Top => visited'[c] = visited[c]
    BY <1>3 DEF Enter, TypeInv, TypeOK
  <2>2. Entered(b) /\ ~Done(b)
    BY <1>1, <1>2, <1>10, <2>1 DEF Entered, Done
  <2>3. PICK i \in Nat : Waits(rank, b, i)
    BY <1>2, <2>2 DEF Deps, Enter
  <2>4. i \in 1 .. Len(stack) - 1
    BY <1>3, <1>10, <2>3 DEF Waits
  <2>5. rank[Top] < rank[b]
    <3>1. Len(stack) \in i + 1 .. Len(stack)
      BY <1>3, <2>4
    <3>. QED  BY <1>3, <2>3, <3>1 DEF Waits
  <2>6. \A j \in i + 1 .. Len(stack') : rank[stack'[j]] < rank[b]
    <3>1. TAKE j \in i + 1 .. Len(stack')
    <3>2. CASE j <= Len(stack)
      <4>1. j \in i + 1 .. Len(stack) /\ j \in 1 .. Len(stack)
        BY <1>3, <2>4, <3>2
      <4>. QED  BY <1>6, <2>3, <4>1 DEF Waits
    <3>3. CASE j > Len(stack)
      <4>1. j \in Len(stack) + 1 .. Len(stack')
        BY <1>3, <1>6, <3>3
      <4>2. stack'[j] \in Blocks
        BY <1>4, <1>6, <4>1
      <4>. QED  BY <1>3, <1>7, <1>8, <2>5, <4>1, <4>2
    <3>. QED  BY <1>3, <3>2, <3>3
  <2>7. \A s \in Succ(b) : Done(s)' \/ \E j \in i + 1 .. Len(stack') : stack'[j] = s
    <3>1. TAKE s \in Succ(b)
    <3>2. s \in Blocks
      BY SuccFacts DEF TypeInv
    <3>3. CASE Done(s)
      <4>1. s # Top
        BY <1>3, <3>3 DEF Entered, Done, TypeInv, TypeOK
      <4>. QED  BY <1>1, <2>1, <3>2, <3>3, <4>1 DEF Done
    <3>4. CASE ~Done(s)
      <4>1. PICK j \in i + 1 .. Len(stack) : stack[j] = s
        BY <2>3, <3>4 DEF Waits
      <4>2. j \in i + 1 .. Len(stack') /\ j \in 1 .. Len(stack)
        BY <1>3, <1>6, <2>4, <4>1
      <4>. QED  BY <1>6, <4>1, <4>2
    <3>. QED  BY <3>3, <3>4
  <2>8. Waits(rank, b, i)'
    <3>1. i \in 1 .. Len(stack') /\ stack'[i] = b
      BY <1>3, <1>6, <2>3, <2>4 DEF Waits
    <3>. QED  BY <1>4, <2>6, <2>7, <3>1 DEF Waits
  <2>. QED  BY <2>8
<1>. QED  BY <1>9, <1>10

LEMMA InitDeps == ASSUME Init, NEW rank PROVE Deps(rank)
<1>1. \A b \in Blocks : ~Entered(b)
  BY DEF Init, Entered
<1>. QED  BY <1>1 DEF Deps

LEMMA NextDeps ==
  ASSUME TypeInv, [Next]_vars, NEW rank, Deps(rank)
  PROVE  Deps(rank)'
<1>1. CASE phase = "build" /\ Enter
  BY <1>1, EnterDeps
<1>2. CASE phase = "build" /\ Skip
  <2>1. \A b \in Blocks : Entered(b)' = Entered(b) /\ Done(b)' = Done(b)
    BY <1>2 DEF Skip, Entered, Done
  <2>2. s1' = s1 /\ s2' = s2 /\ base' = base /\ Traversing /\ stack' = Rest
    BY <1>2 DEF Skip, cfgVars
  <2>3. \A b \in Blocks : b = Top => Done(b)'
    BY <1>2, <2>1 DEF Skip
  <2>. QED  BY <1>2, <2>1, <2>2, <2>3, PopDeps
<1>3. CASE phase = "build" /\ BuildWork
  <2>1. Leave /\ s1' = s1 /\ s2' = s2 /\ base' = base /\ Traversing /\ stack' = Rest
    BY <1>3 DEF BuildWork, Leave, cfgVars
  <2>. QED  BY <1>3, <2>1, LeaveFacts, PopDeps
<1>4. CASE UNCHANGED vars
  <2>1. /\ \A b \in Blocks : Entered(b)' = Entered(b) /\ Done(b)' = Done(b)
        /\ stack' = stack /\ phase' = phase /\ s1' = s1 /\ s2' = s2
    BY <1>4 DEF vars, cfgVars, Entered, Done
  <2>2. \A b \in Blocks : Succ(b)' = Succ(b)
    BY <2>1, SuccStays
  <2>3. \A b \in Blocks, i \in Nat : Waits(rank, b, i) => Waits(rank, b, i)'
    <3>1. SUFFICES ASSUME NEW b \in Blocks, NEW i \in Nat, Waits(rank, b, i)
                   PROVE  Waits(rank, b, i)'
      OBVIOUS
    <3>2. \A s \in Succ(b) : s \in Blocks
      BY SuccFacts DEF TypeInv
    <3>. QED  BY <2>1, <2>2, <3>1, <3>2 DEF Waits
  <2>. QED  BY <2>1, <2>3, SuccStays, RankStays DEF Deps
<1>5. CASE phase' # "build"
  BY <1>5 DEF Deps
<1>6. phase' = "build" => phase = "build"
  BY DEF Next, vars, Skip, Enter, BuildWork, CollectWork, RemoveUnvisited,
       StartRename, Rename, RenameAbort, Finish
<1>. QED
  BY <1>1, <1>2, <1>3, <1>4, <1>5, <1>6
     DEF Next, CollectWork, RemoveUnvisited, StartRename, Rename, RenameAbort, Finish

-----------------------------------------------------------------------------
(* The parameter lists. A block build_params has finished has its lists     *)
(* solved: its successors are finished too, and it asks for what it uses    *)
(* and what they ask for.                                                   *)

Solved ==
  /\ phase = "build" => \A b \in Blocks : ~Done(b) => params[b] = {}
  /\ Acyclic =>
       \A b \in Blocks : visited[b] >= 2 =>
         (\A s \in Succ(b) : visited[s] >= 2) /\ params[b] = Required(b)

FlowInv == EdgeInv /\ (\A rank : Deps(rank)) /\ Solved

LEMMA FlowTypes == FlowInv => ReachInv /\ TypeInv /\ TypeOK
BY DEF FlowInv, EdgeInv, ReachInv, TypeInv

\* what a block requires depends on its successors' parameters only
LEMMA RequiredStays ==
  ASSUME s1' = s1, s2' = s2, body' = body, NEW b \in Blocks,
         \A s \in Succ(b) : params'[s] = params[s]
  PROVE  Required(b)' = Required(b)
<1>1. Exposed(b)' = Exposed(b) /\ Generated(b)' = Generated(b)
  BY DEF Exposed, Generated, OutsUpto
<1>2. Succ(b)' = Succ(b)
  BY DEF Succ
<1>3. {params[s] : s \in Succ(b)}' = {params[s] : s \in Succ(b)}
  BY <1>2
<1>. QED  BY <1>1, <1>3 DEF Required, Forward

LEMMA BuildWorkSolved ==
  ASSUME FlowInv, BuildWork PROVE Solved'
<1>. USE FlowTypes
<1>1. /\ Leave /\ phase = "build" /\ phase' = "build" /\ base = 0 /\ base' = 0
      /\ s1' = s1 /\ s2' = s2 /\ body' = body
  BY DEF BuildWork, Leave, cfgVars, TypeInv, Walk
<1>2. PICK t \in Blocks : t = Top
  BY <1>1, LeaveFacts
<1>3. /\ visited[t] = 1 /\ visited'[t] = 2
      /\ \A b \in Blocks \ {t} : Done(b)' = Done(b) /\ visited'[b] = visited[b]
  BY <1>1, <1>2, LeaveFacts DEF Leave, TypeOK
<1>4. \A b \in Blocks : Done(b) <=> visited[b] >= 2
  BY <1>1 DEF Done
<1>5. params' = [params EXCEPT ![t] = @ \cup Required(t)] /\ params \in [Blocks -> SUBSET Tmps]
  BY <1>2 DEF BuildWork, TypeOK
<1>6. params[t] = {}
  BY <1>1, <1>3, <1>4 DEF FlowInv, Solved
<1>7. /\ params'[t] = Required(t)
      /\ \A b \in Blocks \ {t} : params'[b] = params[b]
  BY <1>5, <1>6
<1>8. \A b \in Blocks : (~Done(b))' => params'[b] = {}
  BY <1>1, <1>2, <1>3, <1>7, LeaveFacts DEF FlowInv, Solved
<1>9. ASSUME Acyclic, NEW b \in Blocks, visited'[b] >= 2
      PROVE  (\A s \in Succ(b) : visited'[s] >= 2) /\ params'[b] = Required(b)'
  <2>1. PICK rank : IsRank(rank)
    BY <1>9 DEF Acyclic, IsRank
  <2>2. Succ(b) \subseteq Blocks
    BY SuccFacts
  <2>3. \A s \in Succ(b) : visited[s] >= 2 /\ s # t
    <3>1. CASE b = t
      BY <1>1, <1>2, <1>4, <2>1, <2>2, <3>1, TopReady DEF FlowInv
    <3>2. CASE b # t
      BY <1>3, <1>9, <2>2, <3>2 DEF FlowInv, Solved
    <3>. QED  BY <3>1, <3>2
  <2>4. Required(b)' = Required(b)
    BY <1>1, <1>7, <2>2, <2>3, RequiredStays
  <2>5. params'[b] = Required(b)
    BY <1>3, <1>7, <1>9 DEF FlowInv, Solved
  <2>. QED  BY <1>3, <2>2, <2>3, <2>4, <2>5
<1>10. Acyclic' = Acyclic /\ \A b \in Blocks : Succ(b)' = Succ(b)
  BY <1>1, SuccStays, RankStays
<1>. QED
  BY <1>1, <1>8, <1>9, <1>10 DEF Solved

\* a step that leaves the lists alone and finishes no block of build_params
LEMMA QuietSolved ==
  ASSUME FlowInv,
         s1' = s1, s2' = s2, body' = body, params' = params,
         phase' = "build" => phase = "build" /\ base' = base,
         \A b \in Blocks : visited'[b] >= 2 <=> visited[b] >= 2
  PROVE  Solved'
<1>. USE FlowTypes
<1>1. Acyclic' = Acyclic /\ \A b \in Blocks : Succ(b)' = Succ(b)
  BY SuccStays, RankStays
<1>2. \A b \in Blocks : Succ(b) \subseteq Blocks
  BY SuccFacts
<1>3. \A b \in Blocks : Required(b)' = Required(b)
  BY RequiredStays
<1>4. \A b \in Blocks : phase' = "build" => Done(b)' = Done(b)
  BY DEF Done, TypeInv, Walk
<1>. QED
  BY <1>1, <1>2, <1>3, <1>4 DEF FlowInv, Solved

LEMMA CollectSolved ==
  ASSUME FlowInv, Enter \/ CollectWork PROVE Solved'
<1>. USE FlowTypes
<1>1. /\ s1' = s1 /\ s2' = s2 /\ body' = body /\ params' = params
      /\ phase' = phase /\ base' = base /\ Traversing
  BY EdgesStay DEF Enter, CollectWork, Next
<1>2. PICK t \in Blocks : t = Top
  BY <1>1, PopFacts DEF Traversing, TypeOK
<1>3. /\ visited[t] \in Nat /\ visited'[t] = visited[t] + 1
      /\ \A b \in Blocks \ {t} : visited'[b] = visited[b]
  BY <1>2 DEF Enter, CollectWork, TypeOK
<1>4. visited[t] >= 2 \/ visited'[t] < 2
  <2>1. CASE phase = "build"
    BY <1>2, <1>3, <2>1 DEF Enter, CollectWork, Entered, TypeInv, Walk
  <2>2. CASE phase # "build"
    <3>1. OnStack(t)
      BY <1>1, <1>2, PopFacts DEF OnStack, Top, Traversing, TypeOK
    <3>. QED  BY <2>2, <3>1 DEF ReachInv, Kept
  <2>. QED  BY <2>1, <2>2
<1>5. \A b \in Blocks : visited'[b] >= 2 <=> visited[b] >= 2
  BY <1>3, <1>4
<1>. QED  BY <1>1, <1>5, QuietSolved

LEMMA NextFlow == FlowInv /\ [Next]_vars => FlowInv'
<1>. SUFFICES ASSUME FlowInv, [Next]_vars PROVE FlowInv'
  OBVIOUS
<1>1. EdgeInv' /\ \A rank : Deps(rank)'
  BY NextEdge, NextDeps, FlowTypes DEF FlowInv
<1>2. s1' = s1 /\ s2' = s2 /\ body' = body
  BY EdgesStay, FlowTypes
<1>3. CASE Skip \/ RemoveUnvisited \/ StartRename \/ Rename \/ RenameAbort \/ Finish \/ UNCHANGED vars
  <2>1. /\ params' = params /\ visited' = visited
        /\ phase' = "build" => phase = "build" /\ base' = base
    BY <1>3 DEF Skip, RemoveUnvisited, StartRename, Rename, RenameAbort, Finish, vars
  <2>. QED  BY <1>1, <1>2, <2>1, QuietSolved DEF FlowInv
<1>4. CASE BuildWork
  BY <1>1, <1>4, BuildWorkSolved DEF FlowInv
<1>5. CASE Enter \/ CollectWork
  BY <1>1, <1>5, CollectSolved DEF FlowInv
<1>. QED  BY <1>3, <1>4, <1>5 DEF Next

LEMMA InitFlow == Init => FlowInv
<1>. SUFFICES ASSUME Init PROVE FlowInv
  OBVIOUS
<1>1. \A rank : Deps(rank)
  BY InitDeps
<1>2. Solved
  BY DEF Init, Solved
<1>. QED  BY <1>1, <1>2, InitEdge DEF FlowInv

LEMMA FlowInvariance == Spec => []FlowInv
BY InitFlow, NextFlow, PTL DEF Spec

-----------------------------------------------------------------------------
(* On a function without loops build_params works on a block only when it   *)
(* has worked on all its successors: what the comment at ssa.c:97 hopes for. *)
THEOREM DependenciesFirst == Spec => AcyclicDependenciesDone
<1>1. FlowInv /\ [Next]_vars =>
        [BuildWork => (\A s \in Succ(Top) : Done(s)) \/ ~Acyclic]_vars
  <2>. SUFFICES ASSUME FlowInv, BuildWork, Acyclic
                PROVE  \A s \in Succ(Top) : Done(s)
    OBVIOUS
  <2>1. PICK rank : IsRank(rank)
    BY DEF Acyclic, IsRank
  <2>2. Leave /\ phase = "build"
    BY DEF BuildWork, Leave
  <2>. QED  BY <2>1, <2>2, TopReady, FlowTypes DEF FlowInv
<1>. QED
  BY <1>1, FlowInvariance, PTL DEF Spec, AcyclicDependenciesDone

(* On a function without loops the parameters of the blocks kept solve the  *)
(* equations of liveness: what the block uses before defining it, and what  *)
(* its successors ask for and it does not define.                           *)
THEOREM ParametersSolve == Spec => []DataflowSolved
<1>1. FlowInv => DataflowSolved
  BY FlowTypes DEF FlowInv, Solved, DataflowSolved, ReachInv, Kept
<1>. QED  BY <1>1, FlowInvariance, PTL

(* With these parameters every name rename_temps rewrites has an entry.     *)
LEMMA SolvedDefinesRewrites ==
  ASSUME FlowInv, Acyclic, phase # "build", NEW b \in blks
  PROVE  RewritesDefined(b)
<1>1. b \in Blocks /\ params[b] = Required(b)
  BY FlowTypes DEF FlowInv, Solved, ReachInv, Kept
<1>2. \A k \in DOMAIN body[b].insns : body[b].insns[k].ins \subseteq Mapped(b, k)
  <2>1. TAKE k \in DOMAIN body[b].insns
  <2>2. body[b].insns[k].ins \ OutsUpto(b, k - 1) \subseteq Exposed(b)
    BY DEF Exposed
  <2>. QED  BY <1>1, <2>2 DEF Required, Mapped
<1>3. body[b].cmp \subseteq params[b] \cup Generated(b)
  BY <1>1 DEF Required, Exposed
<1>4. \A s \in Succ(b) : params[s] \subseteq params[b] \cup Generated(b)
  BY <1>1 DEF Required, Forward
<1>5. args1[b] \cup args2[b] \subseteq params[b] \cup Generated(b)
  <2>1. args1[b] = Passed(b, s1[b]) /\ args2[b] = Passed(b, s2[b])
    BY <1>1 DEF FlowInv, EdgeInv, Filled
  <2>. QED  BY <1>4, <2>1 DEF Passed, Succ
<1>6. Mapped(b, Len(body[b].insns) + 1) = params[b] \cup Generated(b)
  BY <1>1, FlowTypes, MappedAtEnd
<1>. QED  BY <1>2, <1>3, <1>5, <1>6 DEF RewritesDefined

(* The assertion of rewrite_tmp() at ssa.c:241 fails only on functions with *)
(* loops.                                                                   *)
THEOREM NoAbortWithoutLoops == Spec => []AbortOnlyOnLoops
<1>1. Init => AbortOnlyOnLoops
  BY DEF Init, AbortOnlyOnLoops
<1>2. AbortOnlyOnLoops /\ FlowInv /\ [Next]_vars => AbortOnlyOnLoops'
  <2>. SUFFICES ASSUME AbortOnlyOnLoops, FlowInv, [Next]_vars, phase' = "aborted"
                PROVE  ~Acyclic'
    BY DEF AbortOnlyOnLoops
  <2>1. Acyclic' = Acyclic
    BY EdgesStay, RankStays, FlowTypes
  <2>2. CASE RenameAbort
    <3>1. PICK b \in Blocks : Current(b) /\ ~RewritesDefined(b)
      BY <2>2 DEF RenameAbort
    <3>2. b \in blks /\ phase # "build"
      BY <2>2, <3>1 DEF RenameAbort, Current, Pending
    <3>. QED  BY <2>1, <3>1, <3>2, SolvedDefinesRewrites
  <2>3. CASE ~RenameAbort
    BY <2>1, <2>3 DEF AbortOnlyOnLoops, Next, vars, Skip, Enter, BuildWork,
         CollectWork, RemoveUnvisited, StartRename, Rename, Finish, Traversing
  <2>. QED  BY <2>2, <2>3
<1>. QED  BY <1>1, <1>2, FlowInvariance, PTL DEF Spec

-----------------------------------------------------------------------------
(* Parameters and liveness, loops or not. A block never has a parameter it  *)
(* does not require, nor one outside a solution of the liveness equations;  *)
(* a block renamed without the assertion failing has all it requires.       *)

\* the equations of liveness hold from right to left
Solution(L) ==
  /\ L \in [Blocks -> SUBSET Tmps]
  /\ \A b \in Blocks :
       Exposed(b) \cup ((UNION {L[s] : s \in Succ(b)}) \ Generated(b)) \subseteq L[b]

Asked == \A b \in Blocks : params[b] \subseteq Required(b)

Justified == \A L : Solution(L) => \A b \in Blocks : params[b] \subseteq L[b]

Complete == \A b \in blks : b <= pos => Required(b) \subseteq params[b]

LiveInv == EdgeInv /\ Asked /\ Justified /\ Complete

LEMMA LiveTypes == LiveInv => EdgeInv /\ ReachInv /\ TypeInv /\ TypeOK
BY DEF LiveInv, EdgeInv, ReachInv, TypeInv

LEMMA InitLive == Init => LiveInv
<1>. SUFFICES ASSUME Init PROVE LiveInv
  OBVIOUS
<1>1. \A b \in blks : ~(b <= pos)
  BY SizeAssumption DEF Init, Blocks
<1>2. \A b \in Blocks : params[b] = {}
  BY DEF Init
<1>. QED  BY <1>1, <1>2, InitEdge DEF LiveInv, Asked, Justified, Complete

\* liveness is about the edges and the bodies, which no step changes
LEMMA EquationsStay ==
  ASSUME s1' = s1, s2' = s2, body' = body
  PROVE  /\ \A b \in Blocks : /\ Exposed(b)' = Exposed(b) /\ Generated(b)' = Generated(b)
                              /\ Succ(b)' = Succ(b)
         /\ \A L : Solution(L)' = Solution(L)
<1>1. \A b \in Blocks : /\ Exposed(b)' = Exposed(b) /\ Generated(b)' = Generated(b)
                        /\ Succ(b)' = Succ(b)
  BY DEF Exposed, Generated, OutsUpto, Succ
<1>2. \A L : Solution(L)' = Solution(L)
  BY <1>1 DEF Solution
<1>. QED  BY <1>1, <1>2

LEMMA BuildWorkLive ==
  ASSUME LiveInv, BuildWork
  PROVE  Asked' /\ Justified'
<1>. USE LiveTypes
<1>1. s1' = s1 /\ s2' = s2 /\ body' = body
  BY DEF BuildWork, cfgVars
<1>2. PICK t \in Blocks : t = Top
  BY PopFacts DEF BuildWork, Traversing, TypeOK
<1>3. /\ params' = [params EXCEPT ![t] = @ \cup Required(t)]
      /\ params \in [Blocks -> SUBSET Tmps]
  BY <1>2 DEF BuildWork, TypeOK
<1>4. /\ params'[t] = params[t] \cup Required(t)
      /\ \A b \in Blocks : b # t => params'[b] = params[b]
  BY <1>3
<1>5. \A b \in Blocks : params[b] \subseteq params'[b]
  BY <1>4
<1>6. \A b \in Blocks : Succ(b) \subseteq Blocks
  BY SuccFacts
<1>7. \A b \in Blocks : Required(b) \subseteq Required(b)'
  <2>1. TAKE b \in Blocks
  <2>2. \A s \in Succ(b) : params[s] \subseteq params'[s]
    BY <1>5, <1>6
  <2>3. Exposed(b)' = Exposed(b) /\ Generated(b)' = Generated(b) /\ Succ(b)' = Succ(b)
    BY <1>1, EquationsStay
  <2>. QED  BY <2>2, <2>3 DEF Required, Forward
<1>8. Asked'
  <2>1. \A b \in Blocks : params'[b] \subseteq Required(b)
    BY <1>4 DEF LiveInv, Asked
  <2>. QED  BY <1>7, <2>1 DEF Asked
<1>9. Justified'
  <2>. SUFFICES ASSUME NEW L, Solution(L), NEW b \in Blocks PROVE params'[b] \subseteq L[b]
    BY <1>1, EquationsStay DEF Justified
  <2>1. \A c \in Blocks : params[c] \subseteq L[c]
    BY DEF LiveInv, Justified
  <2>2. Forward(t) \subseteq (UNION {L[s] : s \in Succ(t)}) \ Generated(t)
    BY <1>6, <2>1 DEF Forward
  <2>3. Required(t) \subseteq L[t]
    BY <2>2 DEF Required, Solution
  <2>. QED  BY <1>4, <2>1, <2>3
<1>. QED  BY <1>8, <1>9

\* a block whose rewrites are all defined has every parameter it requires
LEMMA RewritesComplete ==
  ASSUME EdgeInv, phase = "rename", NEW b \in blks, RewritesDefined(b)
  PROVE  Required(b) \subseteq params[b]
<1>1. TypeOK /\ b \in Blocks /\ Done(b)
  BY DEF EdgeInv, ReachInv, TypeInv, TypeOK, Revisited
<1>2. body[b].cmp \cup args1[b] \cup args2[b] \subseteq params[b] \cup Generated(b)
  BY <1>1, MappedAtEnd DEF RewritesDefined
<1>3. \A k \in DOMAIN body[b].insns :
        body[b].insns[k].ins \ OutsUpto(b, k - 1) \subseteq params[b]
  BY DEF RewritesDefined, Mapped
<1>4. Exposed(b) \subseteq params[b]
  BY <1>2, <1>3 DEF Exposed
<1>5. \A s \in Succ(b) : params[s] \subseteq params[b] \cup Generated(b)
  <2>1. args1[b] = Passed(b, s1[b]) /\ args2[b] = Passed(b, s2[b])
    BY <1>1 DEF EdgeInv, Filled
  <2>. QED  BY <1>1, <1>2, <2>1 DEF Passed, Succ
<1>. QED  BY <1>4, <1>5 DEF Required, Forward

LEMMA RenameComplete == ASSUME LiveInv, Rename PROVE Complete'
<1>. USE LiveTypes
<1>1. PICK b \in Blocks : Current(b) /\ RewritesDefined(b) /\ pos' = b
  BY DEF Rename
<1>2. /\ phase = "rename" /\ blks' = blks /\ params' = params
      /\ s1' = s1 /\ s2' = s2 /\ body' = body
  BY DEF Rename, cfgVars
<1>3. b \in blks
  BY <1>1 DEF Current, Pending
<1>4. \A c \in blks : c <= b /\ c # b => c <= pos
  <2>1. TAKE c \in blks
  <2>2. c \in Nat /\ b \in Nat /\ pos \in Nat
    BY SizeAssumption DEF TypeOK, Blocks
  <2>3. c \in Pending => b <= c
    BY <1>1 DEF Current
  <2>. QED  BY <2>2, <2>3 DEF Pending
<1>5. \A c \in blks : Required(c)' = Required(c)
  BY <1>2, RequiredStays DEF TypeOK
<1>6. \A c \in blks : c <= b => Required(c) \subseteq params[c]
  BY <1>1, <1>2, <1>3, <1>4, RewritesComplete DEF LiveInv, Complete
<1>. QED  BY <1>1, <1>2, <1>5, <1>6 DEF Complete

LEMMA NextLive == LiveInv /\ [Next]_vars => LiveInv'
<1>. SUFFICES ASSUME LiveInv, [Next]_vars PROVE LiveInv'
  OBVIOUS
<1>. USE LiveTypes
<1>1. EdgeInv' /\ s1' = s1 /\ s2' = s2 /\ body' = body
  BY NextEdge, EdgesStay
<1>2. CASE BuildWork
  <2>1. \A b \in Blocks : ~(b <= pos)
    BY <1>2, SizeAssumption DEF BuildWork, EdgeInv, Renamed, Blocks
  <2>2. Complete'
    BY <1>2, <2>1 DEF BuildWork, renameVars, Complete, TypeOK
  <2>. QED  BY <1>1, <1>2, <2>2, BuildWorkLive DEF LiveInv
<1>3. CASE ~BuildWork
  <2>1. params' = params
    BY <1>3 DEF Next, vars, Skip, Enter, CollectWork, RemoveUnvisited, StartRename,
         Rename, RenameAbort, Finish
  <2>2. \A b \in Blocks : Required(b)' = Required(b)
    BY <1>1, <2>1, RequiredStays
  <2>3. Asked'
    BY <2>1, <2>2 DEF LiveInv, Asked
  <2>4. Justified'
    BY <1>1, <2>1, EquationsStay DEF LiveInv, Justified
  <2>5. Complete'
    <3>1. CASE Rename
      BY <3>1, RenameComplete
    <3>2. CASE ~Rename
      <4>1. pos' = pos /\ blks' \subseteq blks
        BY <1>3, <3>2 DEF Next, vars, renameVars, Skip, Enter, CollectWork,
             RemoveUnvisited, StartRename, RenameAbort, Finish
      <4>. QED  BY <2>1, <2>2, <4>1 DEF LiveInv, Complete, TypeOK
    <3>. QED  BY <3>1, <3>2
  <2>. QED  BY <1>1, <2>3, <2>4, <2>5 DEF LiveInv
<1>. QED  BY <1>2, <1>3

LEMMA LiveInvariance == Spec => []LiveInv
BY InitLive, NextLive, PTL DEF Spec

(* A block is given no parameter it neither reads nor passes on, whatever   *)
(* the edges: build_rmap could let such a one share a register.             *)
THEOREM NoIdleParameter == Spec => []ParametersAreUsed
<1>1. LiveInv => ParametersAreUsed
  <2>. SUFFICES ASSUME LiveInv, phase = "done", NEW b \in blks
                PROVE  params[b] \subseteq Exposed(b) \cup args1[b] \cup args2[b]
    BY DEF ParametersAreUsed
  <2>1. b \in Blocks /\ Done(b)
    BY LiveTypes DEF TypeOK, ReachInv, Revisited
  <2>2. args1[b] = Passed(b, s1[b]) /\ args2[b] = Passed(b, s2[b])
    BY <2>1 DEF LiveInv, EdgeInv, Filled
  <2>3. \A s \in Succ(b) : params[s] \subseteq args1[b] \cup args2[b]
    BY <2>1, <2>2 DEF Passed, Succ
  <2>. QED  BY <2>1, <2>3 DEF LiveInv, Asked, Required, Forward
<1>. QED  BY <1>1, LiveInvariance, PTL

-----------------------------------------------------------------------------
(* The reference definition of liveness.                                    *)

\* one step of it along the edges
Back(L) == [b \in Blocks |->
              Exposed(b) \cup ((UNION {L[s] : s \in Succ(b)}) \ Generated(b))]

LEMMA BackAt ==
  ASSUME NEW L, NEW b \in Blocks
  PROVE  Back(L)[b] = Exposed(b) \cup ((UNION {L[s] : s \in Succ(b)}) \ Generated(b))
BY DEF Back

LEMMA ExposedType ==
  ASSUME TypeOK, NEW b \in Blocks
  PROVE  Exposed(b) \subseteq Tmps
BY RequiredType DEF Required

(* What LiveIn is: the NBth of the functions that collect what is live into *)
(* a block within n steps.                                                  *)
LEMMA LiveUnfolds ==
  ASSUME TypeOK
  PROVE  \E live \in [0 .. NB -> [Blocks -> SUBSET Tmps]] :
           /\ live[0] = [b \in Blocks |-> Exposed(b)]
           /\ \A n \in 1 .. NB : live[n] = Back(live[n - 1])
           /\ LiveIn = live[NB]
<1>. DEFINE T == [Blocks -> SUBSET Tmps]
<1>. DEFINE a == [b \in Blocks |-> Exposed(b)]
<1>. DEFINE G == [L \in T |-> Back(L)]
<1>. DEFINE Unfold(f) ==
       [n \in 0 .. NB |->
          [b \in Blocks |->
             Exposed(b) \cup
               (IF n = 0 THEN {}
                ELSE (UNION {f[n - 1][s] : s \in Succ(b)}) \ Generated(b))]]
<1>1. NB \in Nat
  BY SizeAssumption
<1>2. a \in T
  BY ExposedType
<1>3. \A L \in T : Back(L) \in T
  <2>1. TAKE L \in T
  <2>2. \A b \in Blocks :
          Exposed(b) \cup ((UNION {L[s] : s \in Succ(b)}) \ Generated(b)) \subseteq Tmps
    BY ExposedType, SuccFacts
  <2>. QED  BY <2>2 DEF Back
<1>4. G \in [T -> T]
  <2>. HIDE DEF T
  <2>. QED  BY <1>3
<1>5. \A f \in [0 .. NB -> T] :
        f = Unfold(f) <=> \A n \in 0 .. NB : f[n] = IF n = 0 THEN a ELSE Back(f[n - 1])
  <2>1. TAKE f \in [0 .. NB -> T]
  <2>2. \A n \in 0 .. NB : Unfold(f)[n] = IF n = 0 THEN a ELSE Back(f[n - 1])
    <3>1. TAKE n \in 0 .. NB
    <3>2. CASE n = 0
      <4>1. Unfold(f)[n] = [b \in Blocks |-> Exposed(b) \cup {}]
        BY <3>2
      <4>2. \A b \in Blocks : Exposed(b) \cup {} = Exposed(b)
        OBVIOUS
      <4>. QED  BY <3>2, <4>1, <4>2
    <3>3. CASE n # 0
      <4>1. Unfold(f)[n] = [b \in Blocks |-> Exposed(b) \cup
              ((UNION {f[n - 1][s] : s \in Succ(b)}) \ Generated(b))]
        BY <3>3
      <4>. QED  BY <3>3, <4>1 DEF Back
    <3>. QED  BY <3>2, <3>3
  <2>3. f = Unfold(f) <=> \A n \in 0 .. NB : f[n] = Unfold(f)[n]
    OBVIOUS
  <2>. HIDE DEF Unfold, a
  <2>. QED  BY <2>2, <2>3
<1>6. PICK f \in [0 .. NB -> T] : f = Unfold(f)
  <2>1. \E f : Iterates(f, NB, T, a, G)
    <3>. HIDE DEF T, a, G
    <3>. QED  BY <1>1, <1>2, <1>4, RecursionExists
  <2>2. PICK f \in [0 .. NB -> T] :
          \A n \in 0 .. NB : f[n] = IF n = 0 THEN a ELSE G[f[n - 1]]
    <3>. HIDE DEF T, a, G
    <3>. QED  BY <2>1 DEF Iterates
  <2>3. \A n \in 0 .. NB : n # 0 => n - 1 \in 0 .. NB
    BY <1>1
  <2>4. \A n \in 0 .. NB : n # 0 => G[f[n - 1]] = Back(f[n - 1])
    <3>. HIDE DEF T
    <3>. QED  BY <2>3
  <2>5. \A n \in 0 .. NB : f[n] = IF n = 0 THEN a ELSE Back(f[n - 1])
    <3>. HIDE DEF T, a, G
    <3>. QED  BY <2>2, <2>4
  <2>. HIDE DEF T, a, G, Unfold
  <2>. QED  BY <1>5, <2>5
<1>. DEFINE live == CHOOSE g : g = Unfold(g)
<1>7. live = Unfold(live)
  <2>. HIDE DEF Unfold
  <2>. QED  BY <1>6
<1>8. LiveIn = live[NB]
  BY DEF LiveIn
<1>. HIDE DEF live
<1>9. live \in [0 .. NB -> T]
  <2>. DEFINE Bad == {n \in 0 .. NB : live[n] \notin T}
  <2>1. ASSUME Bad # {} PROVE FALSE
    <3>1. PICK n \in Bad : \A m \in Bad : n <= m
      <4>1. Bad \in SUBSET Nat
        BY <1>1
      <4>. HIDE DEF Bad
      <4>. QED  BY <2>1, <4>1, LeastOf
    <3>2. live[n] = [b \in Blocks |-> Exposed(b) \cup
             (IF n = 0 THEN {}
              ELSE (UNION {live[n - 1][s] : s \in Succ(b)}) \ Generated(b))]
      BY <1>7
    <3>3. CASE n = 0
      BY <3>1, <3>2, <3>3, ExposedType
    <3>4. CASE n # 0
      <4>1. n - 1 \in 0 .. NB /\ n - 1 \notin Bad
        BY <1>1, <3>1, <3>4
      <4>2. live[n - 1] \in T
        BY <4>1
      <4>3. live[n] = Back(live[n - 1])
        BY <3>2, <3>4 DEF Back
      <4>. HIDE DEF T
      <4>. QED  BY <1>3, <3>1, <4>2, <4>3
    <3>. QED  BY <3>3, <3>4
  <2>2. DOMAIN live = 0 .. NB /\ live = [n \in 0 .. NB |-> live[n]]
    BY <1>7
  <2>. HIDE DEF T
  <2>. QED  BY <2>1, <2>2
<1>10. \A n \in 0 .. NB : live[n] = IF n = 0 THEN a ELSE Back(live[n - 1])
  <2>. HIDE DEF T, a, Unfold
  <2>. QED  BY <1>5, <1>7, <1>9
<1>11. /\ live[0] = a
       /\ \A n \in 1 .. NB : live[n] = Back(live[n - 1])
  <2>1. 0 \in 0 .. NB /\ \A n \in 1 .. NB : n \in 0 .. NB /\ n # 0
    BY <1>1
  <2>. HIDE DEF a
  <2>. QED  BY <1>10, <2>1
<1>. QED  BY <1>8, <1>9, <1>11

(* NB steps are enough: what is live into the blocks solves the equations.  *)
LEMMA LiveInSolves == ASSUME TypeOK PROVE Solution(LiveIn)
<1>1. PICK live \in [0 .. NB -> [Blocks -> SUBSET Tmps]] :
        /\ live[0] = [b \in Blocks |-> Exposed(b)]
        /\ \A n \in 1 .. NB : live[n] = Back(live[n - 1])
        /\ LiveIn = live[NB]
  BY LiveUnfolds
<1>2. NB \in Nat /\ NB \in 0 .. NB /\ 0 \in 0 .. NB
  BY SizeAssumption
<1>3. LiveIn \in [Blocks -> SUBSET Tmps]
  BY <1>1, <1>2
<1>4. IsFiniteSet(Blocks) /\ Cardinality(Blocks) <= NB
  <2>1. IsFiniteSet(1 .. NB) /\ Cardinality(1 .. NB) = NB
    BY <1>2, FS_Interval
  <2>. QED  BY <1>2, <2>1 DEF Blocks
<1>5. ASSUME NEW t,  NEW c \in Blocks,
             t \in Exposed(c) \cup ((UNION {LiveIn[s] : s \in Succ(c)}) \ Generated(c))
      PROVE  t \in LiveIn[c]
  <2>. DEFINE a == {b \in Blocks : t \in Exposed(b)}
  <2>. DEFINE Grown(S) ==
         {b \in Blocks : t \in Exposed(b) \/ (t \notin Generated(b) /\ Succ(b) \cap S # {})}
  <2>. DEFINE G == [S \in SUBSET Blocks |-> Grown(S)]
  <2>. DEFINE A == [n \in 0 .. NB |-> {b \in Blocks : t \in live[n][b]}]
  <2>1. Grows(Blocks, G)
    BY DEF Grows
  <2>2. a \in SUBSET Blocks
    OBVIOUS
  <2>3. a \subseteq G[a]
    OBVIOUS
  <2>4. A \in [0 .. NB -> SUBSET Blocks]
    OBVIOUS
  <2>5. A[0] = a
    BY <1>1, <1>2
  <2>6. \A n \in 1 .. NB : A[n] = Grown(A[n - 1])
    <3>1. TAKE n \in 1 .. NB
    <3>2. n \in 0 .. NB /\ n - 1 \in 0 .. NB
      BY <1>2
    <3>3. \A b \in Blocks : t \in live[n][b] <=> t \in Exposed(b) \/
            (t \notin Generated(b) /\ \E s \in Succ(b) : t \in live[n - 1][s])
      <4>1. TAKE b \in Blocks
      <4>2. live[n][b] = Exposed(b) \cup
              ((UNION {live[n - 1][s] : s \in Succ(b)}) \ Generated(b))
        BY <1>1, BackAt
      <4>. QED  BY <4>2
    <3>4. \A b \in Blocks : (\E s \in Succ(b) : t \in live[n - 1][s])
                              <=> Succ(b) \cap A[n - 1] # {}
      BY <3>2, SuccFacts
    <3>. QED  BY <3>2, <3>3, <3>4
  <2>7. \A n \in 1 .. NB : G[A[n - 1]] = Grown(A[n - 1])
    <3>1. \A n \in 1 .. NB : n - 1 \in 0 .. NB
      BY <1>2
    <3>. HIDE DEF A, Grown
    <3>. QED  BY <2>4, <3>1
  <2>8. Iterates(A, NB, SUBSET Blocks, a, G)
    <3>1. \A n \in 0 .. NB : n # 0 => n \in 1 .. NB
      BY <1>2
    <3>. HIDE DEF A, G, a, Grown
    <3>. QED  BY <1>2, <2>4, <2>5, <2>6, <2>7, <3>1 DEF Iterates
  <2>9. G[A[NB]] = A[NB]
    <3>1. NB \in Nat
      BY <1>2
    <3>2. IsFiniteSet(Blocks)
      BY <1>4
    <3>3. Cardinality(Blocks) <= NB
      BY <1>4
    <3>. HIDE DEF A, G, a, Grown
    <3>. QED  BY <2>1, <2>2, <2>3, <2>8, <3>1, <3>2, <3>3, ChainStops
  <2>10. A[NB] = {b \in Blocks : t \in LiveIn[b]} /\ A[NB] \in SUBSET Blocks
    BY <1>1, <1>2
  <2>11. c \in Grown(A[NB])
    <3>. HIDE DEF A
    <3>. QED  BY <1>5, <2>10, SuccFacts
  <2>12. Grown(A[NB]) = A[NB]
    <3>. HIDE DEF A, Grown
    <3>. QED  BY <2>9, <2>10
  <2>. HIDE DEF A, Grown
  <2>. QED  BY <2>10, <2>11, <2>12
<1>. QED  BY <1>3, <1>5 DEF Solution

(* If the pass finishes, the parameters of each block kept are exactly the  *)
(* temporaries live into it, for functions of any size and any edges. That  *)
(* none is missing comes from the assertion of rewrite_tmp(), which every   *)
(* block has passed.                                                        *)
THEOREM FinishedParametersAreLive == Spec => []FinishedIsLive
<1>1. LiveInv => FinishedIsLive
  <2>. SUFFICES ASSUME LiveInv, phase = "done" PROVE \A b \in blks : params[b] = LiveIn[b]
    BY DEF FinishedIsLive
  <2>. USE LiveTypes
  <2>1. \A b \in Blocks : params[b] \subseteq LiveIn[b]
    BY LiveInSolves DEF LiveInv, Justified
  <2>2. PICK live \in [0 .. NB -> [Blocks -> SUBSET Tmps]] :
          /\ live[0] = [b \in Blocks |-> Exposed(b)]
          /\ \A n \in 1 .. NB : live[n] = Back(live[n - 1])
          /\ LiveIn = live[NB]
    BY LiveUnfolds
  <2>3. blks \subseteq Blocks /\ \A b \in blks : Succ(b) \subseteq blks
    BY DEF TypeOK, ReachInv, Kept, IsClosed
  <2>4. \A b \in blks : Required(b) \subseteq params[b]
    BY DEF LiveInv, Complete, EdgeInv, Renamed
  <2>5. NB \in Nat /\ NB \in 0 .. NB
    BY SizeAssumption
  <2>. DEFINE Bad == {n \in 0 .. NB : \E b \in blks : ~(live[n][b] \subseteq params[b])}
  <2>6. ASSUME Bad # {} PROVE FALSE
    <3>1. PICK n \in Bad : \A m \in Bad : n <= m
      <4>1. Bad \in SUBSET Nat
        BY <2>5
      <4>. HIDE DEF Bad
      <4>. QED  BY <2>6, <4>1, LeastOf
    <3>2. PICK b \in blks : ~(live[n][b] \subseteq params[b])
      BY <3>1
    <3>3. CASE n = 0
      BY <2>2, <2>3, <2>4, <3>2, <3>3 DEF Required
    <3>4. CASE n # 0
      <4>1. n \in 1 .. NB /\ n - 1 \in 0 .. NB /\ n - 1 \notin Bad
        BY <2>5, <3>1, <3>4
      <4>2. \A s \in blks : live[n - 1][s] \subseteq params[s]
        BY <4>1
      <4>3. live[n][b] = Exposed(b) \cup
              ((UNION {live[n - 1][s] : s \in Succ(b)}) \ Generated(b))
        <5>1. live[n] = Back(live[n - 1]) /\ b \in Blocks
          BY <2>2, <2>3, <4>1
        <5>. QED  BY <5>1, BackAt
      <4>4. live[n][b] \subseteq Required(b)
        BY <2>3, <4>2, <4>3 DEF Required, Forward
      <4>. QED  BY <2>4, <3>2, <4>4
    <3>. QED  BY <3>3, <3>4
  <2>7. \A b \in blks : LiveIn[b] \subseteq params[b]
    BY <2>2, <2>5, <2>6
  <2>. QED  BY <2>1, <2>3, <2>7
<1>. QED  BY <1>1, LiveInvariance, PTL
=============================================================================
