--------------------------- MODULE BuilderProofs ---------------------------
(* Proofs about the function builder, for programs of any length with any   *)
(* labels.                                                                  *)
(*                                                                          *)
(* The invariant separates the last block, which statements are still added *)
(* to, from the ones before it, which have their branch. What it says about *)
(* labels is what makes the removal of the last block safe: a label of an   *)
(* empty last block was the statement parsed last.                          *)
(*                                                                          *)
(* For control flow, Told says which statements the code of each block      *)
(* stands for: a block goes on where the one before it ended, the labels    *)
(* lead to the blocks that start with what they name, and no statement is   *)
(* left out. Once every block has its branch, that is the source's order.   *)
EXTENDS Builder, SequenceTheorems, TLAPS, Induction

-----------------------------------------------------------------------------
(* The invariant.                                                           *)

Legal == prog \in Programs

\* the blocks that have their branch
Closed == IF phase = "parse" THEN 1 .. Len(blks) - 1 ELSE 1 .. Len(blks)

\* their edges, with branch targets looked up as far as finish_function() is
Settled ==
  phase # "aborted" =>
    \A b \in Closed :
      /\ blks[b].btype # "ADD"
      /\ blks[b].btype = "RET" =>
           blks[b].s1 = NoBlock /\ blks[b].s2 = NoBlock /\ blks[b].to = NoLabel
      /\ blks[b].btype # "RET" => b < Len(blks) /\ blks[b].s1 = b + 1
      /\ blks[b].btype # "RET" /\ blks[b].to = NoLabel => blks[b].s2 = b + 1
      /\ blks[b].to # NoLabel => IF b < bi THEN blks[b].s2 # NoBlock ELSE blks[b].s2 = NoBlock

\* the block under construction
Open ==
  phase = "parse" =>
    /\ bi = 1
    /\ Last.btype = "ADD" /\ Last.to = NoLabel /\ Last.s1 = NoBlock /\ Last.s2 = NoBlock
    /\ \A j \in DOMAIN Last.insns : Last.insns[j].kind \in {"param", "op"}

\* parameters are fetched in the first block, and no edge leads there
Fetched ==
  /\ \A b \in DOMAIN blks : \A j \in DOMAIN blks[b].insns :
       blks[b].insns[j].kind = "param" => b = 1 /\ prog.params > 0
  /\ prog.params > 0 =>
       /\ blks[1].insns # <<>>
       /\ \A j \in DOMAIN labels : labels[j].b # 1
       /\ \A b \in DOMAIN blks : blks[b].s2 # 1

Labelled ==
  phase # "aborted" => \A j \in DOMAIN labels : labels[j].b \in 1 .. Len(blks)

\* what the statement parsed last has left
Parsed ==
  phase = "parse" =>
    /\ \A j \in DOMAIN labels :
         labels[j].b = Len(blks) /\ Last.insns = <<>> =>
           k > 1 /\ prog.body[k - 1].kind = "label"
    /\ (\A h \in 1 .. k - 1 : prog.body[h].kind = "label") =>
         \A b \in Closed : blks[b].btype = "J"
    /\ k > 1 /\ prog.body[k - 1].kind = "return" =>
         Last.insns = <<>> /\ Len(blks) > 1 /\ blks[Len(blks) - 1].btype = "RET"

\* names in the source and in the graph
Names ==
  /\ \A h \in 1 .. k - 1 : prog.body[h].kind = "label" =>
       \E j \in DOMAIN labels : labels[j].id = prog.body[h].label
  /\ phase # "parse" => k \notin DOMAIN prog.body
  /\ \A b \in DOMAIN blks : blks[b].to # NoLabel =>
       \E h \in DOMAIN prog.body :
         prog.body[h].kind \in {"branch", "jump"} /\ prog.body[h].label = blks[b].to

Ended ==
  /\ phase \in {"resolve", "done"} => Last.btype = "RET"
  /\ phase = "done" => bi \notin DOMAIN blks

BlockInv == TypeOK /\ Legal /\ Settled /\ Open /\ Fetched /\ CallsEndBlocks
NameInv  == Labelled /\ Parsed /\ Names /\ Ended /\ RejectsOnlyMalformed

Inv == BlockInv /\ NameInv

-----------------------------------------------------------------------------
(* Sequences of blocks and instructions.                                    *)

(* What TypeOK says of positions and fields.                                *)
LEMMA TypeFacts ==
  ASSUME TypeOK, Legal
  PROVE  /\ Len(blks) \in Nat /\ Len(blks) >= 1 /\ DOMAIN blks = 1 .. Len(blks)
         /\ \A b \in 1 .. Len(blks) : blks[b] \in Block
         /\ Last \in Block
         /\ Len(labels) \in Nat /\ DOMAIN labels = 1 .. Len(labels)
         /\ \A j \in DOMAIN labels : labels[j] \in [id : Labels, b : Nat \ {0}]
         /\ prog.params \in Nat
         /\ Len(prog.body) \in Nat /\ Len(prog.body) >= 1
         /\ DOMAIN prog.body = 1 .. Len(prog.body)
         /\ \A j \in DOMAIN prog.body : prog.body[j] \in Statement
         /\ k \in Nat
<1>1. /\ blks \in Seq(Block) /\ blks # <<>> /\ labels \in Seq([id : Labels, b : Nat \ {0}])
      /\ prog.body \in Seq(Statement) /\ prog.body # <<>> /\ prog.params \in Nat
  BY DEF TypeOK
<1>2. /\ Len(blks) \in Nat /\ Len(blks) >= 1 /\ DOMAIN blks = 1 .. Len(blks)
      /\ \A b \in 1 .. Len(blks) : blks[b] \in Block
  BY <1>1, LenProperties, ElementOfSeq, EmptySeq
<1>3. Len(labels) \in Nat /\ DOMAIN labels = 1 .. Len(labels)
      /\ \A j \in DOMAIN labels : labels[j] \in [id : Labels, b : Nat \ {0}]
  <2>1. PICK S : S = [id : Labels, b : Nat \ {0}]
    OBVIOUS
  <2>2. labels \in Seq(S)
    BY <1>1, <2>1
  <2>3. Len(labels) \in Nat /\ DOMAIN labels = 1 .. Len(labels)
        /\ \A j \in DOMAIN labels : labels[j] \in S
    BY <2>2, LenProperties, ElementOfSeq
  <2>. QED  BY <2>1, <2>3
<1>4. /\ Len(prog.body) \in Nat /\ Len(prog.body) >= 1
      /\ DOMAIN prog.body = 1 .. Len(prog.body)
      /\ \A j \in DOMAIN prog.body : prog.body[j] \in Statement
  BY <1>1, LenProperties, ElementOfSeq, EmptySeq
<1>5. k \in Nat
  BY <1>4 DEF TypeOK
<1>. QED  BY <1>1, <1>2, <1>3, <1>4, <1>5 DEF Last

(* Instructions added to a block: what was there, then the new ones.        *)
LEMMA AddedFacts ==
  ASSUME NEW r \in Seq(Insns), NEW u \in Seq(Insns)
  PROVE  /\ r \o u \in Seq(Insns)
         /\ \A j \in DOMAIN (r \o u) :
              \/ j \in DOMAIN r /\ (r \o u)[j] = r[j]
              \/ j - Len(r) \in DOMAIN u /\ (r \o u)[j] = u[j - Len(r)] /\ j > Len(r)
         /\ DOMAIN r \subseteq Nat /\ \A j \in DOMAIN r : j <= Len(r)
         /\ r # <<>> => r \o u # <<>>
<1>1. /\ Len(r) \in Nat /\ Len(u) \in Nat
      /\ DOMAIN r = 1 .. Len(r) /\ DOMAIN u = 1 .. Len(u)
      /\ r \o u \in Seq(Insns) /\ Len(r \o u) = Len(r) + Len(u)
      /\ DOMAIN (r \o u) = 1 .. Len(r) + Len(u)
      /\ \A j \in 1 .. Len(r) + Len(u) :
           (r \o u)[j] = IF j <= Len(r) THEN r[j] ELSE u[j - Len(r)]
  BY LenProperties, ConcatProperties
<1>2. r # <<>> => Len(r) >= 1
  BY <1>1, EmptySeq
<1>3. r # <<>> => r \o u # <<>>
  BY <1>1, <1>2, EmptySeq
<1>. QED  BY <1>1, <1>3

\* w is r with u added
Added(r, u, w) ==
  /\ \A j \in DOMAIN w :
       \/ j \in DOMAIN r /\ w[j] = r[j]
       \/ j - Len(r) \in DOMAIN u /\ w[j] = u[j - Len(r)] /\ j > Len(r)
  /\ DOMAIN r \subseteq Nat /\ \A j \in DOMAIN r : j <= Len(r)
  /\ r # <<>> => w # <<>>

LEMMA AddedTo ==
  ASSUME NEW r \in Seq(Insns), NEW u \in Seq(Insns), NEW w, w = r \o u
  PROVE  Added(r, u, w)
<1>1. Added(r, u, r \o u)
  BY AddedFacts DEF Added
<1>. QED  BY <1>1

(* The results of a call and of the function.                               *)
LEMMA RepeatFacts ==
  ASSUME NEW kind \in {"retval", "retarg"}, NEW n \in Nat, k \in Nat
  PROVE  /\ Repeat(kind, n) \in Seq(Insns)
         /\ \A j \in DOMAIN Repeat(kind, n) : Repeat(kind, n)[j].kind = kind
         /\ DOMAIN Repeat(kind, n) = 1 .. n
<1>1. Insn(kind, k) \in Insns /\ Insn(kind, k).kind = kind
  BY DEF Insn, Insns
<1>2. \A j \in 1 .. n : Repeat(kind, n)[j] = Insn(kind, k)
  BY DEF Repeat
<1>3. DOMAIN Repeat(kind, n) = 1 .. n /\ Repeat(kind, n) \in [1 .. n -> Insns]
  BY <1>1 DEF Repeat
<1>4. Repeat(kind, n) \in Seq(Insns)
  BY <1>3, IsASeq
<1>. QED  BY <1>1, <1>2, <1>3, <1>4

\* q is the blocks with the last one finished and a new one appended
IsBranched(q, insns, btype, stmt, label) ==
  LET n == Len(blks)
  IN  /\ q \in Seq(Block) /\ q # <<>>
      /\ Len(q) = n + 1 /\ DOMAIN q = 1 .. n + 1
      /\ \A b \in 1 .. n - 1 : q[b] = blks[b]
      /\ q[n].insns = blks[n].insns \o insns
      /\ q[n].btype = btype /\ q[n].stmt = stmt /\ q[n].to = label
      /\ q[n].s1 = IF btype = "RET" THEN blks[n].s1 ELSE n + 1
      /\ q[n].s2 = IF btype = "J" /\ label = NoLabel THEN n + 1 ELSE blks[n].s2
      /\ q[n + 1] = EmptyBlock

(* A block gets its branch and a new one is appended.                       *)
LEMMA BranchedFacts ==
  ASSUME TypeOK, Legal, phase = "parse", NEW insns \in Seq(Insns),
         NEW btype \in {"BLT", "J", "RET"}, NEW stmt \in Nat,
         NEW label \in Labels \cup {NoLabel}
  PROVE  IsBranched(Branched(insns, btype, stmt, label), insns, btype, stmt, label)
<1>. PICK n, q : n = Len(blks) /\ q = Branched(insns, btype, stmt, label)
  OBVIOUS
<1>. DEFINE d == [blks[n] EXCEPT !.insns = @ \o insns, !.btype = btype,
                                 !.stmt = stmt, !.to = label,
                                 !.s1 = IF btype = "RET" THEN @ ELSE n + 1,
                                 !.s2 = IF btype = "J" /\ label = NoLabel THEN n + 1 ELSE @]
            r == [blks EXCEPT ![n] = d]
<1>1. /\ n \in Nat /\ n >= 1 /\ cur = n /\ blks \in Seq(Block)
      /\ DOMAIN blks = 1 .. n /\ blks[n] \in Block
  BY TypeFacts DEF TypeOK
<1>2. q = Append(r, EmptyBlock)
  BY <1>1 DEF Branched
<1>3. blks[n].insns \o insns \in Seq(Insns)
  BY <1>1, AddedFacts DEF Block
<1>4. /\ d.insns = blks[n].insns \o insns /\ d.btype = btype /\ d.stmt = stmt /\ d.to = label
      /\ d.s1 = IF btype = "RET" THEN blks[n].s1 ELSE n + 1
      /\ d.s2 = IF btype = "J" /\ label = NoLabel THEN n + 1 ELSE blks[n].s2
  BY <1>1 DEF Block
<1>5. d \in Block
  <2>1. blks[n].s1 \in Nat /\ blks[n].s2 \in Nat /\ n + 1 \in Nat
    BY <1>1 DEF Block
  <2>2. PICK e \in Nat, f \in Nat :
          /\ e = IF btype = "RET" THEN blks[n].s1 ELSE n + 1
          /\ f = IF btype = "J" /\ label = NoLabel THEN n + 1 ELSE blks[n].s2
    BY <2>1
  <2>3. PICK i \in Seq(Insns) : i = blks[n].insns \o insns
    BY <1>3
  <2>4. d = [blks[n] EXCEPT !.insns = i, !.btype = btype, !.stmt = stmt, !.to = label,
                            !.s1 = e, !.s2 = f]
    BY <2>2, <2>3
  <2>. HIDE DEF d
  <2>5. btype \in {"ADD", "BLT", "J", "RET"}
    OBVIOUS
  <2>6. blks[n] \in Block
    BY <1>1
  <2>. QED  BY <2>4, <2>5, <2>6 DEF Block
<1>. HIDE DEF d
<1>6. /\ r \in Seq(Block) /\ Len(r) = n /\ r[n] = d
      /\ \A b \in 1 .. n - 1 : r[b] = blks[b]
  BY <1>1, <1>5, ExceptSeq
<1>7. EmptyBlock \in Block
  BY DEF EmptyBlock, Block, NoBlock
<1>. HIDE DEF r
<1>8. /\ q \in Seq(Block) /\ Len(q) = n + 1 /\ q[n + 1] = EmptyBlock
      /\ \A b \in 1 .. n : q[b] = r[b]
  BY <1>1, <1>2, <1>6, <1>7, AppendProperties
<1>9. q # <<>> /\ DOMAIN q = 1 .. n + 1
  BY <1>1, <1>8, EmptySeq, LenProperties
<1>10. n \in 1 .. n /\ \A b \in 1 .. n - 1 : b \in 1 .. n
  BY <1>1
<1>11. q[n] = d /\ \A b \in 1 .. n - 1 : q[b] = blks[b]
  BY <1>6, <1>8, <1>10
<1>12. IsBranched(q, insns, btype, stmt, label)
  BY <1>4, <1>8, <1>9, <1>11 DEF IsBranched
<1>. QED  BY <1>12

-----------------------------------------------------------------------------
(* The steps of the parser.                                                 *)

(* do_new_block() keeps what is said of the blocks, whatever ends the one   *)
(* before.                                                                  *)
LEMMA BranchedInv ==
  ASSUME BlockInv, phase = "parse", phase' = "parse", prog' = prog, bi' = bi,
         k \in DOMAIN prog.body, k' = k + 1,
         NEW insns \in Seq(Insns), NEW btype \in {"BLT", "J", "RET"}, NEW stmt \in Nat,
         NEW label \in Labels \cup {NoLabel},
         btype = "BLT" => label # NoLabel, btype = "RET" => label = NoLabel,
         \A j \in DOMAIN insns : insns[j].kind \in {"call", "retval", "retarg"},
         \A i, j \in DOMAIN insns : insns[i].kind = "call" /\ i < j => insns[j].kind = "retval",
         blks' = Branched(insns, btype, stmt, label), cur' = Len(blks'),
         labels' \in Seq([id : Labels, b : Nat \ {0}]),
         \A j \in DOMAIN labels' : prog.params > 0 => labels'[j].b # 1
  PROVE  BlockInv'
<1>. USE DEF BlockInv
<1>. PICK n : n = Len(blks)
  OBVIOUS
<1>1. /\ n \in Nat /\ n >= 1 /\ DOMAIN blks = 1 .. n
      /\ \A b \in 1 .. n : blks[b] \in Block
      /\ DOMAIN prog.body = 1 .. Len(prog.body) /\ Len(prog.body) \in Nat
      /\ prog.params \in Nat /\ bi = 1 /\ k \in Nat
  BY TypeFacts DEF Open
<1>2. /\ blks' \in Seq(Block) /\ blks' # <<>>
      /\ Len(blks') = n + 1 /\ DOMAIN blks' = 1 .. n + 1
      /\ \A b \in 1 .. n - 1 : blks'[b] = blks[b]
      /\ blks'[n].insns = blks[n].insns \o insns
      /\ blks'[n].btype = btype /\ blks'[n].to = label
      /\ blks'[n].s1 = IF btype = "RET" THEN blks[n].s1 ELSE n + 1
      /\ blks'[n].s2 = IF btype = "J" /\ label = NoLabel THEN n + 1 ELSE blks[n].s2
      /\ blks'[n + 1] = EmptyBlock
  <2>1. TypeOK /\ Legal
    OBVIOUS
  <2>2. IsBranched(blks', insns, btype, stmt, label)
    BY <2>1, BranchedFacts
  <2>. QED  BY <2>2 DEF IsBranched
<1>12. \A b \in 1 .. n - 1 : b \in 1 .. n /\ b \in DOMAIN blks /\ blks'[b] = blks[b]
  <2>1. \A b \in 1 .. n - 1 : b \in 1 .. n
    BY <1>1
  <2>2. DOMAIN blks = 1 .. n
    BY <1>1
  <2>3. \A b \in 1 .. n - 1 : blks'[b] = blks[b]
    BY <1>2
  <2>. QED  BY <2>1, <2>2, <2>3
<1>3. /\ EmptyBlock.btype = "ADD" /\ EmptyBlock.to = NoLabel /\ EmptyBlock.s1 = NoBlock
      /\ EmptyBlock.s2 = NoBlock /\ EmptyBlock.insns = <<>> /\ DOMAIN EmptyBlock.insns = {}
  BY DEF EmptyBlock
<1>4. /\ blks[n].s1 = NoBlock /\ blks[n].s2 = NoBlock
      /\ \A j \in DOMAIN blks[n].insns : blks[n].insns[j].kind \in {"param", "op"}
  BY DEF Open, Last
<1>5. blks[n].insns \in Seq(Insns)
  BY <1>1 DEF Block
<1>. PICK r, w : r = blks[n].insns /\ w = blks'[n].insns
  OBVIOUS
<1>6. /\ \A j \in DOMAIN w :
           \/ j \in DOMAIN r /\ w[j] = r[j]
           \/ j - Len(r) \in DOMAIN insns /\ w[j] = insns[j - Len(r)] /\ j > Len(r)
      /\ DOMAIN r \subseteq Nat /\ \A j \in DOMAIN r : j <= Len(r)
      /\ r # <<>> => w # <<>>
      /\ Len(r) \in Nat /\ DOMAIN w \subseteq Nat
  <2>1. w = r \o insns /\ w \in Seq(Insns) /\ Len(r) \in Nat
    BY <1>2, <1>5, AddedFacts, LenProperties
  <2>2. DOMAIN w \subseteq Nat
    BY <2>1, LenProperties
  <2>3. Added(r, insns, w)
    BY <1>5, <2>1, AddedTo
  <2>. QED  BY <2>1, <2>2, <2>3 DEF Added
<1>7. TypeOK'
  <2>1. \A b \in 1 .. n + 1 : {blks'[b].s1, blks'[b].s2} \subseteq 0 .. n + 1
    <3>1. SUFFICES ASSUME NEW b \in 1 .. n + 1
                   PROVE  blks'[b].s1 \in 0 .. n + 1 /\ blks'[b].s2 \in 0 .. n + 1
      OBVIOUS
    <3>2. CASE b \in 1 .. n - 1
      <4>1. b \in DOMAIN blks /\ blks'[b] = blks[b]
        BY <1>12, <3>2
      <4>2. {blks[b].s1, blks[b].s2} \subseteq 0 .. n
        BY <4>1 DEF TypeOK
      <4>3. 0 .. n \subseteq 0 .. n + 1
        BY <1>1
      <4>. QED  BY <4>1, <4>2, <4>3
    <3>3. CASE b = n
      BY <1>1, <1>2, <1>4, <3>3 DEF NoBlock
    <3>4. CASE b = n + 1
      BY <1>1, <1>2, <1>3, <3>4 DEF NoBlock
    <3>. QED  BY <1>1, <3>2, <3>3, <3>4
  <2>2. k' \in 1 .. Len(prog.body) + 1 /\ bi \in 1 .. n + 2
    BY <1>1
  <2>3. /\ \A b \in DOMAIN blks' : {blks'[b].s1, blks'[b].s2} \subseteq 0 .. Len(blks')
        /\ bi' \in 1 .. Len(blks') + 1
    <3>1. n + 1 + 1 = n + 2
      BY <1>1
    <3>. QED  BY <1>2, <2>1, <2>2, <3>1
  <2>. QED  BY <1>2, <2>2, <2>3 DEF TypeOK
<1>8. Settled'
  <2>1. SUFFICES ASSUME NEW b \in 1 .. n
                 PROVE  /\ blks'[b].btype # "ADD"
                        /\ blks'[b].btype = "RET" =>
                             /\ blks'[b].s1 = NoBlock /\ blks'[b].s2 = NoBlock
                             /\ blks'[b].to = NoLabel
                        /\ blks'[b].btype # "RET" => b < n + 1 /\ blks'[b].s1 = b + 1
                        /\ blks'[b].btype # "RET" /\ blks'[b].to = NoLabel => blks'[b].s2 = b + 1
                        /\ blks'[b].to # NoLabel =>
                             IF b < bi THEN blks'[b].s2 # NoBlock ELSE blks'[b].s2 = NoBlock
    BY <1>1, <1>2 DEF Settled, Closed
  <2>2. CASE b \in 1 .. n - 1
    <3>1. b \in Closed
      BY <2>2 DEF Closed
    <3>2. b < n /\ b < n + 1 /\ blks'[b] = blks[b]
      <4>1. b < n /\ b < n + 1
        BY <1>1, <2>2
      <4>. QED  BY <1>12, <2>2, <4>1
    <3>. QED  BY <3>1, <3>2 DEF Settled
  <2>3. CASE b = n
    BY <1>1, <1>2, <1>4, <2>3
  <2>. QED  BY <1>1, <2>2, <2>3
<1>9. Open'
  BY <1>1, <1>2, <1>3 DEF Open, Last
<1>10. Fetched'
  <2>1. \A b \in 1 .. n + 1 : \A j \in DOMAIN blks'[b].insns :
          blks'[b].insns[j].kind = "param" => b = 1 /\ prog.params > 0
    <3>1. SUFFICES ASSUME NEW b \in 1 .. n + 1, NEW j \in DOMAIN blks'[b].insns,
                          blks'[b].insns[j].kind = "param"
                   PROVE  b = 1 /\ prog.params > 0
      OBVIOUS
    <3>2. CASE b \in 1 .. n - 1
      BY <1>12, <3>1, <3>2 DEF Fetched
    <3>3. CASE b = n
      <4>1. j \in DOMAIN r /\ w[j] = r[j]
        BY <1>2, <1>6, <3>1, <3>3
      <4>2. n \in DOMAIN blks /\ blks[n].insns[j].kind = "param" /\ j \in DOMAIN blks[n].insns
        BY <1>1, <1>6, <3>1, <3>3, <4>1
      <4>. QED  BY <3>3, <4>2 DEF Fetched
    <3>4. CASE b = n + 1
      BY <1>2, <1>3, <3>1, <3>4
    <3>. QED  BY <1>1, <3>2, <3>3, <3>4
  <2>2. ASSUME prog.params > 0 PROVE blks'[1].insns # <<>>
    <3>1. blks[1].insns # <<>>
      BY <2>2 DEF Fetched
    <3>2. CASE n = 1
      BY <1>2, <1>6, <3>1, <3>2
    <3>3. CASE n > 1
      BY <1>1, <1>12, <3>1, <3>3
    <3>. QED  BY <1>1, <3>2, <3>3
  <2>3. ASSUME prog.params > 0, NEW b \in 1 .. n + 1 PROVE blks'[b].s2 # 1
    <3>1. \A c \in 1 .. n : blks[c].s2 # 1
      BY <1>1, <2>3 DEF Fetched
    <3>2. CASE b \in 1 .. n - 1
      BY <1>1, <1>2, <3>1, <3>2
    <3>3. CASE b = n
      BY <1>1, <1>2, <3>1, <3>3
    <3>4. CASE b = n + 1
      BY <1>2, <1>3, <3>4 DEF NoBlock
    <3>. QED  BY <1>1, <2>3, <3>2, <3>3, <3>4
  <2>. QED  BY <1>2, <2>1, <2>2, <2>3 DEF Fetched
<1>11. CallsEndBlocks'
  <2>1. SUFFICES ASSUME NEW b \in 1 .. n + 1, NEW i \in DOMAIN blks'[b].insns,
                        NEW j \in DOMAIN blks'[b].insns,
                        blks'[b].insns[i].kind = "call", i < j
                 PROVE  blks'[b].insns[j].kind = "retval"
    BY <1>2 DEF CallsEndBlocks
  <2>2. CASE b \in 1 .. n - 1
    <3>1. b \in DOMAIN blks /\ i \in DOMAIN blks[b].insns /\ j \in DOMAIN blks[b].insns
          /\ blks[b].insns[i].kind = "call" /\ blks'[b] = blks[b]
      BY <1>12, <2>1, <2>2
    <3>2. blks[b].insns[j].kind = "retval"
      BY <2>1, <3>1 DEF CallsEndBlocks
    <3>. QED  BY <3>1, <3>2
  <2>3. CASE b = n
    <3>1. i - Len(r) \in DOMAIN insns /\ w[i] = insns[i - Len(r)] /\ i > Len(r)
      BY <1>2, <1>4, <1>6, <2>1, <2>3
    <3>2. j - Len(r) \in DOMAIN insns /\ w[j] = insns[j - Len(r)]
      <4>1. j \in DOMAIN w /\ i \in DOMAIN w /\ i \in Nat /\ j \in Nat
        BY <1>6, <2>1, <2>3
      <4>2. ~(j \in DOMAIN r)
        <5>1. SUFFICES ASSUME j <= Len(r) PROVE FALSE
          BY <1>6
        <5>. QED  BY <1>6, <2>1, <3>1, <4>1, <5>1
      <4>. QED  BY <1>6, <4>1, <4>2
    <3>3. i - Len(r) < j - Len(r)
      <4>1. i \in Nat /\ j \in Nat
        BY <1>6, <2>1, <2>3
      <4>. QED  BY <1>6, <2>1, <4>1
    <3>4. w[i].kind = "call" /\ blks'[b].insns[j] = w[j]
      BY <1>6, <2>1, <2>3
    <3>. QED  BY <3>1, <3>2, <3>3, <3>4
  <2>4. CASE b = n + 1
    BY <1>2, <1>3, <2>1, <2>4
  <2>. QED  BY <1>1, <2>2, <2>3, <2>4
<1>. QED  BY <1>7, <1>8, <1>9, <1>10, <1>11 DEF Legal

\* what a statement may do to the list of labels, b being the block after it
Noted(b) ==
  /\ labels' \in Seq([id : Labels, b : Nat \ {0}])
  /\ \A j \in DOMAIN labels' :
       \/ j \in DOMAIN labels /\ labels'[j] = labels[j]
       \/ prog.body[k].kind = "label" /\ labels'[j].b = b
  /\ \A j \in DOMAIN labels : j \in DOMAIN labels' /\ labels'[j] = labels[j]
  /\ prog.body[k].kind = "label" =>
       \E j \in DOMAIN labels' : labels'[j].id = prog.body[k].label

(* NEW_LABEL appends to it.                                                 *)
LEMMA NotedFacts ==
  ASSUME TypeOK, Legal, k \in DOMAIN prog.body, NEW b \in Nat \ {0},
         \/ prog.body[k].kind # "label" /\ labels' = labels
         \/ /\ prog.body[k].kind = "label"
            /\ labels' = Append(labels, [id |-> prog.body[k].label, b |-> b])
  PROVE  Noted(b)
<1>1. PICK S : S = [id : Labels, b : Nat \ {0}]
  OBVIOUS
<1>2. labels \in Seq(S) /\ Len(labels) \in Nat /\ DOMAIN labels = 1 .. Len(labels)
  BY <1>1, TypeFacts DEF TypeOK
<1>3. CASE prog.body[k].kind # "label" /\ labels' = labels
  BY <1>1, <1>2, <1>3 DEF Noted
<1>4. CASE /\ prog.body[k].kind = "label"
           /\ labels' = Append(labels, [id |-> prog.body[k].label, b |-> b])
  <2>1. prog.body[k].label \in Labels
    BY <1>4, TypeFacts DEF Statement
  <2>2. PICK e \in S : e = [id |-> prog.body[k].label, b |-> b]
    BY <1>1, <2>1
  <2>3. e.id = prog.body[k].label /\ e.b = b
    BY <2>2
  <2>4. /\ labels' \in Seq(S) /\ Len(labels') = Len(labels) + 1
        /\ \A j \in 1 .. Len(labels) : labels'[j] = labels[j]
        /\ labels'[Len(labels) + 1] = e
    BY <1>2, <1>4, <2>2, AppendProperties
  <2>5. DOMAIN labels' = 1 .. Len(labels) + 1
    BY <1>2, <2>4, LenProperties
  <2>6. \A j \in DOMAIN labels : j \in DOMAIN labels' /\ labels'[j] = labels[j]
    BY <1>2, <2>4, <2>5
  <2>7. \A j \in DOMAIN labels' : j \in DOMAIN labels \/ j = Len(labels) + 1
    BY <1>2, <2>5
  <2>8. Len(labels) + 1 \in DOMAIN labels'
    BY <1>2, <2>5
  <2>. QED  BY <1>1, <1>4, <2>3, <2>4, <2>6, <2>7, <2>8 DEF Noted
<1>. QED  BY <1>3, <1>4

(* With params the first block is not empty, so no label names it.          *)
LEMMA NotedFetched ==
  ASSUME BlockInv, Noted(Len(blks) + 1), prog.params > 0
  PROVE  \A j \in DOMAIN labels' : labels'[j].b # 1
<1>1. Len(blks) \in Nat /\ Len(blks) >= 1
  BY TypeFacts DEF BlockInv
<1>. QED  BY <1>1 DEF Noted, BlockInv, Fetched

(* What do_new_block() leaves of the statements parsed so far.              *)
LEMMA BranchedNames ==
  ASSUME Inv, phase = "parse", phase' = "parse", prog' = prog, bi' = bi,
         k \in DOMAIN prog.body, k' = k + 1,
         NEW insns \in Seq(Insns), NEW btype \in {"BLT", "J", "RET"}, NEW stmt \in Nat,
         NEW label \in Labels \cup {NoLabel},
         blks' = Branched(insns, btype, stmt, label),
         Noted(Len(blks) + 1),
         prog.body[k].kind = "label" => btype = "J",
         prog.body[k].kind = "return" => btype = "RET",
         label # NoLabel => prog.body[k].kind \in {"branch", "jump"} /\ prog.body[k].label = label
  PROVE  NameInv'
<1>. PICK n : n = Len(blks)
  OBVIOUS
<1>1. TypeOK /\ Legal
  BY DEF Inv, BlockInv
<1>2. /\ n \in Nat /\ n >= 1 /\ DOMAIN blks = 1 .. n
      /\ k \in Nat /\ DOMAIN prog.body = 1 .. Len(prog.body) /\ Len(prog.body) \in Nat /\ k >= 1
  BY <1>1, TypeFacts
<1>3. IsBranched(blks', insns, btype, stmt, label)
  BY <1>1, BranchedFacts
<1>4. /\ Len(blks') = n + 1 /\ DOMAIN blks' = 1 .. n + 1
      /\ blks'[n].btype = btype /\ blks'[n].to = label
      /\ \A b \in 1 .. n - 1 : blks'[b] = blks[b]
      /\ blks'[n + 1].insns = <<>> /\ blks'[n + 1].to = NoLabel
  BY <1>3 DEF IsBranched, EmptyBlock
<1>5. \A j \in DOMAIN labels : labels[j].b \in 1 .. n
  BY DEF Inv, NameInv, Labelled
<1>6. Labelled'
  BY <1>2, <1>4, <1>5 DEF Labelled, Noted
<1>7. Parsed'
  <2>1. ASSUME NEW j \in DOMAIN labels', labels'[j].b = n + 1
        PROVE  prog.body[k].kind = "label"
    <3>1. CASE j \in DOMAIN labels /\ labels'[j] = labels[j]
      BY <1>2, <1>5, <2>1, <3>1
    <3>. QED  BY <2>1, <3>1 DEF Noted
  <2>2. ASSUME \A h \in 1 .. k : prog.body[h].kind = "label"
        PROVE  \A b \in 1 .. n : blks'[b].btype = "J"
    <3>1. prog.body[k].kind = "label" /\ \A h \in 1 .. k - 1 : prog.body[h].kind = "label"
      BY <1>2, <2>2
    <3>2. \A b \in 1 .. n - 1 : blks[b].btype = "J"
      BY <3>1 DEF Inv, NameInv, Parsed, Closed
    <3>. QED  BY <1>2, <1>4, <3>1, <3>2
  <2>3. k' - 1 = k /\ k' > 1 /\ n + 1 > 1 /\ n + 1 - 1 = n
    BY <1>2
  <2>. QED  BY <1>4, <2>1, <2>2, <2>3 DEF Parsed, Closed, Last
<1>8. Names'
  <2>1. \A h \in 1 .. k - 1 : prog.body[h].kind = "label" =>
          \E j \in DOMAIN labels' : labels'[j].id = prog.body[h].label
    BY DEF Inv, NameInv, Names, Noted
  <2>2. \A h \in 1 .. k' - 1 : h \in 1 .. k - 1 \/ h = k
    BY <1>2
  <2>3. \A h \in 1 .. k' - 1 : prog.body[h].kind = "label" =>
          \E j \in DOMAIN labels' : labels'[j].id = prog.body[h].label
    BY <2>1, <2>2 DEF Noted
  <2>4. ASSUME NEW b \in 1 .. n + 1, blks'[b].to # NoLabel
        PROVE  \E h \in DOMAIN prog.body :
                 prog.body[h].kind \in {"branch", "jump"} /\ prog.body[h].label = blks'[b].to
    <3>1. CASE b \in 1 .. n - 1
      <4>1. b \in DOMAIN blks /\ blks'[b] = blks[b]
        BY <1>2, <1>4, <3>1
      <4>. QED  BY <2>4, <4>1 DEF Inv, NameInv, Names
    <3>2. CASE b = n
      BY <1>4, <2>4, <3>2
    <3>3. CASE b = n + 1
      BY <1>4, <2>4, <3>3
    <3>. QED  BY <1>2, <3>1, <3>2, <3>3
  <2>. QED  BY <1>4, <2>3, <2>4 DEF Names
<1>. QED  BY <1>6, <1>7, <1>8 DEF NameInv, Ended, RejectsOnlyMalformed

(* The statements that end a block.                                         *)
LEMMA NewBlockStep == ASSUME Inv, Call \/ Branch \/ Jump \/ Return PROVE Inv'
<1>. USE DEF Inv
<1>1. TypeOK /\ Legal
  BY DEF BlockInv
<1>2. PICK kind \in {"call", "branch", "jump", "return"} :
        /\ At(kind)
        /\ kind = "call" => Call
        /\ kind = "branch" => Branch
        /\ kind = "jump" => Jump
        /\ kind = "return" => Return
  BY DEF Call, Branch, Jump, Return, At
<1>3. /\ phase = "parse" /\ k \in DOMAIN prog.body /\ Stmt = prog.body[k] /\ Stmt.kind = kind
      /\ Stmt \in Statement /\ k \in Nat
  BY <1>1, <1>2, TypeFacts DEF At, Stmt
<1>4. UNCHANGED <<prog, labels, bi, phase>> /\ k' = k + 1 /\ cur' = Len(blks')
  BY DEF Call, Branch, Jump, Return, NewBlock
<1>5. Len(blks) \in Nat /\ Len(blks) + 1 \in Nat \ {0}
  BY <1>1, TypeFacts
<1>6. Noted(Len(blks) + 1)
  BY <1>1, <1>3, <1>4, <1>5, NotedFacts
<1>7. labels' \in Seq([id : Labels, b : Nat \ {0}])
      /\ \A j \in DOMAIN labels' : prog.params > 0 => labels'[j].b # 1
  BY <1>6, NotedFetched DEF Noted
<1>8. \E insns \in Seq(Insns), btype \in {"BLT", "J", "RET"}, stmt \in Nat,
         label \in Labels \cup {NoLabel} :
        /\ blks' = Branched(insns, btype, stmt, label)
        /\ btype = "BLT" => label # NoLabel
        /\ btype = "RET" => label = NoLabel
        /\ kind = "return" => btype = "RET"
        /\ label # NoLabel => kind \in {"branch", "jump"} /\ Stmt.label = label
        /\ \A j \in DOMAIN insns : insns[j].kind \in {"call", "retval", "retarg"}
        /\ \A i, j \in DOMAIN insns : insns[i].kind = "call" /\ i < j => insns[j].kind = "retval"
  <2>0. <<>> \in Seq(Insns) /\ DOMAIN <<>> = {} /\ 0 \in Nat
    OBVIOUS
  <2>1. CASE kind = "call"
    <3>1. PICK u : u = Repeat("retval", Stmt.n)
      OBVIOUS
    <3>2. /\ u \in Seq(Insns) /\ \A j \in DOMAIN u : u[j].kind = "retval"
      BY <1>3, <2>1, <3>1, RepeatFacts DEF Statement
    <3>9. Insn("call", k) \in Insns /\ Insn("call", k).kind = "call"
      BY <1>3 DEF Insn, Insns
    <3>3. PICK v \in Insns : v = Insn("call", k) /\ v.kind = "call"
      BY <3>9
    <3>4. <<v>> \in Seq(Insns) /\ DOMAIN <<v>> = {1} /\ Len(<<v>>) = 1 /\ <<v>>[1] = v
      BY <3>3
    <3>5. PICK w \in Seq(Insns) : w = <<v>> \o u
      BY <3>2, <3>4, AddedFacts
    <3>6. \A j \in DOMAIN w :
            \/ j = 1 /\ w[j].kind = "call"
            \/ w[j].kind = "retval" /\ j > 1
      <4>1. PICK r \in Seq(Insns) : r = <<v>>
        BY <3>4
      <4>2. \A j \in DOMAIN w :
              \/ j \in DOMAIN r /\ w[j] = r[j]
              \/ j - Len(r) \in DOMAIN u /\ w[j] = u[j - Len(r)] /\ j > Len(r)
        <5>1. w = r \o u /\ u \in Seq(Insns)
          BY <3>2, <3>5, <4>1
        <5>2. \A j \in DOMAIN (r \o u) :
                \/ j \in DOMAIN r /\ (r \o u)[j] = r[j]
                \/ j - Len(r) \in DOMAIN u /\ (r \o u)[j] = u[j - Len(r)] /\ j > Len(r)
          BY <5>1, AddedFacts
        <5>. QED  BY <5>1, <5>2
      <4>3. DOMAIN r = {1} /\ Len(r) = 1 /\ r[1] = v
        BY <3>4, <4>1
      <4>. QED  BY <3>2, <3>3, <4>2, <4>3
    <3>7. \A i, j \in DOMAIN w : w[i].kind = "call" /\ i < j => w[j].kind = "retval"
      BY <3>6
    <3>8. blks' = Branched(w, "J", 0, NoLabel)
      BY <1>2, <2>1, <3>1, <3>3, <3>5 DEF Call, NewBlock
    <3>. QED  BY <2>0, <2>1, <3>6, <3>7, <3>8
  <2>2. CASE kind = "branch"
    <3>1. blks' = Branched(<<>>, "BLT", k, Stmt.label) /\ Stmt.label \in Labels
      BY <1>2, <1>3, <2>2 DEF Branch, NewBlock, Statement
    <3>. QED  BY <1>3, <2>0, <2>2, <3>1, LabelsAssumption
  <2>3. CASE kind = "jump"
    <3>1. blks' = Branched(<<>>, "J", k, Stmt.label) /\ Stmt.label \in Labels
      BY <1>2, <1>3, <2>3 DEF Jump, NewBlock, Statement
    <3>. QED  BY <1>3, <2>0, <2>3, <3>1, LabelsAssumption
  <2>4. CASE kind = "return"
    <3>1. PICK u : u = Repeat("retarg", Stmt.n)
      OBVIOUS
    <3>2. /\ u \in Seq(Insns) /\ \A j \in DOMAIN u : u[j].kind = "retarg"
      BY <1>3, <2>4, <3>1, RepeatFacts DEF Statement
    <3>3. blks' = Branched(u, "RET", k, NoLabel)
      BY <1>2, <2>4, <3>1 DEF Return, NewBlock
    <3>. QED  BY <1>3, <2>4, <3>2, <3>3
  <2>. QED  BY <2>1, <2>2, <2>3, <2>4
<1>9. PICK insns \in Seq(Insns), btype \in {"BLT", "J", "RET"}, stmt \in Nat,
           label \in Labels \cup {NoLabel} :
        /\ blks' = Branched(insns, btype, stmt, label)
        /\ btype = "BLT" => label # NoLabel
        /\ btype = "RET" => label = NoLabel
        /\ kind = "return" => btype = "RET"
        /\ label # NoLabel => kind \in {"branch", "jump"} /\ Stmt.label = label
        /\ \A j \in DOMAIN insns : insns[j].kind \in {"call", "retval", "retarg"}
        /\ \A i, j \in DOMAIN insns : insns[i].kind = "call" /\ i < j => insns[j].kind = "retval"
  BY <1>8
<1>10. BlockInv'
  BY <1>3, <1>4, <1>7, <1>9, BranchedInv
<1>11. NameInv'
  BY <1>3, <1>4, <1>6, <1>9, BranchedNames
<1>. QED  BY <1>10, <1>11

(* A label, which ends a block that is not empty.                           *)
LEMMA LabelStep == ASSUME Inv, Label PROVE Inv'
<1>1. TypeOK /\ Legal /\ BlockInv
  BY DEF Inv, BlockInv
<1>2. PICK n : n = Len(blks)
  OBVIOUS
<1>3. /\ phase = "parse" /\ k \in DOMAIN prog.body /\ prog.body[k].kind = "label"
      /\ UNCHANGED <<prog, bi, phase>> /\ k' = k + 1 /\ cur' = Len(blks')
      /\ labels' = Append(labels, [id |-> prog.body[k].label, b |-> cur'])
      /\ blks' = IF blks[cur].insns = <<>> THEN blks ELSE Branched(<<>>, "J", 0, NoLabel)
  BY DEF Label, At, Stmt
<1>4. /\ n \in Nat /\ n >= 1 /\ DOMAIN blks = 1 .. n /\ cur = n
      /\ k \in Nat /\ DOMAIN prog.body = 1 .. Len(prog.body) /\ Len(prog.body) \in Nat /\ k >= 1
      /\ prog.params \in Nat
  BY <1>1, <1>2, <1>3, TypeFacts DEF TypeOK
<1>5. CASE blks[n].insns # <<>>
  <2>0. <<>> \in Seq(Insns) /\ DOMAIN <<>> = {} /\ 0 \in Nat
    OBVIOUS
  <2>1. blks' = Branched(<<>>, "J", 0, NoLabel)
    BY <1>3, <1>4, <1>5
  <2>2. IsBranched(blks', <<>>, "J", 0, NoLabel)
    BY <1>1, <1>3, <2>0, <2>1, BranchedFacts
  <2>3. cur' = n + 1
    BY <1>2, <1>3, <2>2 DEF IsBranched
  <2>4. Noted(n + 1)
    BY <1>1, <1>3, <1>4, <2>3, NotedFacts
  <2>5. labels' \in Seq([id : Labels, b : Nat \ {0}])
        /\ \A j \in DOMAIN labels' : prog.params > 0 => labels'[j].b # 1
    BY <1>1, <1>2, <2>4, NotedFetched DEF Noted
  <2>6. BlockInv'
    BY <1>1, <1>3, <2>0, <2>1, <2>5, BranchedInv
  <2>7. NameInv'
    BY <1>2, <1>3, <2>0, <2>1, <2>4, BranchedNames
  <2>. QED  BY <2>6, <2>7 DEF Inv
<1>6. CASE blks[n].insns = <<>>
  <2>1. blks' = blks /\ cur' = n
    BY <1>2, <1>3, <1>4, <1>6
  <2>2. Noted(n)
    BY <1>1, <1>3, <1>4, <2>1, NotedFacts
  <2>3. k' \in 1 .. Len(prog.body) + 1 /\ k' - 1 = k
    BY <1>3, <1>4
  <2>4. TypeOK'
    <3>1. labels' \in Seq([id : Labels, b : Nat \ {0}])
      BY <2>2 DEF Noted
    <3>. QED  BY <1>1, <1>2, <1>3, <2>1, <2>3, <3>1 DEF TypeOK
  <2>5. Legal' /\ Settled' /\ Open' /\ CallsEndBlocks'
    <3>1. Closed' = Closed /\ Last' = Last
      BY <1>3, <2>1 DEF Closed, Last
    <3>2. Settled'
      BY <1>1, <1>3, <2>1, <3>1 DEF BlockInv, Settled
    <3>. QED  BY <1>1, <1>3, <2>1, <3>1, <3>2
         DEF BlockInv, Legal, Open, CallsEndBlocks
  <2>6. Fetched'
    <3>1. prog.params > 0 => n # 1
      BY <1>1, <1>6 DEF BlockInv, Fetched
    <3>2. prog.params > 0 => \A j \in DOMAIN labels' : labels'[j].b # 1
      BY <1>1, <2>2, <3>1 DEF BlockInv, Fetched, Noted
    <3>. QED  BY <1>1, <1>3, <2>1, <3>2 DEF BlockInv, Fetched
  <2>7. Labelled'
    <3>1. \A j \in DOMAIN labels' :
            (j \in DOMAIN labels /\ labels'[j] = labels[j]) \/ labels'[j].b = n
      BY <2>2 DEF Noted
    <3>2. n \in 1 .. n /\ \A j \in DOMAIN labels : labels[j].b \in 1 .. n
      BY <1>2, <1>3, <1>4 DEF Inv, NameInv, Labelled
    <3>3. \A j \in DOMAIN labels' : labels'[j].b \in 1 .. n
      BY <3>1, <3>2
    <3>. QED  BY <1>2, <2>1, <3>3 DEF Labelled
  <2>8. Parsed'
    <3>1. ASSUME \A h \in 1 .. k : prog.body[h].kind = "label"
          PROVE  \A b \in Closed : blks[b].btype = "J"
      <4>1. \A h \in 1 .. k - 1 : prog.body[h].kind = "label"
        BY <1>4, <3>1
      <4>. QED  BY <1>3, <4>1 DEF Inv, NameInv, Parsed
    <3>2. Closed' = Closed
      BY <1>3, <2>1 DEF Closed
    <3>3. k' > 1 /\ prog'.body[k' - 1].kind = "label"
      BY <1>3, <1>4, <2>3
    <3>4. (\A h \in 1 .. k' - 1 : prog'.body[h].kind = "label") =>
            \A b \in Closed' : blks'[b].btype = "J"
      BY <1>3, <2>1, <2>3, <3>1, <3>2
    <3>. QED  BY <3>3, <3>4 DEF Parsed
  <2>9. Names'
    <3>1. \A h \in 1 .. k' - 1 : h \in 1 .. k - 1 \/ h = k
      BY <1>3, <1>4
    <3>2. \A h \in 1 .. k' - 1 : prog.body[h].kind = "label" =>
            \E j \in DOMAIN labels' : labels'[j].id = prog.body[h].label
      BY <2>2, <3>1 DEF Inv, NameInv, Names, Noted
    <3>. QED  BY <1>3, <2>1, <3>2 DEF Inv, NameInv, Names
  <2>. QED  BY <1>3, <2>4, <2>5, <2>6, <2>7, <2>8, <2>9
       DEF Inv, BlockInv, NameInv, Ended, RejectsOnlyMalformed
<1>. QED  BY <1>5, <1>6

(* The other instructions.                                                  *)
LEMMA PlainStep == ASSUME Inv, Plain PROVE Inv'
<1>. PICK n : n = Len(blks)
  OBVIOUS
<1>1. TypeOK /\ Legal /\ BlockInv /\ NameInv
  BY DEF Inv, BlockInv
<1>2. /\ phase = "parse" /\ k \in DOMAIN prog.body /\ prog.body[k].kind = "op"
      /\ blks' = [blks EXCEPT ![cur].insns = Append(@, Insn("op", k))]
      /\ k' = k + 1 /\ UNCHANGED <<prog, cur, labels, bi, phase>>
  BY DEF Plain, At
<1>3. /\ n \in Nat /\ n >= 1 /\ DOMAIN blks = 1 .. n /\ cur = n /\ n \in 1 .. n
      /\ blks \in Seq(Block) /\ blks[n] \in Block
      /\ \A b \in 1 .. n : {blks[b].s1, blks[b].s2} \subseteq 0 .. n
      /\ k \in Nat /\ DOMAIN prog.body = 1 .. Len(prog.body) /\ Len(prog.body) \in Nat
      /\ prog.params \in Nat
  BY <1>1, <1>2, TypeFacts DEF TypeOK
<1>. PICK r : r = blks[n].insns
  OBVIOUS
<1>4. Insn("op", k) \in Insns /\ Insn("op", k).kind = "op"
  BY <1>3 DEF Insn, Insns
<1>5. r \in Seq(Insns) /\ DOMAIN r = 1 .. Len(r) /\ Len(r) \in Nat
  BY <1>3, LenProperties DEF Block
<1>. PICK w : w = Append(r, Insn("op", k))
  OBVIOUS
<1>6. /\ w \in Seq(Insns) /\ w # <<>> /\ DOMAIN w = 1 .. Len(r) + 1
      /\ \A j \in 1 .. Len(r) : w[j] = r[j]
      /\ w[Len(r) + 1] = Insn("op", k)
  BY <1>4, <1>5, AppendProperties, LenProperties
<1>7. \A j \in DOMAIN w : (j \in DOMAIN r /\ w[j] = r[j]) \/ w[j].kind = "op"
  BY <1>4, <1>5, <1>6
<1>. PICK d : d = [blks[n] EXCEPT !.insns = w]
  OBVIOUS
<1>8. /\ d \in Block /\ d.insns = w /\ d.btype = blks[n].btype /\ d.to = blks[n].to
      /\ d.s1 = blks[n].s1 /\ d.s2 = blks[n].s2
  BY <1>3, <1>6 DEF Block
<1>9. blks' = [blks EXCEPT ![n] = d]
  BY <1>2, <1>3
<1>10. /\ blks' \in Seq(Block) /\ Len(blks') = n /\ DOMAIN blks' = 1 .. n
       /\ blks'[n] = d /\ blks' # <<>>
       /\ \A b \in 1 .. n - 1 : b \in 1 .. n /\ blks'[b] = blks[b]
  <2>1. /\ blks' \in Seq(Block) /\ Len(blks') = n /\ blks'[n] = d
        /\ \A b \in 1 .. n - 1 : blks'[b] = blks[b]
    <3>1. n \in 1 .. Len(blks) /\ d \in Block /\ blks \in Seq(Block)
      BY <1>3, <1>8
    <3>2. PICK q : q = [blks EXCEPT ![n] = d]
      OBVIOUS
    <3>3. /\ q \in Seq(Block) /\ Len(q) = Len(blks)
          /\ \A j \in 1 .. Len(blks) : q[j] = IF j = n THEN d ELSE blks[j]
      BY <3>1, <3>2, ExceptSeq
    <3>4. \A b \in 1 .. n - 1 : b \in 1 .. n /\ b # n
      BY <1>3
    <3>5. blks' = q
      BY <1>9, <3>2
    <3>. QED  BY <3>1, <3>3, <3>4, <3>5
  <2>2. DOMAIN blks' = 1 .. n /\ blks' # <<>>
    BY <1>3, <2>1, LenProperties, EmptySeq
  <2>3. \A b \in 1 .. n - 1 : b \in 1 .. n
    BY <1>3
  <2>. QED  BY <2>1, <2>2, <2>3
<1>11. \A b \in 1 .. n : /\ blks'[b].btype = blks[b].btype /\ blks'[b].to = blks[b].to
                         /\ blks'[b].s1 = blks[b].s1 /\ blks'[b].s2 = blks[b].s2
                         /\ b = n \/ (b \in 1 .. n - 1 /\ blks'[b] = blks[b])
  <2>1. \A b \in 1 .. n : b = n \/ b \in 1 .. n - 1
    BY <1>3
  <2>. QED  BY <1>8, <1>10, <2>1
<1>12. \A j \in DOMAIN r : r[j].kind \in {"param", "op"}
  BY <1>1, <1>2 DEF BlockInv, Open, Last
<1>13. TypeOK'
  <2>1. k' \in 1 .. Len(prog.body) + 1
    BY <1>2, <1>3
  <2>2. \A b \in DOMAIN blks' : {blks'[b].s1, blks'[b].s2} \subseteq 0 .. Len(blks')
    BY <1>3, <1>10, <1>11
  <2>3. cur' = Len(blks') /\ bi' \in 1 .. Len(blks') + 1
    BY <1>1, <1>2, <1>3, <1>10 DEF TypeOK
  <2>. QED  BY <1>1, <1>2, <1>10, <2>1, <2>2, <2>3 DEF TypeOK
<1>14. Closed' = Closed /\ Closed = 1 .. n - 1
  BY <1>2, <1>10 DEF Closed
<1>15. Settled' /\ Legal'
  <2>1. Settled /\ \A b \in 1 .. n - 1 : blks'[b] = blks[b]
    BY <1>1, <1>10 DEF BlockInv
  <2>. QED  BY <1>1, <1>2, <1>10, <1>14, <2>1 DEF Settled, Legal
<1>16. Open'
  <2>1. Last' = d /\ Last = blks[n]
    BY <1>10 DEF Last
  <2>2. \A j \in DOMAIN d.insns : d.insns[j].kind \in {"param", "op"}
    BY <1>7, <1>8, <1>12
  <2>3. /\ bi = 1 /\ Last.btype = "ADD" /\ Last.to = NoLabel
        /\ Last.s1 = NoBlock /\ Last.s2 = NoBlock
    BY <1>1, <1>2 DEF BlockInv, Open
  <2>. QED  BY <1>2, <1>8, <2>1, <2>2, <2>3 DEF Open
<1>17. Fetched'
  <2>1. ASSUME NEW b \in 1 .. n, NEW j \in DOMAIN blks'[b].insns,
               blks'[b].insns[j].kind = "param"
        PROVE  b = 1 /\ prog.params > 0
    <3>1. CASE b = n
      <4>1. j \in DOMAIN r /\ r[j].kind = "param" /\ n \in DOMAIN blks
        <5>1. j \in DOMAIN w /\ w[j].kind = "param"
          BY <1>8, <1>10, <2>1, <3>1
        <5>. QED  BY <1>3, <1>7, <5>1
      <4>. QED  BY <1>1, <3>1, <4>1 DEF BlockInv, Fetched
    <3>2. CASE blks'[b] = blks[b]
      BY <1>1, <1>3, <2>1, <3>2 DEF BlockInv, Fetched
    <3>. QED  BY <1>11, <3>1, <3>2
  <2>2. ASSUME prog.params > 0
        PROVE  /\ blks'[1].insns # <<>>
               /\ \A j \in DOMAIN labels : labels[j].b # 1
               /\ \A b \in 1 .. n : blks'[b].s2 # 1
    <3>1. 1 \in 1 .. n /\ blks[1].insns # <<>>
      BY <1>1, <1>3, <2>2 DEF BlockInv, Fetched
    <3>2. blks'[1].insns # <<>>
      <4>1. CASE n = 1
        BY <1>6, <1>8, <1>10, <4>1
      <4>2. CASE blks'[1] = blks[1]
        BY <3>1, <4>2
      <4>. QED  BY <1>11, <3>1, <4>1, <4>2
    <3>. QED  BY <1>1, <1>3, <1>11, <2>2, <3>2 DEF BlockInv, Fetched
  <2>. QED  BY <1>2, <1>10, <2>1, <2>2 DEF Fetched
<1>18. CallsEndBlocks'
  <2>1. SUFFICES ASSUME NEW b \in 1 .. n, NEW i \in DOMAIN blks'[b].insns,
                        NEW j \in DOMAIN blks'[b].insns,
                        blks'[b].insns[i].kind = "call", i < j
                 PROVE  blks'[b].insns[j].kind = "retval"
    BY <1>10 DEF CallsEndBlocks
  <2>2. CASE b = n
    <3>1. i \in DOMAIN w /\ w[i].kind = "call"
      BY <1>8, <1>10, <2>1, <2>2
    <3>. QED  BY <1>7, <1>12, <3>1
  <2>3. CASE blks'[b] = blks[b]
    BY <1>1, <1>3, <2>1, <2>3 DEF BlockInv, CallsEndBlocks
  <2>. QED  BY <1>11, <2>2, <2>3
<1>19. Labelled'
  BY <1>1, <1>2, <1>10 DEF NameInv, Labelled
<1>20. k' - 1 = k /\ k >= 1 /\ k \in 1 .. k
  BY <1>1, <1>2, <1>3 DEF TypeOK
<1>21. Parsed'
  <2>1. Last'.insns # <<>>
    BY <1>6, <1>8, <1>10 DEF Last
  <2>2. ~(\A h \in 1 .. k' - 1 : prog'.body[h].kind = "label")
    BY <1>2, <1>20
  <2>3. prog'.body[k' - 1].kind = "op"
    BY <1>2, <1>20
  <2>. QED  BY <2>1, <2>2, <2>3 DEF Parsed
<1>22. Names'
  <2>1. \A h \in 1 .. k' - 1 : h \in 1 .. k - 1 \/ h = k
    BY <1>2, <1>3
  <2>2. \A h \in 1 .. k' - 1 : prog.body[h].kind = "label" =>
          \E j \in DOMAIN labels : labels[j].id = prog.body[h].label
    BY <1>1, <1>2, <2>1 DEF NameInv, Names
  <2>. QED  BY <1>1, <1>2, <1>3, <1>10, <1>11, <2>2 DEF NameInv, Names
<1>. QED  BY <1>2, <1>13, <1>15, <1>16, <1>17, <1>18, <1>19, <1>21, <1>22
     DEF Inv, BlockInv, NameInv, Ended, RejectsOnlyMalformed

-----------------------------------------------------------------------------
(* The steps of finish_function().                                          *)

(* The block before the one destroyed returns already, so only the length   *)
(* changes.                                                                 *)
LEMMA CloseFacts ==
  ASSUME BlockInv, Close
  PROVE  /\ Len(blks) > 1 /\ blks' \in Seq(Block) /\ blks' # <<>>
         /\ Len(blks') = Len(blks) - 1 /\ DOMAIN blks' = 1 .. Len(blks) - 1
         /\ \A b \in 1 .. Len(blks) - 1 : b \in 1 .. Len(blks) /\ blks'[b] = blks[b]
<1>. PICK n : n = Len(blks)
  OBVIOUS
<1>. PICK m : m = n - 1
  OBVIOUS
<1>1. TypeOK /\ Legal
  BY DEF BlockInv
<1>2. /\ n \in Nat /\ n >= 1 /\ DOMAIN blks = 1 .. n /\ \A b \in 1 .. n : blks[b] \in Block
  BY <1>1, TypeFacts
<1>3. /\ phase = "parse" /\ n > 1 /\ m \in 1 .. n - 1 /\ m \in Nat /\ m >= 1
      /\ blks[m].btype = "RET"
      /\ blks' = [AllBut1 EXCEPT ![m].s1 = NoBlock, ![m].s2 = NoBlock]
  BY <1>2 DEF Close, EndOfBody, Rejected
<1>. PICK q : q = AllBut1
  OBVIOUS
<1>4. \A b \in 1 .. m : b \in 1 .. n /\ 1 + b - 1 = b
  BY <1>2, <1>3
<1>5. /\ q \in Seq(Block) /\ Len(q) = m
      /\ \A b \in 1 .. m : q[b] = blks[b]
  <2>1. q = SubSeq(blks, 1, m)
    BY DEF AllBut1
  <2>2. \A b \in 1 .. m : blks[b] \in Block
    BY <1>2, <1>4
  <2>3. 1 \in Int /\ m \in Int /\ 1 <= m /\ m - 1 + 1 = m
    BY <1>3
  <2>4. /\ q \in Seq(Block) /\ Len(q) = m
        /\ \A b \in 1 .. m : q[b] = blks[1 + b - 1]
    BY <2>1, <2>2, <2>3, SubSeqProperties
  <2>. QED  BY <1>4, <2>4
<1>6. blks[m].s1 = NoBlock /\ blks[m].s2 = NoBlock /\ blks[m] \in Block /\ m \in 1 .. m
  BY <1>2, <1>3, <1>4 DEF BlockInv, Settled, Closed
<1>7. [blks[m] EXCEPT !.s1 = NoBlock, !.s2 = NoBlock] = blks[m]
  BY <1>6 DEF Block
<1>8. blks' = [q EXCEPT ![m] = blks[m]]
  <2>1. DOMAIN q = 1 .. m
    BY <1>5, LenProperties
  <2>2. q[m] = blks[m]
    BY <1>5, <1>6
  <2>3. blks' = [q EXCEPT ![m] = [q[m] EXCEPT !.s1 = NoBlock, !.s2 = NoBlock]]
    BY <1>3, <1>6, <2>1
  <2>. QED  BY <1>7, <2>2, <2>3
<1>9. /\ blks' \in Seq(Block) /\ Len(blks') = m
      /\ \A b \in 1 .. m : blks'[b] = blks[b]
  <2>1. PICK p : p = [q EXCEPT ![m] = blks[m]]
    OBVIOUS
  <2>2. /\ p \in Seq(Block) /\ Len(p) = m
        /\ \A b \in 1 .. m : p[b] = IF b = m THEN blks[m] ELSE q[b]
    BY <1>5, <1>6, <2>1, ExceptSeq
  <2>3. blks' = p
    BY <1>8, <2>1
  <2>. QED  BY <1>5, <2>2, <2>3
<1>10. DOMAIN blks' = 1 .. m /\ blks' # <<>>
  BY <1>3, <1>9, LenProperties, EmptySeq
<1>. QED  BY <1>3, <1>4, <1>9, <1>10

(* The last block can go because nothing leads to it.                       *)
LEMMA CloseStep == ASSUME Inv, Close PROVE Inv'
<1>. PICK n : n = Len(blks)
  OBVIOUS
<1>. PICK m : m = n - 1
  OBVIOUS
<1>1. BlockInv /\ NameInv /\ TypeOK /\ Legal
  BY DEF Inv, BlockInv
<1>2. /\ n \in Nat /\ n > 1 /\ m \in Nat /\ m >= 1 /\ m \in 1 .. m
      /\ blks' \in Seq(Block) /\ blks' # <<>> /\ Len(blks') = m /\ DOMAIN blks' = 1 .. m
      /\ \A b \in 1 .. m : b \in 1 .. n /\ blks'[b] = blks[b]
      /\ DOMAIN blks = 1 .. n
  BY <1>1, CloseFacts, TypeFacts
<1>3. /\ phase = "parse" /\ phase' = "resolve" /\ k \notin DOMAIN prog.body
      /\ UNCHANGED <<prog, k, cur, labels, bi>>
      /\ Last.insns = <<>> /\ blks[m].btype = "RET"
  BY <1>2 DEF Close, EndOfBody, Rejected
<1>4. bi = 1 /\ Closed = 1 .. m /\ Closed' = 1 .. m
  BY <1>1, <1>2, <1>3 DEF BlockInv, Open, Closed
<1>5. /\ k \in Nat /\ Len(prog.body) \in Nat /\ Len(prog.body) >= 1
      /\ DOMAIN prog.body = 1 .. Len(prog.body) /\ k - 1 = Len(prog.body)
      /\ \A j \in DOMAIN labels : labels[j].b \in 1 .. n
  BY <1>1, <1>3, TypeFacts DEF TypeOK, NameInv, Labelled
<1>6. \A b \in 1 .. m :
        /\ blks[b].btype # "ADD"
        /\ blks[b].btype = "RET" =>
             blks[b].s1 = NoBlock /\ blks[b].s2 = NoBlock /\ blks[b].to = NoLabel
        /\ blks[b].btype # "RET" => b < m /\ blks[b].s1 = b + 1
        /\ blks[b].btype # "RET" /\ blks[b].to = NoLabel => blks[b].s2 = b + 1
        /\ blks[b].to # NoLabel => IF b < bi THEN blks[b].s2 # NoBlock ELSE blks[b].s2 = NoBlock
  <2>1. \A b \in 1 .. m : blks[b].btype # "RET" => b < m
    BY <1>2, <1>3
  <2>. QED  BY <1>1, <1>3, <1>4, <2>1 DEF BlockInv, Settled
<1>7. TypeOK'
  <2>1. ASSUME NEW b \in 1 .. m PROVE blks'[b].s1 \in 0 .. m /\ blks'[b].s2 \in 0 .. m
    <3>1. blks'[b] = blks[b] /\ ~(b < bi) /\ b \in Nat
      BY <1>2, <1>4
    <3>2. CASE blks[b].btype = "RET"
      <4>1. blks[b].s1 = 0 /\ blks[b].s2 = 0
        BY <1>6, <3>2 DEF NoBlock
      <4>. QED  BY <1>2, <3>1, <4>1
    <3>3. CASE blks[b].btype # "RET"
      <4>1. b < m /\ blks[b].s1 = b + 1
        BY <1>6, <3>3
      <4>2. blks[b].s2 = b + 1 \/ blks[b].s2 = 0
        BY <1>6, <3>1, <3>3 DEF NoBlock
      <4>. QED  BY <1>2, <3>1, <4>1, <4>2
    <3>. QED  BY <3>2, <3>3
  <2>2. bi \in 1 .. m + 1
    BY <1>2, <1>4
  <2>3. \A b \in DOMAIN blks' : {blks'[b].s1, blks'[b].s2} \subseteq 0 .. Len(blks')
    BY <1>2, <2>1
  <2>. QED  BY <1>1, <1>2, <1>3, <2>2, <2>3 DEF TypeOK
<1>8. Settled' /\ Open' /\ Legal'
  BY <1>1, <1>2, <1>3, <1>4, <1>6 DEF Settled, Open, Legal
<1>9. Fetched'
  BY <1>1, <1>2, <1>3 DEF BlockInv, Fetched
<1>10. CallsEndBlocks'
  BY <1>1, <1>2 DEF BlockInv, CallsEndBlocks
<1>11. Labelled'
  <2>1. SUFFICES ASSUME NEW j \in DOMAIN labels, labels[j].b = n PROVE FALSE
    BY <1>2, <1>3, <1>5 DEF Labelled
  <2>2. prog.body[Len(prog.body)].kind = "label"
    BY <1>1, <1>3, <1>5, <2>1 DEF NameInv, Parsed
  <2>3. \A h \in 1 .. k - 1 : prog.body[h].kind = "label"
    BY <1>1, <1>5, <2>2, GrammarAssumption DEF Legal
  <2>4. blks[m].btype = "J"
    BY <1>1, <1>2, <1>3, <1>4, <2>3 DEF NameInv, Parsed
  <2>. QED  BY <1>3, <2>4
<1>12. Names'
  BY <1>1, <1>2, <1>3 DEF NameInv, Names
<1>13. Ended' /\ Parsed' /\ RejectsOnlyMalformed'
  BY <1>2, <1>3 DEF Ended, Last, Parsed, RejectsOnlyMalformed
<1>. QED  BY <1>7, <1>8, <1>9, <1>10, <1>11, <1>12, <1>13 DEF Inv, BlockInv, NameInv

(* A body whose last statement returns is not rejected.                     *)
LEMMA RejectStep == ASSUME Inv, Reject PROVE Inv'
<1>1. BlockInv /\ NameInv /\ TypeOK /\ Legal
  BY DEF Inv, BlockInv
<1>2. /\ phase = "parse" /\ phase' = "aborted" /\ k \notin DOMAIN prog.body /\ Rejected
      /\ UNCHANGED <<prog, k, blks, cur, labels, bi>>
  BY DEF Reject, EndOfBody
<1>3. k - 1 = Len(prog.body) /\ k > 1
  BY <1>1, <1>2, TypeFacts DEF TypeOK
<1>4. prog.body[k - 1].kind # "return"
  <2>1. SUFFICES ASSUME prog.body[k - 1].kind = "return" PROVE FALSE
    OBVIOUS
  <2>2. Last.insns = <<>> /\ Len(blks) > 1 /\ blks[Len(blks) - 1].btype = "RET"
    BY <1>1, <1>2, <1>3, <2>1 DEF NameInv, Parsed
  <2>3. Len(blks) # 1
    BY <1>1, <2>2, TypeFacts
  <2>. QED  BY <1>2, <2>2, <2>3 DEF Rejected
<1>5. RejectsOnlyMalformed'
  BY <1>2, <1>3, <1>4 DEF RejectsOnlyMalformed
<1>6. BlockInv'
  BY <1>1, <1>2 DEF BlockInv, TypeOK, Legal, Settled, Open, Fetched, CallsEndBlocks
<1>7. Labelled' /\ Parsed' /\ Names' /\ Ended'
  BY <1>1, <1>2 DEF NameInv, Labelled, Parsed, Names, Ended
<1>. QED  BY <1>5, <1>6, <1>7 DEF Inv, NameInv

LEMMA SkipStep == ASSUME Inv, SkipBlock PROVE Inv'
<1>1. BlockInv /\ NameInv /\ TypeOK /\ Legal
  BY DEF Inv, BlockInv
<1>2. /\ phase = "resolve" /\ bi \in DOMAIN blks /\ blks[bi].to = NoLabel /\ bi' = bi + 1
      /\ UNCHANGED <<prog, k, blks, cur, labels, phase>>
  BY DEF SkipBlock, Resolving
<1>3. DOMAIN blks = 1 .. Len(blks) /\ Len(blks) \in Nat
  BY <1>1, TypeFacts
<1>4. TypeOK'
  BY <1>1, <1>2, <1>3 DEF TypeOK
<1>5. Settled'
  <2>1. Closed' = Closed /\ Closed = 1 .. Len(blks)
    BY <1>2 DEF Closed
  <2>2. \A b \in 1 .. Len(blks) : blks[b].to # NoLabel => (b < bi' <=> b < bi)
    BY <1>2, <1>3
  <2>. QED  BY <1>1, <1>2, <2>1, <2>2 DEF BlockInv, Settled
<1>. QED  BY <1>1, <1>2, <1>4, <1>5
     DEF Inv, BlockInv, NameInv, Legal, Open, Fetched, CallsEndBlocks, Labelled, Parsed, Names,
         Last, Ended, RejectsOnlyMalformed

(* A branch gets its block.                                                 *)
LEMMA ResolveStep == ASSUME Inv, Resolve PROVE Inv'
<1>. PICK n : n = Len(blks)
  OBVIOUS
<1>1. BlockInv /\ NameInv /\ TypeOK /\ Legal
  BY DEF Inv, BlockInv
<1>2. PICK j \in DOMAIN labels :
        /\ phase = "resolve" /\ bi \in DOMAIN blks /\ blks[bi].to # NoLabel /\ bi' = bi + 1
        /\ UNCHANGED <<prog, k, cur, labels, phase>>
        /\ blks' = [blks EXCEPT ![bi].s2 = labels[j].b]
  BY DEF Resolve, Resolving
<1>3. /\ n \in Nat /\ n >= 1 /\ DOMAIN blks = 1 .. n /\ blks \in Seq(Block)
      /\ \A b \in 1 .. n : blks[b] \in Block
  BY <1>1, TypeFacts DEF TypeOK
<1>4. PICK t \in 1 .. n : t = labels[j].b
  BY <1>1, <1>2 DEF NameInv, Labelled
<1>5. prog.params > 0 => t # 1
  BY <1>1, <1>2, <1>4 DEF BlockInv, Fetched
<1>6. PICK d : d = [blks[bi] EXCEPT !.s2 = t]
  OBVIOUS
<1>7. /\ d \in Block /\ d.s2 = t /\ d.insns = blks[bi].insns /\ d.btype = blks[bi].btype
      /\ d.to = blks[bi].to /\ d.s1 = blks[bi].s1
  <2>1. blks[bi] \in Block /\ t \in Nat
    BY <1>2, <1>3, <1>4
  <2>. QED  BY <1>6, <2>1 DEF Block
<1>8. PICK q : q = [blks EXCEPT ![bi] = d]
  OBVIOUS
<1>9. /\ q \in Seq(Block) /\ Len(q) = n
      /\ \A b \in 1 .. n : q[b] = IF b = bi THEN d ELSE blks[b]
  BY <1>2, <1>3, <1>7, <1>8, ExceptSeq
<1>10. blks' = q
  BY <1>2, <1>3, <1>4, <1>6, <1>8
<1>11. DOMAIN q = 1 .. n /\ q # <<>>
  BY <1>3, <1>9, LenProperties, EmptySeq
<1>12. \A b \in 1 .. n :
         /\ q[b].insns = blks[b].insns /\ q[b].btype = blks[b].btype /\ q[b].to = blks[b].to
         /\ q[b].s1 = blks[b].s1 /\ q[b].s2 = IF b = bi THEN t ELSE blks[b].s2
  BY <1>7, <1>9
<1>13. TypeOK'
  <2>1. \A b \in 1 .. n : q[b].s1 \in 0 .. n /\ q[b].s2 \in 0 .. n
    <3>1. \A b \in 1 .. n : blks[b].s1 \in 0 .. n /\ blks[b].s2 \in 0 .. n
      BY <1>1, <1>3 DEF TypeOK
    <3>. QED  BY <1>3, <1>4, <1>12, <3>1
  <2>2. bi' \in 1 .. n + 1
    BY <1>2, <1>3
  <2>3. \A b \in DOMAIN blks' : {blks'[b].s1, blks'[b].s2} \subseteq 0 .. Len(blks')
    BY <1>9, <1>10, <1>11, <2>1
  <2>. QED  BY <1>1, <1>2, <1>9, <1>10, <1>11, <2>2, <2>3 DEF TypeOK
<1>14. Settled'
  <2>1. Closed' = 1 .. n /\ Closed = 1 .. n
    BY <1>2, <1>9, <1>10 DEF Closed
  <2>2. \A b \in 1 .. n : b < bi' <=> b < bi \/ b = bi
    BY <1>2, <1>3
  <2>3. t # NoBlock
    BY <1>4 DEF NoBlock
  <2>4. \A b \in 1 .. n :
          /\ blks[b].btype # "ADD"
          /\ blks[b].btype = "RET" =>
               blks[b].s1 = NoBlock /\ blks[b].s2 = NoBlock /\ blks[b].to = NoLabel
          /\ blks[b].btype # "RET" => b < n /\ blks[b].s1 = b + 1
          /\ blks[b].btype # "RET" /\ blks[b].to = NoLabel => blks[b].s2 = b + 1
          /\ blks[b].to # NoLabel =>
               IF b < bi THEN blks[b].s2 # NoBlock ELSE blks[b].s2 = NoBlock
    BY <1>1, <1>2, <2>1 DEF BlockInv, Settled
  <2>5. SUFFICES ASSUME NEW b \in 1 .. n
                 PROVE  /\ q[b].btype # "ADD"
                        /\ q[b].btype = "RET" =>
                             q[b].s1 = NoBlock /\ q[b].s2 = NoBlock /\ q[b].to = NoLabel
                        /\ q[b].btype # "RET" => b < n /\ q[b].s1 = b + 1
                        /\ q[b].btype # "RET" /\ q[b].to = NoLabel => q[b].s2 = b + 1
                        /\ q[b].to # NoLabel =>
                             IF b < bi' THEN q[b].s2 # NoBlock ELSE q[b].s2 = NoBlock
    BY <1>9, <1>10, <2>1 DEF Settled
  <2>. QED  BY <1>2, <1>12, <2>2, <2>3, <2>4
<1>15. Fetched'
  <2>1. \A b \in 1 .. n : prog.params > 0 => q[b].s2 # 1
    BY <1>1, <1>3, <1>5, <1>12 DEF BlockInv, Fetched
  <2>2. 1 \in 1 .. n
    BY <1>3
  <2>. QED  BY <1>1, <1>2, <1>3, <1>10, <1>11, <1>12, <2>1, <2>2 DEF BlockInv, Fetched
<1>16. CallsEndBlocks'
  BY <1>1, <1>3, <1>10, <1>11, <1>12 DEF BlockInv, CallsEndBlocks
<1>17. Names'
  BY <1>1, <1>2, <1>3, <1>10, <1>11, <1>12 DEF NameInv, Names
<1>18. Ended'
  <2>1. n \in 1 .. n
    BY <1>3
  <2>. QED  BY <1>1, <1>2, <1>9, <1>10, <1>12, <2>1 DEF NameInv, Ended, Last
<1>. QED  BY <1>1, <1>2, <1>9, <1>10, <1>13, <1>14, <1>15, <1>16, <1>17, <1>18
     DEF Inv, BlockInv, NameInv, Legal, Open, Labelled, Parsed, RejectsOnlyMalformed

(* A branch whose label is not there.                                       *)
LEMMA NoSuchLabelStep == ASSUME Inv, NoSuchLabel PROVE Inv'
<1>1. BlockInv /\ NameInv /\ TypeOK /\ Legal
  BY DEF Inv, BlockInv
<1>2. /\ phase = "resolve" /\ bi \in DOMAIN blks /\ blks[bi].to # NoLabel /\ phase' = "aborted"
      /\ \A j \in DOMAIN labels : labels[j].id # blks[bi].to
      /\ UNCHANGED <<prog, k, blks, cur, labels, bi>>
  BY DEF NoSuchLabel, Resolving
<1>3. PICK h \in DOMAIN prog.body :
        prog.body[h].kind \in {"branch", "jump"} /\ prog.body[h].label = blks[bi].to
  BY <1>1, <1>2 DEF NameInv, Names
<1>4. DOMAIN prog.body \subseteq 1 .. k - 1
  BY <1>1, <1>2, TypeFacts DEF TypeOK, NameInv, Names
<1>5. \A g \in DOMAIN prog.body :
        prog.body[g].kind = "label" => prog.body[g].label # prog.body[h].label
  BY <1>1, <1>2, <1>3, <1>4 DEF NameInv, Names
<1>6. RejectsOnlyMalformed'
  BY <1>2, <1>3, <1>5 DEF RejectsOnlyMalformed
<1>. QED  BY <1>1, <1>2, <1>6
     DEF Inv, BlockInv, NameInv, TypeOK, Legal, Settled, Open, Fetched, CallsEndBlocks, Labelled,
         Parsed, Names, Ended

LEMMA FinishStep == ASSUME Inv, Finish PROVE Inv'
<1>1. /\ phase = "resolve" /\ bi \notin DOMAIN blks /\ phase' = "done"
      /\ UNCHANGED <<prog, k, blks, cur, labels, bi>>
  BY DEF Finish
<1>2. Closed' = Closed
  BY <1>1 DEF Closed
<1>. QED  BY <1>1, <1>2
     DEF Inv, BlockInv, NameInv, TypeOK, Legal, Settled, Open, Fetched, CallsEndBlocks, Labelled,
         Parsed, Names, Last, Ended, RejectsOnlyMalformed

-----------------------------------------------------------------------------
(* The invariant holds throughout.                                          *)

LEMMA InvInit == Init => Inv
<1>. SUFFICES ASSUME Init PROVE Inv
  OBVIOUS
<1>1. PICK n \in Nat : n = prog.params
  BY ProgramsAssumption DEF Init
<1>2. PICK i : i = [j \in 1 .. n |-> Insn("param", 0)]
  OBVIOUS
<1>3. /\ i \in Seq(Insns) /\ DOMAIN i = 1 .. n
      /\ n > 0 => i # <<>>
      /\ \A j \in DOMAIN i : i[j].kind = "param"
  <2>1. Insn("param", 0) \in Insns /\ Insn("param", 0).kind = "param"
    BY DEF Insn, Insns
  <2>2. i \in [1 .. n -> Insns]
    BY <1>2, <2>1
  <2>3. i \in Seq(Insns)
    BY <2>2, IsASeq
  <2>4. DOMAIN i = 1 .. n
    BY <1>2
  <2>. QED  BY <1>2, <2>1, <2>3, <2>4
<1>4. PICK e : e = [EmptyBlock EXCEPT !.insns = i]
  OBVIOUS
<1>5. /\ e \in Block /\ e.insns = i /\ e.btype = "ADD" /\ e.to = NoLabel
      /\ e.s1 = NoBlock /\ e.s2 = NoBlock
  BY <1>3, <1>4 DEF EmptyBlock, Block, NoBlock
<1>6. blks = <<e>>
  BY <1>1, <1>2, <1>4 DEF Init
<1>7. blks \in Seq(Block) /\ blks # <<>> /\ Len(blks) = 1 /\ DOMAIN blks = {1} /\ blks[1] = e
  BY <1>5, <1>6
<1>8. /\ prog \in Programs /\ prog \in [params : Nat, body : Seq(Statement) \ {<<>>}]
      /\ k = 1 /\ cur = 1 /\ labels = <<>> /\ bi = 1 /\ phase = "parse"
  BY ProgramsAssumption DEF Init
<1>9. TypeOK
  <2>1. k \in 1 .. Len(prog.body) + 1
    <3>1. prog.body \in Seq(Statement)
      BY <1>8
    <3>2. Len(prog.body) \in Nat
      BY <3>1, LenProperties
    <3>. QED  BY <1>8, <3>2
  <2>2. labels \in Seq([id : Labels, b : Nat \ {0}])
    BY <1>8
  <2>. QED  BY <1>5, <1>7, <1>8, <2>1, <2>2 DEF TypeOK, NoBlock
<1>10. Closed = {} /\ DOMAIN labels = {} /\ 1 .. k - 1 = {}
  BY <1>7, <1>8 DEF Closed
<1>11. Legal /\ Settled /\ Open /\ CallsEndBlocks
  BY <1>3, <1>5, <1>7, <1>8, <1>10 DEF Legal, Settled, Open, Last, CallsEndBlocks
<1>12. Fetched
  <2>1. n > 0 => i # <<>>
    BY <1>3
  <2>2. \A j \in DOMAIN i : n > 0
    BY <1>3
  <2>. QED  BY <1>1, <1>5, <1>7, <1>10, <2>1, <2>2 DEF Fetched, NoBlock
<1>13. NameInv
  BY <1>5, <1>7, <1>8, <1>10
     DEF NameInv, Labelled, Parsed, Names, Ended, RejectsOnlyMalformed
<1>. QED  BY <1>9, <1>11, <1>12, <1>13 DEF Inv, BlockInv

LEMMA InvStep == Inv /\ [Next]_vars => Inv'
<1>. SUFFICES ASSUME Inv, [Next]_vars PROVE Inv'
  OBVIOUS
<1>1. CASE Call \/ Branch \/ Jump \/ Return
  BY <1>1, NewBlockStep
<1>2. CASE Plain
  BY <1>2, PlainStep
<1>3. CASE Label
  BY <1>3, LabelStep
<1>4. CASE Close
  BY <1>4, CloseStep
<1>5. CASE Reject
  BY <1>5, RejectStep
<1>6. CASE SkipBlock
  BY <1>6, SkipStep
<1>7. CASE Resolve
  BY <1>7, ResolveStep
<1>8. CASE NoSuchLabel
  BY <1>8, NoSuchLabelStep
<1>9. CASE Finish
  BY <1>9, FinishStep
<1>10. CASE UNCHANGED vars
  <2>1. Closed' = Closed /\ Last' = Last
    BY <1>10 DEF vars, Closed, Last
  <2>. QED  BY <1>10, <2>1
       DEF vars, Inv, BlockInv, NameInv, TypeOK, Legal, Settled, Open, Fetched, CallsEndBlocks,
           Labelled, Parsed, Names, Ended, RejectsOnlyMalformed
<1>. QED  BY <1>1, <1>2, <1>3, <1>4, <1>5, <1>6, <1>7, <1>8, <1>9, <1>10 DEF Next

LEMMA Invariance == Spec => []Inv
BY InvInit, InvStep, PTL DEF Spec

-----------------------------------------------------------------------------
(* For a function of any length every variable keeps its type: no branch    *)
(* leads out of the function, and the current block is the last one.        *)
THEOREM TypeCorrect == Spec => []TypeOK
<1>1. Inv => TypeOK
  BY DEF Inv, BlockInv
<1>. QED  BY <1>1, Invariance, PTL

(* A block makes at most one call, with only the call's results after it,   *)
(* what the comment at parser.y:520 is for.                                 *)
THEOREM CallsAreLast == Spec => []CallsEndBlocks
<1>1. Inv => CallsEndBlocks
  BY DEF Inv, BlockInv
<1>. QED  BY <1>1, Invariance, PTL

(* The graph finish_function() leaves has the shape the passes expect,      *)
(* though it destroys the last block and branches may name any label.       *)
THEOREM GraphsAreShaped == Spec => []GraphIsShaped
<1>1. Inv => GraphIsShaped
  <2>. SUFFICES ASSUME Inv, phase = "done", NEW b \in DOMAIN blks
                PROVE  IF blks[b].btype = "RET" THEN blks[b].s1 = NoBlock /\ blks[b].s2 = NoBlock
                       ELSE /\ b < Len(blks) /\ blks[b].s1 = b + 1
                            /\ blks[b].s2 \in DOMAIN blks
    BY DEF GraphIsShaped
  <2>1. TypeOK /\ Legal /\ BlockInv /\ NameInv
    BY DEF Inv, BlockInv
  <2>2. Len(blks) \in Nat /\ DOMAIN blks = 1 .. Len(blks)
    BY <2>1, TypeFacts
  <2>3. b < bi /\ b \in Closed /\ blks[b].s2 \in 0 .. Len(blks)
    BY <2>1, <2>2 DEF NameInv, Ended, TypeOK, Closed
  <2>4. /\ blks[b].btype = "RET" => blks[b].s1 = NoBlock /\ blks[b].s2 = NoBlock
        /\ blks[b].btype # "RET" => b < Len(blks) /\ blks[b].s1 = b + 1
        /\ blks[b].btype # "RET" /\ blks[b].to = NoLabel => blks[b].s2 = b + 1
        /\ blks[b].to # NoLabel => blks[b].s2 # NoBlock
    BY <2>1, <2>3 DEF BlockInv, Settled
  <2>. QED  BY <2>2, <2>3, <2>4 DEF NoBlock
<1>. QED  BY <1>1, Invariance, PTL

(* No branch or fall through leads back to the instructions that fetch the  *)
(* arguments.                                                               *)
THEOREM FetchedOnce == Spec => []ArgumentsFetchedOnce
<1>1. Inv => ArgumentsFetchedOnce
  <2>. SUFFICES ASSUME Inv, phase = "done", NEW b \in DOMAIN blks, NEW c \in DOMAIN blks,
                       NEW j \in DOMAIN blks[c].insns, blks[c].insns[j].kind = "param"
                PROVE  c = 1 /\ c \notin Targets(b)
    BY DEF ArgumentsFetchedOnce
  <2>1. TypeOK /\ Legal /\ BlockInv
    BY DEF Inv, BlockInv
  <2>2. c = 1 /\ blks[b].s2 # 1
    BY <2>1 DEF BlockInv, Fetched
  <2>3. b \in Nat /\ b >= 1 /\ b \in Closed
    BY <2>1, TypeFacts DEF Closed
  <2>4. blks[b].s1 # 1
    BY <2>1, <2>3 DEF BlockInv, Settled, NoBlock
  <2>. QED  BY <2>2, <2>4 DEF Targets
<1>. QED  BY <1>1, Invariance, PTL

(* A function that ends by returning and whose branches all name labels it  *)
(* has gets through.                                                        *)
THEOREM WellFormedAccepted == Spec => []RejectsOnlyMalformed
<1>1. Inv => RejectsOnlyMalformed
  BY DEF Inv, NameInv
<1>. QED  BY <1>1, Invariance, PTL

-----------------------------------------------------------------------------
(* Control flow. The code of a block is the sequence of the statements that *)
(* its instructions and its branch were made from; zero stands for what no  *)
(* statement of the source asked for.                                       *)

Ending(p) == p[Len(p)]

\* Code, of block c
CodeOf(c) == [j \in DOMAIN c.insns |-> c.insns[j].stmt] \o (IF c.stmt = 0 THEN <<>> ELSE <<c.stmt>>)

\* Positions, of a body
Stops(B) == {j \in DOMAIN B : B[j].kind # "label"}

\* x is the first statement from h on that is not a label
IsFrom(B, x, h) == x \in Stops(B) /\ x >= h /\ \A g \in Stops(B) : g < h \/ g >= x

\* within a block one statement follows another in the source, and only
\* operations are followed by anything
Tells(B, p, n) ==
  /\ \A i \in 1 .. Len(p) : p[i] # 0 => p[i] \in Stops(B) /\ p[i] < n
  /\ \A i \in 1 .. Len(p) - 1 :
       \/ p[i + 1] = p[i] /\ (p[i] = 0 \/ B[p[i]].kind # "op")
       \/ p[i + 1] = p[i] + 1 /\ (p[i] = 0 \/ B[p[i]].kind = "op")
  /\ \A i \in 1 .. Len(p) : p[i] # 0 /\ B[p[i]].kind # "op" => p[i] = Ending(p)

\* the code p starts with the first statement from h on, or will start with
\* the next one, n
Starts(B, p, h, n) ==
  IF p = <<>> THEN h <= n /\ \A g \in Stops(B) : g < h \/ g >= n ELSE IsFrom(B, p[1], h)

\* a block has the branch that its last statement asks for
EndsWell(B, c) ==
  LET x == Ending(CodeOf(c))
  IN  /\ CodeOf(c) # <<>>
      /\ c.btype = "RET" => x # 0 /\ B[x].kind = "return"
      /\ c.btype = "BLT" => x # 0 /\ B[x].kind = "branch" /\ c.to = B[x].label
      /\ c.btype = "J" /\ c.to # NoLabel => x # 0 /\ B[x].kind = "jump" /\ c.to = B[x].label
      /\ c.btype = "J" /\ c.to = NoLabel => x = 0 \/ B[x].kind \in {"op", "call"}

\* the first label of its name, in the source and in f->labels
FirstOf(B, h) ==
  B[h].kind = "label" /\ \A g \in 1 .. h - 1 : B[g].kind = "label" => B[g].label # B[h].label
FirstEntry(ls, j) == \A i \in 1 .. j - 1 : ls[i].id # ls[j].id

Body == prog.body

Blocks == \A b \in DOMAIN blks : Tells(Body, CodeOf(blks[b]), k)

Finished ==
  \A b \in Closed :
    /\ EndsWell(Body, blks[b])
    /\ b + 1 \in DOMAIN blks =>
         Starts(Body, CodeOf(blks[b + 1]), Ending(CodeOf(blks[b])) + 1, k)

InProgress ==
  phase = "parse" =>
    /\ Last.stmt = 0
    /\ CodeOf(Last) # <<>> =>
         Ending(CodeOf(Last)) = k - 1 /\ (k = 1 \/ Body[k - 1].kind = "op")

Covered ==
  \A j \in Stops(Body) : j < k =>
    \E b \in DOMAIN blks : \E i \in 1 .. Len(CodeOf(blks[b])) : CodeOf(blks[b])[i] = j

LabelsLead ==
  \A j \in DOMAIN labels :
    /\ \E h \in 1 .. k - 1 : Body[h].kind = "label" /\ Body[h].label = labels[j].id
    /\ \A h \in 1 .. k - 1 :
         FirstOf(Body, h) /\ Body[h].label = labels[j].id /\ FirstEntry(labels, j) =>
           Starts(Body, CodeOf(blks[labels[j].b]), h, k)

Resolved ==
  phase # "parse" =>
    \A b \in DOMAIN blks : b < bi /\ blks[b].to # NoLabel =>
      \E j \in DOMAIN labels :
        FirstEntry(labels, j) /\ labels[j].id = blks[b].to /\ blks[b].s2 = labels[j].b

Told ==
  phase # "aborted" =>
    Blocks /\ Finished /\ InProgress /\ Covered /\ LabelsLead /\ Resolved

-----------------------------------------------------------------------------
(* q is p with more instructions of statement x.                            *)
Grown(p, q, x) ==
  /\ p \in Seq(Nat) /\ q \in Seq(Nat) /\ Len(p) <= Len(q)
  /\ \A i \in 1 .. Len(p) : q[i] = p[i]
  /\ \A i \in Len(p) + 1 .. Len(q) : q[i] = x

(* A block's code: the statements of its instructions, and of its branch.   *)
LEMMA CodeFacts ==
  ASSUME NEW c \in Block
  PROVE  /\ CodeOf(c) \in Seq(Nat)
         /\ Len(CodeOf(c)) = Len(c.insns) + (IF c.stmt = 0 THEN 0 ELSE 1)
         /\ Len(c.insns) \in Nat
         /\ \A i \in 1 .. Len(c.insns) : CodeOf(c)[i] = c.insns[i].stmt
         /\ c.stmt # 0 => CodeOf(c)[Len(c.insns) + 1] = c.stmt
<1>1. c.insns \in Seq(Insns) /\ c.stmt \in Nat
  BY DEF Block
<1>2. Len(c.insns) \in Nat /\ DOMAIN c.insns = 1 .. Len(c.insns)
      /\ \A i \in 1 .. Len(c.insns) : c.insns[i].stmt \in Nat
  <2>1. \A i \in 1 .. Len(c.insns) : c.insns[i] \in Insns
    BY <1>1, ElementOfSeq
  <2>. QED  BY <1>1, <2>1, LenProperties DEF Insns
<1>3. PICK n \in Nat : n = Len(c.insns)
  BY <1>2
<1>4. PICK r : r = [j \in DOMAIN c.insns |-> c.insns[j].stmt]
  OBVIOUS
<1>5. r \in Seq(Nat) /\ Len(r) = n /\ \A i \in 1 .. n : r[i] = c.insns[i].stmt
  <2>1. r \in [1 .. n -> Nat]
    BY <1>2, <1>3, <1>4
  <2>2. r \in Seq(Nat)
    BY <2>1, IsASeq
  <2>3. DOMAIN r = 1 .. n /\ DOMAIN r = 1 .. Len(r) /\ Len(r) \in Nat
    BY <2>1, <2>2, LenProperties
  <2>4. Len(r) = n
    BY <2>3
  <2>. QED  BY <1>2, <1>3, <1>4, <2>2, <2>4
<1>6. PICK u : u = IF c.stmt = 0 THEN <<>> ELSE <<c.stmt>>
  OBVIOUS
<1>7. u \in Seq(Nat) /\ Len(u) = (IF c.stmt = 0 THEN 0 ELSE 1) /\ (c.stmt # 0 => u[1] = c.stmt)
  BY <1>1, <1>6
<1>8. CodeOf(c) = r \o u
  BY <1>4, <1>6 DEF CodeOf
<1>9. /\ r \o u \in Seq(Nat) /\ Len(r \o u) = Len(r) + Len(u)
      /\ \A i \in 1 .. Len(r) + Len(u) : (r \o u)[i] = IF i <= Len(r) THEN r[i] ELSE u[i - Len(r)]
  BY <1>5, <1>7, ConcatProperties
<1>. HIDE DEF CodeOf
<1>10. \A i \in 1 .. n : CodeOf(c)[i] = c.insns[i].stmt
  <2>1. ASSUME NEW i \in 1 .. n PROVE i \in 1 .. Len(r) + Len(u) /\ i <= Len(r)
    BY <1>5, <1>7
  <2>. QED  BY <1>5, <1>8, <1>9, <2>1
<1>11. c.stmt # 0 => CodeOf(c)[n + 1] = c.stmt
  <2>. HAVE c.stmt # 0
  <2>1. n + 1 \in 1 .. Len(r) + Len(u) /\ ~(n + 1 <= Len(r)) /\ n + 1 - Len(r) = 1
    BY <1>5, <1>7
  <2>. QED  BY <1>7, <1>8, <1>9, <2>1
<1>. QED  BY <1>3, <1>5, <1>7, <1>8, <1>9, <1>10, <1>11

(* More instructions, and perhaps a branch, of the statement parsed.        *)
LEMMA CodeGrown ==
  ASSUME NEW c \in Block, NEW d \in Block, c.stmt = 0, NEW x \in Nat \ {0}, d.stmt \in {0, x},
         NEW u \in Seq(Insns), d.insns = c.insns \o u, \A i \in 1 .. Len(u) : u[i].stmt = x
  PROVE  /\ Grown(CodeOf(c), CodeOf(d), x)
         /\ Len(CodeOf(d)) = Len(CodeOf(c)) + Len(u) + (IF d.stmt = 0 THEN 0 ELSE 1)
<1>. DEFINE p == CodeOf(c)
            q == CodeOf(d)
            n == Len(c.insns)
            m == Len(u)
            e == IF d.stmt = 0 THEN 0 ELSE 1
<1>1. /\ p \in Seq(Nat) /\ Len(p) = n + (IF c.stmt = 0 THEN 0 ELSE 1) /\ n \in Nat
      /\ \A i \in 1 .. n : p[i] = c.insns[i].stmt
  BY CodeFacts
<1>2. /\ q \in Seq(Nat) /\ Len(q) = Len(d.insns) + e
      /\ \A i \in 1 .. Len(d.insns) : q[i] = d.insns[i].stmt
      /\ d.stmt # 0 => q[Len(d.insns) + 1] = d.stmt
  BY CodeFacts
<1>3. c.insns \in Seq(Insns) /\ m \in Nat /\ e \in Nat
  BY DEF Block
<1>4. /\ Len(d.insns) = n + m
      /\ \A i \in 1 .. n + m : d.insns[i] = IF i <= n THEN c.insns[i] ELSE u[i - n]
  BY <1>3, ConcatProperties
<1>5. Len(p) = n
  BY <1>1
<1>6. (d.stmt = 0 /\ e = 0) \/ (d.stmt = x /\ d.stmt # 0 /\ e = 1)
  OBVIOUS
<1>7. \A i \in 1 .. m : u[i].stmt = x
  OBVIOUS
<1>. HIDE DEF p, q, n, m, e
<1>8. Len(q) = n + m + e
  BY <1>2, <1>4
<1>9. ASSUME NEW i \in 1 .. n PROVE q[i] = p[i]
  <2>1. i \in 1 .. n + m /\ i <= n
    BY <1>1, <1>3
  <2>2. q[i] = d.insns[i].stmt /\ d.insns[i] = c.insns[i]
    BY <1>2, <1>4, <2>1
  <2>. QED  BY <1>1, <2>2
<1>10. ASSUME NEW i \in 1 .. m PROVE q[n + i] = x
  <2>1. PICK j : j = n + i
    OBVIOUS
  <2>2. j \in 1 .. n + m /\ ~(j <= n) /\ j - n = i
    BY <1>1, <1>3, <2>1
  <2>3. q[j] = d.insns[j].stmt /\ d.insns[j] = u[i]
    BY <1>2, <1>4, <2>2
  <2>. QED  BY <1>7, <2>1, <2>3
<1>11. e = 0 \/ (e = 1 /\ q[n + m + 1] = x)
  BY <1>2, <1>4, <1>6
<1>12. p \in Seq(Nat) /\ q \in Seq(Nat) /\ n \in Nat /\ x \in Nat
  BY <1>1, <1>2
<1>13. ASSUME NEW i \in n + 1 .. n + m + e PROVE q[i] = x
  <2>1. CASE i <= n + m
    <3>1. i - n \in 1 .. m /\ n + (i - n) = i
      BY <1>3, <1>12, <2>1
    <3>. QED  BY <1>10, <3>1
  <2>2. CASE ~(i <= n + m)
    <3>1. i = n + m + 1 /\ e = 1
      BY <1>3, <1>11, <1>12, <2>2
    <3>. QED  BY <1>11, <3>1
  <2>. QED  BY <2>1, <2>2
<1>14. Grown(p, q, x)
  BY <1>3, <1>5, <1>8, <1>9, <1>12, <1>13 DEF Grown
<1>. QED  BY <1>5, <1>8, <1>14 DEF p, q, m, e

LEMMA TellsLater ==
  ASSUME NEW B, NEW p, NEW n \in Nat, NEW m \in Nat, n <= m, Stops(B) \subseteq Nat, Tells(B, p, n)
  PROVE  Tells(B, p, m)
<1>1. \A i \in 1 .. Len(p) : p[i] # 0 => p[i] \in Stops(B) /\ p[i] < m
  BY DEF Tells
<1>. QED  BY <1>1 DEF Tells

LEMMA TellsNothing ==
  ASSUME NEW B, NEW n PROVE Tells(B, <<>>, n)
BY DEF Tells

(* A block goes on with the statement right after its last one.             *)
LEMMA TellsGrown ==
  ASSUME NEW B, NEW x \in Stops(B), NEW p, NEW q, Stops(B) \subseteq Nat \ {0},
         Tells(B, p, x), Grown(p, q, x), Len(q) > Len(p),
         p # <<>> => Ending(p) = x - 1 /\ (x = 1 \/ B[x - 1].kind = "op"),
         B[x].kind = "op" => Len(q) = Len(p) + 1
  PROVE  Tells(B, q, x + 1) /\ Ending(q) = x /\ q # <<>>
<1>1. /\ p \in Seq(Nat) /\ q \in Seq(Nat) /\ Len(p) \in Nat /\ Len(q) \in Nat /\ x \in Nat \ {0}
      /\ \A i \in 1 .. Len(p) : q[i] = p[i] /\ p[i] \in Nat
      /\ \A i \in Len(p) + 1 .. Len(q) : q[i] = x
  BY DEF Grown
<1>2. Ending(q) = x /\ q # <<>>
  BY <1>1 DEF Ending
<1>3. ASSUME NEW i \in 1 .. Len(q), q[i] # 0
      PROVE  /\ q[i] \in Stops(B) /\ q[i] < x + 1
             /\ B[q[i]].kind # "op" => q[i] = x
  <2>1. CASE i \in 1 .. Len(p)
    <3>1. p[i] = q[i] /\ p[i] \in Stops(B) /\ p[i] < x
      BY <1>1, <1>3, <2>1 DEF Tells
    <3>2. ASSUME B[p[i]].kind # "op" PROVE FALSE
      <4>1. p[i] = Ending(p) /\ p # <<>>
        BY <1>3, <2>1, <3>1, <3>2 DEF Tells
      <4>. QED  BY <1>3, <3>1, <3>2, <4>1
    <3>. QED  BY <1>1, <3>1, <3>2
  <2>2. CASE i \in Len(p) + 1 .. Len(q)
    BY <1>1, <2>2
  <2>. QED  BY <1>1, <2>1, <2>2
<1>4. ASSUME NEW i \in 1 .. Len(q) - 1
      PROVE  \/ q[i + 1] = q[i] /\ (q[i] = 0 \/ B[q[i]].kind # "op")
             \/ q[i + 1] = q[i] + 1 /\ (q[i] = 0 \/ B[q[i]].kind = "op")
  <2>1. CASE i < Len(p)
    <3>1. i \in 1 .. Len(p) - 1 /\ i \in 1 .. Len(p) /\ i + 1 \in 1 .. Len(p)
      BY <1>1, <2>1
    <3>2. q[i] = p[i] /\ q[i + 1] = p[i + 1]
      BY <1>1, <3>1
    <3>. QED  BY <3>1, <3>2 DEF Tells
  <2>2. CASE i = Len(p)
    <3>1. i \in 1 .. Len(p) /\ i + 1 \in Len(p) + 1 .. Len(q) /\ p # <<>>
      BY <1>1, <2>2
    <3>2. q[i] = Ending(p) /\ q[i + 1] = x
      BY <1>1, <2>2, <3>1 DEF Ending
    <3>. QED  BY <1>1, <3>1, <3>2
  <2>3. CASE i > Len(p)
    <3>1. i \in Len(p) + 1 .. Len(q) /\ i + 1 \in Len(p) + 1 .. Len(q) /\ Len(q) # Len(p) + 1
      BY <1>1, <2>3
    <3>. QED  BY <1>1, <3>1
  <2>. QED  BY <1>1, <2>1, <2>2, <2>3
<1>. QED  BY <1>2, <1>3, <1>4 DEF Tells

(* What a block starts with does not change when it grows.                  *)
LEMMA StartsKept ==
  ASSUME NEW B, NEW p, NEW h, NEW n, NEW m, p # <<>>, Starts(B, p, h, n)
  PROVE  Starts(B, p, h, m)
BY DEF Starts

LEMMA StartsGrown ==
  ASSUME NEW B, NEW x \in Stops(B), NEW p, NEW q, NEW h \in Nat, NEW m, Stops(B) \subseteq Nat \ {0},
         Grown(p, q, x), Len(q) > Len(p), Starts(B, p, h, x)
  PROVE  Starts(B, q, h, m)
<1>1. /\ p \in Seq(Nat) /\ q \in Seq(Nat) /\ Len(p) \in Nat /\ Len(q) \in Nat /\ x \in Nat \ {0}
      /\ \A i \in 1 .. Len(p) : q[i] = p[i]
      /\ \A i \in Len(p) + 1 .. Len(q) : q[i] = x
  BY DEF Grown
<1>2. q # <<>>
  BY <1>1
<1>3. CASE p = <<>>
  <2>1. q[1] = x
    BY <1>1, <1>3
  <2>2. h <= x /\ \A g \in Stops(B) : g < h \/ g >= x
    BY <1>3 DEF Starts
  <2>3. IsFrom(B, x, h)
    BY <1>1, <2>2 DEF IsFrom
  <2>. QED  BY <1>2, <2>1, <2>3 DEF Starts
<1>4. CASE p # <<>>
  <2>1. q[1] = p[1]
    BY <1>1, <1>4
  <2>. QED  BY <1>2, <1>4, <2>1 DEF Starts
<1>. QED  BY <1>3, <1>4

LEMMA StartsPastLabel ==
  ASSUME NEW B, NEW p, NEW x \in Nat, NEW h \in Nat, Stops(B) \subseteq Nat, x \notin Stops(B),
         Starts(B, p, h, x)
  PROVE  Starts(B, p, h, x + 1)
<1>1. CASE p = <<>>
  <2>1. h <= x /\ \A g \in Stops(B) : g < h \/ g >= x
    BY <1>1 DEF Starts
  <2>2. \A g \in Stops(B) : g < h \/ g >= x + 1
    BY <2>1
  <2>. QED  BY <1>1, <2>1, <2>2 DEF Starts
<1>. QED  BY <1>1, StartsKept

-----------------------------------------------------------------------------
(* The parser moves past a statement.                                       *)
Advance(n, m) ==
  /\ phase = "parse" /\ phase' = "parse" /\ prog' = prog /\ bi' = bi
  /\ k \in DOMAIN Body /\ k' = k + 1
  /\ n = Len(blks) /\ m = Len(blks') /\ m \in {n, n + 1}
  /\ DOMAIN blks' = 1 .. m
  /\ \A b \in 1 .. n - 1 : blks'[b] = blks[b]
  /\ Grown(CodeOf(blks[n]), CodeOf(blks'[n]), k)
  /\ IF Body[k].kind = "label"
     THEN CodeOf(blks'[n]) = CodeOf(blks[n]) /\ (m = n <=> CodeOf(blks[n]) = <<>>)
     ELSE Len(CodeOf(blks'[n])) > Len(CodeOf(blks[n]))
  /\ Body[k].kind = "op" => m = n /\ Len(CodeOf(blks'[n])) = Len(CodeOf(blks[n])) + 1
  /\ Body[k].kind \notin {"op", "label"} => m = n + 1
  /\ m = n => blks'[n].stmt = 0
  /\ m = n + 1 =>
       /\ EndsWell(Body, blks'[n])
       /\ CodeOf(blks'[m]) = <<>> /\ blks'[m].stmt = 0
  /\ IF Body[k].kind = "label"
     THEN /\ DOMAIN labels' = 1 .. Len(labels) + 1
          /\ \A j \in DOMAIN labels : labels'[j] = labels[j]
          /\ labels'[Len(labels) + 1] = [id |-> Body[k].label, b |-> m]
     ELSE labels' = labels

LEMMA BodyFacts ==
  ASSUME TypeOK, Legal
  PROVE  /\ Stops(Body) \subseteq Nat \ {0} /\ DOMAIN Body = 1 .. Len(Body) /\ Len(Body) \in Nat
         /\ k \in Nat /\ k >= 1 /\ DOMAIN blks = 1 .. Len(blks) /\ Len(blks) \in Nat /\ Len(blks) >= 1
         /\ Stops(Body) \subseteq DOMAIN Body
         /\ DOMAIN labels = 1 .. Len(labels) /\ Len(labels) \in Nat
         /\ \A b \in 1 .. Len(blks) : blks[b] \in Block
<1>1. DOMAIN Body = 1 .. Len(Body) /\ Len(Body) \in Nat
  BY TypeFacts DEF Body
<1>2. k >= 1 /\ k \in Nat
  BY TypeFacts DEF TypeOK
<1>3. Stops(Body) \subseteq DOMAIN Body
  BY DEF Stops
<1>4. Stops(Body) \subseteq Nat \ {0}
  BY <1>1, <1>3
<1>. QED  BY <1>1, <1>2, <1>3, <1>4, TypeFacts

(* Whatever starts the block at a position, or will start it, still does.   *)
LEMMA StartsCarried ==
  ASSUME Inv, Told, NEW n, NEW m, Advance(n, m), NEW b \in 1 .. n, NEW h \in Nat,
         Starts(Body, CodeOf(blks[b]), h, k)
  PROVE  Starts(Body, CodeOf(blks'[b]), h, k + 1)
<1>1. TypeOK /\ Legal
  BY DEF Inv, BlockInv
<1>2. n = Len(blks) /\ phase = "parse" /\ k \in DOMAIN Body /\ n \in Nat /\ n >= 1
  BY <1>1, BodyFacts DEF Advance
<1>3. CASE b \in 1 .. n - 1
  <2>1. CodeOf(blks[b]) # <<>> /\ blks'[b] = blks[b]
    BY <1>2, <1>3 DEF Advance, Told, Finished, Closed, EndsWell
  <2>. QED  BY <2>1, StartsKept
<1>4. CASE b = n
  <2>1. CASE Body[k].kind = "label"
    <3>1. k \notin Stops(Body) /\ CodeOf(blks'[b]) = CodeOf(blks[b])
      BY <1>4, <2>1 DEF Stops, Advance
    <3>2. Stops(Body) \subseteq Nat /\ k \in Nat
      BY <1>1, BodyFacts
    <3>3. Starts(Body, CodeOf(blks[b]), h, k + 1)
      BY <3>1, <3>2, StartsPastLabel
    <3>. QED  BY <3>1, <3>3
  <2>2. CASE Body[k].kind # "label"
    <3>1. k \in Stops(Body) /\ Stops(Body) \subseteq Nat \ {0}
      BY <1>1, <1>2, <2>2, BodyFacts DEF Stops
    <3>2. /\ Grown(CodeOf(blks[b]), CodeOf(blks'[b]), k)
          /\ Len(CodeOf(blks'[b])) > Len(CodeOf(blks[b]))
      BY <1>4, <2>2 DEF Advance
    <3>. QED  BY <3>1, <3>2, StartsGrown
  <2>. QED  BY <2>1, <2>2
<1>. QED  BY <1>2, <1>3, <1>4

\* the last block, as the statement parsed left it
LEMMA LastTold ==
  ASSUME Inv, Told, NEW n, NEW m, Advance(n, m)
  PROVE  /\ Tells(Body, CodeOf(blks'[n]), k + 1)
         /\ CodeOf(blks'[n]) # <<>> => Ending(CodeOf(blks'[n])) =
              IF Body[k].kind = "label" THEN k - 1 ELSE k
<1>1. TypeOK /\ Legal
  BY DEF Inv, BlockInv
<1>2. /\ n = Len(blks) /\ phase = "parse" /\ k \in DOMAIN Body /\ n \in DOMAIN blks
      /\ Last = blks[n] /\ k \in Nat /\ Stops(Body) \subseteq Nat \ {0}
  BY <1>1, BodyFacts DEF Advance, Last
<1>3. /\ Tells(Body, CodeOf(blks[n]), k)
      /\ CodeOf(blks[n]) # <<>> =>
           Ending(CodeOf(blks[n])) = k - 1 /\ (k = 1 \/ Body[k - 1].kind = "op")
  BY <1>2 DEF Told, Blocks, InProgress
<1>4. CASE Body[k].kind = "label"
  <2>1. CodeOf(blks'[n]) = CodeOf(blks[n])
    BY <1>4 DEF Advance
  <2>2. Tells(Body, CodeOf(blks[n]), k + 1)
    BY <1>2, <1>3, TellsLater
  <2>. QED  BY <1>3, <1>4, <2>1, <2>2
<1>5. CASE Body[k].kind # "label"
  <2>1. k \in Stops(Body)
    BY <1>2, <1>5 DEF Stops
  <2>2. /\ Grown(CodeOf(blks[n]), CodeOf(blks'[n]), k)
        /\ Len(CodeOf(blks'[n])) > Len(CodeOf(blks[n]))
        /\ Body[k].kind = "op" => Len(CodeOf(blks'[n])) = Len(CodeOf(blks[n])) + 1
    BY <1>5 DEF Advance
  <2>3. Tells(Body, CodeOf(blks'[n]), k + 1) /\ Ending(CodeOf(blks'[n])) = k
    BY <1>2, <1>3, <2>1, <2>2, TellsGrown
  <2>. QED  BY <1>5, <2>3
<1>. QED  BY <1>4, <1>5

LEMMA AdvanceTold ==
  ASSUME Inv, Told, NEW n, NEW m, Advance(n, m)
  PROVE  Told'
<1>1. TypeOK /\ Legal
  BY DEF Inv, BlockInv
<1>2. /\ n = Len(blks) /\ m = Len(blks') /\ m \in {n, n + 1} /\ n \in Nat /\ n >= 1
      /\ phase = "parse" /\ phase' = "parse" /\ Body' = Body /\ k \in DOMAIN Body /\ k' = k + 1
      /\ DOMAIN blks = 1 .. n /\ DOMAIN blks' = 1 .. m
      /\ \A b \in 1 .. n - 1 : blks'[b] = blks[b]
      /\ m = n + 1 => CodeOf(blks'[m]) = <<>> /\ blks'[m].stmt = 0
  BY <1>1, BodyFacts DEF Advance, Body
<1>3. k \in Nat /\ Stops(Body) \subseteq Nat \ {0} /\ DOMAIN Body = 1 .. Len(Body) /\ k >= 1
  BY <1>1, BodyFacts
<1>4. Blocks /\ Finished /\ InProgress /\ Covered /\ LabelsLead
  BY <1>2 DEF Told
<1>5. /\ Tells(Body, CodeOf(blks'[n]), k + 1)
      /\ CodeOf(blks'[n]) # <<>> => Ending(CodeOf(blks'[n])) =
            IF Body[k].kind = "label" THEN k - 1 ELSE k
  BY LastTold
<1>6. Blocks'
  <2>1. ASSUME NEW b \in 1 .. m PROVE Tells(Body, CodeOf(blks'[b]), k + 1)
    <3>1. CASE b \in 1 .. n - 1
      <4>1. Tells(Body, CodeOf(blks[b]), k) /\ blks'[b] = blks[b]
        BY <1>2, <1>4, <3>1 DEF Blocks
      <4>2. Tells(Body, CodeOf(blks[b]), k + 1)
        BY <1>3, <4>1, TellsLater
      <4>. QED  BY <4>1, <4>2
    <3>2. CASE b = n
      BY <1>5, <3>2
    <3>3. CASE b = n + 1
      BY <1>2, <3>3, TellsNothing
    <3>. QED  BY <1>2, <3>1, <3>2, <3>3
  <2>. QED  BY <1>2, <2>1 DEF Blocks
<1>7. Finished'
  <2>1. Closed' = 1 .. m - 1
    BY <1>2 DEF Closed
  <2>2. ASSUME NEW b \in 1 .. m - 1 PROVE EndsWell(Body, blks'[b])
    <3>1. CASE b \in 1 .. n - 1
      BY <1>2, <1>4, <3>1 DEF Finished, Closed
    <3>2. CASE b = n
      BY <1>2, <3>2 DEF Advance
    <3>. QED  BY <1>2, <3>1, <3>2
  <2>3. ASSUME NEW b \in 1 .. m - 1
        PROVE  Starts(Body, CodeOf(blks'[b + 1]), Ending(CodeOf(blks'[b])) + 1, k + 1)
    <3>1. CASE b \in 1 .. n - 1
      <4>1. /\ Starts(Body, CodeOf(blks[b + 1]), Ending(CodeOf(blks[b])) + 1, k)
            /\ EndsWell(Body, blks[b]) /\ blks'[b] = blks[b] /\ b + 1 \in 1 .. n
        BY <1>2, <1>4, <3>1 DEF Finished, Closed
      <4>2. Ending(CodeOf(blks[b])) + 1 \in Nat
        <5>1. blks[b] \in Block
          <6>1. b \in 1 .. n
            BY <1>2, <3>1
          <6>2. \A a \in 1 .. n : blks[a] \in Block
            BY <1>1, <1>2, BodyFacts
          <6>. QED  BY <6>1, <6>2
        <5>2. CodeOf(blks[b]) \in Seq(Nat) /\ CodeOf(blks[b]) # <<>>
          BY <4>1, <5>1, CodeFacts DEF EndsWell
        <5>. QED  BY <5>2 DEF Ending
      <4>3. Starts(Body, CodeOf(blks'[b + 1]), Ending(CodeOf(blks[b])) + 1, k + 1)
        BY <4>1, <4>2, StartsCarried
      <4>. QED  BY <4>1, <4>3
    <3>2. CASE b = n
      <4>1. m = n + 1 /\ CodeOf(blks'[b + 1]) = <<>> /\ CodeOf(blks'[n]) # <<>>
        BY <1>2, <3>2 DEF Advance, EndsWell
      <4>2. CASE Body[k].kind = "label"
        <5>1. Ending(CodeOf(blks'[b])) + 1 = k /\ k \notin Stops(Body)
          BY <1>3, <1>5, <3>2, <4>1, <4>2 DEF Stops
        <5>2. \A g \in Stops(Body) : g < k \/ g >= k + 1
          BY <1>3, <5>1
        <5>. QED  BY <1>3, <4>1, <5>1, <5>2 DEF Starts
      <4>3. CASE Body[k].kind # "label"
        <5>1. Ending(CodeOf(blks'[b])) + 1 = k + 1
          BY <1>5, <3>2, <4>1, <4>3
        <5>2. \A g \in Stops(Body) : g < k + 1 \/ g >= k + 1
          BY <1>3
        <5>. QED  BY <1>3, <4>1, <5>1, <5>2 DEF Starts
      <4>. QED  BY <4>2, <4>3
    <3>. QED  BY <1>2, <3>1, <3>2
  <2>. QED  BY <1>2, <2>1, <2>2, <2>3 DEF Finished
<1>8. InProgress'
  <2>1. Last' = blks'[m]
    BY <1>2 DEF Last
  <2>2. CASE m = n + 1
    BY <1>2, <2>1, <2>2 DEF InProgress
  <2>3. CASE m = n
    <3>1. blks'[n].stmt = 0 /\ Body[k].kind \in {"op", "label"}
      BY <1>2, <2>3 DEF Advance
    <3>2. CASE Body[k].kind = "label"
      <4>1. CodeOf(blks'[n]) = <<>>
        BY <2>3, <3>2 DEF Advance
      <4>. QED  BY <1>2, <2>1, <2>3, <3>1, <4>1 DEF InProgress
    <3>3. CASE Body[k].kind = "op"
      <4>1. k' - 1 = k
        BY <1>2, <1>3
      <4>2. CodeOf(blks'[n]) # <<>> => Ending(CodeOf(blks'[n])) = k
        BY <1>5, <3>3
      <4>. QED  BY <1>2, <2>1, <2>3, <3>1, <3>3, <4>1, <4>2 DEF InProgress
    <3>. QED  BY <3>1, <3>2, <3>3
  <2>. QED  BY <1>2, <2>2, <2>3
<1>9. Covered'
  <2>1. ASSUME NEW j \in Stops(Body), j < k + 1
        PROVE  \E b \in 1 .. m : \E i \in 1 .. Len(CodeOf(blks'[b])) : CodeOf(blks'[b])[i] = j
    <3>1. CASE j < k
      <4>0. PICK b \in 1 .. n : \E i \in 1 .. Len(CodeOf(blks[b])) : CodeOf(blks[b])[i] = j
        BY <1>2, <1>4, <3>1 DEF Covered
      <4>1. PICK i \in 1 .. Len(CodeOf(blks[b])) : CodeOf(blks[b])[i] = j
        BY <4>0
      <4>2. b \in 1 .. m
        BY <1>2
      <4>3. CASE b \in 1 .. n - 1
        <5>1. blks'[b] = blks[b]
          BY <1>2, <4>3
        <5>. QED  BY <4>1, <4>2, <5>1
      <4>4. CASE b = n
        <5>1. Grown(CodeOf(blks[n]), CodeOf(blks'[n]), k)
          BY DEF Advance
        <5>2. i \in 1 .. Len(CodeOf(blks'[b])) /\ CodeOf(blks'[b])[i] = j
          BY <4>1, <4>4, <5>1 DEF Grown
        <5>. QED  BY <4>2, <5>2
      <4>. QED  BY <1>2, <4>3, <4>4
    <3>2. CASE j = k
      <4>1. Body[k].kind # "label"
        BY <3>2 DEF Stops
      <4>2. /\ Grown(CodeOf(blks[n]), CodeOf(blks'[n]), k)
            /\ Len(CodeOf(blks'[n])) > Len(CodeOf(blks[n]))
        BY <4>1 DEF Advance
      <4>3. PICK i : i = Len(CodeOf(blks'[n]))
        OBVIOUS
      <4>4. i \in 1 .. Len(CodeOf(blks'[n])) /\ CodeOf(blks'[n])[i] = k
        BY <4>2, <4>3 DEF Grown
      <4>5. n \in 1 .. m
        BY <1>2
      <4>. QED  BY <3>2, <4>4, <4>5
    <3>. QED  BY <1>3, <2>1, <3>1, <3>2
  <2>. QED  BY <1>2, <2>1 DEF Covered
<1>. DEFINE N == Len(labels)
<1>10. N \in Nat /\ DOMAIN labels = 1 .. N
  BY <1>1, BodyFacts
<1>11. ASSUME NEW j \in 1 .. N
       PROVE  /\ j \in DOMAIN labels' /\ labels'[j] = labels[j]
              /\ FirstEntry(labels', j) => FirstEntry(labels, j)
  <2>1. \A i \in 1 .. N : i \in DOMAIN labels' /\ labels'[i] = labels[i]
    BY <1>10 DEF Advance
  <2>2. \A i \in 1 .. j - 1 : i \in 1 .. N
    BY <1>10
  <2>. QED  BY <2>1, <2>2 DEF FirstEntry
<1>12. ASSUME NEW j \in 1 .. N
       PROVE  /\ \E h \in 1 .. k : Body[h].kind = "label" /\ Body[h].label = labels'[j].id
              /\ \A h \in 1 .. k :
                   FirstOf(Body, h) /\ Body[h].label = labels'[j].id /\ FirstEntry(labels', j) =>
                     Starts(Body, CodeOf(blks'[labels'[j].b]), h, k + 1)
  <2>1. PICK g \in 1 .. k - 1 : Body[g].kind = "label" /\ Body[g].label = labels[j].id
    BY <1>4, <1>10 DEF LabelsLead
  <2>2. g \in 1 .. k /\ labels'[j] = labels[j]
    BY <1>3, <1>11
  <2>3. ASSUME NEW h \in 1 .. k, FirstOf(Body, h), Body[h].label = labels[j].id, FirstEntry(labels', j)
        PROVE  Starts(Body, CodeOf(blks'[labels[j].b]), h, k + 1)
    <3>1. h # k
      <4>. SUFFICES ASSUME h = k PROVE FALSE
        OBVIOUS
      <4>. QED  BY <2>1, <2>3 DEF FirstOf
    <3>2. h \in 1 .. k - 1 /\ h \in Nat
      BY <1>3, <3>1
    <3>3. FirstEntry(labels, j)
      BY <1>11, <2>3
    <3>4. Starts(Body, CodeOf(blks[labels[j].b]), h, k)
      BY <1>4, <1>10, <2>3, <3>2, <3>3 DEF LabelsLead
    <3>5. labels[j].b \in 1 .. n
      BY <1>2, <1>10 DEF Inv, NameInv, Labelled
    <3>. QED  BY <3>2, <3>4, <3>5, StartsCarried
  <2>. QED  BY <2>1, <2>2, <2>3
<1>13. LabelsLead'
  <2>1. k' - 1 = k
    BY <1>2, <1>3
  <2>2. ASSUME NEW j \in DOMAIN labels'
        PROVE  /\ \E h \in 1 .. k : Body[h].kind = "label" /\ Body[h].label = labels'[j].id
               /\ \A h \in 1 .. k :
                    FirstOf(Body, h) /\ Body[h].label = labels'[j].id /\ FirstEntry(labels', j) =>
                      Starts(Body, CodeOf(blks'[labels'[j].b]), h, k + 1)
    <3>1. CASE j \in 1 .. N
      BY <1>12, <3>1
    <3>2. CASE j \notin 1 .. N
      <4>1. Body[k].kind = "label" /\ j = N + 1
        BY <1>10, <2>2, <3>2 DEF Advance
      <4>2. labels'[j].id = Body[k].label /\ labels'[j].b = m
        BY <4>1 DEF Advance
      <4>3. k \in 1 .. k
        BY <1>3
      <4>4. ASSUME NEW h \in 1 .. k, FirstOf(Body, h), Body[h].label = Body[k].label,
                   FirstEntry(labels', j)
            PROVE  Starts(Body, CodeOf(blks'[m]), h, k + 1)
        <5>1. h = k
          <6>. SUFFICES ASSUME h \in 1 .. k - 1 PROVE FALSE
            BY <1>3
          <6>1. Body[h].kind = "label"
            BY <4>4 DEF FirstOf
          <6>2. PICK i \in DOMAIN labels : labels[i].id = Body[h].label
            BY <6>1 DEF Inv, NameInv, Names, Body
          <6>3. i \in 1 .. j - 1 /\ labels'[i] = labels[i]
            BY <1>10, <1>11, <4>1, <6>2
          <6>. QED  BY <4>2, <4>4, <6>2, <6>3 DEF FirstEntry
        <5>2. CodeOf(blks'[m]) = <<>>
          <6>1. CASE m = n
            BY <4>1, <6>1 DEF Advance
          <6>. QED  BY <1>2, <6>1
        <5>3. \A g \in Stops(Body) : g < k \/ g >= k + 1
          BY <1>3, <4>1 DEF Stops
        <5>. QED  BY <1>3, <5>1, <5>2, <5>3 DEF Starts
      <4>. QED  BY <4>1, <4>2, <4>3, <4>4
    <3>. QED  BY <3>1, <3>2
  <2>. QED  BY <1>2, <2>1, <2>2 DEF LabelsLead
<1>14. Resolved'
  BY <1>2 DEF Resolved
<1>. QED  BY <1>6, <1>7, <1>8, <1>9, <1>13, <1>14 DEF Told

LEMMA AppendedLabel ==
  ASSUME TypeOK, Legal, NEW m \in Nat \ {0}, NEW id \in Labels,
         labels' = Append(labels, [id |-> id, b |-> m])
  PROVE  /\ DOMAIN labels' = 1 .. Len(labels) + 1
         /\ \A j \in DOMAIN labels : labels'[j] = labels[j]
         /\ labels'[Len(labels) + 1] = [id |-> id, b |-> m]
<1>1. PICK S : S = [id : Labels, b : Nat \ {0}]
  OBVIOUS
<1>2. labels \in Seq(S) /\ DOMAIN labels = 1 .. Len(labels) /\ Len(labels) \in Nat
  BY <1>1, TypeFacts DEF TypeOK
<1>3. PICK e \in S : e = [id |-> id, b |-> m]
  BY <1>1
<1>4. /\ labels' \in Seq(S) /\ Len(labels') = Len(labels) + 1
      /\ \A j \in 1 .. Len(labels) : labels'[j] = labels[j]
      /\ labels'[Len(labels) + 1] = e
  BY <1>2, <1>3, AppendProperties
<1>. QED  BY <1>2, <1>3, <1>4, LenProperties

(* A statement that ends the block.                                         *)
LEMMA BranchAdvances ==
  ASSUME Inv, Told, phase = "parse", phase' = "parse", prog' = prog, bi' = bi,
         k \in DOMAIN Body, k' = k + 1,
         NEW u \in Seq(Insns), NEW btype \in {"BLT", "J", "RET"}, NEW stmt \in {0, k},
         NEW label \in Labels \cup {NoLabel},
         blks' = Branched(u, btype, stmt, label),
         \A i \in 1 .. Len(u) : u[i].stmt = k,
         Body[k].kind # "op",
         IF Body[k].kind = "label"
         THEN /\ u = <<>> /\ btype = "J" /\ stmt = 0 /\ label = NoLabel
              /\ blks[Len(blks)].insns # <<>>
              /\ labels' = Append(labels, [id |-> Body[k].label, b |-> Len(blks) + 1])
         ELSE /\ Len(u) > 0 \/ stmt = k
              /\ labels' = labels
              /\ btype = "RET" => Body[k].kind = "return"
              /\ btype = "BLT" => Body[k].kind = "branch" /\ label = Body[k].label
              /\ btype = "J" /\ label # NoLabel => Body[k].kind = "jump" /\ label = Body[k].label
              /\ btype = "J" /\ label = NoLabel => Body[k].kind = "call"
  PROVE  Told'
<1>. DEFINE n == Len(blks)
            c == blks[n]
            d == blks'[n]
<1>1. TypeOK /\ Legal
  BY DEF Inv, BlockInv
<1>2. /\ n \in Nat /\ n >= 1 /\ DOMAIN blks = 1 .. n /\ Last = c /\ c \in Block
      /\ k \in Nat /\ k >= 1 /\ DOMAIN labels = 1 .. Len(labels) /\ Len(labels) \in Nat
  BY <1>1, BodyFacts DEF Last
<1>3. stmt \in Nat
  BY <1>2
<1>4. IsBranched(blks', u, btype, stmt, label)
  BY <1>1, <1>3, BranchedFacts
<1>5. /\ blks' \in Seq(Block) /\ Len(blks') = n + 1 /\ DOMAIN blks' = 1 .. n + 1
      /\ \A b \in 1 .. n - 1 : blks'[b] = blks[b]
      /\ d.insns = c.insns \o u /\ d.btype = btype /\ d.stmt = stmt /\ d.to = label
      /\ blks'[n + 1] = EmptyBlock
  BY <1>4 DEF IsBranched
<1>6. d \in Block
  BY <1>2, <1>5, ElementOfSeq
<1>7. c.stmt = 0 /\ (CodeOf(c) # <<>> => Ending(CodeOf(c)) = k - 1 /\ (k = 1 \/ Body[k - 1].kind = "op"))
  BY <1>2 DEF Told, InProgress
<1>8. EmptyBlock.stmt = 0 /\ CodeOf(EmptyBlock) = <<>>
  <2>1. EmptyBlock \in Block /\ EmptyBlock.stmt = 0 /\ EmptyBlock.insns = <<>>
    BY DEF EmptyBlock, Block, NoBlock
  <2>2. /\ CodeOf(EmptyBlock) \in Seq(Nat)
        /\ Len(CodeOf(EmptyBlock)) = Len(EmptyBlock.insns) + (IF EmptyBlock.stmt = 0 THEN 0 ELSE 1)
    BY <2>1, CodeFacts
  <2>3. Len(CodeOf(EmptyBlock)) = 0
    BY <2>1, <2>2
  <2>. QED  BY <2>1, <2>2, <2>3, EmptySeq
<1>. DEFINE p == CodeOf(c)
            q == CodeOf(d)
<1>9. k \in Nat \ {0} /\ d.stmt \in {0, k}
  BY <1>2, <1>5
<1>10. /\ Grown(p, q, k)
       /\ Len(q) = Len(p) + Len(u) + (IF d.stmt = 0 THEN 0 ELSE 1)
  <2>1. c \in Block /\ c.stmt = 0
    BY <1>2, <1>7
  <2>2. d.insns = c.insns \o u
    BY <1>5
  <2>3. \A i \in 1 .. Len(u) : u[i].stmt = k
    OBVIOUS
  <2>. HIDE DEF c, d
  <2>. QED  BY <1>6, <1>9, <2>1, <2>2, <2>3, CodeGrown
<1>11. /\ p \in Seq(Nat) /\ Len(p) = Len(c.insns) + (IF c.stmt = 0 THEN 0 ELSE 1)
       /\ c.insns \in Seq(Insns) /\ q \in Seq(Nat)
  BY <1>2, <1>6, CodeFacts DEF Block
<1>. HIDE DEF p, q, c, d, n
<1>12. Len(p) \in Nat /\ Len(q) \in Nat /\ Len(u) \in Nat
  BY <1>11, LenProperties
<1>13. IF Body[k].kind = "label" THEN q = p /\ p # <<>> ELSE Len(q) > Len(p)
  <2>1. CASE Body[k].kind = "label"
    <3>1. Len(q) = Len(p)
      BY <1>5, <1>10, <1>12, <2>1
    <3>2. \A i \in 1 .. Len(p) : q[i] = p[i]
      BY <1>10 DEF Grown
    <3>3. q = p
      BY <1>11, <3>1, <3>2, SeqEqual
    <3>4. c.insns # <<>>
      BY <2>1 DEF c, n
    <3>5. Len(c.insns) \in Nat /\ Len(c.insns) # 0
      BY <1>11, <3>4, EmptySeq, LenProperties
    <3>6. Len(p) # 0
      BY <1>7, <1>11, <3>5
    <3>. QED  BY <2>1, <3>3, <3>6
  <2>2. CASE Body[k].kind # "label"
    <3>1. CASE Len(u) > 0
      BY <1>10, <1>12, <2>2, <3>1
    <3>2. CASE stmt = k
      <4>1. d.stmt # 0
        BY <1>2, <1>5, <3>2
      <4>. QED  BY <1>10, <1>12, <2>2, <4>1
    <3>. QED  BY <2>2, <3>1, <3>2
  <2>. QED  BY <2>1, <2>2
<1>14. EndsWell(Body, d)
  <2>1. CASE Body[k].kind = "label"
    <3>1. /\ Ending(q) = k - 1 /\ (k = 1 \/ Body[k - 1].kind = "op") /\ q # <<>>
      BY <1>7, <1>13, <2>1 DEF p
    <3>2. Ending(q) = 0 \/ Body[Ending(q)].kind = "op"
      BY <1>2, <3>1
    <3>3. d.btype = "J" /\ d.to = NoLabel
      BY <1>5, <2>1
    <3>. QED  BY <3>1, <3>2, <3>3 DEF EndsWell, q
  <2>2. CASE Body[k].kind # "label"
    <3>1. Len(q) \in Len(p) + 1 .. Len(q)
      BY <1>12, <1>13, <2>2
    <3>2. Ending(q) = k /\ k # 0
      <4>1. \A i \in Len(p) + 1 .. Len(q) : q[i] = k
        BY <1>10 DEF Grown
      <4>. QED  BY <1>9, <3>1, <4>1 DEF Ending
    <3>3. q # <<>>
      BY <1>12, <1>13, <2>2, EmptySeq
    <3>. QED  BY <1>5, <2>2, <3>2, <3>3 DEF EndsWell, q
  <2>. QED  BY <2>1, <2>2
<1>15. IF Body[k].kind = "label"
       THEN /\ DOMAIN labels' = 1 .. Len(labels) + 1
            /\ \A j \in DOMAIN labels : labels'[j] = labels[j]
            /\ labels'[Len(labels) + 1] = [id |-> Body[k].label, b |-> n + 1]
       ELSE labels' = labels
  <2>1. CASE Body[k].kind = "label"
    <3>1. labels' = Append(labels, [id |-> Body[k].label, b |-> n + 1])
      BY <2>1 DEF n
    <3>2. Body[k].label \in Labels
      BY <1>1, <2>1, TypeFacts DEF Statement, Body
    <3>. QED  BY <1>1, <1>2, <2>1, <3>1, <3>2, AppendedLabel
  <2>. QED  BY <2>1
<1>16. Advance(n, n + 1)
  BY <1>1, <1>2, <1>5, <1>8, <1>10, <1>13, <1>14, <1>15 DEF Advance, n, c, d, p, q
<1>. QED  BY <1>16, AdvanceTold

(* An operation goes to the end of the block.                               *)
LEMMA PlainTold == ASSUME Inv, Told, Plain PROVE Told'
<1>. DEFINE n == Len(blks)
            c == blks[n]
            d == blks'[n]
            u == <<Insn("op", k)>>
<1>1. TypeOK /\ Legal
  BY DEF Inv, BlockInv
<1>2. /\ phase = "parse" /\ k \in DOMAIN Body /\ Body[k].kind = "op"
      /\ blks' = [blks EXCEPT ![cur].insns = Append(@, Insn("op", k))]
      /\ k' = k + 1 /\ UNCHANGED <<prog, cur, labels, bi, phase>>
  BY DEF Plain, At, Body
<1>3. /\ n \in Nat /\ n >= 1 /\ DOMAIN blks = 1 .. n /\ Last = c /\ c \in Block /\ cur = n
      /\ k \in Nat /\ k >= 1 /\ blks \in Seq(Block)
  BY <1>1, <1>2, BodyFacts DEF Last, TypeOK
<1>4. c.stmt = 0 /\ c.insns \in Seq(Insns)
  BY <1>2, <1>3 DEF Told, InProgress, Block
<1>5. u \in Seq(Insns) /\ Len(u) = 1 /\ u[1].stmt = k /\ Insn("op", k) \in Insns
  BY <1>3 DEF Insn, Insns
<1>6. Append(c.insns, Insn("op", k)) = c.insns \o u
  BY <1>4, <1>5, AppendIsConcat
<1>7. c.insns \o u \in Seq(Insns)
  BY <1>4, <1>5, ConcatProperties
<1>. DEFINE e == [c EXCEPT !.insns = c.insns \o u]
<1>8. e \in Block /\ e.insns = c.insns \o u /\ e.stmt = 0
  BY <1>3, <1>4, <1>7 DEF Block
<1>9. blks' = [blks EXCEPT ![n] = e]
  BY <1>2, <1>3, <1>6
<1>. HIDE DEF e, u
<1>10. /\ blks' \in Seq(Block) /\ Len(blks') = n /\ DOMAIN blks' = 1 .. n /\ d = e
       /\ \A b \in 1 .. n - 1 : blks'[b] = blks[b]
  <2>1. n \in 1 .. Len(blks)
    BY <1>3
  <2>2. PICK q : q = [blks EXCEPT ![n] = e]
    OBVIOUS
  <2>3. /\ q \in Seq(Block) /\ Len(q) = Len(blks)
        /\ \A j \in 1 .. Len(blks) : q[j] = IF j = n THEN e ELSE blks[j]
    BY <1>3, <1>8, <2>1, <2>2, ExceptSeq
  <2>4. DOMAIN q = 1 .. Len(q)
    BY <2>3, LenProperties
  <2>5. ASSUME NEW b \in 1 .. n - 1 PROVE b \in 1 .. Len(blks) /\ b # n
    <3>1. n \in Nat /\ Len(blks) = n
      BY <1>3
    <3>. HIDE DEF n
    <3>. QED  BY <3>1
  <2>. QED  BY <1>9, <2>1, <2>2, <2>3, <2>4, <2>5
<1>. DEFINE p == CodeOf(c)
            q == CodeOf(d)
<1>11. /\ Grown(p, q, k)
       /\ Len(q) = Len(p) + Len(u) + (IF d.stmt = 0 THEN 0 ELSE 1)
  <2>1. c \in Block /\ c.stmt = 0 /\ d \in Block /\ d.stmt \in {0, k} /\ k \in Nat \ {0}
    BY <1>3, <1>4, <1>8, <1>10
  <2>2. d.insns = c.insns \o u /\ u \in Seq(Insns)
    BY <1>5, <1>8, <1>10
  <2>3. \A i \in 1 .. Len(u) : u[i].stmt = k
    BY <1>5
  <2>. HIDE DEF c, d
  <2>. QED  BY <2>1, <2>2, <2>3, CodeGrown
<1>12. Len(p) \in Nat /\ Len(q) = Len(p) + 1
  <2>1. p \in Seq(Nat)
    BY <1>3, CodeFacts
  <2>2. Len(p) \in Nat
    BY <2>1, LenProperties
  <2>. QED  BY <1>5, <1>8, <1>10, <1>11, <2>2
<1>13. d.stmt = 0
  BY <1>8, <1>10
<1>. HIDE DEF p, q, c, d, n
<1>14. Advance(n, n)
  BY <1>2, <1>3, <1>10, <1>11, <1>12, <1>13 DEF Advance, n, c, d, p, q
<1>. QED  BY <1>14, AdvanceTold

(* The results of a call and of the function belong to the statement.       *)
LEMMA RepeatTold ==
  ASSUME NEW kind \in {"retval", "retarg"}, NEW j \in Nat, k \in Nat
  PROVE  /\ Repeat(kind, j) \in Seq(Insns)
         /\ \A i \in 1 .. Len(Repeat(kind, j)) : Repeat(kind, j)[i].stmt = k
<1>1. Repeat(kind, j) \in Seq(Insns) /\ DOMAIN Repeat(kind, j) = 1 .. j
  BY RepeatFacts
<1>2. Len(Repeat(kind, j)) = j
  BY <1>1, LenProperties
<1>3. \A i \in 1 .. j : Repeat(kind, j)[i] = Insn(kind, k)
  BY DEF Repeat
<1>. QED  BY <1>1, <1>2, <1>3 DEF Insn

LEMMA CallTold == ASSUME Inv, Told, Call PROVE Told'
<1>1. TypeOK /\ Legal
  BY DEF Inv, BlockInv
<1>. DEFINE r == Repeat("retval", Stmt.n)
            i == <<Insn("call", k)>>
            u == i \o r
<1>2. /\ phase = "parse" /\ k \in DOMAIN Body /\ Body[k].kind = "call" /\ Stmt = Body[k]
      /\ blks' = Branched(u, "J", 0, NoLabel)
      /\ k' = k + 1 /\ UNCHANGED <<prog, labels, bi, phase>>
  BY DEF Call, At, NewBlock, Body, Stmt
<1>3. k \in Nat /\ Stmt.n \in Nat
  BY <1>1, <1>2, TypeFacts DEF Body, Statement
<1>4. r \in Seq(Insns) /\ \A j \in 1 .. Len(r) : r[j].stmt = k
  BY <1>3, RepeatTold
<1>5. i \in Seq(Insns) /\ Len(i) = 1 /\ i[1].stmt = k
  BY <1>3 DEF Insn, Insns
<1>. HIDE DEF r, i
<1>6. /\ u \in Seq(Insns) /\ Len(u) = 1 + Len(r) /\ Len(r) \in Nat
      /\ \A j \in 1 .. 1 + Len(r) : u[j] = IF j <= 1 THEN i[j] ELSE r[j - 1]
  <2>1. /\ u \in Seq(Insns) /\ Len(u) = Len(i) + Len(r)
        /\ \A j \in 1 .. Len(i) + Len(r) : u[j] = IF j <= Len(i) THEN i[j] ELSE r[j - Len(i)]
    BY <1>4, <1>5, ConcatProperties
  <2>2. Len(r) \in Nat
    BY <1>4, LenProperties
  <2>. HIDE DEF u
  <2>. QED  BY <1>5, <2>1, <2>2
<1>. HIDE DEF u
<1>7. Len(u) > 0
  BY <1>6
<1>8. ASSUME NEW j \in 1 .. Len(u) PROVE u[j].stmt = k
  <2>1. CASE j = 1
    BY <1>5, <1>6, <2>1
  <2>2. CASE j # 1
    <3>1. j - 1 \in 1 .. Len(r) /\ ~(j <= 1) /\ j \in 1 .. 1 + Len(r)
      BY <1>6, <2>2
    <3>. QED  BY <1>4, <1>6, <3>1
  <2>. QED  BY <2>1, <2>2
<1>. QED  BY <1>2, <1>6, <1>7, <1>8, BranchAdvances

LEMMA ReturnTold == ASSUME Inv, Told, Return PROVE Told'
<1>1. TypeOK /\ Legal
  BY DEF Inv, BlockInv
<1>. DEFINE r == Repeat("retarg", Stmt.n)
<1>2. /\ phase = "parse" /\ k \in DOMAIN Body /\ Body[k].kind = "return" /\ Stmt = Body[k]
      /\ blks' = Branched(r, "RET", k, NoLabel)
      /\ k' = k + 1 /\ UNCHANGED <<prog, labels, bi, phase>>
  BY DEF Return, At, NewBlock, Body, Stmt
<1>3. k \in Nat /\ Stmt.n \in Nat
  BY <1>1, <1>2, TypeFacts DEF Body, Statement
<1>4. r \in Seq(Insns) /\ \A j \in 1 .. Len(r) : r[j].stmt = k
  BY <1>3, RepeatTold
<1>. HIDE DEF r
<1>. QED  BY <1>2, <1>4, BranchAdvances

\* the branches that add no instruction
LEMMA NoInsns == <<>> \in Seq(Insns) /\ \A j \in 1 .. Len(<<>>) : <<>>[j].stmt = k
  OBVIOUS

LEMMA JumpTold == ASSUME Inv, Told, Branch \/ Jump PROVE Told'
<1>1. TypeOK /\ Legal
  BY DEF Inv, BlockInv
<1>2. /\ phase = "parse" /\ k \in DOMAIN Body /\ Stmt = Body[k]
      /\ k' = k + 1 /\ UNCHANGED <<prog, labels, bi, phase>>
      /\ \/ Body[k].kind = "branch" /\ blks' = Branched(<<>>, "BLT", k, Stmt.label)
         \/ Body[k].kind = "jump" /\ blks' = Branched(<<>>, "J", k, Stmt.label)
  BY DEF Branch, Jump, At, NewBlock, Body, Stmt
<1>3. Stmt.label \in Labels /\ Stmt.label # NoLabel
  BY <1>1, <1>2, TypeFacts, LabelsAssumption DEF Body, Statement
<1>4. CASE Body[k].kind = "branch"
  <2>1. blks' = Branched(<<>>, "BLT", k, Stmt.label)
    BY <1>2, <1>4
  <2>. QED  BY <1>2, <1>3, <1>4, <2>1, NoInsns, BranchAdvances
<1>5. CASE Body[k].kind = "jump"
  <2>1. blks' = Branched(<<>>, "J", k, Stmt.label)
    BY <1>2, <1>5
  <2>. QED  BY <1>2, <1>3, <1>5, <2>1, NoInsns, BranchAdvances
<1>. QED  BY <1>2, <1>4, <1>5

LEMMA LabelTold == ASSUME Inv, Told, Label PROVE Told'
<1>. DEFINE n == Len(blks)
<1>1. TypeOK /\ Legal
  BY DEF Inv, BlockInv
<1>2. /\ phase = "parse" /\ k \in DOMAIN Body /\ Body[k].kind = "label"
      /\ UNCHANGED <<prog, bi, phase>> /\ k' = k + 1 /\ cur' = Len(blks')
      /\ labels' = Append(labels, [id |-> Body[k].label, b |-> cur'])
      /\ blks' = IF blks[cur].insns = <<>> THEN blks ELSE Branched(<<>>, "J", 0, NoLabel)
  BY DEF Label, At, Stmt, Body
<1>3. /\ n \in Nat /\ n >= 1 /\ DOMAIN blks = 1 .. n /\ cur = n /\ k \in Nat /\ Last = blks[n]
      /\ blks[n] \in Block /\ 0 \in Nat /\ 0 \in {0, k}
  BY <1>1, <1>2, BodyFacts DEF TypeOK, Last
<1>4. Body[k].label \in Labels
  BY <1>1, <1>2, TypeFacts DEF Statement, Body
<1>5. CASE blks[n].insns # <<>>
  <2>1. blks' = Branched(<<>>, "J", 0, NoLabel)
    BY <1>2, <1>3, <1>5
  <2>2. IsBranched(blks', <<>>, "J", 0, NoLabel)
    BY <1>1, <1>2, <1>3, <2>1, NoInsns, BranchedFacts
  <2>3. labels' = Append(labels, [id |-> Body[k].label, b |-> n + 1])
    BY <1>2, <2>2 DEF IsBranched
  <2>. QED  BY <1>2, <1>3, <1>5, <2>1, <2>3, NoInsns, BranchAdvances
<1>6. CASE blks[n].insns = <<>>
  <2>1. blks' = blks /\ labels' = Append(labels, [id |-> Body[k].label, b |-> n])
    BY <1>2, <1>3, <1>6
  <2>2. blks[n].stmt = 0
    BY <1>2, <1>3 DEF Told, InProgress
  <2>3. CodeOf(blks[n]) = <<>> /\ Grown(CodeOf(blks[n]), CodeOf(blks[n]), k)
    <3>1. /\ CodeOf(blks[n]) \in Seq(Nat)
          /\ Len(CodeOf(blks[n])) = Len(blks[n].insns) + (IF blks[n].stmt = 0 THEN 0 ELSE 1)
      BY <1>3, CodeFacts
    <3>2. Len(CodeOf(blks[n])) = 0
      BY <1>6, <2>2, <3>1
    <3>3. CodeOf(blks[n]) = <<>>
      BY <3>1, <3>2, EmptySeq
    <3>. HIDE DEF n
    <3>4. PICK p : p = CodeOf(blks[n])
      OBVIOUS
    <3>5. p \in Seq(Nat) /\ Len(p) = 0
      BY <3>1, <3>2, <3>4
    <3>6. Grown(p, p, k)
      BY <3>5 DEF Grown
    <3>. QED  BY <3>3, <3>4, <3>6
  <2>4. /\ DOMAIN labels' = 1 .. Len(labels) + 1
        /\ \A j \in DOMAIN labels : labels'[j] = labels[j]
        /\ labels'[Len(labels) + 1] = [id |-> Body[k].label, b |-> n]
    BY <1>1, <1>3, <1>4, <2>1, AppendedLabel
  <2>. HIDE DEF n
  <2>5. n \in Nat /\ DOMAIN blks = 1 .. n /\ n = Len(blks) /\ n = Len(blks') /\ DOMAIN blks' = 1 .. n
    BY <1>3, <2>1 DEF n
  <2>. HIDE DEF n
  <2>9. blks' = blks
    BY <2>1
  <2>10. n # n + 1
    BY <2>5
  <2>7. /\ n # n + 1 /\ blks'[n] = blks[n] /\ \A b \in 1 .. n - 1 : blks'[b] = blks[b]
    BY <2>9, <2>10
  <2>8. phase' = "parse" /\ prog' = prog /\ bi' = bi
    BY <1>2
  <2>6. Advance(n, n)
    BY <1>2, <2>2, <2>3, <2>4, <2>5, <2>7, <2>8 DEF Advance
  <2>. QED  BY <2>6, AdvanceTold
<1>. QED  BY <1>5, <1>6

-----------------------------------------------------------------------------
(* finish_function() changes no code.                                       *)
LEMMA SameTold ==
  ASSUME Inv, Told, phase # "parse", phase' # "parse", phase # "aborted",
         UNCHANGED <<prog, k, labels>>, DOMAIN blks' = DOMAIN blks, Len(blks') = Len(blks),
         \A b \in DOMAIN blks :
           /\ blks'[b].insns = blks[b].insns /\ blks'[b].stmt = blks[b].stmt
           /\ blks'[b].btype = blks[b].btype /\ blks'[b].to = blks[b].to
  PROVE  Blocks' /\ Finished' /\ InProgress' /\ Covered' /\ LabelsLead'
<1>1. TypeOK /\ Legal
  BY DEF Inv, BlockInv
<1>2. Blocks /\ Finished /\ Covered /\ LabelsLead /\ DOMAIN blks = 1 .. Len(blks)
  BY <1>1, BodyFacts DEF Told
<1>3. Body' = Body /\ k' = k /\ labels' = labels /\ Closed' = Closed /\ Closed = DOMAIN blks
  BY <1>2 DEF Body, Closed
<1>4. ASSUME NEW b \in DOMAIN blks PROVE CodeOf(blks'[b]) = CodeOf(blks[b])
  BY DEF CodeOf
<1>5. Blocks'
  BY <1>2, <1>3, <1>4 DEF Blocks
<1>6. \A b \in DOMAIN blks : EndsWell(Body, blks[b]) => EndsWell(Body, blks'[b])
  BY <1>4 DEF EndsWell
<1>7. Finished'
  BY <1>2, <1>3, <1>4, <1>6 DEF Finished
<1>8. Covered'
  <2>1. ASSUME NEW j \in Stops(Body), j < k
        PROVE  \E b \in DOMAIN blks : \E i \in 1 .. Len(CodeOf(blks'[b])) : CodeOf(blks'[b])[i] = j
    <3>1. PICK b \in DOMAIN blks : \E i \in 1 .. Len(CodeOf(blks[b])) : CodeOf(blks[b])[i] = j
      BY <1>2, <2>1 DEF Covered
    <3>. QED  BY <1>4, <3>1
  <2>. QED  BY <1>3, <2>1 DEF Covered
<1>9. LabelsLead'
  <2>1. \A j \in DOMAIN labels : labels[j].b \in DOMAIN blks
    BY <1>2 DEF Inv, NameInv, Labelled
  <2>2. \A j \in DOMAIN labels : CodeOf(blks'[labels[j].b]) = CodeOf(blks[labels[j].b])
    BY <1>4, <2>1
  <2>. QED  BY <1>2, <1>3, <2>2 DEF LabelsLead
<1>. QED  BY <1>5, <1>7, <1>8, <1>9 DEF InProgress

LEMMA CloseTold == ASSUME Inv, Told, Close PROVE Told'
<1>. DEFINE n == Len(blks)
<1>1. TypeOK /\ Legal /\ BlockInv /\ NameInv
  BY DEF Inv, BlockInv
<1>2. /\ phase = "parse" /\ phase' = "resolve" /\ Last.insns = <<>>
      /\ UNCHANGED <<prog, k, labels, bi>>
  BY DEF Close, EndOfBody, Rejected
<1>3. /\ n > 1 /\ Len(blks') = n - 1 /\ DOMAIN blks' = 1 .. n - 1
      /\ \A b \in 1 .. n - 1 : b \in 1 .. n /\ blks'[b] = blks[b]
  BY <1>1, CloseFacts
<1>4. n \in Nat /\ DOMAIN blks = 1 .. n /\ Last = blks[n] /\ blks[n] \in Block
  BY <1>1, <1>3, BodyFacts DEF Last
<1>5. /\ Blocks /\ Finished /\ InProgress /\ Covered /\ LabelsLead
  BY <1>2 DEF Told
<1>6. Body' = Body /\ k' = k /\ labels' = labels /\ Closed = 1 .. n - 1 /\ Closed' = 1 .. n - 1
  BY <1>2, <1>3 DEF Body, Closed
<1>7. CodeOf(blks[n]) = <<>>
  <2>1. blks[n].stmt = 0 /\ blks[n].insns = <<>>
    BY <1>2, <1>4, <1>5 DEF InProgress
  <2>2. /\ CodeOf(blks[n]) \in Seq(Nat)
        /\ Len(CodeOf(blks[n])) = Len(blks[n].insns) + (IF blks[n].stmt = 0 THEN 0 ELSE 1)
    BY <1>4, CodeFacts
  <2>3. Len(CodeOf(blks[n])) = 0
    BY <2>1, <2>2
  <2>. QED  BY <2>2, <2>3, EmptySeq
<1>8. bi = 1
  BY <1>1, <1>2 DEF BlockInv, Open
<1>9. Blocks'
  BY <1>3, <1>4, <1>5, <1>6 DEF Blocks
<1>10. Finished'
  BY <1>3, <1>4, <1>5, <1>6 DEF Finished
<1>11. Covered'
  <2>1. ASSUME NEW j \in Stops(Body), j < k
        PROVE  \E b \in 1 .. n - 1 : \E i \in 1 .. Len(CodeOf(blks'[b])) : CodeOf(blks'[b])[i] = j
    <3>1. PICK b \in 1 .. n : \E i \in 1 .. Len(CodeOf(blks[b])) : CodeOf(blks[b])[i] = j
      BY <1>4, <1>5, <2>1 DEF Covered
    <3>2. b # n
      <4>1. Len(<<>>) = 0
        OBVIOUS
      <4>. QED  BY <1>7, <3>1, <4>1
    <3>. HIDE DEF n
    <3>3. b \in 1 .. n - 1
      BY <1>4, <3>2
    <3>. QED  BY <1>3, <3>1, <3>3
  <2>. QED  BY <1>3, <1>6, <2>1 DEF Covered
<1>12. LabelsLead'
  <2>1. Inv'
    BY CloseStep
  <2>2. \A j \in DOMAIN labels : labels[j].b \in 1 .. n - 1
    BY <1>2, <1>3, <2>1 DEF Inv, NameInv, Labelled
  <2>3. \A j \in DOMAIN labels : blks'[labels[j].b] = blks[labels[j].b]
    BY <1>3, <2>2
  <2>. QED  BY <1>5, <1>6, <2>3 DEF LabelsLead
<1>13. Resolved'
  <2>1. \A b \in 1 .. n - 1 : ~(b < 1)
    BY <1>4
  <2>. QED  BY <1>2, <1>3, <1>8, <2>1 DEF Resolved
<1>14. InProgress'
  BY <1>2 DEF InProgress
<1>. QED  BY <1>9, <1>10, <1>11, <1>12, <1>13, <1>14 DEF Told

LEMMA SkipTold == ASSUME Inv, Told, SkipBlock PROVE Told'
<1>1. TypeOK /\ Legal
  BY DEF Inv, BlockInv
<1>2. /\ phase = "resolve" /\ bi \in DOMAIN blks /\ blks[bi].to = NoLabel /\ bi' = bi + 1
      /\ UNCHANGED <<prog, k, blks, labels, phase>>
  BY DEF SkipBlock, Resolving
<1>3. Blocks' /\ Finished' /\ InProgress' /\ Covered' /\ LabelsLead'
  BY <1>2, SameTold
<1>4. DOMAIN blks = 1 .. Len(blks) /\ Len(blks) \in Nat
  BY <1>1, BodyFacts
<1>5. ASSUME NEW b \in DOMAIN blks, b < bi + 1, blks[b].to # NoLabel PROVE b < bi
  BY <1>2, <1>4, <1>5
<1>6. Resolved'
  BY <1>2, <1>5 DEF Resolved, Told
<1>. QED  BY <1>3, <1>6 DEF Told

LEMMA ResolveTold == ASSUME Inv, Told, Resolve PROVE Told'
<1>1. TypeOK /\ Legal
  BY DEF Inv, BlockInv
<1>2. PICK j \in DOMAIN labels :
        /\ phase = "resolve" /\ bi \in DOMAIN blks /\ blks[bi].to # NoLabel /\ bi' = bi + 1
        /\ labels[j].id = blks[bi].to
        /\ \A h \in 1 .. j - 1 : labels[h].id # blks[bi].to
        /\ UNCHANGED <<prog, k, cur, labels, phase>>
        /\ blks' = [blks EXCEPT ![bi].s2 = labels[j].b]
  BY DEF Resolve, Resolving
<1>3. /\ DOMAIN blks = 1 .. Len(blks) /\ Len(blks) \in Nat /\ blks \in Seq(Block)
      /\ \A b \in 1 .. Len(blks) : blks[b] \in Block
      /\ labels[j].b \in Nat
  BY <1>1, <1>2, TypeFacts DEF TypeOK
<1>. PICK d : d = [blks[bi] EXCEPT !.s2 = labels[j].b]
  OBVIOUS
<1>4. /\ d \in Block /\ d.insns = blks[bi].insns /\ d.stmt = blks[bi].stmt
      /\ d.btype = blks[bi].btype /\ d.to = blks[bi].to /\ d.s2 = labels[j].b
  BY <1>2, <1>3 DEF Block
<1>5. PICK q : q = [blks EXCEPT ![bi] = d]
  OBVIOUS
<1>6. blks' = q
  BY <1>2, <1>3, <1>5
<1>7. /\ q \in Seq(Block) /\ Len(q) = Len(blks)
      /\ \A b \in 1 .. Len(blks) : q[b] = IF b = bi THEN d ELSE blks[b]
  BY <1>2, <1>3, <1>4, <1>5, ExceptSeq
<1>8. DOMAIN q = 1 .. Len(q)
  BY <1>7, LenProperties
<1>9. /\ DOMAIN blks' = DOMAIN blks /\ Len(blks') = Len(blks)
      /\ \A b \in DOMAIN blks :
           /\ blks'[b].insns = blks[b].insns /\ blks'[b].stmt = blks[b].stmt
           /\ blks'[b].btype = blks[b].btype /\ blks'[b].to = blks[b].to
  BY <1>3, <1>4, <1>6, <1>7, <1>8
<1>10. /\ phase # "parse" /\ phase' # "parse" /\ phase # "aborted" /\ UNCHANGED <<prog, k, labels>>
  BY <1>2
<1>11. Blocks' /\ Finished' /\ InProgress' /\ Covered' /\ LabelsLead'
  BY <1>9, <1>10, SameTold
<1>12. Resolved'
  <2>1. ASSUME NEW b \in DOMAIN blks, b < bi + 1, blks'[b].to # NoLabel
        PROVE  \E i \in DOMAIN labels :
                 FirstEntry(labels, i) /\ labels[i].id = blks'[b].to /\ blks'[b].s2 = labels[i].b
    <3>1. CASE b = bi
      <4>1. blks'[b].to = blks[bi].to /\ blks'[b].s2 = labels[j].b
        BY <1>3, <1>4, <1>6, <1>7, <3>1
      <4>2. FirstEntry(labels, j)
        BY <1>2 DEF FirstEntry
      <4>. QED  BY <1>2, <4>1, <4>2
    <3>2. CASE b # bi
      <4>1. b < bi /\ blks'[b] = blks[b]
        BY <1>2, <1>3, <1>6, <1>7, <2>1, <3>2
      <4>. QED  BY <1>10, <2>1, <4>1 DEF Told, Resolved
    <3>. QED  BY <3>1, <3>2
  <2>. QED  BY <1>2, <1>9, <1>10, <2>1 DEF Resolved
<1>. QED  BY <1>11, <1>12 DEF Told

LEMMA FinishTold == ASSUME Inv, Told, Finish PROVE Told'
<1>1. /\ phase = "resolve" /\ phase' = "done" /\ UNCHANGED <<prog, k, blks, labels, bi>>
  BY DEF Finish
<1>2. Blocks' /\ Finished' /\ InProgress' /\ Covered' /\ LabelsLead'
  BY <1>1, SameTold
<1>3. Resolved'
  BY <1>1 DEF Resolved, Told
<1>. QED  BY <1>2, <1>3 DEF Told

LEMMA ToldInit == Init => Told
<1>. SUFFICES ASSUME Init PROVE Told
  OBVIOUS
<1>1. Inv /\ TypeOK /\ Legal
  BY InvInit DEF Inv, BlockInv
<1>. DEFINE c == blks[1]
            p == CodeOf(c)
<1>2. /\ phase = "parse" /\ k = 1 /\ labels = <<>> /\ Len(blks) = 1 /\ DOMAIN blks = {1} /\ Last = c
      /\ c = [EmptyBlock EXCEPT !.insns = [j \in 1 .. prog.params |-> Insn("param", 0)]]
  BY DEF Init, Last
<1>3. c.stmt = 0 /\ c.insns = [j \in 1 .. prog.params |-> Insn("param", 0)] /\ c \in Block
  <2>1. c \in Block
    BY <1>1, <1>2, TypeFacts
  <2>. QED  BY <1>2, <2>1 DEF EmptyBlock
<1>4. \A i \in DOMAIN c.insns : c.insns[i].stmt = 0
  <2>1. Insn("param", 0).stmt = 0
    BY DEF Insn
  <2>. QED  BY <1>3, <2>1
<1>5. /\ p \in Seq(Nat) /\ Len(p) = Len(c.insns) + (IF c.stmt = 0 THEN 0 ELSE 1)
      /\ Len(c.insns) \in Nat
      /\ \A i \in 1 .. Len(c.insns) : p[i] = c.insns[i].stmt
  BY <1>3, CodeFacts
<1>6. c.insns \in Seq(Insns)
  BY <1>3 DEF Block
<1>7. DOMAIN c.insns = 1 .. Len(c.insns)
  BY <1>6, LenProperties
<1>. HIDE DEF p, c
<1>8. Len(p) \in Nat /\ \A i \in 1 .. Len(p) : p[i] = 0
  <2>2. c.stmt = 0
    BY <1>3
  <2>3. Len(p) = Len(c.insns) + 0
    BY <1>5, <2>2
  <2>4. Len(c.insns) \in Nat
    BY <1>5
  <2>5. \A m \in Nat : m + 0 = m
    OBVIOUS
  <2>6. Len(c.insns) + 0 = Len(c.insns)
    BY <2>4, <2>5
  <2>1. Len(p) = Len(c.insns)
    BY <2>3, <2>6
  <2>. QED  BY <1>4, <1>5, <1>7, <2>1
<1>9. Tells(Body, p, k)
  <2>1. \A i \in 1 .. Len(p) - 1 : i \in 1 .. Len(p) /\ i + 1 \in 1 .. Len(p)
    BY <1>8
  <2>. QED  BY <1>8, <2>1 DEF Tells
<1>10. p # <<>> => Ending(p) = k - 1
  <2>1. p # <<>> => Len(p) # 0
    BY <1>5, EmptySeq
  <2>2. p # <<>> => Len(p) \in 1 .. Len(p)
    BY <1>8, <2>1
  <2>. QED  BY <1>2, <1>8, <2>2 DEF Ending
<1>11. Blocks
  BY <1>2, <1>9 DEF Blocks, p, c
<1>12. Closed = {}
  BY <1>2 DEF Closed
<1>13. Finished /\ LabelsLead /\ Resolved
  <2>1. DOMAIN labels = {}
    BY <1>2
  <2>. QED  BY <1>2, <1>12, <2>1 DEF Finished, LabelsLead, Resolved
<1>14. InProgress
  BY <1>2, <1>3, <1>10 DEF InProgress, p
<1>15. Covered
  <2>1. \A j \in Stops(Body) : ~(j < 1)
    BY <1>1, BodyFacts
  <2>. QED  BY <1>2, <2>1 DEF Covered
<1>. QED  BY <1>11, <1>13, <1>14, <1>15 DEF Told

LEMMA ToldStep == Inv /\ Told /\ [Next]_vars => Told'
<1>. SUFFICES ASSUME Inv, Told, [Next]_vars PROVE Told'
  OBVIOUS
<1>1. CASE Reject \/ NoSuchLabel
  BY <1>1 DEF Reject, NoSuchLabel, Told
<1>2. CASE UNCHANGED vars
  <2>1. Closed' = Closed /\ Last' = Last /\ Body' = Body
    BY <1>2 DEF vars, Closed, Last, Body
  <2>. QED  BY <1>2, <2>1 DEF vars, Told, Blocks, Finished, InProgress, Covered, LabelsLead, Resolved
<1>. QED  BY <1>1, <1>2, PlainTold, CallTold, JumpTold, ReturnTold, LabelTold, CloseTold, SkipTold,
             ResolveTold, FinishTold DEF Next

-----------------------------------------------------------------------------
(* The control flow of the finished function.                               *)
LEMMA FromIs ==
  ASSUME TypeOK, Legal, NEW x, NEW h \in Nat, IsFrom(Body, x, h) PROVE From(h) = x
<1>1. Positions = Stops(Body) /\ Stops(Body) \subseteq Nat
  BY BodyFacts DEF Positions, Stops, Body
<1>2. x \in Positions /\ x >= h /\ \A g \in Positions : g >= h => x <= g
  BY <1>1 DEF IsFrom
<1>3. ASSUME NEW y \in Positions, y >= h, \A g \in Positions : g >= h => y <= g PROVE y = x
  BY <1>1, <1>2, <1>3
<1>. QED  BY <1>2, <1>3 DEF From

\* what Told says when the function is finished
Complete ==
  /\ TypeOK /\ Legal /\ phase = "done"
  /\ k = Len(Body) + 1 /\ k \in Nat /\ Stops(Body) \subseteq Nat \ {0} /\ Positions = Stops(Body)
  /\ \A j \in Positions : j < k
  /\ DOMAIN blks = 1 .. Len(blks) /\ Len(blks) \in Nat
  /\ \A b \in DOMAIN blks :
       /\ b < bi /\ blks[b] \in Block /\ blks[b].btype \in {"BLT", "J", "RET"}
       /\ Tells(Body, CodeOf(blks[b]), k) /\ EndsWell(Body, blks[b])
       /\ CodeOf(blks[b]) \in Seq(Nat) /\ Len(CodeOf(blks[b])) \in Nat /\ Len(CodeOf(blks[b])) >= 1
       /\ blks[b].btype # "RET" =>
            /\ b + 1 \in DOMAIN blks /\ blks[b].s1 = b + 1
            /\ Starts(Body, CodeOf(blks[b + 1]), Ending(CodeOf(blks[b])) + 1, k)
            /\ blks[b].to = NoLabel => blks[b].s2 = b + 1

LEMMA DoneFacts == ASSUME Inv, Told, phase = "done" PROVE Complete
<1>1. TypeOK /\ Legal /\ BlockInv /\ NameInv /\ Blocks /\ Finished
  BY DEF Inv, BlockInv, Told
<1>2. /\ Stops(Body) \subseteq Nat \ {0} /\ DOMAIN Body = 1 .. Len(Body) /\ Len(Body) \in Nat /\ k \in Nat
      /\ Stops(Body) \subseteq DOMAIN Body /\ DOMAIN blks = 1 .. Len(blks) /\ Len(blks) \in Nat
      /\ \A b \in 1 .. Len(blks) : blks[b] \in Block
  BY <1>1, BodyFacts
<1>3. k = Len(Body) + 1
  <2>1. k \in 1 .. Len(Body) + 1 /\ k \notin DOMAIN Body
    BY <1>1 DEF TypeOK, NameInv, Names, Body
  <2>. QED  BY <1>2, <2>1
<1>4. Positions = Stops(Body) /\ \A j \in Positions : j < k
  <2>1. Positions = Stops(Body)
    BY DEF Positions, Stops, Body
  <2>. QED  BY <1>2, <1>3, <2>1
<1>5. \A b \in DOMAIN blks : b < bi
  <2>1. bi \in 1 .. Len(blks) + 1 /\ bi \notin DOMAIN blks
    BY <1>1 DEF TypeOK, NameInv, Ended
  <2>. QED  BY <1>2, <2>1
<1>6. Closed = DOMAIN blks
  BY <1>2 DEF Closed
<1>7. ASSUME NEW b \in DOMAIN blks
      PROVE  /\ blks[b].btype \in {"BLT", "J", "RET"}
             /\ Tells(Body, CodeOf(blks[b]), k) /\ EndsWell(Body, blks[b])
             /\ CodeOf(blks[b]) \in Seq(Nat) /\ Len(CodeOf(blks[b])) \in Nat /\ Len(CodeOf(blks[b])) >= 1
             /\ blks[b].btype # "RET" =>
                  /\ b + 1 \in DOMAIN blks /\ blks[b].s1 = b + 1
                  /\ Starts(Body, CodeOf(blks[b + 1]), Ending(CodeOf(blks[b])) + 1, k)
                  /\ blks[b].to = NoLabel => blks[b].s2 = b + 1
  <2>1. /\ blks[b].btype # "ADD"
        /\ blks[b].btype # "RET" => b < Len(blks) /\ blks[b].s1 = b + 1
        /\ blks[b].btype # "RET" /\ blks[b].to = NoLabel => blks[b].s2 = b + 1
    BY <1>1, <1>6 DEF BlockInv, Settled
  <2>2. blks[b].btype \in {"BLT", "J", "RET"}
    BY <1>2, <2>1 DEF Block
  <2>3. CodeOf(blks[b]) \in Seq(Nat)
    BY <1>2, CodeFacts
  <2>4. Tells(Body, CodeOf(blks[b]), k) /\ EndsWell(Body, blks[b])
    BY <1>1, <1>6 DEF Blocks, Finished
  <2>5. Len(CodeOf(blks[b])) \in Nat /\ Len(CodeOf(blks[b])) # 0
    BY <2>3, <2>4, EmptySeq, LenProperties DEF EndsWell
  <2>6. blks[b].btype # "RET" => b + 1 \in DOMAIN blks
    BY <1>2, <2>1
  <2>7. b + 1 \in DOMAIN blks => Starts(Body, CodeOf(blks[b + 1]), Ending(CodeOf(blks[b])) + 1, k)
    BY <1>1, <1>6 DEF Finished
  <2>. QED  BY <2>1, <2>2, <2>3, <2>4, <2>5, <2>6, <2>7
<1>. QED  BY <1>1, <1>2, <1>3, <1>4, <1>5, <1>7 DEF Complete

LEMMA LeadsTo ==
  ASSUME Complete, NEW c \in DOMAIN blks, NEW h \in Nat, Starts(Body, CodeOf(blks[c]), h, k)
  PROVE  From(h) = CodeOf(blks[c])[1]
<1>1. TypeOK /\ Legal /\ CodeOf(blks[c]) # <<>>
  BY DEF Complete, EndsWell
<1>2. IsFrom(Body, CodeOf(blks[c])[1], h)
  BY <1>1 DEF Starts
<1>. QED  BY <1>1, <1>2, FromIs

(* A branch leads to the block that starts at its label.                    *)
LEMMA TargetIs ==
  ASSUME Inv, Told, Complete, NEW b \in DOMAIN blks, blks[b].to # NoLabel
  PROVE  blks[b].s2 \in DOMAIN blks /\ Target(blks[b].to) = CodeOf(blks[blks[b].s2])[1]
<1>1. /\ TypeOK /\ Legal /\ phase = "done" /\ b < bi /\ k = Len(Body) + 1 /\ k \in Nat
      /\ DOMAIN blks = 1 .. Len(blks) /\ DOMAIN Body = 1 .. Len(Body) /\ Len(Body) \in Nat
  BY BodyFacts DEF Complete
<1>2. PICK j \in DOMAIN labels :
        FirstEntry(labels, j) /\ labels[j].id = blks[b].to /\ blks[b].s2 = labels[j].b
  BY <1>1 DEF Told, Resolved
<1>3. labels[j].b \in DOMAIN blks
  BY <1>1, <1>2 DEF Inv, NameInv, Labelled
<1>4. /\ \E h \in 1 .. k - 1 : Body[h].kind = "label" /\ Body[h].label = labels[j].id
      /\ \A h \in 1 .. k - 1 :
           FirstOf(Body, h) /\ Body[h].label = labels[j].id /\ FirstEntry(labels, j) =>
             Starts(Body, CodeOf(blks[labels[j].b]), h, k)
  BY <1>1, <1>2 DEF Told, LabelsLead
<1>. DEFINE l == labels[j].id
            H == {h \in 1 .. k - 1 : Body[h].kind = "label" /\ Body[h].label = l}
<1>5. H \in SUBSET Nat /\ H # {}
  BY <1>1, <1>4
<1>6. PICK h \in H : \A g \in H : h <= g
  BY <1>5, LeastOf
<1>7. h \in 1 .. k - 1 /\ Body[h].kind = "label" /\ Body[h].label = l /\ h \in DOMAIN Body
  BY <1>1, <1>6
<1>8. ASSUME NEW g \in 1 .. h - 1, Body[g].kind = "label" PROVE Body[g].label # l
  <2>. SUFFICES ASSUME Body[g].label = l PROVE FALSE
    OBVIOUS
  <2>1. g \in H
    BY <1>1, <1>7, <1>8
  <2>. QED  BY <1>1, <1>6, <1>7, <2>1
<1>9. FirstOf(Body, h)
  BY <1>7, <1>8 DEF FirstOf
<1>10. Starts(Body, CodeOf(blks[labels[j].b]), h, k)
  BY <1>2, <1>4, <1>7, <1>9
<1>11. From(h) = CodeOf(blks[labels[j].b])[1]
  <2>1. h \in Nat
    BY <1>5
  <2>. QED  BY <1>3, <1>10, <2>1, LeadsTo
<1>12. ASSUME NEW g \in DOMAIN prog.body, prog.body[g].kind = "label" /\ prog.body[g].label = l,
              \A i \in 1 .. g - 1 : prog.body[i].kind = "label" => prog.body[i].label # l
       PROVE  g = h
  <2>1. g \in H
    BY <1>1, <1>12 DEF Body
  <2>2. ~(h < g)
    <3>. SUFFICES ASSUME h < g PROVE FALSE
      OBVIOUS
    <3>1. h \in 1 .. g - 1
      BY <1>1, <1>7, <1>12 DEF Body
    <3>. QED  BY <1>7, <1>12, <3>1 DEF Body
  <2>3. h <= g
    BY <1>6, <2>1
  <2>. QED  BY <1>1, <1>7, <1>12, <2>2, <2>3 DEF Body
<1>. HIDE DEF H
<1>13. Target(l) = From(h)
  <2>. DEFINE P(g) == /\ prog.body[g].kind = "label" /\ prog.body[g].label = l
                      /\ \A i \in 1 .. g - 1 : prog.body[i].kind = "label" => prog.body[i].label # l
  <2>1. h \in DOMAIN prog.body /\ P(h)
    BY <1>7, <1>8 DEF Body
  <2>2. \A g \in DOMAIN prog.body : P(g) => g = h
    BY <1>12
  <2>3. (CHOOSE g \in DOMAIN prog.body : P(g)) = h
    <3>. HIDE DEF P
    <3>. QED  BY <2>1, <2>2
  <2>. QED  BY <2>3 DEF Target
<1>. QED  BY <1>2, <1>3, <1>11, <1>13

(* Where a block goes on is where its last statement does.                  *)
LEMMA GoesOn ==
  ASSUME Inv, Told, Complete, NEW b \in DOMAIN blks, NEW x, x = Ending(CodeOf(blks[b])), x # 0
  PROVE  x \in Positions /\ {CodeOf(blks[c])[1] : c \in Targets(b)} = Follows(x)
<1>1. /\ TypeOK /\ Legal /\ Positions = Stops(Body) /\ Stops(Body) \subseteq Nat \ {0}
      /\ EndsWell(Body, blks[b]) /\ Tells(Body, CodeOf(blks[b]), k)
      /\ Len(CodeOf(blks[b])) \in Nat /\ Len(CodeOf(blks[b])) >= 1
      /\ blks[b].btype \in {"BLT", "J", "RET"}
  BY DEF Complete
<1>2. x \in Positions /\ x \in Nat
  <2>1. Len(CodeOf(blks[b])) \in 1 .. Len(CodeOf(blks[b]))
    BY <1>1
  <2>. QED  BY <1>1, <2>1 DEF Tells, Ending
<1>3. ASSUME blks[b].btype # "RET"
      PROVE  /\ blks[b].s1 = b + 1 /\ CodeOf(blks[b + 1])[1] = From(x + 1)
             /\ blks[b].to = NoLabel => blks[b].s2 = b + 1
  <2>1. /\ b + 1 \in DOMAIN blks /\ blks[b].s1 = b + 1
        /\ Starts(Body, CodeOf(blks[b + 1]), x + 1, k)
        /\ blks[b].to = NoLabel => blks[b].s2 = b + 1
    BY <1>3 DEF Complete
  <2>2. x + 1 \in Nat
    BY <1>2
  <2>3. From(x + 1) = CodeOf(blks[b + 1])[1]
    BY <2>1, <2>2, LeadsTo
  <2>. QED  BY <2>1, <2>3
<1>4. Body[x] \in Statement
  BY <1>1, <1>2, TypeFacts DEF Stops, Body
<1>5. CASE blks[b].btype = "RET"
  <2>1. Body[x].kind = "return"
    BY <1>1, <1>5 DEF EndsWell
  <2>. QED  BY <1>2, <1>5, <2>1 DEF Targets, Follows, Body
<1>6. CASE blks[b].btype = "BLT"
  <2>1. Body[x].kind = "branch" /\ blks[b].to = Body[x].label
    BY <1>1, <1>6 DEF EndsWell
  <2>2. blks[b].to # NoLabel
    BY <1>4, <2>1, LabelsAssumption DEF Statement
  <2>3. Target(Body[x].label) = CodeOf(blks[blks[b].s2])[1]
    BY <2>1, <2>2, TargetIs
  <2>4. Targets(b) = {b + 1, blks[b].s2}
    BY <1>3, <1>6 DEF Targets
  <2>5. Follows(x) = {From(x + 1), Target(Body[x].label)}
    BY <2>1 DEF Follows, Body
  <2>. QED  BY <1>2, <1>3, <1>6, <2>3, <2>4, <2>5
<1>7. CASE blks[b].btype = "J" /\ blks[b].to # NoLabel
  <2>1. Body[x].kind = "jump" /\ blks[b].to = Body[x].label
    BY <1>1, <1>7 DEF EndsWell
  <2>2. Target(Body[x].label) = CodeOf(blks[blks[b].s2])[1]
    BY <1>7, <2>1, TargetIs
  <2>3. Targets(b) = {blks[b].s2} /\ Follows(x) = {Target(Body[x].label)}
    BY <1>7, <2>1 DEF Targets, Follows, Body
  <2>. QED  BY <1>2, <2>2, <2>3
<1>8. CASE blks[b].btype = "J" /\ blks[b].to = NoLabel
  <2>1. Body[x].kind \in {"op", "call"}
    BY <1>1, <1>8 DEF EndsWell
  <2>2. Targets(b) = {b + 1}
    BY <1>3, <1>8 DEF Targets
  <2>3. Follows(x) = {From(x + 1)}
    BY <2>1 DEF Follows, Body
  <2>. QED  BY <1>2, <1>3, <1>8, <2>2, <2>3
<1>. QED  BY <1>1, <1>5, <1>6, <1>7, <1>8

\* Flow, pair by pair
Runs(x, y) ==
  \E b \in DOMAIN blks :
    \/ \E j \in 1 .. Len(CodeOf(blks[b])) - 1 : x = CodeOf(blks[b])[j] /\ y = CodeOf(blks[b])[j + 1]
    \/ x = Ending(CodeOf(blks[b])) /\ y \in {CodeOf(blks[c])[1] : c \in Targets(b)}

LEMMA FlowIs == \A p : p \in Flow <=> \E x, y : p = <<x, y>> /\ Runs(x, y)
<1>1. \A b : Code(b) = CodeOf(blks[b])
  BY DEF Code, CodeOf
<1>2. \A b : Code(b)[Len(Code(b))] = Ending(CodeOf(blks[b]))
  BY <1>1 DEF Ending
<1>3. ASSUME NEW p \in Flow PROVE \E x, y : p = <<x, y>> /\ Runs(x, y)
  <2>1. PICK b \in DOMAIN blks :
          \/ \E j \in 1 .. Len(Code(b)) - 1 : p = <<Code(b)[j], Code(b)[j + 1]>>
          \/ \E c \in Targets(b) : p = <<Code(b)[Len(Code(b))], Code(c)[1]>>
    BY DEF Flow
  <2>2. CASE \E j \in 1 .. Len(Code(b)) - 1 : p = <<Code(b)[j], Code(b)[j + 1]>>
    <3>1. PICK j \in 1 .. Len(Code(b)) - 1 : p = <<Code(b)[j], Code(b)[j + 1]>>
      BY <2>2
    <3>2. Runs(Code(b)[j], Code(b)[j + 1])
      BY <1>1 DEF Runs
    <3>. QED  BY <3>1, <3>2
  <2>3. CASE \E c \in Targets(b) : p = <<Code(b)[Len(Code(b))], Code(c)[1]>>
    <3>1. PICK c \in Targets(b) : p = <<Code(b)[Len(Code(b))], Code(c)[1]>>
      BY <2>3
    <3>2. Runs(Code(b)[Len(Code(b))], Code(c)[1])
      BY <1>1, <1>2 DEF Runs
    <3>. QED  BY <3>1, <3>2
  <2>. QED  BY <2>1, <2>2, <2>3
<1>4. ASSUME NEW x, NEW y, Runs(x, y) PROVE <<x, y>> \in Flow
  <2>1. PICK b \in DOMAIN blks :
          \/ \E j \in 1 .. Len(CodeOf(blks[b])) - 1 : x = CodeOf(blks[b])[j] /\ y = CodeOf(blks[b])[j + 1]
          \/ x = Ending(CodeOf(blks[b])) /\ y \in {CodeOf(blks[c])[1] : c \in Targets(b)}
    BY <1>4 DEF Runs
  <2>2. \/ \E j \in 1 .. Len(Code(b)) - 1 : <<x, y>> = <<Code(b)[j], Code(b)[j + 1]>>
        \/ \E c \in Targets(b) : <<x, y>> = <<Code(b)[Len(Code(b))], Code(c)[1]>>
    BY <1>1, <1>2, <2>1
  <2>. QED  BY <2>2 DEF Flow
<1>. QED  BY <1>3, <1>4

(* The finished blocks run the statements in the order of the source        *)
(* (KeepsControlFlow), for functions of any length: finish_function() looks *)
(* labels up by name after the blocks were laid out, and drops one of them. *)
LEMMA FlowKept == Inv /\ Told => KeepsControlFlow
<1>. SUFFICES ASSUME Inv, Told, phase = "done"
              PROVE  {p \in Flow : p[1] # 0 /\ p[1] # p[2]}
                       = UNION {{<<j, h>> : h \in Follows(j) \ {j}} : j \in Positions}
  BY DEF KeepsControlFlow
<1>1. Complete
  BY DoneFacts
<1>2. /\ Positions = Stops(Body) /\ Stops(Body) \subseteq Nat \ {0} /\ TypeOK /\ Legal
      /\ \A b \in DOMAIN blks :
           /\ Tells(Body, CodeOf(blks[b]), k)
           /\ CodeOf(blks[b]) \in Seq(Nat) /\ Len(CodeOf(blks[b])) \in Nat /\ Len(CodeOf(blks[b])) >= 1
  BY <1>1 DEF Complete
\* within a block
<1>3. ASSUME NEW b \in DOMAIN blks, NEW i \in 1 .. Len(CodeOf(blks[b])) - 1,
             NEW x, x = CodeOf(blks[b])[i], x # 0
      PROVE  /\ x \in Positions
             /\ \/ CodeOf(blks[b])[i + 1] = x /\ x = Ending(CodeOf(blks[b]))
                \/ CodeOf(blks[b])[i + 1] # x /\ Follows(x) = {CodeOf(blks[b])[i + 1]}
  <2>1. i \in 1 .. Len(CodeOf(blks[b])) /\ i + 1 \in 1 .. Len(CodeOf(blks[b]))
    BY <1>2
  <2>2. x \in Stops(Body)
    BY <1>2, <1>3, <2>1 DEF Tells
  <2>3. CASE Body[x].kind # "op"
    BY <1>2, <1>3, <2>1, <2>2, <2>3 DEF Tells
  <2>4. CASE Body[x].kind = "op"
    <3>1. CodeOf(blks[b])[i + 1] = x + 1
      BY <1>2, <1>3, <2>4 DEF Tells
    <3>2. x \in Nat /\ x + 1 # 0 /\ x + 1 # x /\ x + 1 \in Nat
      BY <1>2, <2>2
    <3>3. x + 1 \in Stops(Body)
      BY <1>2, <2>1, <3>1, <3>2 DEF Tells
    <3>4. IsFrom(Body, x + 1, x + 1)
      BY <1>2, <3>2, <3>3 DEF IsFrom
    <3>5. From(x + 1) = x + 1
      BY <1>2, <3>2, <3>4, FromIs
    <3>6. Follows(x) = {From(x + 1)}
      BY <2>4 DEF Follows, Body
    <3>. QED  BY <1>2, <2>2, <3>1, <3>2, <3>5, <3>6
  <2>. QED  BY <2>3, <2>4
<1>4. ASSUME NEW x, NEW y, Runs(x, y), x # 0, x # y PROVE x \in Positions /\ y \in Follows(x)
  <2>1. PICK b \in DOMAIN blks :
          \/ \E j \in 1 .. Len(CodeOf(blks[b])) - 1 : x = CodeOf(blks[b])[j] /\ y = CodeOf(blks[b])[j + 1]
          \/ x = Ending(CodeOf(blks[b])) /\ y \in {CodeOf(blks[c])[1] : c \in Targets(b)}
    BY <1>4 DEF Runs
  <2>2. CASE x = Ending(CodeOf(blks[b])) /\ y \in {CodeOf(blks[c])[1] : c \in Targets(b)}
    BY <1>1, <1>4, <2>2, GoesOn
  <2>3. CASE \E j \in 1 .. Len(CodeOf(blks[b])) - 1 : x = CodeOf(blks[b])[j] /\ y = CodeOf(blks[b])[j + 1]
    <3>1. PICK j \in 1 .. Len(CodeOf(blks[b])) - 1 : x = CodeOf(blks[b])[j] /\ y = CodeOf(blks[b])[j + 1]
      BY <2>3
    <3>2. /\ x \in Positions
          /\ \/ CodeOf(blks[b])[j + 1] = x /\ x = Ending(CodeOf(blks[b]))
             \/ CodeOf(blks[b])[j + 1] # x /\ Follows(x) = {CodeOf(blks[b])[j + 1]}
      BY <1>3, <1>4, <3>1
    <3>3. Follows(x) = {y}
      BY <1>4, <3>1, <3>2
    <3>. QED  BY <3>2, <3>3
  <2>. QED  BY <2>1, <2>2, <2>3
<1>5. ASSUME NEW x \in Positions, NEW y \in Follows(x), y # x PROVE Runs(x, y)
  <2>1. x # 0 /\ x \in Stops(Body) /\ x < k
    BY <1>1, <1>2 DEF Complete
  <2>2. PICK b \in DOMAIN blks : \E i \in 1 .. Len(CodeOf(blks[b])) : CodeOf(blks[b])[i] = x
    BY <2>1 DEF Told, Covered
  <2>3. PICK i \in 1 .. Len(CodeOf(blks[b])) : CodeOf(blks[b])[i] = x
    BY <2>2
  <2>4. CASE x = Ending(CodeOf(blks[b]))
    <3>1. {CodeOf(blks[c])[1] : c \in Targets(b)} = Follows(x)
      BY <1>1, <2>1, <2>4, GoesOn
    <3>. QED  BY <1>5, <2>4, <3>1 DEF Runs
  <2>5. CASE x # Ending(CodeOf(blks[b]))
    <3>1. i \in 1 .. Len(CodeOf(blks[b])) - 1
      BY <1>2, <2>3, <2>5 DEF Ending
    <3>2. Follows(x) = {CodeOf(blks[b])[i + 1]}
      BY <1>3, <2>1, <2>3, <2>5, <3>1
    <3>. QED  BY <1>5, <2>3, <3>1, <3>2 DEF Runs
  <2>. QED  BY <2>4, <2>5
<1>6. ASSUME NEW p, p \in Flow, p[1] # 0, p[1] # p[2]
      PROVE  \E j \in Positions : \E h \in Follows(j) \ {j} : p = <<j, h>>
  <2>1. PICK x, y : p = <<x, y>> /\ Runs(x, y)
    BY <1>6, FlowIs
  <2>2. p[1] = x /\ p[2] = y
    BY <2>1
  <2>3. x \in Positions /\ y \in Follows(x)
    BY <1>4, <1>6, <2>1, <2>2
  <2>. QED  BY <1>6, <2>1, <2>2, <2>3
<1>7. ASSUME NEW j \in Positions, NEW h \in Follows(j) \ {j}, NEW p, p = <<j, h>>
      PROVE  p \in Flow /\ p[1] # 0 /\ p[1] # p[2]
  <2>1. Runs(j, h) /\ j # 0 /\ h # j
    BY <1>2, <1>5
  <2>2. p \in Flow
    BY <1>7, <2>1, FlowIs
  <2>. QED  BY <1>7, <2>1, <2>2
<1>. QED  BY <1>6, <1>7

(* The finished blocks run the statements in the order the source has them: *)
(* wherever statements branch, and however labels follow one another, what  *)
(* runs after a statement is what the source says comes next.               *)
THEOREM ControlFlowKept == Spec => []KeepsControlFlow
<1>1. Spec => [](Inv /\ Told)
  BY InvInit, InvStep, ToldInit, ToldStep, PTL DEF Spec
<1>. QED  BY <1>1, FlowKept, PTL
=============================================================================
