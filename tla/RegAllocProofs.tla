----------------------------- MODULE RegAllocProofs ----------------------------
(***************************************************************************)
(* Theorems about RegAlloc. The inductive invariants, in the order of the   *)
(* file:                                                                    *)
(*                                                                          *)
(*   TypeInv    TypeOK, the shape of the blocks, and that the temporaries   *)
(*              below li have registers;                                    *)
(*   CollectInv what the two loops of build_active_between have collected:  *)
(*              every lifetime they have walked past that is alive with li  *)
(*              (HasSeen), and nothing else (InReach); prev_active is       *)
(*              Closed: it misses only what a hint was given to;            *)
(*   RegInv     registers of two decided lifetimes are Apart, and what was  *)
(*              given from tr_map is not an argument register (Settled);    *)
(*   CodeInv    the rewritten instructions: the call stands at callAt, and  *)
(*              the counters bound every register and slot in the code of   *)
(*              the blocks done so far.                                     *)
(*   CodeShape  where each instruction of the block is in the code, and     *)
(*              which temporary each save and restore is for.               *)
(*                                                                          *)
(* From RegInv and CodeShape follows, for an allocated block, that what its *)
(* code does agrees with what it means after each instruction (Agree).      *)
(*                                                                          *)
(* The lemmas before them say what abi0() leaves of a well-formed block,    *)
(* and where its lifetimes begin and end.                                   *)
(***************************************************************************)
EXTENDS RegAlloc, Induction, SequenceTheorems

IsMin(m, S) == m \in S /\ \A n \in S : m <= n
IsMax(m, S) == m \in S /\ \A n \in S : n <= m

LEMMA MinOf ==
  ASSUME NEW S \in SUBSET Nat, S # {}
  PROVE  IsMin(Min(S), S)
<1>1. PICK m \in S : \A n \in S : m <= n
  BY LeastOf
<1>. QED  BY <1>1 DEF Min, IsMin

LEMMA MaxOf ==
  ASSUME NEW N \in Nat, NEW S \in SUBSET (0 .. N), S # {}
  PROVE  IsMax(Max(S), S)
<1>. DEFINE R == {N - n : n \in S}
<1>1. R \in SUBSET Nat /\ R # {}
  <2>1. \A n \in S : N - n \in Nat
    OBVIOUS
  <2>. QED  BY <2>1
<1>. HIDE DEF R
<1>2. PICK r \in R : \A q \in R : r <= q
  BY <1>1, LeastOf
<1>3. PICK m \in S : r = N - m
  BY <1>2 DEF R
<1>4. ASSUME NEW n \in S PROVE n <= m
  <2>1. N - n \in R
    BY DEF R
  <2>. QED  BY <1>2, <1>3, <2>1
<1>. QED  BY <1>3, <1>4 DEF Max, IsMax

LEMMA MaxOfTwo ==
  ASSUME NEW a \in Nat, NEW b \in Nat
  PROVE  Max({a, b}) = IF a >= b THEN a ELSE b
  BY DEF Max

(* insertion at position i of a sequence                                     *)
IsInserted(s, i, e, r) ==
  /\ Len(r) = Len(s) + 1
  /\ \A k \in 1 .. Len(s) + 1 : r[k] = IF k < i THEN s[k] ELSE IF k = i THEN e ELSE s[k - 1]

LEMMA Inserted ==
  ASSUME NEW S, NEW s \in Seq(S), NEW i \in 1 .. Len(s) + 1, NEW e \in S
  PROVE  InsertAt(s, i, e) \in Seq(S) /\ IsInserted(s, i, e, InsertAt(s, i, e))
<1>. DEFINE a == SubSeq(s, 1, i - 1)
            b == SubSeq(s, i, Len(s))
            c == a \o <<e>>
<1>1. /\ a \in Seq(S) /\ Len(a) = i - 1 /\ \A k \in 1 .. i - 1 : a[k] = s[k]
      /\ b \in Seq(S) /\ Len(b) = Len(s) - i + 1 /\ \A k \in 1 .. Len(s) - i + 1 : b[k] = s[i + k - 1]
  OBVIOUS
<1>. HIDE DEF a, b
<1>2. c \in Seq(S) /\ Len(c) = i /\ \A k \in 1 .. i : c[k] = IF k < i THEN a[k] ELSE e
  <2>. DEFINE x == <<e>>
  <2>1. x \in Seq(S) /\ Len(x) = 1 /\ x[1] = e /\ c = a \o x
    OBVIOUS
  <2>. HIDE DEF x, c
  <2>2. /\ a \o x \in Seq(S) /\ Len(a \o x) = Len(a) + Len(x)
        /\ \A k \in 1 .. Len(a) + Len(x) : (a \o x)[k] = IF k <= Len(a) THEN a[k] ELSE x[k - Len(a)]
    BY <1>1, <2>1, ConcatProperties
  <2>3. ASSUME NEW k \in 1 .. i PROVE c[k] = IF k < i THEN a[k] ELSE e
    <3>1. k \in 1 .. Len(a) + Len(x) /\ c[k] = IF k <= i - 1 THEN a[k] ELSE x[k - (i - 1)]
      BY <1>1, <2>1, <2>2
    <3>2. CASE k < i
      BY <3>1, <3>2
    <3>3. CASE k = i
      <4>1. ~(k <= i - 1) /\ k - (i - 1) = 1
        BY <3>3
      <4>. QED  BY <2>1, <3>1, <3>3, <4>1
    <3>. QED  BY <3>2, <3>3
  <2>. QED  BY <1>1, <2>1, <2>2, <2>3
<1>. HIDE DEF c
<1>3. /\ c \o b \in Seq(S) /\ Len(c \o b) = Len(s) + 1
      /\ \A k \in 1 .. Len(s) + 1 : (c \o b)[k] = IF k <= i THEN c[k] ELSE b[k - i]
  <2>1. /\ c \o b \in Seq(S) /\ Len(c \o b) = Len(c) + Len(b)
        /\ \A k \in 1 .. Len(c) + Len(b) : (c \o b)[k] = IF k <= Len(c) THEN c[k] ELSE b[k - Len(c)]
    BY <1>1, <1>2, ConcatProperties
  <2>2. Len(c) + Len(b) = Len(s) + 1
    BY <1>1, <1>2
  <2>. QED  BY <1>2, <2>1, <2>2
<1>4. InsertAt(s, i, e) = c \o b
  BY DEF InsertAt, a, b, c
<1>5. ASSUME NEW k \in 1 .. Len(s) + 1
      PROVE  (c \o b)[k] = IF k < i THEN s[k] ELSE IF k = i THEN e ELSE s[k - 1]
  BY <1>1, <1>2, <1>3
<1>. QED  BY <1>3, <1>4, <1>5 DEF IsInserted

-----------------------------------------------------------------------------
(* The registers.                                                           *)

ArgSet  == {ArgRegs[k] : k \in DOMAIN ArgRegs}
NRoom   == Len(TempRegs \o CalleeRegs)
RoomSet == {Order[i] : i \in 1 .. NRoom}

LEMMA OrderFacts ==
  /\ Len(Order) \in Nat /\ DOMAIN Order = 1 .. Len(Order)
  /\ \A i \in DOMAIN Order : Order[i] \in Registers
  /\ \A i, j \in DOMAIN Order : Order[i] = Order[j] => i = j
  /\ NRoom \in 0 .. Len(Order)
  /\ DOMAIN ArgRegs = 1 .. Len(ArgRegs) /\ Len(ArgRegs) \in Nat
  /\ \A k \in DOMAIN ArgRegs : NRoom + k \in DOMAIN Order /\ ArgRegs[k] = Order[NRoom + k]
  /\ DOMAIN CalleeRegs = 1 .. Len(CalleeRegs) /\ Len(CalleeRegs) \in Nat
  /\ \A k \in DOMAIN CalleeRegs : \E i \in 1 .. NRoom : CalleeRegs[k] = Order[i]
<1>. DEFINE TC == TempRegs \o CalleeRegs
<1>1. /\ TempRegs \in Seq(Registers) /\ CalleeRegs \in Seq(Registers) /\ ArgRegs \in Seq(Registers)
      /\ \A i, j \in DOMAIN Order : Order[i] = Order[j] => i = j
  BY RegistersAssumption
<1>2. /\ Len(TempRegs) \in Nat /\ Len(CalleeRegs) \in Nat /\ Len(ArgRegs) \in Nat
      /\ DOMAIN ArgRegs = 1 .. Len(ArgRegs) /\ DOMAIN CalleeRegs = 1 .. Len(CalleeRegs)
  BY <1>1, LenProperties
<1>3. /\ TC \in Seq(Registers) /\ Len(TC) = Len(TempRegs) + Len(CalleeRegs)
      /\ \A i \in 1 .. Len(TempRegs) + Len(CalleeRegs) :
           TC[i] = IF i <= Len(TempRegs) THEN TempRegs[i] ELSE CalleeRegs[i - Len(TempRegs)]
  BY <1>1, ConcatProperties
<1>. HIDE DEF TC
<1>4. /\ TC \o ArgRegs \in Seq(Registers) /\ Len(TC \o ArgRegs) = Len(TC) + Len(ArgRegs)
      /\ \A i \in 1 .. Len(TC) + Len(ArgRegs) :
           (TC \o ArgRegs)[i] = IF i <= Len(TC) THEN TC[i] ELSE ArgRegs[i - Len(TC)]
  <2>1. TC \in Seq(Registers) /\ ArgRegs \in Seq(Registers)
    BY <1>1, <1>3
  <2>. QED  BY <2>1, ConcatProperties
<1>5. Order = TC \o ArgRegs /\ NRoom = Len(TC)
  BY DEF Order, TC, NRoom
<1>6. /\ Len(TC) \in Nat /\ Len(Order) \in Nat /\ DOMAIN Order = 1 .. Len(Order)
      /\ Len(Order) = Len(TC) + Len(ArgRegs)
  BY <1>2, <1>3, <1>4, <1>5, LenProperties
<1>7. \A i \in DOMAIN Order : Order[i] \in Registers
  BY <1>4, <1>5, <1>6, ElementOfSeq
<1>8. ASSUME NEW k \in DOMAIN ArgRegs
      PROVE  NRoom + k \in DOMAIN Order /\ ArgRegs[k] = Order[NRoom + k]
  <2>1. NRoom + k \in 1 .. Len(TC) + Len(ArgRegs) /\ ~(NRoom + k <= Len(TC)) /\ (NRoom + k) - Len(TC) = k
    BY <1>2, <1>5, <1>6
  <2>. QED  BY <1>4, <1>5, <1>6, <2>1
<1>9. ASSUME NEW k \in DOMAIN CalleeRegs
      PROVE  \E i \in 1 .. NRoom : CalleeRegs[k] = Order[i]
  <2>. DEFINE i == Len(TempRegs) + k
  <2>1. i \in 1 .. NRoom /\ i \in 1 .. Len(TC) + Len(ArgRegs) /\ i <= Len(TC) /\ ~(i <= Len(TempRegs))
        /\ i - Len(TempRegs) = k /\ i \in 1 .. Len(TempRegs) + Len(CalleeRegs)
    BY <1>2, <1>3, <1>5, <1>6
  <2>. HIDE DEF i
  <2>2. Order[i] = TC[i] /\ TC[i] = CalleeRegs[k]
    BY <1>3, <1>4, <1>5, <2>1
  <2>. QED  BY <2>1, <2>2
<1>. QED  BY <1>1, <1>2, <1>5, <1>6, <1>7, <1>8, <1>9

LEMMA RegisterFacts ==
  /\ None = 0 /\ Registers \cap Nat = {} /\ None \notin Registers
  /\ ArgSet \subseteq Registers /\ RoomSet \subseteq Registers /\ ArgSet \cap RoomSet = {}
  /\ \A j, k \in DOMAIN ArgRegs : ArgRegs[j] = ArgRegs[k] => j = k
  /\ \A r : CalleeIndex(r) \in 0 .. Len(CalleeRegs)
  /\ \A r \in ArgSet : CalleeIndex(r) = 0
  /\ CalleeIndex(None) = 0
<1>1. Registers \cap Nat = {} /\ None = 0
  BY RegistersAssumption DEF None, NoOutput
<1>2. ArgSet \subseteq Registers /\ RoomSet \subseteq Registers
  BY OrderFacts DEF ArgSet, RoomSet
<1>3. ASSUME NEW j \in DOMAIN ArgRegs, NEW i \in 1 .. NRoom PROVE ArgRegs[j] # Order[i]
  <2>1. NRoom + j \in DOMAIN Order /\ ArgRegs[j] = Order[NRoom + j] /\ NRoom + j # i /\ i \in DOMAIN Order
    BY OrderFacts
  <2>. QED  BY <2>1, OrderFacts
<1>4. ASSUME NEW j \in DOMAIN ArgRegs, NEW k \in DOMAIN ArgRegs, ArgRegs[j] = ArgRegs[k] PROVE j = k
  <2>1. NRoom + j = NRoom + k
    BY <1>4, OrderFacts
  <2>. QED  BY <2>1, OrderFacts
<1>5. ASSUME NEW r PROVE CalleeIndex(r) \in 0 .. Len(CalleeRegs)
  BY OrderFacts DEF CalleeIndex
<1>6. ASSUME NEW r \in ArgSet PROVE CalleeIndex(r) = 0
  BY <1>3, OrderFacts DEF CalleeIndex, ArgSet
<1>7. CalleeIndex(None) = 0
  <2>1. \A k \in DOMAIN CalleeRegs : CalleeRegs[k] \in Registers
    BY OrderFacts
  <2>. QED  BY <1>1, <2>1 DEF CalleeIndex
<1>. QED  BY <1>1, <1>2, <1>3, <1>4, <1>5, <1>6, <1>7 DEF ArgSet, RoomSet

-----------------------------------------------------------------------------
(* The block after abi0().                                                  *)

Blocks == [params : Nat, tmps : Nat, insns : Seq(Sources), uses : SUBSET Nat]

Lowered(b) == [b EXCEPT !.insns = abi0(@)]

BlockOK ==
  /\ source[bi] \in Blocks /\ IsFormed(source[bi])
  /\ block = Lowered(source[bi])

Src(k) == source[bi].insns[k]
Ins(k) == block.insns[k]

LEMMA BlockFacts ==
  ASSUME BlockOK
  PROVE  /\ block.params = source[bi].params /\ block.tmps = source[bi].tmps
         /\ block.uses = source[bi].uses
         /\ block.params \in Nat /\ block.tmps \in Nat /\ block.params <= block.tmps
         /\ block.uses \subseteq Tmps
         /\ Len(source[bi].insns) \in Nat
         /\ DOMAIN source[bi].insns = 1 .. Len(source[bi].insns)
         /\ Len(block.insns) = Len(source[bi].insns)
         /\ DOMAIN block.insns = 1 .. Len(block.insns)
         /\ Len(block.insns) \in Nat
         /\ \A k \in DOMAIN block.insns : Ins(k) = rewrite(Src(k)) /\ Src(k) \in Sources
<1>. DEFINE is == source[bi].insns
<1>1. source[bi] \in Blocks /\ is \in Seq(Sources) /\ IsFormed(source[bi])
  BY DEF BlockOK, Blocks
<1>2. Len(is) \in Nat /\ DOMAIN is = 1 .. Len(is) /\ \A k \in DOMAIN is : is[k] \in Sources
  BY <1>1, LenProperties, ElementOfSeq
<1>3. /\ block.params = source[bi].params /\ block.tmps = source[bi].tmps
      /\ block.uses = source[bi].uses /\ block.insns = abi0(is)
  BY <1>1 DEF BlockOK, Blocks, Lowered
<1>4. abi0(is) = [k \in DOMAIN is |-> rewrite(is[k])]
  BY DEF abi0
<1>5. DOMAIN abi0(is) = 1 .. Len(is) /\ \A k \in DOMAIN is : abi0(is)[k] = rewrite(is[k])
  BY <1>2, <1>4
<1>6. Len(abi0(is)) = Len(is)
  BY <1>2, <1>5
<1>. QED  BY <1>1, <1>2, <1>3, <1>5, <1>6 DEF Blocks, IsFormed, Tmps, Src, Ins

\* what abi0() makes of instruction s
IsLowered(i, s) ==
  /\ s.nth \in Nat /\ s.out \in Nat
  /\ i.type \in {"move", "op", "call"}
  /\ i.flags \subseteq {"setup", "teardown"}
  /\ i.type = "call" <=> s.type = "call"
  /\ i.type = "call" => i.flags = {"setup", "teardown"}
  /\ s.type \in {"param", "retval"} =>
       i.type = "move" /\ i.out = s.out /\ i.in = {nth_ar(s.nth)}
  /\ s.type \in {"arg", "retarg"} =>
       i.out = nth_ar(s.nth) /\ i.in = s.in /\ (i.type = "move" <=> s.in # {})
  /\ s.type \notin {"param", "retval", "arg", "retarg"} =>
       i.out = s.out /\ i.in = s.in /\ i.type # "move"

LEMMA LoweredFacts ==
  ASSUME NEW s \in Sources
  PROVE  IsLowered(rewrite(s), s)
<1>1. s.type \in {"op", "call", "param", "retval", "arg", "retarg"} /\ s.nth \in Nat /\ s.out \in Nat
  BY DEF Sources
<1>2. CASE s.type = "param"
  <2>1. rewrite(s) = Insn("move", s.out, {nth_ar(s.nth)}, {})
    BY <1>2 DEF rewrite, rewrite_param
  <2>. QED  BY <1>1, <1>2, <2>1 DEF IsLowered, Insn
<1>3. CASE s.type = "retval"
  <2>1. rewrite(s) = Insn("move", s.out, {nth_ar(s.nth)}, {"teardown"})
    BY <1>3 DEF rewrite, rewrite_retval
  <2>. QED  BY <1>1, <1>3, <2>1 DEF IsLowered, Insn
<1>4. CASE s.type = "arg"
  <2>1. rewrite(s) = Insn(LoadedBy(s), nth_ar(s.nth), s.in, {"setup"})
    BY <1>4 DEF rewrite, rewrite_arg
  <2>. QED  BY <1>1, <1>4, <2>1 DEF IsLowered, Insn, LoadedBy
<1>5. CASE s.type = "retarg"
  <2>1. rewrite(s) = Insn(LoadedBy(s), nth_ar(s.nth), s.in, {})
    BY <1>5 DEF rewrite, rewrite_retarg
  <2>. QED  BY <1>1, <1>5, <2>1 DEF IsLowered, Insn, LoadedBy
<1>6. CASE s.type = "call"
  <2>1. rewrite(s) = Insn("call", s.out, s.in, {"setup", "teardown"})
    BY <1>6 DEF rewrite, flag_call
  <2>. QED  BY <1>1, <1>6, <2>1 DEF IsLowered, Insn
<1>7. CASE s.type = "op"
  <2>1. rewrite(s) = Insn("op", s.out, s.in, {})
    BY <1>7 DEF rewrite
  <2>. QED  BY <1>1, <1>7, <2>1 DEF IsLowered, Insn
<1>. QED  BY <1>1, <1>2, <1>3, <1>4, <1>5, <1>6, <1>7

\* what follows for an instruction of the block
IsInBlock(k) ==
  /\ IsLowered(Ins(k), Src(k))
  /\ Src(k).in \subseteq Tmps
  /\ Src(k).out = None \/ Src(k).out \in block.params + 1 .. block.tmps
  /\ Src(k).type \in {"param", "retval"} => Src(k).in = {} /\ Src(k).out # None
  /\ Src(k).type \in {"arg", "retarg"} => Src(k).out = None /\ \A t, u \in Src(k).in : t = u
  /\ Src(k).type \in {"param", "retval", "arg", "retarg"} =>
       Src(k).nth + 1 \in DOMAIN ArgRegs /\ nth_ar(Src(k).nth) \in ArgSet

LEMMA InstructionFacts ==
  ASSUME BlockOK, NEW k \in DOMAIN block.insns
  PROVE  IsInBlock(k)
<1>1. /\ k \in DOMAIN source[bi].insns /\ IsFormed(source[bi])
      /\ Src(k) \in Sources /\ Ins(k) = rewrite(Src(k))
      /\ source[bi].params = block.params /\ source[bi].tmps = block.tmps
  BY BlockFacts DEF BlockOK
<1>2. IsLowered(Ins(k), Src(k))
  BY <1>1, LoweredFacts
<1>3. /\ Src(k).in \subseteq Tmps
      /\ Src(k).out = None \/ Src(k).out \in block.params + 1 .. block.tmps
      /\ Src(k).type \in {"param", "retval"} => Src(k).in = {} /\ Src(k).out # None
      /\ Src(k).type \in {"arg", "retarg"} => Src(k).out = None /\ \A t, u \in Src(k).in : t = u
  BY <1>1 DEF IsFormed, Src, Tmps
<1>4. ASSUME Src(k).type \in {"param", "retval", "arg", "retarg"}
      PROVE  Src(k).nth + 1 \in DOMAIN ArgRegs /\ nth_ar(Src(k).nth) \in ArgSet
  <2>1. Src(k).nth < Len(ArgRegs)
    BY <1>1, <1>4 DEF IsFormed, Positioned, Src
  <2>2. Src(k).nth \in Nat
    BY <1>2 DEF IsLowered
  <2>3. Src(k).nth + 1 \in DOMAIN ArgRegs
    BY <2>1, <2>2, OrderFacts
  <2>. QED  BY <2>3 DEF nth_ar, ArgSet
<1>. QED  BY <1>2, <1>3, <1>4 DEF IsInBlock

LEMMA OperandFacts ==
  ASSUME BlockOK, NEW k \in DOMAIN block.insns
  PROVE  /\ Ins(k).out \in {None} \cup (block.params + 1 .. block.tmps) \cup ArgSet
         /\ Ins(k).in \subseteq Tmps \cup ArgSet
         /\ \A t \in Tmps : t \in Ins(k).in => t \in Src(k).in
         /\ \A t \in Tmps : Ins(k).out = t <=> Src(k).out = t
<1>1. IsInBlock(k) /\ Tmps \subseteq Nat \ {0} /\ None = 0
  BY InstructionFacts, BlockFacts, RegisterFacts DEF Tmps
<1>2. Registers \cap Nat = {} /\ ArgSet \subseteq Registers
  BY RegisterFacts
<1>3. CASE Src(k).type \in {"param", "retval"}
  BY <1>1, <1>2, <1>3 DEF IsInBlock, IsLowered
<1>4. CASE Src(k).type \in {"arg", "retarg"}
  BY <1>1, <1>2, <1>4 DEF IsInBlock, IsLowered
<1>5. CASE Src(k).type \notin {"param", "retval", "arg", "retarg"}
  BY <1>1, <1>2, <1>5 DEF IsInBlock, IsLowered
<1>. QED  BY <1>3, <1>4, <1>5

-----------------------------------------------------------------------------
(* Lifetimes.                                                               *)

IsLifetime(t) ==
  /\ Start(t) \in 0 .. EndPos - 1 /\ End(t) \in 0 .. EndPos /\ Start(t) <= End(t)
  /\ t <= block.params => Start(t) = 0 /\ End(t) > 0 /\ Defs(t) = {}
  /\ t > block.params => Start(t) \in DOMAIN block.insns /\ Defs(t) = {Start(t)}
  /\ \A k \in Reads(t) : k <= End(t)
  /\ t \in block.uses => End(t) = EndPos

LEMMA LifetimeFacts ==
  ASSUME BlockOK, NEW t \in Tmps
  PROVE  IsLifetime(t)
<1>1. /\ Len(block.insns) \in Nat /\ DOMAIN block.insns = 1 .. Len(block.insns)
      /\ DOMAIN source[bi].insns = DOMAIN block.insns
      /\ EndPos = Len(block.insns) + 1 /\ EndPos \in Nat
      /\ block.params \in Nat /\ t \in Nat \ {0} /\ t <= block.tmps /\ block.tmps \in Nat
      /\ source[bi].params = block.params /\ source[bi].tmps = block.tmps
      /\ source[bi].uses = block.uses
  BY BlockFacts DEF EndPos, Tmps
<1>2. InOrder(source[bi]) /\ \A k \in DOMAIN block.insns : Src(k) = source[bi].insns[k]
  BY DEF BlockOK, IsFormed, Src
<1>3. \A k \in DOMAIN block.insns : block.insns[k].out = t <=> Src(k).out = t
  BY OperandFacts DEF Ins
<1>4. Reads(t) \subseteq DOMAIN block.insns /\ Defs(t) \subseteq DOMAIN block.insns
  BY DEF Reads, Defs
<1>5. CASE t <= block.params
  <2>1. Defs(t) = {}
    <3>1. ASSUME NEW k \in DOMAIN block.insns, Src(k).out = t PROVE FALSE
      BY <1>1, <1>5, <3>1, InstructionFacts, RegisterFacts DEF IsInBlock
    <3>. QED  BY <1>3, <3>1 DEF Defs
  <2>2. Start(t) = 0
    BY <1>5 DEF Start
  <2>. DEFINE E == {Start(t)} \cup Reads(t) \cup (IF t \in block.uses THEN {EndPos} ELSE {})
  <2>3. E \in SUBSET (0 .. EndPos) /\ E # {} /\ End(t) = Max(E) /\ EndPos \in Nat
    BY <1>1, <1>4, <2>2 DEF End
  <2>. HIDE DEF E
  <2>4. IsMax(End(t), E)
    BY <2>3, MaxOf
  <2>5. \E k \in E : k > 0
    <3>1. t \in block.uses \/ \E k \in DOMAIN block.insns : t \in Src(k).in
      BY <1>1, <1>5 DEF BlockOK, IsFormed, Src
    <3>2. ASSUME NEW k \in DOMAIN block.insns, t \in Src(k).in PROVE k \in Reads(t)
      <4>1. IsLowered(Ins(k), Src(k)) /\ (Src(k).type \in {"param", "retval"} => Src(k).in = {})
        BY InstructionFacts DEF IsInBlock
      <4>2. Src(k).type \notin {"param", "retval"}
        BY <3>2, <4>1
      <4>3. Ins(k).in = Src(k).in
        BY <4>1, <4>2 DEF IsLowered
      <4>. QED  BY <3>2, <4>3 DEF Reads, Ins
    <3>3. CASE t \in block.uses
      <4>1. EndPos \in E /\ EndPos > 0
        BY <1>1, <3>3 DEF E
      <4>. QED  BY <4>1
    <3>4. CASE \E k \in DOMAIN block.insns : t \in Src(k).in
      <4>1. PICK k \in DOMAIN block.insns : t \in Src(k).in
        BY <3>4
      <4>2. k \in E /\ k > 0
        BY <1>1, <3>2, <4>1 DEF E
      <4>. QED  BY <4>2
    <3>. QED  BY <3>1, <3>3, <3>4
  <2>6. End(t) \in E /\ \A k \in E : k <= End(t)
    BY <2>4 DEF IsMax
  <2>7. End(t) \in 0 .. EndPos /\ End(t) > 0
    <3>1. PICK k \in E : k > 0
      BY <2>5
    <3>2. k \in 0 .. EndPos /\ End(t) \in 0 .. EndPos
      BY <2>3, <2>6, <3>1
    <3>3. k <= End(t)
      BY <2>6, <3>1
    <3>. QED  BY <1>1, <3>1, <3>2, <3>3
  <2>8. (\A j \in Reads(t) : j <= End(t)) /\ (t \in block.uses => EndPos <= End(t))
    BY <2>6 DEF E
  <2>9. t \in block.uses => End(t) = EndPos
    BY <1>1, <2>7, <2>8
  <2>10. Start(t) \in 0 .. EndPos - 1 /\ Start(t) <= End(t)
    BY <1>1, <2>2, <2>7
  <2>. QED  BY <1>1, <1>5, <2>1, <2>2, <2>7, <2>8, <2>9, <2>10 DEF IsLifetime
<1>6. CASE t > block.params
  <2>1. PICK k \in DOMAIN block.insns : Src(k).out = t
    <3>1. t \in source[bi].params + 1 .. source[bi].tmps
      BY <1>1, <1>6
    <3>. QED  BY <1>1, <1>2, <3>1 DEF InOrder
  <2>2. ASSUME NEW j \in DOMAIN block.insns, Src(j).out = t, j # k PROVE FALSE
    <3>1. j < k \/ k < j
      BY <1>1, <2>2
    <3>2. source[bi].insns[j].out = t /\ source[bi].insns[k].out = t /\ t # None /\ ~(t < t)
      BY <1>1, <1>2, <2>1, <2>2, RegisterFacts
    <3>3. j \in DOMAIN source[bi].insns /\ k \in DOMAIN source[bi].insns
      BY <1>1
    <3>. QED  BY <1>2, <3>1, <3>2, <3>3 DEF InOrder
  <2>3. Defs(t) = {k}
    BY <1>3, <2>1, <2>2 DEF Defs
  <2>4. Start(t) = k
    <3>1. {k} \in SUBSET Nat /\ {k} # {}
      BY <1>1
    <3>2. IsMin(Min({k}), {k})
      BY <3>1, MinOf
    <3>. QED  BY <1>1, <1>6, <2>3, <3>2 DEF Start, IsMin
  <2>. DEFINE E == {Start(t)} \cup Reads(t) \cup (IF t \in block.uses THEN {EndPos} ELSE {})
  <2>5. E \in SUBSET (0 .. EndPos) /\ E # {} /\ End(t) = Max(E) /\ EndPos \in Nat
    BY <1>1, <1>4, <2>4 DEF End
  <2>. HIDE DEF E
  <2>6. IsMax(End(t), E)
    BY <2>5, MaxOf
  <2>7. End(t) \in E /\ \A j \in E : j <= End(t)
    BY <2>6 DEF IsMax
  <2>8. End(t) \in 0 .. EndPos
    BY <2>5, <2>7
  <2>9. Start(t) <= End(t) /\ (\A j \in Reads(t) : j <= End(t)) /\ (t \in block.uses => EndPos <= End(t))
    BY <2>7 DEF E
  <2>10. t \in block.uses => End(t) = EndPos
    BY <1>1, <2>8, <2>9
  <2>11. Start(t) \in 0 .. EndPos - 1
    BY <1>1, <2>4
  <2>. QED  BY <1>1, <1>6, <2>3, <2>4, <2>8, <2>9, <2>10, <2>11 DEF IsLifetime
<1>. QED  BY <1>1, <1>5, <1>6

LEMMA Positions ==
  ASSUME BlockOK, NEW t \in Tmps
  PROVE  t \in Nat \ {0} /\ Start(t) \in Nat /\ End(t) \in Nat /\ Start(t) <= End(t)
<1>1. IsLifetime(t) /\ EndPos \in Nat /\ t \in Nat \ {0}
  BY LifetimeFacts, BlockFacts DEF EndPos, Tmps
<1>. QED  BY <1>1 DEF IsLifetime

LEMMA StartsInOrder ==
  ASSUME BlockOK, NEW t \in Tmps, NEW u \in Tmps, t < u
  PROVE  Start(t) <= Start(u) /\ (u > block.params => Start(t) < Start(u))
<1>1. IsLifetime(t) /\ IsLifetime(u) /\ block.params \in Nat /\ t \in Nat /\ u \in Nat
  BY LifetimeFacts, BlockFacts DEF Tmps
<1>2. CASE t <= block.params
  <2>1. Start(t) = 0 /\ Start(u) \in Nat
    BY <1>1, <1>2 DEF IsLifetime
  <2>2. u > block.params => Start(u) \in DOMAIN block.insns
    BY <1>1 DEF IsLifetime
  <2>. QED  BY <2>1, <2>2, BlockFacts
<1>3. CASE t > block.params
  <2>1. /\ Start(t) \in Defs(t) /\ Start(u) \in Defs(u)
        /\ Start(t) \in DOMAIN block.insns /\ Start(u) \in DOMAIN block.insns
    BY <1>1, <1>3 DEF IsLifetime
  <2>2. Src(Start(t)).out = t /\ Src(Start(u)).out = u
    BY <2>1, OperandFacts DEF Defs, Ins
  <2>3. ~(Start(u) <= Start(t))
    <3>1. CASE Start(u) < Start(t)
      <4>1. /\ InOrder(source[bi]) /\ DOMAIN source[bi].insns = DOMAIN block.insns
        BY BlockFacts DEF BlockOK, IsFormed
      <4>2. u < t
        BY <1>1, <1>3, <2>1, <2>2, <3>1, <4>1, RegisterFacts DEF InOrder, Src
      <4>. QED  BY <1>1, <4>2
    <3>2. CASE Start(u) = Start(t)
      BY <1>1, <2>2, <3>2
    <3>. QED  BY <1>1, <2>1, <3>1, <3>2, BlockFacts
  <2>. QED  BY <2>1, <2>3, BlockFacts
<1>. QED  BY <1>1, <1>2, <1>3

\* a temporary that is loaded from an argument register, and one that is not
IsLoaded(t) ==
  /\ t > block.params /\ MovesIn(t) = {Start(t)} /\ Start(t) \in DOMAIN block.insns
  /\ Src(Start(t)).out = t
  /\ Src(Start(t)).type \in {"param", "retval"}
  /\ Precoloured[t] = nth_ar(Src(Start(t)).nth)
  /\ Src(Start(t)).nth + 1 \in DOMAIN ArgRegs /\ Precoloured[t] \in ArgSet

IsComputed(t) ==
  /\ Precoloured[t] = None
  /\ t > block.params => Src(Start(t)).type \notin {"param", "retval"}

LEMMA LoadFacts ==
  ASSUME BlockOK, NEW t \in Tmps
  PROVE  IF MovesIn(t) = {} THEN IsComputed(t) ELSE IsLoaded(t)
<1>1. /\ IsLifetime(t) /\ t \in Nat /\ block.params \in Nat /\ Registers \cap Nat = {}
      /\ ArgSet \subseteq Registers
  BY LifetimeFacts, BlockFacts, RegisterFacts DEF Tmps
<1>2. MovesIn(t) \subseteq Defs(t)
  BY DEF MovesIn
<1>3. ASSUME NEW k \in DOMAIN block.insns, k \in MovesIn(t)
      PROVE  Src(k).type \in {"param", "retval"}
  <2>1. Ins(k).type = "move" /\ Ins(k).in \cap Registers # {}
    BY <1>3 DEF MovesIn, Ins
  <2>2. IsLowered(Ins(k), Src(k)) /\ Src(k).in \cap Registers = {}
    <3>1. Src(k).in \subseteq Tmps /\ IsLowered(Ins(k), Src(k))
      BY InstructionFacts DEF IsInBlock
    <3>. QED  BY <1>1, <3>1, BlockFacts DEF Tmps
  <2>. QED  BY <2>1, <2>2 DEF IsLowered
<1>4. ASSUME NEW k \in DOMAIN block.insns, k \in Defs(t), Src(k).type \in {"param", "retval"}
      PROVE  /\ k \in MovesIn(t) /\ Ins(k).in = {nth_ar(Src(k).nth)}
             /\ Src(k).nth + 1 \in DOMAIN ArgRegs /\ nth_ar(Src(k).nth) \in ArgSet
  <2>1. /\ Ins(k).type = "move" /\ Ins(k).in = {nth_ar(Src(k).nth)} /\ nth_ar(Src(k).nth) \in ArgSet
        /\ Src(k).nth + 1 \in DOMAIN ArgRegs
    BY <1>4, InstructionFacts DEF IsInBlock, IsLowered
  <2>. QED  BY <1>1, <1>4, <2>1 DEF MovesIn, Ins
<1>5. CASE MovesIn(t) = {}
  <2>1. Precoloured[t] = None
    BY <1>5 DEF Precoloured
  <2>2. t > block.params => Src(Start(t)).type \notin {"param", "retval"}
    BY <1>1, <1>4, <1>5 DEF IsLifetime
  <2>. QED  BY <1>5, <2>1, <2>2 DEF IsComputed
<1>6. CASE MovesIn(t) # {}
  <2>1. t > block.params
    BY <1>1, <1>2, <1>6 DEF IsLifetime
  <2>2. Start(t) \in DOMAIN block.insns /\ MovesIn(t) = {Start(t)} /\ Start(t) \in Defs(t)
    BY <1>1, <1>2, <1>6, <2>1 DEF IsLifetime
  <2>3. /\ Src(Start(t)).type \in {"param", "retval"} /\ Ins(Start(t)).in = {nth_ar(Src(Start(t)).nth)}
        /\ Src(Start(t)).nth + 1 \in DOMAIN ArgRegs /\ nth_ar(Src(Start(t)).nth) \in ArgSet
    BY <1>3, <1>4, <2>2
  <2>4. Max(MovesIn(t)) = Start(t)
    <3>1. MovesIn(t) \in SUBSET (0 .. EndPos) /\ EndPos \in Nat
      BY <2>2, BlockFacts DEF EndPos
    <3>2. IsMax(Max(MovesIn(t)), MovesIn(t))
      BY <1>6, <3>1, MaxOf
    <3>. QED  BY <2>2, <3>2 DEF IsMax
  <2>5. Precoloured[t] = nth_ar(Src(Start(t)).nth)
    <3>1. Precoloured[t] = CHOOSE r \in Ins(Start(t)).in : TRUE
      BY <1>6, <2>4 DEF Precoloured, Ins
    <3>. QED  BY <2>3, <3>1
  <2>6. Src(Start(t)).out = t
    BY <2>2, OperandFacts DEF Defs, Ins
  <2>. QED  BY <1>6, <2>1, <2>2, <2>3, <2>5, <2>6 DEF IsLoaded
<1>. QED  BY <1>5, <1>6

\* the hint of a computed temporary is the register of an argument or a
\* result it is moved to
IsHinted(t) ==
  \E k \in DOMAIN block.insns :
    /\ Src(k).type \in {"arg", "retarg"} /\ Src(k).in = {t} /\ Hint(t) = nth_ar(Src(k).nth)
    /\ Src(k).nth + 1 \in DOMAIN ArgRegs /\ Ins(k).type = "move"

LEMMA HintFacts ==
  ASSUME BlockOK, NEW t \in Tmps
  PROVE  /\ Hint(t) \in {None} \cup ArgSet
         /\ MovesIn(t) = {} /\ Hint(t) # None => IsHinted(t)
         /\ MovesIn(t) = {} /\ Hint(t) = None => MovesOut(t) = {}
<1>. DEFINE M == MovesOut(t) \cup MovesIn(t)
            k == Max(M)
<1>1. ASSUME NEW j \in MovesOut(t)
      PROVE  /\ j \in DOMAIN block.insns /\ Ins(j).type = "move"
             /\ Src(j).type \in {"arg", "retarg"} /\ Src(j).in = {t}
             /\ Ins(j).out = nth_ar(Src(j).nth) /\ Src(j).nth + 1 \in DOMAIN ArgRegs
             /\ nth_ar(Src(j).nth) \in ArgSet
  <2>1. j \in DOMAIN block.insns /\ t \in Ins(j).in /\ Ins(j).type = "move"
    BY <1>1 DEF MovesOut, Reads, Ins
  <2>2. IsInBlock(j) /\ t \in Src(j).in
    BY <2>1, InstructionFacts, OperandFacts
  <2>3. Src(j).type \in {"arg", "retarg"}
    BY <2>1, <2>2 DEF IsInBlock, IsLowered
  <2>. QED  BY <2>1, <2>2, <2>3 DEF IsInBlock, IsLowered
<1>2. CASE M = {}
  <2>1. Hint(t) = None /\ MovesOut(t) = {}
    BY <1>2 DEF Hint
  <2>. QED  BY <2>1
<1>3. CASE M # {}
  <2>1. k \in M
    <3>1. M \in SUBSET (0 .. EndPos) /\ EndPos \in Nat
      <4>1. MovesIn(t) \subseteq DOMAIN block.insns /\ MovesOut(t) \subseteq DOMAIN block.insns
        BY DEF MovesIn, MovesOut, Defs, Reads
      <4>. QED  BY <4>1, BlockFacts DEF EndPos
    <3>. HIDE DEF M
    <3>2. IsMax(Max(M), M)
      BY <1>3, <3>1, MaxOf
    <3>. QED  BY <3>2 DEF IsMax
  <2>2. CASE k \in MovesOut(t)
    <3>1. Hint(t) = Ins(k).out
      BY <1>3, <2>2 DEF Hint, Ins
    <3>2. Hint(t) \in ArgSet /\ IsHinted(t)
      BY <1>1, <2>2, <3>1 DEF IsHinted
    <3>3. Hint(t) # None
      BY <3>2, RegisterFacts
    <3>. QED  BY <3>2, <3>3
  <2>3. CASE k \notin MovesOut(t)
    <3>1. MovesIn(t) # {} /\ k \in MovesIn(t) /\ Hint(t) = CHOOSE r \in Ins(k).in : TRUE
      BY <1>3, <2>1, <2>3 DEF Hint, Ins
    <3>2. IsLoaded(t)
      BY <3>1, LoadFacts
    <3>3. Ins(k).in = {nth_ar(Src(k).nth)} /\ nth_ar(Src(k).nth) \in ArgSet
      BY <3>1, <3>2, InstructionFacts DEF IsLoaded, IsInBlock, IsLowered
    <3>. QED  BY <3>1, <3>3
  <2>. QED  BY <2>2, <2>3
<1>. QED  BY <1>2, <1>3

-----------------------------------------------------------------------------
(* Types, and what is decided when.                                         *)

Scanning == {"scan", "prev", "rest", "pick", "aborted"}
Rewriting == {"save", "restore", "blockDone", "done"}

\* the blocks, before and after abi0()
Shape ==
  /\ source \in Functions /\ bi \in 1 .. NB
  /\ body = IF phase = "abi" THEN source ELSE [b \in 1 .. NB |-> Lowered(source[b])]

\* temporaries before li have a register, li has none when one is chosen,
\* and all have one at the end
Decided ==
  /\ phase \in Scanning => \A t \in 1 .. li - 1 : rmap[t] # None
  /\ phase \in {"prev", "rest", "pick", "aborted"} => li \in Tmps /\ rmap[li] = None
  /\ phase \in {"abi", "collect"} => li = 1 /\ prevActive = <<>> /\ active = <<>>

TypeInv == Shape /\ TypeOK /\ Decided

\* Hint(t) by what it depends on
HintOf(b, out, in) ==
  LET k == Max(out \cup in)
  IN  IF out \cup in = {} THEN None
      ELSE IF k \in out THEN b.insns[k].out
      ELSE CHOOSE r \in b.insns[k].in : TRUE

LEMMA SameBlock ==
  ASSUME source' = source, body' = body, bi' = bi
  PROVE  /\ block' = block /\ Tmps' = Tmps /\ EndPos' = EndPos /\ NB' = NB /\ Calls' = Calls
         /\ CallPos' = CallPos /\ BlockOK' = BlockOK
         /\ \A t : /\ Reads(t)' = Reads(t) /\ Defs(t)' = Defs(t)
                   /\ Start(t)' = Start(t) /\ End(t)' = End(t)
                   /\ MovesIn(t)' = MovesIn(t) /\ MovesOut(t)' = MovesOut(t)
                   /\ Hint(t)' = Hint(t) /\ Src(t)' = Src(t) /\ Ins(t)' = Ins(t)
                   /\ LiveAcross(t)' = LiveAcross(t)
<1>1. block' = block
  BY DEF block
<1>2. Tmps' = Tmps /\ EndPos' = EndPos /\ NB' = NB /\ Calls' = Calls
  BY <1>1 DEF Tmps, EndPos, NB, Calls
<1>3. ASSUME NEW t PROVE Reads(t)' = Reads(t) /\ Defs(t)' = Defs(t) /\ Src(t)' = Src(t) /\ Ins(t)' = Ins(t)
  BY <1>1 DEF Reads, Defs, Src, Ins
<1>4. ASSUME NEW t
      PROVE  /\ Start(t)' = Start(t)
             /\ MovesIn(t)' = MovesIn(t) /\ MovesOut(t)' = MovesOut(t)
  BY <1>1, <1>3 DEF Start, MovesIn, MovesOut
<1>5. ASSUME NEW t PROVE End(t)' = End(t) /\ Hint(t)' = Hint(t)
  <2>1. End(t)' = End(t)
    BY <1>1, <1>2, <1>3, <1>4 DEF End
  <2>2. Hint(t)' = Hint(t)
    <3>1. Hint(t) = HintOf(block, MovesOut(t), MovesIn(t))
      BY DEF Hint, HintOf
    <3>2. Hint(t)' = HintOf(block', MovesOut(t)', MovesIn(t)')
      BY DEF Hint, HintOf
    <3>. QED  BY <1>1, <1>4, <3>1, <3>2
  <2>. QED  BY <2>1, <2>2
<1>6. CallPos' = CallPos
  BY <1>2 DEF CallPos
<1>7. ASSUME NEW t PROVE LiveAcross(t)' = LiveAcross(t)
  BY <1>4, <1>5, <1>6 DEF LiveAcross
<1>8. BlockOK' = BlockOK
  BY <1>1 DEF BlockOK
<1>. QED  BY <1>1, <1>2, <1>3, <1>4, <1>5, <1>6, <1>7, <1>8

LEMMA SourceFacts ==
  ASSUME source \in Functions
  PROVE  /\ NB \in Nat \ {0} /\ DOMAIN source = 1 .. NB
         /\ \A b \in 1 .. NB : source[b] \in Blocks /\ IsFormed(source[b])
<1>1. source \in Seq(Blocks) /\ source # <<>> /\ \A b \in DOMAIN source : IsFormed(source[b])
  BY FunctionsAssumption DEF Blocks
<1>2. NB \in Nat /\ DOMAIN source = 1 .. NB /\ NB # 0
  BY <1>1, LenProperties, EmptySeq DEF NB
<1>. QED  BY <1>1, <1>2, ElementOfSeq DEF NB

LEMMA ShapeFacts ==
  ASSUME Shape
  PROVE  /\ phase # "abi" => BlockOK
         /\ phase = "abi" => block = source[bi]
         /\ block.tmps \in Nat
<1>1. source[bi] \in Blocks /\ IsFormed(source[bi])
  BY SourceFacts DEF Shape
<1>2. CASE phase = "abi"
  BY <1>1, <1>2 DEF Shape, block, Blocks
<1>3. CASE phase # "abi"
  <2>1. block = Lowered(source[bi])
    BY <1>3 DEF Shape, block
  <2>2. BlockOK
    BY <1>1, <2>1 DEF BlockOK
  <2>. QED  BY <1>3, <2>2, BlockFacts
<1>. QED  BY <1>2, <1>3

LEMMA TmpsType ==
  Shape => block.tmps \in Nat
  BY ShapeFacts

LEMMA TypeInit ==
  Init => TypeInv
<1>. SUFFICES ASSUME Init PROVE TypeInv
  OBVIOUS
<1>1. /\ source \in Functions /\ body = source /\ phase = "abi" /\ bi = 1 /\ li = 1
      /\ active = <<>> /\ prevActive = <<>> /\ at = 1 /\ callAt = 0 /\ counter = 0
      /\ maxCalleeSave = 0 /\ maxCallSave = 0 /\ hasCalls = FALSE
  BY DEF Init
<1>2. Shape
  BY <1>1, SourceFacts DEF Shape
<1>3. TypeOK
  <2>1. block.tmps \in Nat /\ Len(CalleeRegs) \in Nat /\ bi \in 1 .. NB
    BY <1>2, ShapeFacts, OrderFacts DEF Shape
  <2>2. <<>> \in Seq(Tmps)
    OBVIOUS
  <2>3. active \in Seq(Tmps) /\ prevActive \in Seq(Tmps)
    BY <1>1, <2>2
  <2>4. li \in 1 .. block.tmps + 1 /\ maxCalleeSave \in 0 .. Len(CalleeRegs)
    BY <1>1, <2>1
  <2>. QED  BY <1>1, <2>1, <2>3, <2>4 DEF TypeOK
<1>4. Decided
  BY <1>1 DEF Decided, Scanning
<1>. QED  BY <1>2, <1>3, <1>4 DEF TypeInv

\* the vectors and counters, which every step leaves in their types
Plain ==
  /\ at \in Nat /\ callAt \in Nat /\ counter \in Nat
  /\ maxCalleeSave \in 0 .. Len(CalleeRegs) /\ maxCallSave \in Nat
  /\ hasCalls \in BOOLEAN

LEMMA WalkedFacts ==
  ASSUME TypeInv, Walking
  PROVE  /\ Walked[at] \in Tmps /\ at \in Nat \ {0}
         /\ phase = "prev" => at \in DOMAIN prevActive /\ Walked[at] = prevActive[at]
         /\ phase = "rest" => Walked[at] = li + at - 1 /\ at <= block.tmps - li + 1
<1>1. /\ phase \in {"prev", "rest"} /\ at \in DOMAIN Walked /\ li \in 1 .. block.tmps + 1
      /\ block.tmps \in Nat /\ prevActive \in Seq(Tmps)
  BY ShapeFacts DEF TypeInv, TypeOK, Walking
<1>2. CASE phase = "prev"
  BY <1>1, <1>2, LenProperties, ElementOfSeq DEF Walked
<1>3. CASE phase = "rest"
  <2>1. at \in 1 .. block.tmps - li + 1 /\ Walked[at] = li + at - 1
    BY <1>1, <1>3 DEF Walked
  <2>. QED  BY <1>1, <1>3, <2>1 DEF Tmps
<1>. QED  BY <1>1, <1>2, <1>3

LEMMA PrecolouredType ==
  ASSUME BlockOK
  PROVE  Precoloured \in [Tmps -> Registers \cup {None}]
<1>1. \A t \in Tmps : Precoloured[t] \in Registers \cup {None}
  BY LoadFacts, RegisterFacts DEF IsLoaded, IsComputed
<1>2. DOMAIN Precoloured = Tmps /\ Precoloured = [t \in Tmps |-> Precoloured[t]]
  BY DEF Precoloured
<1>. QED  BY <1>1, <1>2

LEMMA TypeNext ==
  TypeInv /\ [Next]_vars => TypeInv'
<1>. SUFFICES ASSUME TypeInv, [Next]_vars PROVE TypeInv'
  OBVIOUS
<1>. USE DEF TypeInv
<1>0. block.tmps \in Nat /\ Len(CalleeRegs) \in Nat
  BY ShapeFacts, OrderFacts
<1>1. CASE Lower
  <2>1. /\ phase = "abi" /\ phase' = "collect" /\ li = 1 /\ prevActive = <<>> /\ active = <<>>
        /\ UNCHANGED <<source, bi, rmap, scanVars, callAt, counter, fnVars>>
        /\ body' = [b \in 1 .. NB |-> Lowered(source[b])]
    BY <1>1 DEF Lower, Lowered, Decided
  <2>2. Shape'
    BY <2>1 DEF Shape, NB
  <2>3. Decided'
    BY <2>1 DEF Decided, Scanning, scanVars
  <2>4. TypeOK'
    <3>1. (block.tmps \in Nat)'
      BY <2>2, TmpsType, PTL
    <3>2. bi' \in 1 .. NB'
      BY <2>2 DEF Shape
    <3>. QED  BY <2>1, <3>1, <3>2 DEF TypeOK, scanVars, fnVars
  <2>. QED  BY <2>2, <2>3, <2>4
<1>2. CASE NextBlock
  <2>1. /\ phase = "blockDone" /\ bi < NB /\ bi' = bi + 1 /\ phase' = "collect" /\ rmap' = <<>>
        /\ li' = 1 /\ active' = <<>> /\ prevActive' = <<>> /\ at' = 1 /\ callAt' = 0 /\ counter' = 0
        /\ UNCHANGED <<source, body, fnVars>>
    BY <1>2 DEF NextBlock, BlockStart
  <2>2. Shape'
    BY <2>1, SourceFacts DEF Shape, NB
  <2>3. Decided'
    BY <2>1 DEF Decided, Scanning
  <2>4. TypeOK'
    <3>1. (block.tmps \in Nat)'
      BY <2>2, TmpsType, PTL
    <3>2. bi' \in 1 .. NB'
      BY <2>2 DEF Shape
    <3>. QED  BY <2>1, <3>1, <3>2 DEF TypeOK, fnVars
  <2>. QED  BY <2>2, <2>3, <2>4
<1>3. CASE Collect
  <2>1. /\ phase = "collect" /\ phase' = "scan" /\ rmap' = Precoloured
        /\ UNCHANGED <<source, body, bi, scanVars, saveVars, fnVars>>
    BY <1>3 DEF Collect
  <2>2. block' = block /\ Tmps' = Tmps /\ NB' = NB
    BY <2>1, SameBlock
  <2>3. Precoloured \in [Tmps -> Registers \cup {None}]
    BY <2>1, ShapeFacts, PrecolouredType
  <2>. QED  BY <2>1, <2>2, <2>3 DEF Shape, Decided, Scanning, TypeOK, scanVars, saveVars, fnVars
<1>4. CASE SkipDecided
  <2>1. block' = block /\ Tmps' = Tmps /\ NB' = NB
    BY <1>4, SameBlock DEF SkipDecided
  <2>. QED  BY <1>0, <1>4, <2>1 DEF SkipDecided, Shape, Decided, Scanning, TypeOK, Tmps, saveVars, fnVars
<1>5. CASE Consider
  <2>1. block' = block /\ Tmps' = Tmps /\ NB' = NB
    BY <1>5, SameBlock DEF Consider
  <2>. QED  BY <1>0, <1>5, <2>1 DEF Consider, Shape, Decided, Scanning, TypeOK, saveVars, fnVars
<1>6. CASE Drop
  <2>1. block' = block /\ Tmps' = Tmps /\ NB' = NB
    BY <1>6, SameBlock DEF Drop
  <2>. QED  BY <1>6, <2>1 DEF Drop, Walking, Shape, Decided, Scanning, TypeOK, saveVars, fnVars
<1>7. CASE Keep
  <2>1. block' = block /\ Tmps' = Tmps /\ NB' = NB
    BY <1>7, SameBlock DEF Keep
  <2>2. Walked[at] \in Tmps /\ active \in Seq(Tmps)
    BY <1>7, WalkedFacts DEF Keep, TypeOK
  <2>3. Append(active, Walked[at]) \in Seq(Tmps)
    BY <2>2
  <2>. QED  BY <1>7, <2>1, <2>3 DEF Keep, Walking, Shape, Decided, Scanning, TypeOK, saveVars, fnVars
<1>8. CASE Stop
  <2>1. block' = block /\ Tmps' = Tmps /\ NB' = NB
    BY <1>8, SameBlock DEF Stop
  <2>2. phase \in {"prev", "rest"} /\ phase' \in {"rest", "pick"}
    BY <1>8 DEF Stop
  <2>. QED  BY <1>8, <2>1, <2>2 DEF Stop, Shape, Decided, Scanning, TypeOK, saveVars, fnVars
<1>9. CASE UseHint
  <2>1. block' = block /\ Tmps' = Tmps /\ NB' = NB
    BY <1>9, SameBlock DEF UseHint
  <2>2. li \in Tmps /\ Hint(li) # None /\ phase = "pick"
    BY <1>9 DEF UseHint, Hinted, Decided
  <2>3. Hint(li) \in Registers
    BY <2>2, ShapeFacts, HintFacts, RegisterFacts
  <2>4. rmap' \in [Tmps -> Registers \cup {None}] /\ \A t \in 1 .. li : rmap'[t] # None
    BY <1>9, <2>2, <2>3, RegisterFacts DEF UseHint, TypeOK, Decided, Scanning, Tmps
  <2>. QED  BY <1>0, <1>9, <2>1, <2>2, <2>4 DEF UseHint, Shape, Decided, Scanning, TypeOK, Tmps, saveVars, fnVars
<1>10. CASE UseFree
  <2>1. block' = block /\ Tmps' = Tmps /\ NB' = NB
    BY <1>10, SameBlock DEF UseFree
  <2>2. li \in Tmps /\ phase = "pick"
    BY <1>10 DEF UseFree, Decided
  <2>3. PICK i \in DOMAIN Order : /\ rmap' = [rmap EXCEPT ![li] = Order[i]]
                                  /\ maxCalleeSave' = Max({maxCalleeSave, CalleeIndex(Order[i])})
    BY <1>10 DEF UseFree
  <2>4. Order[i] \in Registers
    BY OrderFacts
  <2>5. rmap' \in [Tmps -> Registers \cup {None}] /\ \A t \in 1 .. li : rmap'[t] # None
    BY <2>2, <2>3, <2>4, RegisterFacts DEF TypeOK, Decided, Scanning, Tmps
  <2>6. maxCalleeSave' \in 0 .. Len(CalleeRegs)
    <3>1. /\ maxCalleeSave \in 0 .. Len(CalleeRegs) /\ CalleeIndex(Order[i]) \in 0 .. Len(CalleeRegs)
      BY RegisterFacts DEF TypeOK
    <3>. DEFINE c == CalleeIndex(Order[i])
    <3>2. c \in Nat /\ maxCalleeSave \in Nat
      BY <1>0, <3>1
    <3>. HIDE DEF c
    <3>3. Max({maxCalleeSave, c}) = IF maxCalleeSave >= c THEN maxCalleeSave ELSE c
      BY <3>2, MaxOfTwo
    <3>. QED  BY <2>3, <3>1, <3>3 DEF c
  <2>. QED  BY <1>0, <1>10, <2>1, <2>2, <2>5, <2>6 DEF UseFree, Shape, Decided, Scanning, TypeOK, Tmps, saveVars
<1>11. CASE OutOfRegisters
  <2>1. block' = block /\ Tmps' = Tmps /\ NB' = NB
    BY <1>11, SameBlock DEF OutOfRegisters
  <2>. QED  BY <1>11, <2>1 DEF OutOfRegisters, Shape, Decided, Scanning, TypeOK, scanVars, saveVars, fnVars
<1>12. CASE Rewrite
  <2>1. block' = block /\ Tmps' = Tmps /\ NB' = NB
    BY <1>12, SameBlock DEF Rewrite
  <2>2. phase = "scan" /\ phase' \in {"blockDone", "save"} /\ li \notin Tmps
    BY <1>12 DEF Rewrite
  <2>3. rmap \in [Tmps -> Registers]
    <3>1. \A t \in Tmps : rmap[t] # None /\ rmap[t] \in Registers \cup {None}
      <4>1. li = block.tmps + 1
        BY <1>0, <2>2 DEF TypeOK, Tmps
      <4>2. \A t \in Tmps : rmap[t] # None
        BY <1>0, <2>2, <4>1 DEF Decided, Scanning, Tmps
      <4>. QED  BY <2>2, <4>2 DEF TypeOK
    <3>. QED  BY <2>2, <3>1 DEF TypeOK
  <2>4. callAt' \in Nat
    <3>1. CASE Calls = {}
      BY <1>12, <3>1 DEF Rewrite, TypeOK
    <3>2. CASE Calls # {}
      <4>1. Calls \in SUBSET Nat
        BY <2>2, ShapeFacts, BlockFacts DEF Calls
      <4>2. IsMin(Min(Calls), Calls)
        BY <3>2, <4>1, MinOf
      <4>. QED  BY <1>12, <3>2, <4>1, <4>2 DEF Rewrite, IsMin
    <3>. QED  BY <3>1, <3>2
  <2>5. hasCalls' \in BOOLEAN
    BY <1>12 DEF Rewrite
  <2>6. /\ UNCHANGED <<source, body, bi, rmap, active, prevActive, at, counter>>
        /\ UNCHANGED <<maxCalleeSave, maxCallSave>> /\ li' = 1
    BY <1>12 DEF Rewrite
  <2>7. TypeOK'
    BY <1>0, <2>1, <2>2, <2>3, <2>4, <2>5, <2>6 DEF TypeOK
  <2>. QED  BY <2>1, <2>2, <2>6, <2>7 DEF Shape, Decided, Scanning
<1>13. CASE SkipSave
  <2>1. block' = block /\ Tmps' = Tmps /\ NB' = NB
    BY <1>13, SameBlock DEF SkipSave
  <2>. QED  BY <1>0, <1>13, <2>1 DEF SkipSave, Shape, Decided, Scanning, TypeOK, Tmps, saveVars, fnVars
<1>14. CASE Save
  <2>1. block' = block /\ Tmps' = Tmps /\ NB' = NB
    BY <1>14, SameBlock DEF Save
  <2>. QED  BY <1>0, <1>14, <2>1 DEF Save, Shape, Decided, Scanning, TypeOK, Tmps, fnVars
<1>15. CASE EndSaves
  <2>1. block' = block /\ Tmps' = Tmps /\ NB' = NB
    BY <1>15, SameBlock DEF EndSaves
  <2>. QED  BY <1>0, <1>15, <2>1 DEF EndSaves, Shape, Decided, Scanning, TypeOK, Tmps, fnVars
<1>16. CASE SkipRestore
  <2>1. block' = block /\ Tmps' = Tmps /\ NB' = NB
    BY <1>16, SameBlock DEF SkipRestore
  <2>. QED  BY <1>0, <1>16, <2>1 DEF SkipRestore, Shape, Decided, Scanning, TypeOK, Tmps, saveVars, fnVars
<1>17. CASE Restore
  <2>1. block' = block /\ Tmps' = Tmps /\ NB' = NB
    BY <1>17, SameBlock DEF Restore
  <2>. QED  BY <1>0, <1>17, <2>1 DEF Restore, Shape, Decided, Scanning, TypeOK, Tmps, fnVars
<1>18. CASE EndRestores
  <2>1. block' = block /\ Tmps' = Tmps /\ NB' = NB
    BY <1>18, SameBlock DEF EndRestores
  <2>2. maxCallSave' \in Nat
    <3>1. maxCallSave \in Nat /\ counter \in Nat
      BY DEF TypeOK
    <3>2. Max({maxCallSave, counter}) = IF maxCallSave >= counter THEN maxCallSave ELSE counter
      BY <3>1, MaxOfTwo
    <3>. QED  BY <1>18, <3>1, <3>2 DEF EndRestores
  <2>. QED  BY <1>0, <1>18, <2>1, <2>2 DEF EndRestores, Shape, Decided, Scanning, TypeOK, scanVars, saveVars
<1>19. CASE Finish
  <2>1. block' = block /\ Tmps' = Tmps /\ NB' = NB
    BY <1>19, SameBlock DEF Finish
  <2>. QED  BY <1>0, <1>19, <2>1 DEF Finish, Shape, Decided, Scanning, TypeOK, scanVars, saveVars, fnVars
<1>20. CASE UNCHANGED vars
  <2>1. block' = block /\ Tmps' = Tmps /\ NB' = NB
    BY <1>20, SameBlock DEF vars
  <2>. QED  BY <1>20, <2>1 DEF vars, Shape, Decided, Scanning, TypeOK, scanVars, saveVars, fnVars
<1>. QED  BY <1>1, <1>2, <1>3, <1>4, <1>5, <1>6, <1>7, <1>8, <1>9, <1>10, <1>11, <1>12,
             <1>13, <1>14, <1>15, <1>16, <1>17, <1>18, <1>19, <1>20 DEF Next

-----------------------------------------------------------------------------
(* The collection of active lifetimes. When lifetime l is under the loop    *)
(* and m is the map so far, t is seen if it was given a register on the     *)
(* path that keeps the collection.                                          *)

Seen(t, l, m)    == t < l /\ MovesIn(t) = {} /\ m[t] # Hint(t)
Tracked(t, l, m) == t >= l \/ Seen(t, l, m)
Alive(t, l)      == End(t) > Start(l)
Holds(s, t)      == \E i \in DOMAIN s : s[i] = t

\* what is alive, and stands before a member in the vector of lifetimes,
\* stands before it here
Closed(s, l, m) ==
  \A j \in DOMAIN s : \A t \in Tmps :
    t < s[j] /\ Tracked(t, l, m) /\ Alive(t, l) => \E i \in 1 .. j - 1 : s[i] = t

HasSeen(s, l, m) == \A t \in Tmps : Seen(t, l, m) /\ Alive(t, l) => Holds(s, t)

InReach(s, l) == \A j \in DOMAIN s : Alive(s[j], l) /\ Start(s[j]) < End(l)

CollectInv ==
  /\ phase \in {"scan", "prev", "rest", "pick"} /\ li \in Tmps =>
       Closed(prevActive, li, rmap) /\ HasSeen(prevActive, li, rmap)
  /\ phase \in {"prev", "rest", "pick", "aborted"} =>
       Closed(active, li, rmap) /\ InReach(active, li)
  /\ phase \in {"rest", "pick"} => HasSeen(active, li, rmap)
  /\ phase = "prev" =>
       /\ at \in 1 .. Len(prevActive) + 1
       /\ \A i \in 1 .. at - 1 : Alive(prevActive[i], li) => Holds(active, prevActive[i])
  /\ phase = "rest" =>
       /\ at \in 1 .. block.tmps - li + 2
       /\ \A u \in li .. li + at - 2 : Alive(u, li) => Holds(active, u)
  /\ phase = "pick" =>
       \A u \in Tmps : u >= li /\ Alive(u, li) /\ Start(u) < End(li) => Holds(active, u)

LEMMA Advance ==
  ASSUME BlockOK, NEW l \in Tmps, l + 1 \in Tmps, NEW m, NEW n,
         NEW s \in Seq(Tmps), Closed(s, l, m), HasSeen(s, l, m),
         \A t \in 1 .. l - 1 : n[t] = m[t],
         Seen(l, l + 1, n) /\ Alive(l, l + 1) => Holds(s, l)
  PROVE  Closed(s, l + 1, n) /\ HasSeen(s, l + 1, n)
<1>1. /\ l \in Nat /\ IsLifetime(l) /\ IsLifetime(l + 1) /\ Start(l) <= Start(l + 1)
      /\ Start(l) \in Nat /\ Start(l + 1) \in Nat
  <2>1. l \in Nat /\ l < l + 1
    BY DEF Tmps
  <2>2. IsLifetime(l) /\ IsLifetime(l + 1) /\ Start(l) <= Start(l + 1)
    BY <2>1, LifetimeFacts, StartsInOrder
  <2>. QED  BY <2>1, <2>2, BlockFacts DEF IsLifetime, EndPos
<1>2. ASSUME NEW t \in Tmps, Alive(t, l + 1) PROVE Alive(t, l) /\ t \in Nat
  <2>1. End(t) \in Nat /\ t \in Nat
    BY Positions
  <2>. QED  BY <1>1, <1>2, <2>1 DEF Alive
<1>3. ASSUME NEW t \in Tmps, Tracked(t, l + 1, n) PROVE Tracked(t, l, m)
  <2>1. t \in Nat \ {0}
    BY DEF Tmps
  <2>2. CASE t >= l
    BY <2>2 DEF Tracked
  <2>3. CASE t < l
    <3>1. Seen(t, l + 1, n) /\ n[t] = m[t]
      BY <1>1, <1>3, <2>1, <2>3 DEF Tracked
    <3>. QED  BY <2>3, <3>1 DEF Tracked, Seen
  <2>. QED  BY <1>1, <2>1, <2>2, <2>3
<1>4. Closed(s, l + 1, n)
  BY <1>2, <1>3 DEF Closed
<1>5. ASSUME NEW t \in Tmps, Seen(t, l + 1, n), Alive(t, l + 1) PROVE Holds(s, t)
  <2>1. t \in Nat \ {0} /\ t < l + 1 /\ Alive(t, l)
    BY <1>2, <1>5 DEF Seen, Tmps
  <2>2. CASE t = l
    BY <1>5, <2>2
  <2>3. CASE t < l
    <3>1. Seen(t, l, m)
      BY <1>1, <1>5, <2>1, <2>3 DEF Seen
    <3>. QED  BY <2>1, <3>1 DEF HasSeen
  <2>. QED  BY <1>1, <2>1, <2>2, <2>3
<1>. QED  BY <1>4, <1>5 DEF HasSeen

\* what is alive at li and before it starts before its end
LEMMA EarlierIsInReach ==
  ASSUME BlockOK, NEW l \in Tmps, NEW t \in Tmps, t < l
  PROVE  Start(t) < End(l)
<1>1. IsLifetime(l) /\ IsLifetime(t) /\ Start(t) <= Start(l) /\ (l > block.params => Start(t) < Start(l))
  BY LifetimeFacts, StartsInOrder
<1>2. /\ Start(t) \in Nat /\ Start(l) \in Nat /\ End(l) \in Nat /\ Start(l) <= End(l)
      /\ block.params \in Nat /\ l \in Nat
  BY <1>1, BlockFacts DEF IsLifetime, EndPos, Tmps
<1>3. CASE l > block.params
  BY <1>1, <1>2, <1>3
<1>4. CASE l <= block.params
  <2>1. Start(l) = 0 /\ End(l) > 0
    BY <1>1, <1>4 DEF IsLifetime
  <2>. QED  BY <1>1, <1>2, <2>1
<1>. QED  BY <1>2, <1>3, <1>4

\* the walk over the previous collection ends with nothing overlooked
LEMMA PrevWalked ==
  ASSUME TypeInv, BlockOK, CollectInv, phase = "prev",
         Walking => ~Over(Walked[at]) /\ Later(Walked[at])
  PROVE  HasSeen(active, li, rmap)
<1>1. /\ li \in Tmps /\ li \in Nat /\ prevActive \in Seq(Tmps) /\ at \in 1 .. Len(prevActive) + 1
      /\ DOMAIN prevActive = 1 .. Len(prevActive) /\ Len(prevActive) \in Nat
      /\ Closed(prevActive, li, rmap) /\ HasSeen(prevActive, li, rmap)
      /\ \A i \in 1 .. at - 1 : Alive(prevActive[i], li) => Holds(active, prevActive[i])
  BY LenProperties DEF TypeInv, TypeOK, Decided, CollectInv, Tmps
<1>. SUFFICES ASSUME NEW t \in Tmps, Seen(t, li, rmap), Alive(t, li) PROVE Holds(active, t)
  BY DEF HasSeen
<1>2. PICK i \in DOMAIN prevActive : prevActive[i] = t
  BY <1>1 DEF HasSeen, Holds
<1>3. CASE i < at
  BY <1>1, <1>2, <1>3
<1>4. CASE i >= at
  <2>1. at \in DOMAIN prevActive
    BY <1>1, <1>4
  <2>2. Walking /\ Walked[at] = prevActive[at]
    BY <2>1 DEF Walking, Walked
  <2>. DEFINE w == prevActive[at]
  <2>3. w \in Tmps /\ Start(w) >= End(li)
    BY <1>1, <2>1, <2>2, ElementOfSeq DEF Later
  <2>4. t < li
    BY DEF Seen
  <2>5. Start(t) < End(li)
    BY <1>1, <2>4, EarlierIsInReach
  <2>6. /\ Start(t) \in Nat /\ Start(w) \in Nat /\ End(li) \in Nat /\ t \in Nat /\ w \in Nat
    BY <1>1, <2>3, Positions
  <2>7. ~(w < t)
    <3>1. w < t => Start(w) <= Start(t)
      BY <2>3, StartsInOrder
    <3>. QED  BY <2>3, <2>5, <2>6, <3>1
  <2>8. w # t
    BY <2>3, <2>5, <2>6
  <2>9. t < w
    BY <2>6, <2>7, <2>8
  <2>10. PICK j \in 1 .. at - 1 : prevActive[j] = t
    BY <1>1, <2>1, <2>9 DEF Closed, Tracked
  <2>. QED  BY <1>1, <2>10
<1>. QED  BY <1>1, <1>3, <1>4

\* and so does the walk over the lifetimes from li on
LEMMA RestWalked ==
  ASSUME TypeInv, BlockOK, CollectInv, phase = "rest",
         Walking => ~Over(Walked[at]) /\ Later(Walked[at]),
         NEW u \in Tmps, u >= li, Alive(u, li), Start(u) < End(li)
  PROVE  Holds(active, u)
<1>1. /\ li \in Tmps /\ li \in Nat /\ at \in 1 .. block.tmps - li + 2 /\ block.tmps \in Nat
      /\ \A v \in li .. li + at - 2 : Alive(v, li) => Holds(active, v)
      /\ u \in Nat /\ u <= block.tmps
  BY BlockFacts DEF TypeInv, Decided, CollectInv, Tmps
<1>2. CASE u <= li + at - 2
  <2>1. u \in li .. li + at - 2
    BY <1>1, <1>2
  <2>. QED  BY <1>1, <2>1
<1>3. CASE u > li + at - 2
  <2>. DEFINE w == li + at - 1
  <2>1. at \in 1 .. block.tmps - li + 1 /\ w \in Tmps /\ w \in Nat /\ w <= u
    BY <1>1, <1>3 DEF Tmps
  <2>2. Walking /\ Walked[at] = w
    BY <2>1 DEF Walking, Walked
  <2>. HIDE DEF w
  <2>3. Start(w) >= End(li)
    BY <2>2 DEF Later
  <2>4. Start(w) <= Start(u)
    <3>1. CASE w = u
      <4>1. Start(u) \in Nat
        BY LifetimeFacts, BlockFacts DEF IsLifetime, EndPos
      <4>. QED  BY <3>1, <4>1
    <3>2. CASE w < u
      BY <2>1, <3>2, StartsInOrder
    <3>. QED  BY <1>1, <2>1, <3>1, <3>2
  <2>5. Start(u) \in Nat /\ Start(w) \in Nat /\ End(li) \in Nat
    BY <1>1, <2>1, LifetimeFacts, BlockFacts DEF IsLifetime, EndPos
  <2>. QED  BY <2>3, <2>4, <2>5
<1>. QED  BY <1>1, <1>2, <1>3

\* appending what is walked over keeps the order
LEMMA KeptInOrder ==
  ASSUME TypeInv, BlockOK, CollectInv, Walking, ~Over(Walked[at]), ~Later(Walked[at])
  PROVE  /\ Closed(Append(active, Walked[at]), li, rmap) /\ InReach(Append(active, Walked[at]), li)
         /\ \A t \in Tmps : Holds(active, t) => Holds(Append(active, Walked[at]), t)
         /\ Holds(Append(active, Walked[at]), Walked[at]) /\ Alive(Walked[at], li)
<1>. DEFINE w == Walked[at]
            s == Append(active, w)
<1>1. /\ w \in Tmps /\ at \in Nat \ {0} /\ li \in Tmps /\ active \in Seq(Tmps) /\ phase \in {"prev", "rest"}
      /\ Closed(active, li, rmap) /\ InReach(active, li)
      /\ li \in Nat /\ block.tmps \in Nat
  <2>1. phase \in {"prev", "rest"}
    BY DEF Walking
  <2>2. li \in Tmps /\ active \in Seq(Tmps)
    BY <2>1 DEF TypeInv, TypeOK, Decided
  <2>3. Closed(active, li, rmap) /\ InReach(active, li)
    BY <2>1 DEF CollectInv
  <2>. QED  BY <2>1, <2>2, <2>3, WalkedFacts, BlockFacts, Positions
<1>2. Alive(w, li) /\ Start(w) < End(li)
  <2>1. Start(li) \in Nat /\ End(li) \in Nat /\ Start(w) \in Nat /\ End(w) \in Nat
    BY <1>1, LifetimeFacts, BlockFacts DEF IsLifetime, EndPos
  <2>. QED  BY <2>1 DEF Over, Later, Alive
<1>. DEFINE n == Len(active)
<1>3. ASSUME NEW t \in Tmps, t < w, Tracked(t, li, rmap), Alive(t, li)
      PROVE  \E i \in DOMAIN active : active[i] = t
  <2>1. CASE phase = "prev"
    <3>1. at \in DOMAIN prevActive /\ w = prevActive[at] /\ DOMAIN prevActive = 1 .. Len(prevActive)
      BY <2>1, WalkedFacts, LenProperties DEF TypeInv, TypeOK
    <3>2. Closed(prevActive, li, rmap)
      BY <1>1, <2>1 DEF CollectInv
    <3>3. PICK i \in 1 .. at - 1 : prevActive[i] = t
      BY <1>3, <3>1, <3>2 DEF Closed
    <3>. QED  BY <1>3, <2>1, <3>3 DEF CollectInv, Holds
  <2>2. CASE phase = "rest"
    <3>1. w = li + at - 1 /\ t \in Nat
      BY <2>2, WalkedFacts DEF Tmps
    <3>2. CASE t < li
      <4>1. Seen(t, li, rmap)
        BY <1>1, <1>3, <3>1, <3>2 DEF Tracked
      <4>. QED  BY <1>3, <2>2, <4>1 DEF CollectInv, HasSeen, Holds
    <3>3. CASE t >= li
      <4>1. t \in li .. li + at - 2
        BY <1>1, <1>3, <3>1, <3>3
      <4>. QED  BY <1>3, <2>2, <4>1 DEF CollectInv, Holds
    <3>. QED  BY <1>1, <3>1, <3>2, <3>3
  <2>. QED  BY <1>1, <2>1, <2>2
<1>4. /\ n \in Nat /\ DOMAIN active = 1 .. n /\ DOMAIN s = 1 .. n + 1 /\ s[n + 1] = w
      /\ \A i \in 1 .. n : s[i] = active[i]
  BY <1>1, LenProperties
<1>. HIDE DEF s, w, n
<1>5. Closed(s, li, rmap)
  <2>. SUFFICES ASSUME NEW j \in DOMAIN s, NEW t \in Tmps, t < s[j], Tracked(t, li, rmap), Alive(t, li)
                PROVE  \E i \in 1 .. j - 1 : s[i] = t
    BY DEF Closed
  <2>1. CASE j \in 1 .. n
    <3>1. PICK i \in 1 .. j - 1 : active[i] = t
      BY <1>1, <1>4, <2>1 DEF Closed
    <3>. QED  BY <1>4, <2>1, <3>1
  <2>2. CASE j = n + 1
    <3>1. PICK i \in 1 .. n : active[i] = t
      BY <1>3, <1>4, <2>2
    <3>. QED  BY <1>4, <2>2, <3>1
  <2>. QED  BY <1>4, <2>1, <2>2
<1>6. InReach(s, li)
  <2>. SUFFICES ASSUME NEW j \in DOMAIN s PROVE Alive(s[j], li) /\ Start(s[j]) < End(li)
    BY DEF InReach
  <2>1. CASE j \in 1 .. n
    BY <1>1, <1>4, <2>1 DEF InReach
  <2>2. CASE j = n + 1
    BY <1>2, <1>4, <2>2
  <2>. QED  BY <1>4, <2>1, <2>2
<1>7. ASSUME NEW t \in Tmps, Holds(active, t) PROVE Holds(s, t)
  <2>1. PICK i \in 1 .. n : active[i] = t
    BY <1>4, <1>7 DEF Holds
  <2>. QED  BY <1>4, <2>1 DEF Holds
<1>8. Holds(s, w)
  BY <1>4 DEF Holds
<1>. QED  BY <1>2, <1>5, <1>6, <1>7, <1>8 DEF s, w

-----------------------------------------------------------------------------
(* The choice of a register.                                                *)

Given(t) == phase \in Scanning => t < li

\* a hint taken from a register that no later load needs before t ends;
\* anything else, where there is room, is not an argument register
Settled(t, m) ==
  IF m[t] = Hint(t)
  THEN \A w \in Tmps : t < w /\ MovesIn(w) # {} /\ Start(w) < End(t) => m[w] # m[t]
  ELSE Roomy => m[t] \in RoomSet

\* t, on the path that keeps the collection, against a later computed u
Apart(t, u, m) ==
  t < u /\ MovesIn(t) = {} /\ m[t] # Hint(t) /\ MovesIn(u) = {} /\ End(t) > Start(u)
    => m[t] # m[u]

RegInv ==
  phase \notin {"abi", "collect"} =>
    /\ \A t \in Tmps : MovesIn(t) # {} => rmap[t] = Precoloured[t]
    /\ phase \in Scanning => \A t \in Tmps : t >= li => rmap[t] = Precoloured[t]
    /\ \A u \in Tmps : Given(u) /\ MovesIn(u) = {} =>
         Settled(u, rmap) /\ \A t \in Tmps : Apart(t, u, rmap)

ScanInv == TypeInv /\ CollectInv /\ RegInv

\* what holds with map m after register r is chosen for li
HoldsAfter(m, r) ==
  /\ \A t \in Tmps : MovesIn(t) # {} => m[t] = Precoloured[t]
  /\ \A t \in Tmps : t >= li + 1 => m[t] = Precoloured[t]
  /\ \A u \in Tmps : u < li + 1 /\ MovesIn(u) = {} =>
       Settled(u, m) /\ \A t \in Tmps : Apart(t, u, m)
  /\ m[li] = r /\ \A t \in 1 .. li - 1 : m[t] = rmap[t]

\* a choice for li that holds to what was said keeps everything
LEMMA Chosen ==
  ASSUME ScanInv, BlockOK, phase = "pick", NEW r \in Registers, r \notin Reserved,
         NEW m, m = [rmap EXCEPT ![li] = r], r # Hint(li) => (Roomy => r \in RoomSet)
  PROVE  HoldsAfter(m, r)
<1>1. /\ li \in Tmps /\ li \in Nat \ {0} /\ rmap[li] = None /\ None \notin Registers
      /\ rmap \in [Tmps -> Registers \cup {None}]
      /\ Closed(active, li, rmap) /\ InReach(active, li) /\ HasSeen(active, li, rmap)
      /\ \A u \in Tmps : u >= li /\ Alive(u, li) /\ Start(u) < End(li) => Holds(active, u)
      /\ active \in Seq(Tmps)
  <2>1. li \in Tmps /\ rmap[li] = None /\ rmap \in [Tmps -> Registers \cup {None}] /\ active \in Seq(Tmps)
    BY DEF ScanInv, TypeInv, TypeOK, Decided
  <2>2. /\ Closed(active, li, rmap) /\ InReach(active, li) /\ HasSeen(active, li, rmap)
        /\ \A u \in Tmps : u >= li /\ Alive(u, li) /\ Start(u) < End(li) => Holds(active, u)
    BY DEF ScanInv, CollectInv
  <2>. QED  BY <2>1, <2>2, Positions, RegisterFacts
<1>2. m[li] = r /\ \A t \in Tmps : t # li => m[t] = rmap[t]
  BY <1>1
<1>3. /\ \A t \in Tmps : MovesIn(t) # {} => rmap[t] = Precoloured[t]
      /\ \A t \in Tmps : t >= li => rmap[t] = Precoloured[t]
      /\ \A u \in Tmps : u < li /\ MovesIn(u) = {} =>
           Settled(u, rmap) /\ \A t \in Tmps : Apart(t, u, rmap)
  BY DEF ScanInv, RegInv, Given, Scanning
<1>4. MovesIn(li) = {}
  <2>1. MovesIn(li) # {} => Precoloured[li] \in Registers
    BY <1>1, LoadFacts, RegisterFacts DEF IsLoaded
  <2>. QED  BY <1>1, <1>3, <2>1
<1>5. ASSUME NEW w \in Tmps, Holds(active, w) PROVE rmap[w] # r
  <2>1. PICK k \in DOMAIN active : active[k] = w
    BY <1>5 DEF Holds
  <2>2. rmap[w] # None => rmap[w] \in Reserved
    BY <2>1 DEF Reserved
  <2>. QED  BY <1>1, <2>2
<1>6. \A t \in Tmps : MovesIn(t) # {} => m[t] = Precoloured[t]
  BY <1>2, <1>3, <1>4
<1>7. \A t \in Tmps : t >= li + 1 => m[t] = Precoloured[t]
  <2>1. \A t \in Tmps : t >= li + 1 => t # li /\ t >= li
    BY <1>1, Positions
  <2>. QED  BY <1>2, <1>3, <2>1
<1>8. Settled(li, m)
  <2>1. CASE m[li] = Hint(li)
    <3>. SUFFICES ASSUME NEW w \in Tmps, li < w, MovesIn(w) # {}, Start(w) < End(li) PROVE m[w] # r
      BY <1>2, <2>1 DEF Settled
    <3>1. IsLoaded(w)
      BY LoadFacts
    <3>2. Start(li) < Start(w)
      BY <1>1, <3>1, StartsInOrder DEF IsLoaded
    <3>3. w >= li /\ w # li /\ Alive(w, li)
      BY <1>1, <3>2, Positions DEF Alive
    <3>4. Holds(active, w)
      BY <1>1, <3>3
    <3>. QED  BY <1>2, <1>5, <3>3, <3>4
  <2>2. CASE m[li] # Hint(li)
    BY <1>2, <2>2 DEF Settled
  <2>. QED  BY <2>1, <2>2
<1>9. ASSUME NEW t \in Tmps PROVE Apart(t, li, m)
  <2>. SUFFICES ASSUME t < li, MovesIn(t) = {}, m[t] # Hint(t), End(t) > Start(li) PROVE m[t] # r
    BY <1>2 DEF Apart
  <2>1. t # li
    BY <1>1
  <2>2. Seen(t, li, rmap) /\ Alive(t, li)
    BY <1>2, <2>1 DEF Seen, Alive
  <2>3. Holds(active, t)
    BY <1>1, <2>2 DEF HasSeen
  <2>. QED  BY <1>2, <1>5, <2>1, <2>3
<1>10. ASSUME NEW u \in Tmps, u < li, MovesIn(u) = {} PROVE Settled(u, m)
  <2>1. Settled(u, rmap) /\ u # li /\ m[u] = rmap[u]
    BY <1>1, <1>2, <1>3, <1>10
  <2>2. \A w \in Tmps : MovesIn(w) # {} => m[w] = rmap[w]
    BY <1>3, <1>6
  <2>. QED  BY <2>1, <2>2 DEF Settled
<1>11. ASSUME NEW u \in Tmps, u < li, MovesIn(u) = {}, NEW t \in Tmps PROVE Apart(t, u, m)
  <2>1. CASE t < u
    <3>1. t # li /\ u # li
      BY <1>1, <1>11, <2>1, Positions
    <3>. QED  BY <1>2, <1>3, <1>11, <3>1 DEF Apart
  <2>2. CASE ~(t < u)
    BY <2>2 DEF Apart
  <2>. QED  BY <2>1, <2>2
<1>12. ASSUME NEW u \in Tmps, u < li + 1 PROVE u < li \/ u = li
  BY <1>1, <1>12, Positions
<1>13. \A t \in 1 .. li - 1 : m[t] = rmap[t]
  BY <1>1, <1>2, BlockFacts DEF Tmps
<1>. QED  BY <1>2, <1>6, <1>7, <1>8, <1>9, <1>10, <1>11, <1>12, <1>13 DEF HoldsAfter

\* the values that wait at the start of li fill every t and s register
\* only if they are more than that
LEMMA RoomLeft ==
  ASSUME ScanInv, BlockOK, phase = "pick", Roomy
  PROVE  \E i \in 1 .. NRoom : Order[i] \notin Reserved
<1>. SUFFICES ASSUME \A i \in 1 .. NRoom : Order[i] \in Reserved PROVE FALSE
  OBVIOUS
<1>1. /\ li \in Tmps /\ li \in Nat \ {0} /\ rmap[li] = None
      /\ active \in Seq(Tmps) /\ DOMAIN active = 1 .. Len(active) /\ Len(active) \in Nat
      /\ InReach(active, li)
  <2>1. li \in Tmps /\ rmap[li] = None /\ active \in Seq(Tmps)
    BY DEF ScanInv, TypeInv, TypeOK, Decided
  <2>. QED  BY <2>1, Positions, LenProperties DEF ScanInv, CollectInv
<1>2. /\ \A t \in Tmps : MovesIn(t) # {} => rmap[t] = Precoloured[t]
      /\ \A t \in Tmps : t >= li => rmap[t] = Precoloured[t]
  BY DEF ScanInv, RegInv, Scanning
<1>. DEFINE p == Start(li)
            W == Waiting(p)
            V == W \ {li}
<1>3. IsFiniteSet(W) /\ Cardinality(W) <= NRoom /\ li \in W
  <2>1. IsFiniteSet(Tmps) /\ W \subseteq Tmps
    <3>1. 1 \in Int /\ block.tmps \in Int
      BY BlockFacts
    <3>2. IsFiniteSet(1 .. block.tmps)
      BY <3>1, FS_Interval
    <3>. QED  BY <3>2 DEF Tmps, Waiting
  <2>2. p \in 0 .. EndPos
    BY <1>1, LifetimeFacts, BlockFacts DEF IsLifetime, EndPos
  <2>3. Cardinality(W) <= NRoom
    BY <2>2 DEF Roomy, NRoom
  <2>4. MovesIn(li) = {}
    <3>1. MovesIn(li) # {} => Precoloured[li] \in Registers
      BY <1>1, LoadFacts, RegisterFacts DEF IsLoaded
    <3>. QED  BY <1>1, <1>2, <3>1, RegisterFacts
  <2>5. li \in W
    BY <1>1, <2>4, Positions DEF Waiting
  <2>. QED  BY <2>1, <2>3, <2>5, FS_Subset
<1>4. ASSUME NEW x \in Tmps, NEW k \in DOMAIN active, active[k] = x, rmap[x] \in RoomSet
      PROVE  x \in V
  <2>1. End(x) > p
    BY <1>1, <1>4 DEF InReach, Alive
  <2>2. rmap[x] \notin ArgSet /\ rmap[x] # None
    BY <1>4, RegisterFacts
  <2>3. MovesIn(x) = {} /\ (x >= li => rmap[x] = None)
    <3>1. IF MovesIn(x) = {} THEN IsComputed(x) ELSE IsLoaded(x)
      BY LoadFacts
    <3>2. MovesIn(x) = {}
      BY <1>2, <2>2, <3>1 DEF IsLoaded
    <3>. QED  BY <1>2, <3>1, <3>2 DEF IsComputed
  <2>4. x \in Nat /\ Start(x) \in Nat /\ p \in Nat /\ End(x) \in Nat
    BY <1>1, Positions
  <2>5. x < li /\ x # li
    BY <1>1, <2>2, <2>3, <2>4
  <2>6. Start(x) <= p
    BY <1>1, <2>5, StartsInOrder
  <2>. QED  BY <2>1, <2>3, <2>4, <2>5, <2>6 DEF Waiting
<1>5. ASSUME NEW i \in 1 .. NRoom PROVE \E x \in V : rmap[x] = Order[i]
  <2>1. PICK k \in DOMAIN active : rmap[active[k]] = Order[i]
    BY DEF Reserved
  <2>2. active[k] \in Tmps
    BY <1>1, ElementOfSeq
  <2>. QED  BY <1>4, <2>1, <2>2 DEF RoomSet
<1>. DEFINE f == [i \in 1 .. NRoom |-> CHOOSE x \in V : rmap[x] = Order[i]]
<1>. HIDE DEF V, W, p
<1>6. \A i \in 1 .. NRoom : f[i] \in V /\ rmap[f[i]] = Order[i]
  BY <1>5
<1>7. f \in [1 .. NRoom -> V]
  BY <1>6
<1>. HIDE DEF f
<1>8. f \in Injection(1 .. NRoom, V)
  <2>1. ASSUME NEW i \in 1 .. NRoom, NEW j \in 1 .. NRoom, f[i] = f[j] PROVE i = j
    <3>1. Order[i] = Order[j] /\ i \in DOMAIN Order /\ j \in DOMAIN Order
      BY <1>6, <2>1, OrderFacts
    <3>. QED  BY <3>1, OrderFacts
  <2>. QED  BY <1>7, <2>1 DEF Injection, IsInjective
<1>9. IsFiniteSet(V) /\ Cardinality(V) = Cardinality(W) - 1
  BY <1>3, FS_RemoveElement DEF V
<1>10. Cardinality(1 .. NRoom) <= Cardinality(V)
  BY <1>8, <1>9, FS_Injection
<1>11. Cardinality(1 .. NRoom) = NRoom /\ NRoom \in Nat
  BY OrderFacts, FS_Interval
<1>12. Cardinality(W) \in Nat
  BY <1>3, FS_CardinalityType
<1>. QED  BY <1>3, <1>9, <1>10, <1>11, <1>12

\* Precoloured by what it depends on
LoadOf(b, in) == IF in = {} THEN None ELSE CHOOSE r \in b.insns[Max(in)].in : TRUE

LEMMA SameRoom ==
  ASSUME source' = source, body' = body, bi' = bi
  PROVE  Roomy' = Roomy /\ Precoloured' = Precoloured
<1>1. /\ block' = block /\ Tmps' = Tmps /\ EndPos' = EndPos
      /\ \A t : MovesIn(t)' = MovesIn(t) /\ Start(t)' = Start(t) /\ End(t)' = End(t)
  BY SameBlock
<1>2. ASSUME NEW k PROVE Waiting(k)' = Waiting(k)
  BY <1>1 DEF Waiting
<1>3. Roomy' = Roomy
  BY <1>1, <1>2 DEF Roomy
<1>4. Precoloured' = Precoloured
  <2>1. Precoloured = [t \in Tmps |-> LoadOf(block, MovesIn(t))]
    BY DEF Precoloured, LoadOf
  <2>2. Precoloured' = [t \in Tmps' |-> LoadOf(block', MovesIn(t)')]
    BY DEF Precoloured, LoadOf
  <2>. QED  BY <1>1, <2>1, <2>2
<1>. QED  BY <1>3, <1>4

LEMMA SameRegisters ==
  ASSUME RegInv, source' = source, body' = body, bi' = bi, rmap' = rmap,
         phase \notin {"abi", "collect"},
         phase' \in Scanning => phase \in Scanning /\ \A t \in Tmps : t >= li' => t >= li,
         \A u \in Tmps : Given(u)' => Given(u) \/ MovesIn(u) # {}
  PROVE  RegInv'
<1>1. /\ block' = block /\ Tmps' = Tmps
      /\ \A t : /\ MovesIn(t)' = MovesIn(t) /\ Start(t)' = Start(t) /\ End(t)' = End(t)
                /\ Hint(t)' = Hint(t)
      /\ Roomy' = Roomy /\ Precoloured' = Precoloured
  BY SameBlock, SameRoom
<1>2. /\ \A t \in Tmps : MovesIn(t) # {} => rmap[t] = Precoloured[t]
      /\ phase \in Scanning => \A t \in Tmps : t >= li => rmap[t] = Precoloured[t]
      /\ \A u \in Tmps : Given(u) /\ MovesIn(u) = {} =>
           Settled(u, rmap) /\ \A t \in Tmps : Apart(t, u, rmap)
  BY DEF RegInv
<1>3. ASSUME NEW u \in Tmps, Given(u)', MovesIn(u) = {}
      PROVE  Settled(u, rmap)' /\ \A t \in Tmps : Apart(t, u, rmap)'
  <2>1. Settled(u, rmap) /\ \A t \in Tmps : Apart(t, u, rmap)
    BY <1>2, <1>3
  <2>2. Settled(u, rmap)'
    BY <1>1, <2>1 DEF Settled
  <2>3. \A t \in Tmps : Apart(t, u, rmap)'
    BY <1>1, <2>1 DEF Apart
  <2>. QED  BY <2>2, <2>3
<1>. QED  BY <1>1, <1>2, <1>3 DEF RegInv

\* a step of the scan that leaves the block alone, and what it must show of
\* the collections
LEMMA SameCollection ==
  ASSUME source' = source, body' = body, bi' = bi, rmap' = rmap, li' = li,
         CollectInv, phase \in {"scan", "prev", "rest", "pick"}, prevActive' = prevActive,
         phase' \in {"scan", "prev", "rest", "pick", "aborted"},
         phase' # "scan" => Closed(active', li, rmap) /\ InReach(active', li),
         phase' \in {"rest", "pick"} => HasSeen(active', li, rmap),
         phase' = "prev" =>
           /\ at' \in 1 .. Len(prevActive) + 1
           /\ \A i \in 1 .. at' - 1 : Alive(prevActive[i], li) => Holds(active', prevActive[i]),
         phase' = "rest" =>
           /\ at' \in 1 .. block.tmps - li + 2
           /\ \A u \in li .. li + at' - 2 : Alive(u, li) => Holds(active', u),
         phase' = "pick" =>
           \A u \in Tmps : u >= li /\ Alive(u, li) /\ Start(u) < End(li) => Holds(active', u)
  PROVE  CollectInv'
<1>1. /\ block' = block /\ Tmps' = Tmps
      /\ \A t : /\ MovesIn(t)' = MovesIn(t) /\ Start(t)' = Start(t) /\ End(t)' = End(t)
                /\ Hint(t)' = Hint(t)
  BY SameBlock
<1>2. li \in Tmps => Closed(prevActive, li, rmap) /\ HasSeen(prevActive, li, rmap)
  BY DEF CollectInv
<1>3. li \in Tmps => Closed(prevActive, li, rmap)'
  BY <1>1, <1>2 DEF Closed, Tracked, Seen, Alive
<1>4. li \in Tmps => HasSeen(prevActive, li, rmap)'
  BY <1>1, <1>2 DEF HasSeen, Seen, Alive, Holds
<1>5. phase' # "scan" => Closed(active, li, rmap)'
  BY <1>1 DEF Closed, Tracked, Seen, Alive
<1>6. phase' # "scan" => InReach(active, li)'
  BY <1>1 DEF InReach, Alive
<1>7. phase' \in {"rest", "pick"} => HasSeen(active, li, rmap)'
  BY <1>1 DEF HasSeen, Seen, Alive, Holds
<1>8. phase' = "prev" =>
        (/\ at \in 1 .. Len(prevActive) + 1
         /\ \A i \in 1 .. at - 1 : Alive(prevActive[i], li) => Holds(active, prevActive[i]))'
  BY <1>1 DEF Alive, Holds
<1>9. phase' = "rest" =>
        (/\ at \in 1 .. block.tmps - li + 2
         /\ \A u \in li .. li + at - 2 : Alive(u, li) => Holds(active, u))'
  BY <1>1 DEF Alive, Holds
<1>10. phase' = "pick" =>
        (\A u \in Tmps : u >= li /\ Alive(u, li) /\ Start(u) < End(li) => Holds(active, u))'
  BY <1>1 DEF Alive, Holds
<1>. QED  BY <1>1, <1>3, <1>4, <1>5, <1>6, <1>7, <1>8, <1>9, <1>10 DEF CollectInv

\* a step to the next lifetime
LEMMA NextLifetime ==
  ASSUME source' = source, body' = body, bi' = bi, BlockOK, phase' = "scan",
         li \in Tmps, li' = li + 1, prevActive' \in Seq(Tmps),
         Closed(prevActive', li, rmap), HasSeen(prevActive', li, rmap),
         \A t \in 1 .. li - 1 : rmap'[t] = rmap[t],
         MovesIn(li) # {} \/ rmap'[li] = Hint(li) \/ (Alive(li, li) => Holds(prevActive', li))
  PROVE  CollectInv'
<1>1. /\ block' = block /\ Tmps' = Tmps
      /\ \A t : /\ MovesIn(t)' = MovesIn(t) /\ Start(t)' = Start(t) /\ End(t)' = End(t)
                /\ Hint(t)' = Hint(t)
  BY SameBlock
<1>2. ASSUME li + 1 \in Tmps
      PROVE  Closed(prevActive', li + 1, rmap') /\ HasSeen(prevActive', li + 1, rmap')
  <2>1. ASSUME Seen(li, li + 1, rmap'), Alive(li, li + 1) PROVE Holds(prevActive', li)
    <3>1. /\ li \in Nat /\ Start(li) \in Nat /\ Start(li + 1) \in Nat /\ End(li) \in Nat
          /\ li < li + 1
      BY <1>2, Positions
    <3>2. Start(li) <= Start(li + 1)
      BY <1>2, <3>1, StartsInOrder
    <3>3. Alive(li, li)
      BY <2>1, <3>1, <3>2 DEF Alive
    <3>. QED  BY <2>1, <3>3 DEF Seen
  <2>. QED  BY <1>2, <2>1, Advance
<1>3. ASSUME li' \in Tmps' PROVE Closed(prevActive, li, rmap)'
  BY <1>1, <1>2, <1>3 DEF Closed, Tracked, Seen, Alive
<1>4. ASSUME li' \in Tmps' PROVE HasSeen(prevActive, li, rmap)'
  BY <1>1, <1>2, <1>4 DEF HasSeen, Seen, Alive, Holds
<1>. QED  BY <1>3, <1>4 DEF CollectInv

LEMMA ScanInit ==
  Init => ScanInv
<1>. SUFFICES ASSUME Init PROVE ScanInv
  OBVIOUS
<1>1. TypeInv /\ phase = "abi"
  BY TypeInit DEF Init
<1>. QED  BY <1>1 DEF ScanInv, CollectInv, RegInv

LEMMA ScanNext ==
  ScanInv /\ [Next]_vars => ScanInv'
<1>. SUFFICES ASSUME ScanInv, [Next]_vars PROVE CollectInv' /\ RegInv'
  BY TypeNext DEF ScanInv
<1>0. /\ TypeInv /\ TypeInv' /\ CollectInv /\ RegInv /\ block.tmps \in Nat
      /\ phase # "abi" => BlockOK
      /\ li \in Nat \ {0} /\ (\A t \in Tmps : t \in Nat)
      /\ phase \notin {"abi", "collect"} => rmap \in [Tmps -> Registers \cup {None}]
  <2>1. TypeInv /\ TypeInv' /\ CollectInv /\ RegInv
    BY TypeNext DEF ScanInv
  <2>2. block.tmps \in Nat /\ (phase # "abi" => BlockOK)
    BY <2>1, ShapeFacts DEF TypeInv
  <2>3. li \in Nat \ {0} /\ (phase \notin {"abi", "collect"} => rmap \in [Tmps -> Registers \cup {None}])
    <3>1. TypeOK
      BY DEF ScanInv, TypeInv
    <3>. QED  BY <2>2, <3>1 DEF TypeOK
  <2>. QED  BY <2>1, <2>2, <2>3 DEF Tmps
<1>1. CASE Lower \/ NextBlock
  <2>1. phase' = "collect"
    BY <1>1 DEF Lower, NextBlock, BlockStart
  <2>. QED  BY <2>1 DEF CollectInv, RegInv
<1>2. CASE Collect
  <2>1. /\ phase = "collect" /\ phase' = "scan" /\ rmap' = Precoloured
        /\ UNCHANGED <<source, body, bi, scanVars>>
    BY <1>2 DEF Collect
  <2>2. /\ block' = block /\ Tmps' = Tmps
        /\ \A t : MovesIn(t)' = MovesIn(t)
        /\ Precoloured' = Precoloured
    BY <2>1, SameBlock, SameRoom
  <2>3. li' = 1 /\ prevActive' = <<>> /\ li = 1
    BY <1>0, <2>1 DEF TypeInv, Decided, scanVars
  <2>4. \A t \in Tmps : ~(t < 1) /\ t >= 1
    BY DEF Tmps
  <2>5. CollectInv'
    <3>1. Closed(prevActive, li, rmap)'
      BY <2>3 DEF Closed
    <3>2. HasSeen(prevActive, li, rmap)'
      BY <2>2, <2>3, <2>4 DEF HasSeen, Seen
    <3>. QED  BY <2>1, <3>1, <3>2 DEF CollectInv
  <2>6. RegInv'
    BY <2>1, <2>2, <2>3, <2>4 DEF RegInv, Given, Scanning
  <2>. QED  BY <2>5, <2>6
<1>3. CASE SkipDecided
  <2>1. /\ phase = "scan" /\ li \in Tmps /\ rmap[li] # None /\ li' = li + 1
        /\ UNCHANGED <<source, body, phase, bi, rmap, active, prevActive>>
    BY <1>3 DEF SkipDecided
  <2>2. BlockOK
    BY <1>0, <2>1
  <2>3. MovesIn(li) # {}
    <3>1. rmap[li] = Precoloured[li]
      BY <1>0, <2>1 DEF RegInv, Scanning
    <3>. QED  BY <2>1, <2>2, <3>1, LoadFacts DEF IsComputed
  <2>4. /\ prevActive \in Seq(Tmps) /\ Closed(prevActive, li, rmap) /\ HasSeen(prevActive, li, rmap)
    BY <1>0, <2>1 DEF TypeInv, TypeOK, CollectInv
  <2>5. CollectInv'
    BY <2>1, <2>2, <2>3, <2>4, NextLifetime
  <2>6. RegInv'
    <3>1. \A u \in Tmps : Given(u)' => Given(u) \/ MovesIn(u) # {}
      BY <1>0, <2>1, <2>3 DEF Given, Scanning
    <3>2. \A t \in Tmps : t >= li' => t >= li
      BY <1>0, <2>1
    <3>3. RegInv /\ phase \notin {"abi", "collect"} /\ (phase' \in Scanning => phase \in Scanning)
      BY <1>0, <2>1
    <3>. QED  BY <2>1, <3>1, <3>2, <3>3, SameRegisters
  <2>. QED  BY <2>5, <2>6
<1>4. ASSUME Consider \/ Drop \/ Keep \/ Stop \/ OutOfRegisters PROVE RegInv'
  <2>1. /\ UNCHANGED <<source, body, bi, rmap, li>> /\ phase \in Scanning /\ phase' \in Scanning
    BY <1>4 DEF Consider, Drop, Keep, Stop, Walking, OutOfRegisters, scanVars, Scanning
  <2>2. phase \notin {"abi", "collect"}
    BY <2>1 DEF Scanning
  <2>3. /\ RegInv /\ \A u \in Tmps : Given(u)' => Given(u) \/ MovesIn(u) # {}
    BY <1>0, <2>1 DEF Given
  <2>. QED  BY <2>1, <2>2, <2>3, SameRegisters
<1>5. CASE Consider
  <2>1. /\ phase = "scan" /\ phase' = "prev" /\ active' = <<>> /\ at' = 1 /\ li \in Tmps
        /\ UNCHANGED <<source, body, bi, rmap, li, prevActive>>
    BY <1>5 DEF Consider
  <2>2. Closed(active', li, rmap) /\ InReach(active', li)
    BY <2>1 DEF Closed, InReach
  <2>3. at' \in 1 .. Len(prevActive) + 1
    BY <1>0, <2>1, LenProperties DEF TypeInv, TypeOK
  <2>4. CollectInv'
    BY <1>0, <2>1, <2>2, <2>3, SameCollection
  <2>. QED  BY <1>4, <1>5, <2>4
<1>6. CASE Drop
  <2>1. /\ Walking /\ Over(Walked[at]) /\ at' = at + 1
        /\ UNCHANGED <<source, body, phase, bi, rmap, li, active, prevActive>>
    BY <1>6 DEF Drop
  <2>2. phase \in {"prev", "rest"} /\ BlockOK /\ Walked[at] \in Tmps /\ li \in Tmps
    BY <1>0, <2>1, WalkedFacts DEF Walking, TypeInv, Decided
  <2>3. ~Alive(Walked[at], li)
    <3>1. End(Walked[at]) \in Nat /\ Start(li) \in Nat
      BY <2>2, Positions
    <3>. QED  BY <2>1, <3>1 DEF Over, Alive
  <2>4. Closed(active', li, rmap) /\ InReach(active', li) /\ (phase' = "rest" => HasSeen(active', li, rmap))
    BY <1>0, <2>1, <2>2 DEF CollectInv
  <2>5. phase' = "prev" =>
          /\ at' \in 1 .. Len(prevActive) + 1
          /\ \A i \in 1 .. at' - 1 : Alive(prevActive[i], li) => Holds(active', prevActive[i])
    <3>. SUFFICES ASSUME phase' = "prev"
                  PROVE  /\ at + 1 \in 1 .. Len(prevActive) + 1
                         /\ \A i \in 1 .. at : Alive(prevActive[i], li) => Holds(active, prevActive[i])
      BY <1>0, <2>1 DEF TypeInv, TypeOK
    <3>1. /\ phase = "prev" /\ at \in DOMAIN prevActive /\ Walked[at] = prevActive[at]
          /\ at \in 1 .. Len(prevActive) /\ Len(prevActive) \in Nat
          /\ \A i \in 1 .. at - 1 : Alive(prevActive[i], li) => Holds(active, prevActive[i])
      BY <1>0, <2>1, WalkedFacts, LenProperties DEF TypeInv, TypeOK, CollectInv
    <3>. QED  BY <2>3, <3>1
  <2>6. phase' = "rest" =>
          /\ at' \in 1 .. block.tmps - li + 2
          /\ \A u \in li .. li + at' - 2 : Alive(u, li) => Holds(active', u)
    <3>. SUFFICES ASSUME phase' = "rest"
                  PROVE  /\ at + 1 \in 1 .. block.tmps - li + 2
                         /\ \A u \in li .. li + at - 1 : Alive(u, li) => Holds(active, u)
      BY <1>0, <2>1 DEF TypeInv, TypeOK
    <3>1. /\ phase = "rest" /\ Walked[at] = li + at - 1 /\ at <= block.tmps - li + 1 /\ at \in Nat \ {0}
          /\ \A u \in li .. li + at - 2 : Alive(u, li) => Holds(active, u)
      BY <1>0, <2>1, WalkedFacts DEF CollectInv
    <3>. QED  BY <1>0, <2>3, <3>1
  <2>7. CollectInv'
    BY <1>0, <2>1, <2>2, <2>4, <2>5, <2>6, SameCollection
  <2>. QED  BY <1>4, <1>6, <2>7
<1>7. CASE Keep
  <2>1. /\ Walking /\ ~Over(Walked[at]) /\ ~Later(Walked[at]) /\ at' = at + 1
        /\ active' = Append(active, Walked[at])
        /\ UNCHANGED <<source, body, phase, bi, rmap, li, prevActive>>
    BY <1>7 DEF Keep
  <2>2. phase \in {"prev", "rest"} /\ BlockOK /\ Walked[at] \in Tmps /\ li \in Tmps
    BY <1>0, <2>1, WalkedFacts DEF Walking, TypeInv, Decided
  <2>3. /\ Closed(active', li, rmap) /\ InReach(active', li)
        /\ \A t \in Tmps : Holds(active, t) => Holds(active', t)
        /\ Holds(active', Walked[at])
    BY <1>0, <2>1, <2>2, KeptInOrder
  <2>4. phase' = "rest" => HasSeen(active', li, rmap)
    BY <1>0, <2>1, <2>2, <2>3 DEF CollectInv, HasSeen
  <2>5. phase' = "prev" =>
          /\ at' \in 1 .. Len(prevActive) + 1
          /\ \A i \in 1 .. at' - 1 : Alive(prevActive[i], li) => Holds(active', prevActive[i])
    <3>. SUFFICES ASSUME phase' = "prev"
                  PROVE  /\ at + 1 \in 1 .. Len(prevActive) + 1
                         /\ \A i \in 1 .. at : Alive(prevActive[i], li) => Holds(active', prevActive[i])
      BY <1>0, <2>1 DEF TypeInv, TypeOK
    <3>1. /\ phase = "prev" /\ at \in DOMAIN prevActive /\ Walked[at] = prevActive[at]
          /\ at \in 1 .. Len(prevActive) /\ Len(prevActive) \in Nat
          /\ \A i \in 1 .. at - 1 : Alive(prevActive[i], li) => Holds(active, prevActive[i])
          /\ \A i \in 1 .. at : prevActive[i] \in Tmps
      <4>1. phase = "prev" /\ prevActive \in Seq(Tmps) /\ at \in DOMAIN prevActive /\ Walked[at] = prevActive[at]
        BY <1>0, <2>1, WalkedFacts DEF TypeInv, TypeOK
      <4>2. at \in 1 .. Len(prevActive) /\ Len(prevActive) \in Nat
        BY <4>1, LenProperties
      <4>3. \A i \in 1 .. at : prevActive[i] \in Tmps
        BY <4>1, <4>2, ElementOfSeq
      <4>4. \A i \in 1 .. at - 1 : Alive(prevActive[i], li) => Holds(active, prevActive[i])
        BY <1>0, <4>1 DEF CollectInv
      <4>. QED  BY <4>1, <4>2, <4>3, <4>4
    <3>2. ASSUME NEW i \in 1 .. at, Alive(prevActive[i], li) PROVE Holds(active', prevActive[i])
      <4>1. CASE i = at
        BY <2>3, <3>1, <4>1
      <4>2. CASE i # at
        <5>1. i \in 1 .. at - 1 /\ prevActive[i] \in Tmps
          BY <3>1, <4>2
        <5>. QED  BY <2>3, <3>1, <3>2, <5>1
      <4>. QED  BY <4>1, <4>2
    <3>. QED  BY <3>1, <3>2
  <2>6. phase' = "rest" =>
          /\ at' \in 1 .. block.tmps - li + 2
          /\ \A u \in li .. li + at' - 2 : Alive(u, li) => Holds(active', u)
    <3>. SUFFICES ASSUME phase' = "rest"
                  PROVE  /\ at + 1 \in 1 .. block.tmps - li + 2
                         /\ \A u \in li .. li + at - 1 : Alive(u, li) => Holds(active', u)
      BY <1>0, <2>1 DEF TypeInv, TypeOK
    <3>1. /\ phase = "rest" /\ Walked[at] = li + at - 1 /\ at <= block.tmps - li + 1 /\ at \in Nat \ {0}
          /\ \A u \in li .. li + at - 2 : Alive(u, li) => Holds(active, u)
      BY <1>0, <2>1, WalkedFacts DEF CollectInv
    <3>2. ASSUME NEW u \in li .. li + at - 1, Alive(u, li) PROVE Holds(active', u)
      <4>1. CASE u = li + at - 1
        BY <2>3, <3>1, <4>1
      <4>2. CASE u # li + at - 1
        <5>1. u \in li .. li + at - 2 /\ u \in Tmps
          BY <1>0, <3>1, <4>2 DEF Tmps
        <5>. QED  BY <2>3, <3>1, <3>2, <5>1
      <4>. QED  BY <4>1, <4>2
    <3>. QED  BY <1>0, <3>1, <3>2
  <2>7. CollectInv'
    BY <1>0, <2>1, <2>2, <2>3, <2>4, <2>5, <2>6, SameCollection
  <2>. QED  BY <1>4, <1>7, <2>7
<1>8. CASE Stop
  <2>1. /\ phase \in {"prev", "rest"} /\ (Walking => ~Over(Walked[at]) /\ Later(Walked[at]))
        /\ phase' = (IF phase = "prev" THEN "rest" ELSE "pick") /\ at' = 1
        /\ UNCHANGED <<source, body, bi, rmap, li, active, prevActive>>
    BY <1>8 DEF Stop
  <2>2. li \in Tmps /\ BlockOK
    BY <1>0, <2>1 DEF TypeInv, Decided
  <2>3. Closed(active', li, rmap) /\ InReach(active', li)
    BY <1>0, <2>1 DEF CollectInv
  <2>4. HasSeen(active', li, rmap)
    BY <1>0, <2>1, <2>2, PrevWalked DEF CollectInv
  <2>5. phase' = "rest" =>
          /\ at' \in 1 .. block.tmps - li + 2
          /\ \A u \in li .. li + at' - 2 : Alive(u, li) => Holds(active', u)
    BY <1>0, <2>1, <2>2 DEF Tmps
  <2>6. phase' = "pick" =>
          \A u \in Tmps : u >= li /\ Alive(u, li) /\ Start(u) < End(li) => Holds(active', u)
    BY <1>0, <2>1, <2>2, RestWalked
  <2>7. phase \in {"scan", "prev", "rest", "pick"} /\ phase' \in {"rest", "pick"}
    BY <2>1
  <2>8. CollectInv'
    BY <1>0, <2>1, <2>3, <2>4, <2>5, <2>6, <2>7, SameCollection
  <2>. QED  BY <1>4, <1>8, <2>8
<1>9. CASE OutOfRegisters
  <2>1. phase = "pick" /\ phase' = "aborted" /\ UNCHANGED <<source, body, bi, rmap, li, active, prevActive>>
    BY <1>9 DEF OutOfRegisters, scanVars
  <2>2. Closed(active', li, rmap) /\ InReach(active', li)
    BY <1>0, <2>1 DEF CollectInv
  <2>3. CollectInv'
    BY <1>0, <2>1, <2>2, SameCollection
  <2>. QED  BY <1>4, <1>9, <2>3
<1>10. ASSUME phase = "pick", phase' = "scan", li' = li + 1, UNCHANGED <<source, body, bi>>,
              NEW r \in Registers, r \notin Reserved, rmap' = [rmap EXCEPT ![li] = r],
              r # Hint(li) => (Roomy => r \in RoomSet)
       PROVE  /\ RegInv' /\ rmap'[li] = r /\ \A t \in 1 .. li - 1 : rmap'[t] = rmap[t]
  <2>1. BlockOK
    BY <1>0, <1>10
  <2>2. /\ block' = block /\ Tmps' = Tmps
        /\ \A t : /\ MovesIn(t)' = MovesIn(t) /\ Start(t)' = Start(t) /\ End(t)' = End(t)
                  /\ Hint(t)' = Hint(t)
        /\ Roomy' = Roomy /\ Precoloured' = Precoloured
    BY <1>10, SameBlock, SameRoom
  <2>3. /\ \A t \in Tmps : MovesIn(t) # {} => rmap'[t] = Precoloured[t]
        /\ \A t \in Tmps : t >= li + 1 => rmap'[t] = Precoloured[t]
        /\ \A u \in Tmps : u < li + 1 /\ MovesIn(u) = {} =>
             Settled(u, rmap') /\ \A t \in Tmps : Apart(t, u, rmap')
        /\ rmap'[li] = r /\ \A t \in 1 .. li - 1 : rmap'[t] = rmap[t]
    <3>1. HoldsAfter(rmap', r)
      BY <1>10, <2>1, Chosen
    <3>. QED  BY <3>1 DEF HoldsAfter
  <2>4. ASSUME NEW u \in Tmps, Given(u)', MovesIn(u) = {}
        PROVE  Settled(u, rmap)' /\ \A t \in Tmps : Apart(t, u, rmap)'
    <3>1. u < li + 1
      BY <1>10, <2>4 DEF Given, Scanning
    <3>2. Settled(u, rmap') /\ \A t \in Tmps : Apart(t, u, rmap')
      BY <2>3, <2>4, <3>1
    <3>3. Settled(u, rmap)'
      BY <2>2, <3>2 DEF Settled
    <3>4. \A t \in Tmps : Apart(t, u, rmap)'
      BY <2>2, <3>2 DEF Apart
    <3>. QED  BY <3>3, <3>4
  <2>5. RegInv'
    BY <1>10, <2>2, <2>3, <2>4 DEF RegInv
  <2>. QED  BY <2>3, <2>5
<1>11. CASE UseHint
  <2>1. /\ phase = "pick" /\ phase' = "scan" /\ li' = li + 1 /\ UNCHANGED <<source, body, bi, prevActive>>
        /\ Hint(li) # None /\ Hint(li) \notin Reserved /\ rmap' = [rmap EXCEPT ![li] = Hint(li)]
    BY <1>11 DEF UseHint, Hinted
  <2>2. li \in Tmps /\ BlockOK
    BY <1>0, <2>1 DEF TypeInv, Decided
  <2>3. Hint(li) \in Registers
    BY <2>1, <2>2, HintFacts, RegisterFacts
  <2>4. /\ RegInv' /\ rmap'[li] = Hint(li) /\ \A t \in 1 .. li - 1 : rmap'[t] = rmap[t]
    BY <1>10, <2>1, <2>3
  <2>5. prevActive' \in Seq(Tmps) /\ Closed(prevActive', li, rmap) /\ HasSeen(prevActive', li, rmap)
    BY <1>0, <2>1, <2>2 DEF TypeInv, TypeOK, CollectInv
  <2>6. CollectInv'
    BY <2>1, <2>2, <2>4, <2>5, NextLifetime
  <2>. QED  BY <2>4, <2>6
<1>12. CASE UseFree
  <2>1. /\ phase = "pick" /\ phase' = "scan" /\ li' = li + 1 /\ UNCHANGED <<source, body, bi>>
        /\ prevActive' = active /\ ~Hinted
    BY <1>12 DEF UseFree
  <2>2. PICK i \in DOMAIN Order : /\ Order[i] \notin Reserved
                                  /\ \A j \in 1 .. i - 1 : Order[j] \in Reserved
                                  /\ rmap' = [rmap EXCEPT ![li] = Order[i]]
    BY <1>12 DEF UseFree
  <2>3. li \in Tmps /\ BlockOK /\ Order[i] \in Registers
    BY <1>0, <2>1, OrderFacts DEF TypeInv, Decided
  <2>4. ASSUME Roomy PROVE Order[i] \in RoomSet
    <3>1. PICK j \in 1 .. NRoom : Order[j] \notin Reserved
      BY <2>1, <2>3, <2>4, RoomLeft
    <3>2. ~(j < i)
      <4>1. i \in Nat /\ j \in Nat \ {0} /\ j \notin 1 .. i - 1
        BY <2>2, <3>1, OrderFacts
      <4>. QED  BY <4>1
    <3>3. i \in 1 .. NRoom
      BY <3>1, <3>2, OrderFacts
    <3>. QED  BY <3>3 DEF RoomSet
  <2>5. /\ RegInv' /\ rmap'[li] = Order[i] /\ \A t \in 1 .. li - 1 : rmap'[t] = rmap[t]
    BY <1>10, <2>1, <2>2, <2>3, <2>4
  <2>6. active \in Seq(Tmps) /\ Closed(active, li, rmap) /\ HasSeen(active, li, rmap)
    BY <1>0, <2>1 DEF TypeInv, TypeOK, CollectInv
  <2>7. ASSUME Alive(li, li) PROVE Holds(active, li)
    <3>1. Start(li) < End(li) /\ li >= li
      BY <1>0, <2>3, <2>7, Positions DEF Alive
    <3>. QED  BY <1>0, <2>1, <2>3, <2>7, <3>1 DEF CollectInv
  <2>8. CollectInv'
    BY <2>1, <2>3, <2>5, <2>6, <2>7, NextLifetime
  <2>. QED  BY <2>5, <2>8
<1>13. CASE Rewrite \/ SkipSave \/ Save \/ EndSaves \/ SkipRestore \/ Restore \/ EndRestores \/ Finish
  <2>1. /\ UNCHANGED <<source, body, bi, rmap>> /\ phase' \in Rewriting
        /\ phase \in Rewriting \/ (phase = "scan" /\ li \notin Tmps)
    BY <1>13 DEF Rewrite, SkipSave, Save, EndSaves, SkipRestore, Restore, EndRestores, Finish, Rewriting
  <2>2. \A u \in Tmps : Given(u)' => Given(u) \/ MovesIn(u) # {}
    <3>1. CASE phase \in Rewriting
      BY <3>1 DEF Given, Rewriting, Scanning
    <3>2. CASE phase = "scan" /\ li \notin Tmps
      <4>1. li = block.tmps + 1
        <5>1. li \in 1 .. block.tmps + 1 /\ li \notin 1 .. block.tmps
          BY <3>2 DEF ScanInv, TypeInv, TypeOK, Tmps
        <5>. QED  BY <1>0, <5>1
      <4>2. \A u \in Tmps : u < li
        BY <1>0, <4>1 DEF Tmps
      <4>. QED  BY <4>2 DEF Given
    <3>. QED  BY <2>1, <3>1, <3>2
  <2>3. /\ phase \notin {"abi", "collect"} /\ phase' \notin Scanning /\ RegInv
    BY <1>0, <2>1 DEF Rewriting, Scanning
  <2>4. RegInv'
    BY <2>1, <2>2, <2>3, SameRegisters
  <2>5. CollectInv'
    BY <2>1 DEF CollectInv, Rewriting
  <2>. QED  BY <2>4, <2>5
<1>14. CASE UNCHANGED vars
  <2>1. UNCHANGED <<source, body, phase, bi, rmap, li, active, prevActive, at>>
    BY <1>14 DEF vars, scanVars
  <2>2. RegInv'
    <3>1. CASE phase \in {"abi", "collect"}
      BY <2>1, <3>1 DEF RegInv
    <3>2. CASE phase \notin {"abi", "collect"}
      <4>1. \A u \in Tmps : Given(u)' => Given(u) \/ MovesIn(u) # {}
        BY <2>1 DEF Given
      <4>. QED  BY <1>0, <2>1, <3>2, <4>1, SameRegisters
    <3>. QED  BY <3>1, <3>2
  <2>3. CollectInv'
    <3>1. CASE phase \in {"scan", "prev", "rest", "pick"}
      <4>1. phase # "scan" => Closed(active', li, rmap) /\ InReach(active', li)
        BY <1>0, <2>1, <3>1 DEF CollectInv
      <4>2. /\ phase \in {"rest", "pick"} => HasSeen(active', li, rmap)
            /\ phase = "prev" =>
                 /\ at' \in 1 .. Len(prevActive) + 1
                 /\ \A i \in 1 .. at' - 1 : Alive(prevActive[i], li) => Holds(active', prevActive[i])
            /\ phase = "rest" =>
                 /\ at' \in 1 .. block.tmps - li + 2
                 /\ \A u \in li .. li + at' - 2 : Alive(u, li) => Holds(active', u)
            /\ phase = "pick" =>
                 \A u \in Tmps : u >= li /\ Alive(u, li) /\ Start(u) < End(li) => Holds(active', u)
        BY <1>0, <2>1 DEF CollectInv
      <4>. QED  BY <1>0, <2>1, <3>1, <4>1, <4>2, SameCollection
    <3>2. CASE phase = "aborted"
      <4>1. Closed(active, li, rmap) /\ InReach(active, li)
        BY <1>0, <3>2 DEF CollectInv
      <4>2. /\ block' = block /\ Tmps' = Tmps
            /\ \A t : /\ MovesIn(t)' = MovesIn(t) /\ Start(t)' = Start(t) /\ End(t)' = End(t)
                      /\ Hint(t)' = Hint(t)
        BY <2>1, SameBlock
      <4>3. Closed(active, li, rmap)' /\ InReach(active, li)'
        BY <2>1, <4>1, <4>2 DEF Closed, InReach, Tracked, Seen, Alive
      <4>. QED  BY <2>1, <3>2, <4>3 DEF CollectInv
    <3>3. CASE phase \notin {"scan", "prev", "rest", "pick", "aborted"}
      BY <2>1, <3>3 DEF CollectInv
    <3>. QED  BY <3>1, <3>2, <3>3
  <2>. QED  BY <2>2, <2>3
<1>. QED  BY <1>1, <1>2, <1>3, <1>5, <1>6, <1>7, <1>8, <1>9, <1>11, <1>12, <1>13, <1>14 DEF Next

-----------------------------------------------------------------------------
(* Values that are alive together are apart.                                *)

LEMMA RegistersAtEnd ==
  ASSUME ScanInv, Allocated
  PROVE  /\ BlockOK /\ rmap \in [Tmps -> Registers]
         /\ \A t \in Tmps : MovesIn(t) # {} => rmap[t] = Precoloured[t]
         /\ \A u \in Tmps : MovesIn(u) = {} =>
              Settled(u, rmap) /\ \A t \in Tmps : Apart(t, u, rmap)
<1>1. phase \in {"blockDone", "done"}
  BY DEF Allocated
<1>2. BlockOK /\ rmap \in [Tmps -> Registers]
  BY <1>1, ShapeFacts DEF ScanInv, TypeInv, TypeOK
<1>3. \A t \in Tmps : Given(t)
  BY <1>1 DEF Given, Scanning
<1>. QED  BY <1>1, <1>2, <1>3 DEF ScanInv, RegInv

\* two temporaries loaded from the results of the call
LEMMA ResultsApart ==
  ASSUME BlockOK, NEW j \in DOMAIN block.insns, NEW k \in DOMAIN block.insns, j # k,
         Src(j).type = "retval", Src(k).type = "retval"
  PROVE  nth_ar(Src(j).nth) # nth_ar(Src(k).nth)
<1>1. /\ j \in DOMAIN source[bi].insns /\ k \in DOMAIN source[bi].insns
      /\ Positioned(source[bi], {"retval"})
  BY BlockFacts DEF BlockOK, IsFormed
<1>2. Src(j).nth # Src(k).nth
  BY <1>1 DEF Positioned, Src
<1>3. /\ Src(j).nth + 1 \in DOMAIN ArgRegs /\ Src(k).nth + 1 \in DOMAIN ArgRegs
      /\ Src(j).nth \in Nat /\ Src(k).nth \in Nat
  BY InstructionFacts DEF IsInBlock, IsLowered
<1>4. Src(j).nth + 1 # Src(k).nth + 1
  BY <1>2, <1>3
<1>. QED  BY <1>3, <1>4, RegisterFacts DEF nth_ar

\* two temporaries moved to an argument or a result of the function
LEMMA HintsApart ==
  ASSUME BlockOK, NEW t \in Tmps, NEW u \in Tmps, t # u, IsHinted(t), IsHinted(u)
  PROVE  Hint(t) # Hint(u)
<1>1. PICK j \in DOMAIN block.insns :
        /\ Src(j).type \in {"arg", "retarg"} /\ Src(j).in = {t} /\ Hint(t) = nth_ar(Src(j).nth)
        /\ Src(j).nth + 1 \in DOMAIN ArgRegs
  BY DEF IsHinted
<1>2. PICK k \in DOMAIN block.insns :
        /\ Src(k).type \in {"arg", "retarg"} /\ Src(k).in = {u} /\ Hint(u) = nth_ar(Src(k).nth)
        /\ Src(k).nth + 1 \in DOMAIN ArgRegs
  BY DEF IsHinted
<1>3. j # k
  BY <1>1, <1>2
<1>4. /\ j \in DOMAIN source[bi].insns /\ k \in DOMAIN source[bi].insns
      /\ Positioned(source[bi], {"arg", "retarg"})
  BY BlockFacts DEF BlockOK, IsFormed
<1>5. Src(j).nth # Src(k).nth
  BY <1>1, <1>2, <1>3, <1>4 DEF Positioned, Src
<1>6. Src(j).nth \in Nat /\ Src(k).nth \in Nat
  BY InstructionFacts DEF IsInBlock, IsLowered
<1>7. Src(j).nth + 1 # Src(k).nth + 1
  BY <1>5, <1>6
<1>. QED  BY <1>1, <1>2, <1>7, RegisterFacts DEF nth_ar

\* nothing is computed after a result of the call is fetched
LEMMA ResultsLast ==
  ASSUME BlockOK, NEW t \in Tmps, NEW u \in Tmps, t < u,
         MovesIn(t) # {}, Src(Start(t)).type = "retval"
  PROVE  MovesIn(u) # {}
<1>1. IsLoaded(t) /\ IsLifetime(u)
  BY LoadFacts, LifetimeFacts
<1>. DEFINE k == Start(t)
            n == Start(u)
<1>2. u > block.params /\ k < n /\ k \in DOMAIN block.insns
  <2>1. u > block.params
    BY <1>1, Positions, BlockFacts DEF IsLoaded
  <2>. QED  BY <1>1, <2>1, StartsInOrder DEF IsLoaded
<1>3. n \in DOMAIN block.insns
  BY <1>1, <1>2 DEF IsLifetime
<1>4. /\ CallAtEnd(source[bi]) /\ DOMAIN source[bi].insns = 1 .. Len(source[bi].insns)
      /\ DOMAIN block.insns = DOMAIN source[bi].insns /\ Len(source[bi].insns) \in Nat
  BY BlockFacts DEF BlockOK, IsFormed
<1>5. PICK j \in 1 .. k - 1 : source[bi].insns[j].type = "call"
  BY <1>2, <1>4 DEF CallAtEnd, Src
<1>6. j \in DOMAIN source[bi].insns /\ n \in j + 1 .. Len(source[bi].insns)
  BY <1>2, <1>3, <1>4, <1>5
<1>7. Src(n).type = "retval"
  BY <1>4, <1>5, <1>6 DEF CallAtEnd, Src
<1>8. MovesIn(u) = {} => IsComputed(u)
  BY LoadFacts
<1>. QED  BY <1>2, <1>7, <1>8 DEF IsComputed

LEMMA ApartWhenRoomy ==
  ASSUME ScanInv, Allocated, Roomy, NEW t \in Tmps, NEW u \in Tmps, t < u, Overlap(t, u)
  PROVE  rmap[t] # rmap[u]
<1>1. /\ BlockOK /\ rmap[t] \in Registers /\ rmap[u] \in Registers
      /\ MovesIn(t) # {} => rmap[t] = Precoloured[t]
      /\ MovesIn(u) # {} => rmap[u] = Precoloured[u]
      /\ MovesIn(t) = {} => Settled(t, rmap)
      /\ MovesIn(u) = {} => Settled(u, rmap) /\ Apart(t, u, rmap)
      /\ t # u
  BY RegistersAtEnd, Positions
<1>2. ASSUME NEW x \in Tmps, MovesIn(x) # {} PROVE IsLoaded(x) /\ Src(Start(x)).type = "retval"
  <2>1. IsLoaded(x)
    BY <1>1, <1>2, LoadFacts
  <2>2. Start(x) \in DOMAIN source[bi].insns
    BY <1>1, <2>1, BlockFacts DEF IsLoaded
  <2>3. Src(Start(x)).type # "param"
    BY <2>2 DEF Roomy, Src
  <2>. QED  BY <2>1, <2>3 DEF IsLoaded
<1>3. ASSUME NEW x \in Tmps, MovesIn(x) = {}, Settled(x, rmap), rmap[x] # Hint(x)
      PROVE  rmap[x] \in RoomSet
  BY <1>3 DEF Settled
<1>4. ASSUME NEW x \in Tmps, MovesIn(x) = {}, rmap[x] = Hint(x), rmap[x] \in Registers
      PROVE  IsHinted(x) /\ rmap[x] \in ArgSet
  BY <1>1, <1>4, HintFacts, RegisterFacts
<1>5. ArgSet \cap RoomSet = {}
  BY RegisterFacts
<1>6. End(t) > Start(u) /\ Start(u) < End(t)
  BY <1>1, Positions DEF Overlap
<1>7. CASE MovesIn(u) # {}
  <2>1. IsLoaded(u) /\ rmap[u] \in ArgSet /\ Src(Start(u)).type = "retval"
    BY <1>1, <1>2, <1>7 DEF IsLoaded
  <2>2. CASE MovesIn(t) # {}
    <3>1. IsLoaded(t) /\ Src(Start(t)).type = "retval"
      BY <1>2, <2>2
    <3>2. Start(t) # Start(u)
      BY <1>1, <2>1, <3>1, Positions, StartsInOrder DEF IsLoaded
    <3>3. nth_ar(Src(Start(t)).nth) # nth_ar(Src(Start(u)).nth)
      BY <1>1, <2>1, <3>1, <3>2, ResultsApart DEF IsLoaded
    <3>. QED  BY <1>1, <1>7, <2>1, <2>2, <3>1, <3>3 DEF IsLoaded
  <2>3. CASE MovesIn(t) = {} /\ rmap[t] = Hint(t)
    BY <1>1, <1>6, <1>7, <2>3 DEF Settled
  <2>4. CASE MovesIn(t) = {} /\ rmap[t] # Hint(t)
    BY <1>1, <1>3, <1>5, <2>1, <2>4
  <2>. QED  BY <2>2, <2>3, <2>4
<1>8. CASE MovesIn(u) = {}
  <2>1. CASE MovesIn(t) # {}
    BY <1>1, <1>2, <1>8, <2>1, ResultsLast
  <2>2. CASE MovesIn(t) = {} /\ rmap[t] # Hint(t)
    BY <1>1, <1>6, <1>8, <2>2 DEF Apart
  <2>3. CASE MovesIn(t) = {} /\ rmap[t] = Hint(t)
    <3>1. IsHinted(t) /\ rmap[t] \in ArgSet
      BY <1>1, <1>4, <2>3
    <3>2. CASE rmap[u] = Hint(u)
      <4>1. IsHinted(u)
        BY <1>1, <1>4, <1>8, <3>2
      <4>. QED  BY <1>1, <2>3, <3>1, <3>2, <4>1, HintsApart
    <3>3. CASE rmap[u] # Hint(u)
      BY <1>1, <1>3, <1>5, <1>8, <3>1, <3>3
    <3>. QED  BY <3>2, <3>3
  <2>. QED  BY <2>1, <2>2, <2>3
<1>. QED  BY <1>7, <1>8

LEMMA ApartWithoutMoves ==
  ASSUME ScanInv, Allocated, NoMoves, NEW t \in Tmps, NEW u \in Tmps, t < u, Overlap(t, u)
  PROVE  rmap[t] # rmap[u]
<1>1. BlockOK /\ rmap[t] \in Registers
  BY RegistersAtEnd
<1>2. \A x \in Tmps : MovesIn(x) = {} /\ MovesOut(x) = {}
  BY DEF NoMoves, MovesIn, MovesOut, Reads, Defs
<1>3. Hint(t) = None
  BY <1>2 DEF Hint
<1>4. rmap[t] # Hint(t)
  BY <1>1, <1>3, RegisterFacts
<1>5. End(t) > Start(u)
  BY <1>1, Positions DEF Overlap
<1>6. Apart(t, u, rmap)
  BY <1>2, RegistersAtEnd
<1>. QED  BY <1>2, <1>4, <1>5, <1>6 DEF Apart

LEMMA NoClashIfApart ==
  ASSUME ScanInv, Allocated,
         \A t, u \in Tmps : t < u /\ Overlap(t, u) => rmap[t] # rmap[u]
  PROVE  \A t, u \in Tmps : t # u /\ Overlap(t, u) => rmap[t] # rmap[u]
<1>. SUFFICES ASSUME NEW t \in Tmps, NEW u \in Tmps, t # u, Overlap(t, u) PROVE rmap[t] # rmap[u]
  OBVIOUS
<1>1. t < u \/ u < t
  BY RegistersAtEnd, Positions
<1>2. Overlap(u, t)
  BY DEF Overlap
<1>. QED  BY <1>1, <1>2

(* The registers are those of tr_map, every counter and vector stays in its *)
(* type, and a block whose rewriting has begun has no temporary without a   *)
(* register.                                                                *)
THEOREM TypeCorrect == Spec => []TypeOK
<1>1. Init => ScanInv
  BY ScanInit
<1>2. ScanInv /\ [Next]_vars => ScanInv'
  BY ScanNext
<1>3. ScanInv => TypeOK
  BY DEF ScanInv, TypeInv
<1>. QED  BY <1>1, <1>2, <1>3, PTL DEF Spec

(* Temporaries alive together get different registers in every block where  *)
(* no hint is taken, since there the collection of active lifetimes is      *)
(* never stale; and in every block that fetches no argument of the function *)
(* and has a t or s register for everything that waits: what the collection *)
(* misses there is in an argument register, and a free register never is    *)
(* one.                                                                     *)
THEOREM RegistersStayApart == Spec => []RegistersApart
<1>1. Init => ScanInv
  BY ScanInit
<1>2. ScanInv /\ [Next]_vars => ScanInv'
  BY ScanNext
<1>3. ScanInv => RegistersApart
  <2>1. ScanInv /\ NoMoves => NoClash
    BY ApartWithoutMoves, NoClashIfApart DEF NoClash
  <2>2. ScanInv /\ Roomy => NoClash
    BY ApartWhenRoomy, NoClashIfApart DEF NoClash
  <2>. QED  BY <2>1, <2>2 DEF RegistersApart
<1>. QED  BY <1>1, <1>2, <1>3, PTL DEF Spec

-----------------------------------------------------------------------------
(* The scan gives up only when every register is spoken for.                *)

GaveUp == phase = "aborted" => Registers \subseteq Reserved

LEMMA GaveUpNext ==
  TypeInv /\ GaveUp /\ [Next]_vars => GaveUp'
<1>. SUFFICES ASSUME TypeInv, GaveUp, [Next]_vars, phase' = "aborted" PROVE (Registers \subseteq Reserved)'
  BY DEF GaveUp
<1>1. OutOfRegisters \/ UNCHANGED vars
  <2>1. phase' # "aborted" \/ OutOfRegisters \/ phase' = phase
    BY DEF Next, Lower, Collect, SkipDecided, Consider, Drop, Keep, Stop, UseHint, UseFree, Rewrite,
           SkipSave, Save, EndSaves, SkipRestore, Restore, EndRestores, NextBlock, BlockStart, Finish, vars
  <2>2. phase = "aborted" => ~Next
    BY DEF Next, Lower, Collect, SkipDecided, Consider, Drop, Keep, Stop, Walking, UseHint, UseFree,
           OutOfRegisters, Rewrite, SkipSave, Save, EndSaves, SkipRestore, Restore, EndRestores,
           NextBlock, Finish
  <2>. QED  BY <2>1, <2>2
<1>2. Registers \subseteq Reserved
  BY <1>1 DEF OutOfRegisters, GaveUp, vars
<1>3. rmap' = rmap /\ active' = active
  BY <1>1 DEF OutOfRegisters, vars, scanVars
<1>4. Reserved' = Reserved
  BY <1>3 DEF Reserved
<1>. QED  BY <1>2, <1>4

LEMMA EverythingTaken ==
  ASSUME ScanInv, GaveUp
  PROVE  SpillNeeded
<1>. SUFFICES ASSUME phase = "aborted"
              PROVE  Cardinality({t \in Tmps : Overlap(t, li) /\ (t <= li \/ MovesIn(t) # {})} \cup {li})
                       > Len(Order)
  BY DEF SpillNeeded
<1>1. /\ BlockOK /\ li \in Tmps /\ rmap[li] = None /\ active \in Seq(Tmps) /\ InReach(active, li)
      /\ Registers \subseteq Reserved
      /\ \A t \in Tmps : t >= li => rmap[t] = Precoloured[t]
  BY ShapeFacts DEF ScanInv, TypeInv, TypeOK, Decided, CollectInv, RegInv, Scanning, GaveUp
<1>. DEFINE L == {t \in Tmps : Overlap(t, li) /\ (t <= li \/ MovesIn(t) # {})}
            M == L \cup {li}
            V == M \ {li}
            N == Len(Order)
<1>2. ASSUME NEW r \in Registers PROVE \E x \in V : rmap[x] = r
  <2>1. PICK k \in DOMAIN active : rmap[active[k]] = r
    BY <1>1 DEF Reserved
  <2>. DEFINE x == active[k]
  <2>2. x \in Tmps /\ Alive(x, li) /\ Start(x) < End(li)
    BY <1>1, ElementOfSeq, LenProperties DEF InReach
  <2>. HIDE DEF x
  <2>3. rmap[x] = r /\ r # None /\ x # li
    BY <1>1, <2>1, RegisterFacts DEF x
  <2>4. Overlap(x, li)
    BY <1>1, <2>2, Positions DEF Overlap, Alive
  <2>5. x <= li \/ MovesIn(x) # {}
    <3>1. CASE x >= li
      <4>1. Precoloured[x] # None
        BY <1>1, <2>2, <2>3, <3>1
      <4>. QED  BY <1>1, <2>2, <4>1, LoadFacts DEF IsComputed
    <3>2. CASE ~(x >= li)
      BY <1>1, <2>2, <3>2, Positions
    <3>. QED  BY <3>1, <3>2
  <2>. QED  BY <2>2, <2>3, <2>4, <2>5
<1>3. IsFiniteSet(M) /\ li \in M
  <2>1. 1 \in Int /\ block.tmps \in Int
    BY <1>1, BlockFacts
  <2>2. IsFiniteSet(Tmps) /\ M \subseteq Tmps
    BY <1>1, <2>1, FS_Interval DEF Tmps
  <2>. HIDE DEF L
  <2>. QED  BY <2>2, FS_Subset
<1>. HIDE DEF V, L
<1>. DEFINE f == [i \in 1 .. N |-> CHOOSE x \in V : rmap[x] = Order[i]]
<1>4. \A i \in 1 .. N : f[i] \in V /\ rmap[f[i]] = Order[i]
  BY <1>2, OrderFacts
<1>5. f \in [1 .. N -> V]
  BY <1>4
<1>. HIDE DEF f
<1>6. f \in Injection(1 .. N, V)
  <2>1. ASSUME NEW i \in 1 .. N, NEW j \in 1 .. N, f[i] = f[j] PROVE i = j
    <3>1. Order[i] = Order[j] /\ i \in DOMAIN Order /\ j \in DOMAIN Order
      BY <1>4, <2>1, OrderFacts
    <3>. QED  BY <3>1, OrderFacts
  <2>. QED  BY <1>5, <2>1 DEF Injection, IsInjective
<1>7. IsFiniteSet(V) /\ Cardinality(V) = Cardinality(M) - 1
  <2>. HIDE DEF M
  <2>. QED  BY <1>3, FS_RemoveElement DEF V
<1>8. Cardinality(1 .. N) <= Cardinality(V)
  BY <1>6, <1>7, FS_Injection
<1>9. Cardinality(1 .. N) = N /\ N \in Nat
  BY OrderFacts, FS_Interval
<1>10. Cardinality(M) \in Nat
  BY <1>3, FS_CardinalityType
<1>11. Cardinality(M) > N
  BY <1>7, <1>8, <1>9, <1>10
<1>. QED  BY <1>11 DEF L

(* "ran out of registers" is said only of a block that needs more than      *)
(* there are: the values alive where the register is looked for, and the    *)
(* results that reach their argument registers before it is free again,     *)
(* outnumber tr_map.                                                        *)
THEOREM GivesUpOnlyWhenFull == Spec => []SpillNeeded
<1>1. Init => ScanInv /\ GaveUp
  BY ScanInit DEF Init, GaveUp
<1>2. ScanInv /\ GaveUp /\ [Next]_vars => (ScanInv /\ GaveUp)'
  BY ScanNext, GaveUpNext DEF ScanInv
<1>3. ScanInv /\ GaveUp => SpillNeeded
  BY EverythingTaken
<1>. QED  BY <1>1, <1>2, <1>3, PTL DEF Spec

-----------------------------------------------------------------------------
(* The rewritten code.                                                      *)

Operands == Nat \cup Registers
Flags    == {"setup", "teardown"}
CodeSet  == [type : {"op", "move", "call", "save", "restore"}, out : Operands,
             in : SUBSET Operands, flags : SUBSET Flags]

\* blocks whose rewriting has not begun
Untouched(b) == b > bi \/ (b = bi /\ phase \notin Rewriting)

CodeType ==
  /\ phase # "abi" =>
       /\ code \in [1 .. NB -> Seq(CodeSet)]
       /\ \A b \in 1 .. NB : Untouched(b) => code[b] = body[b].insns
  /\ phase \notin Rewriting => counter = 0
  /\ phase = "abi" => bi = 1

CallInv ==
  phase \in {"save", "restore"} =>
    /\ callAt \in DOMAIN code[bi] /\ code[bi][callAt].type = "call"
    /\ code[bi][callAt].flags = Flags

\* the registers instruction i names are among those the prologue saves
InFrame(i) ==
  /\ \A r \in ({i.out} \cup i.in) \cap Registers : CalleeIndex(r) <= maxCalleeSave
  /\ i.type = "call" => hasCalls

\* the slots of the block's code are numbered below n
Slots(c, n) ==
  \A k \in DOMAIN c : c[k].type \in {"save", "restore"} => \A m \in c[k].in \cap Nat : m < n

ToSaveUpTo(n) == {t \in 1 .. n : ToSave(t)}

FrameInv ==
  /\ phase \notin {"abi", "collect"} => \A t \in Tmps : CalleeIndex(rmap[t]) <= maxCalleeSave
  /\ phase # "abi" =>
       \A b \in 1 .. NB : ~Untouched(b) => \A k \in DOMAIN code[b] : InFrame(code[b][k])
  /\ phase # "abi" =>
       \A b \in 1 .. NB : b < bi \/ (b = bi /\ phase \in {"blockDone", "done"}) =>
         Slots(code[b], maxCallSave)
  /\ phase = "save" => Slots(code[bi], counter)
  /\ phase = "restore" => Slots(code[bi], Cardinality(ToSaveUpTo(block.tmps)))
  /\ phase \in {"save", "restore"} => counter = Cardinality(ToSaveUpTo(li - 1))
  /\ phase = "done" => bi = NB

CodeInv == CodeType /\ CallInv /\ FrameInv

LEMMA LoweredCode ==
  ASSUME NEW b \in Blocks, IsFormed(b)
  PROVE  Lowered(b).insns \in Seq(CodeSet)
<1>. DEFINE is == b.insns
<1>1. is \in Seq(Sources) /\ Lowered(b).insns = abi0(is)
  BY DEF Blocks, Lowered
<1>2. Len(is) \in Nat /\ DOMAIN is = 1 .. Len(is) /\ \A k \in DOMAIN is : is[k] \in Sources
  BY <1>1, LenProperties, ElementOfSeq
<1>3. ASSUME NEW k \in DOMAIN is PROVE rewrite(is[k]) \in CodeSet
  <2>. DEFINE s == is[k]
  <2>1. /\ s.type \in {"op", "call", "param", "retval", "arg", "retarg"} /\ s.out \in Nat
        /\ s.in \in SUBSET Nat /\ s.nth \in Nat
    BY <1>2 DEF Sources
  <2>2. ASSUME s.type \in {"param", "retval", "arg", "retarg"} PROVE nth_ar(s.nth) \in Registers
    <3>1. s.nth < Len(ArgRegs)
      BY <1>2, <2>2 DEF IsFormed, Positioned
    <3>2. s.nth + 1 \in DOMAIN ArgRegs
      BY <2>1, <3>1, OrderFacts
    <3>3. nth_ar(s.nth) \in ArgSet
      BY <3>2 DEF nth_ar, ArgSet
    <3>. QED  BY <3>3, RegisterFacts
  <2>. HIDE DEF s
  <2>3. CASE s.type = "param"
    <3>1. rewrite(s) = Insn("move", s.out, {nth_ar(s.nth)}, {})
      BY <2>3 DEF rewrite, rewrite_param
    <3>. QED  BY <2>1, <2>2, <2>3, <3>1 DEF Insn, CodeSet, Operands, Flags, s
  <2>4. CASE s.type = "retval"
    <3>1. rewrite(s) = Insn("move", s.out, {nth_ar(s.nth)}, {"teardown"})
      BY <2>4 DEF rewrite, rewrite_retval
    <3>. QED  BY <2>1, <2>2, <2>4, <3>1 DEF Insn, CodeSet, Operands, Flags, s
  <2>5. CASE s.type = "arg"
    <3>1. rewrite(s) = Insn(LoadedBy(s), nth_ar(s.nth), s.in, {"setup"})
      BY <2>5 DEF rewrite, rewrite_arg
    <3>. QED  BY <2>1, <2>2, <2>5, <3>1 DEF Insn, LoadedBy, CodeSet, Operands, Flags, s
  <2>6. CASE s.type = "retarg"
    <3>1. rewrite(s) = Insn(LoadedBy(s), nth_ar(s.nth), s.in, {})
      BY <2>6 DEF rewrite, rewrite_retarg
    <3>. QED  BY <2>1, <2>2, <2>6, <3>1 DEF Insn, LoadedBy, CodeSet, Operands, Flags, s
  <2>7. CASE s.type = "call"
    <3>1. rewrite(s) = Insn("call", s.out, s.in, {"setup", "teardown"})
      BY <2>7 DEF rewrite, flag_call
    <3>. QED  BY <2>1, <2>7, <3>1 DEF Insn, CodeSet, Operands, Flags, s
  <2>8. CASE s.type = "op"
    <3>1. rewrite(s) = Insn("op", s.out, s.in, {})
      BY <2>8 DEF rewrite
    <3>. QED  BY <2>1, <2>8, <3>1 DEF Insn, CodeSet, Operands, Flags, s
  <2>. QED  BY <2>1, <2>3, <2>4, <2>5, <2>6, <2>7, <2>8
<1>4. abi0(is) = [k \in 1 .. Len(is) |-> rewrite(is[k])]
  BY <1>2 DEF abi0
<1>5. \A k \in 1 .. Len(is) : rewrite(is[k]) \in CodeSet
  BY <1>2, <1>3
<1>. HIDE DEF is
<1>6. [k \in 1 .. Len(is) |-> rewrite(is[k])] \in Seq(CodeSet)
  BY <1>2, <1>5
<1>. QED  BY <1>1, <1>4, <1>6

\* what do_rewrites() makes of the block
IsRewritten(c) ==
  /\ c \in Seq(CodeSet) /\ Len(c) = Len(block.insns)
  /\ \A k \in DOMAIN block.insns :
       /\ c[k].type = Ins(k).type /\ c[k].flags = Ins(k).flags
       /\ c[k].out = Rewritten(Ins(k).out) /\ c[k].in = {Rewritten(v) : v \in Ins(k).in}

RewrittenCode == [k \in DOMAIN code[bi] |-> InRegisters(code[bi][k])]

LEMMA RewriteFacts ==
  ASSUME BlockOK, rmap \in [Tmps -> Registers], code[bi] \in Seq(CodeSet), code[bi] = block.insns
  PROVE  IsRewritten(RewrittenCode)
<1>. DEFINE c == RewrittenCode
            n == Len(block.insns)
<1>1. n \in Nat /\ DOMAIN block.insns = 1 .. n /\ \A k \in 1 .. n : Ins(k) \in CodeSet /\ Ins(k) = code[bi][k]
  BY BlockFacts, ElementOfSeq DEF Ins
<1>2. \A v \in Operands : Rewritten(v) \in Operands
  BY DEF Rewritten, Operands
<1>3. ASSUME NEW k \in 1 .. n
      PROVE  /\ c[k] \in CodeSet
             /\ c[k].type = Ins(k).type /\ c[k].flags = Ins(k).flags
             /\ c[k].out = Rewritten(Ins(k).out) /\ c[k].in = {Rewritten(v) : v \in Ins(k).in}
  <2>1. k \in DOMAIN code[bi] /\ Ins(k) = code[bi][k] /\ Ins(k) \in CodeSet
    BY <1>1
  <2>2. c[k] = [Ins(k) EXCEPT !.out = Rewritten(@), !.in = {Rewritten(v) : v \in @}]
    BY <2>1 DEF RewrittenCode, InRegisters
  <2>3. Ins(k).out \in Operands /\ Ins(k).in \subseteq Operands
    BY <2>1 DEF CodeSet
  <2>4. {Rewritten(v) : v \in Ins(k).in} \subseteq Operands /\ Rewritten(Ins(k).out) \in Operands
    BY <1>2, <2>3
  <2>. QED  BY <2>1, <2>2, <2>4 DEF CodeSet
<1>4. DOMAIN c = 1 .. n
  BY <1>1 DEF RewrittenCode
<1>5. c = [k \in 1 .. n |-> c[k]]
  BY <1>1 DEF RewrittenCode
<1>. HIDE DEF c
<1>6. [k \in 1 .. n |-> c[k]] \in Seq(CodeSet)
  BY <1>1, <1>3
<1>7. c \in Seq(CodeSet) /\ Len(c) = n
  <2>1. c \in Seq(CodeSet)
    BY <1>5, <1>6
  <2>2. Len(c) \in Nat /\ 1 .. Len(c) = 1 .. n
    BY <1>4, <2>1, LenProperties
  <2>. QED  BY <1>1, <2>1, <2>2
<1>8. IsRewritten(c)
  BY <1>1, <1>3, <1>7 DEF IsRewritten
<1>. QED  BY <1>8 DEF c

-----------------------------------------------------------------------------
(* Insertions around the call.                                              *)

LEMMA BeforeFacts ==
  ASSUME NEW p \in DOMAIN code[bi], code[bi] \in Seq(CodeSet), code[bi][p].flags = Flags
  PROVE  BeforeCall(p) \in 1 .. p
<1>. DEFINE K == {0} \cup {k \in 1 .. p : "setup" \notin code[bi][k].flags}
<1>1. p \in Nat \ {0}
  BY LenProperties
<1>2. K \in SUBSET (0 .. p) /\ K # {} /\ p \notin K /\ p \in Nat
  BY <1>1 DEF Flags
<1>. HIDE DEF K
<1>3. IsMax(Max(K), K)
  BY <1>2, MaxOf
<1>4. BeforeCall(p) = 1 + Max(K)
  BY DEF BeforeCall, K
<1>5. Max(K) \in 0 .. p /\ Max(K) # p
  BY <1>2, <1>3 DEF IsMax
<1>. QED  BY <1>1, <1>4, <1>5

LEMMA AfterFacts ==
  ASSUME NEW p \in DOMAIN code[bi], code[bi] \in Seq(CodeSet), code[bi][p].flags = Flags
  PROVE  AfterCall(p) \in p + 1 .. Len(code[bi]) + 1
<1>. DEFINE n == Len(code[bi])
            K == {n + 1} \cup {k \in p .. n : "teardown" \notin code[bi][k].flags}
<1>1. p \in 1 .. n /\ n \in Nat
  BY LenProperties
<1>2. K \in SUBSET (p + 1 .. n + 1) /\ K # {}
  BY <1>1 DEF Flags
<1>3. K \in SUBSET Nat
  BY <1>1, <1>2
<1>. HIDE DEF K
<1>4. IsMin(Min(K), K)
  BY <1>2, <1>3, MinOf
<1>5. AfterCall(p) = Min(K)
  BY DEF AfterCall, K
<1>. QED  BY <1>2, <1>4, <1>5 DEF IsMin

LEMMA SlotType ==
  ASSUME NEW r \in Registers, NEW n \in Nat, NEW type \in {"save", "restore"}
  PROVE  /\ Slot(type, r, n) \in CodeSet /\ Slot(type, r, n).type = type
         /\ Slot(type, r, n).out = None /\ Slot(type, r, n).in = {r, n}
  BY RegisterFacts DEF Slot, CodeSet, Operands, Flags

\* the block's code after a slot is inserted
IsSlotted(c, q, type, r, n, d) ==
  /\ d \in Seq(CodeSet) /\ IsInserted(c, q, Slot(type, r, n), d)
  /\ \A k \in DOMAIN d : InFrame(d[k])
  /\ \A m \in Nat : Slots(c, m) /\ n < m => Slots(d, m)

LEMMA SlotInserted ==
  ASSUME NEW c \in Seq(CodeSet), NEW q \in 1 .. Len(c) + 1, NEW r \in Registers, NEW n \in Nat,
         NEW type \in {"save", "restore"}, NEW d, d = InsertAt(c, q, Slot(type, r, n)),
         CalleeIndex(r) <= maxCalleeSave, \A k \in DOMAIN c : InFrame(c[k])
  PROVE  IsSlotted(c, q, type, r, n, d)
<1>. DEFINE e == Slot(type, r, n)
<1>1. e \in CodeSet /\ e.type = type /\ e.out = None /\ e.in = {r, n}
  BY SlotType
<1>. HIDE DEF e
<1>2. d \in Seq(CodeSet) /\ IsInserted(c, q, e, d)
  BY <1>1, Inserted DEF e
<1>3. /\ Len(c) \in Nat /\ DOMAIN c = 1 .. Len(c) /\ DOMAIN d = 1 .. Len(c) + 1
      /\ \A k \in 1 .. Len(c) + 1 : d[k] = IF k < q THEN c[k] ELSE IF k = q THEN e ELSE c[k - 1]
  BY <1>2, LenProperties DEF IsInserted
<1>4. ASSUME NEW k \in DOMAIN d PROVE d[k] = e \/ \E j \in DOMAIN c : d[k] = c[j]
  <2>1. k < q => k \in DOMAIN c /\ d[k] = c[k]
    BY <1>3
  <2>2. k > q => k - 1 \in DOMAIN c /\ d[k] = c[k - 1]
    BY <1>3
  <2>3. k = q => d[k] = e
    BY <1>3
  <2>4. k < q \/ k > q \/ k = q
    BY <1>3
  <2>. QED  BY <2>1, <2>2, <2>3, <2>4
<1>5. InFrame(e)
  <2>1. ({e.out} \cup e.in) \cap Registers \subseteq {r}
    BY <1>1, RegisterFacts
  <2>. QED  BY <1>1, <2>1 DEF InFrame
<1>6. \A k \in DOMAIN d : InFrame(d[k])
  BY <1>4, <1>5
<1>7. ASSUME NEW m \in Nat, Slots(c, m), n < m PROVE Slots(d, m)
  <2>1. e.in \cap Nat = {n}
    BY <1>1, RegisterFacts
  <2>2. \A k \in e.in \cap Nat : k < m
    BY <1>7, <2>1
  <2>. QED  BY <1>4, <1>7, <2>2 DEF Slots
<1>. QED  BY <1>2, <1>6, <1>7 DEF e, IsSlotted

LEMMA SaveSets ==
  ASSUME block.tmps \in Nat, NEW n \in 0 .. block.tmps
  PROVE  /\ IsFiniteSet(ToSaveUpTo(n)) /\ Cardinality(ToSaveUpTo(n)) \in Nat
         /\ Cardinality(ToSaveUpTo(n)) <= Cardinality(ToSaveUpTo(block.tmps))
         /\ n = 0 => Cardinality(ToSaveUpTo(n)) = 0
         /\ n > 0 /\ ToSave(n) =>
              Cardinality(ToSaveUpTo(n)) = Cardinality(ToSaveUpTo(n - 1)) + 1
         /\ n > 0 /\ ~ToSave(n) => ToSaveUpTo(n) = ToSaveUpTo(n - 1)
<1>1. 1 \in Int /\ n \in Int /\ block.tmps \in Int
  OBVIOUS
<1>2. IsFiniteSet(1 .. block.tmps)
  BY <1>1, FS_Interval
<1>3. ToSaveUpTo(n) \subseteq ToSaveUpTo(block.tmps) /\ ToSaveUpTo(block.tmps) \subseteq 1 .. block.tmps
  BY DEF ToSaveUpTo
<1>4. IsFiniteSet(ToSaveUpTo(block.tmps))
  BY <1>2, <1>3, FS_Subset
<1>5. /\ IsFiniteSet(ToSaveUpTo(n)) /\ Cardinality(ToSaveUpTo(n)) <= Cardinality(ToSaveUpTo(block.tmps))
  BY <1>3, <1>4, FS_Subset
<1>6. Cardinality(ToSaveUpTo(n)) \in Nat
  BY <1>5, FS_CardinalityType
<1>7. n = 0 => Cardinality(ToSaveUpTo(n)) = 0
  <2>1. n = 0 => ToSaveUpTo(n) = {}
    BY DEF ToSaveUpTo
  <2>. QED  BY <2>1, FS_EmptySet
<1>8. ASSUME n > 0, ToSave(n)
      PROVE  Cardinality(ToSaveUpTo(n)) = Cardinality(ToSaveUpTo(n - 1)) + 1
  <2>1. ToSaveUpTo(n) = ToSaveUpTo(n - 1) \cup {n} /\ n \notin ToSaveUpTo(n - 1)
    BY <1>8 DEF ToSaveUpTo
  <2>2. IsFiniteSet(ToSaveUpTo(n - 1))
    BY <1>5, <2>1, FS_Subset
  <2>. QED  BY <2>1, <2>2, FS_AddElement
<1>9. n > 0 /\ ~ToSave(n) => ToSaveUpTo(n) = ToSaveUpTo(n - 1)
  BY DEF ToSaveUpTo
<1>. QED  BY <1>5, <1>6, <1>7, <1>8, <1>9

LEMMA SameSaves ==
  ASSUME source' = source, body' = body, bi' = bi, rmap' = rmap
  PROVE  /\ \A t : ToSave(t)' = ToSave(t)
         /\ \A n : ToSaveUpTo(n)' = ToSaveUpTo(n)
         /\ block' = block /\ Tmps' = Tmps /\ NB' = NB
<1>1. block' = block /\ Tmps' = Tmps /\ NB' = NB /\ \A t : LiveAcross(t)' = LiveAcross(t)
  BY SameBlock
<1>2. ASSUME NEW t PROVE ToSave(t)' = ToSave(t)
  BY <1>1 DEF ToSave, Preserved
<1>3. ASSUME NEW n PROVE ToSaveUpTo(n)' = ToSaveUpTo(n)
  BY <1>2 DEF ToSaveUpTo
<1>. QED  BY <1>1, <1>2, <1>3

LEMMA CodeInit ==
  Init => CodeInv
<1>. SUFFICES ASSUME Init PROVE CodeInv
  OBVIOUS
<1>1. phase = "abi" /\ counter = 0 /\ bi = 1
  BY DEF Init
<1>. QED  BY <1>1 DEF CodeInv, CodeType, CallInv, FrameInv, Rewriting

\* steps of the scan leave the code alone
LEMMA CodeInScan ==
  ASSUME TypeInv, TypeInv', CodeInv, UNCHANGED <<source, body, bi, saveVars, maxCallSave, hasCalls>>,
         phase \notin Rewriting, phase' \notin Rewriting, phase # "abi", phase' \notin {"abi", "collect"},
         maxCalleeSave <= maxCalleeSave',
         \A t \in Tmps : CalleeIndex(rmap'[t]) <= maxCalleeSave'
  PROVE  CodeInv'
<1>1. block' = block /\ Tmps' = Tmps /\ NB' = NB
  BY SameBlock
<1>2. /\ UNCHANGED <<source, body, bi, code, callAt, counter, maxCallSave, hasCalls>>
      /\ \A b : Untouched(b)' = Untouched(b)
  BY DEF saveVars, Untouched
<1>3. CodeType'
  BY <1>1, <1>2 DEF CodeInv, CodeType
<1>4. CallInv'
  BY DEF CallInv, Rewriting
<1>5. maxCalleeSave \in Nat /\ maxCalleeSave' \in Nat
  BY OrderFacts DEF TypeInv, TypeOK
<1>6. ASSUME NEW b \in 1 .. NB, ~Untouched(b), NEW k \in DOMAIN code[b] PROVE InFrame(code[b][k])'
  <2>. DEFINE i == code[b][k]
  <2>1. InFrame(i)
    BY <1>6 DEF CodeInv, FrameInv
  <2>2. \A r \in ({i.out} \cup i.in) \cap Registers : CalleeIndex(r) <= maxCalleeSave
    BY <2>1 DEF InFrame
  <2>3. \A r \in ({i.out} \cup i.in) \cap Registers : CalleeIndex(r) <= maxCalleeSave'
    <3>1. \A r : CalleeIndex(r) \in Nat
      BY RegisterFacts, OrderFacts
    <3>. QED  BY <1>5, <2>2, <3>1
  <2>4. i' = i
    BY <1>2
  <2>. QED  BY <1>2, <2>1, <2>3, <2>4 DEF InFrame
<1>7. ASSUME NEW b \in 1 .. NB, b < bi PROVE Slots(code[b], maxCallSave)'
  BY <1>2, <1>7 DEF CodeInv, FrameInv, Slots
<1>8. FrameInv'
  BY <1>1, <1>2, <1>6, <1>7 DEF FrameInv, Rewriting
<1>. QED  BY <1>3, <1>4, <1>8 DEF CodeInv

\* the rewritten block uses registers of its map and argument registers
LEMMA RewrittenInFrame ==
  ASSUME BlockOK, rmap \in [Tmps -> Registers], \A t \in Tmps : CalleeIndex(rmap[t]) <= maxCalleeSave,
         maxCalleeSave \in Nat, NEW c, IsRewritten(c), NEW k \in DOMAIN block.insns,
         NEW r \in ({c[k].out} \cup c[k].in) \cap Registers
  PROVE  CalleeIndex(r) <= maxCalleeSave
<1>1. PICK v \in {Ins(k).out} \cup Ins(k).in : r = Rewritten(v)
  BY DEF IsRewritten
<1>2. v \in {None} \cup Tmps \cup ArgSet
  BY OperandFacts, BlockFacts DEF Tmps
<1>3. CASE v \in Tmps
  BY <1>1, <1>3 DEF Rewritten
<1>4. CASE v \notin Tmps
  <2>1. r = v /\ v \in ArgSet
    BY <1>1, <1>2, <1>4, RegisterFacts DEF Rewritten
  <2>. QED  BY <2>1, RegisterFacts
<1>. QED  BY <1>3, <1>4

\* what a step of do_call_saves() keeps when d is the block's code after it
LEMMA CodeInSaves ==
  ASSUME TypeInv, CodeInv, UNCHANGED <<source, body, bi, rmap, fnVars>>,
         phase \in {"save", "restore"}, phase' \in {"save", "restore"},
         NEW d \in Seq(CodeSet), code' = [code EXCEPT ![bi] = d], \A k \in DOMAIN d : InFrame(d[k]),
         CallInv', phase' = "save" => Slots(d, counter'),
         phase' = "restore" => Slots(d, Cardinality(ToSaveUpTo(block.tmps))),
         counter' = Cardinality(ToSaveUpTo(li' - 1))
  PROVE  CodeInv'
<1>1. /\ block' = block /\ Tmps' = Tmps /\ NB' = NB
      /\ \A n : ToSaveUpTo(n)' = ToSaveUpTo(n)
  BY SameSaves
<1>2. /\ UNCHANGED <<source, body, bi, rmap, maxCalleeSave, maxCallSave, hasCalls>>
      /\ bi \in 1 .. NB
      /\ code \in [1 .. NB -> Seq(CodeSet)] /\ \A b \in 1 .. NB : Untouched(b) => code[b] = body[b].insns
      /\ \A b : Untouched(b)' = Untouched(b)
  BY DEF fnVars, CodeInv, CodeType, Untouched, Rewriting, TypeInv, Shape
<1>3. /\ code' \in [1 .. NB -> Seq(CodeSet)] /\ code'[bi] = d
      /\ \A b \in 1 .. NB : b # bi => code'[b] = code[b]
  BY <1>2
<1>4. ~Untouched(bi) /\ \A b \in 1 .. NB : Untouched(b) => b # bi
  BY <1>2 DEF Untouched, Rewriting
<1>5. CodeType'
  BY <1>1, <1>2, <1>3, <1>4 DEF CodeType, Rewriting
<1>6. ASSUME NEW b \in 1 .. NB, ~Untouched(b), NEW k \in DOMAIN code'[b] PROVE InFrame(code[b][k])'
  <2>1. InFrame(code'[b][k])
    BY <1>3, <1>6 DEF CodeInv, FrameInv
  <2>. QED  BY <1>2, <2>1 DEF InFrame
<1>7. ASSUME NEW b \in 1 .. NB, b < bi PROVE Slots(code[b], maxCallSave)'
  <2>1. code'[b] = code[b]
    BY <1>2, <1>3, <1>7
  <2>2. Slots(code[b], maxCallSave)
    BY <1>7 DEF CodeInv, FrameInv
  <2>. QED  BY <1>2, <2>1, <2>2 DEF Slots
<1>8. \A t \in Tmps : CalleeIndex(rmap[t]) <= maxCalleeSave
  BY DEF CodeInv, FrameInv
<1>9. phase' = "save" => Slots(code[bi], counter)'
  BY <1>2, <1>3 DEF Slots
<1>10. phase' = "restore" => Slots(code[bi], Cardinality(ToSaveUpTo(block.tmps)))'
  BY <1>1, <1>2, <1>3 DEF Slots
<1>11. (counter = Cardinality(ToSaveUpTo(li - 1)))'
  BY <1>1
<1>12. FrameInv'
  BY <1>1, <1>2, <1>6, <1>7, <1>8, <1>9, <1>10, <1>11 DEF FrameInv
<1>. QED  BY <1>5, <1>12 DEF CodeInv

LEMMA CodeNext ==
  ScanInv /\ CodeInv /\ [Next]_vars => CodeInv'
<1>. SUFFICES ASSUME ScanInv, CodeInv, [Next]_vars PROVE CodeInv'
  OBVIOUS
<1>0. /\ TypeInv /\ TypeInv' /\ RegInv /\ block.tmps \in Nat
      /\ phase # "abi" => BlockOK
      /\ li \in 1 .. block.tmps + 1 /\ bi \in 1 .. NB
      /\ maxCalleeSave \in Nat /\ maxCallSave \in Nat /\ counter \in Nat
  <2>1. TypeInv /\ TypeInv' /\ RegInv
    BY TypeNext DEF ScanInv
  <2>2. block.tmps \in Nat /\ (phase # "abi" => BlockOK)
    BY <2>1, ShapeFacts DEF TypeInv
  <2>3. TypeOK
    BY DEF ScanInv, TypeInv
  <2>. QED  BY <2>1, <2>2, <2>3, OrderFacts DEF TypeOK
<1>1. CASE Lower
  <2>1. /\ phase = "abi" /\ phase' = "collect" /\ UNCHANGED <<source, bi, counter>>
        /\ code' = [b \in 1 .. NB |-> body'[b].insns]
        /\ body' = [b \in 1 .. NB |-> Lowered(source[b])]
    BY <1>1 DEF Lower, Lowered
  <2>2. source \in Functions /\ NB' = NB
    BY <1>0, <2>1 DEF TypeInv, Shape, NB
  <2>3. \A b \in 1 .. NB : body'[b].insns \in Seq(CodeSet)
    BY <2>1, <2>2, SourceFacts, LoweredCode
  <2>4. bi = 1 /\ counter = 0
    BY <2>1 DEF CodeInv, CodeType, Rewriting
  <2>5. \A b \in 1 .. NB : Untouched(b)'
    BY <2>1, <2>4 DEF Untouched, Rewriting
  <2>6. CodeType'
    BY <2>1, <2>2, <2>3, <2>4 DEF CodeType
  <2>7. CallInv' /\ FrameInv'
    BY <2>1, <2>2, <2>4, <2>5 DEF CallInv, FrameInv
  <2>. QED  BY <2>6, <2>7 DEF CodeInv
<1>2. CASE Collect
  <2>1. /\ phase = "collect" /\ phase' = "scan" /\ rmap' = Precoloured
        /\ UNCHANGED <<source, body, bi, saveVars, fnVars>>
    BY <1>2 DEF Collect
  <2>2. BlockOK
    BY <1>0, <2>1
  <2>3. \A t \in Tmps : CalleeIndex(rmap'[t]) <= maxCalleeSave'
    <3>1. maxCalleeSave' = maxCalleeSave
      BY <2>1 DEF fnVars
    <3>2. \A t \in Tmps : CalleeIndex(Precoloured[t]) = 0
      BY <2>2, LoadFacts, RegisterFacts DEF IsLoaded, IsComputed
    <3>. QED  BY <1>0, <2>1, <3>1, <3>2
  <2>4. maxCalleeSave <= maxCalleeSave'
    BY <1>0, <2>1 DEF fnVars
  <2>. QED  BY <1>0, <2>1, <2>3, <2>4, CodeInScan DEF Rewriting, fnVars
<1>3. CASE SkipDecided \/ Consider \/ Drop \/ Keep \/ Stop \/ OutOfRegisters
  <2>1. /\ UNCHANGED <<source, body, bi, rmap, saveVars, fnVars>>
        /\ phase \in Scanning /\ phase' \in Scanning
    BY <1>3 DEF SkipDecided, Consider, Drop, Keep, Stop, Walking, OutOfRegisters, Scanning
  <2>2. \A t \in Tmps : CalleeIndex(rmap'[t]) <= maxCalleeSave'
    BY <2>1 DEF fnVars, CodeInv, FrameInv, Scanning
  <2>3. maxCalleeSave <= maxCalleeSave'
    BY <1>0, <2>1 DEF fnVars
  <2>. QED  BY <1>0, <2>1, <2>2, <2>3, CodeInScan DEF Rewriting, Scanning, fnVars
<1>4. CASE UseHint
  <2>1. /\ phase = "pick" /\ phase' = "scan" /\ UNCHANGED <<source, body, bi, saveVars, fnVars>>
        /\ Hint(li) # None /\ rmap' = [rmap EXCEPT ![li] = Hint(li)]
    BY <1>4 DEF UseHint, Hinted
  <2>2. li \in Tmps /\ BlockOK
    BY <1>0, <2>1 DEF TypeInv, Decided
  <2>3. CalleeIndex(Hint(li)) = 0
    BY <2>1, <2>2, HintFacts, RegisterFacts
  <2>4. \A t \in Tmps : CalleeIndex(rmap[t]) <= maxCalleeSave
    BY <2>1 DEF CodeInv, FrameInv
  <2>5. \A t \in Tmps : CalleeIndex(rmap'[t]) <= maxCalleeSave'
    <3>1. rmap \in [Tmps -> Registers \cup {None}] /\ maxCalleeSave' = maxCalleeSave
      BY <1>0, <2>1 DEF TypeInv, TypeOK, fnVars
    <3>. QED  BY <1>0, <2>1, <2>3, <2>4, <3>1
  <2>6. maxCalleeSave <= maxCalleeSave'
    BY <1>0, <2>1 DEF fnVars
  <2>. QED  BY <1>0, <2>1, <2>5, <2>6, CodeInScan DEF Rewriting, fnVars
<1>5. CASE UseFree
  <2>1. /\ phase = "pick" /\ phase' = "scan" /\ UNCHANGED <<source, body, bi, saveVars, maxCallSave, hasCalls>>
    BY <1>5 DEF UseFree
  <2>2. PICK i \in DOMAIN Order : /\ rmap' = [rmap EXCEPT ![li] = Order[i]]
                                  /\ maxCalleeSave' = Max({maxCalleeSave, CalleeIndex(Order[i])})
    BY <1>5 DEF UseFree
  <2>. DEFINE c == CalleeIndex(Order[i])
  <2>3. c \in Nat /\ \A r : CalleeIndex(r) \in Nat
    BY RegisterFacts, OrderFacts
  <2>4. \A t \in Tmps : CalleeIndex(rmap[t]) <= maxCalleeSave
    BY <2>1 DEF CodeInv, FrameInv
  <2>5. maxCalleeSave' = IF maxCalleeSave >= c THEN maxCalleeSave ELSE c
    <3>. HIDE DEF c
    <3>1. Max({maxCalleeSave, c}) = IF maxCalleeSave >= c THEN maxCalleeSave ELSE c
      BY <1>0, <2>3, MaxOfTwo
    <3>. QED  BY <2>2, <3>1 DEF c
  <2>6. maxCalleeSave <= maxCalleeSave' /\ c <= maxCalleeSave' /\ maxCalleeSave' \in Nat
    BY <1>0, <2>3, <2>5
  <2>7. \A t \in Tmps : CalleeIndex(rmap'[t]) <= maxCalleeSave'
    <3>1. rmap \in [Tmps -> Registers \cup {None}] /\ li \in Tmps
      BY <1>0, <2>1 DEF TypeInv, TypeOK, Decided
    <3>2. \A t \in Tmps : rmap'[t] = Order[i] \/ rmap'[t] = rmap[t]
      BY <2>2, <3>1
    <3>3. \A t \in Tmps : CalleeIndex(rmap[t]) <= maxCalleeSave'
      BY <1>0, <2>3, <2>4, <2>6
    <3>. QED  BY <2>6, <3>2, <3>3
  <2>. QED  BY <1>0, <2>1, <2>6, <2>7, CodeInScan DEF Rewriting
<1>6. CASE Rewrite
  <2>1. /\ phase = "scan" /\ li \notin Tmps /\ li' = 1
        /\ UNCHANGED <<source, body, bi, rmap, counter, maxCalleeSave, maxCallSave>>
        /\ code' \in [1 .. NB -> {code'[b] : b \in 1 .. NB}] /\ code'[bi] = RewrittenCode
        /\ \A b \in 1 .. NB : b # bi => code'[b] = code[b]
        /\ hasCalls' = (hasCalls \/ Calls # {})
        /\ IF Calls = {} THEN phase' = "blockDone" ELSE phase' = "save" /\ callAt' = Min(Calls)
    <3>1. /\ phase = "scan" /\ li \notin Tmps /\ li' = 1
          /\ UNCHANGED <<source, body, bi, rmap, counter, maxCalleeSave, maxCallSave>>
          /\ hasCalls' = (hasCalls \/ Calls # {})
          /\ IF Calls = {} THEN phase' = "blockDone" ELSE phase' = "save" /\ callAt' = Min(Calls)
      BY <1>6 DEF Rewrite
    <3>2. code \in [1 .. NB -> Seq(CodeSet)]
      BY <3>1 DEF CodeInv, CodeType
    <3>3. code' = [code EXCEPT ![bi] =
                    [k \in DOMAIN @ |-> InRegisters(@[k])]]
      BY <1>6 DEF Rewrite
    <3>4. bi \in 1 .. NB /\ DOMAIN code = 1 .. NB
      BY <1>0, <3>2
    <3>5. DOMAIN code' = 1 .. NB /\ \A b \in 1 .. NB : b # bi => code'[b] = code[b]
      BY <3>3, <3>4
    <3>6. code'[bi] = RewrittenCode
      BY <3>3, <3>4 DEF RewrittenCode
    <3>7. code' = [b \in 1 .. NB |-> code'[b]]
      BY <3>3, <3>4
    <3>. QED  BY <3>1, <3>5, <3>6, <3>7
  <2>2. /\ BlockOK /\ rmap \in [Tmps -> Registers]
    <3>1. rmap' \in [Tmps' -> Registers]
      BY <1>0, <2>1 DEF TypeInv, TypeOK
    <3>2. Tmps' = Tmps
      BY <2>1, SameBlock
    <3>. QED  BY <1>0, <2>1, <3>1, <3>2
  <2>3. /\ code \in [1 .. NB -> Seq(CodeSet)] /\ code[bi] \in Seq(CodeSet) /\ code[bi] = block.insns
        /\ counter = 0 /\ \A b \in 1 .. NB : Untouched(b) => code[b] = body[b].insns
    BY <1>0, <2>1 DEF CodeInv, CodeType, Untouched, Rewriting, block
  <2>. DEFINE c == RewrittenCode
  <2>4. IsRewritten(c)
    BY <2>2, <2>3, RewriteFacts
  <2>. HIDE DEF c
  <2>5. /\ c \in Seq(CodeSet) /\ code'[bi] = c /\ code' \in [1 .. NB -> Seq(CodeSet)]
        /\ \A b \in 1 .. NB : b # bi => code'[b] = code[b]
        /\ DOMAIN c = DOMAIN block.insns
        /\ \A k \in DOMAIN c : c[k].type = Ins(k).type /\ c[k].flags = Ins(k).flags
        /\ \A k \in DOMAIN c : c[k].type \in {"move", "op", "call"}
        /\ \A k \in DOMAIN c : c[k].type = "call" => c[k].flags = Flags /\ k \in Calls
    <3>1. c \in Seq(CodeSet) /\ DOMAIN c = DOMAIN block.insns
      BY <2>2, <2>4, LenProperties, BlockFacts DEF IsRewritten
    <3>2. ASSUME NEW k \in DOMAIN c
          PROVE  /\ c[k].type = Ins(k).type /\ c[k].flags = Ins(k).flags
                 /\ c[k].type \in {"move", "op", "call"}
                 /\ c[k].type = "call" => c[k].flags = Flags /\ k \in Calls
      <4>1. c[k].type = Ins(k).type /\ c[k].flags = Ins(k).flags
        BY <2>4, <3>1 DEF IsRewritten
      <4>2. IsLowered(Ins(k), Src(k))
        BY <2>2, <3>1, InstructionFacts DEF IsInBlock
      <4>. QED  BY <3>1, <4>1, <4>2 DEF IsLowered, Flags, Calls, Ins
    <3>. QED  BY <1>0, <2>1, <2>3, <3>1, <3>2 DEF c
  <2>6. block' = block /\ Tmps' = Tmps /\ NB' = NB /\ \A n : ToSaveUpTo(n)' = ToSaveUpTo(n)
    BY <2>1, SameSaves
  <2>7. \A b \in 1 .. NB : (Untouched(b)' <=> b > bi) /\ (Untouched(b)' => b # bi /\ Untouched(b))
    <3>1. phase' \in Rewriting /\ bi' = bi /\ bi \in 1 .. NB
      BY <1>0, <2>1 DEF Rewriting
    <3>. QED  BY <3>1 DEF Untouched
  <2>8. CodeType'
    <3>1. \A b \in 1 .. NB : Untouched(b)' => b # bi /\ Untouched(b)
      BY <2>7
    <3>2. phase' \in Rewriting /\ phase' # "abi"
      BY <2>1 DEF Rewriting
    <3>. QED  BY <2>1, <2>3, <2>5, <2>6, <3>1, <3>2 DEF CodeType
  <2>9. CallInv'
    <3>. SUFFICES ASSUME Calls # {}
                  PROVE  /\ Min(Calls) \in DOMAIN c /\ c[Min(Calls)].type = "call"
                         /\ c[Min(Calls)].flags = Flags
      BY <2>1, <2>5 DEF CallInv
    <3>1. Calls \in SUBSET Nat
      BY <2>2, BlockFacts DEF Calls
    <3>2. Min(Calls) \in Calls
      BY <3>1, MinOf DEF IsMin
    <3>. QED  BY <2>5, <3>2 DEF Calls, Ins
  <2>10. \A t \in Tmps : CalleeIndex(rmap[t]) <= maxCalleeSave
    BY <2>1 DEF CodeInv, FrameInv
  <2>11. ASSUME NEW k \in DOMAIN c
         PROVE  /\ \A r \in ({c[k].out} \cup c[k].in) \cap Registers : CalleeIndex(r) <= maxCalleeSave
                /\ c[k].type = "call" => hasCalls'
    <3>1. \A r \in ({c[k].out} \cup c[k].in) \cap Registers : CalleeIndex(r) <= maxCalleeSave
      BY <1>0, <2>2, <2>4, <2>5, <2>10, <2>11, RewrittenInFrame
    <3>2. c[k].type = "call" => k \in Calls
      BY <2>5, <2>11
    <3>. QED  BY <2>1, <3>1, <3>2
  <2>12. ASSUME NEW b \in 1 .. NB, ~Untouched(b)', NEW k \in DOMAIN code'[b] PROVE InFrame(code[b][k])'
    <3>1. CASE b = bi
      <4>1. k \in DOMAIN c /\ code'[b][k] = c[k]
        BY <2>5, <2>12, <3>1
      <4>2. /\ \A r \in ({c[k].out} \cup c[k].in) \cap Registers : CalleeIndex(r) <= maxCalleeSave
            /\ c[k].type = "call" => hasCalls'
        BY <2>11, <4>1
      <4>3. /\ \A r \in ({code'[b][k].out} \cup code'[b][k].in) \cap Registers :
                  CalleeIndex(r) <= maxCalleeSave'
            /\ code'[b][k].type = "call" => hasCalls'
        BY <2>1, <4>1, <4>2
      <4>. QED  BY <4>3 DEF InFrame
    <3>2. CASE b # bi
      <4>1. ~Untouched(b) /\ code'[b] = code[b]
        BY <1>0, <2>5, <2>7, <2>12, <3>2 DEF Untouched
      <4>2. InFrame(code[b][k])
        BY <2>1, <2>12, <4>1 DEF CodeInv, FrameInv
      <4>. QED  BY <2>1, <4>1, <4>2 DEF InFrame
    <3>. QED  BY <3>1, <3>2
  <2>13. \A m : Slots(c, m)
    BY <2>5 DEF Slots
  <2>14. ASSUME NEW b \in 1 .. NB, b < bi PROVE Slots(code[b], maxCallSave)'
    <3>1. code'[b] = code[b] /\ Slots(code[b], maxCallSave)
      BY <1>0, <2>1, <2>5, <2>14 DEF CodeInv, FrameInv
    <3>. QED  BY <2>1, <3>1 DEF Slots
  <2>15. Slots(code[bi], maxCallSave)' /\ Slots(code[bi], counter)'
    BY <2>1, <2>5, <2>13 DEF Slots
  <2>16. counter' = Cardinality(ToSaveUpTo(li' - 1))
    <3>1. 0 \in 0 .. block.tmps /\ li' - 1 = 0
      BY <1>0, <2>1
    <3>2. Cardinality(ToSaveUpTo(0)) = 0
      BY <1>0, <3>1, SaveSets
    <3>. QED  BY <2>1, <2>3, <3>1, <3>2
  <2>17. FrameInv'
    <3>1. phase' \in {"save", "blockDone"}
      BY <2>1
    <3>2. counter' = Cardinality(ToSaveUpTo(li - 1)')
      BY <2>6, <2>16 DEF ToSaveUpTo
    <3>. QED  BY <2>1, <2>6, <2>10, <2>12, <2>14, <2>15, <3>1, <3>2 DEF FrameInv
  <2>. QED  BY <2>8, <2>9, <2>17 DEF CodeInv
<1>. DEFINE d == code[bi]
<1>7. ASSUME phase \in {"save", "restore"}
      PROVE  /\ BlockOK /\ d \in Seq(CodeSet) /\ rmap \in [Tmps -> Registers]
             /\ callAt \in DOMAIN d /\ d[callAt].type = "call" /\ d[callAt].flags = Flags
             /\ DOMAIN d = 1 .. Len(d) /\ Len(d) \in Nat /\ callAt \in Nat
             /\ \A k \in DOMAIN d : InFrame(d[k])
             /\ counter = Cardinality(ToSaveUpTo(li - 1))
             /\ phase = "save" => Slots(d, counter)
             /\ phase = "restore" => Slots(d, Cardinality(ToSaveUpTo(block.tmps)))
             /\ code = [code EXCEPT ![bi] = d]
             /\ \A t \in Tmps : CalleeIndex(rmap[t]) <= maxCalleeSave
  <2>1. BlockOK /\ rmap \in [Tmps -> Registers]
    BY <1>0, <1>7 DEF TypeInv, TypeOK
  <2>2. code \in [1 .. NB -> Seq(CodeSet)] /\ ~Untouched(bi)
    BY <1>0, <1>7 DEF CodeInv, CodeType, Untouched, Rewriting
  <2>3. d \in Seq(CodeSet) /\ code = [code EXCEPT ![bi] = d]
    BY <1>0, <2>2
  <2>4. callAt \in DOMAIN d /\ d[callAt].type = "call" /\ d[callAt].flags = Flags
    BY <1>7 DEF CodeInv, CallInv
  <2>5. /\ \A k \in DOMAIN d : InFrame(d[k])
        /\ counter = Cardinality(ToSaveUpTo(li - 1))
        /\ phase = "save" => Slots(d, counter)
        /\ phase = "restore" => Slots(d, Cardinality(ToSaveUpTo(block.tmps)))
        /\ \A t \in Tmps : CalleeIndex(rmap[t]) <= maxCalleeSave
    BY <1>0, <1>7, <2>2 DEF CodeInv, FrameInv
  <2>. HIDE DEF d
  <2>6. DOMAIN d = 1 .. Len(d) /\ Len(d) \in Nat /\ callAt \in Nat
    BY <2>3, <2>4, LenProperties
  <2>. QED  BY <2>1, <2>3, <2>4, <2>5, <2>6
<1>8. CASE SkipSave \/ SkipRestore
  <2>1. /\ phase \in {"save", "restore"} /\ phase' = phase /\ li \in Tmps /\ ~ToSave(li) /\ li' = li + 1
        /\ UNCHANGED <<source, body, bi, rmap, code, callAt, counter, fnVars>>
    BY <1>8 DEF SkipSave, SkipRestore, saveVars
  <2>2. CallInv'
    BY <2>1 DEF CodeInv, CallInv
  <2>3. counter' = Cardinality(ToSaveUpTo(li' - 1))
    <3>1. li \in 0 .. block.tmps /\ li > 0 /\ li' - 1 = li
      BY <1>0, <2>1 DEF Tmps
    <3>2. ToSaveUpTo(li) = ToSaveUpTo(li - 1)
      BY <1>0, <2>1, <3>1, SaveSets
    <3>. QED  BY <1>7, <2>1, <3>1, <3>2
  <2>4. code' = [code EXCEPT ![bi] = d] /\ d \in Seq(CodeSet) /\ \A k \in DOMAIN d : InFrame(d[k])
    BY <1>7, <2>1
  <2>5. /\ phase' = "save" => Slots(d, counter')
        /\ phase' = "restore" => Slots(d, Cardinality(ToSaveUpTo(block.tmps)))
    BY <1>7, <2>1
  <2>. HIDE DEF d
  <2>. QED  BY <1>0, <2>1, <2>2, <2>3, <2>4, <2>5, CodeInSaves
<1>9. CASE EndSaves
  <2>1. /\ phase = "save" /\ phase' = "restore" /\ li \notin Tmps /\ li' = 1 /\ counter' = 0
        /\ UNCHANGED <<source, body, bi, rmap, code, callAt, fnVars>>
    BY <1>9 DEF EndSaves
  <2>2. CallInv'
    BY <2>1 DEF CodeInv, CallInv
  <2>3. counter' = Cardinality(ToSaveUpTo(li' - 1))
    <3>1. 0 \in 0 .. block.tmps /\ li' - 1 = 0
      BY <1>0, <2>1
    <3>2. Cardinality(ToSaveUpTo(0)) = 0
      BY <1>0, <3>1, SaveSets
    <3>. QED  BY <2>1, <3>1, <3>2
  <2>4. code' = [code EXCEPT ![bi] = d] /\ d \in Seq(CodeSet) /\ \A k \in DOMAIN d : InFrame(d[k])
    BY <1>7, <2>1
  <2>5. Slots(d, Cardinality(ToSaveUpTo(block.tmps)))
    <3>1. li - 1 = block.tmps
      BY <1>0, <2>1 DEF Tmps
    <3>. QED  BY <1>7, <2>1, <3>1
  <2>. HIDE DEF d
  <2>. QED  BY <1>0, <2>1, <2>2, <2>3, <2>4, <2>5, CodeInSaves
<1>10. CASE Save
  <2>. DEFINE e == Slot("save", rmap[li], counter)
              q == BeforeCall(callAt)
              n == InsertAt(d, q, e)
  <2>1. /\ phase = "save" /\ phase' = "save" /\ li \in Tmps /\ ToSave(li) /\ li' = li + 1
        /\ callAt' = callAt + 1 /\ counter' = counter + 1
        /\ UNCHANGED <<source, body, bi, rmap, fnVars>>
    BY <1>10 DEF Save
  <2>2. code' = [code EXCEPT ![bi] = n]
    BY <1>0, <1>10, <2>1 DEF Save, CodeInv, CodeType
  <2>3. q \in 1 .. callAt /\ q \in 1 .. Len(d) + 1
    <3>1. q \in 1 .. callAt
      BY <1>7, <2>1, BeforeFacts
    <3>. QED  BY <1>7, <2>1, <3>1
  <2>4. rmap[li] \in Registers /\ CalleeIndex(rmap[li]) <= maxCalleeSave
    BY <1>7, <2>1
  <2>. HIDE DEF n, q, d
  <2>5. /\ n \in Seq(CodeSet) /\ IsInserted(d, q, e, n)
        /\ \A k \in DOMAIN n : InFrame(n[k])
        /\ \A m \in Nat : Slots(d, m) /\ counter < m => Slots(n, m)
    <3>1. n = InsertAt(d, q, Slot("save", rmap[li], counter)) /\ "save" \in {"save", "restore"}
      BY DEF n, e
    <3>2. d \in Seq(CodeSet)
      BY <1>7, <2>1
    <3>3. \A k \in DOMAIN d : InFrame(d[k])
      BY <1>7, <2>1
    <3>4. counter \in Nat /\ rmap[li] \in Registers /\ q \in 1 .. Len(d) + 1
      BY <1>0, <2>3, <2>4
    <3>5. CalleeIndex(rmap[li]) <= maxCalleeSave
      BY <2>4
    <3>. HIDE DEF e
    <3>6. IsSlotted(d, q, "save", rmap[li], counter, n)
      BY <3>1, <3>2, <3>3, <3>4, <3>5, SlotInserted
    <3>. QED  BY <3>6 DEF IsSlotted, e
  <2>. HIDE DEF e
  <2>6. counter' = Cardinality(ToSaveUpTo(li' - 1))
    <3>1. li \in 0 .. block.tmps /\ li > 0 /\ li' - 1 = li
      BY <1>0, <2>1 DEF Tmps
    <3>2. Cardinality(ToSaveUpTo(li)) = Cardinality(ToSaveUpTo(li - 1)) + 1
      BY <1>0, <2>1, <3>1, SaveSets
    <3>. QED  BY <1>7, <2>1, <3>1, <3>2
  <2>7. Slots(n, counter')
    <3>1. Slots(d, counter')
      BY <1>0, <1>7, <2>1 DEF Slots
    <3>2. counter < counter' /\ counter' \in Nat
      BY <1>0, <2>1
    <3>. QED  BY <2>5, <3>1, <3>2
  <2>8. CallInv'
    <3>1. /\ callAt + 1 \in 1 .. Len(d) + 1 /\ ~(callAt + 1 < q) /\ callAt + 1 # q /\ (callAt + 1) - 1 = callAt
      BY <1>7, <2>1, <2>3
    <3>2. n[callAt + 1] = d[callAt] /\ Len(n) = Len(d) + 1
      BY <3>1, <2>5 DEF IsInserted
    <3>3. callAt + 1 \in DOMAIN n
      BY <2>5, <3>1, <3>2, LenProperties
    <3>4. code'[bi] = n
      BY <1>0, <2>1, <2>2 DEF CodeInv, CodeType
    <3>. QED  BY <1>7, <2>1, <3>2, <3>3, <3>4 DEF CallInv
  <2>. QED  BY <1>0, <2>1, <2>2, <2>5, <2>6, <2>7, <2>8, CodeInSaves
<1>11. CASE Restore
  <2>. DEFINE e == Slot("restore", rmap[li], counter)
              q == AfterCall(callAt)
              n == InsertAt(d, q, e)
              all == Cardinality(ToSaveUpTo(block.tmps))
  <2>1. /\ phase = "restore" /\ phase' = "restore" /\ li \in Tmps /\ ToSave(li) /\ li' = li + 1
        /\ callAt' = callAt /\ counter' = counter + 1
        /\ UNCHANGED <<source, body, bi, rmap, fnVars>>
    BY <1>11 DEF Restore
  <2>2. code' = [code EXCEPT ![bi] = n]
    BY <1>0, <1>11, <2>1 DEF Restore, CodeInv, CodeType
  <2>3. q \in callAt + 1 .. Len(d) + 1 /\ q \in 1 .. Len(d) + 1
    <3>1. q \in callAt + 1 .. Len(d) + 1
      BY <1>7, <2>1, AfterFacts
    <3>. QED  BY <1>7, <2>1, <3>1
  <2>4. rmap[li] \in Registers /\ CalleeIndex(rmap[li]) <= maxCalleeSave
    BY <1>7, <2>1
  <2>. HIDE DEF n, q, d
  <2>5. /\ n \in Seq(CodeSet) /\ IsInserted(d, q, e, n)
        /\ \A k \in DOMAIN n : InFrame(n[k])
        /\ \A m \in Nat : Slots(d, m) /\ counter < m => Slots(n, m)
    <3>1. n = InsertAt(d, q, Slot("restore", rmap[li], counter)) /\ "restore" \in {"save", "restore"}
      BY DEF n, e
    <3>2. d \in Seq(CodeSet)
      BY <1>7, <2>1
    <3>3. \A k \in DOMAIN d : InFrame(d[k])
      BY <1>7, <2>1
    <3>4. counter \in Nat /\ rmap[li] \in Registers /\ q \in 1 .. Len(d) + 1
      BY <1>0, <2>3, <2>4
    <3>5. CalleeIndex(rmap[li]) <= maxCalleeSave
      BY <2>4
    <3>. HIDE DEF e
    <3>6. IsSlotted(d, q, "restore", rmap[li], counter, n)
      BY <3>1, <3>2, <3>3, <3>4, <3>5, SlotInserted
    <3>. QED  BY <3>6 DEF IsSlotted, e
  <2>. HIDE DEF e
  <2>6. /\ counter' = Cardinality(ToSaveUpTo(li' - 1)) /\ all \in Nat /\ counter < all
    <3>1. li \in 0 .. block.tmps /\ li > 0 /\ li' - 1 = li /\ block.tmps \in 0 .. block.tmps
      BY <1>0, <2>1 DEF Tmps
    <3>2. Cardinality(ToSaveUpTo(li)) = Cardinality(ToSaveUpTo(li - 1)) + 1
      BY <1>0, <2>1, <3>1, SaveSets
    <3>3. Cardinality(ToSaveUpTo(li)) <= all /\ all \in Nat
      BY <1>0, <3>1, SaveSets
    <3>. QED  BY <1>0, <1>7, <2>1, <3>1, <3>2, <3>3
  <2>. HIDE DEF all
  <2>7. Slots(n, all)
    BY <1>7, <2>1, <2>5, <2>6 DEF all
  <2>8. CallInv'
    <3>1. callAt \in 1 .. Len(d) + 1 /\ callAt < q
      BY <1>7, <2>1, <2>3
    <3>2. n[callAt] = d[callAt] /\ Len(n) = Len(d) + 1
      BY <3>1, <2>5 DEF IsInserted
    <3>3. callAt \in DOMAIN n
      BY <2>5, <3>1, <3>2, LenProperties
    <3>4. code'[bi] = n
      BY <1>0, <2>1, <2>2 DEF CodeInv, CodeType
    <3>. QED  BY <1>7, <2>1, <3>2, <3>3, <3>4 DEF CallInv
  <2>9. phase' = "restore" => Slots(n, Cardinality(ToSaveUpTo(block.tmps)))
    BY <2>7 DEF all
  <2>. QED  BY <1>0, <2>1, <2>2, <2>5, <2>6, <2>8, <2>9, CodeInSaves
<1>12. CASE EndRestores \/ Finish \/ UNCHANGED vars
  <2>1. /\ UNCHANGED <<source, body, bi, rmap, code, callAt, counter, maxCalleeSave, hasCalls>>
        /\ \/ phase = "restore" /\ phase' = "blockDone" /\ li \notin Tmps
                /\ maxCallSave' = Max({maxCallSave, counter})
           \/ phase = "blockDone" /\ phase' = "done" /\ bi = NB /\ maxCallSave' = maxCallSave
           \/ phase' = phase /\ maxCallSave' = maxCallSave /\ li' = li
    BY <1>12 DEF EndRestores, Finish, vars, scanVars, saveVars, fnVars
  <2>2. block' = block /\ Tmps' = Tmps /\ NB' = NB /\ \A n : ToSaveUpTo(n)' = ToSaveUpTo(n)
    BY <2>1, SameSaves
  <2>3. phase' \in Rewriting <=> phase \in Rewriting
    BY <2>1 DEF Rewriting
  <2>4. \A b : Untouched(b)' = Untouched(b)
    BY <2>1, <2>3 DEF Untouched
  <2>5. phase' = "abi" <=> phase = "abi"
    BY <2>1
  <2>6. CodeType'
    BY <2>1, <2>2, <2>3, <2>4, <2>5 DEF CodeInv, CodeType
  <2>7. CallInv'
    BY <2>1 DEF CodeInv, CallInv
  <2>8. maxCallSave <= maxCallSave' /\ maxCallSave' \in Nat
        /\ (phase = "restore" /\ phase' = "blockDone" => counter <= maxCallSave')
    <3>1. Max({maxCallSave, counter}) = IF maxCallSave >= counter THEN maxCallSave ELSE counter
      BY <1>0, MaxOfTwo
    <3>. QED  BY <1>0, <2>1, <3>1
  <2>9. ASSUME NEW c, NEW m \in Nat, m <= maxCallSave', Slots(c, m) PROVE Slots(c, maxCallSave')
    BY <2>8, <2>9 DEF Slots
  <2>10. ASSUME phase # "abi", NEW b \in 1 .. NB, b < bi \/ (b = bi /\ phase' \in {"blockDone", "done"})
         PROVE  Slots(code[b], maxCallSave)'
    <3>1. Slots(code[b], maxCallSave')
      <4>1. CASE b < bi \/ (b = bi /\ phase \in {"blockDone", "done"})
        <5>1. Slots(code[b], maxCallSave)
          BY <2>10, <4>1 DEF CodeInv, FrameInv
        <5>. QED  BY <1>0, <2>8, <2>9, <5>1
      <4>2. CASE b = bi /\ phase = "restore" /\ phase' = "blockDone"
        <5>1. li - 1 = block.tmps
          BY <1>0, <2>1, <4>2 DEF Tmps
        <5>2. Slots(code[b], counter)
          BY <1>7, <4>2, <5>1
        <5>. QED  BY <1>0, <2>8, <2>9, <4>2, <5>2
      <4>. QED  BY <2>1, <2>10, <4>1, <4>2
    <3>. QED  BY <2>1, <3>1 DEF Slots
  <2>11. ASSUME phase # "abi", NEW b \in 1 .. NB, ~Untouched(b), NEW k \in DOMAIN code[b]
         PROVE  InFrame(code[b][k])'
    <3>1. InFrame(code[b][k])
      BY <2>11 DEF CodeInv, FrameInv
    <3>. QED  BY <2>1, <3>1 DEF InFrame
  <2>12. phase' \in {"save", "restore"} => counter' = Cardinality(ToSaveUpTo(li - 1)')
    <3>. SUFFICES ASSUME phase' \in {"save", "restore"} PROVE counter' = Cardinality(ToSaveUpTo(li - 1)')
      OBVIOUS
    <3>1. phase \in {"save", "restore"} /\ li' = li
      BY <2>1
    <3>2. ToSaveUpTo(li - 1)' = ToSaveUpTo(li - 1)
      <4>1. \A t : ToSave(t)' = ToSave(t)
        BY <2>1, SameSaves
      <4>. QED  BY <3>1, <4>1 DEF ToSaveUpTo
    <3>. QED  BY <1>7, <2>1, <3>1, <3>2
  <2>13. /\ phase' = "save" => Slots(code[bi], counter)'
         /\ phase' = "restore" => Slots(code[bi], Cardinality(ToSaveUpTo(block.tmps)))'
    <3>1. /\ phase' = "save" => Slots(code[bi], counter)
          /\ phase' = "restore" => Slots(code[bi], Cardinality(ToSaveUpTo(block.tmps)))
      BY <1>7, <2>1
    <3>2. ToSaveUpTo(block.tmps)' = ToSaveUpTo(block.tmps)
      <4>1. \A t : ToSave(t)' = ToSave(t)
        BY <2>1, SameSaves
      <4>. QED  BY <2>2, <4>1 DEF ToSaveUpTo
    <3>. QED  BY <2>1, <3>1, <3>2 DEF Slots
  <2>14. /\ phase' \notin {"abi", "collect"} => \A t \in Tmps : CalleeIndex(rmap[t]) <= maxCalleeSave
         /\ phase' = "done" => bi = NB
    BY <2>1 DEF CodeInv, FrameInv
  <2>15. FrameInv'
    BY <2>1, <2>2, <2>4, <2>5, <2>10, <2>11, <2>12, <2>13, <2>14 DEF FrameInv
  <2>. QED  BY <2>6, <2>7, <2>15 DEF CodeInv
<1>13. CASE NextBlock
  <2>1. /\ phase = "blockDone" /\ bi < NB /\ bi' = bi + 1 /\ phase' = "collect" /\ counter' = 0
        /\ UNCHANGED <<source, body, code, maxCalleeSave, maxCallSave, hasCalls>>
    BY <1>13 DEF NextBlock, BlockStart, fnVars
  <2>2. NB' = NB /\ NB \in Nat
    BY <1>0, <2>1, SourceFacts DEF NB, TypeInv, Shape
  <2>3. \A b \in 1 .. NB : Untouched(b)' = Untouched(b) /\ (b < bi' => b < bi \/ b = bi)
    BY <1>0, <2>1, <2>2 DEF Untouched, Rewriting
  <2>4. CodeType'
    BY <2>1, <2>2, <2>3 DEF CodeInv, CodeType
  <2>5. CallInv'
    BY <2>1 DEF CallInv
  <2>6. ASSUME NEW b \in 1 .. NB, ~Untouched(b), NEW k \in DOMAIN code[b] PROVE InFrame(code[b][k])'
    <3>1. InFrame(code[b][k])
      BY <2>1, <2>6 DEF CodeInv, FrameInv
    <3>. QED  BY <2>1, <3>1 DEF InFrame
  <2>7. ASSUME NEW b \in 1 .. NB, b < bi' PROVE Slots(code[b], maxCallSave)'
    <3>1. Slots(code[b], maxCallSave)
      BY <2>1, <2>3, <2>7 DEF CodeInv, FrameInv
    <3>. QED  BY <2>1, <3>1 DEF Slots
  <2>8. FrameInv'
    BY <2>1, <2>2, <2>3, <2>6, <2>7 DEF FrameInv
  <2>. QED  BY <2>4, <2>5, <2>8 DEF CodeInv
<1>. QED  BY <1>1, <1>2, <1>3, <1>4, <1>5, <1>6, <1>8, <1>9, <1>10, <1>11, <1>12, <1>13 DEF Next

(* The running offset of do_call_saves() is the call again after every      *)
(* insertion: an instruction goes in before the call only where the offset  *)
(* is advanced.                                                             *)
THEOREM CallIsFound == Spec => []CallFound
<1>1. Init => ScanInv /\ CodeInv
  BY ScanInit, CodeInit
<1>2. ScanInv /\ CodeInv /\ [Next]_vars => (ScanInv /\ CodeInv)'
  BY ScanNext, CodeNext
<1>3. ScanInv /\ CodeInv => CallFound
  BY DEF CodeInv, CallInv, CallFound
<1>. QED  BY <1>1, <1>2, <1>3, PTL DEF Spec

(* What the prologue will reserve covers every block of the function: the   *)
(* s registers any block uses, the slots of the block that saves most, and  *)
(* the return address if any block calls.                                   *)
THEOREM FrameIsCovered == Spec => []FrameCovers
<1>1. Init => ScanInv /\ CodeInv
  BY ScanInit, CodeInit
<1>2. ScanInv /\ CodeInv /\ [Next]_vars => (ScanInv /\ CodeInv)'
  BY ScanNext, CodeNext
<1>3. ScanInv /\ CodeInv => FrameCovers
  <2>. SUFFICES ASSUME ScanInv, CodeInv, phase = "done", NEW b \in 1 .. NB, NEW k \in DOMAIN code[b]
                PROVE  LET i == code[b][k]
                       IN  /\ \A r \in ({i.out} \cup i.in) \cap Registers : CalleeIndex(r) <= maxCalleeSave
                           /\ i.type \in {"save", "restore"} => \A n \in i.in \cap Nat : n < maxCallSave
                           /\ i.type = "call" => hasCalls
    BY DEF FrameCovers
  <2>1. bi = NB /\ NB \in Nat
    BY SourceFacts DEF CodeInv, FrameInv, ScanInv, TypeInv, Shape
  <2>2. ~Untouched(b) /\ (b < bi \/ b = bi)
    BY <2>1 DEF Untouched, Rewriting
  <2>3. InFrame(code[b][k]) /\ Slots(code[b], maxCallSave)
    BY <2>2 DEF CodeInv, FrameInv
  <2>. QED  BY <2>3 DEF InFrame, Slots
<1>. QED  BY <1>1, <1>2, <1>3, PTL DEF Spec

-----------------------------------------------------------------------------
(* The order of a block around its call.                                    *)

NInsns  == Len(block.insns)
SetupAt == Max({0} \cup {k \in 1 .. CallPos : "setup" \notin Ins(k).flags})

LEMMA FlagFacts ==
  ASSUME BlockOK, NEW k \in DOMAIN block.insns
  PROVE  /\ "setup" \in Ins(k).flags <=> Src(k).type \in {"arg", "call"}
         /\ "teardown" \in Ins(k).flags <=> Src(k).type \in {"retval", "call"}
<1>. DEFINE s == Src(k)
<1>1. Ins(k) = rewrite(s) /\ s.type \in {"op", "call", "param", "retval", "arg", "retarg"}
  BY BlockFacts DEF Sources
<1>2. CASE s.type = "param"
  BY <1>1, <1>2 DEF rewrite, rewrite_param, Insn
<1>3. CASE s.type = "retval"
  BY <1>1, <1>3 DEF rewrite, rewrite_retval, Insn
<1>4. CASE s.type = "arg"
  BY <1>1, <1>4 DEF rewrite, rewrite_arg, Insn
<1>5. CASE s.type = "retarg"
  BY <1>1, <1>5 DEF rewrite, rewrite_retarg, Insn
<1>6. CASE s.type = "call"
  BY <1>1, <1>6 DEF rewrite, flag_call, Insn
<1>7. CASE s.type = "op"
  BY <1>1, <1>7 DEF rewrite, Insn
<1>. QED  BY <1>1, <1>2, <1>3, <1>4, <1>5, <1>6, <1>7

\* CallAtEnd of the block, by what it says of each type
InSequence ==
  \A k \in 1 .. NInsns :
    /\ Src(k).type = "arg" => k + 1 <= NInsns /\ Src(k + 1).type \in {"arg", "call"}
    /\ Src(k).type = "call" => \A j \in k + 1 .. NInsns : Src(j).type = "retval"
    /\ Src(k).type = "retval" => \E j \in 1 .. k - 1 : Src(j).type = "call"
    /\ Src(k).type = "retarg" => \A j \in k + 1 .. NInsns : Src(j).type = "retarg"

LEMMA Sequenced ==
  ASSUME BlockOK
  PROVE  /\ NInsns \in Nat /\ DOMAIN block.insns = 1 .. NInsns /\ EndPos = NInsns + 1
         /\ InSequence
         /\ Calls = {k \in 1 .. NInsns : Src(k).type = "call"}
<1>1. /\ NInsns \in Nat /\ DOMAIN block.insns = 1 .. NInsns /\ EndPos = NInsns + 1
      /\ DOMAIN source[bi].insns = 1 .. NInsns /\ Len(source[bi].insns) = NInsns
  BY BlockFacts DEF NInsns, EndPos
<1>2. CallAtEnd(source[bi])
  BY DEF BlockOK, IsFormed
<1>3. ASSUME NEW k \in 1 .. NInsns
      PROVE  /\ Src(k).type = "arg" => k + 1 <= NInsns /\ Src(k + 1).type \in {"arg", "call"}
             /\ Src(k).type = "call" => \A j \in k + 1 .. NInsns : Src(j).type = "retval"
             /\ Src(k).type = "retval" => \E j \in 1 .. k - 1 : Src(j).type = "call"
             /\ Src(k).type = "retarg" => \A j \in k + 1 .. NInsns : Src(j).type = "retarg"
  BY <1>1, <1>2 DEF CallAtEnd, Src
<1>4. ASSUME NEW k \in 1 .. NInsns PROVE block.insns[k].type = "call" <=> Src(k).type = "call"
  <2>1. IsLowered(Ins(k), Src(k))
    BY <1>1, InstructionFacts DEF IsInBlock
  <2>. QED  BY <2>1 DEF IsLowered, Ins
<1>5. Calls = {k \in 1 .. NInsns : Src(k).type = "call"}
  BY <1>1, <1>4 DEF Calls
<1>. QED  BY <1>1, <1>3, <1>5 DEF InSequence

\* where the call stands, and what stands after it
LEMMA CallStands ==
  ASSUME BlockOK, Calls # {}
  PROVE  /\ CallPos \in 1 .. NInsns /\ Src(CallPos).type = "call"
         /\ \A k \in CallPos + 1 .. NInsns : Src(k).type = "retval"
         /\ \A k \in 1 .. NInsns : Src(k).type = "call" => k = CallPos
<1>1. /\ NInsns \in Nat /\ InSequence /\ Calls = {k \in 1 .. NInsns : Src(k).type = "call"}
  BY Sequenced
<1>2. Calls \in SUBSET Nat
  BY <1>1
<1>3. CallPos \in Calls /\ \A k \in Calls : CallPos <= k
  BY <1>2, MinOf DEF CallPos, IsMin
<1>4. CallPos \in 1 .. NInsns /\ Src(CallPos).type = "call"
  BY <1>1, <1>3
<1>5. \A k \in CallPos + 1 .. NInsns : Src(k).type = "retval"
  BY <1>1, <1>4 DEF InSequence
<1>6. ASSUME NEW k \in 1 .. NInsns, Src(k).type = "call" PROVE k = CallPos
  <2>1. CallPos <= k
    BY <1>1, <1>3, <1>6
  <2>2. ~(CallPos < k)
    <3>. SUFFICES ASSUME CallPos < k PROVE FALSE
      OBVIOUS
    <3>1. k \in CallPos + 1 .. NInsns
      BY <1>1, <1>4
    <3>. QED  BY <1>5, <1>6, <3>1
  <2>. QED  BY <1>4, <2>1, <2>2
<1>. QED  BY <1>4, <1>5, <1>6

\* from an argument to the call there are only arguments
LEMMA ArgumentsStand ==
  ASSUME BlockOK, NEW k \in 1 .. NInsns, Src(k).type = "arg"
  PROVE  Calls # {} /\ k < CallPos /\ \A j \in k .. CallPos - 1 : Src(j).type = "arg"
<1>1. /\ NInsns \in Nat /\ InSequence /\ Calls = {j \in 1 .. NInsns : Src(j).type = "call"}
  BY Sequenced
<1>. DEFINE Bad == {j \in Nat : j > k /\ ~(j <= NInsns /\ Src(j).type = "arg")}
<1>2. NInsns + 1 \in Bad
  BY <1>1
<1>3. PICK n \in Bad : \A m \in Bad : n <= m
  <2>1. Bad \in SUBSET Nat
    OBVIOUS
  <2>. HIDE DEF Bad
  <2>. QED  BY <1>2, <2>1, LeastOf
<1>4. n \in Nat /\ n > k /\ ~(n <= NInsns /\ Src(n).type = "arg")
  BY <1>3
<1>5. ASSUME NEW j \in k .. n - 1 PROVE j <= NInsns /\ Src(j).type = "arg"
  <2>1. j \in Nat /\ j < n
    BY <1>4
  <2>2. j \notin Bad
    BY <1>3, <1>4, <2>1
  <2>. QED  BY <2>1, <2>2
<1>. HIDE DEF Bad
<1>6. n - 1 \in 1 .. NInsns /\ Src(n - 1).type = "arg" /\ (n - 1) + 1 = n
  BY <1>1, <1>4, <1>5
<1>7. n <= NInsns /\ Src(n).type \in {"arg", "call"}
  BY <1>1, <1>6 DEF InSequence
<1>8. n \in 1 .. NInsns /\ Src(n).type = "call" /\ Calls # {}
  BY <1>1, <1>4, <1>7
<1>9. n = CallPos
  BY <1>8, CallStands
<1>. QED  BY <1>4, <1>5, <1>8, <1>9

LEMMA SetupFacts ==
  ASSUME BlockOK, Calls # {}
  PROVE  /\ SetupAt \in 0 .. CallPos - 1
         /\ \A k \in SetupAt + 1 .. CallPos : "setup" \in Ins(k).flags
         /\ \A k \in SetupAt + 1 .. CallPos - 1 : Src(k).type = "arg"
         /\ SetupAt > 0 => "setup" \notin Ins(SetupAt).flags
         /\ \A k \in 1 .. NInsns : Src(k).type = "arg" => SetupAt < k
<1>. DEFINE K == {0} \cup {k \in 1 .. CallPos : "setup" \notin Ins(k).flags}
<1>1. /\ NInsns \in Nat /\ DOMAIN block.insns = 1 .. NInsns
      /\ CallPos \in 1 .. NInsns /\ Src(CallPos).type = "call"
      /\ \A k \in 1 .. NInsns : Src(k).type = "call" => k = CallPos
  BY Sequenced, CallStands
<1>2. \A k \in 1 .. NInsns : "setup" \in Ins(k).flags <=> Src(k).type \in {"arg", "call"}
  BY <1>1, FlagFacts
<1>3. K \in SUBSET (0 .. CallPos) /\ K # {} /\ CallPos \in Nat /\ CallPos \notin K
  BY <1>1, <1>2
<1>4. SetupAt \in K /\ \A k \in K : k <= SetupAt
  <2>1. SetupAt = Max(K)
    BY DEF SetupAt
  <2>. HIDE DEF K
  <2>. QED  BY <1>3, <2>1, MaxOf DEF IsMax
<1>5. SetupAt \in 0 .. CallPos - 1 /\ (SetupAt > 0 => "setup" \notin Ins(SetupAt).flags)
  BY <1>1, <1>3, <1>4
<1>6. ASSUME NEW k \in SetupAt + 1 .. CallPos PROVE "setup" \in Ins(k).flags
  <2>1. k \in 1 .. CallPos /\ k > SetupAt
    BY <1>1, <1>5
  <2>2. k \notin K
    BY <1>1, <1>4, <1>5, <2>1
  <2>. QED  BY <2>1, <2>2
<1>7. ASSUME NEW k \in SetupAt + 1 .. CallPos - 1 PROVE Src(k).type = "arg"
  <2>1. k \in 1 .. NInsns /\ k # CallPos /\ k \in SetupAt + 1 .. CallPos
    BY <1>1, <1>5
  <2>. QED  BY <1>1, <1>2, <1>6, <2>1
<1>8. ASSUME NEW k \in 1 .. NInsns, Src(k).type = "arg" PROVE SetupAt < k
  <2>. SUFFICES ASSUME k <= SetupAt PROVE FALSE
    BY <1>1, <1>5
  <2>1. k < CallPos /\ \A j \in k .. CallPos - 1 : Src(j).type = "arg"
    BY <1>8, ArgumentsStand
  <2>2. SetupAt \in k .. CallPos - 1 /\ SetupAt > 0 /\ SetupAt \in 1 .. NInsns
    BY <1>1, <1>5
  <2>. QED  BY <1>2, <1>5, <2>1, <2>2
<1>. QED  BY <1>5, <1>6, <1>7, <1>8

-----------------------------------------------------------------------------
(* The shape of the rewritten code. After n saves and m restores the block  *)
(* reads: its instructions up to the setup of the call, the saves, the      *)
(* setup and the rest of the block, the restores, the last one first.       *)

\* the slot of t, and how many there are
Index(t) == Cardinality(ToSaveUpTo(t - 1))
NSaves   == Cardinality(ToSaveUpTo(block.tmps))

\* where instruction k of the block is after n saves
Moved(k, n) == IF n = 0 \/ k <= SetupAt THEN k ELSE k + n

\* x saves or restores the temporary of slot j
IsSlotOf(x, type, j) ==
  \E t \in Tmps : ToSave(t) /\ Index(t) = j /\ x = Slot(type, rmap[t], j)

Laid(c, n, m) ==
  /\ c \in Seq(CodeSet) /\ Len(c) = NInsns + n + m
  /\ \A k \in 1 .. NInsns : c[Moved(k, n)] = InRegisters(Ins(k))
  /\ \A j \in 1 .. n : IsSlotOf(c[SetupAt + j], "save", j - 1)
  /\ \A j \in 1 .. m : IsSlotOf(c[NInsns + n + m + 1 - j], "restore", j - 1)

CodeShape ==
  /\ phase = "save" => Calls # {} /\ Laid(code[bi], counter, 0) /\ callAt = CallPos + counter
  /\ phase = "restore" => Calls # {} /\ Laid(code[bi], NSaves, counter) /\ callAt = CallPos + NSaves
  /\ Allocated => IF Calls = {} THEN Laid(code[bi], 0, 0) ELSE Laid(code[bi], NSaves, NSaves)

LEMMA SlotFlags ==
  ASSUME NEW x, NEW type, NEW j, IsSlotOf(x, type, j)
  PROVE  x.flags = {}
  BY DEF IsSlotOf, Slot

LEMMA LaidFlags ==
  ASSUME BlockOK, NEW c, NEW n, NEW m, Laid(c, n, m), NEW k \in 1 .. NInsns
  PROVE  c[Moved(k, n)].flags = Ins(k).flags
<1>1. c[Moved(k, n)] = InRegisters(Ins(k))
  BY DEF Laid
<1>2. Ins(k).flags = InRegisters(Ins(k)).flags
  <2>1. Ins(k) = rewrite(Src(k))
    BY Sequenced, BlockFacts
  <2>. QED  BY <2>1 DEF InRegisters
<1>. QED  BY <1>1, <1>2

\* the save goes right after the saves made before it
LEMMA BeforeLaid ==
  ASSUME BlockOK, Calls # {}, NEW n \in Nat, Laid(code[bi], n, 0)
  PROVE  BeforeCall(CallPos + n) = SetupAt + n + 1
<1>. DEFINE c == code[bi]
            p == CallPos + n
            K == {0} \cup {k \in 1 .. p : "setup" \notin c[k].flags}
<1>1. /\ NInsns \in Nat /\ CallPos \in 1 .. NInsns /\ SetupAt \in 0 .. CallPos - 1
      /\ \A j \in SetupAt + 1 .. CallPos : "setup" \in Ins(j).flags
      /\ SetupAt > 0 => "setup" \notin Ins(SetupAt).flags
  BY Sequenced, CallStands, SetupFacts
<1>2. ASSUME NEW k \in K PROVE k <= SetupAt + n
  <2>. SUFFICES ASSUME k \in SetupAt + n + 1 .. p, "setup" \notin c[k].flags PROVE FALSE
    BY <1>1
  <2>. DEFINE j == k - n
  <2>1. j \in SetupAt + 1 .. CallPos /\ j \in 1 .. NInsns /\ j + n = k /\ ~(j <= SetupAt) /\ (n = 0 => j = k)
    BY <1>1
  <2>. HIDE DEF j, K
  <2>2. Moved(j, n) = k
    BY <2>1 DEF Moved
  <2>3. c[k].flags = Ins(j).flags
    BY <2>1, <2>2, LaidFlags
  <2>. QED  BY <1>1, <2>1, <2>3
<1>3. SetupAt + n \in K
  <2>1. CASE n = 0 /\ SetupAt = 0
    BY <2>1
  <2>2. CASE n = 0 /\ SetupAt > 0
    <3>1. Moved(SetupAt, n) = SetupAt /\ SetupAt \in 1 .. NInsns /\ SetupAt \in 1 .. p /\ SetupAt + n = SetupAt
      BY <1>1, <2>2 DEF Moved
    <3>2. c[SetupAt].flags = Ins(SetupAt).flags
      BY <3>1, LaidFlags
    <3>. QED  BY <1>1, <2>2, <3>1, <3>2
  <2>3. CASE n > 0
    <3>1. n \in 1 .. n /\ SetupAt + n \in 1 .. p
      BY <1>1, <2>3
    <3>2. IsSlotOf(c[SetupAt + n], "save", n - 1)
      BY <3>1 DEF Laid
    <3>3. c[SetupAt + n].flags = {}
      BY <3>2, SlotFlags
    <3>. QED  BY <3>1, <3>3
  <2>. QED  BY <1>1, <2>1, <2>2, <2>3
<1>4. K \in SUBSET (0 .. p) /\ K # {} /\ p \in Nat
  BY <1>1
<1>5. BeforeCall(p) = 1 + Max(K)
  BY DEF BeforeCall
<1>. HIDE DEF K, p
<1>6. Max(K) \in K /\ SetupAt + n <= Max(K)
  BY <1>3, <1>4, MaxOf DEF IsMax
<1>7. Max(K) <= SetupAt + n /\ Max(K) \in Nat
  <2>1. \A k \in K : k \in Nat /\ k <= SetupAt + n
    BY <1>2, <1>4
  <2>. QED  BY <1>6, <2>1
<1>. QED  BY <1>1, <1>5, <1>6, <1>7 DEF p

\* the restore goes right after the results of the call
LEMMA AfterLaid ==
  ASSUME BlockOK, Calls # {}, NEW n \in Nat, NEW m \in Nat, Laid(code[bi], n, m)
  PROVE  AfterCall(CallPos + n) = NInsns + n + 1
<1>. DEFINE c == code[bi]
            p == CallPos + n
            K == {Len(c) + 1} \cup {k \in p .. Len(c) : "teardown" \notin c[k].flags}
<1>1. /\ NInsns \in Nat /\ DOMAIN block.insns = 1 .. NInsns
      /\ CallPos \in 1 .. NInsns /\ SetupAt \in 0 .. CallPos - 1
      /\ \A k \in CallPos .. NInsns : Src(k).type \in {"retval", "call"}
      /\ Len(c) = NInsns + n + m
  <2>1. /\ CallPos \in 1 .. NInsns /\ Src(CallPos).type = "call" /\ NInsns \in Nat
        /\ \A k \in CallPos + 1 .. NInsns : Src(k).type = "retval"
    BY Sequenced, CallStands
  <2>2. \A k \in CallPos .. NInsns : k = CallPos \/ k \in CallPos + 1 .. NInsns
    BY <2>1
  <2>. QED  BY <2>1, <2>2, Sequenced, SetupFacts DEF Laid
<1>2. ASSUME NEW k \in K PROVE NInsns + n + 1 <= k
  <2>. SUFFICES ASSUME k \in p .. NInsns + n, "teardown" \notin c[k].flags PROVE FALSE
    BY <1>1
  <2>. DEFINE j == k - n
  <2>1. /\ j \in CallPos .. NInsns /\ j \in 1 .. NInsns /\ j + n = k /\ ~(j <= SetupAt)
        /\ (n = 0 => j = k)
    BY <1>1
  <2>. HIDE DEF j, K
  <2>2. Moved(j, n) = k
    BY <2>1 DEF Moved
  <2>3. c[k].flags = Ins(j).flags
    BY <2>1, <2>2, LaidFlags
  <2>4. "teardown" \in Ins(j).flags
    BY <1>1, <2>1, FlagFacts
  <2>. QED  BY <2>3, <2>4
<1>3. NInsns + n + 1 \in K
  <2>1. CASE m = 0
    BY <1>1, <2>1
  <2>2. CASE m > 0
    <3>1. m \in 1 .. m /\ NInsns + n + m + 1 - m = NInsns + n + 1 /\ NInsns + n + 1 \in p .. Len(c)
      BY <1>1, <2>2
    <3>2. IsSlotOf(c[NInsns + n + m + 1 - m], "restore", m - 1)
      BY <3>1 DEF Laid
    <3>3. c[NInsns + n + m + 1 - m].flags = {}
      BY <3>2, SlotFlags
    <3>. QED  BY <3>1, <3>3
  <2>. QED  BY <2>1, <2>2
<1>4. K \in SUBSET Nat /\ K # {}
  BY <1>1
<1>5. AfterCall(p) = Min(K)
  BY DEF AfterCall
<1>. HIDE DEF K, p
<1>6. Min(K) \in K /\ Min(K) <= NInsns + n + 1
  BY <1>3, <1>4, MinOf DEF IsMin
<1>7. Min(K) \in Nat /\ NInsns + n + 1 <= Min(K)
  BY <1>2, <1>4, <1>6
<1>. QED  BY <1>1, <1>5, <1>6, <1>7 DEF p

LEMMA LaidSave ==
  ASSUME BlockOK, Calls # {}, NEW n \in Nat, NEW c, Laid(c, n, 0), NEW t \in Tmps, ToSave(t), Index(t) = n,
         NEW d \in Seq(CodeSet), IsInserted(c, SetupAt + n + 1, Slot("save", rmap[t], n), d)
  PROVE  Laid(d, n + 1, 0)
<1>. DEFINE e == Slot("save", rmap[t], n)
            q == SetupAt + n + 1
<1>1. /\ NInsns \in Nat /\ CallPos \in 1 .. NInsns /\ SetupAt \in 0 .. CallPos - 1
      /\ Len(c) = NInsns + n
  BY Sequenced, CallStands, SetupFacts DEF Laid
<1>. HIDE DEF e
<1>2. /\ Len(d) = NInsns + n + 1
      /\ \A k \in 1 .. NInsns + n + 1 : d[k] = IF k < q THEN c[k] ELSE IF k = q THEN e ELSE c[k - 1]
  BY <1>1 DEF IsInserted, e
<1>3. ASSUME NEW k \in 1 .. NInsns PROVE d[Moved(k, n + 1)] = InRegisters(Ins(k))
  <2>1. c[Moved(k, n)] = InRegisters(Ins(k))
    BY DEF Laid
  <2>2. CASE k <= SetupAt
    <3>1. Moved(k, n + 1) = k /\ Moved(k, n) = k /\ k \in 1 .. NInsns + n + 1 /\ k < q
      BY <1>1, <2>2 DEF Moved
    <3>. QED  BY <1>2, <2>1, <3>1
  <2>3. CASE k > SetupAt
    <3>1. Moved(k, n + 1) = k + (n + 1) /\ Moved(k, n) = k + n
      BY <1>1, <2>3 DEF Moved
    <3>2. k + (n + 1) \in 1 .. NInsns + n + 1 /\ ~(k + (n + 1) < q) /\ k + (n + 1) # q /\ k + (n + 1) - 1 = k + n
      BY <1>1, <2>3
    <3>3. d[k + (n + 1)] = c[k + (n + 1) - 1]
      BY <1>2, <3>2
    <3>. QED  BY <2>1, <3>1, <3>2, <3>3
  <2>. QED  BY <1>1, <2>2, <2>3
<1>4. ASSUME NEW j \in 1 .. n + 1 PROVE IsSlotOf(d[SetupAt + j], "save", j - 1)
  <2>1. CASE j <= n
    <3>1. j \in 1 .. n /\ SetupAt + j \in 1 .. NInsns + n + 1 /\ SetupAt + j < q
      BY <1>1, <2>1
    <3>2. IsSlotOf(c[SetupAt + j], "save", j - 1)
      BY <3>1 DEF Laid
    <3>. QED  BY <1>2, <3>1, <3>2
  <2>2. CASE j = n + 1
    <3>1. SetupAt + j = q /\ q \in 1 .. NInsns + n + 1 /\ j - 1 = n /\ ~(q < q)
      BY <1>1, <2>2
    <3>2. d[SetupAt + j] = e
      BY <1>2, <3>1
    <3>. QED  BY <3>1, <3>2 DEF IsSlotOf, e
  <2>. QED  BY <2>1, <2>2
<1>. QED  BY <1>1, <1>2, <1>3, <1>4 DEF Laid

LEMMA LaidRestore ==
  ASSUME BlockOK, Calls # {}, NEW n \in Nat, NEW m \in Nat, NEW c, Laid(c, n, m),
         NEW t \in Tmps, ToSave(t), Index(t) = m,
         NEW d \in Seq(CodeSet), IsInserted(c, NInsns + n + 1, Slot("restore", rmap[t], m), d)
  PROVE  Laid(d, n, m + 1)
<1>. DEFINE e == Slot("restore", rmap[t], m)
            q == NInsns + n + 1
<1>1. /\ NInsns \in Nat /\ CallPos \in 1 .. NInsns /\ SetupAt \in 0 .. CallPos - 1
      /\ Len(c) = NInsns + n + m
  BY Sequenced, CallStands, SetupFacts DEF Laid
<1>. HIDE DEF e
<1>2. /\ Len(d) = NInsns + n + m + 1
      /\ \A k \in 1 .. NInsns + n + m + 1 : d[k] = IF k < q THEN c[k] ELSE IF k = q THEN e ELSE c[k - 1]
  BY <1>1 DEF IsInserted, e
<1>3. ASSUME NEW k \in 1 .. NInsns PROVE d[Moved(k, n)] = InRegisters(Ins(k))
  <2>1. c[Moved(k, n)] = InRegisters(Ins(k))
    BY DEF Laid
  <2>2. Moved(k, n) \in 1 .. NInsns + n + m + 1 /\ Moved(k, n) < q
    BY <1>1 DEF Moved
  <2>. QED  BY <1>2, <2>1, <2>2
<1>4. ASSUME NEW j \in 1 .. n PROVE IsSlotOf(d[SetupAt + j], "save", j - 1)
  <2>1. IsSlotOf(c[SetupAt + j], "save", j - 1)
    BY DEF Laid
  <2>2. SetupAt + j \in 1 .. NInsns + n + m + 1 /\ SetupAt + j < q
    BY <1>1
  <2>. QED  BY <1>2, <2>1, <2>2
<1>5. ASSUME NEW j \in 1 .. m + 1 PROVE IsSlotOf(d[NInsns + n + (m + 1) + 1 - j], "restore", j - 1)
  <2>. DEFINE k == NInsns + n + (m + 1) + 1 - j
  <2>1. CASE j <= m
    <3>1. /\ j \in 1 .. m /\ k \in 1 .. NInsns + n + m + 1 /\ ~(k < q) /\ k # q
          /\ k - 1 = NInsns + n + m + 1 - j
      BY <1>1, <2>1
    <3>. HIDE DEF k
    <3>2. d[k] = c[NInsns + n + m + 1 - j]
      BY <1>2, <3>1
    <3>3. IsSlotOf(c[NInsns + n + m + 1 - j], "restore", j - 1)
      BY <3>1 DEF Laid
    <3>. QED  BY <3>2, <3>3 DEF k
  <2>2. CASE j = m + 1
    <3>1. k = q /\ k \in 1 .. NInsns + n + m + 1 /\ ~(k < q) /\ j - 1 = m
      BY <1>1, <2>2
    <3>. HIDE DEF k
    <3>2. d[k] = e
      BY <1>2, <3>1
    <3>3. IsSlotOf(e, "restore", m)
      BY DEF IsSlotOf, e
    <3>. QED  BY <3>1, <3>2, <3>3 DEF k
  <2>. QED  BY <2>1, <2>2
<1>6. Len(d) = NInsns + n + (m + 1)
  BY <1>1, <1>2
<1>. QED  BY <1>3, <1>4, <1>5, <1>6 DEF Laid

LEMMA SameShape ==
  ASSUME UNCHANGED <<source, body, bi, rmap>>
  PROVE  /\ NSaves' = NSaves /\ NInsns' = NInsns /\ SetupAt' = SetupAt /\ Tmps' = Tmps
         /\ \A t : ToSave(t)' = ToSave(t) /\ Index(t)' = Index(t)
         /\ \A k : InRegisters(Ins(k))' = InRegisters(Ins(k))
<1>1. /\ block' = block /\ Tmps' = Tmps /\ CallPos' = CallPos
      /\ \A k : Ins(k)' = Ins(k)
      /\ \A t : ToSave(t)' = ToSave(t)
      /\ \A n : ToSaveUpTo(n)' = ToSaveUpTo(n)
  BY SameBlock, SameSaves
<1>2. NSaves' = NSaves /\ NInsns' = NInsns /\ SetupAt' = SetupAt
  <2>1. ToSaveUpTo(block.tmps)' = ToSaveUpTo(block.tmps)
    BY <1>1 DEF ToSaveUpTo
  <2>. QED  BY <1>1, <2>1 DEF NSaves, NInsns, SetupAt
<1>3. ASSUME NEW t PROVE Index(t)' = Index(t)
  <2>1. ToSaveUpTo(t - 1)' = ToSaveUpTo(t - 1)
    BY <1>1 DEF ToSaveUpTo
  <2>. QED  BY <2>1 DEF Index
<1>4. ASSUME NEW k PROVE InRegisters(Ins(k))' = InRegisters(Ins(k))
  BY <1>1 DEF InRegisters, Rewritten
<1>. QED  BY <1>1, <1>2, <1>3, <1>4

LEMMA SameLaid ==
  ASSUME UNCHANGED <<source, body, bi, rmap>>, NEW d, code'[bi] = d
  PROVE  /\ Laid(d, counter', 0) => Laid(code[bi], counter, 0)'
         /\ Laid(d, NSaves, counter') => Laid(code[bi], NSaves, counter)'
         /\ Laid(d, NSaves, NSaves) => Laid(code[bi], NSaves, NSaves)'
         /\ Laid(d, 0, 0) => Laid(code[bi], 0, 0)'
<1>1. /\ NSaves' = NSaves /\ NInsns' = NInsns /\ SetupAt' = SetupAt /\ Tmps' = Tmps
      /\ \A t : ToSave(t)' = ToSave(t) /\ Index(t)' = Index(t)
      /\ \A k : InRegisters(Ins(k))' = InRegisters(Ins(k))
      /\ code'[bi'] = d /\ rmap' = rmap
  BY SameShape
<1>2. Laid(d, counter', 0) => Laid(code[bi], counter, 0)'
  BY <1>1 DEF Laid, Moved, IsSlotOf, Slot
<1>3. Laid(d, NSaves, counter') => Laid(code[bi], NSaves, counter)'
  BY <1>1 DEF Laid, Moved, IsSlotOf, Slot
<1>4. Laid(d, NSaves, NSaves) => Laid(code[bi], NSaves, NSaves)'
  BY <1>1 DEF Laid, Moved, IsSlotOf, Slot
<1>5. Laid(d, 0, 0) => Laid(code[bi], 0, 0)'
  BY <1>1 DEF Laid, Moved, IsSlotOf, Slot
<1>. QED  BY <1>2, <1>3, <1>4, <1>5

LEMMA LaidRewritten ==
  ASSUME BlockOK, rmap \in [Tmps -> Registers], code[bi] \in Seq(CodeSet), code[bi] = block.insns
  PROVE  Laid(RewrittenCode, 0, 0)
<1>1. IsRewritten(RewrittenCode)
  BY RewriteFacts
<1>2. NInsns \in Nat /\ DOMAIN block.insns = 1 .. NInsns
  BY Sequenced
<1>3. ASSUME NEW k \in 1 .. NInsns PROVE RewrittenCode[Moved(k, 0)] = InRegisters(Ins(k))
  BY <1>2 DEF RewrittenCode, Moved, Ins
<1>. QED  BY <1>1, <1>2, <1>3 DEF Laid, IsRewritten, NInsns

LEMMA ShapeInit ==
  Init => CodeShape
  BY DEF Init, CodeShape, Allocated

LEMMA ShapeNext ==
  ScanInv /\ CodeInv /\ CodeShape /\ [Next]_vars => CodeShape'
<1>. SUFFICES ASSUME ScanInv, CodeInv, CodeShape, [Next]_vars PROVE CodeShape'
  OBVIOUS
<1>0. /\ TypeInv /\ TypeInv' /\ block.tmps \in Nat
      /\ phase # "abi" => BlockOK
      /\ li \in 1 .. block.tmps + 1 /\ bi \in 1 .. NB /\ counter \in Nat
  <2>1. TypeInv /\ TypeInv'
    BY TypeNext DEF ScanInv
  <2>2. block.tmps \in Nat /\ (phase # "abi" => BlockOK)
    BY <2>1, ShapeFacts DEF TypeInv
  <2>. QED  BY <2>1, <2>2 DEF TypeInv, TypeOK
<1>. DEFINE d == code[bi]
<1>1. CASE Lower \/ Collect \/ SkipDecided \/ Consider \/ Drop \/ Keep \/ Stop \/ UseHint
             \/ UseFree \/ OutOfRegisters \/ NextBlock
  <2>1. phase' \notin {"save", "restore", "blockDone", "done"}
    BY <1>1 DEF Lower, Collect, SkipDecided, Consider, Drop, Keep, Stop, Walking, UseHint, UseFree,
                OutOfRegisters, NextBlock, BlockStart
  <2>. QED  BY <2>1 DEF CodeShape, Allocated
<1>2. CASE Rewrite
  <2>1. /\ phase = "scan" /\ UNCHANGED <<source, body, bi, rmap, counter>>
        /\ IF Calls = {} THEN phase' = "blockDone" ELSE phase' = "save" /\ callAt' = Min(Calls)
        /\ code' = [code EXCEPT ![bi] = [k \in DOMAIN @ |-> InRegisters(@[k])]]
    BY <1>2 DEF Rewrite
  <2>2. /\ BlockOK /\ rmap \in [Tmps -> Registers]
    <3>1. rmap' \in [Tmps' -> Registers]
      BY <1>0, <2>1 DEF TypeInv, TypeOK
    <3>2. Tmps' = Tmps
      BY <2>1, SameBlock
    <3>. QED  BY <1>0, <2>1, <3>1, <3>2
  <2>3. /\ code \in [1 .. NB -> Seq(CodeSet)] /\ code[bi] \in Seq(CodeSet) /\ code[bi] = block.insns
        /\ counter = 0
    BY <1>0, <2>1 DEF CodeInv, CodeType, Untouched, Rewriting, block
  <2>4. code'[bi] = RewrittenCode
    BY <1>0, <2>1, <2>3 DEF RewrittenCode
  <2>. DEFINE c == RewrittenCode
  <2>5. Laid(c, 0, 0)
    BY <2>2, <2>3, LaidRewritten
  <2>. HIDE DEF c
  <2>6. code'[bi] = c /\ counter' = 0
    BY <2>1, <2>3, <2>4 DEF c
  <2>7. Laid(c, counter', 0)
    BY <2>5, <2>6
  <2>8. Laid(code[bi], counter, 0)' /\ Laid(code[bi], 0, 0)' /\ Calls' = Calls /\ CallPos' = CallPos
    BY <2>1, <2>5, <2>6, <2>7, SameLaid, SameBlock
  <2>9. CallPos \in Nat \/ Calls = {}
    BY <2>2, CallStands, Sequenced
  <2>10. Calls # {} => callAt' = CallPos + counter'
    BY <2>1, <2>6, <2>9 DEF CallPos
  <2>. QED  BY <2>1, <2>8, <2>10 DEF CodeShape, Allocated
<1>3. ASSUME phase \in {"save", "restore"}
      PROVE  /\ BlockOK /\ d \in Seq(CodeSet) /\ rmap \in [Tmps -> Registers] /\ Calls # {}
             /\ code \in [1 .. NB -> Seq(CodeSet)]
             /\ CallPos \in 1 .. NInsns /\ SetupAt \in 0 .. CallPos - 1 /\ NInsns \in Nat
             /\ counter = Index(li) /\ NSaves \in Nat
             /\ li \notin Tmps => counter = NSaves
  <2>1. BlockOK /\ rmap \in [Tmps -> Registers]
    BY <1>0, <1>3 DEF TypeInv, TypeOK
  <2>2. code \in [1 .. NB -> Seq(CodeSet)] /\ d \in Seq(CodeSet) /\ Calls # {}
    BY <1>0, <1>3 DEF CodeInv, CodeType, CodeShape
  <2>3. counter = Index(li)
    BY <1>3 DEF CodeInv, FrameInv, Index
  <2>4. li \notin Tmps => li - 1 = block.tmps
    BY <1>0 DEF Tmps
  <2>5. NSaves \in Nat
    <3>1. block.tmps \in 0 .. block.tmps
      BY <1>0
    <3>. QED  BY <1>0, <3>1, SaveSets DEF NSaves
  <2>. QED  BY <2>1, <2>2, <2>3, <2>4, <2>5, CallStands, SetupFacts, Sequenced DEF Index, NSaves
<1>4. CASE SkipSave \/ SkipRestore
  <2>1. /\ phase \in {"save", "restore"} /\ phase' = phase
        /\ UNCHANGED <<source, body, bi, rmap, code, callAt, counter>>
    BY <1>4 DEF SkipSave, SkipRestore, saveVars
  <2>2. /\ phase = "save" => Laid(d, counter', 0) /\ callAt' = CallPos + counter'
        /\ phase = "restore" => Laid(d, NSaves, counter') /\ callAt' = CallPos + NSaves
        /\ Calls # {} /\ code'[bi] = d
    BY <2>1 DEF CodeShape
  <2>. HIDE DEF d
  <2>3. Calls' = Calls /\ CallPos' = CallPos /\ NSaves' = NSaves
    BY <2>1, SameBlock, SameShape
  <2>4. /\ phase = "save" => Laid(code[bi], counter, 0)'
        /\ phase = "restore" => Laid(code[bi], NSaves, counter)'
    BY <2>1, <2>2, SameLaid
  <2>. QED  BY <2>1, <2>2, <2>3, <2>4 DEF CodeShape, Allocated
<1>5. CASE Save
  <2>. DEFINE e == Slot("save", rmap[li], counter)
              q == BeforeCall(callAt)
              n == InsertAt(d, q, e)
  <2>1. /\ phase = "save" /\ phase' = "save" /\ li \in Tmps /\ ToSave(li)
        /\ callAt' = callAt + 1 /\ counter' = counter + 1
        /\ UNCHANGED <<source, body, bi, rmap>>
        /\ code' = [code EXCEPT ![bi] = InsertAt(@, BeforeCall(callAt), Slot("save", rmap[li], counter))]
    BY <1>5 DEF Save
  <2>2. code'[bi] = n
    BY <1>0, <1>3, <2>1
  <2>3. Laid(d, counter, 0) /\ callAt = CallPos + counter
    BY <2>1 DEF CodeShape
  <2>4. q = SetupAt + counter + 1
    BY <1>0, <1>3, <2>1, <2>3, BeforeLaid
  <2>5. q \in 1 .. Len(d) + 1 /\ e \in CodeSet
    <3>1. Len(d) = NInsns + counter + 0 /\ NInsns \in Nat
      BY <1>3, <2>1, <2>3 DEF Laid
    <3>2. SetupAt \in 0 .. NInsns
      BY <1>3, <2>1
    <3>3. q \in 1 .. Len(d) + 1
      <4>. HIDE DEF q
      <4>. QED  BY <1>0, <2>4, <3>1, <3>2
    <3>4. rmap[li] \in Registers
      BY <1>3, <2>1
    <3>. QED  BY <1>0, <3>3, <3>4, SlotType
  <2>. HIDE DEF n, q, d
  <2>6. n \in Seq(CodeSet) /\ IsInserted(d, q, e, n)
    <3>. HIDE DEF e
    <3>. QED  BY <1>3, <2>1, <2>5, Inserted DEF n
  <2>7. IsInserted(d, SetupAt + counter + 1, Slot("save", rmap[li], counter), n)
    BY <2>4, <2>6
  <2>8. Laid(n, counter + 1, 0)
    BY <1>0, <1>3, <2>1, <2>3, <2>6, <2>7, LaidSave
  <2>9. Laid(n, counter', 0)
    BY <2>1, <2>8
  <2>10. Laid(code[bi], counter, 0)'
    BY <2>1, <2>2, <2>9, SameLaid
  <2>11. Calls' = Calls /\ CallPos' = CallPos /\ callAt' = CallPos + counter'
    <3>1. callAt' = CallPos + counter'
      BY <1>0, <1>3, <2>1, <2>3
    <3>. QED  BY <2>1, <3>1, SameBlock
  <2>. QED  BY <1>3, <2>1, <2>10, <2>11 DEF CodeShape, Allocated
<1>6. CASE EndSaves
  <2>1. /\ phase = "save" /\ phase' = "restore" /\ li \notin Tmps /\ counter' = 0
        /\ UNCHANGED <<source, body, bi, rmap, code, callAt>>
    BY <1>6 DEF EndSaves
  <2>2. Laid(d, NSaves, counter') /\ callAt' = CallPos + NSaves
    BY <1>3, <2>1 DEF CodeShape
  <2>3. code'[bi] = d
    BY <2>1
  <2>. HIDE DEF d
  <2>4. Laid(code[bi], NSaves, counter)'
    BY <2>1, <2>2, <2>3, SameLaid
  <2>5. Calls' = Calls /\ CallPos' = CallPos /\ NSaves' = NSaves
    BY <2>1, SameBlock, SameShape
  <2>. QED  BY <1>3, <2>1, <2>2, <2>4, <2>5 DEF CodeShape, Allocated
<1>7. CASE Restore
  <2>. DEFINE e == Slot("restore", rmap[li], counter)
              q == AfterCall(callAt)
              n == InsertAt(d, q, e)
  <2>1. /\ phase = "restore" /\ phase' = "restore" /\ li \in Tmps /\ ToSave(li)
        /\ callAt' = callAt /\ counter' = counter + 1
        /\ UNCHANGED <<source, body, bi, rmap>>
        /\ code' = [code EXCEPT ![bi] = InsertAt(@, AfterCall(callAt), Slot("restore", rmap[li], counter))]
    BY <1>7 DEF Restore
  <2>2. code'[bi] = n
    BY <1>0, <1>3, <2>1
  <2>3. Laid(d, NSaves, counter) /\ callAt = CallPos + NSaves
    BY <2>1 DEF CodeShape
  <2>4. q = NInsns + NSaves + 1
    BY <1>0, <1>3, <2>1, <2>3, AfterLaid
  <2>5. q \in 1 .. Len(d) + 1 /\ e \in CodeSet
    <3>1. Len(d) = NInsns + NSaves + counter /\ NInsns \in Nat /\ NSaves \in Nat
      BY <1>3, <2>1, <2>3 DEF Laid
    <3>2. q \in 1 .. Len(d) + 1
      <4>. HIDE DEF q
      <4>. QED  BY <1>0, <2>4, <3>1
    <3>3. rmap[li] \in Registers
      BY <1>3, <2>1
    <3>. QED  BY <1>0, <3>2, <3>3, SlotType
  <2>. HIDE DEF n, q, d
  <2>6. n \in Seq(CodeSet) /\ IsInserted(d, q, e, n)
    <3>. HIDE DEF e
    <3>. QED  BY <1>3, <2>1, <2>5, Inserted DEF n
  <2>7. IsInserted(d, NInsns + NSaves + 1, Slot("restore", rmap[li], counter), n)
    BY <2>4, <2>6
  <2>8. Laid(n, NSaves, counter + 1)
    BY <1>0, <1>3, <2>1, <2>3, <2>6, <2>7, LaidRestore
  <2>9. Laid(n, NSaves, counter')
    BY <2>1, <2>8
  <2>10. Laid(code[bi], NSaves, counter)'
    BY <2>1, <2>2, <2>9, SameLaid
  <2>11. Calls' = Calls /\ CallPos' = CallPos /\ NSaves' = NSaves
    BY <2>1, SameBlock, SameShape
  <2>. QED  BY <1>3, <2>1, <2>3, <2>10, <2>11 DEF CodeShape, Allocated
<1>8. CASE EndRestores
  <2>1. /\ phase = "restore" /\ phase' = "blockDone" /\ li \notin Tmps
        /\ UNCHANGED <<source, body, bi, rmap, code>>
    BY <1>8 DEF EndRestores, saveVars
  <2>2. Laid(d, NSaves, NSaves) /\ code'[bi] = d
    BY <1>3, <2>1 DEF CodeShape
  <2>. HIDE DEF d
  <2>3. Laid(code[bi], NSaves, NSaves)' /\ Calls' = Calls
    BY <2>1, <2>2, SameLaid, SameBlock
  <2>. QED  BY <1>3, <2>1, <2>3 DEF CodeShape, Allocated
<1>9. CASE Finish \/ UNCHANGED vars
  <2>1. /\ UNCHANGED <<source, body, bi, rmap, code, callAt, counter>>
        /\ phase' = phase \/ (phase = "blockDone" /\ phase' = "done")
    BY <1>9 DEF Finish, vars, saveVars
  <2>2. /\ phase' = "save" => Laid(d, counter', 0)
        /\ phase' = "restore" => Laid(d, NSaves, counter')
        /\ Allocated' => IF Calls = {} THEN Laid(d, 0, 0) ELSE Laid(d, NSaves, NSaves)
        /\ phase' \in {"save", "restore"} => Calls # {}
        /\ phase' = "save" => callAt' = CallPos + counter'
        /\ phase' = "restore" => callAt' = CallPos + NSaves
        /\ code'[bi] = d
    BY <2>1 DEF CodeShape, Allocated
  <2>. HIDE DEF d
  <2>3. Calls' = Calls /\ CallPos' = CallPos /\ NSaves' = NSaves
    BY <2>1, SameBlock, SameShape
  <2>4. /\ phase' = "save" => Laid(code[bi], counter, 0)'
        /\ phase' = "restore" => Laid(code[bi], NSaves, counter)'
        /\ Allocated' => IF Calls = {} THEN Laid(code[bi], 0, 0)' ELSE Laid(code[bi], NSaves, NSaves)'
    BY <2>1, <2>2, SameLaid
  <2>. QED  BY <2>2, <2>3, <2>4 DEF CodeShape
<1>. QED  BY <1>1, <1>2, <1>4, <1>5, <1>6, <1>7, <1>8, <1>9 DEF Next

-----------------------------------------------------------------------------
(* What the simulation below needs of a block and its registers.            *)

LEMMA Around ==
  ASSUME BlockOK, NEW k \in 1 .. NInsns
  PROVE  /\ Src(k).type \in {"op", "call", "param", "retval", "arg", "retarg"}
         /\ Src(k).type = "retval" => Calls # {} /\ CallPos < k
         /\ Src(k).type = "call" => Calls # {} /\ CallPos = k
         /\ Src(k).type = "arg" => Calls # {} /\ k < CallPos
         /\ Src(k).type = "retarg" => Calls = {} /\ \A j \in k .. NInsns : Src(j).type = "retarg"
         /\ Src(k).type = "op" => /\ Calls = {} \/ k < CallPos
                                  /\ \A j \in 1 .. k : Src(j).type \notin {"arg", "retarg"}
<1>1. /\ NInsns \in Nat /\ InSequence /\ Calls = {j \in 1 .. NInsns : Src(j).type = "call"}
      /\ Src(k).type \in {"op", "call", "param", "retval", "arg", "retarg"}
  BY Sequenced, BlockFacts DEF Sources
<1>2. Calls # {} => /\ CallPos \in 1 .. NInsns /\ Src(CallPos).type = "call"
                    /\ \A j \in CallPos + 1 .. NInsns : Src(j).type = "retval"
                    /\ \A j \in 1 .. NInsns : Src(j).type = "call" => j = CallPos
  BY CallStands
<1>3. ASSUME Src(k).type = "retval" PROVE Calls # {} /\ CallPos < k
  <2>1. PICK j \in 1 .. k - 1 : Src(j).type = "call"
    BY <1>1, <1>3 DEF InSequence
  <2>2. j \in 1 .. NInsns /\ j < k
    BY <1>1
  <2>. QED  BY <1>1, <1>2, <2>1, <2>2
<1>4. Src(k).type = "call" => Calls # {} /\ CallPos = k
  BY <1>1, <1>2
<1>5. Src(k).type = "arg" => Calls # {} /\ k < CallPos
  BY ArgumentsStand
<1>6. ASSUME Src(k).type = "retarg"
      PROVE  Calls = {} /\ \A j \in k .. NInsns : Src(j).type = "retarg"
  <2>1. \A j \in k + 1 .. NInsns : Src(j).type = "retarg"
    BY <1>1, <1>6 DEF InSequence
  <2>2. ASSUME NEW j \in k .. NInsns PROVE Src(j).type = "retarg"
    <3>1. j = k \/ j \in k + 1 .. NInsns
      BY <1>1
    <3>. QED  BY <1>6, <2>1, <3>1
  <2>3. Calls = {}
    <3>. SUFFICES ASSUME Calls # {} PROVE FALSE
      OBVIOUS
    <3>1. CallPos \in k .. NInsns \/ k \in CallPos + 1 .. NInsns
      BY <1>1, <1>2
    <3>2. Src(CallPos).type # "retarg"
      BY <1>2
    <3>3. k \notin CallPos + 1 .. NInsns
      BY <1>2, <1>6
    <3>. QED  BY <2>2, <3>1, <3>2, <3>3
  <2>. QED  BY <2>2, <2>3
<1>7. ASSUME Src(k).type = "op"
      PROVE  /\ Calls = {} \/ k < CallPos
             /\ \A j \in 1 .. k : Src(j).type \notin {"arg", "retarg"}
  <2>1. Calls # {} => k < CallPos
    <3>. SUFFICES ASSUME Calls # {}, CallPos <= k PROVE FALSE
      BY <1>1, <1>2
    <3>1. k = CallPos \/ k \in CallPos + 1 .. NInsns
      BY <1>1, <1>2
    <3>2. Src(CallPos).type # "op"
      BY <1>2
    <3>3. k \notin CallPos + 1 .. NInsns
      BY <1>2, <1>7
    <3>. QED  BY <1>7, <3>1, <3>2, <3>3
  <2>2. ASSUME NEW j \in 1 .. k, Src(j).type = "arg" PROVE FALSE
    <3>1. j \in 1 .. NInsns
      BY <1>1
    <3>2. Calls # {} /\ \A i \in j .. CallPos - 1 : Src(i).type = "arg"
      BY <2>2, <3>1, ArgumentsStand
    <3>3. k \in j .. CallPos - 1
      BY <1>1, <1>2, <2>1, <3>2
    <3>. QED  BY <1>7, <3>2, <3>3
  <2>3. ASSUME NEW j \in 1 .. k, Src(j).type = "retarg" PROVE FALSE
    <3>1. j \in 1 .. NInsns /\ (k = j \/ k \in j + 1 .. NInsns)
      BY <1>1
    <3>. QED  BY <1>1, <1>7, <2>3, <3>1 DEF InSequence
  <2>. QED  BY <2>1, <2>2, <2>3
<1>. QED  BY <1>1, <1>3, <1>4, <1>5, <1>6, <1>7

\* the one instruction that gives t its value
LEMMA DefinedAt ==
  ASSUME BlockOK, NEW t \in Tmps, NEW k \in 1 .. NInsns
  PROVE  /\ Src(k).out = t <=> t > block.params /\ Start(t) = k
         /\ Start(t) \in 0 .. NInsns
<1>1. IsLifetime(t) /\ DOMAIN block.insns = 1 .. NInsns /\ NInsns \in Nat /\ EndPos = NInsns + 1
  BY LifetimeFacts, Sequenced
<1>2. k \in Defs(t) <=> Src(k).out = t
  BY <1>1, OperandFacts DEF Defs, Ins
<1>3. t \in Nat /\ block.params \in Nat
  BY BlockFacts DEF Tmps
<1>. QED  BY <1>1, <1>2, <1>3 DEF IsLifetime

LEMMA ReadAlive ==
  ASSUME BlockOK, NEW k \in 1 .. NInsns, NEW t \in Src(k).in
  PROVE  t \in Tmps /\ Start(t) < k /\ k <= End(t)
<1>1. /\ DOMAIN block.insns = 1 .. NInsns /\ NInsns \in Nat /\ IsInBlock(k)
      /\ DOMAIN source[bi].insns = 1 .. NInsns /\ source[bi].params = block.params
  BY Sequenced, InstructionFacts, BlockFacts
<1>2. t \in Tmps /\ t \in Nat /\ block.params \in Nat
  BY <1>1, BlockFacts DEF IsInBlock, Tmps
<1>3. IsLifetime(t)
  BY <1>2, LifetimeFacts
<1>4. Ins(k).in = Src(k).in
  BY <1>1 DEF IsInBlock, IsLowered
<1>5. k <= End(t)
  BY <1>1, <1>3, <1>4 DEF IsLifetime, Reads, Ins
<1>6. Start(t) < k
  <2>1. CASE t <= block.params
    BY <1>1, <1>3, <2>1 DEF IsLifetime
  <2>2. CASE t > block.params
    <3>1. PICK j \in 1 .. k - 1 : Src(j).out = t
      BY <1>1, <1>2, <2>2 DEF BlockOK, IsFormed, DefinedFirst, Src
    <3>2. j \in 1 .. NInsns /\ j < k
      BY <1>1
    <3>. QED  BY <1>2, <3>1, <3>2, DefinedAt
  <2>. QED  BY <1>2, <2>1, <2>2
<1>. QED  BY <1>2, <1>5, <1>6

\* temporaries that are saved around the call, and their number
Saved(t) == Calls # {} /\ ToSave(t)
NSaved   == IF Calls = {} THEN 0 ELSE NSaves

LEMMA SavedFacts ==
  ASSUME BlockOK, NEW t \in Tmps, Saved(t)
  PROVE  /\ Start(t) <= SetupAt /\ CallPos < End(t) /\ End(t) = EndPos
         /\ Index(t) \in 0 .. NSaved - 1
         /\ \A u \in Tmps : Saved(u) /\ Index(u) = Index(t) => u = t
<1>1. /\ Calls # {} /\ Start(t) < CallPos /\ CallPos < End(t) /\ IsLifetime(t)
      /\ CallPos \in 1 .. NInsns /\ NInsns \in Nat /\ SetupAt \in 0 .. CallPos - 1
      /\ DOMAIN block.insns = 1 .. NInsns /\ EndPos = NInsns + 1
  BY CallStands, Sequenced, LifetimeFacts, SetupFacts DEF Saved, ToSave, LiveAcross
<1>2. Start(t) <= SetupAt
  <2>. SUFFICES ASSUME Start(t) > SetupAt PROVE FALSE
    BY <1>1, DefinedAt
  <2>1. Start(t) \in SetupAt + 1 .. CallPos - 1 /\ Start(t) \in 1 .. NInsns
    BY <1>1, DefinedAt
  <2>2. Src(Start(t)).type = "arg"
    BY <1>1, <2>1, SetupFacts
  <2>3. t > block.params
    BY <1>1, <2>1, BlockFacts DEF IsLifetime, Tmps
  <2>4. Src(Start(t)).out = t
    BY <2>1, <2>3, DefinedAt
  <2>5. Src(Start(t)).out = None
    BY <1>1, <2>1, <2>2, InstructionFacts DEF IsInBlock
  <2>. QED  BY <2>4, <2>5, Positions, RegisterFacts
<1>3. t \in block.uses
  <2>. SUFFICES ASSUME t \notin block.uses PROVE FALSE
    OBVIOUS
  <2>. DEFINE S == {Start(t)} \cup Reads(t)
  <2>1. ASSUME NEW k \in Reads(t) PROVE k <= CallPos /\ k \in 0 .. NInsns
    <3>1. k \in 1 .. NInsns /\ t \in Ins(k).in
      BY <1>1 DEF Reads, Ins
    <3>2. t \in Src(k).in
      BY <1>1, <3>1, OperandFacts
    <3>3. ~(k \in CallPos + 1 .. NInsns)
      <4>. SUFFICES ASSUME k \in CallPos + 1 .. NInsns PROVE FALSE
        OBVIOUS
      <4>1. Src(k).type = "retval"
        BY <1>1, CallStands
      <4>. QED  BY <1>1, <3>1, <3>2, <4>1, InstructionFacts DEF IsInBlock
    <3>. QED  BY <1>1, <3>1, <3>3
  <2>2. S \in SUBSET (0 .. NInsns) /\ S # {} /\ \A k \in S : k <= CallPos
    <3>1. Start(t) \in 0 .. NInsns /\ Start(t) <= CallPos
      BY <1>1, DefinedAt
    <3>. QED  BY <2>1, <3>1
  <2>3. End(t) = Max(S)
    BY DEF End
  <2>. HIDE DEF S
  <2>4. End(t) \in S
    BY <1>1, <2>2, <2>3, MaxOf DEF IsMax
  <2>5. End(t) <= CallPos
    BY <2>2, <2>4
  <2>. QED  BY <1>1, <2>5, Positions
<1>4. End(t) = EndPos
  BY <1>1, <1>3 DEF IsLifetime
<1>5. block.tmps \in Nat /\ t \in 1 .. block.tmps
  BY BlockFacts DEF Tmps
<1>6. ASSUME NEW u \in Tmps, NEW v \in Tmps, ToSave(u), u < v PROVE Index(u) < Index(v)
  <2>1. u \in 1 .. block.tmps /\ v \in 1 .. block.tmps /\ u \in 0 .. block.tmps /\ v - 1 \in 0 .. block.tmps
        /\ u - 1 \in 0 .. block.tmps /\ u > 0
    BY <1>5 DEF Tmps
  <2>2. Cardinality(ToSaveUpTo(u)) = Cardinality(ToSaveUpTo(u - 1)) + 1
    BY <1>5, <1>6, <2>1, SaveSets
  <2>3. ToSaveUpTo(u) \subseteq ToSaveUpTo(v - 1) /\ IsFiniteSet(ToSaveUpTo(v - 1))
    <3>1. \A x \in 1 .. u : x \in 1 .. v - 1
      BY <1>5, <1>6, <2>1
    <3>2. IsFiniteSet(ToSaveUpTo(v - 1))
      BY <1>5, <2>1, SaveSets
    <3>. QED  BY <3>1, <3>2 DEF ToSaveUpTo
  <2>4. Cardinality(ToSaveUpTo(u)) <= Cardinality(ToSaveUpTo(v - 1))
    BY <2>3, FS_Subset
  <2>5. Cardinality(ToSaveUpTo(u - 1)) \in Nat /\ Cardinality(ToSaveUpTo(v - 1)) \in Nat
    BY <1>5, <2>1, SaveSets
  <2>. QED  BY <2>2, <2>4, <2>5 DEF Index
<1>7. Index(t) \in 0 .. NSaved - 1
  <2>1. t - 1 \in 0 .. block.tmps /\ t \in 0 .. block.tmps /\ t > 0 /\ ToSave(t) /\ block.tmps \in 0 .. block.tmps
    BY <1>5 DEF Saved
  <2>2. Cardinality(ToSaveUpTo(t)) = Cardinality(ToSaveUpTo(t - 1)) + 1
    BY <1>5, <2>1, SaveSets
  <2>3. /\ Cardinality(ToSaveUpTo(t - 1)) \in Nat
        /\ Cardinality(ToSaveUpTo(t)) <= Cardinality(ToSaveUpTo(block.tmps))
        /\ Cardinality(ToSaveUpTo(block.tmps)) \in Nat
    BY <1>5, <2>1, SaveSets
  <2>. QED  BY <1>1, <2>2, <2>3 DEF Index, NSaved, NSaves
<1>8. ASSUME NEW u \in Tmps, Saved(u), Index(u) = Index(t) PROVE u = t
  <2>1. ToSave(u) /\ ToSave(t) /\ Index(t) \in Nat
    BY <1>7, <1>8 DEF Saved
  <2>2. ~(u < t) /\ ~(t < u)
    BY <1>6, <1>8, <2>1
  <2>3. u \in Nat /\ t \in Nat
    BY Positions
  <2>. QED  BY <2>2, <2>3
<1>. QED  BY <1>1, <1>2, <1>4, <1>7, <1>8

\* an argument's setup and a result's fetch disturb no other temporary
Clean ==
  /\ BlockOK /\ rmap \in [Tmps -> Registers]
  /\ \A t, u \in Tmps : t # u /\ Overlap(t, u) => rmap[t] # rmap[u]
  /\ \A k \in 1 .. NInsns :
       /\ Src(k).type # "param"
       /\ Src(k).type = "retval" => rmap[Src(k).out] = nth_ar(Src(k).nth)
       /\ Src(k).type \in {"arg", "retarg"} =>
            \A t \in Tmps : Start(t) < k /\ rmap[t] = nth_ar(Src(k).nth) => Src(k).in = {t}

LEMMA CleanWithoutPlaces ==
  ASSUME ScanInv, Allocated, Unplaced
  PROVE  Clean
<1>1. BlockOK /\ rmap \in [Tmps -> Registers]
  BY RegistersAtEnd
<1>2. /\ DOMAIN block.insns = 1 .. NInsns
      /\ \A k \in 1 .. NInsns : Src(k).type \in {"op", "call"}
  BY <1>1, Sequenced, BlockFacts DEF Unplaced, Src
<1>3. NoMoves
  <2>1. ASSUME NEW k \in 1 .. NInsns PROVE Ins(k).type # "move"
    BY <1>1, <1>2, InstructionFacts DEF IsInBlock, IsLowered
  <2>. QED  BY <1>2, <2>1 DEF NoMoves, Ins
<1>4. \A t, u \in Tmps : t # u /\ Overlap(t, u) => rmap[t] # rmap[u]
  BY <1>3, ApartWithoutMoves, NoClashIfApart
<1>5. \A k \in 1 .. NInsns : Src(k).type \notin {"param", "retval", "arg", "retarg"}
  BY <1>2
<1>. QED  BY <1>1, <1>4, <1>5 DEF Clean

LEMMA CleanWhenRoomy ==
  ASSUME ScanInv, Allocated, Roomy
  PROVE  Clean
<1>1. /\ BlockOK /\ rmap \in [Tmps -> Registers]
      /\ \A t \in Tmps : MovesIn(t) # {} => rmap[t] = Precoloured[t]
      /\ \A t \in Tmps : MovesIn(t) = {} => Settled(t, rmap)
  BY RegistersAtEnd
<1>2. \A t, u \in Tmps : t # u /\ Overlap(t, u) => rmap[t] # rmap[u]
  BY ApartWhenRoomy, NoClashIfApart
<1>3. /\ DOMAIN block.insns = 1 .. NInsns /\ NInsns \in Nat
      /\ DOMAIN source[bi].insns = 1 .. NInsns
      /\ \A k \in 1 .. NInsns : Src(k).type # "param"
  BY <1>1, Sequenced, BlockFacts DEF Roomy, Src
<1>4. ASSUME NEW k \in 1 .. NInsns, Src(k).type = "retval"
      PROVE  rmap[Src(k).out] = nth_ar(Src(k).nth)
  <2>. DEFINE t == Src(k).out
  <2>1. t \in block.params + 1 .. block.tmps
    BY <1>1, <1>3, <1>4, InstructionFacts DEF IsInBlock
  <2>2. t \in Tmps /\ t > block.params
    BY <1>1, <2>1, BlockFacts DEF Tmps
  <2>. HIDE DEF t
  <2>3. Start(t) = k
    BY <1>1, <2>2, DefinedAt DEF t
  <2>4. MovesIn(t) # {}
    <3>. SUFFICES ASSUME MovesIn(t) = {} PROVE FALSE
      OBVIOUS
    <3>1. IsComputed(t)
      BY <1>1, <2>2, LoadFacts
    <3>. QED  BY <1>4, <2>2, <2>3, <3>1 DEF IsComputed
  <2>5. IsLoaded(t)
    BY <1>1, <2>2, <2>4, LoadFacts
  <2>6. rmap[t] = nth_ar(Src(k).nth)
    BY <1>1, <2>2, <2>3, <2>4, <2>5 DEF IsLoaded
  <2>. QED  BY <2>6 DEF t
<1>5. ASSUME NEW k \in 1 .. NInsns, Src(k).type \in {"arg", "retarg"},
             NEW t \in Tmps, Start(t) < k, rmap[t] = nth_ar(Src(k).nth)
      PROVE  Src(k).in = {t}
  <2>1. rmap[t] \in ArgSet /\ rmap[t] # None /\ Src(k).nth \in Nat /\ Src(k).nth + 1 \in DOMAIN ArgRegs
    BY <1>1, <1>3, <1>5, InstructionFacts, RegisterFacts DEF IsInBlock, IsLowered
  <2>2. MovesIn(t) = {}
    <3>. SUFFICES ASSUME MovesIn(t) # {} PROVE FALSE
      OBVIOUS
    <3>. DEFINE j == Start(t)
    <3>1. IsLoaded(t) /\ j \in 1 .. NInsns /\ Src(j).type = "retval"
      BY <1>1, <1>3, LoadFacts DEF IsLoaded
    <3>2. Calls # {} /\ CallPos < j
      BY <1>1, <3>1, Around
    <3>3. Src(k).type = "arg" => k < CallPos
      BY <1>1, <1>5, Around
    <3>4. Src(k).type = "retarg" => Calls = {}
      BY <1>1, <1>5, Around
    <3>5. CallPos \in Nat
      BY <1>1, <1>3, <3>2, CallStands
    <3>. QED  BY <1>3, <1>5, <3>1, <3>2, <3>3, <3>4, <3>5
  <2>3. rmap[t] = Hint(t)
    <3>. SUFFICES ASSUME rmap[t] # Hint(t) PROVE FALSE
      OBVIOUS
    <3>1. rmap[t] \in RoomSet
      BY <1>1, <2>2 DEF Settled
    <3>. QED  BY <2>1, <3>1, RegisterFacts
  <2>4. PICK j \in DOMAIN block.insns :
          /\ Src(j).type \in {"arg", "retarg"} /\ Src(j).in = {t} /\ Hint(t) = nth_ar(Src(j).nth)
          /\ Src(j).nth + 1 \in DOMAIN ArgRegs
    BY <1>1, <2>1, <2>2, <2>3, HintFacts DEF IsHinted
  <2>5. Src(j).nth \in Nat
    BY <1>1, InstructionFacts DEF IsInBlock, IsLowered
  <2>6. Src(j).nth + 1 = Src(k).nth + 1
    BY <1>5, <2>1, <2>3, <2>4, RegisterFacts DEF nth_ar
  <2>7. Src(j).nth = Src(k).nth
    BY <2>1, <2>5, <2>6
  <2>8. Positioned(source[bi], {"arg", "retarg"}) /\ j \in DOMAIN source[bi].insns /\ k \in DOMAIN source[bi].insns
    BY <1>1, <1>3 DEF BlockOK, IsFormed
  <2>9. j = k
    BY <1>5, <2>4, <2>7, <2>8 DEF Positioned, Src
  <2>. QED  BY <2>4, <2>9
<1>. QED  BY <1>1, <1>2, <1>3, <1>4, <1>5 DEF Clean

-----------------------------------------------------------------------------
(* Meaning and Performed as sequences of states.                            *)

MeantAtEntry ==
  [loc |-> [t \in Tmps |-> <<"entry", t>>], given |-> <<>>, results |-> <<>>, reads |-> <<>>]

MeantRun(f, n) ==
  f[0] = MeantAtEntry /\ \A j \in 1 .. n : f[j] = Meant(f[j - 1], Src(j))

LEMMA MeantRuns ==
  ASSUME NEW N \in Nat
  PROVE  \E f : MeantRun(f, N)
<1>. DEFINE Bad == {n \in Nat : \A f : ~MeantRun(f, n)}
<1>1. ASSUME Bad # {} PROVE FALSE
  <2>1. PICK n \in Bad : \A m \in Bad : n <= m
    <3>. HIDE DEF Bad
    <3>1. Bad \in SUBSET Nat
      BY DEF Bad
    <3>. QED  BY <1>1, <3>1, LeastOf
  <2>2. CASE n = 0
    <3>1. PICK f : f = [j \in {0} |-> MeantAtEntry]
      OBVIOUS
    <3>2. MeantRun(f, n)
      BY <2>2, <3>1 DEF MeantRun
    <3>. QED  BY <2>1, <3>2
  <2>3. CASE n # 0
    <3>1. n \in Nat /\ n - 1 \in Nat /\ ~(n <= n - 1) /\ n \in 1 .. n
      BY <2>1, <2>3
    <3>2. n - 1 \notin Bad
      <4>. HIDE DEF Bad
      <4>. QED  BY <2>1, <3>1
    <3>3. PICK f : MeantRun(f, n - 1)
      BY <3>1, <3>2
    <3>4. PICK x : x = Meant(f[n - 1], Src(n))
      OBVIOUS
    <3>5. PICK g : g = [j \in 0 .. n |-> IF j = n THEN x ELSE f[j]]
      OBVIOUS
    <3>6. g[n] = x /\ \A j \in 0 .. n - 1 : g[j] = f[j]
      BY <3>1, <3>5
    <3>7. ASSUME NEW j \in 1 .. n PROVE g[j] = Meant(g[j - 1], Src(j))
      <4>1. CASE j = n
        <5>1. n - 1 \in 0 .. n - 1
          BY <3>1
        <5>. QED  BY <3>4, <3>6, <4>1, <5>1
      <4>2. CASE j # n
        <5>1. j \in 1 .. n - 1 /\ j \in 0 .. n - 1 /\ j - 1 \in 0 .. n - 1
          BY <3>1, <4>2
        <5>. QED  BY <3>3, <3>6, <5>1 DEF MeantRun
      <4>. QED  BY <4>1, <4>2
    <3>8. g[0] = MeantAtEntry
      <4>1. 0 \in 0 .. n - 1
        BY <3>1
      <4>. QED  BY <3>3, <3>6, <4>1 DEF MeantRun
    <3>9. MeantRun(g, n)
      BY <3>7, <3>8 DEF MeantRun
    <3>. QED  BY <2>1, <3>9
  <2>. QED  BY <2>2, <2>3
<1>. QED  BY <1>1

LEMMA MeaningIs ==
  ASSUME Len(source[bi].insns) \in Nat
  PROVE  \E f : MeantRun(f, Len(source[bi].insns)) /\ Meaning = f[Len(source[bi].insns)]
<1>. DEFINE N == Len(source[bi].insns)
            Unfold(f) == [k \in 0 .. N |->
                            IF k = 0 THEN [loc |-> [t \in Tmps |-> <<"entry", t>>], given |-> <<>>,
                                           results |-> <<>>, reads |-> <<>>]
                            ELSE Meant(f[k - 1], source[bi].insns[k])]
            run == CHOOSE f : f = Unfold(f)
<1>1. Meaning = run[N]
  BY DEF Meaning
<1>2. PICK f : MeantRun(f, N)
  BY MeantRuns
<1>3. PICK g : g = [k \in 0 .. N |-> f[k]]
  OBVIOUS
<1>4. g = Unfold(g)
  <2>1. ASSUME NEW k \in 0 .. N PROVE g[k] = Unfold(g)[k]
    <3>1. CASE k = 0
      BY <1>2, <1>3, <3>1 DEF MeantRun, MeantAtEntry
    <3>2. CASE k # 0
      <4>1. k \in 1 .. N /\ k - 1 \in 0 .. N
        BY <3>2
      <4>2. g[k] = f[k] /\ g[k - 1] = f[k - 1]
        BY <1>3, <4>1
      <4>3. Unfold(g)[k] = Meant(g[k - 1], Src(k))
        BY <3>2 DEF Src
      <4>. QED  BY <1>2, <4>1, <4>2, <4>3 DEF MeantRun
    <3>. QED  BY <3>1, <3>2
  <2>. HIDE DEF N
  <2>. QED  BY <1>3, <2>1
<1>5. run = Unfold(run)
  <2>. HIDE DEF Unfold
  <2>. QED  BY <1>4
<1>6. MeantRun(run, N)
  <2>. HIDE DEF run
  <2>1. 0 \in 0 .. N /\ \A j \in 1 .. N : j \in 0 .. N /\ j # 0
    OBVIOUS
  <2>2. run[0] = MeantAtEntry
    BY <1>5, <2>1 DEF MeantAtEntry
  <2>3. ASSUME NEW j \in 1 .. N PROVE run[j] = Meant(run[j - 1], Src(j))
    BY <1>5, <2>1 DEF Src
  <2>. QED  BY <2>2, <2>3 DEF MeantRun
<1>. HIDE DEF run
<1>. QED  BY <1>1, <1>6

DoneAtEntry == [loc |-> Entered, slot |-> <<>>, reads |-> <<>>]

DoneRun(f, n, given) ==
  f[0] = DoneAtEntry /\ \A j \in 1 .. n : f[j] = Done(f[j - 1], code[bi][j], given)

LEMMA DoneRuns ==
  ASSUME NEW N \in Nat, NEW given
  PROVE  \E f : DoneRun(f, N, given)
<1>. DEFINE Bad == {n \in Nat : \A f : ~DoneRun(f, n, given)}
<1>1. ASSUME Bad # {} PROVE FALSE
  <2>1. PICK n \in Bad : \A m \in Bad : n <= m
    <3>. HIDE DEF Bad
    <3>1. Bad \in SUBSET Nat
      BY DEF Bad
    <3>. QED  BY <1>1, <3>1, LeastOf
  <2>2. CASE n = 0
    <3>1. PICK f : f = [j \in {0} |-> DoneAtEntry]
      OBVIOUS
    <3>2. DoneRun(f, n, given)
      BY <2>2, <3>1 DEF DoneRun
    <3>. QED  BY <2>1, <3>2
  <2>3. CASE n # 0
    <3>1. n \in Nat /\ n - 1 \in Nat /\ ~(n <= n - 1) /\ n \in 1 .. n
      BY <2>1, <2>3
    <3>2. n - 1 \notin Bad
      <4>. HIDE DEF Bad
      <4>. QED  BY <2>1, <3>1
    <3>3. PICK f : DoneRun(f, n - 1, given)
      BY <3>1, <3>2
    <3>4. PICK x : x = Done(f[n - 1], code[bi][n], given)
      OBVIOUS
    <3>5. PICK g : g = [j \in 0 .. n |-> IF j = n THEN x ELSE f[j]]
      OBVIOUS
    <3>6. g[n] = x /\ \A j \in 0 .. n - 1 : g[j] = f[j]
      BY <3>1, <3>5
    <3>7. ASSUME NEW j \in 1 .. n PROVE g[j] = Done(g[j - 1], code[bi][j], given)
      <4>1. CASE j = n
        <5>1. n - 1 \in 0 .. n - 1
          BY <3>1
        <5>. QED  BY <3>4, <3>6, <4>1, <5>1
      <4>2. CASE j # n
        <5>1. j \in 1 .. n - 1 /\ j \in 0 .. n - 1 /\ j - 1 \in 0 .. n - 1
          BY <3>1, <4>2
        <5>. QED  BY <3>3, <3>6, <5>1 DEF DoneRun
      <4>. QED  BY <4>1, <4>2
    <3>8. g[0] = DoneAtEntry
      <4>1. 0 \in 0 .. n - 1
        BY <3>1
      <4>. QED  BY <3>3, <3>6, <4>1 DEF DoneRun
    <3>9. DoneRun(g, n, given)
      BY <3>7, <3>8 DEF DoneRun
    <3>. QED  BY <2>1, <3>9
  <2>. QED  BY <2>2, <2>3
<1>. QED  BY <1>1

LEMMA PerformedIs ==
  ASSUME NEW given, Len(code[bi]) \in Nat
  PROVE  \E f : DoneRun(f, Len(code[bi]), given) /\ Performed(given) = f[Len(code[bi])]
<1>. DEFINE N == Len(code[bi])
            Unfold(f) == [k \in 0 .. N |->
                            IF k = 0 THEN [loc |-> Entered, slot |-> <<>>, reads |-> <<>>]
                            ELSE Done(f[k - 1], code[bi][k], given)]
            run == CHOOSE f : f = Unfold(f)
<1>1. Performed(given) = run[N]
  BY DEF Performed
<1>2. PICK f : DoneRun(f, N, given)
  BY DoneRuns
<1>3. PICK g : g = [k \in 0 .. N |-> f[k]]
  OBVIOUS
<1>4. g = Unfold(g)
  <2>1. ASSUME NEW k \in 0 .. N PROVE g[k] = Unfold(g)[k]
    <3>1. CASE k = 0
      BY <1>2, <1>3, <3>1 DEF DoneRun, DoneAtEntry
    <3>2. CASE k # 0
      <4>1. k \in 1 .. N /\ k - 1 \in 0 .. N
        BY <3>2
      <4>2. g[k] = f[k] /\ g[k - 1] = f[k - 1]
        BY <1>3, <4>1
      <4>3. Unfold(g)[k] = Done(g[k - 1], code[bi][k], given)
        BY <3>2
      <4>. QED  BY <1>2, <4>1, <4>2, <4>3 DEF DoneRun
    <3>. QED  BY <3>1, <3>2
  <2>. HIDE DEF N
  <2>. QED  BY <1>3, <2>1
<1>5. run = Unfold(run)
  <2>. HIDE DEF Unfold
  <2>. QED  BY <1>4
<1>6. DoneRun(run, N, given)
  <2>. HIDE DEF run
  <2>1. 0 \in 0 .. N /\ \A j \in 1 .. N : j \in 0 .. N /\ j # 0
    OBVIOUS
  <2>2. run[0] = DoneAtEntry
    BY <1>5, <2>1 DEF DoneAtEntry
  <2>3. ASSUME NEW j \in 1 .. N PROVE run[j] = Done(run[j - 1], code[bi][j], given)
    BY <1>5, <2>1
  <2>. QED  BY <2>2, <2>3 DEF DoneRun
<1>. HIDE DEF run
<1>. QED  BY <1>1, <1>6

-----------------------------------------------------------------------------
(* What one instruction does, before and after allocation.                  *)

MeantIn(m) ==
  /\ m = [loc |-> m.loc, given |-> m.given, results |-> m.results, reads |-> m.reads]
  /\ m.loc = [t \in Tmps |-> m.loc[t]]

DoneIn(s) ==
  /\ s = [loc |-> s.loc, slot |-> s.slot, reads |-> s.reads]
  /\ s.loc = [r \in Registers |-> s.loc[r]]

\* m becomes n when temporary t, if any, is set and S is read
MeantSet(m, n, t, value, S) ==
  /\ MeantIn(n) /\ n.given = m.given /\ n.results = m.results /\ n.reads = Append(m.reads, S)
  /\ \A u \in Tmps : n.loc[u] = IF u = t THEN value ELSE m.loc[u]

\* s becomes z when register r, if any, is set and S is read
DoneSet(s, z, r, value, S) ==
  /\ DoneIn(z) /\ z.slot = s.slot /\ z.reads = Append(s.reads, S)
  /\ \A x \in Registers : z.loc[x] = IF x = r THEN value ELSE s.loc[x]

\* position n is given a value
Put(f, n, value) == [j \in DOMAIN f \cup {n} |-> IF j = n THEN value ELSE f[j]]

ReadBy(s, i) == {s.loc[v] : v \in i.in}

Carried(m, i) == IF i.in = {} THEN Fresh(m) ELSE m.loc[CHOOSE v \in i.in : TRUE]

LEMMA NewLoc ==
  ASSUME NEW D, NEW f, f = [x \in D |-> f[x]], NEW o, o = None \/ o \in D, None \notin D, NEW v
  PROVE  LET g == IF o = None THEN f ELSE [f EXCEPT ![o] = v]
         IN  g = [x \in D |-> g[x]] /\ \A x \in D : g[x] = IF x = o THEN v ELSE f[x]
<1>1. CASE o = None
  BY <1>1
<1>2. CASE o \in D
  <2>. DEFINE g == [f EXCEPT ![o] = v]
  <2>1. DOMAIN f = D
    OBVIOUS
  <2>2. g = [x \in D |-> IF x = o THEN v ELSE f[x]]
    BY <1>2, <2>1
  <2>3. o # None
    BY <1>2
  <2>. QED  BY <2>2, <2>3
<1>. QED  BY <1>1, <1>2

LEMMA MeantOp ==
  ASSUME NEW m, MeantIn(m), NEW i, i.type = "op", i.out = None \/ i.out \in Tmps
  PROVE  MeantSet(m, Meant(m, i), i.out, Fresh(m), ReadBy(m, i))
<1>1. None \notin Tmps
  BY RegisterFacts DEF Tmps
<1>2. PICK g : g = IF i.out = None THEN m.loc ELSE [m.loc EXCEPT ![i.out] = Fresh(m)]
  OBVIOUS
<1>3. g = [x \in Tmps |-> g[x]] /\ \A x \in Tmps : g[x] = IF x = i.out THEN Fresh(m) ELSE m.loc[x]
  BY <1>1, <1>2, NewLoc DEF MeantIn
<1>4. Meant(m, i) = [m EXCEPT !.loc = g, !.reads = Append(m.reads, ReadBy(m, i))]
  BY <1>2 DEF Meant, ReadBy
<1>5. PICK e : e = Append(m.reads, ReadBy(m, i))
  OBVIOUS
<1>6. Meant(m, i) = [loc |-> g, given |-> m.given, results |-> m.results, reads |-> e]
  BY <1>4, <1>5 DEF MeantIn
<1>. QED  BY <1>3, <1>5, <1>6 DEF MeantSet, MeantIn

LEMMA MeantRetVal ==
  ASSUME NEW m, MeantIn(m), NEW i, i.type = "retval", i.out \in Tmps
  PROVE  MeantSet(m, Meant(m, i), i.out, <<"result", i.nth>>, {<<"result", i.nth>>})
<1>1. None \notin Tmps
  BY RegisterFacts DEF Tmps
<1>2. PICK g : g = IF i.out = None THEN m.loc ELSE [m.loc EXCEPT ![i.out] = <<"result", i.nth>>]
  OBVIOUS
<1>3. g = [x \in Tmps |-> g[x]] /\ \A x \in Tmps : g[x] = IF x = i.out THEN <<"result", i.nth>> ELSE m.loc[x]
  BY <1>1, <1>2, NewLoc DEF MeantIn
<1>4. Meant(m, i) = [m EXCEPT !.loc = g, !.reads = Append(m.reads, {<<"result", i.nth>>})]
  BY <1>2 DEF Meant
<1>5. PICK e : e = Append(m.reads, {<<"result", i.nth>>})
  OBVIOUS
<1>6. Meant(m, i) = [loc |-> g, given |-> m.given, results |-> m.results, reads |-> e]
  BY <1>4, <1>5 DEF MeantIn
<1>. QED  BY <1>3, <1>5, <1>6 DEF MeantSet, MeantIn

LEMMA MeantCall ==
  ASSUME NEW m, MeantIn(m), NEW i, i.type = "call"
  PROVE  MeantSet(m, Meant(m, i), None, None,
                  ReadBy(m, i) \cup {<<"given", n, m.given[n]>> : n \in DOMAIN m.given})
<1>1. None \notin Tmps
  BY RegisterFacts DEF Tmps
<1>2. PICK e : e = Append(m.reads, ReadBy(m, i) \cup {<<"given", n, m.given[n]>> : n \in DOMAIN m.given})
  OBVIOUS
<1>3. Meant(m, i) = [m EXCEPT !.reads = e]
  BY <1>2 DEF Meant, ReadBy
<1>4. Meant(m, i) = [loc |-> m.loc, given |-> m.given, results |-> m.results, reads |-> e]
  BY <1>3 DEF MeantIn
<1>. QED  BY <1>1, <1>2, <1>4 DEF MeantSet, MeantIn

LEMMA MeantArg ==
  ASSUME NEW m, MeantIn(m), NEW i, i.type = "arg"
  PROVE  Meant(m, i) = [loc |-> m.loc, given |-> Put(m.given, i.nth, Carried(m, i)),
                        results |-> m.results, reads |-> Append(m.reads, ReadBy(m, i))]
<1>1. PICK e : e = Append(m.reads, ReadBy(m, i))
  OBVIOUS
<1>2. PICK v : v = Carried(m, i)
  OBVIOUS
<1>3. PICK g : g = Put(m.given, i.nth, v)
  OBVIOUS
<1>4. Meant(m, i) = [m EXCEPT !.given = g, !.reads = e]
  BY <1>1, <1>2, <1>3 DEF Meant, ReadBy, Carried, Put
<1>5. Meant(m, i) = [loc |-> m.loc, given |-> g, results |-> m.results, reads |-> e]
  BY <1>4 DEF MeantIn
<1>. QED  BY <1>1, <1>2, <1>3, <1>5

LEMMA MeantRetArg ==
  ASSUME NEW m, MeantIn(m), NEW i, i.type = "retarg"
  PROVE  Meant(m, i) = [loc |-> m.loc, given |-> m.given,
                        results |-> Put(m.results, i.nth, Carried(m, i)),
                        reads |-> Append(m.reads, ReadBy(m, i))]
<1>1. PICK e : e = Append(m.reads, ReadBy(m, i))
  OBVIOUS
<1>2. PICK v : v = Carried(m, i)
  OBVIOUS
<1>3. PICK g : g = Put(m.results, i.nth, v)
  OBVIOUS
<1>4. Meant(m, i) = [m EXCEPT !.results = g, !.reads = e]
  BY <1>1, <1>2, <1>3 DEF Meant, ReadBy, Carried, Put
<1>5. Meant(m, i) = [loc |-> m.loc, given |-> m.given, results |-> g, reads |-> e]
  BY <1>4 DEF MeantIn
<1>. QED  BY <1>1, <1>2, <1>3, <1>5

LEMMA DoneOp ==
  ASSUME NEW s, DoneIn(s), NEW i, i.type = "op", i.out = None \/ i.out \in Registers, NEW G
  PROVE  DoneSet(s, Done(s, i, G), i.out, Fresh(s), ReadBy(s, i))
<1>1. None \notin Registers
  BY RegisterFacts
<1>2. PICK g : g = IF i.out = None THEN s.loc ELSE [s.loc EXCEPT ![i.out] = Fresh(s)]
  OBVIOUS
<1>3. g = [x \in Registers |-> g[x]] /\ \A x \in Registers : g[x] = IF x = i.out THEN Fresh(s) ELSE s.loc[x]
  BY <1>1, <1>2, NewLoc DEF DoneIn
<1>4. PICK e : e = Append(s.reads, ReadBy(s, i))
  OBVIOUS
<1>5. Done(s, i, G) = [s EXCEPT !.loc = g, !.reads = e]
  BY <1>2, <1>4 DEF Done, ReadBy
<1>6. Done(s, i, G) = [loc |-> g, slot |-> s.slot, reads |-> e]
  BY <1>5 DEF DoneIn
<1>. QED  BY <1>3, <1>4, <1>6 DEF DoneSet, DoneIn

LEMMA DoneMove ==
  ASSUME NEW s, DoneIn(s), NEW i, i.type = "move", i.out \in Registers, NEW r \in Registers,
         i.in = {r}, NEW G
  PROVE  DoneSet(s, Done(s, i, G), i.out, s.loc[r], {s.loc[r]})
<1>1. None \notin Registers
  BY RegisterFacts
<1>2. PICK g : g = IF i.out = None THEN s.loc ELSE [s.loc EXCEPT ![i.out] = s.loc[r]]
  OBVIOUS
<1>3. g = [x \in Registers |-> g[x]] /\ \A x \in Registers : g[x] = IF x = i.out THEN s.loc[r] ELSE s.loc[x]
  BY <1>1, <1>2, NewLoc DEF DoneIn
<1>4. PICK e : e = Append(s.reads, {s.loc[r]})
  OBVIOUS
<1>5. (CHOOSE x \in i.in : x \in Registers) = r
  OBVIOUS
<1>6. {s.loc[v] : v \in i.in} = {s.loc[r]}
  OBVIOUS
<1>7. Done(s, i, G) = [s EXCEPT !.loc = g, !.reads = e]
  BY <1>2, <1>4, <1>5, <1>6 DEF Done
<1>8. Done(s, i, G) = [loc |-> g, slot |-> s.slot, reads |-> e]
  BY <1>7 DEF DoneIn
<1>. QED  BY <1>3, <1>4, <1>8 DEF DoneSet, DoneIn

\* what the call leaves in register r
AfterCallIn(s, r) ==
  IF Preserved(r) THEN s.loc[r]
  ELSE IF IsArgReg(r) THEN <<"result", Position(r)>> ELSE <<"lost", r>>

LEMMA DoneCall ==
  ASSUME NEW s, DoneIn(s), NEW i, i.type = "call", NEW G
  PROVE  Done(s, i, G) =
           [loc |-> [r \in Registers |-> AfterCallIn(s, r)], slot |-> s.slot,
            reads |-> Append(s.reads, ReadBy(s, i) \cup {<<"given", n, s.loc[nth_ar(n)]>> : n \in G})]
<1>1. PICK e : e = Append(s.reads, ReadBy(s, i) \cup {<<"given", n, s.loc[nth_ar(n)]>> : n \in G})
  OBVIOUS
<1>2. PICK g : g = [r \in Registers |-> AfterCallIn(s, r)]
  OBVIOUS
<1>3. g = [r \in Registers |->
             CASE Preserved(r) -> s.loc[r]
               [] IsArgReg(r)  -> <<"result", Position(r)>>
               [] OTHER        -> <<"lost", r>>]
  <2>1. ASSUME NEW r \in Registers
        PROVE  AfterCallIn(s, r) = CASE Preserved(r) -> s.loc[r]
                                     [] IsArgReg(r)  -> <<"result", Position(r)>>
                                     [] OTHER        -> <<"lost", r>>
    <3>1. ~(Preserved(r) /\ IsArgReg(r))
      <4>. SUFFICES ASSUME Preserved(r), IsArgReg(r) PROVE FALSE
        OBVIOUS
      <4>1. r \in ArgSet
        BY DEF IsArgReg, ArgSet
      <4>2. r \in RoomSet
        BY OrderFacts DEF Preserved, RoomSet
      <4>. QED  BY <4>1, <4>2, RegisterFacts
    <3>. QED  BY <3>1 DEF AfterCallIn
  <2>. QED  BY <1>2, <2>1
<1>4. Done(s, i, G) = [s EXCEPT !.loc = g, !.reads = e]
  BY <1>1, <1>3 DEF Done, ReadBy
<1>5. Done(s, i, G) = [loc |-> g, slot |-> s.slot, reads |-> e]
  BY <1>4 DEF DoneIn
<1>. QED  BY <1>1, <1>2, <1>5

LEMMA DoneSave ==
  ASSUME NEW s, DoneIn(s), NEW r \in Registers, NEW n \in Nat, NEW G
  PROVE  Done(s, Slot("save", r, n), G) =
           [loc |-> s.loc, slot |-> Put(s.slot, n, s.loc[r]), reads |-> s.reads]
<1>. DEFINE i == Slot("save", r, n)
<1>1. i.type = "save" /\ i.in = {r, n}
  BY DEF Slot
<1>2. (CHOOSE x \in i.in : x \in Registers) = r /\ (CHOOSE x \in i.in : x \in Nat) = n
  BY <1>1, RegisterFacts
<1>. HIDE DEF i
<1>3. PICK g : g = Put(s.slot, n, s.loc[r])
  OBVIOUS
<1>4. Done(s, i, G) = [s EXCEPT !.slot = g]
  BY <1>1, <1>2, <1>3 DEF Done, Put
<1>5. Done(s, i, G) = [loc |-> s.loc, slot |-> g, reads |-> s.reads]
  BY <1>4 DEF DoneIn
<1>. QED  BY <1>3, <1>5 DEF i

LEMMA DoneRestore ==
  ASSUME NEW s, DoneIn(s), NEW r \in Registers, NEW n \in Nat, n \in DOMAIN s.slot, NEW G
  PROVE  Done(s, Slot("restore", r, n), G) =
           [loc |-> [x \in Registers |-> IF x = r THEN s.slot[n] ELSE s.loc[x]],
            slot |-> s.slot, reads |-> s.reads]
<1>. DEFINE i == Slot("restore", r, n)
<1>1. i.type = "restore" /\ i.in = {r, n}
  BY DEF Slot
<1>2. (CHOOSE x \in i.in : x \in Registers) = r /\ (CHOOSE x \in i.in : x \in Nat) = n
  BY <1>1, RegisterFacts
<1>. HIDE DEF i
<1>3. PICK v : v = s.slot[n]
  OBVIOUS
<1>4. Done(s, i, G) = [s EXCEPT !.loc[r] = v]
  BY <1>1, <1>2, <1>3 DEF Done
<1>5. PICK g : g = [s.loc EXCEPT ![r] = v]
  OBVIOUS
<1>6. g = [x \in Registers |-> IF x = r THEN v ELSE s.loc[x]]
  BY <1>5 DEF DoneIn
<1>7. Done(s, i, G) = [loc |-> g, slot |-> s.slot, reads |-> s.reads]
  BY <1>4, <1>5 DEF DoneIn
<1>. QED  BY <1>3, <1>6, <1>7 DEF i

-----------------------------------------------------------------------------
(* The simulation. After instruction k of the block the allocated code has  *)
(* read the same values, a temporary that is alive is in its register, the  *)
(* arguments and results set up so far are in theirs, and so are the        *)
(* results of the call that are still to be fetched. A temporary saved      *)
(* around the call is, from the call on, only in its slot.                  *)

Here(t, k) == Start(t) <= k /\ k < End(t) /\ ~(Saved(t) /\ CallPos <= k)

\* the positions named by instructions of a type
NthOf(type, k) == {Src(j).nth : j \in {i \in 1 .. k : Src(i).type = type}}

AliveHere(m, s, k)   == \A t \in Tmps : Here(t, k) => s.loc[rmap[t]] = m.loc[t]
GivenHere(m, s, k)   == \A n \in NthOf("arg", k) : k < CallPos => s.loc[nth_ar(n)] = m.given[n]
ResultsHere(m, s, k) == \A n \in NthOf("retarg", k) : s.loc[nth_ar(n)] = m.results[n]
ReturnedHere(s, k) ==
  \A j \in k + 1 .. NInsns :
    Src(j).type = "retval" /\ CallPos <= k => s.loc[nth_ar(Src(j).nth)] = <<"result", Src(j).nth>>

Agree(m, s, k) ==
  /\ MeantIn(m) /\ DoneIn(s) /\ m.reads = s.reads
  /\ DOMAIN m.given = NthOf("arg", k) /\ DOMAIN m.results = NthOf("retarg", k)
  /\ AliveHere(m, s, k) /\ GivenHere(m, s, k) /\ ResultsHere(m, s, k) /\ ReturnedHere(s, k)

\* the saved temporaries are in their slots
Kept(m, s) ==
  \A t \in Tmps : Saved(t) => Index(t) \in DOMAIN s.slot /\ s.slot[Index(t)] = m.loc[t]

\* states n and z after instruction k + 1
StepsTo(m, s, n, z, k) ==
  /\ Agree(n, z, k + 1) /\ z.slot = s.slot
  /\ \A t \in Tmps : t # Src(k + 1).out => n.loc[t] = m.loc[t]

LEMMA NthGrows ==
  ASSUME NEW k \in Nat, NEW type
  PROVE  NthOf(type, k + 1) = NthOf(type, k) \cup (IF Src(k + 1).type = type THEN {Src(k + 1).nth} ELSE {})
<1>1. \A j : j \in 1 .. k + 1 <=> j \in 1 .. k \/ j = k + 1
  OBVIOUS
<1>. QED  BY <1>1 DEF NthOf

\* the register of an output
Home(t) == IF t = None THEN None ELSE rmap[t]

LEMMA AllocatedFacts ==
  ASSUME Clean, NEW k \in 1 .. NInsns, NEW c, c = InRegisters(Ins(k))
  PROVE  /\ Src(k).type \in {"op", "call"} =>
              c.type = Src(k).type /\ c.out = Home(Src(k).out) /\ c.in = {rmap[v] : v \in Src(k).in}
         /\ Src(k).type = "retval" =>
              c.type = "move" /\ c.out = rmap[Src(k).out] /\ c.in = {nth_ar(Src(k).nth)}
         /\ Src(k).type \in {"arg", "retarg"} =>
              /\ c.type = (IF Src(k).in = {} THEN "op" ELSE "move")
              /\ c.out = nth_ar(Src(k).nth) /\ c.in = {rmap[v] : v \in Src(k).in}
         /\ Src(k).out = None \/ Src(k).out \in Tmps
         /\ Src(k).in \subseteq Tmps
<1>1. /\ BlockOK /\ k \in DOMAIN block.insns /\ Ins(k) = rewrite(Src(k))
  BY Sequenced, BlockFacts DEF Clean
<1>2. /\ IsLowered(Ins(k), Src(k)) /\ IsInBlock(k)
      /\ Tmps \subseteq Nat \ {0} /\ None = 0 /\ Registers \cap Nat = {} /\ ArgSet \subseteq Registers
  BY <1>1, InstructionFacts, BlockFacts, RegisterFacts DEF IsInBlock, Tmps
<1>3. Src(k).in \subseteq Tmps /\ (Src(k).out = None \/ Src(k).out \in Tmps)
  BY <1>1, <1>2, BlockFacts DEF IsInBlock, Tmps
<1>4. c.type = Ins(k).type /\ c.out = Rewritten(Ins(k).out) /\ c.in = {Rewritten(v) : v \in Ins(k).in}
  BY <1>1 DEF InRegisters, rewrite, rewrite_param, rewrite_retval, rewrite_arg, rewrite_retarg, flag_call, Insn
<1>5. /\ \A v \in Tmps : Rewritten(v) = rmap[v]
      /\ \A r \in ArgSet : Rewritten(r) = r
      /\ Rewritten(None) = None
  BY <1>2 DEF Rewritten
<1>6. {Rewritten(v) : v \in Src(k).in} = {rmap[v] : v \in Src(k).in}
  BY <1>3, <1>5
<1>7. CASE Src(k).type \in {"op", "call"}
  <2>1. Ins(k).out = Src(k).out /\ Ins(k).in = Src(k).in /\ Ins(k).type = Src(k).type
    BY <1>1, <1>7 DEF rewrite, flag_call, Insn
  <2>. QED  BY <1>2, <1>3, <1>4, <1>5, <1>6, <1>7, <2>1 DEF Home
<1>8. CASE Src(k).type = "retval"
  <2>1. Ins(k).out = Src(k).out /\ Ins(k).in = {nth_ar(Src(k).nth)} /\ Ins(k).type = "move"
    BY <1>2, <1>8 DEF IsLowered
  <2>2. nth_ar(Src(k).nth) \in ArgSet /\ Src(k).out \in Tmps
    BY <1>2, <1>3, <1>8 DEF IsInBlock
  <2>. QED  BY <1>3, <1>4, <1>5, <1>8, <2>1, <2>2
<1>9. CASE Src(k).type \in {"arg", "retarg"}
  <2>1. Ins(k).out = nth_ar(Src(k).nth) /\ Ins(k).in = Src(k).in
    BY <1>2, <1>9 DEF IsLowered
  <2>2. Ins(k).type = IF Src(k).in = {} THEN "op" ELSE "move"
    BY <1>1, <1>9 DEF rewrite, rewrite_arg, rewrite_retarg, LoadedBy, Insn
  <2>3. nth_ar(Src(k).nth) \in ArgSet
    BY <1>2, <1>9 DEF IsInBlock
  <2>. QED  BY <1>3, <1>4, <1>5, <1>6, <1>9, <2>1, <2>2, <2>3
<1>10. CASE Src(k).type \notin {"op", "call", "retval", "arg", "retarg"}
  BY <1>3, <1>10
<1>. QED  BY <1>3, <1>7, <1>8, <1>9, <1>10

\* operands are in their registers
LEMMA OperandsHere ==
  ASSUME Clean, NEW k \in Nat, k + 1 \in 1 .. NInsns, NEW m, NEW s, Agree(m, s, k),
         Src(k + 1).type # "retval"
  PROVE  /\ \A v \in Src(k + 1).in : v \in Tmps /\ Here(v, k) /\ s.loc[rmap[v]] = m.loc[v]
         /\ \A c : c.in = {rmap[v] : v \in Src(k + 1).in} => ReadBy(s, c) = ReadBy(m, Src(k + 1))
<1>1. BlockOK /\ NInsns \in Nat
  BY Sequenced DEF Clean
<1>2. Calls # {} => k + 1 <= CallPos /\ CallPos \in Nat
  <2>. SUFFICES ASSUME Calls # {} PROVE k + 1 <= CallPos /\ CallPos \in Nat
    OBVIOUS
  <2>1. CallPos \in 1 .. NInsns /\ \A j \in CallPos + 1 .. NInsns : Src(j).type = "retval"
    BY <1>1, CallStands
  <2>. QED  BY <1>1, <2>1
<1>3. ASSUME NEW v \in Src(k + 1).in PROVE v \in Tmps /\ Here(v, k) /\ s.loc[rmap[v]] = m.loc[v]
  <2>1. v \in Tmps /\ Start(v) < k + 1 /\ k + 1 <= End(v)
    BY <1>1, ReadAlive
  <2>2. Start(v) \in Nat /\ End(v) \in Nat
    BY <1>1, <2>1, Positions
  <2>3. Start(v) <= k /\ k < End(v)
    BY <2>1, <2>2
  <2>4. ~(Saved(v) /\ CallPos <= k)
    BY <1>2 DEF Saved
  <2>5. Here(v, k)
    BY <2>3, <2>4 DEF Here
  <2>. QED  BY <2>1, <2>5 DEF Agree, AliveHere
<1>4. ASSUME NEW c, c.in = {rmap[v] : v \in Src(k + 1).in} PROVE ReadBy(s, c) = ReadBy(m, Src(k + 1))
  BY <1>3, <1>4 DEF ReadBy
<1>. QED  BY <1>3, <1>4

\* what is alive after an instruction other than the call, and was not set by it
LEMMA StaysAlive ==
  ASSUME Clean, NEW k \in Nat, k + 1 \in 1 .. NInsns, NEW t \in Tmps, Here(t, k + 1),
         t # Src(k + 1).out
  PROVE  /\ Start(t) <= k /\ Here(t, k)
         /\ Src(k + 1).out \in Tmps => rmap[t] # rmap[Src(k + 1).out]
<1>1. /\ BlockOK /\ Start(t) \in Nat /\ End(t) \in Nat /\ IsLifetime(t) /\ t \in Nat
      /\ block.params \in Nat
  BY Positions, LifetimeFacts, BlockFacts DEF Clean
<1>2. Start(t) <= k + 1 /\ k + 1 < End(t) /\ ~(Saved(t) /\ CallPos <= k + 1)
  BY DEF Here
<1>3. Start(t) # k + 1
  <2>1. t <= block.params => Start(t) = 0
    BY <1>1 DEF IsLifetime
  <2>2. t > block.params => Start(t) # k + 1
    BY <1>1, DefinedAt
  <2>. QED  BY <1>1, <2>1, <2>2
<1>4. Start(t) <= k /\ k < End(t)
  BY <1>1, <1>2, <1>3
<1>5. ~(Saved(t) /\ CallPos <= k)
  <2>. SUFFICES ASSUME Saved(t), CallPos <= k PROVE FALSE
    OBVIOUS
  <2>1. CallPos \in Nat
    BY <1>1, CallStands, Sequenced DEF Saved
  <2>. QED  BY <1>2, <2>1
<1>6. ASSUME Src(k + 1).out \in Tmps PROVE rmap[t] # rmap[Src(k + 1).out]
  <2>. DEFINE u == Src(k + 1).out
  <2>1. Start(u) = k + 1
    BY <1>1, <1>6, DefinedAt
  <2>2. Start(u) <= End(u) /\ End(u) \in Nat
    BY <1>1, <1>6, Positions
  <2>. HIDE DEF u
  <2>3. Overlap(t, u)
    BY <1>1, <1>2, <1>4, <2>1, <2>2 DEF Overlap
  <2>. QED  BY <1>6, <2>3 DEF Clean, u
<1>. QED  BY <1>4, <1>5, <1>6 DEF Here

\* the part of the simulation that is about temporaries
LEMMA AliveAfter ==
  ASSUME Clean, NEW k \in Nat, k + 1 \in 1 .. NInsns, NEW m, NEW s, Agree(m, s, k),
         NEW n, NEW z, NEW value, NEW S, NEW T,
         MeantSet(m, n, Src(k + 1).out, value, S), DoneSet(s, z, Home(Src(k + 1).out), value, T)
  PROVE  AliveHere(n, z, k + 1)
<1>. DEFINE o == Src(k + 1).out
<1>1. rmap \in [Tmps -> Registers] /\ (o = None \/ o \in Tmps) /\ None \notin Registers /\ None \notin Tmps
  BY AllocatedFacts, RegisterFacts DEF Clean, Tmps
<1>. SUFFICES ASSUME NEW t \in Tmps, Here(t, k + 1) PROVE z.loc[rmap[t]] = n.loc[t]
  BY DEF AliveHere
<1>2. rmap[t] \in Registers
  BY <1>1
<1>3. CASE t = o
  <2>1. rmap[t] = Home(o)
    BY <1>1, <1>3 DEF Home
  <2>. QED  BY <1>2, <1>3, <2>1 DEF MeantSet, DoneSet
<1>4. CASE t # o
  <2>1. Here(t, k) /\ (o \in Tmps => rmap[t] # rmap[o])
    BY <1>4, StaysAlive
  <2>2. s.loc[rmap[t]] = m.loc[t]
    BY <2>1 DEF Agree, AliveHere
  <2>3. rmap[t] # Home(o)
    BY <1>1, <1>2, <2>1 DEF Home
  <2>. QED  BY <1>2, <1>4, <2>2, <2>3 DEF MeantSet, DoneSet
<1>. QED  BY <1>3, <1>4

\* a block has arguments of a call or results of the function, not both
LEMMA NoneOf ==
  ASSUME BlockOK, NEW k \in 0 .. NInsns
  PROVE  /\ Calls = {} => NthOf("arg", k) = {}
         /\ Calls # {} => NthOf("retarg", k) = {}
<1>1. \A j \in 1 .. k : j \in 1 .. NInsns
  BY Sequenced
<1>. QED  BY <1>1, Around DEF NthOf

\* the registers of positions
LEMMA Places ==
  ASSUME BlockOK, NEW j \in 1 .. NInsns, Src(j).type \in {"retval", "arg", "retarg"}, NEW n, n = Src(j).nth
  PROVE  /\ n \in Nat /\ n + 1 \in DOMAIN ArgRegs
         /\ nth_ar(n) \in ArgSet /\ nth_ar(n) \in Registers
         /\ IsArgReg(nth_ar(n)) /\ Position(nth_ar(n)) = n /\ ~Preserved(nth_ar(n))
<1>1. IsInBlock(j)
  BY Sequenced, InstructionFacts
<1>2. n \in Nat /\ n + 1 \in DOMAIN ArgRegs /\ nth_ar(n) \in ArgSet
  BY <1>1 DEF IsInBlock, IsLowered
<1>3. IsArgReg(nth_ar(n))
  BY <1>2 DEF IsArgReg, nth_ar
<1>4. Position(nth_ar(n)) = n
  <2>1. PICK x : x = CHOOSE k \in DOMAIN ArgRegs : ArgRegs[k] = nth_ar(n)
    OBVIOUS
  <2>2. x = n + 1
    BY <1>2, <2>1, RegisterFacts DEF nth_ar
  <2>3. Position(nth_ar(n)) = x - 1
    BY <2>1 DEF Position
  <2>. QED  BY <1>2, <2>2, <2>3
<1>5. ~Preserved(nth_ar(n))
  <2>. SUFFICES ASSUME Preserved(nth_ar(n)) PROVE FALSE
    OBVIOUS
  <2>1. nth_ar(n) \in RoomSet
    BY OrderFacts DEF Preserved, RoomSet
  <2>. QED  BY <1>2, <2>1, RegisterFacts
<1>. QED  BY <1>2, <1>3, <1>4, <1>5, RegisterFacts

LEMMA PlacesDiffer ==
  ASSUME BlockOK, NEW i \in 1 .. NInsns, NEW j \in 1 .. NInsns,
         Src(i).type \in {"retval", "arg", "retarg"}, Src(j).type \in {"retval", "arg", "retarg"},
         Src(i).nth # Src(j).nth
  PROVE  nth_ar(Src(i).nth) # nth_ar(Src(j).nth)
<1>1. PICK x : x = Src(i).nth
  OBVIOUS
<1>2. PICK y : y = Src(j).nth
  OBVIOUS
<1>3. x \in Nat /\ y \in Nat /\ x + 1 \in DOMAIN ArgRegs /\ y + 1 \in DOMAIN ArgRegs
  BY <1>1, <1>2, Places
<1>4. x # y /\ x + 1 # y + 1
  BY <1>1, <1>2, <1>3
<1>. QED  BY <1>1, <1>2, <1>3, <1>4, RegisterFacts DEF nth_ar

LEMMA StepOp ==
  ASSUME Clean, NEW k \in Nat, k + 1 \in 1 .. NInsns, NEW m, NEW s, Agree(m, s, k), NEW G,
         Src(k + 1).type = "op"
  PROVE  StepsTo(m, s, Meant(m, Src(k + 1)), Done(s, InRegisters(Ins(k + 1)), G), k)
<1>. DEFINE i == Src(k + 1)
            c == InRegisters(Ins(k + 1))
<1>1. PICK n : n = Meant(m, i)
  OBVIOUS
<1>2. PICK z : z = Done(s, c, G)
  OBVIOUS
<1>3. BlockOK /\ rmap \in [Tmps -> Registers] /\ MeantIn(m) /\ DoneIn(s) /\ m.reads = s.reads
  BY DEF Clean, Agree
<1>4. /\ c.type = "op" /\ c.out = Home(i.out) /\ c.in = {rmap[v] : v \in i.in}
      /\ i.out = None \/ i.out \in Tmps
  BY AllocatedFacts
<1>5. ReadBy(s, c) = ReadBy(m, i)
  BY <1>4, OperandsHere
<1>. HIDE DEF i, c
<1>6. MeantSet(m, n, i.out, Fresh(m), ReadBy(m, i))
  BY <1>1, <1>3, <1>4, MeantOp DEF i
<1>7. c.out = None \/ c.out \in Registers
  BY <1>3, <1>4 DEF Home
<1>8. DoneSet(s, z, Home(i.out), Fresh(s), ReadBy(s, c))
  BY <1>2, <1>3, <1>4, <1>7, DoneOp
<1>9. Fresh(s) = Fresh(m)
  BY <1>3 DEF Fresh
<1>10. MeantSet(m, n, Src(k + 1).out, Fresh(m), ReadBy(m, i))
  BY <1>6 DEF i
<1>11. DoneSet(s, z, Home(Src(k + 1).out), Fresh(m), ReadBy(s, c))
  BY <1>8, <1>9 DEF i
<1>12. AliveHere(n, z, k + 1)
  BY <1>10, <1>11, AliveAfter
<1>13. /\ Calls = {} \/ k + 1 < CallPos
       /\ \A j \in 1 .. k + 1 : Src(j).type \notin {"arg", "retarg"}
  BY <1>3, Around
<1>14. NthOf("arg", k + 1) = {} /\ NthOf("retarg", k + 1) = {}
  BY <1>13 DEF NthOf
<1>15. NthOf("arg", k) = {} /\ NthOf("retarg", k) = {}
  BY <1>14, NthGrows
<1>16. ReturnedHere(z, k + 1)
  <2>. SUFFICES ASSUME NEW j \in k + 1 + 1 .. NInsns, Src(j).type = "retval", CallPos <= k + 1 PROVE FALSE
    BY DEF ReturnedHere
  <2>1. j \in 1 .. NInsns /\ NInsns \in Nat
    BY <1>3, Sequenced
  <2>2. Calls # {}
    BY <1>3, <2>1, Around
  <2>3. CallPos \in Nat
    BY <1>3, <2>2, CallStands, Sequenced
  <2>. QED  BY <1>13, <2>2, <2>3
<1>17. DOMAIN n.given = {} /\ DOMAIN n.results = {}
  BY <1>6, <1>15 DEF MeantSet, Agree
<1>18. Agree(n, z, k + 1)
  BY <1>3, <1>5, <1>6, <1>8, <1>12, <1>14, <1>16, <1>17
     DEF Agree, MeantSet, DoneSet, GivenHere, ResultsHere
<1>. QED  BY <1>1, <1>2, <1>10, <1>11, <1>18 DEF StepsTo, MeantSet, DoneSet, i, c

LEMMA StepRetVal ==
  ASSUME Clean, NEW k \in Nat, k + 1 \in 1 .. NInsns, NEW m, NEW s, Agree(m, s, k), NEW G,
         Src(k + 1).type = "retval"
  PROVE  StepsTo(m, s, Meant(m, Src(k + 1)), Done(s, InRegisters(Ins(k + 1)), G), k)
<1>. DEFINE i == Src(k + 1)
            c == InRegisters(Ins(k + 1))
            r == nth_ar(i.nth)
            v == <<"result", i.nth>>
<1>1. PICK n : n = Meant(m, i)
  OBVIOUS
<1>2. PICK z : z = Done(s, c, G)
  OBVIOUS
<1>3. /\ BlockOK /\ rmap \in [Tmps -> Registers] /\ MeantIn(m) /\ DoneIn(s) /\ m.reads = s.reads
      /\ rmap[i.out] = r
  BY DEF Clean, Agree
<1>4. i.out \in Tmps
  <2>1. (i.out = None \/ i.out \in Tmps) /\ i.out # None
    BY <1>3, AllocatedFacts, Sequenced, InstructionFacts DEF IsInBlock
  <2>. QED  BY <2>1
<1>5. c.type = "move" /\ c.out = r /\ c.in = {r}
  BY <1>3, AllocatedFacts
<1>6. r \in Registers
  BY <1>3, Places
<1>7. Calls # {} /\ CallPos < k + 1 /\ CallPos \in Nat /\ NInsns \in Nat
  <2>1. Calls # {} /\ CallPos < k + 1
    BY <1>3, Around
  <2>. QED  BY <1>3, <2>1, CallStands, Sequenced
<1>8. s.loc[r] = v
  <2>1. k + 1 \in k + 1 .. NInsns /\ CallPos <= k
    BY <1>7
  <2>. QED  BY <2>1 DEF Agree, ReturnedHere
<1>. HIDE DEF i, c, r
<1>9. MeantSet(m, n, i.out, v, {v})
  BY <1>1, <1>3, <1>4, MeantRetVal DEF i
<1>10. DoneSet(s, z, r, v, {v})
  <2>1. c.out \in Registers
    BY <1>5, <1>6
  <2>2. DoneSet(s, z, c.out, s.loc[r], {s.loc[r]})
    BY <1>2, <1>3, <1>5, <1>6, <2>1, DoneMove
  <2>. QED  BY <1>5, <1>8, <2>2
<1>11. Home(i.out) = r
  <2>1. i.out # None
    BY <1>4, RegisterFacts DEF Tmps
  <2>. QED  BY <1>3, <2>1 DEF Home
<1>12. AliveHere(n, z, k + 1)
  <2>1. MeantSet(m, n, Src(k + 1).out, v, {v})
    BY <1>9 DEF i
  <2>2. DoneSet(s, z, Home(Src(k + 1).out), v, {v})
    BY <1>10, <1>11 DEF i
  <2>. HIDE DEF v
  <2>. QED  BY <2>1, <2>2, AliveAfter
<1>13. \A x \in Registers : z.loc[x] = s.loc[x]
  BY <1>8, <1>10 DEF DoneSet
<1>14. NthOf("arg", k + 1) = NthOf("arg", k) /\ NthOf("retarg", k + 1) = NthOf("retarg", k)
  BY NthGrows
<1>15. GivenHere(n, z, k + 1)
  BY <1>7 DEF GivenHere
<1>16. ResultsHere(n, z, k + 1)
  <2>1. NthOf("retarg", k + 1) = {}
    BY <1>3, <1>7, NoneOf
  <2>. QED  BY <2>1 DEF ResultsHere
<1>17. ReturnedHere(z, k + 1)
  <2>. SUFFICES ASSUME NEW j \in k + 1 + 1 .. NInsns, Src(j).type = "retval"
                PROVE  z.loc[nth_ar(Src(j).nth)] = <<"result", Src(j).nth>>
    BY DEF ReturnedHere
  <2>1. j \in k + 1 .. NInsns /\ j \in 1 .. NInsns /\ CallPos <= k
    BY <1>7
  <2>2. s.loc[nth_ar(Src(j).nth)] = <<"result", Src(j).nth>>
    BY <2>1 DEF Agree, ReturnedHere
  <2>3. nth_ar(Src(j).nth) \in Registers
    BY <1>3, <2>1, Places
  <2>. QED  BY <1>13, <2>2, <2>3
<1>18. Agree(n, z, k + 1)
  BY <1>3, <1>9, <1>10, <1>12, <1>14, <1>15, <1>16, <1>17 DEF Agree, MeantSet, DoneSet
<1>. QED  BY <1>1, <1>2, <1>9, <1>10, <1>18 DEF StepsTo, MeantSet, DoneSet, i, c

\* setting up an argument or a result of the function
LEMMA Placed ==
  ASSUME Clean, NEW k \in Nat, k + 1 \in 1 .. NInsns, NEW m, NEW s, Agree(m, s, k), NEW G,
         Src(k + 1).type \in {"arg", "retarg"}, NEW z, z = Done(s, InRegisters(Ins(k + 1)), G)
  PROVE  /\ DoneSet(s, z, nth_ar(Src(k + 1).nth), Carried(m, Src(k + 1)), ReadBy(m, Src(k + 1)))
         /\ \A t \in Tmps : Here(t, k + 1) => z.loc[rmap[t]] = m.loc[t]
<1>. DEFINE i == Src(k + 1)
            c == InRegisters(Ins(k + 1))
            r == nth_ar(i.nth)
<1>1. BlockOK /\ rmap \in [Tmps -> Registers] /\ MeantIn(m) /\ DoneIn(s) /\ m.reads = s.reads
  BY DEF Clean, Agree
<1>2. c.type = (IF i.in = {} THEN "op" ELSE "move") /\ c.out = r /\ c.in = {rmap[v] : v \in i.in}
  BY AllocatedFacts
<1>3. r \in Registers
  BY <1>1, Places
<1>4. i.out = None /\ \A t, u \in i.in : t = u
  BY <1>1, Sequenced, InstructionFacts DEF IsInBlock
<1>5. \A v \in i.in : v \in Tmps /\ s.loc[rmap[v]] = m.loc[v]
  <2>1. Src(k + 1).type # "retval"
    OBVIOUS
  <2>2. \A v \in Src(k + 1).in : v \in Tmps /\ Here(v, k) /\ s.loc[rmap[v]] = m.loc[v]
    BY <2>1, OperandsHere
  <2>. QED  BY <2>2
<1>6. \A t \in Tmps : Start(t) < k + 1 /\ rmap[t] = r => i.in = {t}
  BY DEF Clean
<1>7. \A t \in Tmps : Here(t, k + 1) => Start(t) < k + 1 /\ Here(t, k)
  <2>. SUFFICES ASSUME NEW t \in Tmps, Here(t, k + 1) PROVE Start(t) < k + 1 /\ Here(t, k)
    OBVIOUS
  <2>1. t # i.out
    BY <1>4, RegisterFacts DEF Tmps
  <2>2. Start(t) <= k /\ Here(t, k)
    BY <2>1, StaysAlive
  <2>3. Start(t) \in Nat
    BY <1>1, Positions
  <2>. QED  BY <2>2, <2>3
<1>8. z = Done(s, c, G)
  OBVIOUS
<1>. HIDE DEF i, c, r
<1>9. DoneSet(s, z, r, Carried(m, i), ReadBy(m, i))
  <2>1. CASE i.in = {}
    <3>1. c.type = "op" /\ c.out \in Registers /\ c.in = {}
      BY <1>2, <1>3, <2>1
    <3>2. DoneSet(s, z, c.out, Fresh(s), ReadBy(s, c))
      BY <1>1, <1>8, <3>1, DoneOp
    <3>3. Fresh(s) = Carried(m, i)
      BY <1>1, <2>1 DEF Fresh, Carried
    <3>4. ReadBy(s, c) = ReadBy(m, i)
      BY <2>1, <3>1 DEF ReadBy
    <3>. QED  BY <1>2, <3>2, <3>3, <3>4
  <2>2. CASE i.in # {}
    <3>1. PICK v : v \in i.in
      BY <2>2
    <3>2. i.in = {v}
      BY <1>4, <3>1
    <3>3. PICK x : x = rmap[v]
      OBVIOUS
    <3>4. c.type = "move" /\ c.out \in Registers
      BY <1>2, <1>3, <2>2
    <3>5. x \in Registers /\ c.in = {x}
      <4>1. x \in Registers
        BY <1>1, <1>5, <3>1, <3>3
      <4>2. c.in = {x}
        BY <1>2, <3>2, <3>3
      <4>. QED  BY <4>1, <4>2
    <3>9. DoneSet(s, z, c.out, s.loc[x], {s.loc[x]})
      <4>1. DoneIn(s)
        BY <1>1
      <4>2. c.type = "move" /\ c.out \in Registers /\ x \in Registers /\ c.in = {x}
        BY <3>4, <3>5
      <4>3. DoneSet(s, Done(s, c, G), c.out, s.loc[x], {s.loc[x]})
        BY <4>1, <4>2, DoneMove
      <4>. QED  BY <1>8, <4>3
    <3>6. s.loc[x] = m.loc[v]
      BY <1>5, <3>1, <3>3
    <3>7. Carried(m, i) = m.loc[v]
      BY <3>2 DEF Carried
    <3>8. ReadBy(m, i) = {m.loc[v]}
      BY <3>2 DEF ReadBy
    <3>. QED  BY <1>2, <3>6, <3>7, <3>8, <3>9
  <2>. QED  BY <2>1, <2>2
<1>10. ASSUME NEW t \in Tmps, Here(t, k + 1) PROVE z.loc[rmap[t]] = m.loc[t]
  <2>1. Start(t) < k + 1 /\ Here(t, k) /\ rmap[t] \in Registers
    BY <1>1, <1>7, <1>10
  <2>2. s.loc[rmap[t]] = m.loc[t]
    BY <2>1 DEF Agree, AliveHere
  <2>3. CASE rmap[t] # r
    BY <1>9, <2>1, <2>2, <2>3 DEF DoneSet
  <2>4. CASE rmap[t] = r
    <3>1. i.in = {t}
      BY <1>6, <2>1, <2>4
    <3>2. Carried(m, i) = m.loc[t]
      BY <3>1 DEF Carried
    <3>. QED  BY <1>9, <2>1, <2>4, <3>2 DEF DoneSet
  <2>. QED  BY <2>3, <2>4
<1>. QED  BY <1>9, <1>10 DEF i, r

\* the positions N hold the values f in their registers
Filled(f, loc, N) == DOMAIN f = N /\ \A n \in N : loc[nth_ar(n)] = f[n]

Written(new, loc, r, value) == \A x \in Registers : new[x] = IF x = r THEN value ELSE loc[x]

\* positions filled so far, when one more is
LEMMA PlacedSoFar ==
  ASSUME BlockOK, NEW k \in Nat, k + 1 \in 1 .. NInsns, NEW type \in {"arg", "retarg"},
         Src(k + 1).type = type, NEW f, NEW loc, NEW new, NEW value,
         Filled(f, loc, NthOf(type, k)), Written(new, loc, nth_ar(Src(k + 1).nth), value)
  PROVE  Filled(Put(f, Src(k + 1).nth, value), new, NthOf(type, k + 1))
<1>. DEFINE p == Src(k + 1).nth
<1>1. NthOf(type, k + 1) = NthOf(type, k) \cup {p}
  BY NthGrows
<1>2. nth_ar(p) \in Registers
  BY Places
<1>3. ASSUME NEW n \in NthOf(type, k), n # p PROVE nth_ar(n) \in Registers /\ nth_ar(n) # nth_ar(p)
  <2>1. PICK j \in 1 .. k : Src(j).type = type /\ n = Src(j).nth
    BY DEF NthOf
  <2>2. j \in 1 .. NInsns
    BY Sequenced
  <2>. QED  BY <1>3, <2>1, <2>2, Places, PlacesDiffer
<1>6. \A x \in Registers : new[x] = IF x = nth_ar(p) THEN value ELSE loc[x]
  BY DEF Written
<1>. HIDE DEF p
<1>4. PICK g : g = Put(f, p, value)
  OBVIOUS
<1>5. DOMAIN g = NthOf(type, k + 1) /\ g[p] = value /\ \A n \in NthOf(type, k) : n # p => g[n] = f[n]
  BY <1>1, <1>4 DEF Put, Filled
<1>7. ASSUME NEW n \in NthOf(type, k + 1) PROVE new[nth_ar(n)] = g[n]
  <2>1. CASE n = p
    BY <1>2, <1>5, <1>6, <2>1
  <2>2. CASE n # p
    <3>1. n \in NthOf(type, k)
      BY <1>1, <2>2
    <3>. QED  BY <1>3, <1>5, <1>6, <2>2, <3>1 DEF Filled
  <2>. QED  BY <2>1, <2>2
<1>. QED  BY <1>4, <1>5, <1>7 DEF p, Filled

LEMMA StepArg ==
  ASSUME Clean, NEW k \in Nat, k + 1 \in 1 .. NInsns, NEW m, NEW s, Agree(m, s, k), NEW G,
         Src(k + 1).type = "arg"
  PROVE  StepsTo(m, s, Meant(m, Src(k + 1)), Done(s, InRegisters(Ins(k + 1)), G), k)
<1>. DEFINE i == Src(k + 1)
            c == InRegisters(Ins(k + 1))
<1>1. PICK n : n = Meant(m, i)
  OBVIOUS
<1>2. PICK z : z = Done(s, c, G)
  OBVIOUS
<1>3. /\ BlockOK /\ rmap \in [Tmps -> Registers] /\ MeantIn(m) /\ DoneIn(s) /\ m.reads = s.reads
      /\ DOMAIN m.given = NthOf("arg", k) /\ DOMAIN m.results = NthOf("retarg", k)
  BY DEF Clean, Agree
<1>4. PICK v : v = Carried(m, i)
  OBVIOUS
<1>5. PICK S : S = ReadBy(m, i)
  OBVIOUS
<1>6. DoneSet(s, z, nth_ar(i.nth), v, S) /\ \A t \in Tmps : Here(t, k + 1) => z.loc[rmap[t]] = m.loc[t]
  BY <1>2, <1>4, <1>5, Placed
<1>7. n = [loc |-> m.loc, given |-> Put(m.given, i.nth, v), results |-> m.results, reads |-> Append(m.reads, S)]
  BY <1>1, <1>3, <1>4, <1>5, MeantArg
<1>8. Calls # {} /\ k + 1 < CallPos /\ CallPos \in Nat
  BY <1>3, Around, CallStands, Sequenced
<1>9. \A p \in NthOf("arg", k) : s.loc[nth_ar(p)] = m.given[p]
  BY <1>8 DEF Agree, GivenHere
<1>10. Written(z.loc, s.loc, nth_ar(i.nth), v)
  BY <1>6 DEF DoneSet, Written
<1>11. Filled(Put(m.given, i.nth, v), z.loc, NthOf("arg", k + 1))
  <2>1. Filled(m.given, s.loc, NthOf("arg", k))
    BY <1>3, <1>9 DEF Filled
  <2>. QED  BY <1>3, <1>10, <2>1, PlacedSoFar
<1>12. NthOf("retarg", k + 1) = {} /\ NthOf("retarg", k) = {}
  <2>1. k \in 0 .. NInsns /\ k + 1 \in 0 .. NInsns
    BY <1>3, Sequenced
  <2>. QED  BY <1>3, <1>8, <2>1, NoneOf
<1>. HIDE DEF i, c
<1>13. n.loc = m.loc /\ n.given = Put(m.given, i.nth, v) /\ n.results = m.results /\ n.reads = Append(m.reads, S)
       /\ MeantIn(n)
  BY <1>3, <1>7 DEF MeantIn
<1>14. AliveHere(n, z, k + 1)
  BY <1>6, <1>13 DEF AliveHere
<1>15. GivenHere(n, z, k + 1)
  BY <1>11, <1>13 DEF GivenHere, Filled
<1>16. ResultsHere(n, z, k + 1)
  BY <1>12 DEF ResultsHere
<1>17. ReturnedHere(z, k + 1)
  BY <1>8 DEF ReturnedHere
<1>18. Agree(n, z, k + 1)
  BY <1>3, <1>6, <1>11, <1>12, <1>13, <1>14, <1>15, <1>16, <1>17 DEF Agree, DoneSet, Filled
<1>. QED  BY <1>1, <1>2, <1>6, <1>13, <1>18 DEF StepsTo, DoneSet, i, c

LEMMA StepRetArg ==
  ASSUME Clean, NEW k \in Nat, k + 1 \in 1 .. NInsns, NEW m, NEW s, Agree(m, s, k), NEW G,
         Src(k + 1).type = "retarg"
  PROVE  StepsTo(m, s, Meant(m, Src(k + 1)), Done(s, InRegisters(Ins(k + 1)), G), k)
<1>. DEFINE i == Src(k + 1)
            c == InRegisters(Ins(k + 1))
<1>1. PICK n : n = Meant(m, i)
  OBVIOUS
<1>2. PICK z : z = Done(s, c, G)
  OBVIOUS
<1>3. /\ BlockOK /\ rmap \in [Tmps -> Registers] /\ MeantIn(m) /\ DoneIn(s) /\ m.reads = s.reads
      /\ DOMAIN m.given = NthOf("arg", k) /\ DOMAIN m.results = NthOf("retarg", k)
  BY DEF Clean, Agree
<1>4. PICK v : v = Carried(m, i)
  OBVIOUS
<1>5. PICK S : S = ReadBy(m, i)
  OBVIOUS
<1>6. DoneSet(s, z, nth_ar(i.nth), v, S) /\ \A t \in Tmps : Here(t, k + 1) => z.loc[rmap[t]] = m.loc[t]
  BY <1>2, <1>4, <1>5, Placed
<1>7. n = [loc |-> m.loc, given |-> m.given, results |-> Put(m.results, i.nth, v), reads |-> Append(m.reads, S)]
  BY <1>1, <1>3, <1>4, <1>5, MeantRetArg
<1>8. Calls = {}
  BY <1>3, Around
<1>9. \A p \in NthOf("retarg", k) : s.loc[nth_ar(p)] = m.results[p]
  BY DEF Agree, ResultsHere
<1>10. Written(z.loc, s.loc, nth_ar(i.nth), v)
  BY <1>6 DEF DoneSet, Written
<1>11. Filled(Put(m.results, i.nth, v), z.loc, NthOf("retarg", k + 1))
  <2>1. Filled(m.results, s.loc, NthOf("retarg", k))
    BY <1>3, <1>9 DEF Filled
  <2>. QED  BY <1>3, <1>10, <2>1, PlacedSoFar
<1>12. NthOf("arg", k + 1) = {} /\ NthOf("arg", k) = {}
  <2>1. k \in 0 .. NInsns /\ k + 1 \in 0 .. NInsns
    BY <1>3, Sequenced
  <2>. QED  BY <1>3, <1>8, <2>1, NoneOf
<1>13. ReturnedHere(z, k + 1)
  <2>. SUFFICES ASSUME NEW j \in k + 1 + 1 .. NInsns, Src(j).type = "retval" PROVE FALSE
    BY DEF ReturnedHere
  <2>1. j \in 1 .. NInsns
    BY <1>3, Sequenced
  <2>. QED  BY <1>3, <1>8, <2>1, Around
<1>. HIDE DEF i, c
<1>14. n.loc = m.loc /\ n.given = m.given /\ n.results = Put(m.results, i.nth, v) /\ n.reads = Append(m.reads, S)
       /\ MeantIn(n)
  BY <1>3, <1>7 DEF MeantIn
<1>15. AliveHere(n, z, k + 1)
  BY <1>6, <1>14 DEF AliveHere
<1>16. GivenHere(n, z, k + 1)
  BY <1>12 DEF GivenHere
<1>17. ResultsHere(n, z, k + 1)
  BY <1>11, <1>14 DEF ResultsHere, Filled
<1>18. Agree(n, z, k + 1)
  BY <1>3, <1>6, <1>11, <1>12, <1>13, <1>14, <1>15, <1>16, <1>17 DEF Agree, DoneSet, Filled
<1>. QED  BY <1>1, <1>2, <1>6, <1>14, <1>18 DEF StepsTo, DoneSet, i, c

\* what the callee is given
LEMMA AllGiven ==
  ASSUME BlockOK, NEW k \in Nat, k + 1 \in 1 .. NInsns, Src(k + 1).type = "call"
  PROVE  /\ Calls # {} /\ k + 1 = CallPos /\ Src(k + 1).out = None
         /\ NthOf("arg", NInsns) = NthOf("arg", k) /\ NthOf("arg", k + 1) = NthOf("arg", k)
         /\ NthOf("retarg", k + 1) = {} /\ NthOf("retarg", k) = {}
<1>1. Calls # {} /\ k + 1 = CallPos
  BY Around
<1>2. Src(k + 1).out = None
  <2>1. IsFormed(source[bi]) /\ k + 1 \in DOMAIN source[bi].insns
    BY Sequenced, BlockFacts DEF BlockOK
  <2>. QED  BY <2>1 DEF IsFormed, Src
<1>3. ASSUME NEW j \in 1 .. NInsns, Src(j).type = "arg" PROVE j \in 1 .. k
  <2>1. j < k + 1
    BY <1>1, <1>3, Around
  <2>. QED  BY <2>1, Sequenced
<1>4. \A j \in 1 .. k : j \in 1 .. NInsns
  BY Sequenced
<1>5. NthOf("arg", NInsns) = NthOf("arg", k)
  BY <1>3, <1>4 DEF NthOf
<1>6. NthOf("arg", k + 1) = NthOf("arg", k)
  BY NthGrows
<1>7. k \in 0 .. NInsns /\ k + 1 \in 0 .. NInsns
  BY Sequenced
<1>8. NthOf("retarg", k + 1) = {} /\ NthOf("retarg", k) = {}
  BY <1>1, <1>7, NoneOf
<1>. QED  BY <1>1, <1>2, <1>5, <1>6, <1>8

LEMMA StepCall ==
  ASSUME Clean, NEW k \in Nat, k + 1 \in 1 .. NInsns, NEW m, NEW s, Agree(m, s, k),
         Src(k + 1).type = "call"
  PROVE  StepsTo(m, s, Meant(m, Src(k + 1)),
                 Done(s, InRegisters(Ins(k + 1)), NthOf("arg", NInsns)), k)
<1>. DEFINE i == Src(k + 1)
            c == InRegisters(Ins(k + 1))
            G == NthOf("arg", NInsns)
<1>1. PICK n : n = Meant(m, i)
  OBVIOUS
<1>2. PICK z : z = Done(s, c, G)
  OBVIOUS
<1>3. /\ BlockOK /\ rmap \in [Tmps -> Registers] /\ MeantIn(m) /\ DoneIn(s) /\ m.reads = s.reads
      /\ DOMAIN m.given = NthOf("arg", k) /\ DOMAIN m.results = NthOf("retarg", k)
  BY DEF Clean, Agree
<1>4. /\ Calls # {} /\ k + 1 = CallPos /\ i.out = None /\ G = NthOf("arg", k)
      /\ NthOf("arg", k + 1) = NthOf("arg", k)
      /\ NthOf("retarg", k + 1) = {} /\ NthOf("retarg", k) = {}
  BY <1>3, AllGiven
<1>5. c.type = "call" /\ c.in = {rmap[v] : v \in i.in}
  BY AllocatedFacts
<1>6. ReadBy(s, c) = ReadBy(m, i)
  <2>1. Src(k + 1).type # "retval"
    OBVIOUS
  <2>. QED  BY <1>5, <2>1, OperandsHere
<1>7. \A p \in G : s.loc[nth_ar(p)] = m.given[p]
  <2>1. k < CallPos
    BY <1>4
  <2>. QED  BY <1>4, <2>1 DEF Agree, GivenHere
<1>. DEFINE S == ReadBy(m, i) \cup {<<"given", p, m.given[p]>> : p \in DOMAIN m.given}
            T == ReadBy(s, c) \cup {<<"given", p, s.loc[nth_ar(p)]>> : p \in G}
<1>8. S = T
  BY <1>3, <1>4, <1>6, <1>7
<1>. HIDE DEF c, G, i
<1>9. MeantSet(m, n, None, None, S)
  <2>1. i.type = "call"
    BY DEF i
  <2>. QED  BY <1>1, <1>3, <2>1, MeantCall
<1>10. z = [loc |-> [r \in Registers |-> AfterCallIn(s, r)], slot |-> s.slot, reads |-> Append(s.reads, T)]
  BY <1>2, <1>3, <1>5, DoneCall
<1>. HIDE DEF S, T
<1>11. \A t \in Tmps : n.loc[t] = m.loc[t]
  <2>1. None \notin Tmps
    BY RegisterFacts DEF Tmps
  <2>. QED  BY <1>9, <2>1 DEF MeantSet
<1>12. DoneIn(z) /\ z.slot = s.slot /\ z.reads = Append(s.reads, T)
       /\ \A r \in Registers : z.loc[r] = AfterCallIn(s, r)
  BY <1>10 DEF DoneIn
<1>13. AliveHere(n, z, k + 1)
  <2>. SUFFICES ASSUME NEW t \in Tmps, Here(t, k + 1) PROVE z.loc[rmap[t]] = m.loc[t]
    BY <1>11 DEF AliveHere
  <2>1. Start(t) <= k /\ Here(t, k)
    <3>1. t # Src(k + 1).out
      BY <1>4, RegisterFacts DEF Tmps, i
    <3>. QED  BY <3>1, StaysAlive
  <2>2. s.loc[rmap[t]] = m.loc[t]
    BY <2>1 DEF Agree, AliveHere
  <2>3. CallPos < End(t) /\ ~(Saved(t) /\ CallPos <= CallPos)
    BY <1>4 DEF Here
  <2>4. Start(t) < CallPos
    BY <1>3, <1>4, <2>1, Positions
  <2>5. CallPos <= CallPos
    BY <1>4
  <2>6. Preserved(rmap[t])
    BY <1>4, <2>3, <2>4, <2>5 DEF Saved, ToSave, LiveAcross
  <2>7. rmap[t] \in Registers
    BY <1>3
  <2>. QED  BY <1>12, <2>2, <2>6, <2>7 DEF AfterCallIn
<1>14. GivenHere(n, z, k + 1)
  BY <1>4 DEF GivenHere
<1>15. ResultsHere(n, z, k + 1)
  BY <1>4 DEF ResultsHere
<1>16. ReturnedHere(z, k + 1)
  <2>. SUFFICES ASSUME NEW j \in k + 1 + 1 .. NInsns, Src(j).type = "retval"
                PROVE  z.loc[nth_ar(Src(j).nth)] = <<"result", Src(j).nth>>
    BY DEF ReturnedHere
  <2>1. j \in 1 .. NInsns
    BY <1>3, Sequenced
  <2>2. PICK p : p = Src(j).nth
    OBVIOUS
  <2>3. PICK r : r = nth_ar(p)
    OBVIOUS
  <2>4. r \in Registers /\ IsArgReg(r) /\ Position(r) = p /\ ~Preserved(r)
    BY <1>3, <2>1, <2>2, <2>3, Places
  <2>. QED  BY <1>12, <2>2, <2>3, <2>4 DEF AfterCallIn
<1>17. MeantIn(n) /\ n.given = m.given /\ n.results = m.results /\ n.reads = Append(m.reads, S)
  BY <1>9 DEF MeantSet
<1>18. Agree(n, z, k + 1)
  BY <1>3, <1>4, <1>8, <1>12, <1>13, <1>14, <1>15, <1>16, <1>17 DEF Agree
<1>. QED  BY <1>1, <1>2, <1>11, <1>12, <1>18 DEF StepsTo, i, c, G

\* one instruction of the block, whichever it is
LEMMA Step ==
  ASSUME Clean, NEW k \in Nat, k + 1 \in 1 .. NInsns, NEW m, NEW s, Agree(m, s, k)
  PROVE  StepsTo(m, s, Meant(m, Src(k + 1)),
                 Done(s, InRegisters(Ins(k + 1)), NthOf("arg", NInsns)), k)
<1>1. Src(k + 1).type \in {"op", "call", "retval", "arg", "retarg"}
  <2>1. BlockOK /\ Src(k + 1).type # "param"
    BY DEF Clean
  <2>. QED  BY <2>1, Around
<1>. QED  BY <1>1, StepOp, StepCall, StepRetVal, StepArg, StepRetArg

\* the slots keep what was saved
LEMMA KeptOn ==
  ASSUME Clean, NEW k \in Nat, k + 1 \in 1 .. NInsns, Calls # {} => SetupAt <= k,
         NEW m, NEW s, NEW n, NEW z, Kept(m, s), StepsTo(m, s, n, z, k)
  PROVE  Kept(n, z)
<1>. SUFFICES ASSUME NEW t \in Tmps, Saved(t)
              PROVE  Index(t) \in DOMAIN z.slot /\ z.slot[Index(t)] = n.loc[t]
  BY DEF Kept
<1>1. BlockOK
  BY DEF Clean
<1>2. Calls # {}
  BY DEF Saved
<1>3. Start(t) <= SetupAt /\ SetupAt \in Nat
  BY <1>1, <1>2, SavedFacts, SetupFacts, CallStands, Sequenced
<1>4. Start(t) # k + 1 /\ Start(t) \in Nat
  BY <1>1, <1>2, <1>3, Positions
<1>5. t # Src(k + 1).out
  BY <1>1, <1>4, DefinedAt
<1>6. n.loc[t] = m.loc[t] /\ z.slot = s.slot
  BY <1>5 DEF StepsTo
<1>. QED  BY <1>6 DEF Kept

LEMMA NothingYet ==
  ASSUME NEW type
  PROVE  NthOf(type, 0) = {}
<1>1. 1 .. 0 = {}
  OBVIOUS
<1>. QED  BY <1>1 DEF NthOf

\* the block is entered
LEMMA Entry ==
  ASSUME Clean
  PROVE  Agree(MeantAtEntry, DoneAtEntry, 0)
<1>1. BlockOK /\ rmap \in [Tmps -> Registers]
  BY DEF Clean
<1>2. MeantIn(MeantAtEntry) /\ MeantAtEntry.reads = <<>>
  BY DEF MeantIn, MeantAtEntry
<1>3. DoneIn(DoneAtEntry) /\ DoneAtEntry.reads = <<>> /\ DoneAtEntry.loc = Entered
  <2>1. Entered = [r \in Registers |-> Entered[r]]
    BY DEF Entered
  <2>. QED  BY <2>1 DEF DoneIn, DoneAtEntry
<1>4. DOMAIN MeantAtEntry.given = {} /\ DOMAIN MeantAtEntry.results = {}
  BY DEF MeantAtEntry
<1>5. NthOf("arg", 0) = {} /\ NthOf("retarg", 0) = {}
  BY NothingYet
<1>6. AliveHere(MeantAtEntry, DoneAtEntry, 0)
  <2>. SUFFICES ASSUME NEW t \in Tmps, Here(t, 0) PROVE Entered[rmap[t]] = <<"entry", t>>
    BY <1>3 DEF AliveHere, MeantAtEntry
  <2>1. /\ IsLifetime(t) /\ Start(t) \in Nat /\ Start(t) <= 0 /\ 0 < End(t) /\ t \in Nat \ {0}
        /\ DOMAIN block.insns = 1 .. NInsns
    BY <1>1, LifetimeFacts, Positions, Sequenced DEF Here
  <2>2. block.params \in Nat /\ block.tmps \in Nat /\ block.params <= block.tmps
    BY <1>1, BlockFacts
  <2>3. t <= block.params
    <3>1. Start(t) \notin 1 .. NInsns
      BY <2>1
    <3>. QED  BY <2>1, <2>2, <3>1 DEF IsLifetime
  <2>4. t \in 1 .. block.params
    BY <2>1, <2>2, <2>3
  <2>5. ASSUME NEW u \in 1 .. block.params, rmap[u] = rmap[t] PROVE u = t
    <3>1. u \in Tmps /\ u <= block.params
      BY <2>2 DEF Tmps
    <3>2. IsLifetime(u)
      BY <1>1, <3>1, LifetimeFacts
    <3>3. Start(u) = 0 /\ End(u) > 0 /\ Start(t) = 0
      BY <2>1, <3>1, <3>2 DEF IsLifetime
    <3>4. Overlap(t, u)
      BY <2>1, <3>3 DEF Overlap
    <3>. QED  BY <2>5, <3>1, <3>4 DEF Clean
  <2>6. (CHOOSE u \in 1 .. block.params : rmap[u] = rmap[t]) = t
    BY <2>4, <2>5
  <2>7. rmap[t] \in Registers
    BY <1>1
  <2>8. PICK r \in Registers : r = rmap[t]
    BY <2>7
  <2>9. \E u \in 1 .. block.params : rmap[u] = r
    BY <2>4, <2>8
  <2>10. Entered[r] = <<"entry", CHOOSE u \in 1 .. block.params : rmap[u] = r>>
    BY <2>9 DEF Entered
  <2>. QED  BY <2>6, <2>8, <2>10
<1>7. ReturnedHere(DoneAtEntry, 0)
  <2>. SUFFICES ASSUME NEW j \in 1 .. NInsns, Src(j).type = "retval", CallPos <= 0 PROVE FALSE
    BY DEF ReturnedHere
  <2>1. Calls # {}
    BY <1>1, Around
  <2>2. CallPos \in 1 .. NInsns
    BY <1>1, <2>1, CallStands
  <2>. QED  BY <2>2
<1>. QED  BY <1>2, <1>3, <1>4, <1>5, <1>6, <1>7 DEF Agree, GivenHere, ResultsHere

-----------------------------------------------------------------------------
(* The saves before the call's setup, and the restores at the block's end.  *)

\* the temporaries of the first j slots are saved
SavedTo(m, s, j) ==
  /\ Agree(m, s, SetupAt)
  /\ \A t \in Tmps : Saved(t) /\ Index(t) < j =>
       Index(t) \in DOMAIN s.slot /\ s.slot[Index(t)] = m.loc[t]

LEMMA SaveStep ==
  ASSUME Clean, Calls # {}, NEW m, NEW s, NEW j \in Nat, SavedTo(m, s, j),
         NEW x, IsSlotOf(x, "save", j), NEW G
  PROVE  SavedTo(m, Done(s, x, G), j + 1)
<1>1. BlockOK /\ rmap \in [Tmps -> Registers] /\ Agree(m, s, SetupAt) /\ DoneIn(s)
  BY DEF Clean, SavedTo, Agree
<1>2. PICK t \in Tmps : ToSave(t) /\ Index(t) = j /\ x = Slot("save", rmap[t], j)
  BY DEF IsSlotOf
<1>3. Saved(t)
  BY <1>2 DEF Saved
<1>4. Here(t, SetupAt)
  <2>1. Start(t) <= SetupAt /\ CallPos < End(t) /\ End(t) \in Nat
    BY <1>1, <1>3, SavedFacts, Positions
  <2>2. CallPos \in 1 .. NInsns /\ SetupAt \in 0 .. CallPos - 1 /\ NInsns \in Nat
    BY <1>1, CallStands, SetupFacts, Sequenced
  <2>3. SetupAt < End(t) /\ ~(CallPos <= SetupAt)
    BY <2>1, <2>2
  <2>. QED  BY <2>1, <2>3 DEF Here
<1>5. PICK r \in Registers : r = rmap[t]
  BY <1>1
<1>6. s.loc[r] = m.loc[t]
  BY <1>1, <1>4, <1>5 DEF Agree, AliveHere
<1>7. PICK z : z = Done(s, x, G)
  OBVIOUS
<1>8. z = [loc |-> s.loc, slot |-> Put(s.slot, j, s.loc[r]), reads |-> s.reads]
  BY <1>1, <1>2, <1>5, <1>7, DoneSave
<1>9. z.loc = s.loc /\ z.reads = s.reads /\ z.slot = Put(s.slot, j, m.loc[t]) /\ DoneIn(z)
  BY <1>1, <1>6, <1>8 DEF DoneIn
<1>10. Agree(m, z, SetupAt)
  BY <1>1, <1>9 DEF Agree, AliveHere, GivenHere, ResultsHere, ReturnedHere
<1>11. ASSUME NEW u \in Tmps, Saved(u), Index(u) < j + 1
       PROVE  Index(u) \in DOMAIN z.slot /\ z.slot[Index(u)] = m.loc[u]
  <2>1. CASE Index(u) = j
    <3>1. u = t
      BY <1>1, <1>2, <1>3, <1>11, <2>1, SavedFacts
    <3>. QED  BY <1>9, <2>1, <3>1 DEF Put
  <2>2. CASE Index(u) # j
    <3>1. PICK q : q = Index(u)
      OBVIOUS
    <3>2. q \in 0 .. NSaved - 1
      BY <1>1, <1>11, <3>1, SavedFacts
    <3>3. q < j /\ q # j
      BY <1>11, <2>2, <3>1, <3>2
    <3>4. q \in DOMAIN s.slot /\ s.slot[q] = m.loc[u]
      BY <1>11, <3>1, <3>3 DEF SavedTo
    <3>. QED  BY <1>9, <3>1, <3>3, <3>4 DEF Put
  <2>. QED  BY <2>1, <2>2
<1>. QED  BY <1>7, <1>10, <1>11 DEF SavedTo

\* from s to z the temporaries of slot j and later are restored
Restored(m, s, z, j) ==
  /\ DoneIn(z) /\ z.slot = s.slot /\ z.reads = s.reads
  /\ \A t \in Tmps : Saved(t) /\ Index(t) >= j => z.loc[rmap[t]] = m.loc[t]
  /\ \A r \in Registers : (\A t \in Tmps : Saved(t) => rmap[t] # r) => z.loc[r] = s.loc[r]

LEMMA RestoreStep ==
  ASSUME Clean, Calls # {}, NEW m, NEW s, Kept(m, s), NEW j \in Nat, NEW z, Restored(m, s, z, j + 1),
         NEW x, IsSlotOf(x, "restore", j), NEW G
  PROVE  Restored(m, s, Done(z, x, G), j)
<1>1. BlockOK /\ rmap \in [Tmps -> Registers] /\ DoneIn(z) /\ z.slot = s.slot /\ z.reads = s.reads
  BY DEF Clean, Restored
<1>2. PICK t \in Tmps : ToSave(t) /\ Index(t) = j /\ x = Slot("restore", rmap[t], j)
  BY DEF IsSlotOf
<1>3. Saved(t)
  BY <1>2 DEF Saved
<1>4. j \in DOMAIN z.slot /\ z.slot[j] = m.loc[t]
  BY <1>1, <1>2, <1>3 DEF Kept
<1>5. PICK r \in Registers : r = rmap[t]
  BY <1>1
<1>6. PICK y : y = Done(z, x, G)
  OBVIOUS
<1>7. y = [loc |-> [q \in Registers |-> IF q = r THEN z.slot[j] ELSE z.loc[q]],
           slot |-> z.slot, reads |-> z.reads]
  BY <1>1, <1>2, <1>4, <1>5, <1>6, DoneRestore
<1>8. /\ DoneIn(y) /\ y.slot = s.slot /\ y.reads = s.reads
      /\ \A q \in Registers : y.loc[q] = IF q = r THEN m.loc[t] ELSE z.loc[q]
  BY <1>1, <1>4, <1>7 DEF DoneIn
<1>9. ASSUME NEW u \in Tmps, Saved(u), Index(u) >= j PROVE y.loc[rmap[u]] = m.loc[u]
  <2>1. rmap[u] \in Registers
    BY <1>1
  <2>2. CASE u = t
    BY <1>5, <1>8, <2>1, <2>2
  <2>3. CASE u # t
    <3>1. PICK q : q = Index(u)
      OBVIOUS
    <3>2. q \in 0 .. NSaved - 1 /\ q # j
      BY <1>1, <1>2, <1>3, <1>9, <2>3, <3>1, SavedFacts
    <3>3. q >= j + 1
      BY <1>9, <3>1, <3>2
    <3>4. z.loc[rmap[u]] = m.loc[u]
      BY <1>9, <3>1, <3>3 DEF Restored
    <3>5. rmap[u] # rmap[t]
      <4>1. Overlap(u, t)
        <5>1. LiveAcross(u) /\ LiveAcross(t)
          BY <1>3, <1>9 DEF Saved, ToSave
        <5>2. CallPos \in Nat /\ Start(u) \in Nat /\ End(u) \in Nat /\ Start(t) \in Nat /\ End(t) \in Nat
          BY <1>1, CallStands, Sequenced, Positions
        <5>. QED  BY <5>1, <5>2 DEF LiveAcross, Overlap
      <4>. QED  BY <2>3, <4>1 DEF Clean
    <3>. QED  BY <1>5, <1>8, <2>1, <3>4, <3>5
  <2>. QED  BY <2>2, <2>3
<1>10. ASSUME NEW q \in Registers, \A u \in Tmps : Saved(u) => rmap[u] # q PROVE y.loc[q] = s.loc[q]
  <2>1. q # r
    BY <1>3, <1>5, <1>10
  <2>2. z.loc[q] = s.loc[q]
    BY <1>10 DEF Restored
  <2>. QED  BY <1>8, <2>1, <2>2
<1>. QED  BY <1>6, <1>8, <1>9, <1>10 DEF Restored

\* instructions a + 1 to b, which stand off places later in the code
LEMMA Follow ==
  ASSUME Clean, NEW L \in Nat, NEW f, NEW g, MeantRun(f, NInsns), DoneRun(g, L, NthOf("arg", NInsns)),
         NEW a \in Nat, NEW b \in Nat, NEW off \in Nat, a <= b, b <= NInsns, b + off <= L,
         \A k \in a + 1 .. b : code[bi][k + off] = InRegisters(Ins(k)),
         Agree(f[a], g[a + off], a)
  PROVE  /\ Agree(f[b], g[b + off], b)
         /\ Kept(f[a], g[a + off]) /\ (Calls # {} => SetupAt <= a) => Kept(f[b], g[b + off])
<1>. DEFINE K == Kept(f[a], g[a + off]) /\ (Calls # {} => SetupAt <= a)
            P(k) == Agree(f[k], g[k + off], k) /\ (K => Kept(f[k], g[k + off]))
            Bad == {k \in Nat : a <= k /\ k <= b /\ ~P(k)}
<1>1. BlockOK /\ NInsns \in Nat /\ (Calls # {} => SetupAt \in Nat)
  <2>1. BlockOK /\ NInsns \in Nat
    BY Sequenced DEF Clean
  <2>2. Calls # {} => SetupAt \in Nat
    BY <2>1, SetupFacts, CallStands
  <2>. QED  BY <2>1, <2>2
<1>2. ASSUME Bad # {} PROVE FALSE
  <2>1. PICK k \in Bad : \A j \in Bad : k <= j
    <3>. HIDE DEF Bad
    <3>1. Bad \in SUBSET Nat
      BY DEF Bad
    <3>. QED  BY <1>2, <3>1, LeastOf
  <2>2. k # a
    <3>. SUFFICES ASSUME k = a PROVE FALSE
      OBVIOUS
    <3>1. P(a)
      OBVIOUS
    <3>. QED  BY <2>1, <3>1
  <2>3. k \in Nat /\ a <= k /\ k <= b /\ ~P(k)
    BY <2>1
  <2>. HIDE DEF P
  <2>4. PICK h \in Nat : k = h + 1
    <3>1. k - 1 \in Nat /\ k = (k - 1) + 1
      BY <2>2, <2>3
    <3>. QED  BY <3>1
  <2>5. a <= h /\ h <= b /\ ~(k <= h)
    BY <2>2, <2>3, <2>4
  <2>6. P(h)
    <3>. SUFFICES ASSUME ~P(h) PROVE FALSE
      OBVIOUS
    <3>1. h \in Bad
      BY <2>5
    <3>. HIDE DEF Bad
    <3>. QED  BY <2>1, <2>5, <3>1
  <2>7. h + 1 \in 1 .. NInsns /\ h + 1 \in a + 1 .. b /\ h + off \in Nat /\ h + 1 + off \in 1 .. L
        /\ h + 1 + off - 1 = h + off /\ h + 1 - 1 = h
    BY <1>1, <2>3, <2>4, <2>5
  <2>8. f[h + 1] = Meant(f[h], Src(h + 1))
    BY <2>7 DEF MeantRun
  <2>9. g[h + 1 + off] = Done(g[h + off], InRegisters(Ins(h + 1)), NthOf("arg", NInsns))
    <3>1. g[h + 1 + off] = Done(g[h + 1 + off - 1], code[bi][h + 1 + off], NthOf("arg", NInsns))
      BY <2>7 DEF DoneRun
    <3>2. code[bi][h + 1 + off] = InRegisters(Ins(h + 1))
      BY <2>7
    <3>. QED  BY <2>7, <3>1, <3>2
  <2>10. PICK m : m = f[h]
    OBVIOUS
  <2>11. PICK s : s = g[h + off]
    OBVIOUS
  <2>12. PICK n : n = f[h + 1]
    OBVIOUS
  <2>13. PICK z : z = g[h + 1 + off]
    OBVIOUS
  <2>14. Agree(m, s, h)
    BY <2>6, <2>10, <2>11 DEF P
  <2>15. StepsTo(m, s, n, z, h)
    <3>1. StepsTo(m, s, Meant(m, Src(h + 1)), Done(s, InRegisters(Ins(h + 1)), NthOf("arg", NInsns)), h)
      BY <2>7, <2>14, Step
    <3>. QED  BY <2>8, <2>9, <2>10, <2>11, <2>12, <2>13, <3>1
  <2>16. K => Kept(n, z)
    <3>. SUFFICES ASSUME K PROVE Kept(n, z)
      OBVIOUS
    <3>1. Kept(m, s)
      BY <2>6, <2>10, <2>11 DEF P
    <3>2. Calls # {} => SetupAt <= h
      BY <1>1, <2>5
    <3>3. h + 1 \in 1 .. NInsns
      BY <2>7
    <3>. QED  BY <2>15, <3>1, <3>2, <3>3, KeptOn
  <2>17. Agree(n, z, h + 1)
    BY <2>15 DEF StepsTo
  <2>18. P(h + 1)
    BY <2>12, <2>13, <2>16, <2>17 DEF P
  <2>. QED  BY <2>3, <2>4, <2>18
<1>3. P(b)
  <2>1. b \notin Bad
    <3>. HIDE DEF Bad
    <3>. QED  BY <1>2
  <2>. HIDE DEF P
  <2>. QED  BY <2>1
<1>. QED  BY <1>3

\* the saves stand right before the setup of the call
LEMMA Saves ==
  ASSUME Clean, Calls # {}, NEW L \in Nat, NEW m, NEW g, NEW G, DoneRun(g, L, G),
         NEW N \in Nat, SetupAt + N <= L, \A j \in 1 .. N : IsSlotOf(code[bi][SetupAt + j], "save", j - 1),
         Agree(m, g[SetupAt], SetupAt)
  PROVE  SavedTo(m, g[SetupAt + N], N)
<1>. DEFINE Bad == {j \in Nat : j <= N /\ ~SavedTo(m, g[SetupAt + j], j)}
<1>1. BlockOK /\ SetupAt \in Nat
  <2>1. BlockOK
    BY DEF Clean
  <2>. QED  BY <2>1, SetupFacts, CallStands
<1>2. SavedTo(m, g[SetupAt + 0], 0)
  <2>1. SetupAt + 0 = SetupAt
    BY <1>1
  <2>2. ASSUME NEW t \in Tmps, Saved(t) PROVE ~(Index(t) < 0)
    BY <1>1, <2>2, SavedFacts
  <2>. QED  BY <2>1, <2>2 DEF SavedTo
<1>3. ASSUME Bad # {} PROVE FALSE
  <2>1. PICK k \in Bad : \A j \in Bad : k <= j
    <3>. HIDE DEF Bad
    <3>1. Bad \in SUBSET Nat
      BY DEF Bad
    <3>. QED  BY <1>3, <3>1, LeastOf
  <2>2. k # 0
    BY <1>2, <2>1
  <2>3. k \in Nat /\ k <= N /\ ~SavedTo(m, g[SetupAt + k], k)
    BY <2>1
  <2>4. PICK h \in Nat : k = h + 1
    <3>1. k - 1 \in Nat /\ k = (k - 1) + 1
      BY <2>2, <2>3
    <3>. QED  BY <3>1
  <2>5. h <= N /\ ~(k <= h)
    BY <2>3, <2>4
  <2>6. SavedTo(m, g[SetupAt + h], h)
    <3>. SUFFICES ASSUME ~SavedTo(m, g[SetupAt + h], h) PROVE FALSE
      OBVIOUS
    <3>1. h \in Bad
      BY <2>5
    <3>. HIDE DEF Bad
    <3>. QED  BY <2>1, <2>5, <3>1
  <2>7. h + 1 \in 1 .. N /\ h + 1 - 1 = h /\ SetupAt + (h + 1) \in 1 .. L /\ SetupAt + (h + 1) - 1 = SetupAt + h
    BY <1>1, <2>3, <2>4
  <2>8. PICK x : x = code[bi][SetupAt + (h + 1)]
    OBVIOUS
  <2>9. IsSlotOf(x, "save", h)
    BY <2>7, <2>8
  <2>10. g[SetupAt + (h + 1)] = Done(g[SetupAt + h], x, G)
    <3>1. PICK i \in 1 .. L : i = SetupAt + (h + 1)
      BY <2>7
    <3>2. PICK p : p = SetupAt + h
      OBVIOUS
    <3>3. i - 1 = p
      BY <1>1, <3>1, <3>2
    <3>4. g[i] = Done(g[p], x, G)
      BY <2>8, <3>1, <3>3 DEF DoneRun
    <3>. QED  BY <3>1, <3>2, <3>4
  <2>11. SavedTo(m, Done(g[SetupAt + h], x, G), h + 1)
    BY <2>6, <2>9, SaveStep
  <2>. QED  BY <2>3, <2>4, <2>10, <2>11
<1>4. N \notin Bad
  <2>. HIDE DEF Bad
  <2>. QED  BY <1>3
<1>. QED  BY <1>4

\* the restores end the block, the last slot's first
LEMMA Restores ==
  ASSUME Clean, Calls # {}, NEW L \in Nat, NEW m, NEW g, NEW G, DoneRun(g, L, G),
         NEW N \in Nat, NEW e \in Nat, L = e + N, N = NSaved,
         \A j \in 1 .. N : IsSlotOf(code[bi][L + 1 - j], "restore", j - 1),
         DoneIn(g[e]), Kept(m, g[e])
  PROVE  Restored(m, g[e], g[L], 0)
<1>. DEFINE Ok(p) == Restored(m, g[e], g[e + p], N - p)
            Bad == {p \in Nat : p <= N /\ ~Ok(p)}
<1>1. BlockOK
  BY DEF Clean
<1>2. Ok(0)
  <2>1. e + 0 = e /\ N - 0 = N
    OBVIOUS
  <2>2. ASSUME NEW t \in Tmps, Saved(t) PROVE ~(Index(t) >= N)
    <3>1. Index(t) \in 0 .. NSaved - 1
      BY <1>1, <2>2, SavedFacts
    <3>. QED  BY <3>1
  <2>. QED  BY <2>1, <2>2 DEF Restored
<1>3. ASSUME Bad # {} PROVE FALSE
  <2>1. PICK k \in Bad : \A j \in Bad : k <= j
    <3>. HIDE DEF Bad
    <3>1. Bad \in SUBSET Nat
      BY DEF Bad
    <3>. QED  BY <1>3, <3>1, LeastOf
  <2>. HIDE DEF Ok
  <2>2. k # 0
    BY <1>2, <2>1
  <2>3. k \in Nat /\ k <= N /\ ~Ok(k)
    BY <2>1
  <2>4. PICK h \in Nat : k = h + 1
    <3>1. k - 1 \in Nat /\ k = (k - 1) + 1
      BY <2>2, <2>3
    <3>. QED  BY <3>1
  <2>5. h <= N /\ ~(k <= h)
    BY <2>3, <2>4
  <2>6. Ok(h)
    <3>. SUFFICES ASSUME ~Ok(h) PROVE FALSE
      OBVIOUS
    <3>1. h \in Bad
      BY <2>5
    <3>. HIDE DEF Bad
    <3>. QED  BY <2>1, <2>5, <3>1
  <2>7. PICK j \in Nat : N - h = j + 1
    <3>1. N - h - 1 \in Nat /\ N - h = (N - h - 1) + 1
      BY <2>3, <2>4
    <3>. QED  BY <3>1
  <2>8. /\ N - (h + 1) = j /\ j + 1 \in 1 .. N /\ j + 1 - 1 = j /\ e + (h + 1) \in 1 .. L
        /\ e + (h + 1) - 1 = e + h /\ L + 1 - (j + 1) = e + (h + 1)
    BY <2>3, <2>4, <2>7
  <2>9. PICK x : x = code[bi][e + (h + 1)]
    OBVIOUS
  <2>10. IsSlotOf(x, "restore", j)
    <3>1. IsSlotOf(code[bi][L + 1 - (j + 1)], "restore", j + 1 - 1)
      BY <2>8
    <3>. QED  BY <2>8, <2>9, <3>1
  <2>11. g[e + (h + 1)] = Done(g[e + h], x, G)
    <3>1. PICK i \in 1 .. L : i = e + (h + 1)
      BY <2>8
    <3>2. PICK p : p = e + h
      OBVIOUS
    <3>3. i - 1 = p
      BY <3>1, <3>2
    <3>4. g[i] = Done(g[p], x, G)
      BY <2>9, <3>1, <3>3 DEF DoneRun
    <3>. QED  BY <3>1, <3>2, <3>4
  <2>12. Restored(m, g[e], g[e + h], j + 1)
    BY <2>6, <2>7 DEF Ok
  <2>13. Restored(m, g[e], Done(g[e + h], x, G), j)
    BY <2>10, <2>12, RestoreStep
  <2>14. Ok(h + 1)
    BY <2>8, <2>11, <2>13 DEF Ok
  <2>. QED  BY <2>3, <2>4, <2>14
<1>4. N \notin Bad
  <2>. HIDE DEF Bad
  <2>. QED  BY <1>3
<1>5. N - N = 0 /\ e + N = L
  OBVIOUS
<1>. QED  BY <1>4, <1>5

-----------------------------------------------------------------------------
(* The whole block.                                                         *)

SameAtEnd(m, z) ==
  /\ m.reads = z.reads
  /\ \A t \in block.uses : m.loc[t] = z.loc[rmap[t]]
  /\ \A n \in DOMAIN m.results : m.results[n] = z.loc[nth_ar(n)]

LEMMA UsedAtEnd ==
  ASSUME BlockOK, NEW t \in block.uses
  PROVE  t \in Tmps /\ End(t) = EndPos /\ (~Saved(t) => Here(t, NInsns))
<1>1. t \in Tmps /\ NInsns \in Nat /\ EndPos = NInsns + 1
  BY BlockFacts, Sequenced
<1>2. IsLifetime(t)
  BY <1>1, LifetimeFacts
<1>3. End(t) = EndPos /\ Start(t) \in 0 .. EndPos - 1
  BY <1>2 DEF IsLifetime
<1>4. Start(t) <= NInsns /\ NInsns < End(t)
  BY <1>1, <1>3
<1>. QED  BY <1>1, <1>3, <1>4 DEF Here

LEMMA EndsWithout ==
  ASSUME Clean, Calls = {}, NEW m, NEW z, Agree(m, z, NInsns)
  PROVE  SameAtEnd(m, z)
<1>1. BlockOK
  BY DEF Clean
<1>2. ASSUME NEW t \in block.uses PROVE m.loc[t] = z.loc[rmap[t]]
  <2>1. t \in Tmps /\ Here(t, NInsns)
    BY <1>1, UsedAtEnd DEF Saved
  <2>. QED  BY <2>1 DEF Agree, AliveHere
<1>3. m.reads = z.reads /\ DOMAIN m.results = NthOf("retarg", NInsns) /\ ResultsHere(m, z, NInsns)
  BY DEF Agree
<1>. QED  BY <1>2, <1>3 DEF SameAtEnd, ResultsHere

LEMMA EndsWith ==
  ASSUME Clean, Calls # {}, NEW m, NEW s, NEW z, Agree(m, s, NInsns), Restored(m, s, z, 0)
  PROVE  SameAtEnd(m, z)
<1>1. BlockOK /\ NInsns \in Nat /\ rmap \in [Tmps -> Registers]
  BY Sequenced DEF Clean
<1>2. ASSUME NEW t \in block.uses PROVE m.loc[t] = z.loc[rmap[t]]
  <2>1. t \in Tmps /\ End(t) = EndPos /\ (~Saved(t) => Here(t, NInsns)) /\ EndPos \in Nat
    BY <1>1, UsedAtEnd, Sequenced
  <2>2. CASE Saved(t)
    <3>1. Index(t) >= 0
      BY <1>1, <2>1, <2>2, SavedFacts
    <3>. QED  BY <2>1, <2>2, <3>1 DEF Restored
  <2>3. CASE ~Saved(t)
    <3>1. s.loc[rmap[t]] = m.loc[t]
      BY <2>1, <2>3 DEF Agree, AliveHere
    <3>2. ASSUME NEW u \in Tmps, Saved(u) PROVE rmap[u] # rmap[t]
      <4>1. End(u) = EndPos
        BY <1>1, <3>2, SavedFacts
      <4>2. Start(u) < EndPos /\ Start(t) < EndPos
        <5>1. IsLifetime(u) /\ IsLifetime(t)
          BY <1>1, <2>1, LifetimeFacts
        <5>. QED  BY <2>1, <5>1 DEF IsLifetime
      <4>3. Overlap(u, t)
        BY <2>1, <4>1, <4>2 DEF Overlap
      <4>4. u # t
        BY <2>3, <3>2
      <4>. QED  BY <2>1, <4>3, <4>4 DEF Clean
    <3>3. rmap[t] \in Registers
      BY <1>1, <2>1
    <3>4. z.loc[rmap[t]] = s.loc[rmap[t]]
      BY <3>2, <3>3 DEF Restored
    <3>. QED  BY <3>1, <3>4
  <2>. QED  BY <2>2, <2>3
<1>3. m.reads = z.reads
  BY DEF Agree, Restored
<1>4. DOMAIN m.results = {}
  <2>1. NInsns \in 0 .. NInsns
    BY <1>1
  <2>. QED  BY <1>1, <2>1, NoneOf DEF Agree
<1>. QED  BY <1>2, <1>3, <1>4 DEF SameAtEnd

\* the two runs, f of what is meant and g of what is done
LEMMA RunsAgree ==
  ASSUME Clean, Laid(code[bi], NSaved, NSaved), NEW f, MeantRun(f, NInsns),
         NEW g, DoneRun(g, Len(code[bi]), NthOf("arg", NInsns))
  PROVE  DOMAIN f[NInsns].given = NthOf("arg", NInsns) /\ SameAtEnd(f[NInsns], g[Len(code[bi])])
<1>. DEFINE G == NthOf("arg", NInsns)
<1>1. PICK L : L = Len(code[bi])
  OBVIOUS
<1>2. PICK S : S = NSaved
  OBVIOUS
<1>3. BlockOK /\ NInsns \in Nat
  BY Sequenced DEF Clean
<1>4. S \in Nat /\ (Calls = {} => S = 0)
  <2>1. block.tmps \in Nat
    BY <1>3, BlockFacts
  <2>2. block.tmps \in 0 .. block.tmps
    BY <2>1
  <2>3. NSaves \in Nat
    BY <2>1, <2>2, SaveSets DEF NSaves
  <2>. QED  BY <1>2, <2>3 DEF NSaved
<1>5. /\ L = NInsns + S + S
      /\ \A k \in 1 .. NInsns : code[bi][Moved(k, S)] = InRegisters(Ins(k))
      /\ \A j \in 1 .. S : IsSlotOf(code[bi][SetupAt + j], "save", j - 1)
      /\ \A j \in 1 .. S : IsSlotOf(code[bi][L + 1 - j], "restore", j - 1)
  BY <1>1, <1>2 DEF Laid
<1>6. L \in Nat
  BY <1>3, <1>4, <1>5
<1>7. DoneRun(g, L, G)
  BY <1>1
<1>8. Agree(f[0], g[0], 0)
  BY <1>7, Entry DEF MeantRun, DoneRun
<1>9. CASE Calls = {}
  <2>1. S = 0 /\ L = NInsns
    BY <1>3, <1>4, <1>5, <1>9
  <2>2. ASSUME NEW k \in 0 + 1 .. NInsns PROVE code[bi][k + 0] = InRegisters(Ins(k))
    <3>1. k \in 1 .. NInsns /\ k + 0 = k
      BY <1>3
    <3>2. Moved(k, S) = k
      BY <2>1 DEF Moved
    <3>. QED  BY <1>5, <3>1, <3>2
  <2>3. 0 <= NInsns /\ NInsns <= NInsns /\ NInsns + 0 <= L /\ NInsns + 0 = L /\ 0 + 0 = 0
    BY <1>3, <2>1
  <2>4. Agree(f[0], g[0 + 0], 0)
    BY <1>8
  <2>5. Agree(f[NInsns], g[NInsns + 0], NInsns)
    BY <1>3, <1>6, <1>7, <2>2, <2>3, <2>4, Follow
  <2>6. Agree(f[NInsns], g[L], NInsns)
    BY <2>3, <2>5
  <2>7. SameAtEnd(f[NInsns], g[L])
    BY <1>9, <2>6, EndsWithout
  <2>. QED  BY <1>1, <2>6, <2>7 DEF Agree
<1>10. CASE Calls # {}
  <2>1. SetupAt \in Nat /\ SetupAt <= NInsns
    BY <1>3, <1>10, SetupFacts, CallStands
  <2>2. ASSUME NEW k \in 0 + 1 .. SetupAt PROVE code[bi][k + 0] = InRegisters(Ins(k))
    <3>1. k \in 1 .. NInsns /\ k + 0 = k /\ k <= SetupAt
      BY <1>3, <2>1
    <3>2. Moved(k, S) = k
      BY <3>1 DEF Moved
    <3>. QED  BY <1>5, <3>1, <3>2
  <2>3. 0 <= SetupAt /\ SetupAt + 0 <= L /\ SetupAt + 0 = SetupAt
    BY <1>3, <1>4, <1>5, <2>1
  <2>4. Agree(f[0], g[0 + 0], 0)
    BY <1>8
  <2>5. Agree(f[SetupAt], g[SetupAt + 0], SetupAt)
    BY <1>3, <1>6, <1>7, <2>1, <2>2, <2>3, <2>4, Follow
  <2>6. Agree(f[SetupAt], g[SetupAt], SetupAt)
    BY <2>3, <2>5
  <2>7. SetupAt + S <= L
    BY <1>3, <1>4, <1>5, <2>1
  <2>8. SavedTo(f[SetupAt], g[SetupAt + S], S)
    BY <1>4, <1>5, <1>6, <1>7, <1>10, <2>6, <2>7, Saves
  <2>9. Agree(f[SetupAt], g[SetupAt + S], SetupAt)
    BY <2>8 DEF SavedTo
  <2>10. Kept(f[SetupAt], g[SetupAt + S])
    <3>1. ASSUME NEW t \in Tmps, Saved(t) PROVE Index(t) < S
      BY <1>2, <1>3, <1>4, <3>1, SavedFacts
    <3>. QED  BY <2>8, <3>1 DEF SavedTo, Kept
  <2>11. ASSUME NEW k \in SetupAt + 1 .. NInsns PROVE code[bi][k + S] = InRegisters(Ins(k))
    <3>1. k \in 1 .. NInsns /\ ~(k <= SetupAt) /\ (S = 0 => k + S = k)
      BY <1>3, <1>4, <2>1
    <3>2. Moved(k, S) = k + S
      BY <3>1 DEF Moved
    <3>. QED  BY <1>5, <3>1, <3>2
  <2>12. NInsns <= NInsns /\ NInsns + S <= L /\ SetupAt <= SetupAt /\ NInsns + S \in Nat /\ L = (NInsns + S) + S
    BY <1>3, <1>4, <1>5, <2>1
  <2>13. Agree(f[NInsns], g[NInsns + S], NInsns) /\ Kept(f[NInsns], g[NInsns + S])
    BY <1>3, <1>4, <1>6, <1>7, <2>1, <2>9, <2>10, <2>11, <2>12, Follow
  <2>14. DoneIn(g[NInsns + S])
    BY <2>13 DEF Agree
  <2>15. Restored(f[NInsns], g[NInsns + S], g[L], 0)
    BY <1>2, <1>4, <1>5, <1>6, <1>7, <1>10, <2>12, <2>13, <2>14, Restores
  <2>16. SameAtEnd(f[NInsns], g[L])
    BY <1>10, <2>13, <2>15, EndsWith
  <2>. QED  BY <1>1, <2>13, <2>16 DEF Agree
<1>. QED  BY <1>9, <1>10

LEMMA MeaningHolds ==
  ASSUME ScanInv, CodeShape
  PROVE  SameMeaning
<1>. SUFFICES ASSUME Allocated, Unplaced \/ Roomy PROVE SameMeaning
  BY DEF SameMeaning
<1>1. Clean
  BY CleanWithoutPlaces, CleanWhenRoomy
<1>2. BlockOK /\ NInsns \in Nat /\ Len(source[bi].insns) = NInsns
  BY <1>1, BlockFacts, Sequenced DEF Clean, NInsns
<1>3. Laid(code[bi], NSaved, NSaved)
  BY DEF CodeShape, NSaved
<1>4. Len(code[bi]) \in Nat
  BY <1>3 DEF Laid
<1>5. PICK f : MeantRun(f, NInsns) /\ Meaning = f[NInsns]
  BY <1>2, MeaningIs
<1>6. PICK g : /\ DoneRun(g, Len(code[bi]), NthOf("arg", NInsns))
               /\ Performed(NthOf("arg", NInsns)) = g[Len(code[bi])]
  BY <1>4, PerformedIs
<1>7. DOMAIN Meaning.given = NthOf("arg", NInsns) /\ SameAtEnd(Meaning, Performed(NthOf("arg", NInsns)))
  BY <1>1, <1>3, <1>5, <1>6, RunsAgree
<1>. QED  BY <1>7 DEF SameMeaning, SameAtEnd

(* An allocated block does what the block means, in blocks that place       *)
(* nothing in an argument register and in those whose values there are t    *)
(* and s registers for: the registers build_rmap() chose, the moves of      *)
(* abi0() and the saves and restores of do_call_saves() together compute    *)
(* what the instructions computed on temporaries, for every function.       *)
THEOREM MeaningIsKept == Spec => []SameMeaning
<1>1. Init => ScanInv /\ CodeInv /\ CodeShape
  BY ScanInit, CodeInit, ShapeInit
<1>2. ScanInv /\ CodeInv /\ CodeShape /\ [Next]_vars => (ScanInv /\ CodeInv /\ CodeShape)'
  BY ScanNext, CodeNext, ShapeNext
<1>3. ScanInv /\ CodeInv /\ CodeShape => SameMeaning
  BY MeaningHolds
<1>. QED  BY <1>1, <1>2, <1>3, PTL DEF Spec
=============================================================================
