---------------------------- MODULE FrameProofs -----------------------------
(* Proofs about the frames of the generated code, for every program, stack  *)
(* size and number of registers: the saved registers of each activation     *)
(* stay in its frame, a function gives back what it was handed, and the     *)
(* code implements the calling convention of module Convention.             *)
EXTENDS Frame, TLAPS

Act == [fn : Fns, base : -StackSize .. 0, entry : [SRegs -> Values],
        saved : SUBSET Nat, locals : Nat]

D == Len(calls)

-----------------------------------------------------------------------------
(* The invariant: how activations lie on the stack, what is in the frame of *)
(* each, and what the registers hold while the top one runs.                *)

\* Holds, of memory m
HoldsIn(m, a, w) == \A k \in 0 .. 2 : a + k \in Addr /\ m[a + k] = <<w, k>>

\* CallerFp and CallerFn, of the activations cs
FpOf(cs, k) == IF k = 1 THEN 0 ELSE cs[k - 1].base
FnOf(cs, k) == IF k = 1 THEN Outside ELSE cs[k - 1].fn

\* where an activation ends, and where its frame does
FrameEnd(a) == a.base - frame_size(a.fn)
Bottom(a)   == FrameEnd(a) - a.locals

\* activations lie below each other, and hand on the s registers that they
\* do not save
Stack(cs) ==
  /\ cs \in Seq(Act)
  /\ \A k \in 1 .. Len(cs) : Bottom(cs[k]) >= -StackSize
  /\ \A k \in 1 .. Len(cs), l \in 1 .. Len(cs) : k < l => cs[l].base <= Bottom(cs[k])
  /\ \A k \in 1 .. Len(cs) - 1 :
       /\ cs[k + 1].base = Bottom(cs[k])
       /\ HasCalls[cs[k].fn]
       /\ \A j \in SRegs : j >= CalleeSave[cs[k].fn] => cs[k + 1].entry[j] = cs[k].entry[j]

\* the frame of activation k holds what its code has stored there when it is
\* at p, with n the register of its loops
InFrame(m, cs, k, p, n) ==
  /\ p # "store_fp" => HoldsIn(m, cs[k].base - fp_fploc, FpOf(cs, k))
  /\ p \notin {"store_fp", "set_fp", "store_ra"} /\ HasCalls[cs[k].fn] =>
       HoldsIn(m, cs[k].base - ra_fploc, FnOf(cs, k))
  /\ \A j \in 0 .. CalleeSave[cs[k].fn] - 1 :
       p \notin Prologue \/ (p = "store_s" /\ j < n) =>
         HoldsIn(m, cs[k].base - callee_save_fploc(j), cs[k].entry[j])
  /\ \A j \in cs[k].saved :
       /\ j \in 0 .. CallSave[cs[k].fn] - 1
       /\ \E v \in Values : HoldsIn(m, cs[k].base - call_save_fploc(cs[k].fn, j), v)

Registers ==
  /\ fn = Top.fn
  /\ fp = IF pc \in {"store_fp", "set_fp", "ret"} THEN FpOf(calls, D) ELSE Top.base
  /\ sp = IF pc \in {"store_fp", "set_fp", "store_ra", "reserve", "load_fp", "ret"}
          THEN Top.base ELSE Bottom(Top)
  /\ pc \in {"store_fp", "set_fp", "store_ra", "drop", "load_fp", "ret"} \/ ~HasCalls[fn] =>
       ra = FnOf(calls, D)
  /\ pc = "load_ra" => HasCalls[fn]
  /\ \A j \in SRegs :
       \/ pc \in Prologue \/ pc \in {"load_ra", "drop", "load_fp", "ret"}
       \/ pc \in {"body", "load_s"} /\ j >= CalleeSave[fn]
       \/ pc = "load_s" /\ j < i
       => s[j] = Top.entry[j]
  /\ pc \in Prologue => Top.saved = {} /\ Top.locals = 0

Inv ==
  /\ TypeOK
  /\ Stack(calls)
  /\ pc = "outside" => calls = <<>>
  /\ pc # "outside" =>
       /\ D >= 1
       /\ \A k \in 1 .. D - 1 : InFrame(mem, calls, k, "body", 0)
       /\ InFrame(mem, calls, D, pc, i)
       /\ Registers

-----------------------------------------------------------------------------
(* Memory.                                                                  *)

LEMMA Sizes ==
  /\ NS \in Nat /\ StackSize \in Nat /\ SRegs = 0 .. NS - 1
  /\ Addr = -StackSize .. -1
  /\ fp_fploc = 3 /\ ra_fploc = 6
BY FnsAssumption, StackAssumption DEF SRegs, Addr, fp_fploc, ra_fploc

LEMMA SizesOf ==
  ASSUME NEW f \in Fns
  PROVE  /\ CalleeSave[f] \in Nat /\ CalleeSave[f] <= NS /\ CallSave[f] \in Nat
         /\ frame_size(f) = 3 * CalleeSave[f] + 3 * CallSave[f] + 6
         /\ frame_size(f) \in Nat /\ 6 <= frame_size(f)
BY FnsAssumption DEF frame_size

\* where the s registers and the slots are in the frame
LEMMA CalleeSlot ==
  ASSUME NEW f \in Fns, NEW j \in 0 .. CalleeSave[f] - 1
  PROVE  /\ callee_save_fploc(j) = 3 * j + 9 /\ callee_save_fploc(j) \in Int
         /\ 9 <= callee_save_fploc(j) /\ callee_save_fploc(j) <= 3 * CalleeSave[f] + 6
         /\ callee_save_fploc(j) <= frame_size(f)
BY SizesOf DEF callee_save_fploc

LEMMA CallSlot ==
  ASSUME NEW f \in Fns, NEW j \in 0 .. CallSave[f] - 1
  PROVE  /\ call_save_fploc(f, j) = 3 * CalleeSave[f] + 3 * j + 9
         /\ call_save_fploc(f, j) \in Int
         /\ 9 <= call_save_fploc(f, j) /\ 3 * CalleeSave[f] + 9 <= call_save_fploc(f, j)
         /\ call_save_fploc(f, j) <= frame_size(f)
BY SizesOf DEF call_save_fploc

\* a stored word is there, and words apart from it are still there
LEMMA StoredFacts ==
  ASSUME mem \in [Addr -> Trytes],
         NEW a \in Int, -StackSize <= a, a + 2 <= -1, NEW w \in Words
  PROVE  /\ Stored(a, w) \in [Addr -> Trytes]
         /\ HoldsIn(Stored(a, w), a, w)
         /\ \A b \in Int : \A v : HoldsIn(mem, b, v) /\ (b + 2 < a \/ a + 2 < b)
                               => HoldsIn(Stored(a, w), b, v)
<1>. USE Sizes
<1>1. a .. a + 2 \subseteq Addr
  OBVIOUS
<1>2. Stored(a, w) \in [Addr -> Trytes]
  <2>1. ASSUME NEW x \in Addr, x \in a .. a + 2 PROVE <<w, x - a>> \in Trytes
    <3>1. x - a \in 0 .. 2
      BY <2>1
    <3>. QED  BY <3>1 DEF Trytes
  <2>. QED  BY <2>1 DEF Stored
<1>3. HoldsIn(Stored(a, w), a, w)
  <2>1. ASSUME NEW k \in 0 .. 2
        PROVE  a + k \in Addr /\ a + k \in a .. a + 2 /\ (a + k) - a = k
    OBVIOUS
  <2>. QED  BY <2>1 DEF Stored, HoldsIn
<1>4. ASSUME NEW b \in Int, NEW v, HoldsIn(mem, b, v), b + 2 < a \/ a + 2 < b
      PROVE  HoldsIn(Stored(a, w), b, v)
  <2>1. ASSUME NEW k \in 0 .. 2
        PROVE  b + k \in Addr /\ b + k \notin a .. a + 2 /\ mem[b + k] = <<v, k>>
    BY <1>4 DEF HoldsIn
  <2>. QED  BY <2>1 DEF Stored, HoldsIn
<1>. QED  BY <1>2, <1>3, <1>4

LEMMA LoadedFacts ==
  ASSUME NEW a \in Int, NEW w, HoldsIn(mem, a, w)
  PROVE  Loaded(a) = w
<1>1. a + 0 = a /\ a \in Addr /\ mem[a] = <<w, 0>>
  BY DEF HoldsIn
<1>2. mem[a][1] = w
  BY <1>1
<1>3. Holds(a, w)
  BY DEF HoldsIn, Holds
<1>. QED  BY <1>1, <1>2, <1>3 DEF Loaded

-----------------------------------------------------------------------------
(* The activations.                                                         *)

\* replacing the top activation leaves the others as they are
LEMMA TopReplaced ==
  ASSUME calls \in Seq(Act), D >= 1, NEW a \in Act
  PROVE  /\ Append(Below, a) \in Seq(Act)
         /\ Len(Append(Below, a)) = D
         /\ Append(Below, a)[D] = a
         /\ \A k \in 1 .. D - 1 : Append(Below, a)[k] = calls[k]
         /\ Below \in Seq(Act) /\ Len(Below) = D - 1
         /\ \A k \in 1 .. D - 1 : Below[k] = calls[k]
<1>1. D \in Nat /\ 1 \in 1 .. D /\ calls \in [1 .. D -> Act]
  BY DEF D
<1>2. /\ Below \in Seq(Act) /\ Len(Below) = D - 1
      /\ \A k \in 1 .. D - 1 : Below[k] = calls[k]
  BY <1>1 DEF Below, D
<1>. QED  BY <1>1, <1>2

\* what is in a frame stays there while the memory of the frame and what the
\* code knows of the activation are the same
LEMMA FrameKept ==
  ASSUME NEW m, NEW cs, NEW k \in Nat, NEW p, NEW n, NEW m2, NEW cs2,
         InFrame(m, cs, k, p, n), cs[k] \in Act,
         cs2[k].base = cs[k].base, cs2[k].fn = cs[k].fn, cs2[k].entry = cs[k].entry,
         cs2[k].saved = cs[k].saved,
         FpOf(cs2, k) = FpOf(cs, k), FnOf(cs2, k) = FnOf(cs, k),
         \A x \in Addr : FrameEnd(cs[k]) <= x /\ x < cs[k].base => m2[x] = m[x]
  PROVE  InFrame(m2, cs2, k, p, n)
<1>. DEFINE f == cs[k].fn
<1>1. f \in Fns /\ cs[k].base \in Int /\ cs[k].saved \subseteq Nat
  BY Sizes DEF Act
<1>2. ASSUME NEW o \in Int, 3 <= o, o <= frame_size(f), NEW w, HoldsIn(m, cs[k].base - o, w)
      PROVE  HoldsIn(m2, cs[k].base - o, w)
  <2>1. ASSUME NEW j \in 0 .. 2
        PROVE  (cs[k].base - o) + j \in Addr /\ m2[(cs[k].base - o) + j] = <<w, j>>
    <3>1. (cs[k].base - o) + j \in Addr /\ m[(cs[k].base - o) + j] = <<w, j>>
      BY <1>2 DEF HoldsIn
    <3>2. /\ FrameEnd(cs[k]) <= (cs[k].base - o) + j
          /\ (cs[k].base - o) + j < cs[k].base
      BY <1>1, <1>2, SizesOf DEF FrameEnd
    <3>. QED  BY <3>1, <3>2
  <2>. QED  BY <2>1 DEF HoldsIn
<1>3. /\ 3 <= fp_fploc /\ fp_fploc <= frame_size(f) /\ fp_fploc \in Int
      /\ 3 <= ra_fploc /\ ra_fploc <= frame_size(f) /\ ra_fploc \in Int
  BY <1>1, Sizes, SizesOf
<1>4. ASSUME NEW j \in 0 .. CalleeSave[f] - 1
      PROVE  /\ 3 <= callee_save_fploc(j) /\ callee_save_fploc(j) <= frame_size(f)
             /\ callee_save_fploc(j) \in Int
  BY <1>1, CalleeSlot
<1>5. ASSUME NEW j \in 0 .. CallSave[f] - 1
      PROVE  /\ 3 <= call_save_fploc(f, j) /\ call_save_fploc(f, j) <= frame_size(f)
             /\ call_save_fploc(f, j) \in Int
  BY <1>1, CallSlot
<1>6. p # "store_fp" => HoldsIn(m2, cs[k].base - fp_fploc, FpOf(cs2, k))
  BY <1>2, <1>3 DEF InFrame
<1>7. p \notin {"store_fp", "set_fp", "store_ra"} /\ HasCalls[f] =>
        HoldsIn(m2, cs[k].base - ra_fploc, FnOf(cs2, k))
  BY <1>2, <1>3 DEF InFrame
<1>8. ASSUME NEW j \in 0 .. CalleeSave[f] - 1, p \notin Prologue \/ (p = "store_s" /\ j < n)
      PROVE  HoldsIn(m2, cs[k].base - callee_save_fploc(j), cs[k].entry[j])
  <2>1. HoldsIn(m, cs[k].base - callee_save_fploc(j), cs[k].entry[j])
    BY <1>8 DEF InFrame
  <2>. QED  BY <1>2, <1>4, <2>1
<1>9. ASSUME NEW j \in cs[k].saved
      PROVE  /\ j \in 0 .. CallSave[f] - 1
             /\ \E v \in Values : HoldsIn(m2, cs[k].base - call_save_fploc(f, j), v)
  <2>1. j \in 0 .. CallSave[f] - 1
    BY DEF InFrame
  <2>2. PICK v \in Values : HoldsIn(m, cs[k].base - call_save_fploc(f, j), v)
    BY DEF InFrame
  <2>. QED  BY <1>2, <1>5, <2>1, <2>2
<1>. QED  BY <1>6, <1>7, <1>8, <1>9 DEF InFrame
-----------------------------------------------------------------------------
(* The steps.                                                               *)

LEMMA TopFacts ==
  ASSUME Inv, pc # "outside"
  PROVE  /\ D \in Nat /\ D >= 1 /\ calls \in Seq(Act) /\ Top = calls[D] /\ Top \in Act
         /\ Top.fn \in Fns /\ fn = Top.fn /\ Top.entry \in [SRegs -> Values]
         /\ Top.base \in Int /\ Top.base <= 0 /\ Top.locals \in Nat
         /\ FrameEnd(Top) = Top.base - frame_size(fn)
         /\ Bottom(Top) = FrameEnd(Top) - Top.locals
         /\ Bottom(Top) \in -StackSize .. 0
         /\ FpOf(calls, D) \in -StackSize .. 0
         /\ FnOf(calls, D) \in Fns \cup {Outside}
<1>1. /\ D \in Nat /\ D >= 1 /\ calls \in Seq(Act) /\ fn = Top.fn
      /\ \A k \in 1 .. D : Bottom(calls[k]) >= -StackSize
  <2>1. calls \in Seq(Act) /\ \A k \in 1 .. D : Bottom(calls[k]) >= -StackSize
    BY DEF Inv, Stack, D
  <2>2. D >= 1 /\ Registers
    BY DEF Inv
  <2>3. fn = Top.fn
    BY <2>2 DEF Registers
  <2>. QED  BY <2>1, <2>2, <2>3 DEF D
<1>2. Top = calls[D] /\ \A k \in 1 .. D : calls[k] \in Act
  BY <1>1 DEF Top, D
<1>3. /\ Top \in Act /\ Top.fn \in Fns /\ Top.base \in Int /\ Top.base <= 0 /\ Top.locals \in Nat
      /\ Top.entry \in [SRegs -> Values] /\ Top.base \in -StackSize .. 0
  BY <1>1, <1>2, Sizes DEF Act
<1>4. /\ FrameEnd(Top) = Top.base - frame_size(fn)
      /\ Bottom(Top) = FrameEnd(Top) - Top.locals
      /\ frame_size(fn) \in Nat
  BY <1>1, <1>3, SizesOf DEF FrameEnd, Bottom
<1>5. Bottom(Top) \in -StackSize .. 0
  BY <1>1, <1>2, <1>3, <1>4, Sizes
<1>6. FpOf(calls, D) \in -StackSize .. 0 /\ FnOf(calls, D) \in Fns \cup {Outside}
  <2>1. CASE D = 1
    BY <2>1, Sizes DEF FpOf, FnOf
  <2>2. CASE D # 1
    <3>1. calls[D - 1] \in Act
      BY <1>1, <1>2, <2>2
    <3>. QED  BY <2>2, <3>1 DEF FpOf, FnOf, Act
  <2>. QED  BY <2>1, <2>2
<1>. QED  BY <1>1, <1>2, <1>3, <1>4, <1>5, <1>6

\* the types of the registers
LEMMA RegisterTypes ==
  ASSUME Inv
  PROVE  /\ i \in Nat /\ i <= NS /\ NS \in Nat /\ 0 \in 0 .. NS
         /\ s \in [SRegs -> Values] /\ mem \in [Addr -> Trytes]
         /\ sp \in Int /\ fp \in Int
BY FnsAssumption, StackAssumption DEF Inv, TypeOK

\* the frames below the top one are out of reach of a write into it
LEMMA LowerKept ==
  ASSUME Inv, pc # "outside", NEW m, NEW cs,
         \A k \in 1 .. D - 1 : cs[k] = calls[k],
         \A x \in Addr : Top.base <= x => m[x] = mem[x]
  PROVE  \A k \in 1 .. D - 1 : InFrame(m, cs, k, "body", 0)
<1>. SUFFICES ASSUME NEW k \in 1 .. D - 1 PROVE InFrame(m, cs, k, "body", 0)
  OBVIOUS
<1>1. /\ D \in Nat /\ calls \in Seq(Act) /\ Top = calls[D] /\ Top.base \in Int
      /\ k \in 1 .. D /\ D \in 1 .. D /\ k < D /\ k \in Nat
  BY TopFacts
<1>2. calls[k] \in Act /\ InFrame(mem, calls, k, "body", 0)
  BY <1>1 DEF Inv, D
<1>3. Top.base <= Bottom(calls[k])
  BY <1>1 DEF Inv, Stack, D
<1>4. /\ Bottom(calls[k]) = FrameEnd(calls[k]) - calls[k].locals
      /\ calls[k].locals \in Nat /\ FrameEnd(calls[k]) \in Int
  <2>1. frame_size(calls[k].fn) \in Nat /\ calls[k].base \in Int /\ calls[k].locals \in Nat
    BY <1>2, SizesOf, Sizes DEF Act
  <2>. QED  BY <2>1 DEF Bottom, FrameEnd
<1>5. \A x \in Addr : FrameEnd(calls[k]) <= x => m[x] = mem[x]
  <2>. SUFFICES ASSUME NEW x \in Addr, FrameEnd(calls[k]) <= x PROVE m[x] = mem[x]
    OBVIOUS
  <2>1. x \in Int
    BY Sizes
  <2>2. Top.base <= FrameEnd(calls[k])
    BY <1>1, <1>3, <1>4
  <2>3. Top.base <= x
    BY <1>1, <1>4, <2>1, <2>2
  <2>. QED  BY <2>3
<1>6. FpOf(cs, k) = FpOf(calls, k) /\ FnOf(cs, k) = FnOf(calls, k)
  <2>1. CASE k = 1
    BY <2>1 DEF FpOf, FnOf
  <2>2. CASE k # 1
    <3>1. cs[k - 1] = calls[k - 1]
      BY <1>1, <2>2
    <3>. QED  BY <2>2, <3>1 DEF FpOf, FnOf
  <2>. QED  BY <2>1, <2>2
<1>7. cs[k] = calls[k]
  OBVIOUS
<1>. QED  BY <1>1, <1>2, <1>5, <1>6, <1>7, FrameKept

\* the frame of the top activation is as its code has left it at p
LEMMA SameFrames ==
  ASSUME Inv, pc # "outside", pc' # "outside", calls' = calls, mem' = mem,
         TypeOK', Registers', InFrame(mem, calls, D, pc', i')
  PROVE  Inv'
BY DEF Inv, D

LEMMA SetFpInv == ASSUME Inv, SetFp PROVE Inv'
<1>1. /\ pc = "set_fp" /\ fp' = sp /\ pc' = (IF HasCalls[fn] THEN "store_ra" ELSE "reserve")
      /\ fn' = fn /\ i' = i /\ sp' = sp /\ ra' = ra /\ s' = s /\ t' = t /\ mem' = mem /\ calls' = calls
  BY DEF SetFp
<1>2. TypeOK'
  BY <1>1 DEF Inv, TypeOK, Prologue
<1>3. Registers'
  BY <1>1 DEF Inv, Registers, Top, D, Prologue, Bottom, FrameEnd
<1>4. InFrame(mem, calls, D, pc', i')
  <2>1. InFrame(mem, calls, D, pc, i) /\ fn = calls[D].fn
    BY <1>1, TopFacts DEF Inv
  <2>. QED  BY <1>1, <2>1 DEF InFrame, Prologue
<1>. QED  BY <1>1, <1>2, <1>3, <1>4, SameFrames

LEMMA ReserveInv == ASSUME Inv, Reserve PROVE Inv'
<1>1. /\ pc = "reserve" /\ sp' = sp - frame_size(fn) /\ i' = 0 /\ pc' = "store_s"
      /\ fn' = fn /\ fp' = fp /\ ra' = ra /\ s' = s /\ t' = t /\ mem' = mem /\ calls' = calls
  BY DEF Reserve
<1>2. Registers'
  <2>1. Registers /\ Top' = Top
    BY <1>1 DEF Inv, Top
  <2>2. sp = Top.base /\ Top.locals = 0
    BY <1>1, <2>1 DEF Registers, Prologue
  <2>3. Bottom(Top) = sp - frame_size(fn)
    BY <1>1, <2>2, TopFacts, SizesOf
  <2>. QED  BY <1>1, <2>1, <2>3 DEF Registers, D, Prologue, Bottom, FrameEnd
<1>3. TypeOK'
  <2>1. sp' = Bottom(Top)
    BY <1>1, <1>2 DEF Registers, Top, Bottom, FrameEnd
  <2>2. sp' \in -StackSize .. 0
    BY <1>1, <2>1, TopFacts
  <2>. QED  BY <1>1, <2>2, RegisterTypes DEF Inv, TypeOK, Prologue
<1>4. InFrame(mem, calls, D, pc', i')
  <2>1. InFrame(mem, calls, D, pc, i) /\ \A j \in 0 .. CalleeSave[calls[D].fn] - 1 : ~(j < 0)
    BY <1>1, TopFacts, SizesOf DEF Inv
  <2>. QED  BY <1>1, <2>1 DEF InFrame, Prologue
<1>. QED  BY <1>1, <1>2, <1>3, <1>4, SameFrames

LEMMA EndStoresInv == ASSUME Inv, EndStores PROVE Inv'
<1>1. /\ pc = "store_s" /\ i >= CalleeSave[fn] /\ pc' = "body"
      /\ fn' = fn /\ i' = i /\ sp' = sp /\ fp' = fp /\ ra' = ra /\ s' = s /\ t' = t
      /\ mem' = mem /\ calls' = calls
  BY DEF EndStores
<1>2. TypeOK'
  BY <1>1 DEF Inv, TypeOK, Prologue
<1>3. Registers'
  BY <1>1 DEF Inv, Registers, Top, D, Prologue, Bottom, FrameEnd
<1>4. InFrame(mem, calls, D, pc', i')
  <2>1. /\ InFrame(mem, calls, D, pc, i) /\ fn = calls[D].fn
        /\ CalleeSave[fn] \in Nat /\ i \in Nat
    BY <1>1, TopFacts, SizesOf, RegisterTypes DEF Inv
  <2>2. \A j \in 0 .. CalleeSave[calls[D].fn] - 1 : j < i
    BY <1>1, <2>1
  <2>. QED  BY <1>1, <2>1, <2>2 DEF InFrame, Prologue
<1>. QED  BY <1>1, <1>2, <1>3, <1>4, SameFrames

LEMMA ComputeInv == ASSUME Inv, Compute PROVE Inv'
<1>1. /\ pc = "body" /\ pc' = pc
      /\ fn' = fn /\ i' = i /\ sp' = sp /\ fp' = fp /\ ra' = ra /\ t' = t
      /\ mem' = mem /\ calls' = calls
  BY DEF Compute
<1>2. PICK k \in SRegs, v \in Data : k < CalleeSave[fn] /\ s' = [s EXCEPT ![k] = v]
  BY DEF Compute
<1>3. /\ s' \in [SRegs -> Values]
      /\ \A j \in SRegs : j >= CalleeSave[fn] => s'[j] = s[j]
  <2>1. s \in [SRegs -> Values] /\ CalleeSave[fn] \in Nat
    BY <1>1, TopFacts, SizesOf DEF Inv, TypeOK
  <2>. QED  BY <1>2, <2>1, Sizes DEF Values
<1>4. TypeOK'
  BY <1>1, <1>3 DEF Inv, TypeOK
<1>5. Registers'
  BY <1>1, <1>3 DEF Inv, Registers, Top, D, Prologue, Bottom, FrameEnd
<1>. QED  BY <1>1, <1>4, <1>5, SameFrames DEF Inv

LEMMA ComputeTempInv == ASSUME Inv, ComputeTemp PROVE Inv'
<1>1. /\ pc = "body" /\ pc' = pc /\ t' \in Data
      /\ fn' = fn /\ i' = i /\ sp' = sp /\ fp' = fp /\ ra' = ra /\ s' = s
      /\ mem' = mem /\ calls' = calls
  BY DEF ComputeTemp
<1>2. TypeOK'
  BY <1>1 DEF Inv, TypeOK, Values
<1>3. Registers'
  BY <1>1 DEF Inv, Registers, Top, D, Prologue, Bottom, FrameEnd
<1>. QED  BY <1>1, <1>2, <1>3, SameFrames DEF Inv

\* a word of the frame of the top activation
LEMMA HeldIsLoaded ==
  ASSUME Inv, pc # "outside", NEW o \in Int, NEW w, HoldsIn(mem, Top.base - o, w), fp = Top.base
  PROVE  Loaded(fp - o) = w
BY TopFacts, LoadedFacts

LEMMA RestoreInv == ASSUME Inv, Restore PROVE Inv'
<1>1. /\ pc = "body" /\ pc' = pc
      /\ fn' = fn /\ i' = i /\ sp' = sp /\ fp' = fp /\ ra' = ra /\ s' = s
      /\ mem' = mem /\ calls' = calls
  BY DEF Restore
<1>2. PICK k \in Top.saved : t' = Loaded(fp - call_save_fploc(fn, k))
  BY DEF Restore
<1>3. t' \in Values
  <2>1. /\ Top = calls[D] /\ InFrame(mem, calls, D, pc, i) /\ fp = Top.base
        /\ fn = Top.fn /\ fn \in Fns
    BY <1>1, TopFacts DEF Inv, Registers
  <2>2. PICK v \in Values : HoldsIn(mem, Top.base - call_save_fploc(fn, k), v)
    BY <2>1 DEF InFrame
  <2>3. call_save_fploc(fn, k) \in Int
    BY <2>1, CallSlot DEF InFrame
  <2>. QED  BY <1>1, <1>2, <2>1, <2>2, <2>3, HeldIsLoaded
<1>4. TypeOK'
  BY <1>1, <1>3 DEF Inv, TypeOK
<1>5. Registers'
  BY <1>1 DEF Inv, Registers, Top, D, Prologue, Bottom, FrameEnd
<1>. QED  BY <1>1, <1>4, <1>5, SameFrames DEF Inv

LEMMA LeaveInv == ASSUME Inv, Leave PROVE Inv'
<1>1. /\ pc = "body" /\ pc' = "load_s" /\ i' = 0
      /\ fn' = fn /\ sp' = sp /\ fp' = fp /\ ra' = ra /\ s' = s /\ t' = t
      /\ mem' = mem /\ calls' = calls
  BY DEF Leave
<1>2. TypeOK'
  BY <1>1, RegisterTypes DEF Inv, TypeOK, Epilogue
<1>3. Registers'
  <2>1. \A j \in SRegs : ~(j < i')
    BY <1>1, FnsAssumption DEF SRegs
  <2>. QED  BY <1>1, <2>1 DEF Inv, Registers, Top, D, Prologue, Bottom, FrameEnd
<1>4. InFrame(mem, calls, D, pc', i')
  <2>1. InFrame(mem, calls, D, pc, i)
    BY <1>1 DEF Inv
  <2>. QED  BY <1>1, <2>1 DEF InFrame, Prologue
<1>. QED  BY <1>1, <1>2, <1>3, <1>4, SameFrames

LEMMA LoadSInv == ASSUME Inv, LoadS PROVE Inv'
<1>1. /\ pc = "load_s" /\ pc' = pc /\ i < CalleeSave[fn] /\ i' = i + 1
      /\ s' = [s EXCEPT ![i] = Loaded(fp - callee_save_fploc(i))]
      /\ fn' = fn /\ sp' = sp /\ fp' = fp /\ ra' = ra /\ t' = t
      /\ mem' = mem /\ calls' = calls
  BY DEF LoadS
<1>2. /\ fn \in Fns /\ fn = Top.fn /\ Top = calls[D] /\ fp = Top.base
      /\ InFrame(mem, calls, D, pc, i) /\ i \in Nat
      /\ CalleeSave[fn] \in Nat /\ CalleeSave[fn] <= NS /\ NS \in Nat
      /\ s \in [SRegs -> Values] /\ Top.entry \in [SRegs -> Values] /\ SRegs = 0 .. NS - 1
  <2>1. Registers /\ InFrame(mem, calls, D, pc, i)
    BY <1>1 DEF Inv
  <2>2. fp = Top.base
    BY <1>1, <2>1 DEF Registers
  <2>. QED  BY <1>1, <2>1, <2>2, TopFacts, SizesOf, RegisterTypes DEF SRegs
<1>3. i \in 0 .. CalleeSave[fn] - 1 /\ i \in SRegs
  BY <1>1, <1>2
<1>4. Loaded(fp - callee_save_fploc(i)) = Top.entry[i]
  <2>1. HoldsIn(mem, Top.base - callee_save_fploc(i), Top.entry[i])
    BY <1>1, <1>2, <1>3 DEF InFrame, Prologue
  <2>2. callee_save_fploc(i) \in Int
    BY <1>2, <1>3, CalleeSlot
  <2>. QED  BY <1>1, <1>2, <2>1, <2>2, HeldIsLoaded
<1>5. s' = [s EXCEPT ![i] = Top.entry[i]] /\ s' \in [SRegs -> Values]
  BY <1>1, <1>2, <1>3, <1>4
<1>6. TypeOK'
  <2>1. i' \in 0 .. NS
    BY <1>1, <1>2
  <2>. QED  BY <1>1, <1>5, <2>1 DEF Inv, TypeOK
<1>7. Registers'
  <2>1. \A j \in SRegs : j >= CalleeSave[fn] \/ j < i + 1 => s'[j] = Top.entry[j]
    <3>1. \A j \in SRegs : j >= CalleeSave[fn] \/ j < i => s[j] = Top.entry[j]
      BY <1>1 DEF Inv, Registers
    <3>. QED  BY <1>2, <1>3, <1>5, <3>1
  <2>. QED  BY <1>1, <2>1 DEF Inv, Registers, Top, D, Prologue, Bottom, FrameEnd
<1>8. InFrame(mem, calls, D, pc', i')
  BY <1>1, <1>2 DEF InFrame, Prologue
<1>. QED  BY <1>1, <1>6, <1>7, <1>8, SameFrames

LEMMA EndLoadsInv == ASSUME Inv, EndLoads PROVE Inv'
<1>1. /\ pc = "load_s" /\ i >= CalleeSave[fn]
      /\ pc' = (IF HasCalls[fn] THEN "load_ra" ELSE "drop")
      /\ fn' = fn /\ i' = i /\ sp' = sp /\ fp' = fp /\ ra' = ra /\ s' = s /\ t' = t
      /\ mem' = mem /\ calls' = calls
  BY DEF EndLoads
<1>2. TypeOK'
  BY <1>1 DEF Inv, TypeOK, Epilogue
<1>3. Registers'
  <2>1. Registers /\ i \in Nat /\ CalleeSave[fn] \in Nat /\ NS \in Nat
    BY <1>1, TopFacts, SizesOf, RegisterTypes DEF Inv
  <2>2. \A j \in SRegs : j >= CalleeSave[fn] \/ j < i
    BY <1>1, <2>1 DEF SRegs
  <2>3. \A j \in SRegs : s[j] = Top.entry[j]
    BY <1>1, <2>1, <2>2 DEF Registers
  <2>. QED  BY <1>1, <2>1, <2>3 DEF Registers, Top, D, Prologue, Bottom, FrameEnd
<1>4. InFrame(mem, calls, D, pc', i')
  <2>1. InFrame(mem, calls, D, pc, i)
    BY <1>1 DEF Inv
  <2>. QED  BY <1>1, <2>1 DEF InFrame, Prologue
<1>. QED  BY <1>1, <1>2, <1>3, <1>4, SameFrames

LEMMA LoadRaInv == ASSUME Inv, LoadRa PROVE Inv'
<1>1. /\ pc = "load_ra" /\ ra' = Loaded(fp - ra_fploc) /\ pc' = "drop"
      /\ fn' = fn /\ i' = i /\ sp' = sp /\ fp' = fp /\ s' = s /\ t' = t
      /\ mem' = mem /\ calls' = calls
  BY DEF LoadRa
<1>2. Registers /\ fp = Top.base /\ Top = calls[D] /\ fn = Top.fn
  BY <1>1, TopFacts DEF Inv, Registers
<1>3. ra' = FnOf(calls, D)
  <2>1. HasCalls[fn]
    BY <1>1, <1>2 DEF Registers
  <2>2. HoldsIn(mem, Top.base - ra_fploc, FnOf(calls, D))
    BY <1>1, <1>2, <2>1 DEF Inv, InFrame
  <2>3. ra_fploc \in Int
    BY Sizes
  <2>. QED  BY <1>1, <1>2, <2>2, <2>3, HeldIsLoaded
<1>4. TypeOK'
  BY <1>1, <1>3, TopFacts DEF Inv, TypeOK, Epilogue
<1>5. Registers'
  BY <1>1, <1>2, <1>3 DEF Registers, Top, D, Prologue, Bottom, FrameEnd
<1>6. InFrame(mem, calls, D, pc', i')
  <2>1. InFrame(mem, calls, D, pc, i)
    BY <1>1 DEF Inv
  <2>. QED  BY <1>1, <2>1 DEF InFrame, Prologue
<1>. QED  BY <1>1, <1>4, <1>5, <1>6, SameFrames

LEMMA DropInv == ASSUME Inv, Drop PROVE Inv'
<1>1. /\ pc = "drop" /\ sp' = fp /\ pc' = "load_fp"
      /\ fn' = fn /\ i' = i /\ fp' = fp /\ ra' = ra /\ s' = s /\ t' = t
      /\ mem' = mem /\ calls' = calls
  BY DEF Drop
<1>2. TypeOK'
  BY <1>1 DEF Inv, TypeOK, Epilogue
<1>3. Registers'
  BY <1>1 DEF Inv, Registers, Top, D, Prologue, Bottom, FrameEnd
<1>4. InFrame(mem, calls, D, pc', i')
  <2>1. InFrame(mem, calls, D, pc, i)
    BY <1>1 DEF Inv
  <2>. QED  BY <1>1, <2>1 DEF InFrame, Prologue
<1>. QED  BY <1>1, <1>2, <1>3, <1>4, SameFrames

LEMMA LoadFpInv == ASSUME Inv, LoadFp PROVE Inv'
<1>1. /\ pc = "load_fp" /\ fp' = Loaded(fp - fp_fploc) /\ pc' = "ret"
      /\ fn' = fn /\ i' = i /\ sp' = sp /\ ra' = ra /\ s' = s /\ t' = t
      /\ mem' = mem /\ calls' = calls
  BY DEF LoadFp
<1>2. Registers /\ fp = Top.base /\ Top = calls[D] /\ fn = Top.fn
  BY <1>1, TopFacts DEF Inv, Registers
<1>3. fp' = FpOf(calls, D)
  <2>1. HoldsIn(mem, Top.base - fp_fploc, FpOf(calls, D))
    BY <1>1, <1>2 DEF Inv, InFrame
  <2>2. fp_fploc \in Int
    BY Sizes
  <2>. QED  BY <1>1, <1>2, <2>1, <2>2, HeldIsLoaded
<1>4. TypeOK'
  BY <1>1, <1>3, TopFacts DEF Inv, TypeOK, Epilogue
<1>5. Registers'
  BY <1>1, <1>2, <1>3 DEF Registers, Top, D, Prologue, Bottom, FrameEnd
<1>6. InFrame(mem, calls, D, pc', i')
  <2>1. InFrame(mem, calls, D, pc, i)
    BY <1>1 DEF Inv
  <2>. QED  BY <1>1, <2>1 DEF InFrame, Prologue
<1>. QED  BY <1>1, <1>4, <1>5, <1>6, SameFrames

-----------------------------------------------------------------------------
(* The steps that write to the frame.                                       *)

\* a word is stored in the frame of the top activation, o trytes below base
StoredIn(m, o, w) ==
  /\ m \in [Addr -> Trytes]
  /\ HoldsIn(m, Top.base - o, w)
  /\ \A x \in Addr : Top.base <= x => m[x] = mem[x]
  /\ \A p \in Int : \A v : HoldsIn(mem, Top.base - p, v) /\ (p + 2 < o \/ o + 2 < p)
                        => HoldsIn(m, Top.base - p, v)

LEMMA StoredInFrame ==
  ASSUME Inv, pc # "outside", NEW o \in Int, 3 <= o, o <= frame_size(fn), NEW w \in Words
  PROVE  StoredIn(Stored(Top.base - o, w), o, w)
<1>. DEFINE a == Top.base - o
            m == Stored(a, w)
<1>1. /\ Top.base \in Int /\ Top.base <= 0 /\ StackSize \in Nat
      /\ Top.base - frame_size(fn) >= -StackSize /\ frame_size(fn) \in Nat
      /\ mem \in [Addr -> Trytes]
  <2>1. /\ Top.base \in Int /\ Top.base <= 0 /\ Top.locals \in Nat
        /\ Top.base - frame_size(fn) - Top.locals \in -StackSize .. 0 /\ fn \in Fns
    BY TopFacts
  <2>2. StackSize \in Nat /\ frame_size(fn) \in Nat
    BY <2>1, SizesOf, Sizes
  <2>. QED  BY <2>1, <2>2, RegisterTypes
<1>2. a \in Int /\ -StackSize <= a /\ a + 2 <= -1
  BY <1>1
<1>3. /\ m \in [Addr -> Trytes] /\ HoldsIn(m, a, w)
      /\ \A b \in Int : \A v : HoldsIn(mem, b, v) /\ (b + 2 < a \/ a + 2 < b) => HoldsIn(m, b, v)
  BY <1>1, <1>2, StoredFacts
<1>4. \A x \in Addr : Top.base <= x => m[x] = mem[x]
  <2>1. ASSUME NEW x \in Addr, Top.base <= x PROVE x \notin a .. a + 2
    BY <1>1, <1>2, <2>1, Sizes
  <2>. QED  BY <2>1 DEF Stored
<1>5. ASSUME NEW p \in Int, NEW v, HoldsIn(mem, Top.base - p, v), p + 2 < o \/ o + 2 < p
      PROVE  HoldsIn(m, Top.base - p, v)
  <2>1. Top.base - p \in Int /\ ((Top.base - p) + 2 < a \/ a + 2 < Top.base - p)
    BY <1>1, <1>5
  <2>. QED  BY <1>3, <1>5, <2>1
<1>. QED  BY <1>3, <1>4, <1>5 DEF StoredIn

\* the other frames are then as before
LEMMA StoredKeepsInv ==
  ASSUME Inv, pc # "outside", pc' # "outside", calls' = calls,
         NEW o, NEW w, StoredIn(mem', o, w),
         TypeOK', Registers', InFrame(mem', calls, D, pc', i')
  PROVE  Inv'
<1>1. \A k \in 1 .. D - 1 : InFrame(mem', calls, k, "body", 0)
  BY LowerKept DEF StoredIn
<1>. QED  BY <1>1 DEF Inv, D

LEMMA StoreFpInv == ASSUME Inv, StoreFp PROVE Inv'
<1>1. /\ pc = "store_fp" /\ mem' = Stored(sp - fp_fploc, fp) /\ pc' = "set_fp"
      /\ fn' = fn /\ i' = i /\ sp' = sp /\ fp' = fp /\ ra' = ra /\ s' = s /\ t' = t
      /\ calls' = calls
  BY DEF StoreFp
<1>2. /\ Registers /\ sp = Top.base /\ fp = FpOf(calls, D) /\ Top = calls[D]
      /\ Top.saved = {} /\ fp \in Words
  <2>1. Registers /\ Top = calls[D] /\ FpOf(calls, D) \in -StackSize .. 0
    BY <1>1, TopFacts DEF Inv
  <2>. QED  BY <1>1, <2>1 DEF Registers, Prologue, Words
<1>3. StoredIn(mem', fp_fploc, fp)
  <2>1. fn \in Fns
    BY <1>1, TopFacts
  <2>2. fp_fploc \in Int /\ 3 <= fp_fploc /\ fp_fploc <= frame_size(fn)
    BY <2>1, SizesOf, Sizes
  <2>. QED  BY <1>1, <1>2, <2>2, StoredInFrame
<1>4. TypeOK'
  BY <1>1, <1>3 DEF Inv, TypeOK, Prologue, StoredIn
<1>5. Registers'
  BY <1>1, <1>2 DEF Registers, Top, D, Prologue, Bottom, FrameEnd
<1>6. InFrame(mem', calls, D, pc', i')
  BY <1>1, <1>2, <1>3 DEF InFrame, StoredIn, Prologue
<1>. QED  BY <1>1, <1>3, <1>4, <1>5, <1>6, StoredKeepsInv

LEMMA StoreRaInv == ASSUME Inv, StoreRa PROVE Inv'
<1>1. /\ pc = "store_ra" /\ mem' = Stored(fp - ra_fploc, ra) /\ pc' = "reserve"
      /\ fn' = fn /\ i' = i /\ sp' = sp /\ fp' = fp /\ ra' = ra /\ s' = s /\ t' = t
      /\ calls' = calls
  BY DEF StoreRa
<1>2. /\ Registers /\ fp = Top.base /\ ra = FnOf(calls, D) /\ Top = calls[D]
      /\ Top.saved = {} /\ ra \in Words
  <2>1. Registers /\ Top = calls[D] /\ FnOf(calls, D) \in Fns \cup {Outside}
    BY <1>1, TopFacts DEF Inv
  <2>. QED  BY <1>1, <2>1 DEF Registers, Prologue, Words
<1>3. StoredIn(mem', ra_fploc, ra)
  <2>1. fn \in Fns
    BY <1>1, TopFacts
  <2>2. ra_fploc \in Int /\ 3 <= ra_fploc /\ ra_fploc <= frame_size(fn)
    BY <2>1, SizesOf, Sizes
  <2>. QED  BY <1>1, <1>2, <2>2, StoredInFrame
<1>4. TypeOK'
  BY <1>1, <1>3 DEF Inv, TypeOK, Prologue, StoredIn
<1>5. Registers'
  BY <1>1, <1>2 DEF Registers, Top, D, Prologue, Bottom, FrameEnd
<1>6. InFrame(mem', calls, D, pc', i')
  <2>1. HoldsIn(mem', Top.base - fp_fploc, FpOf(calls, D))
    <3>1. HoldsIn(mem, Top.base - fp_fploc, FpOf(calls, D))
      BY <1>1, <1>2 DEF Inv, InFrame
    <3>2. fp_fploc \in Int /\ fp_fploc + 2 < ra_fploc
      BY Sizes
    <3>. QED  BY <1>3, <3>1, <3>2 DEF StoredIn
  <2>. QED  BY <1>1, <1>2, <1>3, <2>1 DEF InFrame, StoredIn, Prologue
<1>. QED  BY <1>1, <1>3, <1>4, <1>5, <1>6, StoredKeepsInv

\* the links of the top activation stay under a store of a register or of a
\* slot
LEMMA LinksKept ==
  ASSUME Inv, pc \in {"store_s", "body"},
         NEW m, NEW o \in Int, 9 <= o, NEW w, StoredIn(m, o, w)
  PROVE  /\ HoldsIn(m, Top.base - fp_fploc, FpOf(calls, D))
         /\ HasCalls[fn] => HoldsIn(m, Top.base - ra_fploc, FnOf(calls, D))
<1>1. /\ Top = calls[D] /\ fn = Top.fn
      /\ InFrame(mem, calls, D, pc, i)
  BY TopFacts DEF Inv
<1>2. /\ HoldsIn(mem, Top.base - fp_fploc, FpOf(calls, D))
      /\ HasCalls[fn] => HoldsIn(mem, Top.base - ra_fploc, FnOf(calls, D))
  BY <1>1 DEF InFrame
<1>3. /\ fp_fploc \in Int /\ fp_fploc + 2 < o
      /\ ra_fploc \in Int /\ ra_fploc + 2 < o
  BY Sizes
<1>. QED  BY <1>2, <1>3 DEF StoredIn

LEMMA StoreSInv == ASSUME Inv, StoreS PROVE Inv'
<1>1. /\ pc = "store_s" /\ i < CalleeSave[fn] /\ i' = i + 1 /\ pc' = pc
      /\ mem' = Stored(fp - callee_save_fploc(i), s[i])
      /\ fn' = fn /\ sp' = sp /\ fp' = fp /\ ra' = ra /\ s' = s /\ t' = t
      /\ calls' = calls
  BY DEF StoreS
<1>2. /\ Registers /\ fp = Top.base /\ Top = calls[D] /\ fn = Top.fn /\ fn \in Fns
      /\ Top.saved = {} /\ \A j \in SRegs : s[j] = Top.entry[j]
  <2>1. Registers /\ Top = calls[D] /\ fn \in Fns /\ fn = Top.fn
    BY <1>1, TopFacts DEF Inv
  <2>. QED  BY <1>1, <2>1 DEF Registers, Prologue
<1>3. /\ i \in 0 .. CalleeSave[fn] - 1 /\ i \in SRegs /\ s[i] \in Words
      /\ i \in Nat /\ i + 1 \in 0 .. NS
  <2>1. CalleeSave[fn] \in Nat /\ CalleeSave[fn] <= NS
    BY <1>2, SizesOf
  <2>. QED  BY <1>1, <2>1, RegisterTypes DEF SRegs, Words
<1>4. /\ callee_save_fploc(i) \in Int /\ 9 <= callee_save_fploc(i)
      /\ StoredIn(mem', callee_save_fploc(i), s[i])
  <2>1. /\ callee_save_fploc(i) \in Int /\ 9 <= callee_save_fploc(i)
        /\ callee_save_fploc(i) <= frame_size(fn)
    BY <1>2, <1>3, CalleeSlot
  <2>. QED  BY <1>1, <1>2, <1>3, <2>1, StoredInFrame
<1>5. TypeOK'
  BY <1>1, <1>3, <1>4 DEF Inv, TypeOK, Prologue, StoredIn
<1>6. Registers'
  BY <1>1, <1>2 DEF Registers, Top, D, Prologue, Bottom, FrameEnd
<1>7. ASSUME NEW j \in 0 .. CalleeSave[fn] - 1, j < i + 1
      PROVE  HoldsIn(mem', Top.base - callee_save_fploc(j), Top.entry[j])
  <2>1. CASE j = i
    BY <1>2, <1>3, <1>4, <2>1 DEF StoredIn
  <2>2. CASE j # i
    <3>1. j < i
      BY <1>3, <1>7, <2>2
    <3>2. HoldsIn(mem, Top.base - callee_save_fploc(j), Top.entry[j])
      BY <1>1, <1>2, <3>1 DEF Inv, InFrame
    <3>3. callee_save_fploc(j) \in Int /\ callee_save_fploc(j) + 2 < callee_save_fploc(i)
      BY <1>2, <1>3, <3>1, CalleeSlot
    <3>. QED  BY <1>4, <3>2, <3>3 DEF StoredIn
  <2>. QED  BY <2>1, <2>2
<1>8. InFrame(mem', calls, D, pc', i')
  <2>1. /\ HoldsIn(mem', Top.base - fp_fploc, FpOf(calls, D))
        /\ HasCalls[fn] => HoldsIn(mem', Top.base - ra_fploc, FnOf(calls, D))
    BY <1>1, <1>4, LinksKept
  <2>. QED  BY <1>1, <1>2, <1>7, <2>1 DEF InFrame, Prologue
<1>. QED  BY <1>1, <1>4, <1>5, <1>6, <1>8, StoredKeepsInv

-----------------------------------------------------------------------------
(* The steps that change what is in the top activation.                     *)

\* a is the top activation, with other slots in use or other locals
Revised(a) ==
  /\ a \in Act /\ a.fn = Top.fn /\ a.base = Top.base /\ a.entry = Top.entry
  /\ Bottom(a) >= -StackSize

LEMMA RevisedStack ==
  ASSUME Inv, pc # "outside", NEW a, Revised(a)
  PROVE  /\ Stack(Append(Below, a))
         /\ Len(Append(Below, a)) = D /\ Append(Below, a)[D] = a
         /\ \A k \in 1 .. D - 1 : Append(Below, a)[k] = calls[k]
         /\ FpOf(Append(Below, a), D) = FpOf(calls, D)
         /\ FnOf(Append(Below, a), D) = FnOf(calls, D)
<1>. DEFINE cs == Append(Below, a)
<1>1. /\ D \in Nat /\ D >= 1 /\ calls \in Seq(Act) /\ Top = calls[D] /\ Stack(calls)
      /\ a \in Act
  BY TopFacts DEF Inv, Revised
<1>2. /\ cs \in Seq(Act) /\ Len(cs) = D /\ cs[D] = a
      /\ \A k \in 1 .. D - 1 : cs[k] = calls[k]
  BY <1>1, TopReplaced
<1>. HIDE DEF cs
<1>3. \A k \in 1 .. D : cs[k].base = calls[k].base /\ cs[k].fn = calls[k].fn
                        /\ cs[k].entry = calls[k].entry
  BY <1>1, <1>2 DEF Revised
<1>4. \A k \in 1 .. D : Bottom(cs[k]) >= -StackSize
  BY <1>1, <1>2 DEF Revised, Stack, D
<1>5. ASSUME NEW k \in 1 .. D, NEW l \in 1 .. D, k < l PROVE cs[l].base <= Bottom(cs[k])
  <2>1. cs[k] = calls[k]
    BY <1>1, <1>2, <1>5
  <2>2. calls[l].base <= Bottom(calls[k])
    BY <1>1, <1>5 DEF Stack, D
  <2>. QED  BY <1>3, <2>1, <2>2
<1>6. ASSUME NEW k \in 1 .. D - 1
      PROVE  /\ cs[k + 1].base = Bottom(cs[k])
             /\ HasCalls[cs[k].fn]
             /\ \A j \in SRegs : j >= CalleeSave[cs[k].fn] => cs[k + 1].entry[j] = cs[k].entry[j]
  <2>1. cs[k] = calls[k] /\ k + 1 \in 1 .. D
    BY <1>1, <1>2
  <2>2. /\ calls[k + 1].base = Bottom(calls[k])
        /\ HasCalls[calls[k].fn]
        /\ \A j \in SRegs : j >= CalleeSave[calls[k].fn] => calls[k + 1].entry[j] = calls[k].entry[j]
    BY <1>1 DEF Stack, D
  <2>. QED  BY <1>3, <2>1, <2>2
<1>7. FpOf(cs, D) = FpOf(calls, D) /\ FnOf(cs, D) = FnOf(calls, D)
  <2>1. CASE D = 1
    BY <2>1 DEF FpOf, FnOf
  <2>2. CASE D # 1
    <3>1. cs[D - 1] = calls[D - 1]
      BY <1>1, <1>2, <2>2
    <3>. QED  BY <2>2, <3>1 DEF FpOf, FnOf
  <2>. QED  BY <2>1, <2>2
<1>8. Stack(cs)
  BY <1>2, <1>4, <1>5, <1>6 DEF Stack
<1>. QED  BY <1>1, <1>2, <1>7, <1>8 DEF cs

LEMMA RevisedInv ==
  ASSUME Inv, pc = "body", pc' = "body", NEW a, Revised(a), calls' = Append(Below, a),
         fn' = fn, i' = i, sp' = Bottom(a), fp' = fp, ra' = ra, s' = s, t' \in Values,
         mem' \in [Addr -> Trytes], \A x \in Addr : Top.base <= x => mem'[x] = mem[x],
         InFrame(mem', Append(Below, a), D, "body", i)
  PROVE  Inv'
<1>. DEFINE cs == Append(Below, a)
<1>1. /\ Stack(cs) /\ Len(cs) = D /\ cs[D] = a
      /\ \A k \in 1 .. D - 1 : cs[k] = calls[k]
      /\ FpOf(cs, D) = FpOf(calls, D) /\ FnOf(cs, D) = FnOf(calls, D)
  BY RevisedStack
<1>2. calls' = cs
  OBVIOUS
<1>. HIDE DEF cs
<1>3. \A k \in 1 .. D - 1 : InFrame(mem', cs, k, "body", 0)
  BY <1>1, LowerKept
<1>4. D' = D /\ Top' = a /\ D >= 1
  BY <1>1, <1>2, TopFacts DEF D, Top
<1>5. sp' \in -StackSize .. 0 /\ Bottom(a) \in Int
  <2>1. /\ frame_size(a.fn) \in Nat /\ a.base \in Int /\ a.base <= 0 /\ a.locals \in Nat
        /\ StackSize \in Nat
    BY TopFacts, SizesOf, Sizes DEF Revised, Act
  <2>. QED  BY <2>1 DEF Revised, Bottom, FrameEnd
<1>6. TypeOK'
  BY <1>1, <1>2, <1>5 DEF Inv, TypeOK, Stack, Act
<1>7. Registers'
  <2>1. Registers
    BY DEF Inv
  <2>2. /\ fn = a.fn /\ fp = a.base
        /\ ~HasCalls[fn] => ra = FnOf(calls, D)
        /\ \A j \in SRegs : j >= CalleeSave[fn] => s[j] = a.entry[j]
    BY <2>1 DEF Registers, Revised
  <2>3. Bottom(Top)' = Bottom(a)
    BY <1>4 DEF Bottom, FrameEnd
  <2>. QED  BY <1>1, <1>2, <1>4, <2>2, <2>3 DEF Registers, Prologue, FpOf, FnOf
<1>8. Stack(calls)'
  BY <1>1, <1>2 DEF Stack, Bottom, FrameEnd
<1>9. InFrame(mem', calls', D', pc', i') /\ \A k \in 1 .. D' - 1 : InFrame(mem', calls', k, "body", 0)
  BY <1>2, <1>3, <1>4 DEF cs
<1>. QED  BY <1>4, <1>6, <1>7, <1>8, <1>9 DEF Inv, InFrame

\* where the body of a function finds its registers
LEMMA BodyFacts ==
  ASSUME Inv, pc = "body"
  PROVE  /\ fp = Top.base /\ sp = Bottom(Top) /\ fn = Top.fn /\ fn \in Fns
         /\ D \in Nat /\ D >= 1 /\ Top = calls[D] /\ Top \in Act
         /\ InFrame(mem, calls, D, "body", i)
         /\ t \in Values
BY TopFacts DEF Inv, Registers, TypeOK

LEMMA SaveInv == ASSUME Inv, Save PROVE Inv'
<1>1. /\ pc = "body" /\ pc' = pc
      /\ fn' = fn /\ i' = i /\ sp' = sp /\ fp' = fp /\ ra' = ra /\ s' = s /\ t' = t
  BY DEF Save
<1>2. PICK k \in 0 .. CallSave[fn] - 1 :
        /\ mem' = Stored(fp - call_save_fploc(fn, k), t)
        /\ calls' = Append(Below, [Top EXCEPT !.saved = @ \cup {k}])
  BY DEF Save
<1>. DEFINE a == [Top EXCEPT !.saved = @ \cup {k}]
            cs == Append(Below, a)
<1>3. /\ fp = Top.base /\ sp = Bottom(Top) /\ fn = Top.fn /\ fn \in Fns /\ Top \in Act
      /\ Top = calls[D] /\ InFrame(mem, calls, D, "body", i) /\ t \in Values
  BY <1>1, BodyFacts
<1>4. /\ a \in Act /\ a.fn = Top.fn /\ a.base = Top.base /\ a.entry = Top.entry
      /\ a.locals = Top.locals /\ a.saved = Top.saved \cup {k}
  <2>1. k \in Nat
    BY <1>3, SizesOf
  <2>. QED  BY <1>3, <2>1 DEF Act
<1>5. Bottom(a) = Bottom(Top)
  BY <1>4 DEF Bottom, FrameEnd
<1>6. Revised(a)
  <2>1. Bottom(Top) >= -StackSize
    BY <1>1, TopFacts, Sizes
  <2>. QED  BY <1>4, <1>5, <2>1 DEF Revised
<1>7. /\ cs[D] = a /\ FpOf(cs, D) = FpOf(calls, D) /\ FnOf(cs, D) = FnOf(calls, D)
  BY <1>1, <1>6, RevisedStack
<1>8. /\ call_save_fploc(fn, k) \in Int /\ 9 <= call_save_fploc(fn, k)
      /\ StoredIn(mem', call_save_fploc(fn, k), t)
  <2>1. /\ call_save_fploc(fn, k) \in Int /\ 9 <= call_save_fploc(fn, k)
        /\ call_save_fploc(fn, k) <= frame_size(fn)
    BY <1>3, CallSlot
  <2>2. t \in Words
    BY <1>3 DEF Words
  <2>. QED  BY <1>1, <1>2, <1>3, <2>1, <2>2, StoredInFrame
<1>9. /\ HoldsIn(mem', Top.base - fp_fploc, FpOf(calls, D))
      /\ HasCalls[fn] => HoldsIn(mem', Top.base - ra_fploc, FnOf(calls, D))
  BY <1>1, <1>8, LinksKept
<1>10. ASSUME NEW j \in 0 .. CalleeSave[fn] - 1
       PROVE  HoldsIn(mem', Top.base - callee_save_fploc(j), Top.entry[j])
  <2>1. HoldsIn(mem, Top.base - callee_save_fploc(j), Top.entry[j])
    BY <1>3 DEF InFrame, Prologue
  <2>2. callee_save_fploc(j) \in Int /\ callee_save_fploc(j) + 2 < call_save_fploc(fn, k)
    BY <1>3, SizesOf, CalleeSlot, CallSlot
  <2>. QED  BY <1>8, <2>1, <2>2 DEF StoredIn
<1>11. ASSUME NEW j \in Top.saved \cup {k}
       PROVE  /\ j \in 0 .. CallSave[fn] - 1
              /\ \E v \in Values : HoldsIn(mem', Top.base - call_save_fploc(fn, j), v)
  <2>1. CASE j = k
    BY <1>3, <1>8, <2>1 DEF StoredIn
  <2>2. CASE j # k
    <3>1. PICK v \in Values : HoldsIn(mem, Top.base - call_save_fploc(fn, j), v)
      BY <1>3, <2>2 DEF InFrame
    <3>2. j \in 0 .. CallSave[fn] - 1
      BY <1>3, <2>2 DEF InFrame
    <3>3. /\ call_save_fploc(fn, j) \in Int
          /\ \/ call_save_fploc(fn, j) + 2 < call_save_fploc(fn, k)
             \/ call_save_fploc(fn, k) + 2 < call_save_fploc(fn, j)
      BY <1>3, <2>2, <3>2, SizesOf, CallSlot
    <3>. QED  BY <1>8, <3>1, <3>2, <3>3 DEF StoredIn
  <2>. QED  BY <2>1, <2>2
<1>. HIDE DEF a, cs
<1>12. InFrame(mem', cs, D, "body", i)
  BY <1>3, <1>4, <1>7, <1>9, <1>10, <1>11 DEF InFrame, Prologue
<1>13. calls' = Append(Below, a) /\ mem' \in [Addr -> Trytes]
       /\ \A x \in Addr : Top.base <= x => mem'[x] = mem[x]
  BY <1>2, <1>8 DEF a, StoredIn
<1>. QED  BY <1>1, <1>3, <1>5, <1>6, <1>12, <1>13, RevisedInv DEF cs

\* the frame is as it was where only its slots in use or its locals differ
LEMMA FrameRevised ==
  ASSUME Inv, pc = "body", NEW a, Revised(a), a.saved = Top.saved
  PROVE  InFrame(mem, Append(Below, a), D, "body", i)
<1>. DEFINE cs == Append(Below, a)
<1>1. /\ D \in Nat /\ Top = calls[D] /\ calls[D] \in Act /\ InFrame(mem, calls, D, "body", i)
  BY BodyFacts
<1>2. cs[D] = a /\ FpOf(cs, D) = FpOf(calls, D) /\ FnOf(cs, D) = FnOf(calls, D)
  BY RevisedStack
<1>. HIDE DEF cs
<1>3. InFrame(mem, cs, D, "body", i)
  BY <1>1, <1>2, FrameKept DEF Revised
<1>. QED  BY <1>3 DEF cs

LEMMA AllocInv == ASSUME Inv, Alloc PROVE Inv'
<1>1. /\ pc = "body" /\ pc' = pc /\ t' = Pointer
      /\ fn' = fn /\ i' = i /\ fp' = fp /\ ra' = ra /\ s' = s /\ mem' = mem
  BY DEF Alloc
<1>2. PICK n \in 1 .. MaxLocals :
        /\ sp - n >= -StackSize /\ sp' = sp - n
        /\ calls' = Append(Below, [Top EXCEPT !.locals = @ + n])
  BY DEF Alloc
<1>. DEFINE a == [Top EXCEPT !.locals = @ + n]
<1>3. sp = Bottom(Top) /\ Top \in Act /\ n \in Nat
  BY <1>1, BodyFacts, StackAssumption
<1>4. /\ a \in Act /\ a.fn = Top.fn /\ a.base = Top.base /\ a.entry = Top.entry
      /\ a.locals = Top.locals + n /\ a.saved = Top.saved
  BY <1>3 DEF Act
<1>5. Bottom(a) = sp - n
  <2>1. Top.locals \in Nat /\ FrameEnd(Top) \in Int /\ FrameEnd(a) = FrameEnd(Top)
    <3>1. Top.fn \in Fns /\ Top.base \in Int /\ Top.locals \in Nat
      BY <1>3, Sizes DEF Act
    <3>. QED  BY <1>4, <3>1, SizesOf DEF FrameEnd
  <2>. QED  BY <1>3, <1>4, <2>1 DEF Bottom
<1>6. Revised(a)
  BY <1>2, <1>4, <1>5 DEF Revised
<1>7. calls' = Append(Below, a)
  BY <1>2
<1>. HIDE DEF a
<1>8. InFrame(mem', Append(Below, a), D, "body", i)
  BY <1>1, <1>4, <1>6, FrameRevised
<1>9. t' \in Values /\ mem' \in [Addr -> Trytes] /\ sp' = Bottom(a)
  BY <1>1, <1>2, <1>5, RegisterTypes DEF Values
<1>. QED  BY <1>1, <1>6, <1>7, <1>8, <1>9, RevisedInv

LEMMA DeallocInv == ASSUME Inv, Dealloc PROVE Inv'
<1>1. /\ pc = "body" /\ pc' = pc /\ t' = t
      /\ fn' = fn /\ i' = i /\ fp' = fp /\ ra' = ra /\ s' = s /\ mem' = mem
  BY DEF Dealloc
<1>2. PICK n \in 1 .. Top.locals :
        /\ sp' = sp + n
        /\ calls' = Append(Below, [Top EXCEPT !.locals = @ - n])
  BY DEF Dealloc
<1>. DEFINE a == [Top EXCEPT !.locals = @ - n]
<1>3. sp = Bottom(Top) /\ Top \in Act /\ Bottom(Top) \in -StackSize .. 0 /\ t \in Values
  BY <1>1, BodyFacts, TopFacts
<1>4. /\ Top.locals \in Nat /\ n \in Nat /\ Top.locals - n \in Nat /\ Top.fn \in Fns
      /\ Top.base \in Int
  BY <1>3, Sizes DEF Act
<1>5. /\ a \in Act /\ a.fn = Top.fn /\ a.base = Top.base /\ a.entry = Top.entry
      /\ a.locals = Top.locals - n /\ a.saved = Top.saved
  BY <1>3, <1>4 DEF Act
<1>6. Bottom(a) = sp + n
  <2>1. FrameEnd(Top) \in Int /\ FrameEnd(a) = FrameEnd(Top)
    BY <1>4, <1>5, SizesOf DEF FrameEnd
  <2>. QED  BY <1>3, <1>4, <1>5, <2>1 DEF Bottom
<1>7. Revised(a)
  <2>1. sp + n >= -StackSize
    BY <1>3, <1>4, Sizes
  <2>. QED  BY <1>5, <1>6, <2>1 DEF Revised
<1>8. calls' = Append(Below, a)
  BY <1>2
<1>. HIDE DEF a
<1>9. InFrame(mem', Append(Below, a), D, "body", i)
  BY <1>1, <1>5, <1>7, FrameRevised
<1>10. t' \in Values /\ mem' \in [Addr -> Trytes] /\ sp' = Bottom(a)
  BY <1>1, <1>2, <1>3, <1>6, RegisterTypes
<1>. QED  BY <1>1, <1>7, <1>8, <1>9, <1>10, RevisedInv

LEMMA StoreLocalInv == ASSUME Inv, StoreLocal PROVE Inv'
<1>1. /\ pc = "body" /\ pc' = pc
      /\ fn' = fn /\ i' = i /\ sp' = sp /\ fp' = fp /\ ra' = ra /\ s' = s /\ t' = t
      /\ calls' = calls
  BY DEF StoreLocal
<1>2. PICK n \in 0 .. Top.locals - 1, v \in Data : mem' = [mem EXCEPT ![sp + n] = <<v, 0>>]
  BY DEF StoreLocal
<1>3. /\ D \in Nat /\ Top = calls[D] /\ Top \in Act /\ sp = Bottom(Top)
      /\ InFrame(mem, calls, D, "body", i)
  BY <1>1, BodyFacts
<1>4. /\ sp + n < FrameEnd(Top) /\ FrameEnd(Top) <= Top.base
      /\ sp + n \in Int /\ FrameEnd(Top) \in Int /\ Top.base \in Int
  <2>1. /\ Top.locals \in Nat /\ FrameEnd(Top) = Top.base - frame_size(Top.fn)
        /\ Bottom(Top) = FrameEnd(Top) - Top.locals /\ Top.base \in Int
        /\ frame_size(Top.fn) \in Nat
    BY <1>3, Sizes, SizesOf DEF Act, FrameEnd, Bottom
  <2>. QED  BY <1>3, <2>1
<1>5. mem' \in [Addr -> Trytes] /\ mem \in [Addr -> Trytes]
  <2>1. <<v, 0>> \in Trytes
    BY DEF Trytes, Words, Values
  <2>. QED  BY <1>2, <2>1, RegisterTypes
<1>6. \A x \in Addr : FrameEnd(Top) <= x => mem'[x] = mem[x]
  <2>1. ASSUME NEW x \in Addr, FrameEnd(Top) <= x PROVE x # sp + n
    BY <1>4, <2>1, Sizes
  <2>. QED  BY <1>2, <1>5, <2>1
<1>7. InFrame(mem', calls, D, "body", i)
  BY <1>3, <1>6, FrameKept
<1>8. \A x \in Addr : Top.base <= x => mem'[x] = mem[x]
  BY <1>4, <1>6, Sizes
<1>9. \A k \in 1 .. D - 1 : InFrame(mem', calls, k, "body", 0)
  BY <1>1, <1>8, LowerKept
<1>10. TypeOK'
  BY <1>1, <1>5 DEF Inv, TypeOK
<1>11. Registers'
  BY <1>1 DEF Inv, Registers, Top, D, Prologue, Bottom, FrameEnd
<1>. QED  BY <1>1, <1>7, <1>9, <1>10, <1>11 DEF Inv, D

-----------------------------------------------------------------------------
(* Calls and returns.                                                       *)

LEMMA CallInv == ASSUME Inv, Call PROVE Inv'
<1>1. /\ pc = "body" /\ HasCalls[fn] /\ ra' = fn /\ pc' = "store_fp"
      /\ i' = i /\ sp' = sp /\ fp' = fp /\ s' = s /\ t' = t /\ mem' = mem
  BY DEF Call
<1>2. PICK f \in Fns : /\ sp - frame_size(f) >= -StackSize /\ fn' = f
                       /\ calls' = Append(calls, Activation(f, sp))
  BY DEF Call
<1>. DEFINE a == Activation(f, sp)
            cs == Append(calls, a)
<1>3. /\ D \in Nat /\ D >= 1 /\ calls \in Seq(Act) /\ Stack(calls) /\ Registers
      /\ Top = calls[D] /\ Top \in Act /\ fn = Top.fn /\ fp = Top.base /\ sp = Bottom(Top)
      /\ InFrame(mem, calls, D, "body", i) /\ sp \in -StackSize .. 0
      /\ s \in [SRegs -> Values]
  BY <1>1, BodyFacts, TopFacts, RegisterTypes DEF Inv
<1>4. /\ a \in Act /\ a.fn = f /\ a.base = sp /\ a.entry = s /\ a.saved = {} /\ a.locals = 0
  BY <1>2, <1>3 DEF Activation, Act
<1>5. /\ Bottom(a) \in Int /\ Bottom(a) >= -StackSize
      /\ Bottom(Top) <= Top.base /\ Top.base \in Int /\ sp \in Int
  <2>1. /\ frame_size(f) \in Nat /\ frame_size(Top.fn) \in Nat /\ Top.base \in Int
        /\ Top.locals \in Nat /\ sp \in Int
    <3>1. Top.fn \in Fns /\ Top.base \in Int /\ Top.locals \in Nat /\ sp \in Int
      BY <1>3, Sizes DEF Act
    <3>. QED  BY <3>1, SizesOf
  <2>2. Bottom(Top) = Top.base - frame_size(Top.fn) - Top.locals
    BY DEF Bottom, FrameEnd
  <2>3. Bottom(a) = sp - frame_size(f) - 0
    BY <1>4 DEF Bottom, FrameEnd
  <2>. QED  BY <1>2, <2>1, <2>2, <2>3
<1>6. /\ cs \in Seq(Act) /\ Len(cs) = D + 1 /\ cs[D + 1] = a
      /\ \A k \in 1 .. D : cs[k] = calls[k]
  BY <1>3, <1>4 DEF D
<1>. HIDE DEF a, cs
<1>7. Stack(cs)
  <2>1. \A k \in 1 .. D + 1 : Bottom(cs[k]) >= -StackSize
    BY <1>3, <1>5, <1>6 DEF Stack, D
  <2>2. ASSUME NEW k \in 1 .. D + 1, NEW l \in 1 .. D + 1, k < l
        PROVE  cs[l].base <= Bottom(cs[k])
    <3>1. k \in 1 .. D /\ cs[k] = calls[k] /\ calls[k] \in Act
      BY <1>3, <1>6, <2>2 DEF D
    <3>2. CASE l \in 1 .. D
      BY <1>3, <1>6, <2>2, <3>1, <3>2 DEF Stack, D
    <3>3. CASE l = D + 1
      <4>1. cs[l].base = Bottom(Top)
        BY <1>3, <1>4, <1>6, <3>3
      <4>2. CASE k = D
        BY <1>3, <1>5, <3>1, <4>1, <4>2
      <4>3. CASE k < D
        <5>1. Top.base <= Bottom(calls[k])
          BY <1>3, <3>1, <4>3 DEF Stack, D
        <5>2. Bottom(calls[k]) \in Int
          BY <3>1, SizesOf, Sizes DEF Act, Bottom, FrameEnd
        <5>. QED  BY <1>3, <1>5, <3>1, <4>1, <5>1, <5>2
      <4>. QED  BY <1>3, <3>1, <4>2, <4>3
    <3>. QED  BY <1>3, <3>2, <3>3
  <2>3. ASSUME NEW k \in 1 .. D
        PROVE  /\ cs[k + 1].base = Bottom(cs[k])
               /\ HasCalls[cs[k].fn]
               /\ \A j \in SRegs : j >= CalleeSave[cs[k].fn] => cs[k + 1].entry[j] = cs[k].entry[j]
    <3>1. CASE k = D
      <4>1. \A j \in SRegs : j >= CalleeSave[fn] => s[j] = Top.entry[j]
        BY <1>1, <1>3 DEF Registers
      <4>. QED  BY <1>1, <1>3, <1>4, <1>6, <3>1, <4>1
    <3>2. CASE k # D
      <4>1. k \in 1 .. D - 1 /\ k + 1 \in 1 .. D
        BY <1>3, <3>2
      <4>. QED  BY <1>3, <1>6, <4>1 DEF Stack, D
    <3>. QED  BY <3>1, <3>2
  <2>4. (D + 1) - 1 = D
    BY <1>3
  <2>. QED  BY <1>6, <2>1, <2>2, <2>3, <2>4 DEF Stack
<1>8. \A k \in 1 .. D : InFrame(mem, cs, k, "body", 0)
  <2>1. \A k \in 1 .. D - 1 : InFrame(mem, cs, k, "body", 0)
    <3>1. \A k \in 1 .. D - 1 : cs[k] = calls[k]
      BY <1>3, <1>6
    <3>. QED  BY <1>1, <3>1, LowerKept
  <2>2. InFrame(mem, cs, D, "body", 0)
    <3>1. FpOf(cs, D) = FpOf(calls, D) /\ FnOf(cs, D) = FnOf(calls, D)
      <4>1. D # 1 => D - 1 \in 1 .. D
        BY <1>3
      <4>2. D # 1 => cs[D - 1] = calls[D - 1]
        BY <1>6, <4>1
      <4>. QED  BY <4>2 DEF FpOf, FnOf
    <3>2. InFrame(mem, calls, D, "body", 0)
      BY <1>3 DEF InFrame, Prologue
    <3>3. cs[D] = calls[D]
      BY <1>3, <1>6
    <3>. QED  BY <1>3, <3>1, <3>2, <3>3, FrameKept
  <2>. QED  BY <1>3, <2>1, <2>2
<1>9. InFrame(mem, cs, D + 1, "store_fp", i)
  <2>1. \A j \in 0 .. CalleeSave[f] - 1 : ~("store_fp" \notin Prologue)
    BY DEF Prologue
  <2>. QED  BY <1>4, <1>6, <2>1 DEF InFrame, Prologue
<1>10. D' = D + 1 /\ Top' = a /\ calls' = cs
  BY <1>2, <1>6 DEF D, Top, a, cs
<1>11. FpOf(cs, D + 1) = Top.base /\ FnOf(cs, D + 1) = fn
  <2>1. D + 1 # 1 /\ (D + 1) - 1 = D /\ D \in 1 .. D
    BY <1>3
  <2>2. cs[D] = Top
    BY <1>3, <1>6, <2>1
  <2>. QED  BY <1>3, <2>1, <2>2 DEF FpOf, FnOf
<1>12. Registers'
  <2>1. FpOf(calls, D)' = FpOf(cs, D + 1) /\ FnOf(calls, D)' = FnOf(cs, D + 1)
    BY <1>10 DEF FpOf, FnOf
  <2>. QED  BY <1>1, <1>2, <1>3, <1>4, <1>10, <1>11, <2>1 DEF Registers, Prologue
<1>13. TypeOK'
  <2>1. ra' \in Fns \cup {Outside}
    BY <1>1, <1>3 DEF Act
  <2>. QED  BY <1>1, <1>2, <1>6, <1>10, <2>1 DEF Inv, TypeOK, Prologue, Act
<1>14. Stack(calls)'
  BY <1>7, <1>10 DEF Stack, Bottom, FrameEnd
<1>15. (D + 1) - 1 = D /\ D + 1 >= 1
  BY <1>3
<1>. QED  BY <1>1, <1>8, <1>9, <1>10, <1>12, <1>13, <1>14, <1>15 DEF Inv, InFrame

LEMMA RetInv == ASSUME Inv, Ret PROVE Inv'
<1>1. /\ pc = "ret" /\ fn' = ra /\ pc' = (IF ra \in Fns THEN "body" ELSE "outside")
      /\ i' = 0 /\ calls' = Below
      /\ sp' = sp /\ fp' = fp /\ ra' = ra /\ s' = s /\ t' = t /\ mem' = mem
  BY DEF Ret
<1>2. /\ D \in Nat /\ D >= 1 /\ calls \in Seq(Act) /\ Stack(calls) /\ Registers
      /\ Top = calls[D] /\ Top \in Act
      /\ FnOf(calls, D) \in Fns \cup {Outside}
  BY <1>1, TopFacts DEF Inv
<1>3. /\ sp = Top.base /\ fp = FpOf(calls, D) /\ ra = FnOf(calls, D)
      /\ \A j \in SRegs : s[j] = Top.entry[j]
  BY <1>1, <1>2 DEF Registers
<1>4. /\ Below \in Seq(Act) /\ Len(Below) = D - 1
      /\ \A k \in 1 .. D - 1 : Below[k] = calls[k]
  BY <1>2, TopReplaced
<1>5. TypeOK'
  <2>1. ra \in Fns \cup {Outside}
    BY <1>2, <1>3
  <2>. QED  BY <1>1, <1>4, <2>1, RegisterTypes DEF Inv, TypeOK, Act
<1>6. Stack(Below)
  <2>1. D - 1 \in Nat
    BY <1>2
  <2>2. \A k \in 1 .. D - 1 : Bottom(Below[k]) >= -StackSize
    BY <1>2, <1>4 DEF Stack, D
  <2>3. \A k \in 1 .. D - 1, l \in 1 .. D - 1 : k < l => Below[l].base <= Bottom(Below[k])
    BY <1>2, <1>4 DEF Stack, D
  <2>4. ASSUME NEW k \in 1 .. (D - 1) - 1
        PROVE  /\ Below[k + 1].base = Bottom(Below[k])
               /\ HasCalls[Below[k].fn]
               /\ \A j \in SRegs : j >= CalleeSave[Below[k].fn] =>
                                     Below[k + 1].entry[j] = Below[k].entry[j]
    <3>1. k \in 1 .. D - 1 /\ k + 1 \in 1 .. D - 1
      BY <1>2
    <3>2. Below[k] = calls[k] /\ Below[k + 1] = calls[k + 1]
      BY <1>4, <3>1
    <3>. QED  BY <1>2, <3>1, <3>2 DEF Stack, D
  <2>. QED  BY <1>4, <2>2, <2>3, <2>4 DEF Stack
<1>7. Stack(calls)'
  BY <1>1, <1>6 DEF Stack, Bottom, FrameEnd
<1>8. CASE D = 1
  <2>1. ra = Outside /\ ra \notin Fns
    BY <1>3, <1>8, ValuesAssumption DEF FnOf
  <2>2. Below = <<>>
    BY <1>4, <1>8
  <2>. QED  BY <1>1, <1>5, <1>7, <2>1, <2>2 DEF Inv
<1>9. CASE D # 1
  <2>1. D - 1 \in 1 .. D - 1 /\ D - 1 \in 1 .. D /\ D - 1 \in Nat /\ D - 1 >= 1
    BY <1>2, <1>9
  <2>. DEFINE a == calls[D - 1]
  <2>2. a \in Act /\ Below[D - 1] = a /\ FpOf(calls, D) = a.base /\ FnOf(calls, D) = a.fn
    BY <1>2, <1>4, <1>9, <2>1 DEF FpOf, FnOf, D
  <2>3. a.fn \in Fns /\ pc' = "body" /\ fn' = a.fn
    BY <1>1, <1>3, <2>2 DEF Act
  <2>4. /\ Top.base = Bottom(a) /\ HasCalls[a.fn]
        /\ \A j \in SRegs : j >= CalleeSave[a.fn] => Top.entry[j] = a.entry[j]
    <3>1. (D - 1) + 1 = D
      BY <1>2
    <3>. QED  BY <1>2, <2>1, <3>1 DEF Stack, D
  <2>5. \A k \in 1 .. D - 1 : InFrame(mem, Below, k, "body", 0)
    BY <1>1, <1>2, <1>4, LowerKept
  <2>6. D' = D - 1 /\ Top' = a /\ calls' = Below
    BY <1>1, <1>4, <2>2 DEF D, Top
  <2>7. Registers'
    <3>1. Bottom(Top)' = Bottom(a)
      BY <2>6 DEF Bottom, FrameEnd
    <3>. QED  BY <1>1, <1>3, <2>2, <2>3, <2>4, <2>6, <3>1 DEF Registers, Prologue
  <2>8. \A k \in 1 .. D' - 1 : k \in 1 .. D - 1
    BY <1>2, <2>6
  <2>. QED  BY <1>1, <1>5, <1>7, <2>1, <2>3, <2>5, <2>6, <2>7, <2>8 DEF Inv, InFrame
<1>. QED  BY <1>8, <1>9

-----------------------------------------------------------------------------
(* The invariant and what follows from it.                                  *)

LEMMA InitInv == Init => Inv
<1>. SUFFICES ASSUME Init PROVE Inv
  OBVIOUS
<1>1. /\ fn \in Fns /\ frame_size(fn) <= StackSize /\ pc = "store_fp" /\ i = 0
      /\ sp = 0 /\ fp = 0 /\ ra = Outside /\ s \in [SRegs -> Data] /\ t \in Data
      /\ mem = [x \in Addr |-> <<Junk, 0>>]
      /\ calls = <<Activation(fn, 0)>>
  BY DEF Init
<1>. DEFINE a == Activation(fn, 0)
<1>2. /\ s \in [SRegs -> Values] /\ t \in Values /\ StackSize \in Nat /\ NS \in Nat
      /\ frame_size(fn) \in Nat
  BY <1>1, Sizes, SizesOf DEF Values
<1>3. a \in Act /\ a.fn = fn /\ a.base = 0 /\ a.entry = s /\ a.saved = {} /\ a.locals = 0
  BY <1>1, <1>2 DEF Activation, Act
<1>4. Bottom(a) >= -StackSize
  BY <1>1, <1>2, <1>3 DEF Bottom, FrameEnd
<1>. HIDE DEF a
<1>5. calls = <<a>> /\ calls \in Seq(Act) /\ Len(calls) = 1 /\ D = 1 /\ calls[1] = a /\ Top = a
  BY <1>1, <1>3 DEF a, D, Top
<1>6. TypeOK
  <2>1. mem \in [Addr -> Trytes]
    BY <1>1 DEF Trytes, Words
  <2>. QED  BY <1>1, <1>2, <1>5, <2>1 DEF TypeOK, Prologue, Act
<1>7. Stack(calls)
  BY <1>4, <1>5 DEF Stack
<1>8. InFrame(mem, calls, D, pc, i)
  BY <1>1, <1>3, <1>5 DEF InFrame, Prologue
<1>9. Registers
  BY <1>1, <1>3, <1>5 DEF Registers, FpOf, FnOf, Prologue
<1>. QED  BY <1>1, <1>5, <1>6, <1>7, <1>8, <1>9 DEF Inv

LEMMA NextInv == Inv /\ [Next]_vars => Inv'
<1>. SUFFICES ASSUME Inv, [Next]_vars PROVE Inv'
  OBVIOUS
<1>1. CASE StoreFp \/ SetFp \/ StoreRa \/ Reserve \/ StoreS \/ EndStores
  BY <1>1, StoreFpInv, SetFpInv, StoreRaInv, ReserveInv, StoreSInv, EndStoresInv
<1>2. CASE Compute \/ ComputeTemp \/ Call \/ Save \/ Restore
  BY <1>2, ComputeInv, ComputeTempInv, CallInv, SaveInv, RestoreInv
<1>3. CASE Alloc \/ Dealloc \/ StoreLocal
  BY <1>3, AllocInv, DeallocInv, StoreLocalInv
<1>4. CASE Leave \/ LoadS \/ EndLoads \/ LoadRa \/ Drop \/ LoadFp \/ Ret
  BY <1>4, LeaveInv, LoadSInv, EndLoadsInv, LoadRaInv, DropInv, LoadFpInv, RetInv
<1>5. CASE UNCHANGED vars
  <2>1. /\ pc' = pc /\ i' = i /\ mem' = mem /\ calls' = calls /\ fn' = fn /\ sp' = sp
        /\ fp' = fp /\ ra' = ra /\ s' = s /\ t' = t
    BY <1>5 DEF vars
  <2>2. TypeOK'
    BY <2>1 DEF Inv, TypeOK
  <2>3. ASSUME Registers PROVE Registers'
    <3>1. D' = D /\ Top' = Top
      BY <2>1 DEF D, Top
    <3>2. Bottom(Top)' = Bottom(Top)
      BY <3>1 DEF Bottom, FrameEnd
    <3>3. FpOf(calls, D)' = FpOf(calls, D) /\ FnOf(calls, D)' = FnOf(calls, D)
      BY <2>1, <3>1 DEF FpOf, FnOf
    <3>. QED  BY <2>1, <2>3, <3>1, <3>2, <3>3 DEF Registers
  <2>4. Stack(calls)' <=> Stack(calls)
    BY <2>1 DEF Stack, Bottom, FrameEnd
  <2>. QED  BY <2>1, <2>2, <2>3, <2>4 DEF Inv, D, InFrame, FpOf, FnOf
<1>. QED  BY <1>1, <1>2, <1>3, <1>4, <1>5 DEF Next

(* At every instruction the frames on the stack are disjoint and hold what  *)
(* their prologues have stored so far.                                      *)
THEOREM InvAlways == Spec => []Inv
BY InitInv, NextInv, PTL DEF Spec

(* Whatever is called, stored and allocated, the stack pointer stays within *)
(* the stack and the return address is a function's: the code never jumps   *)
(* to what it has read from a slot, a local or beyond the stack (TypeOK).   *)
THEOREM FrameTypes == Spec => []TypeOK
<1>1. Inv => TypeOK
  BY DEF Inv
<1>. QED  BY <1>1, InvAlways, PTL

(* At any depth of calls, the frames of all callers hold the frame pointers *)
(* and return addresses that lead back through them (FrameChain).           *)
THEOREM FramesAreChained == Spec => []FrameChain
<1>1. Inv => FrameChain
  <2>. SUFFICES ASSUME Inv, pc = "body"
                PROVE  /\ fp = Top.base
                       /\ \A k \in DOMAIN calls :
                            /\ Loaded(calls[k].base - fp_fploc) = CallerFp(k)
                            /\ HasCalls[calls[k].fn] =>
                                 Loaded(calls[k].base - ra_fploc) = CallerFn(k)
    BY DEF FrameChain
  <2>1. /\ fp = Top.base /\ D \in Nat /\ calls \in Seq(Act) /\ DOMAIN calls = 1 .. D
        /\ InFrame(mem, calls, D, "body", i)
    BY BodyFacts, TopFacts DEF D
  <2>2. ASSUME NEW k \in 1 .. D
        PROVE  /\ Loaded(calls[k].base - fp_fploc) = CallerFp(k)
               /\ HasCalls[calls[k].fn] => Loaded(calls[k].base - ra_fploc) = CallerFn(k)
    <3>1. /\ HoldsIn(mem, calls[k].base - fp_fploc, FpOf(calls, k))
          /\ HasCalls[calls[k].fn] => HoldsIn(mem, calls[k].base - ra_fploc, FnOf(calls, k))
      <4>1. CASE k = D
        BY <2>1, <4>1 DEF InFrame
      <4>2. CASE k # D
        <5>1. k \in 1 .. D - 1
          BY <2>1, <4>2
        <5>. QED  BY <5>1 DEF Inv, InFrame
      <4>. QED  BY <4>1, <4>2
    <3>2. calls[k].base - fp_fploc \in Int /\ calls[k].base - ra_fploc \in Int
      <4>1. calls[k] \in Act
        BY <2>1
      <4>2. calls[k].base \in Int
        BY <4>1, Sizes DEF Act
      <4>. QED  BY <4>2, Sizes
    <3>. QED  BY <3>1, <3>2, LoadedFacts DEF FpOf, FnOf, CallerFp, CallerFn
  <2>. QED  BY <2>1, <2>2
<1>. QED  BY <1>1, InvAlways, PTL

(* A function that returns leaves the stack pointer, the frame pointer and  *)
(* every s register as its caller had them (GivenBack), whichever of them   *)
(* it and the functions it called have used.                                *)
THEOREM RegistersGivenBack == Spec => GivenBack
<1>1. Inv /\ [Next]_vars =>
        [Ret => sp = Top.base /\ fp = CallerFp(Len(calls)) /\ s = Top.entry]_vars
  <2>. SUFFICES ASSUME Inv, Ret
                PROVE  sp = Top.base /\ fp = CallerFp(Len(calls)) /\ s = Top.entry
    OBVIOUS
  <2>1. pc = "ret" /\ Registers
    BY DEF Ret, Inv
  <2>2. sp = Top.base /\ fp = FpOf(calls, D) /\ \A j \in SRegs : s[j] = Top.entry[j]
    BY <2>1 DEF Registers
  <2>3. s = Top.entry
    BY <2>1, <2>2, TopFacts, RegisterTypes
  <2>. QED  BY <2>2, <2>3 DEF FpOf, CallerFp, D
<1>. QED  BY <1>1, InvAlways, PTL DEF Spec, GivenBack

-----------------------------------------------------------------------------
(* The refinement of Convention. What the convention sees of an activation  *)
(* is read from memory; parametrised by the memory and the activations,     *)
(* the same words serve before and after a step.                            *)

LoadedIn(m, x) == IF x \in Addr /\ HoldsIn(m, x, m[x][1]) THEN m[x][1] ELSE Junk

View(m, a) ==
  [fn |-> a.fn, entry |-> a.entry,
   slots |-> [k \in a.saved |-> LoadedIn(m, a.base - call_save_fploc(a.fn, k))],
   locals |-> [n \in 1 .. a.locals |-> m[a.base - frame_size(a.fn) - n]]]

Views(m, cs) == [k \in DOMAIN cs |-> View(m, cs[k])]

\* the refinement mapping of Promised
Seen ==
  [k \in DOMAIN calls |->
     [fn |-> calls[k].fn, entry |-> calls[k].entry,
      slots |-> Slots(calls[k]), locals |-> Locals(calls[k])]]

LEMMA SeenIs == Seen = Views(mem, calls) /\ Seen' = Views(mem', calls')
BY DEF Seen, Views, View, Slots, Locals, Loaded, LoadedIn, Holds, HoldsIn

LEMMA SameLoaded ==
  ASSUME NEW m, NEW m2, NEW x \in Int, \A k \in 0 .. 2 : x + k \in Addr => m2[x + k] = m[x + k]
  PROVE  LoadedIn(m2, x) = LoadedIn(m, x)
<1>1. x + 0 = x
  OBVIOUS
<1>2. x \in Addr => m2[x] = m[x]
  BY <1>1
<1>3. \A w : HoldsIn(m2, x, w) <=> HoldsIn(m, x, w)
  BY DEF HoldsIn
<1>. QED  BY <1>2, <1>3 DEF LoadedIn

\* where the words and cells of an activation are
LEMMA CellsOf ==
  ASSUME NEW a \in Act, a.saved \subseteq 0 .. CallSave[a.fn] - 1, Bottom(a) >= -StackSize
  PROVE  /\ a.base \in Int /\ a.base <= 0 /\ FrameEnd(a) \in Int /\ FrameEnd(a) <= a.base
         /\ Bottom(a) = FrameEnd(a) - a.locals /\ a.locals \in Nat /\ a.fn \in Fns
         /\ FrameEnd(a) = a.base - frame_size(a.fn)
         /\ \A k \in a.saved :
              /\ a.base - call_save_fploc(a.fn, k) \in Int
              /\ \A j \in 0 .. 2 : /\ (a.base - call_save_fploc(a.fn, k)) + j \in Addr
                                   /\ FrameEnd(a) <= (a.base - call_save_fploc(a.fn, k)) + j
                                   /\ (a.base - call_save_fploc(a.fn, k)) + j < a.base
         /\ \A n \in 1 .. a.locals :
              /\ a.base - frame_size(a.fn) - n \in Addr
              /\ Bottom(a) <= a.base - frame_size(a.fn) - n
              /\ a.base - frame_size(a.fn) - n < FrameEnd(a)
<1>1. /\ a.base \in Int /\ a.base <= 0 /\ a.locals \in Nat /\ a.fn \in Fns
  BY Sizes DEF Act
<1>2. /\ frame_size(a.fn) \in Nat /\ FrameEnd(a) = a.base - frame_size(a.fn)
      /\ Bottom(a) = FrameEnd(a) - a.locals
  BY <1>1, SizesOf DEF FrameEnd, Bottom
<1>3. StackSize \in Nat /\ Addr = -StackSize .. -1
  BY Sizes
<1>4. ASSUME NEW k \in a.saved
      PROVE  /\ a.base - call_save_fploc(a.fn, k) \in Int
             /\ \A j \in 0 .. 2 : /\ (a.base - call_save_fploc(a.fn, k)) + j \in Addr
                                  /\ FrameEnd(a) <= (a.base - call_save_fploc(a.fn, k)) + j
                                  /\ (a.base - call_save_fploc(a.fn, k)) + j < a.base
  <2>. DEFINE o == call_save_fploc(a.fn, k)
  <2>1. o \in Int /\ 9 <= o /\ o <= frame_size(a.fn)
    BY <1>1, CallSlot
  <2>. HIDE DEF o
  <2>2. a.base - o \in Int
    BY <1>1, <2>1
  <2>3. ASSUME NEW j \in 0 .. 2
        PROVE  -StackSize <= (a.base - o) + j /\ FrameEnd(a) <= (a.base - o) + j
               /\ (a.base - o) + j < a.base /\ (a.base - o) + j <= -1 /\ (a.base - o) + j \in Int
    BY <1>1, <1>2, <1>3, <2>1
  <2>4. \A j \in 0 .. 2 : (a.base - o) + j \in Addr
    BY <1>3, <2>3
  <2>. QED  BY <2>2, <2>3, <2>4 DEF o
<1>5. ASSUME NEW n \in 1 .. a.locals
      PROVE  /\ a.base - frame_size(a.fn) - n \in Addr
             /\ Bottom(a) <= a.base - frame_size(a.fn) - n
             /\ a.base - frame_size(a.fn) - n < FrameEnd(a)
  BY <1>1, <1>2, <1>3
<1>6. FrameEnd(a) \in Int /\ FrameEnd(a) <= a.base
  BY <1>1, <1>2
<1>. QED  BY <1>1, <1>2, <1>4, <1>5, <1>6

\* an activation looks the same while its frame and its locals are the same
LEMMA ViewKept ==
  ASSUME NEW a \in Act, a.saved \subseteq 0 .. CallSave[a.fn] - 1, Bottom(a) >= -StackSize,
         NEW m, NEW m2, \A x \in Addr : Bottom(a) <= x /\ x < a.base => m2[x] = m[x]
  PROVE  View(m2, a) = View(m, a)
<1>1. /\ Bottom(a) \in Int /\ Bottom(a) <= FrameEnd(a) /\ FrameEnd(a) \in Int
      /\ FrameEnd(a) <= a.base /\ a.base \in Int
  BY CellsOf
<1>2. ASSUME NEW k \in a.saved
      PROVE  LoadedIn(m2, a.base - call_save_fploc(a.fn, k)) = LoadedIn(m, a.base - call_save_fploc(a.fn, k))
  <2>. DEFINE x == a.base - call_save_fploc(a.fn, k)
  <2>1. x \in Int /\ \A j \in 0 .. 2 : x + j \in Addr /\ FrameEnd(a) <= x + j /\ x + j < a.base
    BY CellsOf
  <2>. HIDE DEF x
  <2>2. ASSUME NEW j \in 0 .. 2 PROVE m2[x + j] = m[x + j]
    <3>1. x + j \in Addr /\ FrameEnd(a) <= x + j /\ x + j < a.base /\ x + j \in Int
      BY <2>1
    <3>2. Bottom(a) <= x + j
      BY <1>1, <3>1
    <3>. QED  BY <3>1, <3>2
  <2>3. LoadedIn(m2, x) = LoadedIn(m, x)
    BY <2>1, <2>2, SameLoaded
  <2>. QED  BY <2>3 DEF x
<1>3. ASSUME NEW n \in 1 .. a.locals
      PROVE  m2[a.base - frame_size(a.fn) - n] = m[a.base - frame_size(a.fn) - n]
  <2>. DEFINE x == a.base - frame_size(a.fn) - n
  <2>1. x \in Addr /\ Bottom(a) <= x /\ x < FrameEnd(a)
    BY CellsOf
  <2>. HIDE DEF x
  <2>2. x < a.base
    BY <1>1, <2>1, Sizes
  <2>3. m2[x] = m[x]
    BY <2>1, <2>2
  <2>. QED  BY <2>3 DEF x
<1>. QED  BY <1>2, <1>3 DEF View

\* the activations that the invariant lets have slots only in their frames
LEMMA SavedInFrame ==
  ASSUME Inv, pc # "outside", NEW k \in 1 .. D
  PROVE  /\ calls[k] \in Act /\ Bottom(calls[k]) >= -StackSize
         /\ calls[k].saved \subseteq 0 .. CallSave[calls[k].fn] - 1
<1>1. D \in Nat /\ calls \in Seq(Act) /\ Bottom(calls[k]) >= -StackSize
  BY TopFacts DEF Inv, Stack, D
<1>2. \E p, n : InFrame(mem, calls, k, p, n)
  <2>1. k = D \/ k \in 1 .. D - 1
    BY <1>1
  <2>. QED  BY <2>1 DEF Inv
<1>. QED  BY <1>1, <1>2 DEF InFrame, D

\* a write into the frame of the top activation does not show in the others
LEMMA LowerSeen ==
  ASSUME Inv, pc # "outside", NEW m, \A x \in Addr : Top.base <= x => m[x] = mem[x]
  PROVE  \A k \in 1 .. D - 1 : View(m, calls[k]) = View(mem, calls[k])
<1>. SUFFICES ASSUME NEW k \in 1 .. D - 1 PROVE View(m, calls[k]) = View(mem, calls[k])
  OBVIOUS
<1>1. /\ D \in Nat /\ Top = calls[D] /\ Top.base \in Int /\ k \in 1 .. D /\ D \in 1 .. D /\ k < D
  BY TopFacts
<1>2. /\ calls[k] \in Act /\ Bottom(calls[k]) >= -StackSize
      /\ calls[k].saved \subseteq 0 .. CallSave[calls[k].fn] - 1
  BY <1>1, SavedInFrame
<1>3. Top.base <= Bottom(calls[k])
  BY <1>1 DEF Inv, Stack, D
<1>4. Bottom(calls[k]) \in Int
  BY <1>2, CellsOf
<1>5. \A x \in Addr : Bottom(calls[k]) <= x /\ x < calls[k].base => m[x] = mem[x]
  BY <1>1, <1>3, <1>4, Sizes
<1>. QED  BY <1>2, <1>5, ViewKept

\* what the convention sees is a sequence of as many activations
LEMMA ViewsFacts ==
  ASSUME NEW cs \in Seq(Act), NEW m
  PROVE  /\ Views(m, cs) \in Seq({View(m, a) : a \in Act})
         /\ DOMAIN Views(m, cs) = 1 .. Len(cs) /\ Len(Views(m, cs)) = Len(cs)
         /\ \A k \in 1 .. Len(cs) : Views(m, cs)[k] = View(m, cs[k])
<1>1. Len(cs) \in Nat /\ DOMAIN cs = 1 .. Len(cs) /\ \A k \in 1 .. Len(cs) : cs[k] \in Act
  OBVIOUS
<1>. DEFINE v == [k \in 1 .. Len(cs) |-> View(m, cs[k])]
            S == {View(m, a) : a \in Act}
<1>2. Views(m, cs) = v
  BY <1>1 DEF Views
<1>3. \A k \in 1 .. Len(cs) : View(m, cs[k]) \in S
  BY <1>1
<1>. HIDE DEF S
<1>4. v \in Seq(S)
  BY <1>1, <1>3
<1>5. DOMAIN v = 1 .. Len(cs) /\ \A k \in 1 .. Len(cs) : v[k] = View(m, cs[k])
  OBVIOUS
<1>. HIDE DEF v
<1>6. Len(v) = Len(cs)
  <2>1. Len(v) \in Nat /\ DOMAIN v = 1 .. Len(v)
    BY <1>4
  <2>. QED  BY <1>1, <1>5, <2>1
<1>. QED  BY <1>2, <1>4, <1>5, <1>6 DEF S

LEMMA SequencesEqual ==
  ASSUME NEW S, NEW u \in Seq(S), NEW v \in Seq(S), Len(u) = Len(v), \A k \in 1 .. Len(u) : u[k] = v[k]
  PROVE  u = v
OBVIOUS

LEMMA TopViews ==
  ASSUME Inv, pc # "outside"
  PROVE  /\ Seen # <<>> /\ Len(Seen) = D /\ Seen[Len(Seen)] = View(mem, Top) /\ D \in Nat
         /\ DOMAIN Seen = 1 .. D /\ \A k \in 1 .. D : Seen[k] = View(mem, calls[k])
         /\ Seen \in Seq({View(mem, a) : a \in Act})
<1>1. D \in Nat /\ D >= 1 /\ calls \in Seq(Act) /\ Top = calls[D]
  BY TopFacts
<1>. DEFINE V == Views(mem, calls)
            S == {View(mem, a) : a \in Act}
<1>2. V \in Seq(S) /\ DOMAIN V = 1 .. D /\ Len(V) = D /\ \A k \in 1 .. D : V[k] = View(mem, calls[k])
  BY <1>1, ViewsFacts DEF D
<1>3. Seen = V
  BY SeenIs
<1>. HIDE DEF V, S
<1>4. V # <<>>
  BY <1>1, <1>2
<1>. QED  BY <1>1, <1>2, <1>3, <1>4 DEF S

\* the top activation is replaced, and the frames above it stay as they are
LEMMA RevisedSeen ==
  ASSUME Inv, pc # "outside", NEW a \in Act, calls' = Append(Below, a),
         \A x \in Addr : Top.base <= x => mem'[x] = mem[x]
  PROVE  Seen' = Append(SubSeq(Seen, 1, Len(Seen) - 1), View(mem', a))
<1>. DEFINE cs == Append(Below, a)
            S  == {View(mem', b) : b \in Act} \cup {View(mem, b) : b \in Act}
            W  == Views(mem', cs)
            U  == SubSeq(Seen, 1, Len(Seen) - 1)
<1>1. D \in Nat /\ D >= 1 /\ calls \in Seq(Act)
  BY TopFacts
<1>2. /\ cs \in Seq(Act) /\ Len(cs) = D /\ cs[D] = a
      /\ \A k \in 1 .. D - 1 : cs[k] = calls[k]
  BY <1>1, TopReplaced
<1>3. Seen' = W
  BY SeenIs
<1>. HIDE DEF cs
<1>4. /\ W \in Seq({View(mem', b) : b \in Act}) /\ Len(W) = D
      /\ \A k \in 1 .. D : W[k] = View(mem', cs[k])
  BY <1>2, ViewsFacts
<1>. HIDE DEF W
<1>5. /\ Seen \in Seq({View(mem, b) : b \in Act}) /\ Len(Seen) = D
      /\ \A k \in 1 .. D : Seen[k] = View(mem, calls[k])
  BY TopViews
<1>6. /\ U \in Seq({View(mem, b) : b \in Act}) /\ Len(U) = D - 1
      /\ \A k \in 1 .. D - 1 : U[k] = Seen[k]
  <2>. HIDE DEF Seen
  <2>. QED  BY <1>1, <1>5
<1>. HIDE DEF U
<1>7. View(mem', a) \in S /\ W \in Seq(S) /\ U \in Seq(S)
  <2>1. {View(mem', b) : b \in Act} \subseteq S /\ {View(mem, b) : b \in Act} \subseteq S
        /\ View(mem', a) \in {View(mem', b) : b \in Act}
    OBVIOUS
  <2>. HIDE DEF S
  <2>. QED  BY <1>4, <1>6, <2>1
<1>. HIDE DEF S
<1>8. /\ Append(U, View(mem', a)) \in Seq(S) /\ Len(Append(U, View(mem', a))) = D
      /\ Append(U, View(mem', a))[D] = View(mem', a)
      /\ \A k \in 1 .. D - 1 : Append(U, View(mem', a))[k] = U[k]
  BY <1>1, <1>6, <1>7
<1>9. \A k \in 1 .. D - 1 : View(mem', calls[k]) = View(mem, calls[k])
  BY LowerSeen
<1>10. ASSUME NEW k \in 1 .. D PROVE W[k] = Append(U, View(mem', a))[k]
  <2>1. CASE k = D
    BY <1>2, <1>4, <1>8, <2>1
  <2>2. CASE k # D
    <3>1. k \in 1 .. D - 1
      BY <1>1, <2>2
    <3>. QED  BY <1>2, <1>4, <1>5, <1>6, <1>8, <1>9, <3>1
  <2>. QED  BY <2>1, <2>2
<1>11. W = Append(U, View(mem', a))
  BY <1>4, <1>7, <1>8, <1>10, SequencesEqual
<1>. QED  BY <1>3, <1>11 DEF U

\* nothing the convention sees changes
LEMMA SeenKept ==
  ASSUME Inv, pc # "outside", calls' = calls, View(mem', Top) = View(mem, Top),
         \A x \in Addr : Top.base <= x => mem'[x] = mem[x]
  PROVE  Seen' = Seen
<1>1. D \in Nat /\ D >= 1 /\ calls \in Seq(Act) /\ Top = calls[D] /\ DOMAIN calls = 1 .. D
  BY TopFacts DEF D
<1>2. \A k \in 1 .. D - 1 : View(mem', calls[k]) = View(mem, calls[k])
  BY LowerSeen
<1>3. \A k \in 1 .. D : View(mem', calls[k]) = View(mem, calls[k])
  <2>1. \A k \in 1 .. D : k = D \/ k \in 1 .. D - 1
    BY <1>1
  <2>. QED  BY <1>1, <1>2, <2>1
<1>. QED  BY <1>1, <1>3, SeenIs DEF Views

\* the s registers as the convention sees them
Handed == IF pc \in Epilogue THEN Top.entry ELSE s

LEMMA EmptyView ==
  ASSUME NEW a, a.saved = {}, a.locals = 0, NEW m
  PROVE  View(m, a) = [fn |-> a.fn, entry |-> a.entry, slots |-> <<>>, locals |-> <<>>]
BY DEF View

LEMMA AboveStored ==
  ASSUME NEW b \in Int, NEW o \in Int, 3 <= o, NEW w
  PROVE  \A x \in Addr : b <= x => Stored(b - o, w)[x] = mem[x]
<1>. SUFFICES ASSUME NEW x \in Addr, b <= x PROVE Stored(b - o, w)[x] = mem[x]
  OBVIOUS
<1>1. x \notin (b - o) .. (b - o) + 2
  BY Sizes
<1>. QED  BY <1>1 DEF Stored

\* the prologue is no step of the convention
LEMMA PrologueStep ==
  ASSUME Inv, StoreFp \/ SetFp \/ StoreRa \/ Reserve \/ StoreS \/ EndStores
  PROVE  UNCHANGED <<fn, pc \in Epilogue, Handed, t, Seen>>
<1>1. /\ pc \in Prologue /\ pc' \in Prologue \cup {"body"} /\ calls' = calls
      /\ fn' = fn /\ s' = s /\ t' = t
  BY DEF StoreFp, SetFp, StoreRa, Reserve, StoreS, EndStores, Prologue
<1>2. pc # "outside" /\ pc \notin Epilogue /\ pc' \notin Epilogue
  BY <1>1 DEF Prologue, Epilogue
<1>3. Registers
  BY <1>2 DEF Inv
<1>4. Top.base \in Int
  BY <1>2, TopFacts
<1>5. \A x \in Addr : Top.base <= x => mem'[x] = mem[x]
  <2>1. CASE StoreFp
    <3>1. sp = Top.base /\ mem' = Stored(sp - fp_fploc, fp)
      BY <1>3, <2>1 DEF StoreFp, Registers
    <3>2. fp_fploc \in Int /\ 3 <= fp_fploc
      BY Sizes
    <3>. QED  BY <1>4, <3>1, <3>2, AboveStored
  <2>2. CASE StoreRa
    <3>1. fp = Top.base /\ mem' = Stored(fp - ra_fploc, ra)
      BY <1>3, <2>2 DEF StoreRa, Registers
    <3>2. ra_fploc \in Int /\ 3 <= ra_fploc
      BY Sizes
    <3>. QED  BY <1>4, <3>1, <3>2, AboveStored
  <2>3. CASE StoreS
    <3>1. fp = Top.base /\ mem' = Stored(fp - callee_save_fploc(i), s[i])
      BY <1>3, <2>3 DEF StoreS, Registers
    <3>2. callee_save_fploc(i) \in Int /\ 3 <= callee_save_fploc(i)
      BY RegisterTypes DEF callee_save_fploc
    <3>. QED  BY <1>4, <3>1, <3>2, AboveStored
  <2>4. CASE SetFp \/ Reserve \/ EndStores
    BY <2>4 DEF SetFp, Reserve, EndStores
  <2>. QED  BY <2>1, <2>2, <2>3, <2>4
<1>6. View(mem', Top) = View(mem, Top)
  BY <1>1, <1>3, EmptyView DEF Registers
<1>7. Seen' = Seen
  BY <1>1, <1>2, <1>5, <1>6, SeenKept
<1>8. Handed' = Handed
  BY <1>1, <1>2 DEF Handed
<1>9. (pc \in Epilogue)' = (pc \in Epilogue)
  BY <1>2 DEF Epilogue
<1>. QED  BY <1>1, <1>7, <1>8, <1>9

\* nor are the loads of the epilogue
LEMMA EpilogueStep ==
  ASSUME Inv, LoadS \/ EndLoads \/ LoadRa \/ Drop \/ LoadFp
  PROVE  UNCHANGED <<fn, pc \in Epilogue, Handed, t, Seen>>
<1>1. /\ pc \in Epilogue /\ pc' \in Epilogue /\ calls' = calls /\ mem' = mem
      /\ fn' = fn /\ t' = t
  BY DEF LoadS, EndLoads, LoadRa, Drop, LoadFp, Epilogue
<1>2. Seen' = Seen
  BY <1>1, SeenIs
<1>3. Handed' = Handed
  BY <1>1 DEF Handed, Top
<1>4. (pc \in Epilogue)' = (pc \in Epilogue)
  BY <1>1 DEF Epilogue
<1>. QED  BY <1>1, <1>2, <1>3, <1>4

\* the body runs on what the convention calls running
LEMMA BodyRuns ==
  ASSUME Inv, pc = "body"
  PROVE  Promised!Running /\ pc \notin Epilogue /\ Handed = s
<1>1. pc \notin Epilogue /\ Handed = s
  BY DEF Epilogue, Handed
<1>2. Seen # <<>>
  BY TopViews
<1>. QED  BY <1>1, <1>2 DEF Promised!Running, Seen

LEMMA ComputeStep == ASSUME Inv, Compute PROVE Promised!Compute
<1>1. pc = "body" /\ pc' = pc /\ fn' = fn /\ t' = t /\ calls' = calls /\ mem' = mem
  BY DEF Compute
<1>2. PICK k \in SRegs, v \in Data : k < CalleeSave[fn] /\ s' = [s EXCEPT ![k] = v]
  BY DEF Compute
<1>3. Seen' = Seen /\ Promised!Running /\ Handed = s /\ Handed' = s' /\ pc \notin Epilogue
  BY <1>1, SeenIs, BodyRuns DEF Handed, Epilogue
<1>4. v \in Values /\ k \in Promised!SRegs
  BY DEF Values, SRegs, Promised!SRegs
<1>. QED  BY <1>1, <1>2, <1>3, <1>4 DEF Promised!Compute, Seen, Handed

LEMMA ComputeTempStep == ASSUME Inv, ComputeTemp PROVE Promised!ComputeTemp
<1>1. /\ pc = "body" /\ pc' = pc /\ fn' = fn /\ s' = s /\ calls' = calls /\ mem' = mem
      /\ t' \in Values
  BY DEF ComputeTemp, Values
<1>2. Seen' = Seen /\ Promised!Running /\ Handed' = Handed
  BY <1>1, SeenIs, BodyRuns DEF Handed, Top
<1>. QED  BY <1>1, <1>2 DEF Promised!ComputeTemp, Seen, Handed

LEMMA LeaveStep == ASSUME Inv, Leave PROVE Promised!Leave
<1>1. /\ pc = "body" /\ pc' = "load_s" /\ fn' = fn /\ t' = t /\ calls' = calls /\ mem' = mem
  BY DEF Leave
<1>2. Seen' = Seen /\ Promised!Running /\ (pc \in Epilogue)' = TRUE
  BY <1>1, SeenIs, BodyRuns DEF Epilogue
<1>3. Handed' = Top.entry
  BY <1>1 DEF Handed, Epilogue, Top
<1>4. Promised!Top.entry = Top.entry
  <2>1. Seen[Len(Seen)].entry = Top.entry
    BY <1>1, TopViews DEF View
  <2>. QED  BY <2>1 DEF Promised!Top, Seen
<1>. QED  BY <1>1, <1>2, <1>3, <1>4 DEF Promised!Leave, Seen, Handed

LEMMA RestoreStep == ASSUME Inv, Restore PROVE Promised!Fill
<1>1. /\ pc = "body" /\ pc' = pc /\ fn' = fn /\ s' = s /\ calls' = calls /\ mem' = mem
  BY DEF Restore
<1>2. PICK k \in Top.saved : t' = Loaded(fp - call_save_fploc(fn, k))
  BY DEF Restore
<1>3. Seen' = Seen /\ Promised!Running /\ Handed' = Handed
  BY <1>1, SeenIs, BodyRuns DEF Handed, Top
<1>4. fp = Top.base /\ fn = Top.fn
  BY <1>1, BodyFacts
<1>5. Promised!Top.slots = View(mem, Top).slots
  <2>1. Seen[Len(Seen)] = View(mem, Top)
    BY <1>1, TopViews
  <2>. QED  BY <2>1 DEF Promised!Top, Seen
<1>6. k \in DOMAIN Promised!Top.slots /\ t' = Promised!Top.slots[k]
  <2>1. \A x : LoadedIn(mem, x) = Loaded(x)
    BY DEF Loaded, LoadedIn, Holds, HoldsIn
  <2>. QED  BY <1>2, <1>4, <1>5, <2>1 DEF View
<1>. QED  BY <1>1, <1>3, <1>6 DEF Promised!Fill, Seen, Handed

\* the locals of an activation, as a sequence
LEMMA LocalsOf ==
  ASSUME NEW a \in Act, a.saved \subseteq 0 .. CallSave[a.fn] - 1, Bottom(a) >= -StackSize,
         NEW m \in [Addr -> Trytes]
  PROVE  /\ View(m, a).locals \in Seq(Trytes) /\ Len(View(m, a).locals) = a.locals
         /\ a.locals \in Nat /\ DOMAIN View(m, a).locals = 1 .. a.locals
         /\ \A n \in 1 .. a.locals : View(m, a).locals[n] = m[a.base - frame_size(a.fn) - n]
<1>. DEFINE l == [n \in 1 .. a.locals |-> m[a.base - frame_size(a.fn) - n]]
<1>1. a.locals \in Nat /\ \A n \in 1 .. a.locals : m[a.base - frame_size(a.fn) - n] \in Trytes
  BY CellsOf
<1>2. View(m, a).locals = l
  BY DEF View
<1>3. l \in Seq(Trytes)
  BY <1>1
<1>4. DOMAIN l = 1 .. a.locals /\ \A n \in 1 .. a.locals : l[n] = m[a.base - frame_size(a.fn) - n]
  OBVIOUS
<1>. HIDE DEF l
<1>5. Len(l) = a.locals
  <2>1. Len(l) \in Nat /\ DOMAIN l = 1 .. Len(l)
    BY <1>3
  <2>. QED  BY <1>1, <1>4, <2>1
<1>. QED  BY <1>1, <1>2, <1>3, <1>4, <1>5

\* the top activation
LEMMA TopSaved ==
  ASSUME Inv, pc # "outside"
  PROVE  /\ Top \in Act /\ Top.saved \subseteq 0 .. CallSave[Top.fn] - 1 /\ Bottom(Top) >= -StackSize
<1>1. Top = calls[D] /\ D \in 1 .. D
  BY TopFacts
<1>. QED  BY <1>1, SavedInFrame

LEMMA AllocStep == ASSUME Inv, Alloc PROVE Promised!Alloc
<1>1. /\ pc = "body" /\ pc' = pc /\ t' \in Values /\ fn' = fn /\ s' = s /\ mem' = mem
  BY DEF Alloc, Values
<1>2. PICK n \in 1 .. MaxLocals :
        /\ sp - n >= -StackSize
        /\ calls' = Append(Below, [Top EXCEPT !.locals = @ + n])
  BY DEF Alloc
<1>. DEFINE a == [Top EXCEPT !.locals = @ + n]
            V == View(mem, Top)
            W == View(mem, a)
<1>3. /\ Top \in Act /\ Top.saved \subseteq 0 .. CallSave[Top.fn] - 1 /\ Bottom(Top) >= -StackSize
      /\ sp = Bottom(Top) /\ n \in Nat /\ n > 0 /\ mem \in [Addr -> Trytes]
  BY <1>1, TopSaved, BodyFacts, StackAssumption, RegisterTypes
<1>4. /\ a \in Act /\ a.fn = Top.fn /\ a.base = Top.base /\ a.entry = Top.entry
      /\ a.locals = Top.locals + n /\ a.saved = Top.saved /\ Top.locals \in Nat
  BY <1>3 DEF Act
<1>5. Bottom(a) >= -StackSize
  <2>1. FrameEnd(a) = FrameEnd(Top) /\ FrameEnd(Top) \in Int
    BY <1>3, <1>4, CellsOf DEF FrameEnd
  <2>2. Bottom(a) = Bottom(Top) - n
    BY <1>3, <1>4, <2>1 DEF Bottom
  <2>. QED  BY <1>2, <1>3, <2>2
<1>6. calls' = Append(Below, a)
  BY <1>2
<1>. HIDE DEF a
<1>7. Seen' = Append(SubSeq(Seen, 1, Len(Seen) - 1), W)
  BY <1>1, <1>4, <1>6, RevisedSeen
<1>8. /\ V.locals \in Seq(Trytes) /\ Len(V.locals) = Top.locals
      /\ \A k \in 1 .. Top.locals : V.locals[k] = mem[Top.base - frame_size(Top.fn) - k]
  BY <1>3, LocalsOf
<1>9. /\ W.locals \in Seq(Trytes) /\ Len(W.locals) = a.locals
      /\ \A k \in 1 .. a.locals : W.locals[k] = mem[a.base - frame_size(a.fn) - k]
  BY <1>3, <1>4, <1>5, LocalsOf
<1>10. W = [V EXCEPT !.locals = W.locals]
  <2>1. W.slots = V.slots
    BY <1>4 DEF View
  <2>2. W = [fn |-> Top.fn, entry |-> Top.entry, slots |-> W.slots, locals |-> W.locals]
    BY <1>4 DEF View
  <2>3. V = [fn |-> Top.fn, entry |-> Top.entry, slots |-> V.slots, locals |-> V.locals]
    BY DEF View
  <2>. HIDE DEF V, W
  <2>. QED  BY <2>1, <2>2, <2>3
<1>. HIDE DEF V, W
<1>11. /\ Len(W.locals) > Len(V.locals) /\ SubSeq(W.locals, 1, Len(V.locals)) = V.locals
  <2>1. \A k \in 1 .. Top.locals : W.locals[k] = V.locals[k]
    BY <1>3, <1>4, <1>8, <1>9
  <2>2. /\ SubSeq(W.locals, 1, Top.locals) \in Seq(Trytes)
        /\ Len(SubSeq(W.locals, 1, Top.locals)) = Top.locals
        /\ \A k \in 1 .. Top.locals : SubSeq(W.locals, 1, Top.locals)[k] = W.locals[k]
    BY <1>3, <1>4, <1>9
  <2>3. SubSeq(W.locals, 1, Top.locals) = V.locals
    BY <1>8, <2>1, <2>2, SequencesEqual
  <2>. QED  BY <1>3, <1>4, <1>8, <1>9, <2>3
<1>12. Len(Seen') = Len(Seen) /\ Seen'[Len(Seen)] = W /\ Seen[Len(Seen)] = V
  <2>1. /\ Seen \in Seq({View(mem, b) : b \in Act}) /\ Len(Seen) = D /\ D \in Nat /\ Seen # <<>>
        /\ Seen[Len(Seen)] = V
    BY <1>1, TopViews DEF V
  <2>. DEFINE S == {View(mem, b) : b \in Act}
  <2>2. W \in S
    BY <1>4 DEF W
  <2>. HIDE DEF S, Seen
  <2>3. Seen' = Append(SubSeq(Seen, 1, Len(Seen) - 1), W)
    BY <1>7
  <2>. DEFINE q == Append(SubSeq(Seen, 1, Len(Seen) - 1), W)
  <2>4. Len(q) = Len(Seen) /\ q[Len(Seen)] = W
    BY <2>1, <2>2 DEF S
  <2>. QED  BY <2>1, <2>3, <2>4
<1>13. Promised!Running /\ Handed' = Handed
  BY <1>1, BodyRuns DEF Handed, Epilogue
<1>. DEFINE new == Seen'[Len(Seen)].locals
<1>14. /\ Len(new) > Len(Seen[Len(Seen)].locals)
       /\ SubSeq(new, 1, Len(Seen[Len(Seen)].locals)) = Seen[Len(Seen)].locals
       /\ Seen' = Append(SubSeq(Seen, 1, Len(Seen) - 1), [Seen[Len(Seen)] EXCEPT !.locals = new])
  BY <1>7, <1>10, <1>11, <1>12
<1>. QED  BY <1>1, <1>12, <1>13, <1>14 DEF Promised!Alloc, Promised!Top, Promised!Below, Seen, Handed

LEMMA DeallocStep == ASSUME Inv, Dealloc PROVE Promised!Dealloc
<1>1. /\ pc = "body" /\ pc' = pc /\ t' = t /\ fn' = fn /\ s' = s /\ mem' = mem
  BY DEF Dealloc
<1>2. PICK n \in 1 .. Top.locals : calls' = Append(Below, [Top EXCEPT !.locals = @ - n])
  BY DEF Dealloc
<1>. DEFINE a == [Top EXCEPT !.locals = @ - n]
            V == View(mem, Top)
            W == View(mem, a)
<1>3. /\ Top \in Act /\ Top.saved \subseteq 0 .. CallSave[Top.fn] - 1 /\ Bottom(Top) >= -StackSize
      /\ mem \in [Addr -> Trytes]
  BY <1>1, TopSaved, RegisterTypes
<1>4. Top.locals \in Nat /\ FrameEnd(Top) \in Int /\ Bottom(Top) = FrameEnd(Top) - Top.locals
  BY <1>3, CellsOf
<1>5. /\ a \in Act /\ a.fn = Top.fn /\ a.base = Top.base /\ a.entry = Top.entry
      /\ a.locals = Top.locals - n /\ a.saved = Top.saved
      /\ a.locals \in Nat /\ a.locals <= Top.locals
  BY <1>3, <1>4 DEF Act
<1>6. calls' = Append(Below, a)
  BY <1>2
<1>7. Bottom(a) >= -StackSize
  <2>1. Bottom(a) = FrameEnd(Top) - a.locals
    BY <1>5 DEF Bottom, FrameEnd
  <2>. QED  BY <1>3, <1>4, <1>5, <2>1, Sizes
<1>. HIDE DEF a
<1>8. Seen' = Append(SubSeq(Seen, 1, Len(Seen) - 1), W)
  BY <1>1, <1>5, <1>6, RevisedSeen
<1>9. /\ V.locals \in Seq(Trytes) /\ Len(V.locals) = Top.locals
      /\ \A k \in 1 .. Top.locals : V.locals[k] = mem[Top.base - frame_size(Top.fn) - k]
  BY <1>3, LocalsOf
<1>10. /\ W.locals \in Seq(Trytes) /\ Len(W.locals) = a.locals
       /\ \A k \in 1 .. a.locals : W.locals[k] = mem[a.base - frame_size(a.fn) - k]
  BY <1>3, <1>5, <1>7, LocalsOf
<1>11. /\ W.slots = V.slots
       /\ W = [fn |-> Top.fn, entry |-> Top.entry, slots |-> W.slots, locals |-> W.locals]
       /\ V = [fn |-> Top.fn, entry |-> Top.entry, slots |-> V.slots, locals |-> V.locals]
  BY <1>5 DEF View
<1>12. Seen[Len(Seen)] = V
  BY <1>1, TopViews
<1>. HIDE DEF V, W
<1>13. W.locals = SubSeq(V.locals, 1, a.locals)
  <2>. DEFINE q == SubSeq(V.locals, 1, a.locals)
  <2>1. q \in Seq(Trytes) /\ Len(q) = a.locals /\ \A k \in 1 .. a.locals : q[k] = V.locals[k]
    BY <1>4, <1>5, <1>9
  <2>2. \A k \in 1 .. a.locals : W.locals[k] = q[k]
    BY <1>4, <1>5, <1>9, <1>10, <2>1
  <2>. HIDE DEF q
  <2>3. W.locals = q
    BY <1>10, <2>1, <2>2, SequencesEqual
  <2>. QED  BY <2>3 DEF q
<1>14. W = [V EXCEPT !.locals = SubSeq(@, 1, a.locals)]
  BY <1>11, <1>13
<1>15. Promised!Running /\ Handed' = Handed
  BY <1>1, BodyRuns DEF Handed, Epilogue
<1>16. a.locals \in 0 .. Len(Seen[Len(Seen)].locals)
  BY <1>4, <1>5, <1>9, <1>12
<1>17. Seen' = Append(SubSeq(Seen, 1, Len(Seen) - 1), [Seen[Len(Seen)] EXCEPT !.locals = SubSeq(@, 1, a.locals)])
  BY <1>8, <1>12, <1>14
<1>. QED  BY <1>1, <1>15, <1>16, <1>17 DEF Promised!Dealloc, Promised!Top, Promised!Below, Seen, Handed

\* the top activation is the last one
LEMMA TopIsLast ==
  ASSUME Inv, pc # "outside"
  PROVE  calls = Append(Below, Top)
<1>1. D \in Nat /\ D >= 1 /\ calls \in Seq(Act) /\ Top = calls[D] /\ Top \in Act
  BY TopFacts
<1>. DEFINE q == Append(Below, Top)
<1>2. q \in Seq(Act) /\ Len(q) = D /\ q[D] = Top /\ \A k \in 1 .. D - 1 : q[k] = calls[k]
  BY <1>1, TopReplaced
<1>. HIDE DEF q
<1>3. \A k \in 1 .. D : calls[k] = q[k]
  <2>1. \A k \in 1 .. D : k = D \/ k \in 1 .. D - 1
    BY <1>1
  <2>. QED  BY <1>1, <1>2, <2>1
<1>4. calls = q
  BY <1>1, <1>2, <1>3, SequencesEqual DEF D
<1>. QED  BY <1>4 DEF q

LEMMA StoreLocalStep == ASSUME Inv, StoreLocal PROVE Promised!StoreLocal
<1>1. /\ pc = "body" /\ pc' = pc /\ t' = t /\ fn' = fn /\ s' = s /\ calls' = calls
  BY DEF StoreLocal
<1>2. PICK n \in 0 .. Top.locals - 1, v \in Data : mem' = [mem EXCEPT ![sp + n] = <<v, 0>>]
  BY DEF StoreLocal
<1>. DEFINE V == View(mem, Top)
            W == View(mem', Top)
            j == Top.locals - n
            c == <<v, 0>>
<1>3. /\ Top \in Act /\ Top.saved \subseteq 0 .. CallSave[Top.fn] - 1 /\ Bottom(Top) >= -StackSize
      /\ mem \in [Addr -> Trytes] /\ sp = Bottom(Top)
  BY <1>1, TopSaved, RegisterTypes, BodyFacts
<1>4. /\ Top.locals \in Nat /\ FrameEnd(Top) \in Int /\ Bottom(Top) = FrameEnd(Top) - Top.locals
      /\ FrameEnd(Top) = Top.base - frame_size(Top.fn) /\ FrameEnd(Top) <= Top.base /\ Top.base \in Int
  BY <1>3, CellsOf
<1>5. /\ j \in 1 .. Top.locals /\ sp + n = FrameEnd(Top) - j /\ sp + n < FrameEnd(Top)
      /\ sp + n \in Int
  BY <1>3, <1>4
<1>6. c \in Trytes
  BY DEF Trytes, Words, Values
<1>7. mem' \in [Addr -> Trytes] /\ \A x \in Addr : mem'[x] = IF x = sp + n THEN c ELSE mem[x]
  BY <1>2, <1>3, <1>6
<1>. HIDE DEF c
<1>8. \A x \in Addr : FrameEnd(Top) <= x => mem'[x] = mem[x]
  BY <1>4, <1>5, <1>7, Sizes
<1>9. \A x \in Addr : Top.base <= x => mem'[x] = mem[x]
  BY <1>4, <1>8, Sizes
<1>10. Seen' = Append(SubSeq(Seen, 1, Len(Seen) - 1), W)
  BY <1>1, <1>3, <1>9, TopIsLast, RevisedSeen
<1>11. /\ V.locals \in Seq(Trytes) /\ Len(V.locals) = Top.locals /\ DOMAIN V.locals = 1 .. Top.locals
       /\ \A k \in 1 .. Top.locals : V.locals[k] = mem[Top.base - frame_size(Top.fn) - k]
  BY <1>3, LocalsOf
<1>12. /\ W.locals \in Seq(Trytes) /\ Len(W.locals) = Top.locals /\ DOMAIN W.locals = 1 .. Top.locals
       /\ \A k \in 1 .. Top.locals : W.locals[k] = mem'[Top.base - frame_size(Top.fn) - k]
  BY <1>3, <1>7, LocalsOf
<1>13. W.slots = V.slots
  <2>1. ASSUME NEW k \in Top.saved
        PROVE  LoadedIn(mem', Top.base - call_save_fploc(Top.fn, k))
                 = LoadedIn(mem, Top.base - call_save_fploc(Top.fn, k))
    <3>. DEFINE x == Top.base - call_save_fploc(Top.fn, k)
    <3>1. x \in Int /\ \A d \in 0 .. 2 : x + d \in Addr /\ FrameEnd(Top) <= x + d
      BY <1>3, CellsOf
    <3>. HIDE DEF x
    <3>2. \A d \in 0 .. 2 : mem'[x + d] = mem[x + d]
      BY <1>8, <3>1
    <3>3. LoadedIn(mem', x) = LoadedIn(mem, x)
      BY <3>1, <3>2, SameLoaded
    <3>. QED  BY <3>3 DEF x
  <2>. QED  BY <2>1 DEF View
<1>14. /\ W = [fn |-> Top.fn, entry |-> Top.entry, slots |-> W.slots, locals |-> W.locals]
       /\ V = [fn |-> Top.fn, entry |-> Top.entry, slots |-> V.slots, locals |-> V.locals]
  BY DEF View
<1>15. Seen[Len(Seen)] = V
  BY <1>1, TopViews
<1>16. ASSUME NEW k \in 1 .. Top.locals
       PROVE  W.locals[k] = IF k = j THEN c ELSE V.locals[k]
  <2>. DEFINE x == Top.base - frame_size(Top.fn) - k
  <2>1. x \in Addr
    BY <1>3, CellsOf
  <2>2. x = sp + n <=> k = j
    BY <1>4, <1>5
  <2>3. W.locals[k] = mem'[x] /\ V.locals[k] = mem[x]
    BY <1>11, <1>12
  <2>. HIDE DEF x, V, W, j
  <2>. QED  BY <1>7, <2>1, <2>2, <2>3
<1>. HIDE DEF V, W, j
<1>17. W.locals = [V.locals EXCEPT ![j] = c]
  <2>. DEFINE q == [V.locals EXCEPT ![j] = c]
  <2>1. q \in Seq(Trytes) /\ Len(q) = Top.locals
    <3>1. V.locals \in [1 .. Top.locals -> Trytes] /\ Top.locals \in Nat
      BY <1>4, <1>11
    <3>2. q \in [1 .. Top.locals -> Trytes]
      BY <1>6, <3>1
    <3>. HIDE DEF q
    <3>3. q \in Seq(Trytes)
      BY <3>1, <3>2
    <3>4. Len(q) \in Nat /\ DOMAIN q = 1 .. Len(q) /\ DOMAIN q = 1 .. Top.locals
      BY <3>2, <3>3
    <3>. QED  BY <3>1, <3>3, <3>4
  <2>2. \A k \in 1 .. Top.locals : q[k] = IF k = j THEN c ELSE V.locals[k]
    BY <1>11
  <2>. HIDE DEF q
  <2>3. W.locals = q
    BY <1>12, <1>16, <2>1, <2>2, SequencesEqual
  <2>. QED  BY <2>3 DEF q
<1>18. W = [V EXCEPT !.locals[j] = c]
  BY <1>13, <1>14, <1>17
<1>19. Promised!Running /\ Handed' = Handed
  BY <1>1, BodyRuns DEF Handed, Epilogue
<1>20. j \in DOMAIN Seen[Len(Seen)].locals
  BY <1>5, <1>11, <1>15 DEF j
<1>21. Seen' = Append(SubSeq(Seen, 1, Len(Seen) - 1), [Seen[Len(Seen)] EXCEPT !.locals[j] = c])
  BY <1>10, <1>15, <1>18
<1>. QED  BY <1>1, <1>6, <1>19, <1>20, <1>21 DEF Promised!StoreLocal, Promised!Top, Promised!Below, Seen, Handed

LEMMA LoadedInFacts ==
  ASSUME NEW x \in Int, NEW m, NEW w, HoldsIn(m, x, w)
  PROVE  LoadedIn(m, x) = w
<1>1. x + 0 = x /\ x \in Addr /\ m[x] = <<w, 0>>
  BY DEF HoldsIn
<1>2. m[x][1] = w
  BY <1>1
<1>. QED  BY <1>1, <1>2 DEF LoadedIn

LEMMA SaveStep == ASSUME Inv, Save PROVE Promised!Spill
<1>1. /\ pc = "body" /\ pc' = pc /\ t' = t /\ fn' = fn /\ s' = s
  BY DEF Save
<1>2. PICK k \in 0 .. CallSave[fn] - 1 :
        /\ mem' = Stored(fp - call_save_fploc(fn, k), t)
        /\ calls' = Append(Below, [Top EXCEPT !.saved = @ \cup {k}])
  BY DEF Save
<1>. DEFINE a == [Top EXCEPT !.saved = @ \cup {k}]
            V == View(mem, Top)
            W == View(mem', a)
            o == call_save_fploc(fn, k)
<1>3. /\ Top \in Act /\ Top.saved \subseteq 0 .. CallSave[Top.fn] - 1 /\ Bottom(Top) >= -StackSize
      /\ mem \in [Addr -> Trytes] /\ fp = Top.base /\ fn = Top.fn /\ fn \in Fns /\ t \in Values
      /\ CallSave[fn] \in Nat
  BY <1>1, TopSaved, RegisterTypes, BodyFacts, SizesOf
<1>4. /\ Top.locals \in Nat /\ FrameEnd(Top) \in Int /\ Bottom(Top) = FrameEnd(Top) - Top.locals
      /\ FrameEnd(Top) = Top.base - frame_size(Top.fn) /\ FrameEnd(Top) <= Top.base /\ Top.base \in Int
  BY <1>3, CellsOf
<1>5. /\ a \in Act /\ a.fn = Top.fn /\ a.base = Top.base /\ a.entry = Top.entry
      /\ a.locals = Top.locals /\ a.saved = Top.saved \cup {k}
  BY <1>3 DEF Act
<1>6. calls' = Append(Below, a)
  BY <1>2
<1>7. Bottom(a) >= -StackSize /\ a.saved \subseteq 0 .. CallSave[a.fn] - 1
  BY <1>3, <1>5 DEF Bottom, FrameEnd
<1>8. o \in Int /\ 9 <= o /\ o <= frame_size(fn)
  BY <1>3, CallSlot
<1>. HIDE DEF a
<1>9. StoredIn(mem', o, t)
  <2>1. t \in Words
    BY <1>3 DEF Words
  <2>. HIDE DEF o
  <2>2. StoredIn(Stored(Top.base - o, t), o, t)
    BY <1>1, <1>3, <1>8, <2>1, StoredInFrame
  <2>3. mem' = Stored(Top.base - o, t)
    BY <1>2, <1>3 DEF o
  <2>. QED  BY <2>2, <2>3
<1>10. \A x \in Addr : x \notin (Top.base - o) .. (Top.base - o) + 2 => mem'[x] = mem[x]
  BY <1>2, <1>3 DEF Stored
<1>11. \A x \in Addr : Top.base <= x => mem'[x] = mem[x]
  BY <1>9 DEF StoredIn
<1>12. Seen' = Append(SubSeq(Seen, 1, Len(Seen) - 1), W)
  BY <1>1, <1>5, <1>6, <1>11, RevisedSeen
<1>13. W.locals = V.locals
  <2>1. ASSUME NEW n \in 1 .. Top.locals
        PROVE  mem'[Top.base - frame_size(Top.fn) - n] = mem[Top.base - frame_size(Top.fn) - n]
    <3>. DEFINE x == Top.base - frame_size(Top.fn) - n
    <3>1. x \in Addr /\ x < FrameEnd(Top)
      BY <1>3, CellsOf
    <3>. HIDE DEF x, o
    <3>2. frame_size(fn) \in Int /\ FrameEnd(Top) = Top.base - frame_size(fn)
      BY <1>3, <1>4, SizesOf
    <3>3. FrameEnd(Top) <= Top.base - o
      BY <1>4, <1>8, <3>2
    <3>4. x < Top.base - o /\ x \in Int
      BY <1>4, <1>8, <3>1, <3>3 DEF Addr
    <3>5. x \notin (Top.base - o) .. (Top.base - o) + 2
      BY <1>4, <1>8, <3>4
    <3>6. mem'[x] = mem[x]
      BY <1>10, <3>1, <3>5
    <3>. QED  BY <3>6 DEF x
  <2>. QED  BY <1>5, <2>1 DEF View
<1>14. ASSUME NEW j \in Top.saved \cup {k}
       PROVE  LoadedIn(mem', Top.base - call_save_fploc(fn, j))
                = IF j = k THEN t ELSE LoadedIn(mem, Top.base - call_save_fploc(fn, j))
  <2>. DEFINE x == Top.base - call_save_fploc(fn, j)
  <2>1. CASE j = k
    <3>. HIDE DEF o
    <3>1. HoldsIn(mem', Top.base - o, t) /\ Top.base - o \in Int
      BY <1>4, <1>8, <1>9 DEF StoredIn
    <3>2. LoadedIn(mem', Top.base - o) = t
      BY <3>1, LoadedInFacts
    <3>. QED  BY <2>1, <3>2 DEF o
  <2>2. CASE j # k
    <3>1. j \in 0 .. CallSave[fn] - 1 /\ j \in Top.saved /\ j \in Int /\ k \in Int
      BY <1>3, <2>2
    <3>2. x \in Int /\ \A d \in 0 .. 2 : x + d \in Addr
      BY <1>3, <3>1, CellsOf
    <3>3. \A d \in 0 .. 2 : x + d \notin (Top.base - o) .. (Top.base - o) + 2
      <4>1. /\ call_save_fploc(fn, j) = 3 * CalleeSave[fn] + 3 * j + 9
            /\ o = 3 * CalleeSave[fn] + 3 * k + 9 /\ CalleeSave[fn] \in Nat
        BY <1>3, <3>1, CallSlot, SizesOf
      <4>. QED  BY <1>4, <2>2, <3>1, <4>1
    <3>. HIDE DEF x, o
    <3>4. \A d \in 0 .. 2 : mem'[x + d] = mem[x + d]
      BY <1>10, <3>2, <3>3
    <3>5. LoadedIn(mem', x) = LoadedIn(mem, x)
      BY <3>2, <3>4, SameLoaded
    <3>. QED  BY <2>2, <3>5 DEF x
  <2>. QED  BY <2>1, <2>2
<1>15. /\ W = [fn |-> Top.fn, entry |-> Top.entry, slots |-> W.slots, locals |-> W.locals]
       /\ V = [fn |-> Top.fn, entry |-> Top.entry, slots |-> V.slots, locals |-> V.locals]
  BY <1>5 DEF View
<1>16. Seen[Len(Seen)] = V
  BY <1>1, TopViews
<1>17. W.slots = [j \in DOMAIN V.slots \cup {k} |-> IF j = k THEN t ELSE V.slots[j]]
  <2>1. V.slots = [j \in Top.saved |-> LoadedIn(mem, Top.base - call_save_fploc(fn, j))]
    BY <1>3 DEF View
  <2>2. W.slots = [j \in Top.saved \cup {k} |-> LoadedIn(mem', Top.base - call_save_fploc(fn, j))]
    BY <1>3, <1>5 DEF View
  <2>. HIDE DEF V, W
  <2>3. DOMAIN V.slots = Top.saved
        /\ \A j \in Top.saved : V.slots[j] = LoadedIn(mem, Top.base - call_save_fploc(fn, j))
    BY <2>1
  <2>. QED  BY <1>14, <2>2, <2>3
<1>. HIDE DEF V, W
<1>18. W = [V EXCEPT !.slots = [j \in DOMAIN V.slots \cup {k} |-> IF j = k THEN t ELSE V.slots[j]]]
  BY <1>13, <1>15, <1>17
<1>19. Promised!Running /\ Handed' = Handed
  BY <1>1, BodyRuns DEF Handed, Epilogue
<1>20. Seen' = Append(SubSeq(Seen, 1, Len(Seen) - 1),
                 [Seen[Len(Seen)] EXCEPT !.slots =
                    [j \in DOMAIN @ \cup {k} |-> IF j = k THEN t ELSE @[j]]])
  BY <1>12, <1>16, <1>18
<1>. QED  BY <1>1, <1>19, <1>20 DEF Promised!Spill, Promised!Top, Promised!Below, Seen, Handed

LEMMA CallStep == ASSUME Inv, Call PROVE Promised!Call
<1>1. /\ pc = "body" /\ HasCalls[fn] /\ pc' = "store_fp" /\ s' = s /\ t' = t /\ mem' = mem
  BY DEF Call
<1>2. PICK f \in Fns : fn' = f /\ calls' = Append(calls, Activation(f, sp))
  BY DEF Call
<1>. DEFINE a == Activation(f, sp)
            cs == Append(calls, a)
            S == {View(mem, b) : b \in Act}
            W == Views(mem, cs)
<1>3. /\ D \in Nat /\ calls \in Seq(Act) /\ sp \in -StackSize .. 0 /\ s \in [SRegs -> Values]
  BY <1>1, BodyFacts, TopFacts, RegisterTypes
<1>4. /\ a \in Act /\ a.fn = f /\ a.entry = s /\ a.saved = {} /\ a.locals = 0
  BY <1>3 DEF Activation, Act
<1>. HIDE DEF a
<1>5. cs \in Seq(Act) /\ Len(cs) = D + 1 /\ cs[D + 1] = a /\ \A k \in 1 .. D : cs[k] = calls[k]
  BY <1>3, <1>4 DEF D
<1>6. Seen' = W
  BY <1>1, <1>2, SeenIs DEF a
<1>. HIDE DEF cs
<1>7. W \in Seq(S) /\ Len(W) = D + 1 /\ \A k \in 1 .. D + 1 : W[k] = View(mem, cs[k])
  BY <1>5, ViewsFacts
<1>8. Seen \in Seq(S) /\ Len(Seen) = D /\ \A k \in 1 .. D : Seen[k] = View(mem, calls[k])
  BY <1>1, TopViews
<1>9. View(mem, a) \in S
  BY <1>4
<1>10. View(mem, a) = [fn |-> f, entry |-> s, slots |-> <<>>, locals |-> <<>>]
  BY <1>4, EmptyView
<1>. HIDE DEF S, W, Seen
<1>11. W = Append(Seen, View(mem, a))
  <2>. DEFINE q == Append(Seen, View(mem, a))
  <2>1. /\ q \in Seq(S) /\ Len(q) = D + 1 /\ q[D + 1] = View(mem, a)
        /\ \A k \in 1 .. D : q[k] = Seen[k]
    BY <1>3, <1>8, <1>9
  <2>2. ASSUME NEW k \in 1 .. D + 1 PROVE W[k] = q[k]
    <3>1. k = D + 1 \/ k \in 1 .. D
      BY <1>3
    <3>. QED  BY <1>5, <1>7, <1>8, <2>1, <3>1
  <2>. HIDE DEF q
  <2>3. W = q
    BY <1>7, <2>1, <2>2, SequencesEqual
  <2>. QED  BY <2>3 DEF q
<1>12. Promised!Running /\ Handed = s /\ Handed' = Handed /\ (pc \in Epilogue)' = (pc \in Epilogue)
  BY <1>1, BodyRuns DEF Handed, Epilogue
<1>13. Seen' = Append(Seen, [fn |-> f, entry |-> Handed, slots |-> <<>>, locals |-> <<>>])
  BY <1>6, <1>10, <1>11, <1>12
<1>. QED  BY <1>1, <1>2, <1>12, <1>13 DEF Promised!Call, Promised!Fresh, Seen, Handed

LEMMA RetStep == ASSUME Inv, Ret PROVE Promised!Back
<1>1. /\ pc = "ret" /\ fn' = ra /\ pc' = (IF ra \in Fns THEN "body" ELSE "outside")
      /\ calls' = Below /\ s' = s /\ t' = t /\ mem' = mem
  BY DEF Ret
<1>2. /\ D \in Nat /\ D >= 1 /\ calls \in Seq(Act) /\ Registers /\ Top = calls[D]
      /\ Top \in Act /\ Top.entry \in [SRegs -> Values]
  BY <1>1, TopFacts DEF Inv
<1>3. ra = FnOf(calls, D) /\ \A j \in SRegs : s[j] = Top.entry[j]
  BY <1>1, <1>2 DEF Registers
<1>4. s = Top.entry
  BY <1>2, <1>3, RegisterTypes
<1>5. /\ pc \in Epilogue /\ (pc \in Epilogue)' = FALSE /\ Handed = Top.entry /\ Handed' = s'
  BY <1>1 DEF Epilogue, Handed
<1>. DEFINE S == {View(mem, b) : b \in Act}
            W == Views(mem, Below)
            U == SubSeq(Seen, 1, Len(Seen) - 1)
<1>6. Below \in Seq(Act) /\ Len(Below) = D - 1 /\ \A k \in 1 .. D - 1 : Below[k] = calls[k]
  BY <1>2, TopReplaced
<1>7. Seen' = W
  BY <1>1, SeenIs
<1>8. W \in Seq(S) /\ Len(W) = D - 1 /\ \A k \in 1 .. D - 1 : W[k] = View(mem, Below[k])
  BY <1>6, ViewsFacts
<1>9. Seen \in Seq(S) /\ Len(Seen) = D /\ \A k \in 1 .. D : Seen[k] = View(mem, calls[k])
  BY <1>1, TopViews
<1>. HIDE DEF S, W
<1>10. U \in Seq(S) /\ Len(U) = D - 1 /\ \A k \in 1 .. D - 1 : U[k] = Seen[k]
  <2>. HIDE DEF Seen
  <2>. QED  BY <1>2, <1>9
<1>. HIDE DEF U
<1>11. W = U
  <2>1. \A k \in 1 .. D - 1 : W[k] = U[k]
    BY <1>2, <1>6, <1>8, <1>9, <1>10
  <2>. QED  BY <1>8, <1>10, <2>1, SequencesEqual
<1>12. fn' = IF U = <<>> THEN Outside ELSE U[Len(U)].fn
  <2>1. CASE D = 1
    <3>1. U = <<>>
      BY <1>10, <2>1
    <3>. QED  BY <1>1, <1>3, <2>1, <3>1 DEF FnOf
  <2>2. CASE D # 1
    <3>1. D - 1 \in 1 .. D - 1 /\ D - 1 \in 1 .. D
      BY <1>2, <2>2
    <3>2. U # <<>> /\ U[Len(U)] = View(mem, calls[D - 1])
      BY <1>9, <1>10, <3>1
    <3>. QED  BY <1>1, <1>3, <2>2, <3>2 DEF FnOf, View
  <2>. QED  BY <2>1, <2>2
<1>13. Seen' = U /\ Handed' = Handed
  BY <1>1, <1>4, <1>5, <1>7, <1>11
<1>. QED  BY <1>1, <1>5, <1>12, <1>13 DEF Promised!Back, Promised!Below, Seen, Handed, U

LEMMA InitPromised == Init => Promised!Init
<1>. SUFFICES ASSUME Init PROVE Promised!Init
  OBVIOUS
<1>1. /\ fn \in Fns /\ pc = "store_fp" /\ s \in [SRegs -> Data] /\ t \in Data
      /\ calls = <<Activation(fn, 0)>>
  BY DEF Init
<1>2. pc \notin Epilogue /\ Handed = s /\ s \in [Promised!SRegs -> Values] /\ t \in Values
  BY <1>1 DEF Epilogue, Handed, Values, SRegs, Promised!SRegs
<1>3. View(mem, Activation(fn, 0)) = [fn |-> fn, entry |-> s, slots |-> <<>>, locals |-> <<>>]
  BY EmptyView DEF Activation
<1>4. Seen = <<[fn |-> fn, entry |-> s, slots |-> <<>>, locals |-> <<>>]>>
  <2>1. DOMAIN calls = 1 .. 1 /\ calls[1] = Activation(fn, 0)
    BY <1>1
  <2>2. Views(mem, calls) = [k \in 1 .. 1 |-> View(mem, Activation(fn, 0))]
    BY <2>1 DEF Views
  <2>. QED  BY <1>3, <2>2, SeenIs
<1>. QED  BY <1>1, <1>2, <1>4 DEF Promised!Init, Promised!Fresh, Seen, Handed

LEMMA NextPromised == Inv /\ [Next]_vars => [Promised!Next]_(Promised!vars)
<1>. SUFFICES ASSUME Inv, [Next]_vars PROVE [Promised!Next]_(Promised!vars)
  OBVIOUS
<1>1. CASE StoreFp \/ SetFp \/ StoreRa \/ Reserve \/ StoreS \/ EndStores
  BY <1>1, PrologueStep DEF Promised!vars, Seen, Handed
<1>2. CASE LoadS \/ EndLoads \/ LoadRa \/ Drop \/ LoadFp
  BY <1>2, EpilogueStep DEF Promised!vars, Seen, Handed
<1>3. CASE Compute
  BY <1>3, ComputeStep DEF Promised!Next
<1>4. CASE ComputeTemp
  BY <1>4, ComputeTempStep DEF Promised!Next
<1>5. CASE Call
  BY <1>5, CallStep DEF Promised!Next
<1>6. CASE Save
  BY <1>6, SaveStep DEF Promised!Next
<1>7. CASE Restore
  BY <1>7, RestoreStep DEF Promised!Next
<1>8. CASE Alloc
  BY <1>8, AllocStep DEF Promised!Next
<1>9. CASE Dealloc
  BY <1>9, DeallocStep DEF Promised!Next
<1>10. CASE StoreLocal
  BY <1>10, StoreLocalStep DEF Promised!Next
<1>11. CASE Leave
  BY <1>11, LeaveStep DEF Promised!Next
<1>12. CASE Ret
  BY <1>12, RetStep DEF Promised!Next
<1>13. CASE UNCHANGED vars
  <2>1. Seen' = Seen /\ Handed' = Handed /\ (pc \in Epilogue)' = (pc \in Epilogue)
    BY <1>13, SeenIs DEF vars, Handed, Top, Epilogue
  <2>. QED  BY <1>13, <2>1 DEF vars, Promised!vars, Seen, Handed
<1>. QED  BY <1>1, <1>2, <1>3, <1>4, <1>5, <1>6, <1>7, <1>8, <1>9, <1>10, <1>11, <1>12, <1>13 DEF Next

(* The generated code keeps the calling convention (KeepsConvention): slots *)
(* and locals of every activation, read from memory, change only by that    *)
(* activation's own instructions, calls and returns nest, and every         *)
(* function gives the registers back, at any depth of calls.                *)
THEOREM ConventionKept == Spec => KeepsConvention
BY InitPromised, NextPromised, InvAlways, PTL DEF Spec, KeepsConvention, Promised!Spec
=============================================================================
