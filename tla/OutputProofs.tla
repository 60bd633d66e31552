---------------------------- MODULE OutputProofs ----------------------------
(* Proof that the printed code implements the meaning of its function, for  *)
(* functions of any size and machines of any word size, provided that no    *)
(* negative immediate is subtracted, that the moves of a conditional branch *)
(* edge change nothing its comparison or its other edge reads (Harmless),   *)
(* and that no edge's moves form a cycle (FunctionsAssumption).             *)
EXTENDS Output, TLAPS

\* the argument that parameter r gets
ArgumentFor(params, args, r) == args[CHOOSE k \in DOMAIN params : params[k] = r]

\* what the two provisos say of a function
Harmless(f) ==
  \A b \in Blocks :
    /\ \A k \in DOMAIN f[b].insns :
         LET n == f[b].insns[k]
         IN  n.type = "SUB" /\ IsImm(n.in[2]) => n.in[2][2] \in Nat
    /\ f[b].kind \in Conditional =>
         \A r \in (ToSet(f[b].cmp) \cup ToSet(f[b].args1)) \cap ToSet(f[f[b].s2].params) :
           ArgumentFor(f[f[b].s2].params, f[b].args2, r) = r

-----------------------------------------------------------------------------
(* Invariant: besides the types, registers differ from what the block left  *)
(* only by the moves of its branch edge, once those have been made.         *)

Handed(b) ==
  [r \in DOMAIN left |-> IF r \in ToSet(fun[fun[b].s2].params)
                         THEN left[ArgumentFor(fun[fun[b].s2].params, fun[b].args2, r)]
                         ELSE left[r]]

Lags ==
  /\ pc = "insns" => left = regs
  /\ pc # "insns" =>
       /\ ip = Len(Here.insns) + 1
       /\ regs = IF Here.s2 # NoBlock THEN Handed(at) ELSE left
  /\ pc = "fallthrough" => Here.kind \in Conditional /\ ~Branches(regs, output_branch(Here))

Inv == fun \in Functions /\ TypeOK /\ Lags

-----------------------------------------------------------------------------
(* Facts about functions.                                                   *)

\* the values a block knows grow by what its instructions write, and are in
\* registers of the function
LEMMA KnownFacts ==
  ASSUME NEW f \in Functions, NEW b \in Blocks
  PROVE  /\ f[b].insns \in Seq(ToSet(f[b].insns)) /\ Len(f[b].insns) \in Nat
         /\ \A k \in 1 .. Len(f[b].insns) :
              Known(f[b], k + 1) = Known(f[b], k) \cup OutOf(f[b].insns[k])
         /\ Known(f[b], 1) = ToSet(f[b].params)
         /\ \A k \in 1 .. Len(f[b].insns) + 1 : Known(f[b], k) \subseteq AtEnd(f[b])
         /\ AtEnd(f[b]) \subseteq RegistersOf(f)
<1>1. f[b].insns \in Seq(ToSet(f[b].insns)) /\ DOMAIN f = Blocks
  BY FunctionsAssumption
<1>2. Len(f[b].insns) \in Nat
  BY <1>1
<1>3. ASSUME NEW k \in 1 .. Len(f[b].insns)
      PROVE  Known(f[b], k + 1) = Known(f[b], k) \cup OutOf(f[b].insns[k])
  <2>1. 1 .. (k + 1) - 1 = (1 .. k - 1) \cup {k}
    BY <1>2
  <2>. QED  BY <2>1 DEF Known
<1>4. Known(f[b], 1) = ToSet(f[b].params)
  <2>1. 1 .. 1 - 1 = {}
    OBVIOUS
  <2>. QED  BY <2>1 DEF Known
<1>5. ASSUME NEW k \in 1 .. Len(f[b].insns) + 1 PROVE Known(f[b], k) \subseteq AtEnd(f[b])
  <2>1. 1 .. k - 1 \subseteq 1 .. (Len(f[b].insns) + 1) - 1
    BY <1>2
  <2>. QED  BY <2>1 DEF Known, AtEnd
<1>6. AtEnd(f[b]) \subseteq RegistersOf(f)
  BY <1>1 DEF RegistersOf
<1>. QED  BY <1>1, <1>2, <1>3, <1>4, <1>5, <1>6

\* what arrives over an edge is in registers of the block it leaves
LEMMA EdgeFacts ==
  ASSUME NEW f, NEW b, NEW target, NEW args, Edge(f, b, target, args),
         NEW r \in ToSet(f[target].params)
  PROVE  ArgumentFor(f[target].params, args, r) \in AtEnd(f[b])
<1>1. PICK k \in DOMAIN f[target].params : f[target].params[k] = r
  BY DEF ToSet
<1>2. (CHOOSE j \in DOMAIN f[target].params : f[target].params[j] = r) \in DOMAIN args
  BY <1>1 DEF Edge
<1>. QED  BY <1>2 DEF Edge, ArgumentFor, ToSet

-----------------------------------------------------------------------------
(* The initial states.                                                      *)

LEMMA InitInv == Init => Inv
<1>. SUFFICES ASSUME Init PROVE Inv
  OBVIOUS
<1>1. 1 \in Blocks /\ fun \in Functions
  BY BlocksAssumption DEF Init, Blocks
<1>2. mem \in [Values -> Cells]
  BY RadiusAssumption DEF Init, Cells, Values
<1>3. TypeOK
  BY <1>1, <1>2, KnownFacts DEF Init, TypeOK, Here
<1>. QED  BY <1>1, <1>3 DEF Init, Inv, Lags

\* the words and the memory of both specifications are the same
LEMMA SameMachine ==
  /\ \A s : Meaning!ToSet(s) = ToSet(s)
  /\ Meaning!Values = Values /\ Meaning!Cells = Cells
  /\ \A n : Meaning!Wrap(n) = Wrap(n)
  /\ \A m, a, w : Meaning!Loaded(m, a, w) = Loaded(m, a, w)
  /\ \A m, a, w, v : Meaning!Stored(m, a, w, v) = Stored(m, a, w, v)
BY DEF Meaning!ToSet, ToSet, Meaning!Values, Values, Meaning!Cells, Cells, Meaning!Wrap, Wrap,
       Meaning!Loaded, Loaded, Meaning!Stored, Stored

LEMMA InitMeans == Init => Meaning!Init
<1>. SUFFICES ASSUME Init PROVE Meaning!Init
  OBVIOUS
<1>1. 1 \in Blocks /\ fun \in Functions /\ at = 1 /\ ip = 1
  BY BlocksAssumption DEF Init, Blocks
<1>2. Known(Here, ip) = ToSet(fun[1].params) /\ Known(Here, ip) \subseteq RegistersOf(fun)
  BY <1>1, KnownFacts DEF Here
<1>3. [r \in Known(Here, ip) |-> left[r]] \in [ToSet(fun[1].params) -> Values]
  BY <1>2 DEF Init
<1>4. mem \in [Values -> Cells]
  BY RadiusAssumption DEF Init, Cells, Values
<1>5. at # 0
  BY <1>1
<1>. QED  BY <1>1, <1>3, <1>4, <1>5, SameMachine DEF Meaning!Init

-----------------------------------------------------------------------------
(* The instructions.                                                        *)

LEMMA WrapFacts == \A n \in Int : Wrap(n) \in Values
<1>. SUFFICES ASSUME NEW n \in Int PROVE Wrap(n) \in Values
  OBVIOUS
<1>1. 2 * Radius + 1 \in Nat \ {0} /\ n + Radius \in Int
  BY RadiusAssumption
<1>2. (n + Radius) % (2 * Radius + 1) \in 0 .. (2 * Radius + 1) - 1
  BY <1>1
<1>. QED  BY <1>2, RadiusAssumption DEF Wrap, Values

LEMMA LoadedFacts ==
  ASSUME NEW m \in [Values -> Cells], NEW a \in Values, NEW w
  PROVE  Loaded(m, a, w) \in Values
<1>1. m[a] \in Cells /\ 0 \in Values
  BY RadiusAssumption DEF Values
<1>. QED  BY <1>1 DEF Loaded, Cells

\* the instruction that is next can be printed, reads what the block knows
\* and writes to a register of the function
NextIsFit(n) ==
  /\ Printable(n)
  /\ n.type = "COPY" <=> IsImm(n.in[1])
  /\ n.type = "STORE" <=> ~IsReg(n.out)
  /\ \A o \in {n.in[1], n.in[2]} : /\ IsReg(o) => o[2] \in Known(Here, ip)
                                   /\ IsImm(o) => o[2] \in Values
  /\ n.v \in Int
  /\ n.type = "SUB" /\ IsImm(n.in[2]) => n.in[2][2] \in Nat
  /\ IsReg(n.out) => n.out[2] \in RegistersOf(fun)
  /\ Known(Here, ip + 1) = Known(Here, ip) \cup OutOf(n)
  /\ Known(Here, ip) \subseteq RegistersOf(fun)

LEMMA NextInsnFacts ==
  ASSUME Inv, at # 0, ip <= Len(Here.insns), Harmless(fun)
  PROVE  NextIsFit(NextInsn)
<1>. DEFINE n == NextInsn
<1>1. /\ fun \in Functions /\ at \in Blocks
      /\ ip \in 1 .. Len(Here.insns) /\ ip + 1 \in 1 .. Len(Here.insns) + 1
      /\ Here = fun[at]
  <2>1. at \in Blocks /\ fun \in Functions /\ ip \in 1 .. Len(Here.insns) + 1
    BY DEF Inv, TypeOK
  <2>2. Len(Here.insns) \in Nat
    BY <2>1, KnownFacts DEF Here
  <2>. QED  BY <2>1, <2>2 DEF Here
<1>2. WellFormed(fun, at) /\ ip \in DOMAIN fun[at].insns /\ n = fun[at].insns[ip]
  BY <1>1, FunctionsAssumption, KnownFacts DEF NextInsn
<1>3. Known(Here, ip + 1) = Known(Here, ip) \cup OutOf(n)
  BY <1>1, <1>2, KnownFacts
<1>4. Known(Here, ip) \subseteq RegistersOf(fun) /\ Known(Here, ip + 1) \subseteq RegistersOf(fun)
  BY <1>1, KnownFacts
<1>5. IsReg(n.out) => n.out[2] \in RegistersOf(fun)
  BY <1>3, <1>4 DEF OutOf
<1>6. n.type = "SUB" /\ IsImm(n.in[2]) => n.in[2][2] \in Nat
  BY <1>1, <1>2 DEF Harmless
<1>7. /\ Printable(n)
      /\ n.type = "COPY" <=> IsImm(n.in[1])
      /\ n.type = "STORE" <=> ~IsReg(n.out)
      /\ \A o \in {n.in[1], n.in[2]} : /\ IsReg(o) => o[2] \in Known(Here, ip)
                                       /\ IsImm(o) => o[2] \in Values
      /\ n.v \in Int
  BY <1>1, <1>2 DEF WellFormed
<1>. QED  BY <1>3, <1>4, <1>5, <1>6, <1>7 DEF NextIsFit

\* what an operand and an instruction mean where the registers are
ValueOf(o) == IF IsReg(o) THEN regs[o[2]] ELSE o[2]

WidthOf(n) == IF n.vtype = "I9" THEN 9 ELSE 27

Result(n) ==
  CASE n.type \in {"MOVE", "COPY"} -> ValueOf(n.in[1])
    [] n.type = "ADD"  -> Wrap(ValueOf(n.in[1]) + ValueOf(n.in[2]))
    [] n.type = "SUB"  -> Wrap(ValueOf(n.in[1]) - ValueOf(n.in[2]))
    [] n.type = "LT"   -> IF ValueOf(n.in[1]) < ValueOf(n.in[2]) THEN 1 ELSE 0
    [] n.type = "LOAD" -> Loaded(mem, Wrap(ValueOf(n.in[1]) + n.v), WidthOf(n))

\* the value of an operand is a word
LEMMA OperandFacts ==
  ASSUME TypeOK, NEW n, NextIsFit(n)
  PROVE  \A o \in {n.in[1], n.in[2]} :
           /\ IsReg(o) => o[2] \in RegistersOf(fun)
           /\ IsReg(o) \/ IsImm(o) => ValueOf(o) \in Values
<1>. SUFFICES ASSUME NEW o \in {n.in[1], n.in[2]}
              PROVE  /\ IsReg(o) => o[2] \in RegistersOf(fun)
                     /\ IsReg(o) \/ IsImm(o) => ValueOf(o) \in Values
  OBVIOUS
<1>1. regs \in [RegistersOf(fun) -> Values]
  BY DEF TypeOK
<1>2. /\ IsReg(o) => o[2] \in RegistersOf(fun)
      /\ IsImm(o) => o[2] \in Values
  BY DEF NextIsFit
<1>3. CASE IsReg(o)
  BY <1>1, <1>2, <1>3 DEF ValueOf
<1>4. CASE ~IsReg(o)
  BY <1>2, <1>4 DEF ValueOf
<1>. QED  BY <1>3, <1>4

LEMMA WordsAreInt == Values \subseteq Int /\ 0 \in Values /\ 1 \in Values
BY RadiusAssumption DEF Values

\* the code writes v to register d, or to memory, and nothing else
Writes(code, d, v) ==
  MemAfter(regs, mem, code) = mem /\ RegsAfter(regs, mem, code) = [regs EXCEPT ![d] = v]

Puts(code, addr, width, v) ==
  RegsAfter(regs, mem, code) = regs /\ MemAfter(regs, mem, code) = Stored(mem, addr, width, v)

\* what one printed instruction does
LEMMA CodeRuns ==
  ASSUME NEW op, NEW d, NEW a, NEW b
  PROVE  /\ op \notin {"st t", "st w"} =>
              Writes(Code(op, d, a, b), d, Computed(regs, mem, [op |-> op, d |-> d, a |-> a, b |-> b]))
         /\ Puts(Code("st t", d, a, b), Wrap(regs[a] + b), 9, regs[d])
         /\ Puts(Code("st w", d, a, b), Wrap(regs[a] + b), 27, regs[d])
<1>. DEFINE i(o) == [op |-> o, d |-> d, a |-> a, b |-> b]
<1>1. ASSUME NEW o PROVE Code(o, d, a, b) = <<i(o)>> /\ <<i(o)>> # <<>> /\ <<i(o)>>[1] = i(o)
  BY DEF Code
<1>2. ASSUME NEW o PROVE i(o).op = o /\ i(o).d = d /\ i(o).a = a /\ i(o).b = b
  OBVIOUS
<1>. HIDE DEF i
<1>3. ASSUME op \notin {"st t", "st w"}
      PROVE  Writes(<<i(op)>>, d, Computed(regs, mem, i(op)))
  <2>1. ~IsStore(<<i(op)>>[1])
    BY <1>1, <1>2, <1>3 DEF IsStore
  <2>. QED  BY <1>1, <1>2, <2>1 DEF Writes, MemAfter, RegsAfter
<1>4. ASSUME NEW o \in {"st t", "st w"}
      PROVE  Puts(<<i(o)>>, Wrap(regs[a] + b), IF o = "st t" THEN 9 ELSE 27, regs[d])
  <2>1. IsStore(<<i(o)>>[1])
    BY <1>1, <1>2 DEF IsStore
  <2>2. Width(<<i(o)>>[1]) = IF o = "st t" THEN 9 ELSE 27
    BY <1>1, <1>2 DEF Width
  <2>. QED  BY <1>1, <1>2, <2>1, <2>2 DEF Puts, MemAfter, RegsAfter
<1>5. Puts(<<i("st t")>>, Wrap(regs[a] + b), 9, regs[d])
  BY <1>4
<1>6. Puts(<<i("st w")>>, Wrap(regs[a] + b), 27, regs[d])
  BY <1>4
<1>. QED  BY <1>1, <1>3, <1>5, <1>6 DEF i

LEMMA CodeWrites ==
  ASSUME NEW d, NEW a, NEW b
  PROVE  /\ Writes(Code("mv", d, a, b), d, regs[a])
         /\ Writes(Code("li", d, a, b), d, b)
         /\ Writes(Code("add", d, a, b), d, Wrap(regs[a] + regs[b]))
         /\ Writes(Code("addi", d, a, b), d, Wrap(regs[a] + b))
         /\ Writes(Code("sub", d, a, b), d, Wrap(regs[a] - regs[b]))
         /\ Writes(Code("slt", d, a, b), d, IF regs[a] < regs[b] THEN 1 ELSE 0)
         /\ Writes(Code("slti", d, a, b), d, IF regs[a] < b THEN 1 ELSE 0)
         /\ Writes(Code("ld t", d, a, b), d, Loaded(mem, Wrap(regs[a] + b), 9))
         /\ Writes(Code("ld w", d, a, b), d, Loaded(mem, Wrap(regs[a] + b), 27))
<1>. DEFINE i(op) == [op |-> op, d |-> d, a |-> a, b |-> b]
<1>1. ASSUME NEW op, op \notin {"st t", "st w"}
      PROVE  Writes(Code(op, d, a, b), d, Computed(regs, mem, i(op)))
  BY <1>1, CodeRuns
<1>2. Computed(regs, mem, i("mv")) = regs[a]
  BY DEF Computed
<1>3. Computed(regs, mem, i("li")) = b
  BY DEF Computed
<1>4. Computed(regs, mem, i("add")) = Wrap(regs[a] + regs[b])
  BY DEF Computed
<1>5. Computed(regs, mem, i("addi")) = Wrap(regs[a] + b)
  BY DEF Computed
<1>6. Computed(regs, mem, i("sub")) = Wrap(regs[a] - regs[b])
  BY DEF Computed
<1>7. Computed(regs, mem, i("slt")) = IF regs[a] < regs[b] THEN 1 ELSE 0
  BY DEF Computed
<1>8. Computed(regs, mem, i("slti")) = IF regs[a] < b THEN 1 ELSE 0
  BY DEF Computed
<1>9. Computed(regs, mem, i("ld t")) = Loaded(mem, Wrap(regs[a] + b), 9)
  BY DEF Computed, Width
<1>10. Computed(regs, mem, i("ld w")) = Loaded(mem, Wrap(regs[a] + b), 27)
  BY DEF Computed, Width
<1>. HIDE DEF i
<1>. QED
  BY <1>1, <1>2, <1>3, <1>4, <1>5, <1>6, <1>7, <1>8, <1>9, <1>10

\* running what is printed for an instruction writes its result
LEMMA ComputingIsRight ==
  ASSUME TypeOK, NEW n, NextIsFit(n), n.type # "STORE"
  PROVE  Writes(output_insn(n), n.out[2], Result(n)) /\ Result(n) \in Values
<1>. USE DEF NextIsFit
<1>1. regs \in [RegistersOf(fun) -> Values] /\ n.out[2] \in RegistersOf(fun) /\ mem \in [Values -> Cells]
  BY DEF TypeOK
<1>2. CASE n.type = "MOVE" /\ n.out = n.in[1]
  <2>1. output_insn(n) = <<>>
    BY <1>2 DEF output_insn, output_move
  <2>2. Result(n) = regs[n.out[2]]
    BY <1>2 DEF Result, ValueOf
  <2>. QED  BY <1>1, <2>1, <2>2 DEF Writes, MemAfter, RegsAfter
<1>3. CASE n.type = "MOVE" /\ n.out # n.in[1]
  <2>1. output_insn(n) = Code("mv", n.out[2], n.in[1][2], 0) /\ IsReg(n.in[1])
    BY <1>3 DEF output_insn, output_move, Printable
  <2>2. Result(n) = regs[n.in[1][2]] /\ n.in[1][2] \in RegistersOf(fun)
    BY <1>3, <2>1 DEF Result, ValueOf
  <2>. QED  BY <1>1, <2>1, <2>2, CodeWrites
<1>4. CASE n.type = "COPY"
  <2>1. output_insn(n) = Code("li", n.out[2], "x0", n.in[1][2])
    BY <1>4 DEF output_insn, output_copy
  <2>2. Result(n) = n.in[1][2] /\ n.in[1][2] \in Values
    BY <1>4 DEF Result, ValueOf, IsReg, IsImm
  <2>. QED  BY <1>1, <2>1, <2>2, CodeWrites
<1>5. CASE n.type \in {"ADD", "SUB", "LT"}
  <2>1. /\ IsReg(n.in[1]) /\ (IsReg(n.in[2]) \/ IsImm(n.in[2]))
        /\ ValueOf(n.in[1]) \in Int /\ ValueOf(n.in[2]) \in Int
        /\ ValueOf(n.in[1]) = regs[n.in[1][2]]
    BY <1>5, OperandFacts, WordsAreInt DEF Printable, ValueOf
  <2>2. CASE n.type = "ADD"
    <3>1. output_insn(n) = output_add(n) /\ Result(n) = Wrap(ValueOf(n.in[1]) + ValueOf(n.in[2]))
      BY <2>2 DEF output_insn, Result
    <3>2. Result(n) \in Values
      BY <2>1, <3>1, WrapFacts
    <3>. QED  BY <1>1, <2>1, <3>1, <3>2, CodeWrites DEF output_add, ValueOf
  <2>3. CASE n.type = "SUB"
    <3>1. output_insn(n) = output_sub(n) /\ Result(n) = Wrap(ValueOf(n.in[1]) - ValueOf(n.in[2]))
      BY <2>3 DEF output_insn, Result
    <3>2. Result(n) \in Values
      BY <2>1, <3>1, WrapFacts
    <3>3. CASE IsReg(n.in[2])
      BY <1>1, <2>1, <3>1, <3>2, <3>3, CodeWrites DEF output_sub, ValueOf
    <3>4. CASE ~IsReg(n.in[2])
      <4>1. n.in[2][2] \in Nat /\ ValueOf(n.in[2]) = n.in[2][2]
        BY <2>1, <2>3, <3>4 DEF ValueOf
      <4>2. output_insn(n) = Code("addi", n.out[2], n.in[1][2], -n.in[2][2])
        BY <3>1, <3>4, <4>1 DEF output_sub
      <4>3. Result(n) = Wrap(regs[n.in[1][2]] + (-n.in[2][2]))
        BY <2>1, <3>1, <4>1
      <4>. QED  BY <1>1, <3>2, <4>2, <4>3, CodeWrites
    <3>. QED  BY <3>3, <3>4
  <2>4. CASE n.type = "LT"
    <3>1. /\ output_insn(n) = output_lt(n)
          /\ Result(n) = IF ValueOf(n.in[1]) < ValueOf(n.in[2]) THEN 1 ELSE 0
      BY <2>4 DEF output_insn, Result
    <3>2. Result(n) \in Values
      BY <3>1, WordsAreInt
    <3>. QED  BY <1>1, <2>1, <3>1, <3>2, CodeWrites DEF output_lt, ValueOf
  <2>. QED  BY <1>5, <2>2, <2>3, <2>4
<1>6. CASE n.type = "LOAD"
  <2>1. /\ IsReg(n.in[1]) /\ ValueOf(n.in[1]) \in Int /\ n.v \in Int
        /\ ValueOf(n.in[1]) = regs[n.in[1][2]]
    BY <1>6, OperandFacts, WordsAreInt DEF Printable, ValueOf
  <2>2. output_insn(n) = output_load(n) /\ Result(n) = Loaded(mem, Wrap(regs[n.in[1][2]] + n.v), WidthOf(n))
    BY <1>6, <2>1 DEF output_insn, Result
  <2>3. Result(n) \in Values
    <3>1. Wrap(regs[n.in[1][2]] + n.v) \in Values
      BY <2>1, WrapFacts
    <3>. QED  BY <1>1, <2>2, <3>1, LoadedFacts
  <2>4. CASE n.vtype = "I9"
    BY <1>1, <2>2, <2>3, <2>4, CodeWrites DEF output_load, WidthOf
  <2>5. CASE n.vtype # "I9"
    BY <1>1, <2>2, <2>3, <2>5, CodeWrites DEF output_load, WidthOf
  <2>. QED  BY <2>4, <2>5
<1>. QED  BY <1>2, <1>3, <1>4, <1>5, <1>6 DEF Printable

LEMMA StoringIsRight ==
  ASSUME TypeOK, NEW n, NextIsFit(n), n.type = "STORE"
  PROVE  /\ Puts(output_insn(n), Wrap(ValueOf(n.in[1]) + n.v), WidthOf(n), ValueOf(n.in[2]))
         /\ MemAfter(regs, mem, output_insn(n)) \in [Values -> Cells]
<1>1. /\ IsReg(n.in[1]) /\ IsReg(n.in[2]) /\ n.v \in Int
      /\ ValueOf(n.in[1]) \in Int /\ ValueOf(n.in[2]) \in Values
      /\ ValueOf(n.in[1]) = regs[n.in[1][2]] /\ ValueOf(n.in[2]) = regs[n.in[2][2]]
  BY OperandFacts, WordsAreInt DEF NextIsFit, Printable, ValueOf
<1>2. output_insn(n) = output_store(n)
  BY DEF output_insn
<1>3. Wrap(ValueOf(n.in[1]) + n.v) \in Values
  BY <1>1, WrapFacts
<1>4. Puts(output_insn(n), Wrap(ValueOf(n.in[1]) + n.v), WidthOf(n), ValueOf(n.in[2]))
  <2>1. CASE n.vtype = "I9"
    BY <1>1, <1>2, <2>1, CodeRuns DEF output_store, WidthOf
  <2>2. CASE n.vtype # "I9"
    BY <1>1, <1>2, <2>2, CodeRuns DEF output_store, WidthOf
  <2>. QED  BY <2>1, <2>2
<1>5. [width |-> WidthOf(n), value |-> ValueOf(n.in[2])] \in Cells
  BY <1>1 DEF WidthOf, Cells
<1>. QED  BY <1>3, <1>4, <1>5 DEF Puts, Stored, TypeOK

\* an operand of the next instruction is what the block left in its register
LEMMA OperandsMean ==
  ASSUME Inv, at # 0, pc = "insns", NEW n, NextIsFit(n)
  PROVE  \A o \in {n.in[1], n.in[2]} : Meaning!Of(o) = ValueOf(o)
<1>. SUFFICES ASSUME NEW o \in {n.in[1], n.in[2]} PROVE Meaning!Of(o) = ValueOf(o)
  OBVIOUS
<1>1. left = regs
  BY DEF Inv, Lags
<1>2. IsReg(o) => o[2] \in Known(Here, ip)
  BY DEF NextIsFit
<1>. QED  BY <1>1, <1>2 DEF Meaning!Of, ValueOf, IsReg

\* the values the block at hand has so far
Env == IF at = 0 THEN <<>> ELSE [r \in Known(Here, ip) |-> left[r]]

LEMMA ExecuteStep ==
  ASSUME Inv, Execute, Harmless(fun)
  PROVE  Inv' /\ Meaning!Execute /\ fun' = fun
<1>. DEFINE n == NextInsn
            code == output_insn(n)
<1>1. /\ at # 0 /\ pc = "insns" /\ ip <= Len(Here.insns)
      /\ regs' = RegsAfter(regs, mem, code) /\ mem' = MemAfter(regs, mem, code)
      /\ left' = regs' /\ ip' = ip + 1 /\ fun' = fun /\ at' = at /\ pc' = pc
  BY DEF Execute
<1>2. NextIsFit(n)
  BY <1>1, NextInsnFacts
<1>3. /\ Meaning!Of(n.in[1]) = ValueOf(n.in[1]) /\ Meaning!Of(n.in[2]) = ValueOf(n.in[2])
      /\ left = regs /\ at \in Blocks /\ fun \in Functions
  BY <1>1, <1>2, OperandsMean DEF Inv, Lags, TypeOK
<1>4. /\ Here' = Here /\ Len(Here.insns) \in Nat
      /\ ip' \in 1 .. Len(Here.insns) + 1
  BY <1>1, <1>3, KnownFacts DEF Here, Inv, TypeOK
<1>5. Meaning!WidthOf(n) = WidthOf(n)
  BY DEF Meaning!WidthOf, WidthOf
<1>6. /\ Env = [r \in Known(Here, ip) |-> regs[r]]
      /\ Env' = [r \in Known(Here, ip + 1) |-> regs'[r]]
      /\ Known(Here, ip + 1) = Known(Here, ip) \cup OutOf(n)
      /\ Known(Here, ip) \subseteq RegistersOf(fun)
  <2>1. Env' = [r \in Known(Here, ip + 1) |-> left'[r]]
    BY <1>1, <1>4 DEF Env
  <2>. QED  BY <1>1, <1>2, <1>3, <2>1 DEF Env, NextIsFit
<1>7. regs \in [RegistersOf(fun) -> Values] /\ mem \in [Values -> Cells]
  BY DEF Inv, TypeOK
<1>. HIDE DEF n, code
<1>8. CASE n.type = "STORE"
  <2>1. /\ regs' = regs /\ mem' \in [Values -> Cells]
        /\ mem' = Stored(mem, Wrap(ValueOf(n.in[1]) + n.v), WidthOf(n), ValueOf(n.in[2]))
    BY <1>1, <1>2, <1>8, StoringIsRight DEF Inv, Puts, code
  <2>2. mem' = Meaning!Stored(mem, Meaning!Wrap(Meaning!Of(n.in[1]) + n.v),
                              Meaning!WidthOf(n), Meaning!Of(n.in[2]))
    BY <1>3, <1>5, <2>1, SameMachine
  <2>3. Env' = Env
    BY <1>2, <1>6, <1>8, <2>1 DEF NextIsFit, OutOf
  <2>4. Inv'
    BY <1>1, <1>3, <1>4, <1>7, <2>1 DEF Inv, TypeOK, Lags
  <2>. QED  BY <1>1, <1>8, <2>2, <2>3, <2>4 DEF Meaning!Execute, Meaning!Here, Env, n, NextInsn, Here
<1>9. CASE n.type # "STORE"
  <2>1. /\ mem' = mem /\ regs' = [regs EXCEPT ![n.out[2]] = Result(n)]
        /\ Result(n) \in Values
    BY <1>1, <1>2, <1>9, ComputingIsRight DEF Inv, Writes, code
  <2>2. Result(n) = Meaning!Result(n)
    BY <1>3, <1>5, SameMachine DEF Result, Meaning!Result
  <2>3. OutOf(n) = {n.out[2]} /\ n.out[2] \in RegistersOf(fun)
    BY <1>2, <1>9 DEF NextIsFit, OutOf
  <2>4. Env' = [r \in DOMAIN Env \cup {n.out[2]} |-> IF r = n.out[2] THEN Meaning!Result(n) ELSE Env[r]]
    BY <1>6, <1>7, <2>1, <2>2, <2>3
  <2>5. Inv'
    BY <1>1, <1>3, <1>4, <1>7, <2>1 DEF Inv, TypeOK, Lags
  <2>. QED  BY <1>1, <1>9, <2>1, <2>4, <2>5 DEF Meaning!Execute, Meaning!Here, Env, n, NextInsn, Here
<1>. QED  BY <1>8, <1>9
-----------------------------------------------------------------------------
(* The moves and the branches.                                              *)

\* where control is in a block, its edges are as register allocation left them
LEMMA HereFacts ==
  ASSUME Inv, at # 0
  PROVE  /\ fun \in Functions /\ at \in Blocks /\ Here = fun[at] /\ WellFormed(fun, at)
         /\ AtEnd(Here) = Known(Here, Len(Here.insns) + 1)
         /\ AtEnd(Here) \subseteq RegistersOf(fun)
         /\ "x0" \notin RegistersOf(fun)
         /\ regs \in [RegistersOf(fun) -> Values] /\ left \in [RegistersOf(fun) -> Values]
         /\ mem \in [Values -> Cells]
<1>1. fun \in Functions /\ at \in Blocks
  BY DEF Inv, TypeOK
<1>. QED  BY <1>1, KnownFacts, FunctionsAssumption DEF Inv, TypeOK, Here, AtEnd

\* the moves of an edge leave words in the registers of the function
LEMMA MovedFacts ==
  ASSUME Inv, at # 0, NEW target, NEW args, Edge(fun, at, target, args)
  PROVE  /\ Moved(fun[target].params, args) \in [RegistersOf(fun) -> Values]
         /\ \A r \in RegistersOf(fun) :
              Moved(fun[target].params, args)[r] =
                IF r \in ToSet(fun[target].params)
                THEN regs[ArgumentFor(fun[target].params, args, r)] ELSE regs[r]
<1>1. /\ fun \in Functions /\ at \in Blocks /\ Here = fun[at]
      /\ AtEnd(Here) \subseteq RegistersOf(fun)
      /\ regs \in [RegistersOf(fun) -> Values]
  BY HereFacts
<1>2. \A r \in ToSet(fun[target].params) :
        ArgumentFor(fun[target].params, args, r) \in RegistersOf(fun)
  BY <1>1, EdgeFacts
<1>. QED  BY <1>1, <1>2 DEF Moved, Regs, ArgumentFor

\* the contents of the registers are what an edge hands over
Delivers(target, args, contents) ==
  /\ contents \in [RegistersOf(fun) -> Values]
  /\ \A r \in ToSet(fun[target].params) :
       contents[r] = left[ArgumentFor(fun[target].params, args, r)]

\* what the next block is handed, in terms of the meaning
Handover(target, args) ==
  [r \in ToSet(fun[target].params) |-> Env[ArgumentFor(fun[target].params, args, r)]]

\* an edge is followed as the meaning has it, where the registers are left
\* with what the edge hands over
LEMMA GotoMeans ==
  ASSUME Inv, at # 0, ip = Len(Here.insns) + 1,
         NEW target, NEW args, Edge(fun, at, target, args),
         NEW contents, Delivers(target, args, contents), Arrive(target, contents)
  PROVE  /\ Inv' /\ at' = target /\ ip' = 1 /\ fun' = fun /\ mem' = mem
         /\ Env' = Handover(target, args)
<1>. USE DEF Delivers
<1>1. /\ fun \in Functions /\ at \in Blocks /\ Here = fun[at]
      /\ AtEnd(Here) = Known(Here, ip) /\ AtEnd(Here) \subseteq RegistersOf(fun)
      /\ mem \in [Values -> Cells]
  BY HereFacts
<1>2. /\ at' = target /\ pc' = "insns" /\ ip' = 1 /\ regs' = contents /\ left' = contents
      /\ fun' = fun /\ mem' = mem
  BY DEF Arrive
<1>3. target \in Blocks /\ target # 0
  BY BlocksAssumption DEF Edge, Blocks
<1>4. /\ Here' = fun[target] /\ Known(fun[target], 1) = ToSet(fun[target].params)
      /\ Len(fun[target].insns) \in Nat
  BY <1>1, <1>2, <1>3, KnownFacts DEF Here
<1>5. \A r \in ToSet(fun[target].params) :
        ArgumentFor(fun[target].params, args, r) \in Known(Here, ip)
  BY <1>1, EdgeFacts
<1>6. Env = [r \in Known(Here, ip) |-> left[r]]
  BY DEF Env
<1>7. Env' = [r \in ToSet(fun[target].params) |-> contents[r]]
  BY <1>2, <1>3, <1>4 DEF Env
<1>8. Env' = [r \in ToSet(fun[target].params) |-> Env[ArgumentFor(fun[target].params, args, r)]]
  BY <1>5, <1>6, <1>7
<1>9. Env' = Handover(target, args)
  BY <1>8 DEF Handover
<1>10. Inv'
  <2>1. TypeOK'
    BY <1>1, <1>2, <1>3, <1>4 DEF TypeOK
  <2>. QED  BY <1>1, <1>2, <2>1 DEF Inv, Lags
<1>. QED  BY <1>2, <1>9, <1>10

\* the moves printed before a branch hand over what its edge carries, and
\* change nothing the meaning sees
LEMMA BranchMovesStep ==
  ASSUME Inv, BranchMoves
  PROVE  Inv' /\ UNCHANGED Meaning!vars
<1>1. /\ at # 0 /\ pc = "insns" /\ ip = Len(Here.insns) + 1
      /\ regs' = IF Here.s2 # NoBlock THEN Moved(fun[Here.s2].params, Here.args2) ELSE regs
      /\ pc' = "branch" /\ fun' = fun /\ at' = at /\ ip' = ip /\ mem' = mem /\ left' = left
  BY DEF BranchMoves
<1>2. /\ fun \in Functions /\ Here = fun[at] /\ WellFormed(fun, at) /\ left = regs
      /\ regs \in [RegistersOf(fun) -> Values] /\ left \in [RegistersOf(fun) -> Values]
      /\ mem \in [Values -> Cells]
  BY <1>1, HereFacts DEF Inv, Lags
<1>3. Here' = Here /\ Env' = Env
  BY <1>1 DEF Here, Env
<1>4. /\ regs' \in [RegistersOf(fun) -> Values]
      /\ regs' = IF Here.s2 # NoBlock THEN Handed(at) ELSE left
  <2>1. CASE Here.s2 = NoBlock
    BY <1>1, <1>2, <2>1
  <2>2. CASE Here.s2 # NoBlock
    <3>1. Edge(fun, at, Here.s2, Here.args2)
      BY <1>2, <2>2 DEF WellFormed
    <3>2. regs' = Moved(fun[Here.s2].params, Here.args2)
      BY <1>1, <2>2
    <3>3. regs' \in [RegistersOf(fun) -> Values]
      BY <1>1, <3>1, <3>2, MovedFacts
    <3>4. regs' = Handed(at)
      <4>1. Here = fun[at] /\ left = regs
        BY <1>2
      <4>2. PICK params : params = fun[Here.s2].params
        OBVIOUS
      <4>3. PICK args : args = Here.args2
        OBVIOUS
      <4>4. regs' = Moved(params, args)
        BY <3>2, <4>2, <4>3
      <4>5. Moved(params, args) = [r \in DOMAIN left |->
                                    IF r \in ToSet(params) THEN left[ArgumentFor(params, args, r)]
                                    ELSE left[r]]
        BY <4>1 DEF Moved, Regs, ArgumentFor
      <4>6. params = fun[fun[at].s2].params /\ args = fun[at].args2
        BY <4>1, <4>2, <4>3
      <4>7. Handed(at) = [r \in DOMAIN left |->
                           IF r \in ToSet(params) THEN left[ArgumentFor(params, args, r)]
                           ELSE left[r]]
        BY <4>6 DEF Handed
      <4>. QED  BY <4>4, <4>5, <4>7
    <3>. QED  BY <2>2, <3>3, <3>4
  <2>. QED  BY <2>1, <2>2
<1>5. TypeOK'
  BY <1>1, <1>2, <1>3, <1>4 DEF Inv, TypeOK
<1>6. Lags'
  BY <1>1, <1>3, <1>4 DEF Lags, Handed, Here
<1>. QED  BY <1>1, <1>2, <1>3, <1>5, <1>6 DEF Inv, Meaning!vars, Env

\* after them, the registers that the comparison and the other edge read are
\* as the block left them
LEMMA HandedFacts ==
  ASSUME Inv, at # 0, pc # "insns", Here.s2 # NoBlock, Edge(fun, at, Here.s2, Here.args2)
  PROVE  /\ ip = Len(Here.insns) + 1
         /\ \A r \in ToSet(fun[Here.s2].params) :
              regs[r] = left[ArgumentFor(fun[Here.s2].params, Here.args2, r)]
         /\ Here.kind \in Conditional /\ Harmless(fun) =>
              \A r \in (ToSet(Here.cmp) \cup ToSet(Here.args1)) \cap RegistersOf(fun) :
                regs[r] = left[r]
<1>1. /\ fun \in Functions /\ at \in Blocks /\ Here = fun[at]
      /\ left \in [RegistersOf(fun) -> Values] /\ DOMAIN left = RegistersOf(fun)
  BY HereFacts
<1>2. ip = Len(Here.insns) + 1 /\ regs = Handed(at)
  BY DEF Inv, Lags
<1>3. ToSet(fun[Here.s2].params) \subseteq RegistersOf(fun)
  <2>1. Here.s2 \in Blocks
    BY DEF Edge
  <2>2. ToSet(fun[Here.s2].params) \subseteq AtEnd(fun[Here.s2])
    BY DEF AtEnd, Known
  <2>. QED  BY <1>1, <2>1, <2>2, KnownFacts
<1>4. \A r \in ToSet(fun[Here.s2].params) :
        regs[r] = left[ArgumentFor(fun[Here.s2].params, Here.args2, r)]
  BY <1>1, <1>2, <1>3 DEF Handed
<1>5. ASSUME Here.kind \in Conditional, Harmless(fun),
             NEW r \in (ToSet(Here.cmp) \cup ToSet(Here.args1)) \cap RegistersOf(fun)
      PROVE  regs[r] = left[r]
  <2>1. CASE r \in ToSet(fun[Here.s2].params)
    <3>1. ArgumentFor(fun[Here.s2].params, Here.args2, r) = r
      BY <1>1, <1>5, <2>1 DEF Harmless
    <3>. QED  BY <1>4, <2>1, <3>1
  <2>2. CASE r \notin ToSet(fun[Here.s2].params)
    BY <1>1, <1>2, <2>2 DEF Handed
  <2>. QED  BY <2>1, <2>2
<1>. QED  BY <1>2, <1>4, <1>5

LEMMA JStep ==
  ASSUME Inv, J
  PROVE  Inv' /\ Meaning!Jump /\ fun' = fun
<1>1. /\ pc = "branch" /\ at # 0 /\ Here.kind = "J"
      /\ Arrive(IF ~Here.to \/ Here.s1 = Here.s2 THEN at + 1 ELSE Here.s2, regs)
  BY DEF J, Inv, TypeOK
<1>2. WellFormed(fun, at) /\ Here = fun[at] /\ regs \in [RegistersOf(fun) -> Values]
  BY <1>1, HereFacts
<1>3. /\ Edge(fun, at, Here.s2, Here.args2) /\ Arrive(Here.s2, regs)
      /\ Here.s2 # NoBlock
  BY <1>1, <1>2, BlocksAssumption DEF WellFormed, Edge, Blocks, NoBlock
<1>4. ip = Len(Here.insns) + 1 /\ Delivers(Here.s2, Here.args2, regs)
  BY <1>1, <1>2, <1>3, HandedFacts DEF Delivers
<1>5. Inv' /\ Meaning!Goto(Here.s2, Here.args2) /\ fun' = fun
  <2>1. PICK t, a, c : t = Here.s2 /\ a = Here.args2 /\ c = regs
    OBVIOUS
  <2>2. Edge(fun, at, t, a) /\ Delivers(t, a, c) /\ Arrive(t, c)
    BY <1>1, <1>3, <1>4, <2>1
  <2>3. Inv' /\ at' = t /\ ip' = 1 /\ fun' = fun /\ mem' = mem /\ Env' = Handover(t, a)
    BY <1>1, <1>3, <1>4, <2>2, GotoMeans
  <2>4. Env' = Handover(Here.s2, Here.args2)
    BY <2>1, <2>3
  <2>. QED  BY <2>1, <2>3, <2>4, SameMachine DEF Meaning!Goto, Handover, ArgumentFor, Env
<1>. QED  BY <1>1, <1>4, <1>5 DEF Meaning!Jump, Meaning!AtEnd, Meaning!Here, Here

LEMMA RetStep ==
  ASSUME Inv, Ret
  PROVE  Inv' /\ Meaning!Return /\ fun' = fun
<1>1. /\ pc = "branch" /\ at # 0 /\ Here.kind = "RET" /\ Arrive(0, regs)
  BY DEF Ret, Inv, TypeOK
<1>2. fun \in Functions /\ regs \in [RegistersOf(fun) -> Values] /\ mem \in [Values -> Cells]
  BY <1>1, HereFacts
<1>3. ip = Len(Here.insns) + 1
  BY <1>1 DEF Inv, Lags
<1>4. /\ at' = 0 /\ pc' = "insns" /\ ip' = 1 /\ regs' = regs /\ left' = regs
      /\ fun' = fun /\ mem' = mem
  BY <1>1 DEF Arrive
<1>5. Inv'
  <2>1. TypeOK'
    BY <1>2, <1>4 DEF TypeOK
  <2>. QED  BY <1>2, <1>4, <2>1 DEF Inv, Lags
<1>6. Env' = <<>>
  BY <1>4 DEF Env
<1>. QED  BY <1>1, <1>3, <1>4, <1>5, <1>6 DEF Meaning!Return, Meaning!AtEnd, Meaning!Here, Here, Env

\* a conditional branch is taken where its comparison holds
LEMMA BranchesMeans ==
  ASSUME Inv, at # 0, pc # "insns", Here.kind \in Conditional, Harmless(fun)
  PROVE  /\ Here.s2 # NoBlock /\ Edge(fun, at, Here.s2, Here.args2)
         /\ Here.s1 = at + 1 /\ Edge(fun, at, Here.s1, Here.args1)
         /\ ip = Len(Here.insns) + 1
         /\ Branches(regs, output_branch(Here)) <=> Meaning!Holds(Here)
<1>1. /\ fun \in Functions /\ at \in Blocks /\ Here = fun[at] /\ WellFormed(fun, at)
      /\ AtEnd(Here) = Known(Here, Len(Here.insns) + 1)
      /\ AtEnd(Here) \subseteq RegistersOf(fun)
      /\ "x0" \notin RegistersOf(fun)
  BY HereFacts
<1>2. /\ Edge(fun, at, Here.s2, Here.args2) /\ Edge(fun, at, Here.s1, Here.args1)
      /\ Here.s2 # NoBlock /\ Here.s1 = at + 1
      /\ DOMAIN Here.cmp = IF Here.kind \in {"BNZ", "BEZ"} THEN {1} ELSE {1, 2}
      /\ ToSet(Here.cmp) \subseteq AtEnd(Here)
  BY <1>1, BlocksAssumption DEF WellFormed, Edge, Blocks, NoBlock
<1>3. /\ ip = Len(Here.insns) + 1
      /\ \A r \in ToSet(Here.cmp) : regs[r] = left[r]
  BY <1>1, <1>2, HandedFacts
<1>4. Env = [r \in AtEnd(Here) |-> left[r]]
  BY <1>1, <1>3 DEF Env
<1>5. \A k \in DOMAIN Here.cmp : Env[Here.cmp[k]] = regs[Here.cmp[k]] /\ Here.cmp[k] # "x0"
  BY <1>1, <1>2, <1>3, <1>4 DEF ToSet
<1>6. Branches(regs, output_branch(Here)) <=> Meaning!Holds(Here)
  <2>1. CASE Here.kind = "BLT"
    <3>1. output_branch(Here) = Cond("blt", Here.cmp[1], Here.cmp[2])
      BY <2>1 DEF output_branch
    <3>. QED  BY <1>2, <1>5, <2>1, <3>1 DEF Cond, Branches, Meaning!Holds, Env
  <2>2. CASE Here.kind = "BLE"
    <3>1. output_branch(Here) = Cond("ble", Here.cmp[1], Here.cmp[2])
      BY <2>2 DEF output_branch
    <3>. QED  BY <1>2, <1>5, <2>2, <3>1 DEF Cond, Branches, Meaning!Holds, Env
  <2>3. CASE Here.kind = "BNE"
    <3>1. output_branch(Here) = Cond("bne", Here.cmp[1], Here.cmp[2])
      BY <2>3 DEF output_branch
    <3>. QED  BY <1>2, <1>5, <2>3, <3>1 DEF Cond, Branches, Meaning!Holds, Env
  <2>4. CASE Here.kind = "BNZ"
    <3>1. output_branch(Here) = Cond("bne", Here.cmp[1], "x0")
      BY <2>4 DEF output_branch
    <3>. QED  BY <1>2, <1>5, <2>4, <3>1 DEF Cond, Branches, Meaning!Holds, Env
  <2>5. CASE Here.kind = "BEZ"
    <3>1. output_branch(Here) = Cond("beq", Here.cmp[1], "x0")
      BY <2>5 DEF output_branch
    <3>. QED  BY <1>2, <1>5, <2>5, <3>1 DEF Cond, Branches, Meaning!Holds, Env
  <2>. QED  BY <2>1, <2>2, <2>3, <2>4, <2>5 DEF Conditional
<1>. QED  BY <1>2, <1>3, <1>6

LEMMA TakenStep ==
  ASSUME Inv, Taken, Harmless(fun)
  PROVE  Inv' /\ Meaning!Branch /\ fun' = fun
<1>1. /\ pc = "branch" /\ at # 0 /\ Here.kind \in Conditional
      /\ Branches(regs, output_branch(Here)) /\ Arrive(Here.s2, regs)
  BY DEF Taken, Inv, TypeOK
<1>2. /\ Here.s2 # NoBlock /\ Edge(fun, at, Here.s2, Here.args2)
      /\ ip = Len(Here.insns) + 1 /\ Meaning!Holds(Here)
  BY <1>1, BranchesMeans
<1>3. Delivers(Here.s2, Here.args2, regs)
  <2>1. regs \in [RegistersOf(fun) -> Values]
    BY <1>1, HereFacts
  <2>. QED  BY <1>1, <1>2, <2>1, HandedFacts DEF Delivers
<1>4. Inv' /\ Meaning!Goto(Here.s2, Here.args2) /\ fun' = fun
  <2>1. PICK t, a, c : t = Here.s2 /\ a = Here.args2 /\ c = regs
    OBVIOUS
  <2>2. Edge(fun, at, t, a) /\ Delivers(t, a, c) /\ Arrive(t, c)
    BY <1>1, <1>2, <1>3, <2>1
  <2>3. Inv' /\ at' = t /\ ip' = 1 /\ fun' = fun /\ mem' = mem /\ Env' = Handover(t, a)
    BY <1>1, <1>2, <1>3, <2>2, GotoMeans
  <2>4. Env' = Handover(Here.s2, Here.args2)
    BY <2>1, <2>3
  <2>. QED  BY <2>1, <2>3, <2>4, SameMachine DEF Meaning!Goto, Handover, ArgumentFor, Env
<1>. QED  BY <1>1, <1>2, <1>4 DEF Meaning!Branch, Meaning!AtEnd, Meaning!Here, Here, Conditional

LEMMA NotTakenStep ==
  ASSUME Inv, NotTaken
  PROVE  Inv' /\ UNCHANGED Meaning!vars
<1>1. /\ pc = "branch" /\ at # 0 /\ Here.kind \in Conditional
      /\ ~Branches(regs, output_branch(Here))
      /\ pc' = "fallthrough"
      /\ fun' = fun /\ at' = at /\ ip' = ip /\ regs' = regs /\ mem' = mem /\ left' = left
  BY DEF NotTaken, Inv, TypeOK
<1>2. Here' = Here /\ Env' = Env
  BY <1>1 DEF Here, Env
<1>3. TypeOK'
  BY <1>1 DEF Inv, TypeOK, Here
<1>4. Lags'
  BY <1>1, <1>2 DEF Inv, Lags, Handed, Here
<1>. QED  BY <1>1, <1>2, <1>3, <1>4 DEF Inv, Meaning!vars, Env

\* a branch that is not taken leaves along the other edge, whose arguments
\* are as the block left them
LEMMA FallthroughStep ==
  ASSUME Inv, FallthroughMoves, Harmless(fun)
  PROVE  Inv' /\ Meaning!Branch /\ fun' = fun
<1>. DEFINE contents == Moved(fun[Here.s1].params, Here.args1)
<1>1. /\ pc = "fallthrough" /\ at # 0 /\ Here.kind \in Conditional
      /\ ~Branches(regs, output_branch(Here)) /\ Arrive(at + 1, contents)
  BY DEF FallthroughMoves, Inv, TypeOK, Lags
<1>2. /\ Here.s1 = at + 1 /\ Edge(fun, at, Here.s1, Here.args1)
      /\ Here.s2 # NoBlock /\ Edge(fun, at, Here.s2, Here.args2)
      /\ ip = Len(Here.insns) + 1 /\ ~Meaning!Holds(Here)
  BY <1>1, BranchesMeans
<1>3. /\ contents \in [RegistersOf(fun) -> Values]
      /\ \A r \in RegistersOf(fun) :
           contents[r] = IF r \in ToSet(fun[Here.s1].params)
                         THEN regs[ArgumentFor(fun[Here.s1].params, Here.args1, r)] ELSE regs[r]
  BY <1>1, <1>2, MovedFacts
<1>4. /\ fun \in Functions /\ Here = fun[at] /\ AtEnd(Here) \subseteq RegistersOf(fun)
      /\ Here.s1 \in Blocks
  BY <1>1, <1>2, HereFacts DEF Edge
<1>. HIDE DEF contents
<1>5. ASSUME NEW r \in ToSet(fun[Here.s1].params)
      PROVE  contents[r] = left[ArgumentFor(fun[Here.s1].params, Here.args1, r)]
  <2>1. r \in RegistersOf(fun)
    <3>1. ToSet(fun[Here.s1].params) \subseteq AtEnd(fun[Here.s1])
      BY DEF AtEnd, Known
    <3>. QED  BY <1>4, <3>1, KnownFacts
  <2>2. ArgumentFor(fun[Here.s1].params, Here.args1, r) \in ToSet(Here.args1) \cap RegistersOf(fun)
    <3>1. PICK k \in DOMAIN fun[Here.s1].params : fun[Here.s1].params[k] = r
      BY DEF ToSet
    <3>2. (CHOOSE j \in DOMAIN fun[Here.s1].params : fun[Here.s1].params[j] = r) \in DOMAIN Here.args1
      BY <1>2, <3>1 DEF Edge
    <3>3. ArgumentFor(fun[Here.s1].params, Here.args1, r) \in ToSet(Here.args1)
      BY <3>2 DEF ArgumentFor, ToSet
    <3>. QED  BY <1>2, <1>4, <3>3 DEF Edge
  <2>3. regs[ArgumentFor(fun[Here.s1].params, Here.args1, r)]
          = left[ArgumentFor(fun[Here.s1].params, Here.args1, r)]
    BY <1>1, <1>2, <2>2, HandedFacts
  <2>. QED  BY <1>3, <2>1, <2>3
<1>6. Delivers(Here.s1, Here.args1, contents)
  BY <1>3, <1>5 DEF Delivers
<1>7. Inv' /\ Meaning!Goto(Here.s1, Here.args1) /\ fun' = fun
  <2>1. PICK t, a, c : t = Here.s1 /\ a = Here.args1 /\ c = contents
    OBVIOUS
  <2>2. Edge(fun, at, t, a) /\ Delivers(t, a, c) /\ Arrive(t, c)
    BY <1>1, <1>2, <1>6, <2>1
  <2>3. Inv' /\ at' = t /\ ip' = 1 /\ fun' = fun /\ mem' = mem /\ Env' = Handover(t, a)
    BY <1>1, <1>2, <1>6, <2>2, GotoMeans
  <2>4. Env' = Handover(Here.s1, Here.args1)
    BY <2>1, <2>3
  <2>. QED  BY <2>1, <2>3, <2>4, SameMachine DEF Meaning!Goto, Handover, ArgumentFor, Env
<1>. QED  BY <1>1, <1>2, <1>7 DEF Meaning!Branch, Meaning!AtEnd, Meaning!Here, Here, Conditional

-----------------------------------------------------------------------------
(* The theorems.                                                            *)

\* every step keeps the invariant and is a step of the meaning or none
LEMMA StepMeans ==
  ASSUME Inv, [Next]_vars, \A f \in Functions : Harmless(f)
  PROVE  Inv' /\ [Meaning!Next]_(Meaning!vars)
<1>1. Harmless(fun)
  BY DEF Inv
<1>2. CASE Execute
  BY <1>1, <1>2, ExecuteStep DEF Meaning!Next
<1>3. CASE BranchMoves
  BY <1>3, BranchMovesStep
<1>4. CASE Ret
  BY <1>4, RetStep DEF Meaning!Next
<1>5. CASE J
  BY <1>5, JStep DEF Meaning!Next
<1>6. CASE Taken
  BY <1>1, <1>6, TakenStep DEF Meaning!Next
<1>7. CASE NotTaken
  BY <1>7, NotTakenStep
<1>8. CASE FallthroughMoves
  BY <1>1, <1>8, FallthroughStep DEF Meaning!Next
<1>9. CASE UNCHANGED vars
  BY <1>9 DEF vars, Inv, TypeOK, Lags, Handed, Here, Known, OutOf, Meaning!vars
<1>. QED  BY <1>2, <1>3, <1>4, <1>5, <1>6, <1>7, <1>8, <1>9 DEF Next

(* The code output() prints for a function computes what its instructions   *)
(* mean, takes the branches its blocks call for and hands every block the   *)
(* values its edges carry (KeepsMeaning), in every function where no        *)
(* negative immediate is subtracted, where the moves of a conditional       *)
(* branch edge change nothing the comparison or the other edge reads, and   *)
(* where, as FunctionsAssumption has it, the moves of no edge form a cycle. *)
THEOREM PrintedCodeMeans ==
  ASSUME \A f \in Functions : Harmless(f)
  PROVE  Spec => KeepsMeaning
<1>1. Inv /\ [Next]_vars => Inv' /\ [Meaning!Next]_(Meaning!vars)
  BY StepMeans
<1>2. Init => Inv /\ Meaning!Init
  BY InitInv, InitMeans
<1>. QED  BY <1>1, <1>2, PTL DEF Spec, KeepsMeaning, Meaning!Spec

(* In such functions control stays within the function, and its registers   *)
(* and its memory hold words: an address or a result out of range is        *)
(* wrapped as in output()'s target (TypeOK).                                *)
THEOREM OutputTypes ==
  ASSUME \A f \in Functions : Harmless(f)
  PROVE  Spec => []TypeOK
<1>1. Inv /\ [Next]_vars => Inv'
  BY StepMeans
<1>2. Init => Inv
  BY InitInv
<1>3. Inv => TypeOK
  BY DEF Inv
<1>. QED  BY <1>1, <1>2, <1>3, PTL DEF Spec
=============================================================================
