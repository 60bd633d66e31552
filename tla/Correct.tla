------------------------------ MODULE Correct -------------------------------
(* The first pass over a parsed function, correct() in src/correct.c, which *)
(* brings instructions into the forms the later passes handle: immediates   *)
(* and references where no instruction takes them are loaded into fresh     *)
(* temporaries, and temporaries whose address was taken are read from and   *)
(* written to memory. It inserts into the vector it iterates over, so an    *)
(* instruction that got one put before it is visited again. The vectors are *)
(* those of Vec, with the room of their buffers.                            *)
(*                                                                          *)
(* Operands are tagged: a temporary, an immediate, a reference, or none.    *)
(* Instruction types are grouped by how correct_insn() treats them: "arith" *)
(* is ADD and MUL, "positional" is the other arithmetic and the relations,  *)
(* which get the same treatment, and the types in Plain are left alone.     *)
EXTENDS Vec, SequencesExt

CONSTANTS
  Functions,  \* the functions to choose from: sequences of [insns, cmp]
  NTmps       \* f->ntmp, the temporaries of the source

Tmp(n) == <<"tmp", n>>
Imm(n) == <<"imm", n>>
Ref(n) == <<"ref", n>>
None   == <<"none", 0>>

IsTmp(v) == v[1] = "tmp"
IsImm(v) == v[1] = "imm"
IsRef(v) == v[1] = "ref"

Plain == {"copy", "move", "load", "arg"}
Types == {"arith", "positional", "store", "addr", "call"} \cup Plain

Val  == ({"tmp", "imm", "ref"} \X Nat) \cup {None}
Insn == [type : Types, out : Val, in : Val \X Val]

ASSUME TmpsAssumption == NTmps \in Nat
\* a temporary among the first n
Below(v, n) == IsTmp(v) => v[2] < n

\* what store_rewrite() inserts: the value to store is its output, and in[1]
\* is not set (correct.c:145)
Rewritten(i) == i.type = "store" /\ i.out # None

\* what the grammar writes (parser.y:315-391, 394-430), and such stores
Written(i) ==
  /\ i.type \in {"arith", "positional"} => i.in[1] # None /\ i.in[2] # None
  /\ i.type = "store" /\ i.out = None => IsTmp(i.in[1]) /\ i.in[2] # None
  /\ i.type = "addr" => IsTmp(i.out)

ASSUME FunctionsAssumption ==
  /\ Functions \subseteq Seq([insns : Seq(Insn), cmp : Val \X Val]) \ {<<>>}
  /\ \A f \in Functions : \A b \in DOMAIN f :
       /\ \A k \in DOMAIN f[b].insns :
            /\ Written(f[b].insns[k]) /\ ~Rewritten(f[b].insns[k])
            /\ \A v \in {f[b].insns[k].out} \cup ToSet(f[b].insns[k].in) : Below(v, NTmps)
       /\ \A v \in ToSet(f[b].cmp) : Below(v, NTmps)

VARIABLES
  source,  \* history: the blocks as they were parsed
  body,    \* the blocks, corrected up to the position of the loops; insns
           \* is a vector
  bi, ii,  \* position of the loops over the blocks and over the instructions
  ri,      \* next free temporary
  rules    \* rewrite_addrs: the address of each temporary that is in memory

NB == Len(source)

vars == <<source, body, bi, ii, ri, rules>>

Op(type, out, a, b) == [type |-> type, out |-> out, in |-> <<a, b>>]

\* the vector that appending q to an empty one leaves, which has the least
\* power of two above its length for its room
Appended(q) ==
  {[n |-> Len(q), s |-> s, buf |-> [c \in 0 .. s - 1 |-> IF c < Len(q) THEN q[c + 1] ELSE Junk]] :
     s \in {2 ^ k : k \in 0 .. Len(q)} \cap Len(q) + 1 .. 2 * Len(q) + 1}

Parsed(b) == {[insns |-> v, cmp |-> b.cmp] : v \in Appended(b.insns)}

Init ==
  /\ source \in Functions
  /\ body \in [1 .. NB -> UNION {Parsed(source[b]) : b \in 1 .. NB}]
  /\ \A b \in 1 .. NB : body[b] \in Parsed(source[b])
  /\ bi = 1 /\ ii = 0
  /\ ri = NTmps
  /\ rules = <<>>

-----------------------------------------------------------------------------
insn_at(b, i) == vec_at(body[b].insns, i)

Visiting == bi \in 1 .. NB /\ ii < vec_len(body[bi].insns)
Cur      == insn_at(bi, ii)

InMemory(v) == IsTmp(v) /\ v[2] \in DOMAIN rules

\* insns with instruction ii replaced by i and a new one inserted at k
Inserted(insns, i, new, k) == vec_insert(Assigned(insns, ii, i), new, k)

Put(insns) == body' = [body EXCEPT ![bi].insns = insns]

\* mutant: the instruction is not visited again
LoadRewrite_Once ==
  /\ Visiting
  /\ \E k \in {1, 2} :
       /\ InMemory(Cur.in[k])
       /\ k = 2 => ~InMemory(Cur.in[1])
       /\ Put(Inserted(body[bi].insns, [Cur EXCEPT !.in[k] = Tmp(ri)],
                       Op("load", Tmp(ri), rules[Cur.in[k][2]], None), ii))
  /\ ri' = ri + 1
  /\ ii' = ii + 2
  /\ UNCHANGED <<source, bi, rules>>

\* load_rewrite() of the first operand that is in memory
LoadRewrite ==
  /\ Visiting
  /\ \E k \in {1, 2} :
       /\ InMemory(Cur.in[k])
       /\ k = 2 => ~InMemory(Cur.in[1])
       /\ Put(Inserted(body[bi].insns, [Cur EXCEPT !.in[k] = Tmp(ri)],
                       Op("load", Tmp(ri), rules[Cur.in[k][2]], None), ii))
  /\ ri' = ri + 1
  /\ ii' = ii + 1
  /\ UNCHANGED <<source, bi, rules>>

Loaded == Visiting /\ ~InMemory(Cur.in[1]) /\ ~InMemory(Cur.in[2])

\* mutant: the temporary is written as before
Stored_Not == body[bi].insns

\* the instructions after store_rewrite(). It does not return, its count of
\* temporaries is dropped, and what follows goes on with the instruction as
\* it was before
Stored ==
  IF InMemory(Cur.out)
  THEN Inserted(body[bi].insns, [Cur EXCEPT !.out = Tmp(ri)],
                Op("store", Tmp(ri), rules[Cur.out[2]], None), ii + 1)
  ELSE body[bi].insns

\* a fresh temporary takes the place of operand k, loaded by new just before
SpillWith(type, k) ==
  /\ Put(Inserted(Stored, [Cur EXCEPT !.in[k] = Tmp(ri)],
                  Op(type, Tmp(ri), Cur.in[k], None), ii))
  /\ ri' = ri + 1
  /\ ii' = ii + 1
  /\ UNCHANGED <<source, bi, rules>>

\* operand k is a reference, and spill_ref() is called for it
RefAt(k) == IsRef(Cur.in[k]) /\ (k = 1 => Cur.type # "call")
AnyRef   == RefAt(1) \/ RefAt(2)

SpillRef ==
  /\ Loaded
  /\ \E k \in {1, 2} : RefAt(k) /\ (k = 2 => ~RefAt(1)) /\ SpillWith("addr", k)

\* mutant: the store's address is looked at, not its value
NoImm_StoreBase(i) == IF i.type \in {"positional", "store"} THEN {1} ELSE {}

\* correct_positional_arith(), correct_relations() and correct_store() allow
\* no immediate as this operand
NoImm(i) == CASE i.type = "positional" -> {1}
              [] i.type = "store"      -> {2}
              [] OTHER                 -> {}

\* mutant: the copy is inserted after the instruction that needs it
SpillImm_After ==
  /\ Loaded /\ ~AnyRef
  /\ \E k \in NoImm(Cur) :
       /\ IsImm(Cur.in[k])
       /\ Put(Inserted(Stored, [Cur EXCEPT !.in[k] = Tmp(ri)],
                       Op("copy", Tmp(ri), Cur.in[k], None), ii + 1))
  /\ ri' = ri + 1
  /\ ii' = ii + 1
  /\ UNCHANGED <<source, bi, rules>>

\* spill_imm()
SpillImm ==
  /\ Loaded /\ ~AnyRef
  /\ \E k \in NoImm(Cur) : IsImm(Cur.in[k]) /\ SpillWith("copy", k)

Swaps == Cur.type = "arith" /\ IsImm(Cur.in[1])

\* correct_arith(): what comes after the swap in the code is never reached
Swap ==
  /\ Loaded /\ ~AnyRef /\ Swaps
  /\ Put(Assigned(Stored, ii, [Cur EXCEPT !.in = <<Cur.in[2], Cur.in[1]>>]))
  /\ ii' = ii + 1
  /\ UNCHANGED <<source, bi, ri, rules>>

Takes == Cur.type = "addr" /\ IsTmp(Cur.in[1])

\* correct_addr(): from here on the temporary is in memory
TakeAddress ==
  /\ Loaded /\ ~AnyRef /\ Takes
  /\ rules' = [n \in DOMAIN rules \cup {Cur.in[1][2]} |->
                 IF n = Cur.in[1][2] THEN Cur.out ELSE rules[n]]
  /\ Put(Stored)
  /\ ii' = ii + 1
  /\ UNCHANGED <<source, bi, ri>>

\* mutant: the loop does not move on
Keep_Stuck ==
  /\ Loaded /\ ~AnyRef /\ ~Swaps /\ ~Takes
  /\ \A k \in NoImm(Cur) : ~IsImm(Cur.in[k])
  /\ Put(Stored)
  /\ UNCHANGED <<source, bi, ii, ri, rules>>

\* nothing more to correct
Keep ==
  /\ Loaded /\ ~AnyRef /\ ~Swaps /\ ~Takes
  /\ \A k \in NoImm(Cur) : ~IsImm(Cur.in[k])
  /\ Put(Stored)
  /\ ii' = ii + 1
  /\ UNCHANGED <<source, bi, ri, rules>>

\* an immediate as operand k of a comparison is loaded by appending a copy
Loads(cmp)     == {k \in {1, 2} : IsImm(cmp[k])}
LoadedTo(cmp, k) == Tmp(IF k = 2 /\ 1 \in Loads(cmp) THEN ri + 1 ELSE ri)

\* the operands compared instead
CmpTmps(cmp) == [k \in {1, 2} |-> IF k \in Loads(cmp) THEN LoadedTo(cmp, k) ELSE cmp[k]]

\* mutant: the first operand gets the second's immediate
CmpCopied_Crossed(cmp, k) == IF k = 1 THEN cmp[2] ELSE CmpTmps(cmp)[1]

\* what is copied: for the second operand it is the first one
CmpCopied(cmp, k) == IF k = 1 THEN cmp[1] ELSE CmpTmps(cmp)[1]

WithLoad(insns, cmp, k) ==
  IF k \in Loads(cmp)
  THEN vec_append(insns, Op("copy", LoadedTo(cmp, k), CmpCopied(cmp, k), None))
  ELSE insns

\* mutant: every other block is left out
EndBlock_SkipsOne ==
  /\ bi \in 1 .. NB /\ ~Visiting
  /\ bi' = bi + 2 /\ ii' = 0
  /\ UNCHANGED <<source, body, ri, rules>>

\* the comparison at the end of the block, then the next block
EndBlock ==
  /\ bi \in 1 .. NB /\ ~Visiting
  /\ LET cmp == body[bi].cmp
     IN  /\ body' = [body EXCEPT ![bi].insns = WithLoad(WithLoad(@, cmp, 1), cmp, 2),
                                ![bi].cmp = CmpTmps(cmp)]
         /\ ri' = ri + (IF 1 \in Loads(cmp) THEN 1 ELSE 0) + (IF 2 \in Loads(cmp) THEN 1 ELSE 0)
  /\ bi' = bi + 1 /\ ii' = 0
  /\ UNCHANGED <<source, rules>>

Next ==
  \/ LoadRewrite \/ SpillRef \/ SpillImm \/ Swap \/ TakeAddress \/ Keep
  \/ EndBlock

\* one thread runs the pass to its end
Spec == Init /\ [][Next]_vars /\ WF_vars(Next)

-----------------------------------------------------------------------------
(* What a block computes. Copies and moves hand values on; every other      *)
(* instruction reads its operands, in either order if it is "arith", and    *)
(* gives a new value.                                                       *)

ValueOf(env, v) == IF IsTmp(v) THEN env[v[2]] ELSE v

Executed(s, i) ==
  LET a == ValueOf(s.env, i.in[1])
      b == ValueOf(s.env, i.in[2])
      seen == IF i.type = "arith" THEN {<<a, b>>, <<b, a>>} ELSE {<<a, b>>}
      plain == i.type \in {"copy", "move"} \/ (i.type = "addr" /\ IsRef(i.in[1]))
      result == IF plain THEN a ELSE <<"result", Len(s.reads) + 1>>
  IN  [env |-> IF IsTmp(i.out) THEN [s.env EXCEPT ![i.out[2]] = result] ELSE s.env,
       reads |-> IF plain THEN s.reads ELSE Append(s.reads, seen)]

\* a corrected block, as a sequence of instructions
Text(b) == [insns |-> Contents(body[b].insns), cmp |-> body[b].cmp]

\* the state after the instructions of a block, and the operands compared
Run(b) ==
  LET run[k \in 0 .. Len(b.insns)] ==
        IF k = 0 THEN [env |-> [n \in 0 .. ri - 1 |-> <<"entry", n>>], reads |-> <<>>]
        ELSE Executed(run[k - 1], b.insns[k])
  IN  run[Len(b.insns)]

Compared(b) == <<ValueOf(Run(b).env, b.cmp[1]), ValueOf(Run(b).env, b.cmp[2])>>

-----------------------------------------------------------------------------
(* What the pass must achieve.                                              *)

TypeOK ==
  /\ \A b \in 1 .. NB : IsVec(body[b].insns, Insn) /\ body[b].cmp \in Val \X Val
  /\ bi \in 1 .. NB + 1 /\ ii \in Nat
  /\ ri \in Nat /\ ri >= NTmps
  /\ \A n \in DOMAIN rules : IsTmp(rules[n])

Done == bi = NB + 1

(* A corrected block computes what it computed as parsed: every instruction *)
(* reads the same values, every source temporary ends with the same, and    *)
(* the same values are compared at its end, unless the second is an         *)
(* immediate. Fresh temporaries and swapped operands change nothing.        *)
SameResults ==
  rules = <<>> =>
    \A b \in 1 .. bi - 1 :
      LET old == Run(source[b])
          new == Run(Text(b))
      IN  /\ old.reads = new.reads
          /\ \A n \in 0 .. NTmps - 1 : old.env[n] = new.env[n]
          /\ ~IsImm(source[b].cmp[2]) => Compared(source[b]) = Compared(Text(b))

(* The comparison that ends a block is made between the values it was       *)
(* written with: "some simpler corrections to make sure all instructions    *)
(* follow a specific pattern" (correct.c:221).                              *)
ComparisonKept ==
  rules = <<>> => \A b \in 1 .. bi - 1 : Compared(source[b]) = Compared(Text(b))

\* the operands output_add(), output_sub(), output_lt() and output_store()
\* pass to rname(), which takes registers only
InRegister(i) == CASE i.type \in {"arith", "positional"} -> IsTmp(i.in[1])
                   [] i.type = "store"                   -> IsTmp(i.in[1]) /\ IsTmp(i.in[2])
                   [] OTHER                              -> TRUE

\* both operands of an "arith" instruction are immediates, in the source
\* or after the loop has got there
Constant(i) == i.type = "arith" /\ IsImm(i.in[1]) /\ IsImm(i.in[2])

(* Every instruction comes out with registers where the output stage takes  *)
(* only registers, with two exceptions: additions of two constants, and,    *)
(* once an address was taken, the stores that store_rewrite() inserts       *)
(* (correct.c:145): output_store() would assert on these (asm.c:255).       *)
Selectable ==
  \A b \in 1 .. bi - 1 : \A k \in 0 .. vec_len(body[b].insns) - 1 :
    LET i == insn_at(b, k)
    IN  InRegister(i) \/ Constant(i) \/ (Rewritten(i) /\ rules # <<>>)

\* positions already visited after an instruction that takes the address of n
PassedAfter(n) ==
  LET visited == {p \in UNION {{b} \X (0 .. vec_len(body[b].insns) - 1) : b \in 1 .. NB} :
                    p[1] < bi \/ (p[1] = bi /\ p[2] < ii)}
      before(p, q) == p[1] < q[1] \/ (p[1] = q[1] /\ p[2] < q[2])
      takes(p) == LET i == insn_at(p[1], p[2]) IN i.type = "addr" /\ i.in[1] = Tmp(n)
  IN  {q \in visited : \E p \in visited : takes(p) /\ before(p, q)}

(* Once the address of a temporary was taken, later instructions read it    *)
(* from memory: "replace registers referencing rewritten addr"              *)
(* (correct.c:155), also when both operands need it or one was an immediate *)
(* as well. Only instructions that the pass itself inserts may still read   *)
(* the temporary: a load whose address it is, and the copy of a comparison. *)
ReadFromMemory ==
  \A n \in DOMAIN rules : \A p \in PassedAfter(n) :
    LET i == insn_at(p[1], p[2])
    IN  Tmp(n) \in ToSet(i.in) =>
          (i.type = "load" /\ Tmp(n) \in Range(rules)) \/ i.type = "copy"

(* Nor does a later instruction write the temporary itself instead of       *)
(* memory, but for an addition whose operands were exchanged: what is put   *)
(* back then is a copy made before store_rewrite() (correct.c:164).         *)
WrittenToMemory ==
  \A n \in DOMAIN rules : \A p \in PassedAfter(n) :
    LET i == insn_at(p[1], p[2])
    IN  i.out = Tmp(n) => i.type = "arith" /\ IsImm(i.in[2])

(* Although it inserts into what it iterates over, the pass comes to an end. *)
Terminates == <>Done
=============================================================================
