------------------------------- MODULE Output -------------------------------
(* How output() in src/asm.c lays out a block, and the code that comes out  *)
(* as the machine runs it: the instructions, the moves of the branch edge,  *)
(* the branch, the moves of the fallthrough edge, then the next block.      *)
(* Blocks are numbered in layout order.                                     *)
(*                                                                          *)
(* The instructions of the frame are in Frame. The moves of one edge take   *)
(* effect at once, which ParallelMove!AcyclicMovesCorrect establishes for   *)
(* moves without a cycle; FunctionsAssumption admits no other moves         *)
(* (Orderly).                                                               *)
EXTENDS Asm, SequencesExt

CONSTANTS
  NB,        \* number of blocks
  Functions  \* each block's [kind, to, s1, s2, cmp, insns, params, args1, args2]

Blocks  == 1 .. NB
NoBlock == 0

VARIABLES
  fun,      \* f->blks; kind is b->btype, to says whether b->to names a label
  at,       \* the block whose code runs, 0 when the function has returned
  pc,       \* "insns", "branch", or "fallthrough"
  ip,       \* the instruction of the block that is next
  regs,
  mem,
  left      \* history: the registers as the block's own instructions left them

vars == <<fun, at, pc, ip, regs, mem, left>>

Here == fun[at]
Regs == DOMAIN regs

\* the registers that hold values of a block when its instruction k is next
OutOf(i)    == IF IsReg(i.out) THEN {i.out[2]} ELSE {}
Known(b, k) == ToSet(b.params) \cup UNION {OutOf(b.insns[j]) : j \in 1 .. k - 1}
AtEnd(b)    == Known(b, Len(b.insns) + 1)

\* the registers of a function
RegistersOf(f) == UNION {AtEnd(f[b]) : b \in DOMAIN f}

\* parameters in registers of their own, and no chain of moves, each reading
\* what the next one writes, that closes: as ParallelMove!Acyclic
Orderly(params, args) ==
  /\ IsInjective(params)
  /\ \E rank \in [DOMAIN params -> DOMAIN params] :
       \A i, j \in DOMAIN params : i # j /\ args[j] = params[i] => rank[j] < rank[i]

\* what register allocation leaves of block b of f: instructions read what
\* the block knows and constants that fit in a word, its edges lead to blocks,
\* the one it falls through to is next, and they carry as many of its values
\* as are received. Edges whose moves form a cycle are left out
Edge(f, b, target, args) ==
  /\ target \in Blocks
  /\ DOMAIN args = DOMAIN f[target].params
  /\ ToSet(args) \subseteq AtEnd(f[b])
  /\ Orderly(f[target].params, args)

WellFormed(f, b) ==
  /\ \A k \in DOMAIN f[b].insns :
       LET n == f[b].insns[k]
       IN  /\ Printable(n)
           /\ n.type = "COPY" <=> IsImm(n.in[1])
           /\ n.type = "STORE" <=> ~IsReg(n.out)
           /\ \A o \in {n.in[1], n.in[2]} : /\ IsReg(o) => o[2] \in Known(f[b], k)
                                            /\ IsImm(o) => o[2] \in Values
           /\ n.v \in Int
  /\ f[b].kind \in Conditional \cup {"J", "RET"}
  /\ f[b].kind = "RET" => f[b].s2 = NoBlock
  /\ f[b].kind = "J" =>
       /\ Edge(f, b, f[b].s2, f[b].args2)
       /\ (~f[b].to \/ f[b].s1 = f[b].s2) => f[b].s2 = b + 1
  /\ f[b].kind \in Conditional =>
       /\ Edge(f, b, f[b].s2, f[b].args2) /\ Edge(f, b, f[b].s1, f[b].args1)
       /\ f[b].s1 = b + 1
       /\ DOMAIN f[b].cmp = IF f[b].kind \in {"BNZ", "BEZ"} THEN {1} ELSE {1, 2}
       /\ ToSet(f[b].cmp) \subseteq AtEnd(f[b])

ASSUME BlocksAssumption == NB \in Nat \ {0}
ASSUME FunctionsAssumption ==
  \A f \in Functions :
    /\ DOMAIN f = Blocks
    /\ "x0" \notin RegistersOf(f)
    /\ \A b \in Blocks : f[b].insns \in Seq(ToSet(f[b].insns)) /\ WellFormed(f, b)

Init ==
  /\ fun \in Functions
  /\ at = 1 /\ pc = "insns" /\ ip = 1
  /\ regs \in [RegistersOf(fun) -> Values]
  /\ mem \in [Values -> {[width |-> 27, value |-> 0]}]
  /\ left = regs

-----------------------------------------------------------------------------
\* the machine's next
NextInsn == Here.insns[ip]

\* what output_insn() printed for one instruction is run
Execute ==
  /\ at # 0 /\ pc = "insns" /\ ip <= Len(Here.insns)
  /\ LET code == output_insn(NextInsn)
     IN  regs' = RegsAfter(regs, mem, code) /\ mem' = MemAfter(regs, mem, code)
  /\ left' = regs'
  /\ ip' = ip + 1
  /\ UNCHANGED <<fun, at, pc>>

\* what output_moves() does to the registers when no cycle has to be broken
Moved(params, args) ==
  [r \in Regs |-> IF r \in ToSet(params)
                  THEN regs[args[CHOOSE k \in DOMAIN params : params[k] = r]]
                  ELSE regs[r]]

\* control arrives at the label of b, or leaves the function
Arrive(b, contents) ==
  /\ at' = b
  /\ pc' = "insns" /\ ip' = 1
  /\ regs' = contents
  /\ left' = contents
  /\ UNCHANGED <<fun, mem>>

\* mutant: nothing is moved when both edges lead to the next block
BranchMoves_NotNext ==
  /\ at # 0 /\ pc = "insns" /\ ip = Len(Here.insns) + 1
  /\ regs' = IF Here.s2 \notin {NoBlock, Here.s1}
             THEN Moved(fun[Here.s2].params, Here.args2) ELSE regs
  /\ pc' = "branch"
  /\ UNCHANGED <<fun, at, ip, mem, left>>

BranchMoves ==
  /\ at # 0 /\ pc = "insns" /\ ip = Len(Here.insns) + 1
  /\ regs' = IF Here.s2 # NoBlock THEN Moved(fun[Here.s2].params, Here.args2) ELSE regs
  /\ pc' = "branch"
  /\ UNCHANGED <<fun, at, ip, mem, left>>

\* output_ret()
Ret ==
  /\ pc = "branch" /\ Here.kind = "RET"
  /\ Arrive(0, regs)

\* mutant: a jump without a label goes one block too far
J_TooFar ==
  /\ pc = "branch" /\ Here.kind = "J"
  /\ Arrive(IF ~Here.to THEN at + 2 ELSE Here.s2, regs)

\* output_j(); with no jump printed, control falls into the next label
J ==
  /\ pc = "branch" /\ Here.kind = "J"
  /\ Arrive(IF ~Here.to \/ Here.s1 = Here.s2 THEN at + 1 ELSE Here.s2, regs)

\* output_blt() and the like
Taken ==
  /\ pc = "branch" /\ Here.kind \in Conditional
  /\ Branches(regs, output_branch(Here))
  /\ Arrive(Here.s2, regs)

NotTaken ==
  /\ pc = "branch" /\ Here.kind \in Conditional
  /\ ~Branches(regs, output_branch(Here))
  /\ pc' = "fallthrough"
  /\ UNCHANGED <<fun, at, ip, regs, mem, left>>

\* the moves of the fallthrough edge, which no jump prints
FallthroughMoves ==
  /\ pc = "fallthrough"
  /\ Arrive(at + 1, Moved(fun[Here.s1].params, Here.args1))

Next == Execute \/ BranchMoves \/ Ret \/ J \/ Taken \/ NotTaken \/ FallthroughMoves

Spec == Init /\ [][Next]_vars

-----------------------------------------------------------------------------
TypeOK ==
  /\ at \in Blocks \cup {0}
  /\ pc \in {"insns", "branch", "fallthrough"}
  /\ ip \in 1 .. (IF at = 0 THEN 1 ELSE Len(Here.insns) + 1)
  /\ at = 0 => pc = "insns"
  /\ regs \in [RegistersOf(fun) -> Values]
  /\ left \in [RegistersOf(fun) -> Values]
  /\ mem \in [Values -> Cells]

Meaning == INSTANCE Flow WITH
  env <- IF at = 0 THEN <<>> ELSE [r \in Known(Here, ip) |-> left[r]]

(* The code of a function computes what the instructions of its blocks      *)
(* mean, takes the branches the blocks call for and hands every block the   *)
(* values its edges carry, provided that the moves of a conditional branch  *)
(* edge overwrite nothing that the comparison or the fallthrough edge still *)
(* reads, that no negative immediate is subtracted, and that no edge's      *)
(* moves form a cycle.                                                      *)
KeepsMeaning == Meaning!Spec

(* Whatever the registers, the comparison of a conditional branch and the   *)
(* edge taken when it fails read the values the block left there: the moves *)
(* printed before the branch "move arguments to parameters" (asm.c:461) of  *)
(* one edge only.                                                           *)
BranchMovesHarmless ==
  pc \in {"branch", "fallthrough"} /\ Here.kind \in Conditional =>
    \A r \in ToSet(Here.cmp) \cup ToSet(Here.args1) : regs[r] = left[r]
=============================================================================
