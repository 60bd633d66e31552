-------------------------------- MODULE Asm ---------------------------------
(* The instructions and branches output_insn() and output_branch() in       *)
(* src/asm.c print, and what the machine does with them. The instructions   *)
(* that manage the frame are in Frame.                                      *)
(*                                                                          *)
(* An instruction is [type, vtype, out, in, v] as in struct insn, with      *)
(* operands that are registers or immediates. What is printed is            *)
(* [op, d, a, b], where d is the register written, or the one a store       *)
(* reads, a is a register, and b a register or a number.                    *)
EXTENDS Words, Sequences

Reg(r)   == <<"reg", r>>
Imm(n)   == <<"imm", n>>
None     == <<"none", 0>>
IsReg(o) == o[1] = "reg"
IsImm(o) == o[1] = "imm"

-----------------------------------------------------------------------------
(* What is printed.                                                         *)

Code(op, d, a, b) == <<[op |-> op, d |-> d, a |-> a, b |-> b]>>

output_move(n) == IF n.out = n.in[1] THEN <<>> ELSE Code("mv", n.out[2], n.in[1][2], 0)

output_add(n) == Code(IF IsReg(n.in[2]) THEN "add" ELSE "addi", n.out[2], n.in[1][2], n.in[2][2])

\* mutant: the immediate keeps its sign
output_sub_Adds(n) ==
  Code(IF IsReg(n.in[2]) THEN "sub" ELSE "addi", n.out[2], n.in[1][2], n.in[2][2])

\* a negative immediate is printed as it is
output_sub(n) ==
  IF IsReg(n.in[2]) THEN Code("sub", n.out[2], n.in[1][2], n.in[2][2])
  ELSE Code("addi", n.out[2], n.in[1][2], IF n.in[2][2] >= 0 THEN -n.in[2][2] ELSE n.in[2][2])

output_copy(n) == Code("li", n.out[2], "x0", n.in[1][2])

output_lt(n) == Code(IF IsReg(n.in[2]) THEN "slt" ELSE "slti", n.out[2], n.in[1][2], n.in[2][2])

output_store(n) ==
  Code(IF n.vtype = "I9" THEN "st t" ELSE "st w", n.in[2][2], n.in[1][2], n.v)

output_load(n) ==
  Code(IF n.vtype = "I9" THEN "ld t" ELSE "ld w", n.out[2], n.in[1][2], n.v)

output_insn(n) ==
  CASE n.type = "LT"    -> output_lt(n)
    [] n.type = "MOVE"  -> output_move(n)
    [] n.type = "ADD"   -> output_add(n)
    [] n.type = "SUB"   -> output_sub(n)
    [] n.type = "COPY"  -> output_copy(n)
    [] n.type = "STORE" -> output_store(n)
    [] n.type = "LOAD"  -> output_load(n)

\* output_insn() and rname() do not abort. What is copied is not looked at
Printable(n) ==
  \/ n.type = "MOVE" /\ n.out = n.in[1]
  \/ n.type \in {"MOVE", "LOAD"} /\ IsReg(n.out) /\ IsReg(n.in[1])
  \/ n.type = "COPY" /\ IsReg(n.out)
  \/ /\ n.type \in {"ADD", "SUB", "LT"}
     /\ IsReg(n.out) /\ IsReg(n.in[1]) /\ (IsReg(n.in[2]) \/ IsImm(n.in[2]))
  \/ n.type = "STORE" /\ IsReg(n.in[1]) /\ IsReg(n.in[2])

\* the types of branches that are printed with a condition
Conditional == {"BLT", "BLE", "BNE", "BNZ", "BEZ"}

Cond(op, a, b) == [op |-> op, a |-> a, b |-> b]

\* the conditional branch at the end of block b, without its target
output_branch(b) ==
  CASE b.kind = "BLT" -> Cond("blt", b.cmp[1], b.cmp[2])
    [] b.kind = "BLE" -> Cond("ble", b.cmp[1], b.cmp[2])
    [] b.kind = "BNE" -> Cond("bne", b.cmp[1], b.cmp[2])
    [] b.kind = "BNZ" -> Cond("bne", b.cmp[1], "x0")
    [] b.kind = "BEZ" -> Cond("beq", b.cmp[1], "x0")

-----------------------------------------------------------------------------
(* What the machine does.                                                   *)

IsStore(i) == i.op \in {"st t", "st w"}
Width(i)   == IF i.op \in {"st t", "ld t"} THEN 9 ELSE 27

Computed(regs, mem, i) ==
  CASE i.op = "mv"   -> regs[i.a]
    [] i.op = "li"   -> i.b
    [] i.op = "add"  -> Wrap(regs[i.a] + regs[i.b])
    [] i.op = "addi" -> Wrap(regs[i.a] + i.b)
    [] i.op = "sub"  -> Wrap(regs[i.a] - regs[i.b])
    [] i.op = "slt"  -> IF regs[i.a] < regs[i.b] THEN 1 ELSE 0
    [] i.op = "slti" -> IF regs[i.a] < i.b THEN 1 ELSE 0
    [] OTHER         -> Loaded(mem, Wrap(regs[i.a] + i.b), Width(i))

\* registers and memory after the code of one instruction
RegsAfter(regs, mem, code) ==
  IF code = <<>> \/ IsStore(code[1]) THEN regs
  ELSE [regs EXCEPT ![code[1].d] = Computed(regs, mem, code[1])]

MemAfter(regs, mem, code) ==
  IF code = <<>> \/ ~IsStore(code[1]) THEN mem
  ELSE Stored(mem, Wrap(regs[code[1].a] + code[1].b), Width(code[1]), regs[code[1].d])

\* whether a conditional branch is taken; x0 is always 0
Branches(regs, i) ==
  LET value(r) == IF r = "x0" THEN 0 ELSE regs[r]
  IN  CASE i.op = "blt" -> value(i.a) < value(i.b)
        [] i.op = "ble" -> value(i.a) <= value(i.b)
        [] i.op = "bne" -> value(i.a) # value(i.b)
        [] i.op = "beq" -> value(i.a) = value(i.b)
=============================================================================
