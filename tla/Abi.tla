-------------------------------- MODULE Abi ---------------------------------
(* The calling convention made explicit: abi0() in src/abi.c. An            *)
(* instruction that names an argument or a result by its position becomes a *)
(* move from or to the argument register of that position, flagged so that  *)
(* it stays next to its call.                                               *)
(*                                                                          *)
(* Operands are temporaries, which are numbers, or registers; an immediate  *)
(* is left out of the operands. Positions count from 0, as the parser       *)
(* numbers them, and there are registers for all of them.                   *)
EXTENDS Integers, Sequences

CONSTANTS ArgRegs   \* ar_map

NoOutput == 0

nth_ar(nth) == ArgRegs[nth + 1]

\* COPY, of an immediate or a reference, counts as an operation
Insn(type, out, in, flags) == [type |-> type, out |-> out, in |-> in, flags |-> flags]

rewrite_param(n) == Insn("move", n.out, {nth_ar(n.nth)}, {})

rewrite_retval(n) == Insn("move", n.out, {nth_ar(n.nth)}, {"teardown"})

\* a move or, for an immediate, a copy
LoadedBy(n) == IF n.in = {} THEN "op" ELSE "move"

rewrite_arg(n) == Insn(LoadedBy(n), nth_ar(n.nth), n.in, {"setup"})

rewrite_retarg(n) == Insn(LoadedBy(n), nth_ar(n.nth), n.in, {})

\* mutant: a call is not flagged as part of its own setup
flag_call_NoSetup(n) == Insn("call", n.out, n.in, {"teardown"})

flag_call(n) == Insn("call", n.out, n.in, {"setup", "teardown"})

rewrite(n) ==
  CASE n.type = "param"  -> rewrite_param(n)
    [] n.type = "retval" -> rewrite_retval(n)
    [] n.type = "arg"    -> rewrite_arg(n)
    [] n.type = "retarg" -> rewrite_retarg(n)
    [] n.type = "call"   -> flag_call(n)
    [] OTHER             -> Insn(n.type, n.out, n.in, {})

abi0(insns) == [k \in DOMAIN insns |-> rewrite(insns[k])]
=============================================================================
