------------------------------ MODULE MCOutput ------------------------------
(* Functions of three blocks. In one kind the blocks have no instructions   *)
(* and all edges and moves there can be: the first block has values in two  *)
(* registers, and the others receive values in one of them and a third. In  *)
(* the other kind the first block has instructions and any conditional      *)
(* branch.                                                                  *)
EXTENDS Output

CONSTANTS x, y, z

Ends(P, b) ==
  LET targets == 1 .. 3
      args(t) == [DOMAIN P[t] -> ToSet(P[b])]
      acyclic(t, a) == Orderly(P[t], a)
      end(k, to, s1, s2, c, a1, a2) ==
        [kind |-> k, to |-> to, s1 |-> s1, s2 |-> s2, cmp |-> c, insns |-> <<>>,
         params |-> P[b], args1 |-> a1, args2 |-> a2]
  IN  {end("RET", FALSE, 0, 0, <<>>, <<>>, <<>>)}
        \cup (IF b = 3 THEN {}
              ELSE {e \in {end("J", FALSE, b + 1, b + 1, <<>>, a, a) : a \in args(b + 1)}
                      \cup UNION {{end("J", TRUE, b + 1, t, <<>>, <<>>, a) : a \in args(t)} :
                                  t \in targets}
                      \cup UNION {{end("BLT", TRUE, b + 1, t, c, a1, a2) :
                                     c \in {<<p, q>> \in ToSet(P[b]) \X ToSet(P[b]) : p # q},
                                     a1 \in args(b + 1), a2 \in args(t)} : t \in targets} :
                    acyclic(e.s2, e.args2) /\ (e.kind = "BLT" => acyclic(b + 1, e.args1))})

Received == {<<>>, <<x>>, <<z>>, <<x, z>>}

\* the registers that the moves of the branch edge of e change, where the
\* blocks have parameters P
Written(P, e) == {P[e.s2][k] : k \in {j \in DOMAIN P[e.s2] : P[e.s2][j] # e.args2[j]}}

Harmless(P, e) ==
  e.kind = "BLT" => Written(P, e) \cap (ToSet(e.cmp) \cup ToSet(e.args1)) = {}

FunctionsOf(Choose(_, _)) ==
  UNION {Choose(P, 1) \X Choose(P, 2) \X Choose(P, 3) :
         P \in {<<<<x, y>>, p2, p3>> : p2 \in Received, p3 \in Received}}

AllFunctions == FunctionsOf(Ends)

SafeEnds(P, b) == {e \in Ends(P, b) : Harmless(P, e)}
SafeFunctions  == FunctionsOf(SafeEnds)

Insn(type, vtype, out, a, b, v) ==
  [type |-> type, vtype |-> vtype, out |-> out, in |-> <<a, b>>, v |-> v]

XY == {Reg(x), Reg(y)}

\* no negative immediate is subtracted
Arithmetic ==
  {Insn("ADD", "I27", o, a, b, 0) : o \in {Reg(x), Reg(z)}, a \in XY, b \in XY \cup {Imm(1), Imm(-1)}}
    \cup {Insn(t, "I27", o, a, b, 0) :
            t \in {"SUB", "LT"}, o \in {Reg(x), Reg(z)}, a \in XY, b \in XY \cup {Imm(0), Imm(1)}}
    \cup {Insn("MOVE", "I27", o, a, None, 0) : o \in {Reg(x), Reg(z)}, a \in XY}
    \cup {Insn("COPY", "I27", o, Imm(n), None, 0) : o \in {Reg(x), Reg(z)}, n \in {0, 1}}

Stores == {Insn("STORE", w, None, a, b, v) : w \in {"I9", "I27"}, a \in XY, b \in XY, v \in {0, 1}}
Loads  == {Insn("LOAD", w, o, a, None, v) :
             w \in {"I9", "I27"}, o \in {Reg(x), Reg(z)}, a \in XY, v \in {0, 1}}

Bodies == {<<i>> : i \in Arithmetic} \cup {<<s, l>> : s \in Stores, l \in Loads}

Returns == [kind |-> "RET", to |-> FALSE, s1 |-> 0, s2 |-> 0, cmp |-> <<>>, insns |-> <<>>,
            params |-> <<>>, args1 |-> <<>>, args2 |-> <<>>]

Computing ==
  {<<[kind |-> k, to |-> TRUE, s1 |-> 2, s2 |-> 3,
      cmp |-> IF k \in {"BNZ", "BEZ"} THEN <<x>> ELSE <<x, y>>,
      insns |-> is, params |-> <<x, y>>, args1 |-> <<>>, args2 |-> <<>>], Returns, Returns>> :
     k \in Conditional, is \in Bodies}

FlowFunctions == SafeFunctions \cup Computing
=============================================================================
