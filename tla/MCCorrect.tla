----------------------------- MODULE MCCorrect ------------------------------
(* Small blocks for TLC. An operand may be either of two temporaries, an    *)
(* immediate or a reference; one instruction of each group of types writes  *)
(* either temporary.                                                        *)
EXTENDS Correct

Operands == {Tmp(0), Tmp(1), Imm(5)}

Plus  == {Op("arith", Tmp(n), a, b) : n \in {0, 1}, a \in Operands, b \in Operands}
Minus == {Op("positional", Tmp(n), a, b) : n \in {0, 1}, a \in Operands, b \in Operands}
Other ==
  {Op("store", None, Tmp(n), a) : n \in {0, 1}, a \in Operands \cup {Ref(0)}}
    \cup {Op("copy", Tmp(0), a, None) : a \in {Imm(5), Ref(0)}}
    \cup {Op("call", None, a, None) : a \in {Tmp(1), Ref(0)}}
    \cup {Op("load", Tmp(0), Tmp(1), None), Op("move", Tmp(1), Tmp(0), None)}

Upto2(S) == {<<>>} \cup {<<i>> : i \in S} \cup {<<i, j>> : i, j \in S}

Block(is, cmp) == [insns |-> is, cmp |-> cmp]

FirstImmediates == {<<None, None>>, <<Tmp(0), Tmp(1)>>, <<Imm(5), Tmp(1)>>, <<Imm(5), None>>}

PlainBodies == {Block(is, c) : is \in Upto2(Plus \cup Minus \cup Other), c \in FirstImmediates}

\* any comparison at all
Comparisons == {<<Block(<<>>, c)>> : c \in Operands \X Operands}

\* temporary 2 gets the address of temporary 0
Take == Op("addr", Tmp(2), Tmp(0), None)

AddressBodies ==
  {Block(is, <<None, None>>) :
     is \in {<<Take>>} \cup {<<Take, i>> : i \in Plus \cup Minus \cup Other}
                       \cup {<<i>> : i \in Plus \cup Minus \cup Other}}

\* the address of temporary 0, and then that of where it is kept
TakeTwice == <<Take, Op("addr", Tmp(1), Tmp(2), None)>>

AddressForms ==
  {<<Block(Append(TakeTwice, i), <<None, None>>)>> : i \in Plus \cup Minus \cup Other}
    \cup {<<Block(<<Take, i>>, <<Tmp(0), Imm(5)>>)>> : i \in Plus \cup Minus \cup Other}

\* one block, or two with an address taken in either
Forms ==
  {<<b>> : b \in PlainBodies} \cup AddressForms
    \cup {<<b, c>> : b \in AddressBodies, c \in AddressBodies}
=============================================================================
