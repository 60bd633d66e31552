----------------------------- MODULE MCRegAlloc -----------------------------
(* Small functions for TLC, in the shapes the parser and ssa() leave: a     *)
(* block starts with its parameters, defines each further temporary once,   *)
(* and ends after its call and the call's results. Every block parameter is *)
(* used, as Ssa!ParametersAreUsed has it.                                   *)
EXTENDS RegAlloc

CONSTANTS t0, t1, s0, a0, a1

TwoTemps  == <<t0, t1>>
OneCallee == <<s0>>
TwoArgs   == <<a0, a1>>

I(type, out, in, nth) == [type |-> type, out |-> out, in |-> in, nth |-> nth]

Op(out, in)  == I("op", out, in, 0)
Param(t, n)  == I("param", t, {}, n - 1)
RetVal(t, n) == I("retval", t, {}, n - 1)
RetArg(n, t) == I("retarg", 0, {t}, n - 1)
Call(in)     == I("call", 0, in, 0)

\* an argument, 0 for an immediate
Arg(n, t) == I("arg", 0, {t} \ {0}, n - 1)

Block(k, n, is, uses) == [params |-> k, tmps |-> n, insns |-> is, uses |-> uses]

Used(b) ==
  \A t \in 1 .. b.params : t \in b.uses \/ \E i \in DOMAIN b.insns : t \in b.insns[i].in

Upto(n, S) == UNION {[1 .. k -> S] : k \in 0 .. n}

\* k parameters, one definition, then a call: directly, or through a pointer
CallBlock(k, in, target, args, rets, uses) ==
  Block(k, k + 1 + rets,
        <<Op(k + 1, in)>> \o [n \in DOMAIN args |-> Arg(n, args[n])]
          \o <<Call(target)>> \o [n \in 1 .. rets |-> RetVal(k + 1 + n, n)], uses)

CallBodies ==
  {b \in UNION {{CallBlock(k, in, target, args, rets, uses) :
                   in \in SUBSET (1 .. k), target \in {{}, {k + 1}},
                   args \in Upto(2, 0 .. k + 1), uses \in SUBSET (1 .. k + 1 + rets)} :
                 k \in 0 .. 2, rets \in 0 .. 2} : Used(b)}

\* k parameters and two definitions, then the function returns up to two of them
ReturnBodies ==
  {b \in {Block(k, k + 2, <<Op(k + 1, in1), Op(k + 2, in2)>>
                            \o [n \in DOMAIN rs |-> RetArg(n, rs[n])], {}) :
            k \in 0 .. 2, in1 \in SUBSET {1, 2}, in2 \in SUBSET {1, 2, 3},
            rs \in Upto(2, 1 .. 4)} :
     /\ Used(b)
     /\ \A i \in DOMAIN b.insns : \A t \in b.insns[i].in :
          t \in 1 .. b.params \/ \E j \in 1 .. i - 1 : b.insns[j].out = t}

\* up to five parameters and up to three definitions, with nothing in an
\* argument register: more may be alive together than there are registers
PlainBodies ==
  {b \in {Block(k, k + 3, <<Op(k + 1, in1), Op(k + 2, in2), Op(k + 3, in3)>>, uses) :
            k \in 1 .. 4, in1 \in {{}, {1}, 1 .. 4}, in2 \in {{}, {2}}, in3 \in {{}, {1}, 1 .. 4},
            uses \in SUBSET (1 .. 7)} :
     /\ Used(b) /\ b.uses \subseteq 1 .. b.tmps
     /\ \A i \in DOMAIN b.insns : \A t \in b.insns[i].in : t < b.insns[i].out}

\* blocks that differ in what they need of the frame
FewBodies ==
  {b \in UNION {{CallBlock(k, {}, {}, <<>>, rets, uses) :
                   uses \in SUBSET (1 .. k + 1 + rets)} : k \in 0 .. 2, rets \in 0 .. 1} :
     Used(b)}

\* many values alive before a call: its argument is hinted to a register
\* that a later definition may be given too, and its results wait in others
WideBodies ==
  {b \in {Block(2, 6 + rets,
                <<Op(3, in), Op(4, {}), Op(5, {}), Op(6, {})>>
                  \o [n \in DOMAIN args |-> Arg(n, args[n])] \o <<Call({})>>
                  \o [n \in 1 .. rets |-> RetVal(6 + n, n)], uses) :
            in \in {{}, {1, 2}}, args \in Upto(1, {4, 6}), rets \in {0, 2},
            uses \in SUBSET {1, 2, 3, 5, 6, 7, 8}} :
     Used(b) /\ b.uses \subseteq 1 .. b.tmps}

\* a call through a pointer that may be in an argument register
TargetBodies ==
  {b \in {Block(3, 4, <<Op(4, in), Call({4})>>, uses) : in \in {{}, {1, 3}}, uses \in SUBSET (1 .. 4)} :
     Used(b)}

Forms ==
  {<<b>> : b \in CallBodies \cup ReturnBodies \cup PlainBodies \cup WideBodies \cup TargetBodies}
    \cup {<<b, c>> : b \in FewBodies, c \in FewBodies}

\* the first block of a function, which fetches the function's parameters
Entries ==
  {<<Block(0, 3, <<Param(1, 1), Param(2, 2), Op(3, in)>>
                   \o [n \in DOMAIN args |-> Arg(n, args[n])] \o <<Call({})>>, uses)>> :
     in \in SUBSET {1, 2}, args \in Upto(2, 0 .. 3), uses \in SUBSET (1 .. 3)}

=============================================================================
