----------------------------- MODULE MCBuilder ------------------------------
(* All functions of up to four statements before a return, and some that do *)
(* not return, with and without parameters and with two labels.             *)
EXTENDS Builder

CONSTANTS l, m

S(kind, label, n) == [kind |-> kind, label |-> label, n |-> n]

Inner == {S("op", NoLabel, 0), S("call", NoLabel, 1), S("label", l, 0), S("label", m, 0),
          S("branch", l, 0), S("branch", m, 0), S("jump", l, 0), S("return", NoLabel, 0)}

Returns == {S("return", NoLabel, 0), S("return", NoLabel, 1)}

Upto(n) == UNION {[1 .. j -> Inner] : j \in 0 .. n}

\* labels are followed by a statement, or there is nothing else
Grammatical(b) == b[Len(b)].kind = "label" => \A j \in DOMAIN b : b[j].kind = "label"

ShortPrograms ==
  {[params |-> p, body |-> b] :
     p \in 0 .. 1,
     b \in {Append(c, r) : c \in Upto(4), r \in Returns}
             \cup {c \in Upto(2) \ {<<>>} : Grammatical(c)}}
=============================================================================
