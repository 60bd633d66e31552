------------------------------- MODULE MCSsa -------------------------------
(* Small functions for TLC: every graph of its blocks, two temporaries. A  *)
(* block passes both on, defines one from the other, updates one, compares  *)
(* them, or uses one and redefines the other.                               *)
EXTENDS Ssa

Insns(is)    == [k \in DOMAIN is |-> [ins |-> is[k][1], out |-> is[k][2]]]
Block(is, c) == [insns |-> Insns(is), cmp |-> c]

TwoTmps == {0, 1}

TwoTmpBodies ==
  {Block(<<>>, {}),
   Block(<< <<{}, {0}>>, <<{0}, {1}>> >>, {}),
   Block(<< <<{0, 1}, {0}>> >>, {}),
   Block(<< <<{}, {1}>> >>, {0, 1}),
   Block(<< <<{1}, {}>>, <<{}, {0}>> >>, {})}

(* Bodies for a loop over one temporary while another is kept for later:    *)
(* both are defined; the second is updated and compared; both are used. All *)
(* but the first body read the second temporary, so the rewrite map of a    *)
(* block that can be reached is long enough for either name.                *)
LoopBodies ==
  {Block(<< <<{}, {0}>>, <<{}, {1}>> >>, {}),
   Block(<< <<{1}, {1}>> >>, {1}),
   Block(<< <<{0, 1}, {1}>> >>, {})}

(* No path from the entry reads a temporary that has not been defined on    *)
(* it. With these bodies the entry then has the first one, which defines    *)
(* both, so the parser takes the function (parser.y:143-149).               *)
DefinedSpec == Init /\ LiveIn[Entry] = {} /\ [][Next]_vars
=============================================================================
