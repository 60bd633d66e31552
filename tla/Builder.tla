------------------------------ MODULE Builder -------------------------------
(* How the parser turns the statements of a function into its block graph:  *)
(* the semantic actions of src/parser.y with do_new_block(), and            *)
(* finish_function() of src/nodes.c. Blocks are appended in layout order    *)
(* and named by their index. A branch keeps the name of its label until the *)
(* function is finished, when the names are looked up.                      *)
(*                                                                          *)
(* Statements are tagged, and every instruction and every branch carries    *)
(* the position of the statement it was made for. Which temporaries an      *)
(* instruction names is left out, and so are the instructions that load a   *)
(* call's arguments, which come right before it in its block. A label is    *)
(* followed by a statement, as the grammar requires, unless the body is     *)
(* labels only.                                                             *)
EXTENDS Integers, Sequences

CONSTANTS
  Labels,    \* label names
  NoLabel,   \* the NULL pointer in b->to
  Programs   \* the functions: [params, body]

\* n counts the results of a call or a return
Statement ==
  [kind : {"op", "call", "return"}, label : {NoLabel}, n : Nat]
    \cup [kind : {"label", "branch", "jump"}, label : Labels, n : {0}]

ASSUME LabelsAssumption == NoLabel \notin Labels
ASSUME ProgramsAssumption ==
  Programs \subseteq [params : Nat, body : Seq(Statement) \ {<<>>}]
ASSUME GrammarAssumption ==
  \A p \in Programs :
    p.body[Len(p.body)].kind = "label" => \A j \in DOMAIN p.body : p.body[j].kind = "label"

NoBlock == 0

VARIABLES
  prog,
  k,       \* the statement the parser is at
  blks,    \* f->blks; stmt is the statement its branch was made for, if any
  cur,     \* p->b
  labels,  \* f->labels
  bi,      \* position of the loop in finish_function()
  phase    \* "parse", "resolve", "done" or "aborted"

vars == <<prog, k, blks, cur, labels, bi, phase>>

Insn(kind, stmt) == [kind |-> kind, stmt |-> stmt]
Insns == [kind : {"param", "op", "call", "retval", "retarg"}, stmt : Nat]

Block == [insns : Seq(Insns), btype : {"ADD", "BLT", "J", "RET"}, stmt : Nat,
          to : Labels \cup {NoLabel}, s1 : Nat, s2 : Nat]

Repeat(kind, n)  == [j \in 1 .. n |-> Insn(kind, k)]

\* calloc() leaves btype ADD, which stands for a block without a branch
EmptyBlock ==
  [insns |-> <<>>, btype |-> "ADD", stmt |-> 0, to |-> NoLabel, s1 |-> NoBlock, s2 |-> NoBlock]

Init ==
  /\ prog \in Programs
  /\ k = 1
  /\ blks = <<[EmptyBlock EXCEPT !.insns = [j \in 1 .. prog.params |-> Insn("param", 0)]]>>
  /\ cur = 1
  /\ labels = <<>>
  /\ bi = 1
  /\ phase = "parse"

-----------------------------------------------------------------------------
At(kind) == phase = "parse" /\ k \in DOMAIN prog.body /\ prog.body[k].kind = kind
Stmt     == prog.body[k]

\* the blocks after insns were added to the current one and it was finished
\* by a branch to label: finish_block() and do_new_block()
Branched(insns, btype, stmt, label) ==
  LET new  == Len(blks) + 1
      done == [blks[cur] EXCEPT !.insns = @ \o insns, !.btype = btype,
                                !.stmt = stmt, !.to = label,
                                !.s1 = IF btype = "RET" THEN @ ELSE new,
                                !.s2 = IF btype = "J" /\ label = NoLabel THEN new ELSE @]
  IN  Append([blks EXCEPT ![cur] = done], EmptyBlock)

NewBlock(insns, btype, stmt, label) ==
  /\ blks' = Branched(insns, btype, stmt, label)
  /\ cur' = Len(blks')
  /\ k' = k + 1
  /\ UNCHANGED <<prog, labels, bi, phase>>

\* arith, imm, move, mem, stack, cond and logic
Plain ==
  /\ At("op")
  /\ blks' = [blks EXCEPT ![cur].insns = Append(@, Insn("op", k))]
  /\ k' = k + 1
  /\ UNCHANGED <<prog, cur, labels, bi, phase>>

\* mutant: the block goes on after the call
Call_Joined ==
  /\ At("call")
  /\ blks' = [blks EXCEPT ![cur].insns = @ \o <<Insn("call", k)>> \o Repeat("retval", Stmt.n)]
  /\ k' = k + 1
  /\ UNCHANGED <<prog, cur, labels, bi, phase>>

\* a call ends its block
Call ==
  /\ At("call")
  /\ NewBlock(<<Insn("call", k)>> \o Repeat("retval", Stmt.n), "J", 0, NoLabel)

Branch == At("branch") /\ NewBlock(<<>>, "BLT", k, Stmt.label)

Jump == At("jump") /\ NewBlock(<<>>, "J", k, Stmt.label)

Return == At("return") /\ NewBlock(Repeat("retarg", Stmt.n), "RET", k, NoLabel)

\* mutant: a label never starts a block
Label_NoSplit ==
  /\ At("label")
  /\ labels' = Append(labels, [id |-> Stmt.label, b |-> cur])
  /\ k' = k + 1
  /\ UNCHANGED <<prog, blks, cur, bi, phase>>

\* mutant: the label names the block it ends
Label_Before ==
  /\ At("label")
  /\ blks' = IF blks[cur].insns = <<>> THEN blks ELSE Branched(<<>>, "J", 0, NoLabel)
  /\ cur' = Len(blks')
  /\ labels' = Append(labels, [id |-> Stmt.label, b |-> cur])
  /\ k' = k + 1
  /\ UNCHANGED <<prog, bi, phase>>

\* mutant: the parser stays in the block the label ends
Label_Stays ==
  /\ At("label")
  /\ blks' = IF blks[cur].insns = <<>> THEN blks ELSE Branched(<<>>, "J", 0, NoLabel)
  /\ labels' = Append(labels, [id |-> Stmt.label, b |-> Len(blks')])
  /\ k' = k + 1
  /\ UNCHANGED <<prog, cur, bi, phase>>

\* a label starts a block, unless the current one is still empty
Label ==
  /\ At("label")
  /\ blks' = IF blks[cur].insns = <<>> THEN blks ELSE Branched(<<>>, "J", 0, NoLabel)
  /\ cur' = Len(blks')
  /\ labels' = Append(labels, [id |-> Stmt.label, b |-> cur'])
  /\ k' = k + 1
  /\ UNCHANGED <<prog, bi, phase>>

-----------------------------------------------------------------------------
(* finish_function()                                                        *)

Last    == blks[Len(blks)]
AllBut1 == SubSeq(blks, 1, Len(blks) - 1)

\* blk_back() of no blocks fails as well
Rejected ==
  \/ Last.insns # <<>>
  \/ Len(blks) = 1
  \/ Len(blks) > 1 /\ blks[Len(blks) - 1].btype # "RET"

EndOfBody == phase = "parse" /\ k \notin DOMAIN prog.body

\* mutant: only an empty last block is asked for
Close_NoReturn ==
  /\ EndOfBody /\ Last.insns = <<>> /\ Len(blks) > 1
  /\ blks' = [AllBut1 EXCEPT ![Len(blks) - 1].s1 = NoBlock, ![Len(blks) - 1].s2 = NoBlock]
  /\ phase' = "resolve"
  /\ UNCHANGED <<prog, k, cur, labels, bi>>

\* the empty last block is destroyed, and the one before it must return
Close ==
  /\ EndOfBody /\ ~Rejected
  /\ blks' = [AllBut1 EXCEPT ![Len(blks) - 1].s1 = NoBlock, ![Len(blks) - 1].s2 = NoBlock]
  /\ phase' = "resolve"
  /\ UNCHANGED <<prog, k, cur, labels, bi>>

Reject ==
  /\ EndOfBody /\ Rejected
  /\ phase' = "aborted"
  /\ UNCHANGED <<prog, k, blks, cur, labels, bi>>

Resolving == phase = "resolve" /\ bi \in DOMAIN blks

SkipBlock ==
  /\ Resolving /\ blks[bi].to = NoLabel
  /\ bi' = bi + 1
  /\ UNCHANGED <<prog, k, blks, cur, labels, phase>>

\* label_find() takes the first label of that name
Resolve ==
  /\ Resolving /\ blks[bi].to # NoLabel
  /\ \E j \in DOMAIN labels :
       /\ labels[j].id = blks[bi].to
       /\ \A h \in 1 .. j - 1 : labels[h].id # blks[bi].to
       /\ blks' = [blks EXCEPT ![bi].s2 = labels[j].b]
  /\ bi' = bi + 1
  /\ UNCHANGED <<prog, k, cur, labels, phase>>

\* mutant: only labels of earlier blocks are found
NoSuchLabel_Later ==
  /\ Resolving /\ blks[bi].to # NoLabel
  /\ \A j \in DOMAIN labels : labels[j].id # blks[bi].to \/ labels[j].b > bi
  /\ phase' = "aborted"
  /\ UNCHANGED <<prog, k, blks, cur, labels, bi>>

NoSuchLabel ==
  /\ Resolving /\ blks[bi].to # NoLabel
  /\ \A j \in DOMAIN labels : labels[j].id # blks[bi].to
  /\ phase' = "aborted"
  /\ UNCHANGED <<prog, k, blks, cur, labels, bi>>

Finish ==
  /\ phase = "resolve" /\ bi \notin DOMAIN blks
  /\ phase' = "done"
  /\ UNCHANGED <<prog, k, blks, cur, labels, bi>>

Next ==
  \/ Plain \/ Call \/ Branch \/ Jump \/ Return \/ Label
  \/ Close \/ Reject \/ SkipBlock \/ Resolve \/ NoSuchLabel \/ Finish

Spec == Init /\ [][Next]_vars

-----------------------------------------------------------------------------
(* The control flow of the statements themselves.                           *)

Positions == {j \in DOMAIN prog.body : prog.body[j].kind # "label"}

\* the statement control reaches at position j
From(j) == CHOOSE h \in Positions : h >= j /\ \A g \in Positions : g >= j => h <= g

Target(l) ==
  From(CHOOSE j \in DOMAIN prog.body :
         /\ prog.body[j].kind = "label" /\ prog.body[j].label = l
         /\ \A h \in 1 .. j - 1 : prog.body[h].kind = "label" => prog.body[h].label # l)

Follows(j) ==
  CASE prog.body[j].kind \in {"op", "call"} -> {From(j + 1)}
    [] prog.body[j].kind = "branch"         -> {From(j + 1), Target(prog.body[j].label)}
    [] prog.body[j].kind = "jump"           -> {Target(prog.body[j].label)}
    [] prog.body[j].kind = "return"         -> {}

(* The control flow of the blocks, told by the statements they stand for.   *)

\* the statements of a block in order, with repetitions
Code(b) == [j \in DOMAIN blks[b].insns |-> blks[b].insns[j].stmt]
             \o (IF blks[b].stmt = 0 THEN <<>> ELSE <<blks[b].stmt>>)

Targets(b) == CASE blks[b].btype = "RET" -> {}
                [] blks[b].btype = "J"   -> {blks[b].s2}
                [] OTHER                 -> {blks[b].s1, blks[b].s2}

\* statement pairs the blocks run one after the other
Flow ==
  UNION {{<<Code(b)[j], Code(b)[j + 1]>> : j \in 1 .. Len(Code(b)) - 1}
           \cup {<<Code(b)[Len(Code(b))], Code(c)[1]>> : c \in Targets(b)} : b \in DOMAIN blks}

-----------------------------------------------------------------------------
TypeOK ==
  /\ prog \in [params : Nat, body : Seq(Statement) \ {<<>>}]
  /\ phase \in {"parse", "resolve", "done", "aborted"}
  /\ k \in 1 .. Len(prog.body) + 1
  /\ blks \in Seq(Block) \ {<<>>}
  /\ \A b \in DOMAIN blks : {blks[b].s1, blks[b].s2} \subseteq 0 .. Len(blks)
  /\ phase = "parse" => cur = Len(blks)
  /\ bi \in 1 .. Len(blks) + 1
  /\ labels \in Seq([id : Labels, b : Nat \ {0}])

(* The finished blocks run the statements in the order the source has them, *)
(* through calls, labels in any place, several labels for one block, and    *)
(* branches forwards and backwards.                                         *)
KeepsControlFlow ==
  phase = "done" =>
    {p \in Flow : p[1] # 0 /\ p[1] # p[2]}
      = UNION {{<<j, h>> : h \in Follows(j) \ {j}} : j \in Positions}

(* What the later passes take for granted about the graph: a block returns  *)
(* or falls through to the next and has a branch target, the last returns.  *)
GraphIsShaped ==
  phase = "done" =>
    \A b \in DOMAIN blks :
      IF blks[b].btype = "RET" THEN blks[b].s1 = NoBlock /\ blks[b].s2 = NoBlock
      ELSE b < Len(blks) /\ blks[b].s1 = b + 1 /\ blks[b].s2 \in DOMAIN blks

(* A block makes at most one call, with only the call's results after it:   *)
(* "make some optimization phases easier by splitting each call into a      *)
(* separate block" (parser.y:520).                                          *)
CallsEndBlocks ==
  \A b \in DOMAIN blks : \A i, j \in DOMAIN blks[b].insns :
    blks[b].insns[i].kind = "call" /\ i < j => blks[b].insns[j].kind = "retval"

(* The instructions that fetch the function's arguments run once: no branch *)
(* leads to them, though a label may stand right at the start of a body.    *)
ArgumentsFetchedOnce ==
  phase = "done" =>
    \A b, c \in DOMAIN blks : \A j \in DOMAIN blks[c].insns :
      blks[c].insns[j].kind = "param" => c = 1 /\ c \notin Targets(b)

(* Only functions that do not end by returning, or name a label that is not *)
(* there, are rejected.                                                     *)
RejectsOnlyMalformed ==
  phase = "aborted" =>
    \/ prog.body[Len(prog.body)].kind # "return"
    \/ \E j \in DOMAIN prog.body :
         /\ prog.body[j].kind \in {"branch", "jump"}
         /\ \A h \in DOMAIN prog.body :
              prog.body[h].kind = "label" => prog.body[h].label # prog.body[j].label
=============================================================================
