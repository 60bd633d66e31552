-------------------------------- MODULE Ssa --------------------------------
(***************************************************************************)
(* Conversion of one function to SSA form with block parameters:           *)
(* src/ssa.c and src/unreachable.c, called as ssa(f) by optimize().        *)
(*                                                                         *)
(* The pass runs in four phases over the block list of the function:       *)
(*                                                                         *)
(*   build    build_params: a depth-first traversal from the entry block,  *)
(*            with a stack of its own and a counter "visited" per block,   *)
(*            that gives each block the temporaries it must receive;       *)
(*   (remove) remove_unvisited: blocks the traversal did not reach go;     *)
(*   collect  collect_params: the same traversal again, which copies the   *)
(*            parameters of the successors into the argument lists;        *)
(*   rename   rename_temps: block by block, each definition gets a fresh   *)
(*            number and every use is rewritten to the latest one.         *)
(*                                                                         *)
(* Parameter and argument vectors are kept as sets of the temporaries'     *)
(* original names: the code fills them from a vector indexed by name, so   *)
(* each holds a name at most once and in ascending order, and argument k   *)
(* of an edge and parameter k of its target are the same name. Blocks are   *)
(* numbered in layout order, and the block list, which is only ever         *)
(* filtered, is kept as the set of the blocks still in it.                  *)
(***************************************************************************)
EXTENDS Integers, Sequences, FiniteSets

CONSTANTS
  NB,      \* number of blocks of the function, in layout order
  Tmps,    \* the temporaries of the function, numbered as idalloc() does
  Bodies   \* the block bodies to choose from: [insns, cmp]

Insn == [ins : SUBSET Tmps, out : SUBSET Tmps]

ASSUME SizeAssumption == NB \in Nat \ {0}
ASSUME TmpsAssumption == Tmps \subseteq Nat /\ IsFiniteSet(Tmps)
ASSUME BodiesAssumption == Bodies \subseteq [insns : Seq(Insn), cmp : SUBSET Tmps]

Blocks == 1 .. NB
Entry == 1      \* blk_at(f->blks, 0)
NoBlock == 0    \* the NULL pointer

Phases == {"build", "collect", "rename", "done", "aborted"}

VARIABLES
  phase,
  blks,         \* f->blks, the blocks not removed
  ret,          \* ret[b]: b->btype = RET
  s1, s2,       \* fallthrough and branch target of each block
  body,         \* instructions and comparison operands of each block
  base,         \* the "visited" argument of the running traversal
  visited,      \* b->visited
  stack,        \* the explicit stack of the traversal, top last
  params,       \* b->params
  args1, args2, \* b->args1 and b->args2
  pos,          \* the block renamed last
  next,         \* next free temporary number
  newParam,     \* fresh numbers of the parameters, by original name
  newOut,       \* fresh numbers of the definitions, by instruction
  newArg1, newArg2  \* rewritten arguments, by original name

cfgVars    == <<ret, s1, s2, body>>
renameVars == <<pos, next, newParam, newOut, newArg1, newArg2>>
vars == <<phase, blks, cfgVars, base, visited, stack,
          params, args1, args2, renameVars>>

-----------------------------------------------------------------------------
(* What the instructions of a block read and write.                         *)

Succ(b) == {s1[b], s2[b]} \ {NoBlock}

\* outputs of the first k instructions of b
OutsUpto(b, k) == UNION {body[b].insns[j].out : j \in 1 .. k}

Generated(b) == OutsUpto(b, Len(body[b].insns))

\* inputs that no earlier instruction of b produces
Exposed(b) ==
  (UNION {body[b].insns[k].ins \ OutsUpto(b, k - 1) : k \in DOMAIN body[b].insns})
    \cup (body[b].cmp \ Generated(b))

\* mutant: a definition does not take its name off the forwarded ones
Forward_KeepsGenerated(b) == UNION {params[s] : s \in Succ(b)}

\* mutant: only the fallthrough successor is asked
Forward_FirstOnly(b) ==
  (IF s1[b] # NoBlock THEN params[s1[b]] ELSE {}) \ Generated(b)

\* what the successors ask for and b does not produce itself
Forward(b) == (UNION {params[s] : s \in Succ(b)}) \ Generated(b)

Required(b) == Exposed(b) \cup Forward(b)

-----------------------------------------------------------------------------
(* The blocks as finish_function() leaves them: a block returns, or falls   *)
(* through to the block laid out next and may branch to any block (a jump   *)
(* to the next block has both successors equal); the last block returns.    *)

Init ==
  /\ phase = "build"
  /\ blks = Blocks
  /\ s2 \in [Blocks -> Blocks \cup {NoBlock}]
  /\ s2[NB] = NoBlock
  /\ ret = [b \in Blocks |-> s2[b] = NoBlock]
  /\ s1 = [b \in Blocks |-> IF ret[b] THEN NoBlock ELSE b + 1]
  /\ body \in [Blocks -> Bodies]
  /\ \A b \in Blocks : ret[b] => body[b].cmp = {}
  /\ base = 0
  /\ visited = [b \in Blocks |-> 0]
  /\ stack = <<Entry>>
  /\ params = [b \in Blocks |-> {}]
  /\ args1 = [b \in Blocks |-> {}]
  /\ args2 = [b \in Blocks |-> {}]
  /\ pos = 0
  /\ next = 0
  /\ newParam = [b \in Blocks |-> <<>>]
  /\ newOut = [b \in Blocks |-> <<>>]
  /\ newArg1 = [b \in Blocks |-> <<>>]
  /\ newArg2 = [b \in Blocks |-> <<>>]

-----------------------------------------------------------------------------
(* The traversal shared by build_params and collect_params.                 *)

Entered(b) == visited[b] >= base + 1
Done(b)    == visited[b] >= base + 2

Traversing == phase \in {"build", "collect"} /\ stack # <<>>
Top        == stack[Len(stack)]
Rest       == SubSeq(stack, 1, Len(stack) - 1)

\* the successors in the order they are queued, an equal pair once
Edges(t1, t2) ==
  (IF t1 # NoBlock THEN <<t1>> ELSE <<>>)
    \o (IF t2 # NoBlock /\ t2 # t1 THEN <<t2>> ELSE <<>>)

\* mutant: the block goes back on the stack above its successors
Queued_SelfLast(b, t1, t2) == Rest \o Edges(t1, t2) \o <<b>>

\* mutant: the branch target is not queued
Queued_FirstOnly(b, t1, t2) == Rest \o <<b>> \o Edges(t1, NoBlock)

\* put b back onto the stack and its successors above it
Queued(b, t1, t2) == Rest \o <<b>> \o Edges(t1, t2)

\* mutant: the finished block is looked at but not popped
Skip_NoPop ==
  /\ Traversing
  /\ Done(Top)
  /\ UNCHANGED vars

\* a block that was finished while this copy of it waited on the stack
Skip ==
  /\ Traversing
  /\ Done(Top)
  /\ stack' = Rest
  /\ UNCHANGED <<phase, blks, cfgVars, base, visited, params, args1, args2, renameVars>>

\* first time at a block; build_params clears the edges of a returning block
Enter ==
  /\ Traversing
  /\ ~Entered(Top)
  /\ LET b == Top
         clear == phase = "build" /\ ret[b]
     IN  /\ s1' = IF clear THEN [s1 EXCEPT ![b] = NoBlock] ELSE s1
         /\ s2' = IF clear THEN [s2 EXCEPT ![b] = NoBlock] ELSE s2
         /\ stack' = Queued(b, s1'[b], s2'[b])
         /\ visited' = [visited EXCEPT ![b] = @ + 1]
  /\ UNCHANGED <<phase, blks, ret, body, base, params, args1, args2, renameVars>>

\* mutant: the forwarded temporaries are collected but never appended
BuildWork_NoForward ==
  /\ Traversing
  /\ phase = "build"
  /\ Entered(Top) /\ ~Done(Top)
  /\ params' = [params EXCEPT ![Top] = @ \cup Exposed(Top)]
  /\ visited' = [visited EXCEPT ![Top] = @ + 1]
  /\ stack' = Rest
  /\ UNCHANGED <<phase, blks, cfgVars, base, args1, args2, renameVars>>

\* mutant: leave() counts twice
BuildWork_LeavesTwice ==
  /\ Traversing
  /\ phase = "build"
  /\ Entered(Top) /\ ~Done(Top)
  /\ params' = [params EXCEPT ![Top] = @ \cup Required(Top)]
  /\ visited' = [visited EXCEPT ![Top] = @ + 2]
  /\ stack' = Rest
  /\ UNCHANGED <<phase, blks, cfgVars, base, args1, args2, renameVars>>

\* second time at a block in build_params: append what it requires
BuildWork ==
  /\ Traversing
  /\ phase = "build"
  /\ Entered(Top) /\ ~Done(Top)
  /\ params' = [params EXCEPT ![Top] = @ \cup Required(Top)]
  /\ visited' = [visited EXCEPT ![Top] = @ + 1]
  /\ stack' = Rest
  /\ UNCHANGED <<phase, blks, cfgVars, base, args1, args2, renameVars>>

\* mutant: the arguments of the branch edge are forgotten
CollectWork_FirstOnly ==
  /\ Traversing
  /\ phase = "collect"
  /\ Entered(Top) /\ ~Done(Top)
  /\ args1' = [args1 EXCEPT ![Top] =
                 IF s1[Top] # NoBlock THEN @ \cup params[s1[Top]] ELSE @]
  /\ visited' = [visited EXCEPT ![Top] = @ + 1]
  /\ stack' = Rest
  /\ UNCHANGED <<phase, blks, cfgVars, base, params, args2, renameVars>>

\* second time at a block in collect_params: copy the successors' parameters
CollectWork ==
  /\ Traversing
  /\ phase = "collect"
  /\ Entered(Top) /\ ~Done(Top)
  /\ args1' = [args1 EXCEPT ![Top] =
                 IF s1[Top] # NoBlock THEN @ \cup params[s1[Top]] ELSE @]
  /\ args2' = [args2 EXCEPT ![Top] =
                 IF s2[Top] # NoBlock THEN @ \cup params[s2[Top]] ELSE @]
  /\ visited' = [visited EXCEPT ![Top] = @ + 1]
  /\ stack' = Rest
  /\ UNCHANGED <<phase, blks, cfgVars, base, params, renameVars>>

\* build_params returns; remove_unvisited; collect_params is called
RemoveUnvisited ==
  /\ phase = "build" /\ stack = <<>>
  /\ blks' = {b \in blks : visited[b] >= visited[Entry]}
  /\ phase' = "collect"
  /\ base' = visited[Entry]
  /\ stack' = <<Entry>>
  /\ UNCHANGED <<cfgVars, visited, params, args1, args2, renameVars>>

\* collect_params returns
StartRename ==
  /\ phase = "collect" /\ stack = <<>>
  /\ phase' = "rename"
  /\ UNCHANGED <<blks, cfgVars, base, visited, stack, params, args1, args2, renameVars>>

-----------------------------------------------------------------------------
(* rename_temps for one block. The rewrite map starts with the parameters   *)
(* and every definition overrides its name. rewrite_tmp() asserts that the  *)
(* name it is given has an entry: the map is long enough for the name       *)
(* (ssa.c:239, and vec_at() at 240) and its place is not empty (241).       *)

\* names the rewrite map holds before instruction k of b
Mapped(b, k) == params[b] \cup OutsUpto(b, k - 1)

RewritesDefined(b) ==
  /\ \A k \in DOMAIN body[b].insns : body[b].insns[k].ins \subseteq Mapped(b, k)
  /\ body[b].cmp \cup args1[b] \cup args2[b]
       \subseteq Mapped(b, Len(body[b].insns) + 1)

Before(S, t) == {u \in S : u < t}
DefinesAt(b) == {k \in DOMAIN body[b].insns : body[b].insns[k].out # {}}

ParamNumber(b) == [t \in params[b] |-> next + Cardinality(Before(params[b], t))]

\* mutant: definitions are numbered from where the parameters were
OutNumber_IgnoresParams(b) ==
  [k \in DefinesAt(b) |-> next + Cardinality(Before(DefinesAt(b), k))]

OutNumber(b) ==
  [k \in DefinesAt(b) |->
     next + Cardinality(params[b]) + Cardinality(Before(DefinesAt(b), k))]

\* mutant: a parameter is not entered into the rewrite map
Latest_IgnoresParams(b, t) ==
  LET defs == {k \in DefinesAt(b) : t \in body[b].insns[k].out}
  IN  IF defs = {} THEN t
      ELSE OutNumber(b)[CHOOSE k \in defs : \A j \in defs : j <= k]

\* the rewrite map at the end of b
Latest(b, t) ==
  LET defs == {k \in DefinesAt(b) : t \in body[b].insns[k].out}
      last == CHOOSE k \in defs : \A j \in defs : j <= k
  IN  IF defs = {} THEN ParamNumber(b)[t] ELSE OutNumber(b)[last]

\* the blocks foreach_blk has not come to, and the one it comes to now
Pending    == {b \in blks : pos < b}
Current(b) == b \in Pending /\ \A c \in Pending : b <= c

Rename ==
  /\ phase = "rename"
  /\ \E b \in Blocks :
       /\ Current(b)
       /\ RewritesDefined(b)
       /\ newParam' = [newParam EXCEPT ![b] = ParamNumber(b)]
       /\ newOut' = [newOut EXCEPT ![b] = OutNumber(b)]
       /\ newArg1' = [newArg1 EXCEPT ![b] = [t \in args1[b] |-> Latest(b, t)]]
       /\ newArg2' = [newArg2 EXCEPT ![b] = [t \in args2[b] |-> Latest(b, t)]]
       /\ next' = next + Cardinality(params[b]) + Cardinality(DefinesAt(b))
       /\ pos' = b
  /\ UNCHANGED <<phase, blks, cfgVars, base, visited, stack, params, args1, args2>>

\* one of rewrite_tmp()'s assertions fails and the compiler aborts
RenameAbort ==
  /\ phase = "rename"
  /\ \E b \in Blocks : Current(b) /\ ~RewritesDefined(b)
  /\ phase' = "aborted"
  /\ UNCHANGED <<blks, cfgVars, base, visited, stack, params, args1, args2, renameVars>>

Finish ==
  /\ phase = "rename" /\ Pending = {}
  /\ phase' = "done"
  /\ UNCHANGED <<blks, cfgVars, base, visited, stack, params, args1, args2, renameVars>>

Next ==
  \/ Skip
  \/ Enter
  \/ BuildWork
  \/ CollectWork
  \/ RemoveUnvisited
  \/ StartRename
  \/ Rename
  \/ RenameAbort
  \/ Finish

\* one thread runs the pass to its end, so a step that can be taken is taken
Spec == Init /\ [][Next]_vars /\ WF_vars(Next)

-----------------------------------------------------------------------------
(* What the pass must achieve.                                              *)

TypeOK ==
  /\ phase \in Phases
  /\ blks \subseteq Blocks
  /\ ret \in [Blocks -> BOOLEAN]
  /\ s1 \in [Blocks -> Blocks \cup {NoBlock}]
  /\ s2 \in [Blocks -> Blocks \cup {NoBlock}]
  /\ body \in [Blocks -> Bodies]
  /\ base \in {0, 2}
  /\ visited \in [Blocks -> 0 .. 4]
  /\ stack \in Seq(Blocks)
  /\ params \in [Blocks -> SUBSET Tmps]
  /\ args1 \in [Blocks -> SUBSET Tmps]
  /\ args2 \in [Blocks -> SUBSET Tmps]
  /\ pos \in 0 .. NB
  /\ next \in Nat

\* the edges of the function order its blocks: no path comes back to a block
Acyclic ==
  \E rank \in [Blocks -> Blocks] :
    \A b \in Blocks : \A s \in Succ(b) : rank[s] < rank[b]

(* Reference definition of liveness, independent of the traversal: the      *)
(* temporaries live into b within n steps along the edges.                  *)
LiveIn ==
  LET live[n \in 0 .. NB] ==
        [b \in Blocks |->
           Exposed(b) \cup
             (IF n = 0 THEN {}
              ELSE (UNION {live[n - 1][s] : s \in Succ(b)}) \ Generated(b))]
  IN  live[NB]

(* The blocks some path of edges from the entry block leads to.             *)
ReachableBlocks ==
  LET reach[n \in 0 .. NB] ==
        IF n = 0 THEN {Entry}
        ELSE reach[n - 1] \cup UNION {Succ(b) : b \in reach[n - 1]}
  IN  reach[NB]

(* If the pass finishes, loops or not, the parameters of each surviving     *)
(* block are exactly the temporaries live into it: the assertion of         *)
(* rewrite_tmp() (ssa.c:241) lets no incomplete parameter list through.     *)
FinishedIsLive ==
  phase = "done" => \A b \in blks : params[b] = LiveIn[b]

(* On a function without loops every block is worked on after all its       *)
(* successors: "second time through, do actual work now that dependencies   *)
(* (should) be done" (ssa.c:97).                                            *)
AcyclicDependenciesDone ==
  [][BuildWork => (\A s \in Succ(Top) : Done(s)) \/ ~Acyclic]_vars

(* Once build_params has returned, the parameters of a loop-free function   *)
(* solve the dataflow equations of its reachable blocks.                    *)
DataflowSolved ==
  phase # "build" => (\A b \in blks : params[b] = Required(b)) \/ ~Acyclic

(* rewrite_tmp()'s assertions (ssa.c:239-241) fail on functions with loops  *)
(* only.                                                                    *)
AbortOnlyOnLoops == phase = "aborted" => ~Acyclic

(* assert(v.class == TMP) in rewrite_tmp(), ssa.c:241, never fails, nor the *)
(* bound asserted before it (ssa.c:239-240).                                *)
NeverAborts == phase # "aborted"

(* After the pass an edge carries exactly the values its target expects, as *)
(* assert(vec_len(params) == vec_len(args)) in asm.c:462 relies on.         *)
EdgesMatchParams ==
  phase = "done" =>
    \A b \in blks :
      /\ s1[b] # NoBlock => DOMAIN newArg1[b] = DOMAIN newParam[s1[b]]
      /\ s2[b] # NoBlock => DOMAIN newArg2[b] = DOMAIN newParam[s2[b]]

(* No block is given a parameter it neither reads nor passes on: build_rmap *)
(* in regalloc.c would let one that is never used share a register with     *)
(* another parameter of its block.                                          *)
ParametersAreUsed ==
  phase = "done" => \A b \in blks : params[b] \subseteq Exposed(b) \cup args1[b] \cup args2[b]

(* Each fresh number is given to one parameter or one definition of one     *)
(* block: the result is in single assignment form.                          *)
SingleAssignment ==
  LET sites == UNION {({"param"} \X {b} \X DOMAIN newParam[b])
                        \cup ({"out"} \X {b} \X DOMAIN newOut[b]) : b \in Blocks}
      number(s) == IF s[1] = "param" THEN newParam[s[2]][s[3]] ELSE newOut[s[2]][s[3]]
  IN  /\ \A s \in sites : number(s) \in 0 .. next - 1
      /\ \A s, t \in sites : number(s) = number(t) => s = t

(* An argument passed along an edge is a number its own block defines.      *)
ArgumentsAreLocal ==
  \A b \in Blocks :
    LET own == {newParam[b][t] : t \in DOMAIN newParam[b]}
                 \cup {newOut[b][k] : k \in DOMAIN newOut[b]}
    IN  /\ \A t \in DOMAIN newArg1[b] : newArg1[b][t] \in own
      /\ \A t \in DOMAIN newArg2[b] : newArg2[b][t] \in own

(* remove_unvisited keeps exactly the reachable blocks, no surviving edge   *)
(* leads to a destroyed block, and a block still falls through to the block *)
(* laid out after it, as the output stage takes for granted.                *)
LayoutSound ==
  phase # "build" =>
    /\ blks = ReachableBlocks
    /\ \A b \in blks : Succ(b) \subseteq blks
    /\ \A b \in blks : ~ret[b] => s1[b] = b + 1

(* The pass ends, with its result or with the failed assertion.             *)
Terminates == <>(phase \in {"done", "aborted"})
=============================================================================
