------------------------------ MODULE RegAlloc ------------------------------
(***************************************************************************)
(* Register allocation, src/regalloc.c, called as regalloc(f) on a function *)
(* in SSA form right after abi0(f), which is the first step here.           *)
(*                                                                          *)
(* Blocks are allocated one after the other. For each block                 *)
(*   scan     build_rmap: a linear scan over the lifetimes of the block's   *)
(*            temporaries; "prev" and "rest" are the two loops of           *)
(*            build_active_between, "pick" chooses the register;            *)
(*   save,    do_call_saves: SAVE and RESTORE instructions are inserted     *)
(*   restore  around the block's call. The parser ends the block after      *)
(*            every call, so a block has at most one.                       *)
(*                                                                          *)
(* The temporaries of a block are numbered from 1 in the order of their     *)
(* definitions, as rename_temps() numbers them. The numbers of different    *)
(* blocks are disjoint in the code, so the entries one block leaves in the  *)
(* rewrite map and the hints are never looked up by another; here each      *)
(* block starts with an empty map.                                          *)
(***************************************************************************)
EXTENDS Abi, FiniteSets, FiniteSetsExt, SequencesExt

CONSTANTS
  Functions,    \* the functions to choose from, each a sequence of blocks
  TempRegs,     \* t registers, in the order of tr_map
  CalleeRegs    \* s registers, in the order of tr_map

Order     == TempRegs \o CalleeRegs \o ArgRegs   \* tr_map
Registers == {Order[i] : i \in DOMAIN Order}
None      == NoOutput                             \* noclass()

Sources == [type : {"op", "call", "param", "retval", "arg", "retarg"},
            out : Nat, in : SUBSET Nat, nth : Nat]

(* A block as the parser and ssa() leave it: temporaries are defined once,  *)
(* in the order of their numbers; a position is filled or fetched once;     *)
(* every parameter is used (Ssa!ParametersAreUsed); arguments stand right   *)
(* before their call, and after the call there are only its results.        *)
InOrder(b) ==
  /\ \A t \in b.params + 1 .. b.tmps : \E k \in DOMAIN b.insns : b.insns[k].out = t
  /\ \A j, k \in DOMAIN b.insns :
       j < k /\ b.insns[j].out # None /\ b.insns[k].out # None
         => b.insns[j].out < b.insns[k].out

Positioned(b, types) ==
  /\ \A k \in DOMAIN b.insns : b.insns[k].type \in types => b.insns[k].nth < Len(ArgRegs)
  /\ \A j, k \in DOMAIN b.insns :
       j # k /\ b.insns[j].type \in types /\ b.insns[k].type \in types
         => b.insns[j].nth # b.insns[k].nth

CallAtEnd(b) ==
  \A k \in DOMAIN b.insns :
    /\ b.insns[k].type = "arg" =>
         k + 1 \in DOMAIN b.insns /\ b.insns[k + 1].type \in {"arg", "call"}
    /\ b.insns[k].type = "call" =>
         \A j \in k + 1 .. Len(b.insns) : b.insns[j].type = "retval"
    /\ b.insns[k].type = "retval" => \E j \in 1 .. k - 1 : b.insns[j].type = "call"
    /\ b.insns[k].type = "retarg" =>
         \A j \in k + 1 .. Len(b.insns) : b.insns[j].type = "retarg"

\* what add_use() asserts: "assert(l.used)" (regalloc.c:108)
DefinedFirst(b) ==
  \A k \in DOMAIN b.insns : \A t \in b.insns[k].in :
    t <= b.params \/ \E j \in 1 .. k - 1 : b.insns[j].out = t

IsFormed(b) ==
  /\ b.params <= b.tmps /\ b.uses \subseteq 1 .. b.tmps
  /\ \A k \in DOMAIN b.insns :
       /\ b.insns[k].in \subseteq 1 .. b.tmps
       /\ b.insns[k].out \in {None} \cup (b.params + 1 .. b.tmps)
       /\ b.insns[k].type \in {"param", "retval"} =>
            b.insns[k].in = {} /\ b.insns[k].out # None
       /\ b.insns[k].type \in {"arg", "retarg"} =>
            b.insns[k].out = None /\ \A t, u \in b.insns[k].in : t = u
       /\ b.insns[k].type = "call" => b.insns[k].out = None
  /\ InOrder(b) /\ DefinedFirst(b)
  /\ Positioned(b, {"param"}) /\ Positioned(b, {"retval"}) /\ Positioned(b, {"arg", "retarg"})
  /\ CallAtEnd(b)
  /\ \A t \in 1 .. b.params : t \in b.uses \/ \E k \in DOMAIN b.insns : t \in b.insns[k].in

ASSUME RegistersAssumption ==
  /\ TempRegs \in Seq(Registers) /\ CalleeRegs \in Seq(Registers) /\ ArgRegs \in Seq(Registers)
  /\ Registers \cap Nat = {}
  /\ \A i, j \in DOMAIN Order : Order[i] = Order[j] => i = j
ASSUME FunctionsAssumption ==
  /\ Functions \subseteq
       Seq([params : Nat, tmps : Nat, insns : Seq(Sources), uses : SUBSET Nat]) \ {<<>>}
  /\ \A f \in Functions : \A b \in DOMAIN f : IsFormed(f[b])

VARIABLES
  source,     \* history: the blocks of the function in SSA form
  body,       \* the same after abi0()
  phase,
  bi,         \* position of the loop over the blocks
  rmap,       \* register of each temporary of the block, None if undecided
  li,         \* the lifetime under a loop
  active,     \* lifetimes that overlap it, as collected
  prevActive, \* the collection of the temporary allocated last
  at,         \* position of the loops of build_active_between
  code,       \* the instructions of each block, rewritten when it is done
  callAt,     \* position of the call in the block's instructions
  counter,    \* number of the next save or restore slot
  maxCalleeSave, maxCallSave, hasCalls  \* what f->max_... will be
  
NB    == Len(source)
block == body[bi]
Tmps  == 1 .. block.tmps

scanVars == <<li, active, prevActive, at>>
saveVars == <<code, callAt, counter>>
fnVars   == <<maxCalleeSave, maxCallSave, hasCalls>>
vars == <<source, body, phase, bi, rmap, scanVars, saveVars, fnVars>>

-----------------------------------------------------------------------------
(* collect_lifetimes(): position 0 is the block's entry, the instructions   *)
(* count from 1, and the end of the block is one past the last.             *)

EndPos == Len(block.insns) + 1

Reads(t) == {k \in DOMAIN block.insns : t \in block.insns[k].in}
Defs(t)  == {k \in DOMAIN block.insns : block.insns[k].out = t}

Start(t) == IF t <= block.params THEN 0 ELSE Min(Defs(t))

End(t) == Max({Start(t)} \cup Reads(t) \cup (IF t \in block.uses THEN {EndPos} ELSE {}))

\* moves between temporary t and an argument register
MovesOut(t) == {k \in Reads(t) : block.insns[k].type = "move"
                                   /\ block.insns[k].out \in Registers}
MovesIn(t)  == {k \in Defs(t) : block.insns[k].type = "move"
                                  /\ block.insns[k].in \cap Registers # {}}

\* the last hint recorded for t
Hint(t) ==
  LET k == Max(MovesOut(t) \cup MovesIn(t))
  IN  IF MovesOut(t) \cup MovesIn(t) = {} THEN None
      ELSE IF k \in MovesOut(t) THEN block.insns[k].out
      ELSE CHOOSE r \in block.insns[k].in : TRUE

\* a temporary loaded from an argument register is given that register
Precoloured ==
  [t \in Tmps |-> IF MovesIn(t) = {} THEN None
                  ELSE CHOOSE r \in block.insns[Max(MovesIn(t))].in : TRUE]

Calls == {k \in DOMAIN block.insns : block.insns[k].type = "call"}

-----------------------------------------------------------------------------
BlockStart(b) ==
  /\ bi' = b
  /\ phase' = "collect"
  /\ rmap' = <<>>
  /\ li' = 1 /\ active' = <<>> /\ prevActive' = <<>> /\ at' = 1
  /\ callAt' = 0 /\ counter' = 0
  /\ UNCHANGED code

Init ==
  /\ source \in Functions
  /\ body = source
  /\ phase = "abi"
  /\ bi = 1
  /\ rmap = <<>>
  /\ li = 1 /\ active = <<>> /\ prevActive = <<>> /\ at = 1
  /\ code = <<>>
  /\ callAt = 0 /\ counter = 0
  /\ maxCalleeSave = 0 /\ maxCallSave = 0 /\ hasCalls = FALSE

Lower ==
  /\ phase = "abi"
  /\ body' = [b \in 1 .. NB |-> [source[b] EXCEPT !.insns = abi0(@)]]
  /\ code' = [b \in 1 .. NB |-> body'[b].insns]
  /\ phase' = "collect"
  /\ UNCHANGED <<source, bi, rmap, scanVars, callAt, counter, fnVars>>

Collect ==
  /\ phase = "collect"
  /\ phase' = "scan"
  /\ rmap' = Precoloured
  /\ UNCHANGED <<source, body, bi, scanVars, saveVars, fnVars>>

\* a lifetime that already has a register
SkipDecided ==
  /\ phase = "scan" /\ li \in Tmps /\ rmap[li] # None
  /\ li' = li + 1
  /\ UNCHANGED <<source, body, phase, bi, rmap, active, prevActive, at, saveVars, fnVars>>

Consider ==
  /\ phase = "scan" /\ li \in Tmps /\ rmap[li] = None
  /\ phase' = "prev"
  /\ active' = <<>> /\ at' = 1
  /\ UNCHANGED <<source, body, bi, rmap, li, prevActive, saveVars, fnVars>>

\* the vector a loop of build_active_between runs over: the previous
\* collection, then the lifetimes from li on
Walked ==
  IF phase = "prev" THEN prevActive ELSE [k \in 1 .. block.tmps - li + 1 |-> li + k - 1]

Walking == phase \in {"prev", "rest"} /\ at \in DOMAIN Walked

\* mutant: start == end is not taken for dead
Over_Strict(t) == End(t) < Start(li)

Over(t)  == End(t) <= Start(li)
Later(t) == Start(t) >= End(li)

\* l.end <= start: continue
Drop ==
  /\ Walking /\ Over(Walked[at])
  /\ at' = at + 1
  /\ UNCHANGED <<source, body, phase, bi, rmap, li, active, prevActive, saveVars, fnVars>>

\* append it
Keep ==
  /\ Walking /\ ~Over(Walked[at]) /\ ~Later(Walked[at])
  /\ active' = Append(active, Walked[at])
  /\ at' = at + 1
  /\ UNCHANGED <<source, body, phase, bi, rmap, li, prevActive, saveVars, fnVars>>

\* l.start >= end: break, or the end of the vector
Stop ==
  /\ phase \in {"prev", "rest"}
  /\ Walking => ~Over(Walked[at]) /\ Later(Walked[at])
  /\ phase' = IF phase = "prev" THEN "rest" ELSE "pick"
  /\ at' = 1
  /\ UNCHANGED <<source, body, bi, rmap, li, active, prevActive, saveVars, fnVars>>

\* mutant: only lifetimes allocated earlier in the scan are reserved
Reserved_Earlier ==
  {rmap[active[k]] : k \in {j \in DOMAIN active : active[j] < li}} \ {None}

\* build_reserved()
Reserved == {rmap[active[k]] : k \in DOMAIN active} \ {None}

\* mutant: the hint is taken without a look at its class
Hinted_Unchecked == Hint(li) \notin Reserved

Hinted == Hint(li) # None /\ Hint(li) \notin Reserved

\* the collection is not kept as prev_active on this path
UseHint ==
  /\ phase = "pick" /\ Hinted
  /\ rmap' = [rmap EXCEPT ![li] = Hint(li)]
  /\ li' = li + 1
  /\ phase' = "scan"
  /\ UNCHANGED <<source, body, bi, active, prevActive, at, saveVars, fnVars>>

\* highest_sreg()
CalleeIndex(r) == IF \E i \in DOMAIN CalleeRegs : CalleeRegs[i] = r
                  THEN CHOOSE i \in DOMAIN CalleeRegs : CalleeRegs[i] = r
                  ELSE 0

\* mutant: the collection is not kept, as on the path of a hint
UseFree_NoSwap ==
  /\ phase = "pick" /\ ~Hinted
  /\ \E i \in DOMAIN Order :
       /\ Order[i] \notin Reserved
       /\ \A j \in 1 .. i - 1 : Order[j] \in Reserved
       /\ rmap' = [rmap EXCEPT ![li] = Order[i]]
       /\ maxCalleeSave' = Max({maxCalleeSave, CalleeIndex(Order[i])})
  /\ active' = <<>>
  /\ li' = li + 1
  /\ phase' = "scan"
  /\ UNCHANGED <<source, body, bi, prevActive, at, saveVars, maxCallSave, hasCalls>>

\* the first register of tr_map that is not reserved
UseFree ==
  /\ phase = "pick" /\ ~Hinted
  /\ \E i \in DOMAIN Order :
       /\ Order[i] \notin Reserved
       /\ \A j \in 1 .. i - 1 : Order[j] \in Reserved
       /\ rmap' = [rmap EXCEPT ![li] = Order[i]]
       /\ maxCalleeSave' = Max({maxCalleeSave, CalleeIndex(Order[i])})
  /\ prevActive' = active /\ active' = <<>>
  /\ li' = li + 1
  /\ phase' = "scan"
  /\ UNCHANGED <<source, body, bi, at, saveVars, maxCallSave, hasCalls>>

\* find_free_reg() asserts that there is a free register
OutOfRegisters ==
  /\ phase = "pick" /\ ~Hinted /\ Registers \subseteq Reserved
  /\ phase' = "aborted"
  /\ UNCHANGED <<source, body, bi, rmap, scanVars, saveVars, fnVars>>

\* do_rewrites()
Rewritten(v) == IF v \in Tmps THEN rmap[v] ELSE v
InRegisters(i) == [i EXCEPT !.out = Rewritten(@), !.in = {Rewritten(v) : v \in @}]

Rewrite ==
  /\ phase = "scan" /\ li \notin Tmps
  /\ code' = [code EXCEPT ![bi] = [k \in DOMAIN @ |-> InRegisters(@[k])]]
  /\ li' = 1
  /\ IF Calls = {}
     THEN phase' = "blockDone" /\ UNCHANGED callAt
     ELSE phase' = "save" /\ callAt' = Min(Calls)
  /\ hasCalls' = (hasCalls \/ Calls # {})
  /\ UNCHANGED <<source, body, bi, rmap, active, prevActive, at, counter>>
  /\ UNCHANGED <<maxCalleeSave, maxCallSave>>

-----------------------------------------------------------------------------
(* do_call_saves(). The registers to save are found by walking the          *)
(* lifetimes in order. callAt is call_pos + offset - 1, one-based.          *)

CallPos == Min(Calls)

LiveAcross(t) == Start(t) < CallPos /\ CallPos < End(t)

Preserved(r) == \E i \in DOMAIN CalleeRegs : CalleeRegs[i] = r   \* callee_save()
ToSave(t)    == LiveAcross(t) /\ ~Preserved(rmap[t])

Slot(type, r, i) == [type |-> type, out |-> None, in |-> {r, i}, flags |-> {}]

\* where insn_insert_before_call() inserts: after the last instruction
\* that does not set the call up
BeforeCall(p) == 1 + Max({0} \cup {k \in 1 .. p : "setup" \notin code[bi][k].flags})

\* where insn_insert_after_call() inserts: before the first instruction
\* that does not belong to the call's results
AfterCall(p) ==
  Min({Len(code[bi]) + 1}
        \cup {k \in p .. Len(code[bi]) : "teardown" \notin code[bi][k].flags})

SkipSave ==
  /\ phase = "save" /\ li \in Tmps /\ ~ToSave(li)
  /\ li' = li + 1
  /\ UNCHANGED <<source, body, phase, bi, rmap, active, prevActive, at, saveVars, fnVars>>

\* mutant: the call is looked for where it was before the insertion
Save_StaleOffset ==
  /\ phase = "save" /\ li \in Tmps /\ ToSave(li)
  /\ code' = [code EXCEPT ![bi] =
                 InsertAt(@, BeforeCall(callAt), Slot("save", rmap[li], counter))]
  /\ counter' = counter + 1
  /\ li' = li + 1
  /\ UNCHANGED <<source, body, phase, bi, rmap, active, prevActive, at, callAt, fnVars>>

Save ==
  /\ phase = "save" /\ li \in Tmps /\ ToSave(li)
  /\ code' = [code EXCEPT ![bi] =
                 InsertAt(@, BeforeCall(callAt), Slot("save", rmap[li], counter))]
  /\ callAt' = callAt + 1
  /\ counter' = counter + 1
  /\ li' = li + 1
  /\ UNCHANGED <<source, body, phase, bi, rmap, active, prevActive, at, fnVars>>

EndSaves ==
  /\ phase = "save" /\ li \notin Tmps
  /\ phase' = "restore"
  /\ li' = 1 /\ counter' = 0
  /\ UNCHANGED <<source, body, bi, rmap, active, prevActive, at, code, callAt, fnVars>>

SkipRestore ==
  /\ phase = "restore" /\ li \in Tmps /\ ~ToSave(li)
  /\ li' = li + 1
  /\ UNCHANGED <<source, body, phase, bi, rmap, active, prevActive, at, saveVars, fnVars>>

Restore ==
  /\ phase = "restore" /\ li \in Tmps /\ ToSave(li)
  /\ code' = [code EXCEPT ![bi] =
                 InsertAt(@, AfterCall(callAt), Slot("restore", rmap[li], counter))]
  /\ counter' = counter + 1
  /\ li' = li + 1
  /\ UNCHANGED <<source, body, phase, bi, rmap, active, prevActive, at, callAt, fnVars>>

\* mutant: the last block counts, not the one that needs most
EndRestores_Last ==
  /\ phase = "restore" /\ li \notin Tmps
  /\ maxCallSave' = counter
  /\ phase' = "blockDone"
  /\ UNCHANGED <<source, body, bi, rmap, scanVars, saveVars, maxCalleeSave, hasCalls>>

EndRestores ==
  /\ phase = "restore" /\ li \notin Tmps
  /\ maxCallSave' = Max({maxCallSave, counter})
  /\ phase' = "blockDone"
  /\ UNCHANGED <<source, body, bi, rmap, scanVars, saveVars, maxCalleeSave, hasCalls>>

NextBlock ==
  /\ phase = "blockDone" /\ bi < NB
  /\ BlockStart(bi + 1)
  /\ UNCHANGED <<source, body, fnVars>>

Finish ==
  /\ phase = "blockDone" /\ bi = NB
  /\ phase' = "done"
  /\ UNCHANGED <<source, body, bi, rmap, scanVars, saveVars, fnVars>>

Next ==
  \/ Lower \/ Collect \/ SkipDecided \/ Consider
  \/ Drop \/ Keep \/ Stop
  \/ UseHint \/ UseFree \/ OutOfRegisters
  \/ Rewrite
  \/ SkipSave \/ Save \/ EndSaves
  \/ SkipRestore \/ Restore \/ EndRestores
  \/ NextBlock \/ Finish

Spec == Init /\ [][Next]_vars

-----------------------------------------------------------------------------
(* What a block means before abi0(), run symbolically on its temporaries.   *)
(* Every instruction reads values and may give a new one; arguments and     *)
(* results go by position.                                                  *)

Fresh(s) == <<"computed", Len(s.reads) + 1>>

\* the effect of instruction i in state s: [loc, given, results, reads]
Meant(s, i) ==
  LET value == IF i.in = {} THEN Fresh(s) ELSE s.loc[CHOOSE v \in i.in : TRUE]
      put(f)  == [n \in DOMAIN f \cup {i.nth} |-> IF n = i.nth THEN value ELSE f[n]]
      read(S) == Append(s.reads, S)
      operands == {s.loc[v] : v \in i.in}
      set(v)  == IF i.out = None THEN s.loc ELSE [s.loc EXCEPT ![i.out] = v]
  IN  CASE i.type = "op" -> [s EXCEPT !.loc = set(Fresh(s)), !.reads = read(operands)]
        [] i.type = "param" ->
             [s EXCEPT !.loc = set(<<"argument", i.nth>>),
                       !.reads = read({<<"argument", i.nth>>})]
        [] i.type = "retval" ->
             [s EXCEPT !.loc = set(<<"result", i.nth>>), !.reads = read({<<"result", i.nth>>})]
        [] i.type = "arg"    -> [s EXCEPT !.given = put(@), !.reads = read(operands)]
        [] i.type = "retarg" -> [s EXCEPT !.results = put(@), !.reads = read(operands)]
        [] i.type = "call"   ->
             [s EXCEPT !.reads = read(operands \cup {<<"given", n, s.given[n]>> : n \in DOMAIN s.given})]

Meaning ==
  LET is == source[bi].insns
      run[k \in 0 .. Len(is)] ==
        IF k = 0 THEN [loc |-> [t \in Tmps |-> <<"entry", t>>], given |-> <<>>,
                       results |-> <<>>, reads |-> <<>>]
        ELSE Meant(run[k - 1], is[k])
  IN  run[Len(is)]

(* What the allocated instructions do, run on registers and slots. A call   *)
(* leaves its results in the argument registers and changes every register  *)
(* it need not preserve.                                                    *)

Position(r) == (CHOOSE k \in DOMAIN ArgRegs : ArgRegs[k] = r) - 1
IsArgReg(r) == \E k \in DOMAIN ArgRegs : ArgRegs[k] = r

\* the effect of instruction i in state s: [loc, slot, reads], where the
\* callee looks at the positions "given"
Done(s, i, given) ==
  LET reg == CHOOSE r \in i.in : r \in Registers
      num == CHOOSE n \in i.in : n \in Nat
      read(S) == Append(s.reads, S)
      operands == {s.loc[v] : v \in i.in}
      set(v)  == IF i.out = None THEN s.loc ELSE [s.loc EXCEPT ![i.out] = v]
  IN  CASE i.type = "op"   -> [s EXCEPT !.loc = set(Fresh(s)), !.reads = read(operands)]
        [] i.type = "move" -> [s EXCEPT !.loc = set(s.loc[reg]), !.reads = read(operands)]
        [] i.type = "call" ->
             [s EXCEPT !.loc = [r \in Registers |->
                                  CASE Preserved(r) -> s.loc[r]
                                    [] IsArgReg(r)  -> <<"result", Position(r)>>
                                    [] OTHER        -> <<"lost", r>>],
                       !.reads = read(operands \cup {<<"given", n, s.loc[nth_ar(n)]>> : n \in given})]
        [] i.type = "save" ->
             [s EXCEPT !.slot = [n \in DOMAIN @ \cup {num} |->
                                   IF n = num THEN s.loc[reg] ELSE @[n]]]
        [] i.type = "restore" ->
             [s EXCEPT !.loc[reg] = IF num \in DOMAIN s.slot THEN s.slot[num] ELSE <<"lost", num>>]

\* block parameters are in the registers they were given, the function's
\* arguments in theirs
Entered ==
  [r \in Registers |->
     CASE \E t \in 1 .. block.params : rmap[t] = r ->
            <<"entry", CHOOSE t \in 1 .. block.params : rmap[t] = r>>
       [] IsArgReg(r) /\ \A t \in 1 .. block.params : rmap[t] # r -> <<"argument", Position(r)>>
       [] OTHER -> <<"lost", r>>]

Performed(given) ==
  LET is == code[bi]
      run[k \in 0 .. Len(is)] ==
        IF k = 0 THEN [loc |-> Entered, slot |-> <<>>, reads |-> <<>>]
        ELSE Done(run[k - 1], is[k], given)
  IN  run[Len(is)]

-----------------------------------------------------------------------------
(* What the pass must achieve.                                              *)

TypeOK ==
  /\ phase \in {"abi", "collect", "scan", "prev", "rest", "pick", "save", "restore",
                "blockDone", "done", "aborted"}
  /\ bi \in 1 .. NB
  /\ phase \notin {"abi", "collect"} => rmap \in [Tmps -> Registers \cup {None}]
  /\ phase \in {"save", "restore", "blockDone", "done"} => rmap \in [Tmps -> Registers]
  /\ li \in 1 .. block.tmps + 1
  /\ active \in Seq(Tmps) /\ prevActive \in Seq(Tmps)
  /\ at \in Nat /\ callAt \in Nat /\ counter \in Nat
  /\ maxCalleeSave \in 0 .. Len(CalleeRegs) /\ maxCallSave \in Nat
  /\ hasCalls \in BOOLEAN

\* the block of the function that was allocated last
Allocated == phase \in {"blockDone", "done"}

\* one is defined or entered with while the other still has a use to come
Overlap(t, u) == Start(t) < End(u) /\ Start(u) < End(t)

(* Two temporaries that are alive together have different registers: the    *)
(* collection of active lifetimes "only works if prev_active is really the  *)
(* previous lifetime in the lifetimes vector" (regalloc.c:184).             *)
NoClash ==
  Allocated => \A t, u \in Tmps : t # u /\ Overlap(t, u) => rmap[t] # rmap[u]

NoMoves == \A k \in DOMAIN block.insns : block.insns[k].type # "move"

\* values that wait for a use at position k, results of the call apart
Waiting(k) ==
  {t \in Tmps : MovesIn(t) = {} /\ Start(t) <= k /\ (k < End(t) \/ k = Start(t))}

\* no argument of the function is fetched in the block, and there are t and
\* s registers enough for it
Roomy ==
  /\ \A k \in DOMAIN source[bi].insns : source[bi].insns[k].type # "param"
  /\ \A k \in 0 .. EndPos : Cardinality(Waiting(k)) <= Len(TempRegs \o CalleeRegs)

(* Temporaries alive together get different registers in blocks without     *)
(* moves, where no hint is ever taken, and in roomy ones: there the stale   *)
(* collection does no harm, as the registers of the hints are left to them. *)
RegistersApart == NoMoves \/ Roomy => NoClash

Unplaced == \A k \in DOMAIN source[bi].insns : source[bi].insns[k].type \in {"op", "call"}

(* An allocated block does what the block means: every instruction, the     *)
(* call with its arguments, the terminator and the edges read the same      *)
(* values, across the call and its saves and restores, and the function     *)
(* returns the results it should. Beyond these blocks it does not: with     *)
(* more values alive, one is put into an argument register a hint holds, or *)
(* the setup of a call writes to the register its target is in.             *)
SameMeaning ==
  Allocated /\ (Unplaced \/ Roomy) =>
    LET meant == Meaning
        done  == Performed(DOMAIN meant.given)
    IN  /\ meant.reads = done.reads
        /\ \A t \in block.uses : meant.loc[t] = done.loc[rmap[t]]
        /\ \A n \in DOMAIN meant.results : meant.results[n] = done.loc[nth_ar(n)]

(* The frame the prologue will reserve has room for every register and slot *)
(* any block of the function uses, whichever needs most, and the return     *)
(* address is kept if anything is called.                                   *)
FrameCovers ==
  phase = "done" =>
    \A b \in 1 .. NB : \A k \in DOMAIN code[b] :
      LET i == code[b][k]
      IN  /\ \A r \in ({i.out} \cup i.in) \cap Registers : CalleeIndex(r) <= maxCalleeSave
          /\ i.type \in {"save", "restore"} => \A n \in i.in \cap Nat : n < maxCallSave
          /\ i.type = "call" => hasCalls

(* The running offset finds the call again after every insertion: "assert(  *)
(* (insn_at(b->insns, pos)).type == CALL)" (regalloc.c:437, 462).           *)
CallFound == phase \in {"save", "restore"} => code[bi][callAt].type = "call"

(* Linear scan gives up, "ran out of registers" (regalloc.c:266), only if   *)
(* the values alive where it looks for a register, and the results that     *)
(* reach an argument register before it is free again, outnumber them.      *)
SpillNeeded ==
  phase = "aborted" =>
    Cardinality({t \in Tmps : Overlap(t, li) /\ (t <= li \/ MovesIn(t) # {})} \cup {li})
      > Len(Order)
=============================================================================
