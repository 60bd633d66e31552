# Verification of qbt

qbt is a small compiler back end: it reads functions in a textual
intermediate language and prints assembly for a ternary machine (words of
three trytes). It is one sequential C program. What makes it hard to get right
is not concurrency but the chain of passes, each of which counts on what the
one before it left, and the code that comes out, whose frames, moves and
branches have to fit together at run time.

Line references below are relative to `src/` inside the repository
(`ssa.c:97`), as in the comments of the modules.

## The system

`optimize()` (opt.c) runs the passes on one function at a time, in this order:

| Component | Files | State | Operations | Leaves for the next |
|---|---|---|---|---|
| Function builder | parser.y, nodes.c | current block, block list, labels | one action per statement, `finish_function` | blocks in layout order, each falling through to the next or returning, at most one call each and at its end |
| Correction | correct.c | instruction vectors, `rewrite_addrs`, next temporary | `correct_insn` for each instruction, including the ones it inserts | operands in the classes instructions take |
| SSA conversion | ssa.c, unreachable.c | `visited` counters, traversal stack, parameters, arguments, renaming map | `build_params`, `collect_params`, `remove_unvisited`, `rename_temps` | block parameters and edge arguments, numbered per block |
| ABI lowering | abi.c | instructions | `abi0` | moves to and from argument registers, setup and teardown flags |
| Register allocation | regalloc.c | lifetimes, hints, `rmap`, active lifetimes, save counters | `collect_lifetimes`, `build_rmap`, `do_rewrites`, `do_call_saves` | registers, SAVE/RESTORE, frame counters |
| Output | asm.c | move status | instructions, `output_moves`, branches, prologue, epilogue, calls, slots, locals | text |
| Vectors | vec.c | count, room, buffer | create, append, pop, insert, reset | |
| Diagnostics, driver | debug.c, main.c | none that lasts | messages; file reading | |

The components interact only through the function they hand on; there are no
threads, callbacks, signals or persistent state. The hard behaviours are

* orders of traversal that no test has (loops and joins in ssa.c, sharing of
  the visited counters by two traversals and a removal);
* values read before a mutation and used after it (`move_one`'s argument,
  `prev_active` in the linear scan, positions in a block that is being
  inserted into, the instruction `correct_insn` works on, the address an
  earlier instruction took);
* resources that run out (registers, slots, stack), and formulas for offsets
  that must agree;
* assertions three passes away from the decision that makes them fail.

`PROJECT.json` lists each at its line under `hazards`, with the properties for
it.

## The modules

| Module | Models | Correspondence |
|---|---|---|
| `Builder` | parser.y actions, `do_new_block`, `finish_function` | one action per kind of statement; `blks`, `cur`, `labels` are `f->blks`, `p->b`, `f->labels`; `Close`, `Reject`, `SkipBlock`, `Resolve`, `NoSuchLabel` are the end of the function |
| `Vec` | vec.c | operators only: a vector is its count, its room and its buffer with the cells that are uninitialised |
| `Correct` | correct.c | one visit of one instruction per action, with the instructions it inserts into a vector of `Vec`; `EndBlock` is the comparison |
| `Ssa` | ssa.c, unreachable.c | one turn of the traversal loop per action (`Skip`, `Enter`, `BuildWork`, `CollectWork`), then one block renamed per step; `RenameAbort` is the failing assertion |
| `Abi` | abi.c | operators only; `RegAlloc!Lower` applies them |
| `RegAlloc` | regalloc.c | one loop iteration per action: deciding lifetimes, the two loops of `build_active_between`, the choice of a register, saves, restores |
| `ParallelMove` | `output_moves`, `move_one` | the recursion as an explicit stack of activations; an activation keeps the argument it read on entry |
| `Frame` | `save_state`, `restore_state`, calls, slots, locals, returns | one printed instruction per step, run on a memory of trytes |
| `Convention` | what a call promises, abstractly | `Frame` refines it |
| `Words` | words and memory of the machine, scaled down | operators only; wrapping arithmetic, memory read and written in two widths |
| `Asm` | `output_insn`, `output_branch` and what they call | operators only: what is printed for an instruction or a branch, and what the machine does with it |
| `Output` | `output` | one step per printed instruction, then the pieces of the end of a block in their order |
| `Flow` | what a function with block parameters and instructions means, abstractly | `Output` refines it |

How they compose: `RegAlloc` extends `Abi`, since the two passes are judged
together; `Correct` extends `Vec`, being the code that inserts into what it
iterates over; `Output` extends `Asm`. `Frame` and `Output` instantiate their
abstract specifications, `Convention` and `Flow`; what `Asm` and `Flow` share is
the machine's arithmetic and memory in `Words`, and nothing of how code is
printed. The instructions that manage the frame are printed by actions of
`Frame`, all others by `Asm`. The remaining seams are stated as properties on one side and assumptions on the
other:

* `Builder!GraphIsShaped` and `Builder!CallsEndBlocks` give the shape that
  `Ssa!Init`, `Output` and `RegAlloc` start from;
* `Ssa!ParametersAreUsed` is assumed of the blocks given to `RegAlloc`, and
  `Ssa!SingleAssignment` and `Ssa!ArgumentsAreLocal` are why `RegAlloc` can
  take the temporaries of one block at a time;
* `ParallelMove!AcyclicMovesCorrect` is why `Output` lets the moves of one
  edge take effect at once; it is about moves without a cycle, so
  `Output!FunctionsAssumption` admits no others (`Orderly`);
* `RegAlloc!FrameCovers` is what `Frame`'s guards on slots and registers count
  on;
* `Correct!Selectable` is why `Output` may take instructions with registers
  where `Asm!Printable` wants them; its two exceptions, additions of two
  constants and the stores that `store_rewrite()` inserts, are not `Printable`.

Modules other than `Correct` use sequences where the code has vectors.
`CorrectProofs!InsertionInserts` proves that this is sound for insertion.

`MCBuilder`, `MCCorrect`, `MCSsa`, `MCRegAlloc`, `MCFrame` and `MCOutput` define
the inputs for TLC. `ParallelMove` needs none.

Operators whose name continues another's after an underscore (`Queued_FirstOnly`)
are mutants: the same piece of code with a plausible bug. `PROJECT.json`
names, for each property, a mutant that TLC shows to violate it.

## The runs

| Run | Inputs | States | Shows |
|---|---|---|---|
| `Builder_short` | functions of short bodies over two labels, every order of statements the grammar allows | 178 850 | control flow of the statements is kept; the graph has its shape; a block has one call at most; parameters are fetched once; only malformed functions are rejected |
| `Correct_forms` | one block of up to two instructions of every group with a comparison; two blocks with the address of a temporary taken in either; a block where the temporary that holds an address has its own address taken, or an addressed temporary is compared | 127 979 | same results, registers where instructions take only registers (with two exceptions named), reads and writes of an addressed temporary go to memory with the exceptions named, the vectors stay within their buffers, termination although the loop inserts into its own vector |
| `Correct_compare` | one block, any comparison | | violation, see below |
| `Ssa_forms` | every graph of four blocks, two temporaries | 1 268 187 | the parameters are the live temporaries (exactly, without loops), edges match targets, numbers are unique and local, layout sound, termination |
| `Ssa_abort` | graphs of three blocks whose temporaries are defined before they are used | | violation |
| `RegAlloc_forms` | a block with two parameters, up to two arguments, a call and up to two results; a returning block; blocks with up to seven values for five registers, with and without a call, also through one of them; two blocks with different needs | 632 879 | where no hint is taken or there is room, temporaries alive together have different registers; where nothing is placed in argument registers or there is room, the allocated code means what the block means; the call is found; giving up only when the registers are full; the frame covers all blocks |
| `RegAlloc_entry` | the first block of a function with two parameters | | violation |
| `ParallelMove_four` | all sets of four moves over five registers | 1 575 000 | acyclic sets are right, cyclic ones lose only redirected values, a move overwrites nothing that another one, not redirected, will read, termination |
| `ParallelMove_cycle` | two moves | | violation |
| `Frame_calls` | a function that calls itself and a leaf, two calls deep | 802 722 | frames chain, registers and pointers are given back, the convention is implemented |
| `Output_flow` | functions of three blocks with harmless branch moves, those of no edge forming a cycle; functions whose first block computes, or stores and loads, before any conditional branch | 771 570 | the printed instructions, moves and branches, run by the machine, implement the meaning of the block graph |
| `Output_branch` | all functions of three blocks | | violation |

### Why the bounds are enough

* *Ssa*: four blocks give diamonds, nested and crossing loops, unreachable
  blocks, self-loops and branches whose two edges meet; two temporaries make
  the order of parameters and the numbering matter. The theorems remove the
  bound for the properties they are about.
* *ParallelMove*: four moves give a cycle with a chain hanging off it, two
  cycles, and a fan-out from one register; five registers let all four
  sources lie outside the destinations. The theorems remove this bound too.
* *RegAlloc*: two temporary, one callee-saved and two argument registers, so
  that each class can run out before the next is used, and values must be
  saved across the call while others need not be. Some blocks with a call
  have more values alive before it than there are registers that are not for
  arguments, so that a hint and the scan compete for one, or the call's target
  is in one. The theorems remove the bound for all properties.
* *Frame*: two nested calls leave a frame with slots, one with a return
  address and one without on the stack at the same time; one tryte of locals
  is enough to misalign words.
* *Output*: three blocks give a forward branch over a block, a branch to the
  next block, and a loop. Words are one trit (`Radius` 1), so that sums
  overflow, and a store and a load meet at the same address or not. The
  theorem removes these bounds.
* *Correct*: two instructions are enough for the second to be visited after an
  insertion before it, and an instruction has two operands that can each need
  a correction. The buffers grow in the middle of the loop already with one
  instruction in a block. The theorems remove the bound for all but
  termination.
* *Builder*: the bodies are long enough for two labels in a row, a label after
  every kind of statement, and branches in both directions. The theorems remove
  this bound for all properties.

### Fairness and termination

The compiler is one thread, so the only fairness assumed is weak fairness of
the whole next-state relation (`WF_vars(Next)`) in the modules that state
termination: `Ssa`, `ParallelMove`, `Correct`. It says that a program with a
step left takes it. Those are the loops whose end is not plain: a traversal
that pushes blocks that are on its stack, a recursion that follows moves, and
a loop over a vector it inserts into. All configurations with `CHECK_DEADLOCK
FALSE` are of programs that stop.

### What the violations show

Five runs check what a comment or an assertion of the code says, and TLC finds
it false:

1. `Ssa_abort`: parameters are propagated once. In the function the run finds,
   block 1 defines two temporaries, block 2 loops to itself and uses one of
   them, and block 3 behind the loop uses both. Block 2 is put on the stack
   again by its own back edge, and that copy is worked on before block 3 is. The
   temporary that only block 3 uses is left out of block 2's parameters, and
   renaming block 2 fails `assert(v.class == TMP)` (`ssa.c:241`). Functions that
   read a temporary no block defines are kept out (`MCSsa!DefinedSpec`), since
   the parser takes none.
2. `ParallelMove_cycle`: the redirected move of a swap is emitted with the
   argument read before the redirection (`asm.c:411`, `asm.c:448`), and a value
   is lost. `UnbrokenCorrect` and `ScratchHoldsLostValue` say exactly how far
   this goes: only redirected moves are wrong, and the scratch register holds
   what they should have read. `NothingClobbered` excepts the same moves: the
   register a redirected one still reads is overwritten.
3. `RegAlloc_entry`: the scan skips lifetimes that already have a register
   (`regalloc.c:324`), and these do not become previous lifetimes, as the comment
   at `regalloc.c:184` requires. The arguments of a function get theirs before
   the scan (`regalloc.c:142`), so in its first block a later temporary is given
   a register one of them is in.
4. `Output_branch`: the moves of the branch edge are printed before the
   branch, so they also run when it is not taken and may change what it
   compares (`asm.c:493`).
5. `Correct_compare`: `correct.c:242` copies the first operand of a comparison
   where it means the second.

Some further divergences are visible in the modules without a run of their
own.

* When a hint is taken (`regalloc.c:334`), the loop goes on before the swap at
  line 350, and the collected lifetimes do not become the previous ones either.
  This needs no argument of the function: in a block with more values alive
  before a call than there are t and s registers, a temporary waits in the
  argument register of its hint, and the scan, arrived at the argument
  registers, gives it to a later one too. `Roomy` says in which blocks neither
  this nor what `RegAlloc_entry` shows can happen, and `RegistersApart` is
  proved of those.
* The setup of a call may write to the register its target is in, since a call's
  operand is not reserved against the argument registers of its setup
  (`abi.c:46`, `regalloc.c:343`); `SameMeaning` leaves such blocks out.
* `ssa.c:97` says that dependencies are done when a block is worked on, which
  loops make false; `Ssa!AcyclicDependenciesDone` is the part that holds.
* In `correct_arith` the code after the swap is never reached, so an addition
  of two constants keeps an immediate in a register's place
  (`Correct!Constant`).
* `correct.c:164` drops what `store_rewrite()` returns and goes on with the
  instruction as it was. If it then has to load an immediate, it writes the old
  instruction back, uses the fresh number a second time and visits the
  instruction again, so that a second store is inserted: for `t0 = 7 - t1` with
  `t0` in memory the two stores write the difference and then the 7. For the
  same reason an addition whose operands are exchanged still writes a temporary
  whose address was taken (`Correct!Stored`, the exception in
  `WrittenToMemory`). The store `store_rewrite` inserts has an
  output and one operand, on which `output_store` would assert (`asm.c:255`):
  the second exception in `Selectable` (`Rewritten`). Today compilation stops
  before that, at the instruction that takes the address, which `output_insn`
  does not know (`asm.c:327`; `tests/addr` expects this).
* A rule for a temporary in memory keeps the address as it was when it was
  taken: if that is in a temporary whose own address is taken later, inserted
  loads read the stale register (`correct.c:132`). The operands of a comparison
  are never looked up at all (`correct.c:234`). `ReadFromMemory` names both.
* `output_sub` prints a negative immediate as it is, with `addi`, and so adds
  a negative number where it should add a positive one (`asm.c:199`, "double
  negative").
* `output_insn` and `output_branch` abort on instructions the parser and all
  passes accept (`asm.c:327`): `Asm!Printable` and `Asm!Conditional` are what
  is left.

## The proofs

All are checked by TLAPS for every value of the constants.

**Induction** holds what the others need of induction. The library's induction
theorems take the statement to be proved as a parameter, which the provers
cannot instantiate; a nonempty set of naturals having a least element says the
same and can be cited (`LeastOf`). From it follow that a function defined by
recursion exists, and that an increasing iteration over a finite set comes to
rest. Proofs by induction below assume a set of counterexamples and refute its
least element.

**BuilderProofs** proves `TypeCorrect`, `GraphsAreShaped`, `CallsAreLast`,
`FetchedOnce`, `WellFormedAccepted` and `ControlFlowKept`, for bodies of any
length with any labels. The invariant tells the last block, which statements are
still added to (`Open`), from the ones before it, which have their branch
(`Settled`). The hard step is `finish_function()` destroying the last block while
labels may name it. `Parsed` is there for that: a label of an empty last block
was the statement parsed last, so the body is labels only (`GrammarAssumption`),
every block before it was ended by a label, and none returns; but then the
function is rejected.

`ControlFlowKept` compares the finished blocks with the source. Its invariant
`Told` speaks of the code of a block: the statements its instructions and its
branch were made from. In a block they follow one another as in the source, and
only operations are followed by anything (`Blocks`); a block that was ended has
the branch its last statement asks for, and the next one starts, or will start,
with the next statement (`Finished`); no statement parsed is in no block
(`Covered`); the first label of a name leads to the block that starts with what
it names (`LabelsLead`); and branches looked up lead to such a block
(`Resolved`). When all blocks are ended these give the two inclusions.

**SsaProofs** is about functions with any number of blocks, temporaries and edges.

* `TypeCorrect`: the counters stay within four only because of an order in
  time, so the invariant adds `Walk`, how the counters of the blocks on the stack
  relate to the traversal that is running.
* `ArgumentsMatch`: once arguments are collected, every surviving edge carries
  exactly the parameters of its target. The property alone is not inductive:
  nothing would say that the blocks kept are those the second traversal works
  on. `ReachInv` adds what a traversal knows halfway (an edge from an entered
  block leads to an entered or a queued one; what is entered or queued lies in
  every set that holds the entry and is closed under edges), from which both
  traversals visit the same blocks; `Filled` and `Renamed` then follow the
  argument lists.
* `LayoutIsSound`: the same closure, now compared with the recursive function
  that defines what the entry reaches. That function is shown to exist and its
  iteration to come to rest after as many steps as there are blocks.
* `AssignedOnce`, `ArgumentsStayLocal`: the numbers given out in one block are a
  range that starts where the block before ended, so ranges of different
  blocks are disjoint, and an argument is looked up in the range of its own
  block (`NumberInv`).
* `DependenciesFirst`, `ParametersSolve`, `NoAbortWithoutLoops` are about
  loop-free functions, those with a rank that falls along every edge. The
  invariant `Deps` says that above a block that waits on the stack there are only
  blocks of smaller rank, among them every successor not yet finished; when the
  block is at the top again, none is left. So a block is worked on after its
  successors, the parameters solve the liveness equations, and the assertion
  fails on functions with loops only.
* `NoIdleParameter`, `FinishedParametersAreLive` need no rank: with loops or
  without, a block gets only parameters that are live into it (`LiveInv`), and if
  the pass finishes every block has passed the assertion, so that none is
  missing. The parameters then lie in every solution of the liveness equations and
  are one themselves, as is the reference `LiveIn`, a recursive function shown to
  exist, which lies in every solution too; so the two agree on the blocks kept.

**RegAllocProofs** is about functions with any number of blocks and instructions
that satisfy `IsFormed`, and any registers. `TypeCorrect` (`TypeInv`) includes that
no block is rewritten before each of its temporaries has a register.
`CollectInv` is what the two loops of `build_active_between` know halfway: the
collection holds every lifetime already walked past that is alive with the current
one (`HasSeen`) and no other (`InReach`), and the collection of the lifetime before
it misses only what a hint was given to (`Closed`). Without hints it misses
nothing, and registers of decided lifetimes are apart (`RegInv`). With hints, what it misses is in an argument register; where
a block is `Roomy` no free register the scan finds is one, since by counting there is
a free t or s register before it. So registers stay apart in both kinds of
blocks (`RegistersStayApart`). The same counting gives
`GivesUpOnlyWhenFull`. `CodeInv` follows the insertions of saves and restores:
the running offset is the position of the call (`CallIsFound`), and the maxima
bound the registers and slots of all blocks so far (`FrameIsCovered`).

`MeaningIsKept` is the result the others lead to: the allocated code does what the
block means. It needs one more invariant. `CodeShape` says where everything is:
`Laid(c, n, m)` that each instruction stands in code `c` where it was, or `n`
places later from the setup of the call on, that the places before the setup hold
the saves of the first `n` temporaries that need one, and the last `m` places the
restores, in the opposite order. For an allocated block the rest is a simulation
of the two runs `Meaning` and `Performed`. `Agree(m, s, k)` relates their states
after instruction `k`: the same values have been read, a temporary that is alive
is in its register (`AliveHere`), the arguments and results set up so far are in
theirs (`GivenHere`, `ResultsHere`), and so are the results of the call that
are still to be fetched (`ReturnedHere`). A temporary that is saved is excepted
from the call on; `Kept` says that its slot holds it. What a step needs to know of
the registers is `Clean`: those of temporaries alive together differ, a fetched
result is in its own argument register, and an argument or result of the function
is set up in a register that no other temporary defined by then is in. `RegistersStayApart` and
what hints can be give it. There is one lemma for each kind of instruction (`StepOp`, `StepCall`,
`StepArg`, `StepRetArg`, `StepRetVal`), one for the saves and one for the
restores; at the end every temporary a terminator or an edge uses is back in
its register.

Three statements turned out too broad on the way to their proofs. That linear
scan gives up only when more values are alive than there are registers is false
of blocks with results: the argument register of a result that comes while the
value is still alive is kept for it. `SpillNeeded` counts these. That allocated
code means what the block means is false of blocks that are not `Roomy`, for the
reasons given under `RegAlloc_entry` and for hints. And it is false even of blocks without
moves, though registers stay apart there, if an argument is a constant: the scan
may have put the call's target, or another value still to be read, into the
argument register the constant is then loaded into. So `SameMeaning` is about
`Roomy` blocks and those that place nothing at all (`Unplaced`).
`RegAlloc_forms` has blocks wide enough for all three.

**ParallelMoveProofs** proves `TypeCorrect`, `ReadBeforeWritten`,
`AcyclicAreCorrect`, `UnbrokenAreCorrect` and `ScratchIsKept`, for any number of
moves, cyclic or not. What `UnbrokenCorrect` says of the end is not
inductive. `Inv` adds, of every state in the middle of the recursion: each move in
progress has one activation, and an activation reads the register its caller
is about to write (`StackInv`); only emitted moves have written, and a
register is written after everything that reads it was emitted, but for moves
that were redirected (`DataInv`);
the loop of an activation has left no reader behind, and only the outermost
activation is ever redirected (`MixedInv`). `ReadBeforeWritten` speaks of the
argument an activation took on entry, not of what `args` says by then: a lemma,
`EmitSpares`, shows that an activation below the emitted move reads another register
than the one the move writes, unless it was redirected.

**OutputProofs** proves `PrintedCodeMeans`: for functions of any number of
blocks and instructions that are `Harmless`, machines of any word size and any
contents of registers and memory, `Output` refines `Flow`; and `OutputTypes`.
There are three provisos. That the moves of an edge form no cycle is part of
`FunctionsAssumption` (`Orderly`: parameters in registers of their own, and a rank
that falls along the moves), for without it taking them at once would not
be what `output_moves()` does. `Harmless` states the other two: the moves of a
branch edge hand every register that the comparison or the other edge
reads its own value, and no negative immediate is subtracted. The abstract
state cannot be read off the registers, since the moves of the branch edge run
before the branch. The invariant `Lags` says how far the registers have got from
what the block left: not at all before the moves, and exactly those moves
after.

**FrameProofs** proves `FrameTypes`, `FramesAreChained`, `RegistersGivenBack` and
`ConventionKept` for any program, any number of registers and slots, and any depth of calls the
stack has room for. `GivenBack` speaks of the moment of a return only. `Inv`
says of every moment that the activations lie below one another without overlap
and start where the one before ends (`Stack`); that each frame holds the words
its prologue has stored so far, at the offsets of the layout (`InFrame`); and
what each register of the convention holds at each instruction (`Registers`).
A step writes to one frame at most, and `InFrame` of the others follows
from the distances between offsets. `ConventionKept` is the
refinement: the frames of `Convention` are what memory holds at the slots
and locals of each activation, so a step that writes to one frame changes one of
them, and each instruction is a step of `Convention` or leaves all frames as they
are.

**CorrectProofs** first proves of vectors of any length that `vec_insert()`
keeps them within their buffer and is insertion into the sequence they hold
(`InsertionInserts`). `Inv` then says of the pass that all instructions have
forms the grammar writes (`Blocks`), and that those the loops have passed are
settled (`Passed`); the current one may be anything in between. From it follows
`CorrectTypes`, and with `NoneRewritten`, that stores of the form `store_rewrite()`
makes are there only once an address was taken, `FormsAreSelectable`. `Addresses` adds what the pass knows of
temporaries in memory: each address taken has its rule, temporaries still to
be met are older than the next free one, and what was passed since heeds the
rules; `ReadsGoToMemory` and `WritesGoToMemory` follow. That the temporaries are
older is not plain: the one `store_rewrite` makes up is not counted, and only
because such a store reads nothing but an address is its number never mistaken.
`ResultsAreSame` is a simulation, for functions that take no address (the
property's own condition). `Same` says of the block being corrected that the
instructions before the loops' position lead to a state that agrees with the one
after a prefix of the source, on the source's temporaries and on everything read
so far; that the instruction at the position, whatever was changed of it, does
there what the next of the source would; and that the ones behind it are as they
were parsed. Finished blocks compare the same values, the others are untouched.
All this is stated for every number of temporaries from the next free one on,
because `Run` starts with as many as there are at the end and each insertion adds
one. `RunIs` ties the recursive function `Run` to such sequences of states, by
the least instruction at which two of them would differ (`Induction!LeastOf`). A block whose second compared operand is an immediate
is left out, as in the property: the run `Correct_compare` shows it compares
something else.

The assumptions are the named ones in `Builder`, `Ssa`, `RegAlloc`,
`ParallelMove`, `Words`, `Output`, `Frame` and `Correct`: sizes, disjoint names,
the types and forms of the inputs as the pass before leaves them, and of the
grammar that a label is followed by a statement unless the body is labels only,
that operands are there where an instruction has them, that the grammar writes no
store with an output, that the moves of an edge form no cycle, and that temporaries,
those a block compares included, are numbered by the function's count
(`nodes.c:23`). `RegAlloc!IsFormed` is the longest: one
definition per temporary in the order of their numbers, and no idle parameter, is
what ssa() leaves (`AssignedOnce`, `NoIdleParameter`); arguments right before
their call and results after it is what the parser's rule for a call makes
(`CallsAreLast`); a call has no output of its own (`parser.y:517`); an operand is a
parameter or defined before (`DefinedFirst`), which `add_use()` asserts
(`regalloc.c:108`) and which holds after ssa() because what a block reads before
it defines it is among its parameters (`FinishedParametersAreLive`); positions are
below the number of argument registers.

Every safety property of a passing run is proved. Not proved, and checked by TLC
only: termination of `Ssa`, `ParallelMove` and `Correct`, since liveness is out of
the prover's reach.

## Limits

* `RegAlloc` starts each block with an empty map. In the code the map is shared,
  but the blocks' temporaries have disjoint numbers.
* In `RegAlloc`, positions of arguments stay below the number of argument
  registers; `abi.c:21` allows one more than its table has. That allocated code
  means what the block means is claimed only of blocks that place nothing in
  argument registers and of `Roomy` ones; of the others it is false in general.
* `Output` leaves out functions whose moves along one edge form a cycle, by its
  assumption (`ParallelMove_cycle` shows what happens to them), and its property
  functions that subtract a negative immediate. Memory is addressed in words: how trytes
  of one word overlap with those of another is modelled in `Frame` only, and
  a cell read in another width than it was written in reads as 0 in both the
  code and the meaning.
* `Correct` has no branch instructions inside blocks, as the parser makes none.
* `Frame` lets a body be any sequence of the instructions the allocator may
  leave, and only data that fits the stack: exhaustion of the stack is not
  handled by the code.
* Assertions are taken as active, as in the default build.

## Not modelled

* The lexer and the grammar: text processing. `Builder` takes statements in the
  orders the grammar allows, and assumptions state what it makes of operands.
* The table of names behind temporaries (`idmatch`), dumping and destruction in
  nodes.c: lookups and pure output.
* Messages (debug.c), reading of files and the sequence of passes (main.c,
  opt.c): nothing is kept from one function to the next.
* The names of registers and the spelling of assembly.
* The passes that docs/ only describes; tests and build files.

## Extensions

What could be added: argument positions up to the limit of abi.c; blocks with
cyclic moves composed from `ParallelMove` and `Output`; a composition of
`RegAlloc`'s saves with `Frame`'s slots, so that `MeaningIsKept` and `GivenBack`
speak of one function.
