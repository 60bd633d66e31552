---------------------------- MODULE ParallelMove ----------------------------
(* The moves at the end of a block that put the arguments of an edge into   *)
(* the parameters of its target: output_moves() and move_one() in           *)
(* src/asm.c. All moves are meant to happen at once; move_one() serialises  *)
(* them by doing first, recursively, the moves that read what it is about   *)
(* to overwrite.                                                            *)
(*                                                                          *)
(* The recursion is a stack of frames, one per activation of move_one():    *)
(* the move it is for, the argument it read on entry and the position of    *)
(* its loop. The emitted code is run as it is emitted: regs says of each    *)
(* register whose initial value it holds.                                   *)
EXTENDS Integers, Sequences

CONSTANTS
  N,     \* number of moves, the length of the parameter vector
  Regs,  \* the registers parameters and arguments may be allocated to
  Tmp0   \* RTMP0, which regalloc() never hands out

ASSUME CountAssumption == N \in Nat
ASSUME ScratchAssumption == Tmp0 \notin Regs

Moves == 1 .. N
Locations == Regs \cup {Tmp0}

VARIABLES
  param,   \* the parameter vector, one register per live parameter
  source,  \* the argument vector as output_moves() receives it
  args,    \* the argument vector, changed when a cycle is broken
  status,  \* enum move_status of each move
  stack,   \* the activations of move_one(), innermost last
  outer,   \* position of the loop in output_moves()
  regs     \* contents of the registers, run symbolically

vars == <<param, source, args, status, stack, outer, regs>>

Status == {"TO_MOVE", "BEING_MOVED", "MOVED"}

\* the parameters of a block are live together, so their registers differ
Injective(f) == \A i, j \in DOMAIN f : f[i] = f[j] => i = j

Init ==
  /\ param \in {p \in [Moves -> Regs] : Injective(p)}
  /\ source \in [Moves -> Regs]
  /\ args = source
  /\ status = [i \in Moves |-> "TO_MOVE"]
  /\ stack = <<>>
  /\ outer = 1
  /\ regs = [r \in Locations |-> r]

-----------------------------------------------------------------------------

Top  == stack[Len(stack)]
Rest == SubSeq(stack, 1, Len(stack) - 1)

\* mutant: the loop starts at the move itself and misses the ones before it
Activation_FromSelf(i) == [pi |-> i, a |-> args[i], ai |-> i]

\* entering move_one(i): the argument is read here and not again
Activation(i) == [pi |-> i, a |-> args[i], ai |-> 1]

\* the innermost activation goes on to its next argument
Advanced == Rest \o <<[Top EXCEPT !.ai = @ + 1]>>

\* the argument under the loop is in the register about to be overwritten
Clashes == Top.ai \in Moves /\ args[Top.ai] = param[Top.pi]

\* the loop of output_moves() passes a move that is done
SkipMoved ==
  /\ stack = <<>> /\ outer \in Moves
  /\ status[outer] # "TO_MOVE"
  /\ outer' = outer + 1
  /\ UNCHANGED <<param, source, args, status, stack, regs>>

\* it calls move_one(), which returns at once when there is nothing to move
SkipSame ==
  /\ stack = <<>> /\ outer \in Moves
  /\ status[outer] = "TO_MOVE" /\ args[outer] = param[outer]
  /\ outer' = outer + 1
  /\ UNCHANGED <<param, source, args, status, stack, regs>>

\* it calls move_one(), which starts its loop
Start ==
  /\ stack = <<>> /\ outer \in Moves
  /\ status[outer] = "TO_MOVE" /\ args[outer] # param[outer]
  /\ status' = [status EXCEPT ![outer] = "BEING_MOVED"]
  /\ stack' = <<Activation(outer)>>
  /\ outer' = outer + 1
  /\ UNCHANGED <<param, source, args, regs>>

\* mutant: the loop of move_one() does not move on
Pass_Stuck ==
  /\ stack # <<>> /\ Top.ai \in Moves
  /\ ~Clashes \/ status[Top.ai] = "MOVED"
  /\ UNCHANGED vars

\* mutant: the loop goes one argument past the end of the vector
Pass_TooFar ==
  /\ stack # <<>> /\ Top.ai \in 1 .. N + 1
  /\ ~Clashes \/ status[Top.ai] = "MOVED"
  /\ stack' = Advanced
  /\ UNCHANGED <<param, source, args, status, outer, regs>>

\* an argument the move does not clobber, or one already moved
Pass ==
  /\ stack # <<>> /\ Top.ai \in Moves
  /\ ~Clashes \/ status[Top.ai] = "MOVED"
  /\ stack' = Advanced
  /\ UNCHANGED <<param, source, args, status, outer, regs>>

\* mutant: the move that would be clobbered is left for later
Recurse_Not ==
  /\ stack # <<>> /\ Clashes
  /\ status[Top.ai] = "TO_MOVE"
  /\ stack' = Advanced
  /\ UNCHANGED <<param, source, args, status, outer, regs>>

\* a move that would be clobbered is done first. It reads the register of
\* another move's parameter, so move_one() does not find it has nothing to do
Recurse ==
  /\ stack # <<>> /\ Clashes
  /\ status[Top.ai] = "TO_MOVE"
  /\ status' = [status EXCEPT ![Top.ai] = "BEING_MOVED"]
  /\ stack' = Append(Advanced, Activation(Top.ai))
  /\ UNCHANGED <<param, source, args, outer, regs>>

\* mutant: the scratch register is loaded, the argument is not redirected
BreakCycle_KeepsArgument ==
  /\ stack # <<>> /\ Clashes
  /\ status[Top.ai] = "BEING_MOVED"
  /\ regs' = [regs EXCEPT ![Tmp0] = regs[args[Top.ai]]]
  /\ stack' = Advanced
  /\ UNCHANGED <<param, source, args, status, outer>>

\* mutant: the scratch register gets the innermost move's own argument
BreakCycle_SavesOwn ==
  /\ stack # <<>> /\ Clashes
  /\ status[Top.ai] = "BEING_MOVED"
  /\ regs' = [regs EXCEPT ![Tmp0] = regs[Top.a]]
  /\ args' = [args EXCEPT ![Top.ai] = Tmp0]
  /\ stack' = Advanced
  /\ UNCHANGED <<param, source, status, outer>>

\* the move that would be clobbered waits for this one: a cycle. Its value
\* goes to the scratch register and its argument is redirected there
BreakCycle ==
  /\ stack # <<>> /\ Clashes
  /\ status[Top.ai] = "BEING_MOVED"
  /\ regs' = [regs EXCEPT ![Tmp0] = regs[args[Top.ai]]]
  /\ args' = [args EXCEPT ![Top.ai] = Tmp0]
  /\ stack' = Advanced
  /\ UNCHANGED <<param, source, status, outer>>

\* the loop is over: emit the move and return. The argument moved is the
\* one read on entry, also when the entry in args was redirected since
Emit ==
  /\ stack # <<>> /\ Top.ai = N + 1
  /\ regs' = [regs EXCEPT ![param[Top.pi]] = regs[Top.a]]
  /\ status' = [status EXCEPT ![Top.pi] = "MOVED"]
  /\ stack' = Rest
  /\ UNCHANGED <<param, source, args, outer>>

Next ==
  \/ SkipMoved
  \/ SkipSame
  \/ Start
  \/ Pass
  \/ Recurse
  \/ BreakCycle
  \/ Emit

\* one thread runs the function to its end
Spec == Init /\ [][Next]_vars /\ WF_vars(Next)

-----------------------------------------------------------------------------
(* What the moves must achieve.                                             *)

Frames == [pi : Moves, a : Locations, ai : 1 .. N + 1]

TypeOK ==
  /\ param \in [Moves -> Regs] /\ Injective(param)
  /\ source \in [Moves -> Regs]
  /\ args \in [Moves -> Locations]
  /\ status \in [Moves -> Status]
  /\ stack \in Seq(Frames)
  /\ outer \in 1 .. N + 1
  /\ regs \in [Locations -> Locations]

Finished == stack = <<>> /\ outer = N + 1

\* move i got the value its argument had before the first move
Correct(i) == regs[param[i]] = source[i]

\* no chain of moves, each reading what the next one writes, closes
Acyclic ==
  \E rank \in [Moves -> Moves] :
    \A i, j \in Moves : i # j /\ source[j] = param[i] => rank[j] < rank[i]

(* Every parameter ends up with its argument's initial value, as if all     *)
(* moves happened at once: "use temporary register to shuffle arguments     *)
(* around" (asm.c:431).                                                     *)
MovesCorrect == Finished => \A i \in Moves : Correct(i)

(* Without a cycle the serialised moves have the effect of the parallel     *)
(* ones, in whatever order the recursion visits them.                       *)
AcyclicMovesCorrect == Finished /\ Acyclic => \A i \in Moves : Correct(i)

(* With cycles, every move ends up right but the ones whose argument was    *)
(* redirected: at most one value per cycle is lost.                         *)
UnbrokenCorrect == Finished => \A i \in Moves : args[i] # Tmp0 => Correct(i)

(* When a redirected move is emitted, the scratch register still holds the  *)
(* value it needs, also with several cycles: reading the argument again     *)
(* there would be enough to make the cycle come out right.                  *)
ScratchHoldsLostValue ==
  [][Emit /\ args[Top.pi] = Tmp0 => regs[Tmp0] = source[Top.pi]]_vars

(* An emitted move overwrites neither a register that a move not begun will *)
(* read nor one that an activation still on the stack will: that one reads  *)
(* the argument it took on entry (asm.c:411, 448), whatever args says by    *)
(* then. Redirected moves are excepted, for breaking a cycle does overwrite *)
(* the register such an activation reads: MovesCorrect fails for it.        *)
NothingClobbered ==
  [][Emit =>
       /\ \A j \in Moves : status[j] = "TO_MOVE" => args[j] # param[Top.pi]
       /\ \A k \in 1 .. Len(stack) - 1 :
            args[stack[k].pi] # Tmp0 => stack[k].a # param[Top.pi]]_vars

(* The recursion ends, with all moves emitted or not needed.                *)
Terminates == <>(Finished /\ \A i \in Moves : status[i] = "MOVED" \/ args[i] = param[i])
=============================================================================
