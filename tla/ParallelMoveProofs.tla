------------------------ MODULE ParallelMoveProofs --------------------------
(* Proofs about the serialised parallel moves, for any number of moves.     *)
(*                                                                          *)
(* The invariant follows the activations: the registers of the parameters   *)
(* not yet written hold their initial values, a move that waits on the      *)
(* stack still finds its argument's initial value or has been redirected,   *)
(* and whatever reads the register an activation is about to write and was  *)
(* passed by its loop has been emitted or is the activation it called.      *)
EXTENDS ParallelMove, SequenceTheorems, TLAPS

Positions == 1 .. Len(stack)

\* a move not begun has its own argument, a redirected one lost its register
Arguments ==
  \A i \in Moves :
    /\ args[i] \in {source[i], Tmp0}
    /\ status[i] = "TO_MOVE" => args[i] = source[i]

\* only emitted moves have written to a register
Untouched ==
  \A r \in Regs : regs[r] = r \/ \E i \in Moves : param[i] = r /\ status[i] = "MOVED"

\* an activation is for a move in progress and kept the original argument
Waiting ==
  \A k \in Positions :
    /\ status[stack[k].pi] = "BEING_MOVED"
    /\ stack[k].a = source[stack[k].pi]
    /\ source[stack[k].pi] # param[stack[k].pi]

\* a move in progress has exactly one activation
OneActivation ==
  /\ \A k, l \in Positions : stack[k].pi = stack[l].pi => k = l
  /\ \A i \in Moves : status[i] = "BEING_MOVED" => \E k \in Positions : stack[k].pi = i

\* an activation reads the register its caller is about to write
Chained ==
  \A k, l \in Positions : l = k + 1 => source[stack[l].pi] = param[stack[k].pi]

\* the loop of output_moves() left nothing to do behind it
Visited ==
  \A i \in Moves : i < outer => status[i] # "TO_MOVE" \/ args[i] = param[i]

\* the loop of an activation left no reader of its parameter behind it
Passed ==
  \A k \in Positions : \A j \in Moves :
    j < stack[k].ai /\ args[j] = param[stack[k].pi] =>
      \/ status[j] = "MOVED"
      \/ \E l \in Positions : l = k + 1 /\ j = stack[l].pi

\* a register is written after everything that reads it has been emitted
ReadFirst ==
  \A i, j \in Moves :
    status[i] = "MOVED" /\ args[j] = param[i] => status[j] = "MOVED"

\* an emitted move that was not redirected is right
Emitted ==
  \A i \in Moves : status[i] = "MOVED" /\ args[i] # Tmp0 => Correct(i)

\* only the outermost activation can be redirected, and once
Scratch ==
  \A i \in Moves :
    status[i] = "BEING_MOVED" /\ args[i] = Tmp0 =>
      stack # <<>> /\ stack[1].pi = i /\ regs[Tmp0] = source[i]

IsRank(rank) ==
  \A i, j \in Moves : i # j /\ source[j] = param[i] => rank[j] < rank[i]

\* without cycles an activation is of lower rank than the ones below it
RankFalls ==
  \A rank \in [Moves -> Moves] :
    IsRank(rank) =>
      \A k, l \in Positions : k < l => rank[stack[l].pi] < rank[stack[k].pi]

NoCycleNoScratch == Acyclic => \A i \in Moves : args[i] # Tmp0

StackInv == Waiting /\ OneActivation /\ Chained /\ RankFalls
DataInv  == Arguments /\ Untouched /\ Visited /\ ReadFirst /\ Emitted
MixedInv == Passed /\ Scratch /\ NoCycleNoScratch

Inv == TypeOK /\ StackInv /\ DataInv /\ MixedInv

-----------------------------------------------------------------------------
(* What the operations on the stack do to its positions.                    *)

(* Popping the stack.                                                       *)
LEMMA PopFacts ==
  ASSUME stack \in Seq(Frames), stack # <<>>
  PROVE  /\ Len(stack) \in Nat /\ Len(stack) >= 1
         /\ Top \in Frames /\ Top = stack[Len(stack)]
         /\ Rest \in Seq(Frames) /\ Len(Rest) = Len(stack) - 1
         /\ \A k \in 1 .. Len(stack) - 1 : Rest[k] = stack[k]
<1>1. Len(stack) \in Nat /\ Len(stack) >= 1
  BY EmptySeq, LenProperties
<1>2. Top \in Frames /\ Top = stack[Len(stack)]
  BY <1>1, ElementOfSeq DEF Top
<1>. DEFINE n == Len(stack) - 1
<1>3. n \in Nat /\ \A k \in 1 .. n : stack[k] \in Frames
  BY <1>1, ElementOfSeq
<1>. HIDE DEF n
<1>4. /\ SubSeq(stack, 1, n) \in Seq(Frames)
      /\ Len(SubSeq(stack, 1, n)) = n
      /\ \A k \in 1 .. n : SubSeq(stack, 1, n)[k] = stack[k]
  BY <1>3
<1>. QED  BY <1>1, <1>2, <1>4 DEF n, Rest

(* Stepping the loop of the innermost activation.                           *)
LEMMA AdvancedFacts ==
  ASSUME stack \in Seq(Frames), stack # <<>>, Top.ai \in Moves
  PROVE  /\ Advanced \in Seq(Frames) /\ Len(Advanced) = Len(stack)
         /\ \A k \in 1 .. Len(stack) :
              /\ Advanced[k].pi = stack[k].pi
              /\ Advanced[k].a = stack[k].a
              /\ k # Len(stack) => Advanced[k].ai = stack[k].ai
              /\ k = Len(stack) => Advanced[k].ai = Top.ai + 1
<1>. DEFINE f == [Top EXCEPT !.ai = @ + 1]
<1>1. f \in Frames /\ f.pi = Top.pi /\ f.a = Top.a /\ f.ai = Top.ai + 1
  <2>1. Top \in [pi : Moves, a : Locations, ai : 1 .. N + 1]
    BY PopFacts DEF Frames
  <2>2. Top.ai + 1 \in 1 .. N + 1
    BY CountAssumption DEF Moves
  <2>3. f \in [pi : Moves, a : Locations, ai : 1 .. N + 1]
    BY <2>1, <2>2
  <2>. QED  BY <2>1, <2>3 DEF Frames
<1>. HIDE DEF f
<1>2. <<f>> \in Seq(Frames) /\ Len(<<f>>) = 1 /\ <<f>>[1] = f
  BY <1>1
<1>3. /\ Rest \o <<f>> \in Seq(Frames)
      /\ Len(Rest \o <<f>>) = Len(stack)
      /\ \A k \in 1 .. Len(stack) - 1 : (Rest \o <<f>>)[k] = stack[k]
      /\ (Rest \o <<f>>)[Len(stack)] = f
  BY <1>2, PopFacts
<1>4. Advanced = Rest \o <<f>>
  BY DEF Advanced, f
<1>5. \A k \in 1 .. Len(stack) : k = Len(stack) \/ k \in 1 .. Len(stack) - 1
  BY PopFacts
<1>. QED  BY <1>1, <1>3, <1>4, <1>5, PopFacts

LEMMA PushedFacts ==
  ASSUME NEW s \in Seq(Frames), NEW f \in Frames
  PROVE  /\ Append(s, f) \in Seq(Frames) /\ Len(Append(s, f)) = Len(s) + 1
         /\ \A k \in 1 .. Len(s) : Append(s, f)[k] = s[k]
         /\ Append(s, f)[Len(s) + 1] = f
BY AppendProperties, LenProperties

-----------------------------------------------------------------------------
(* Types.                                                                   *)

LEMMA TypeInit == Init => TypeOK
<1>. SUFFICES ASSUME Init PROVE TypeOK
  OBVIOUS
<1>1. stack \in Seq(Frames)
  BY DEF Init
<1>2. outer \in 1 .. N + 1
  BY CountAssumption DEF Init
<1>. QED  BY <1>1, <1>2 DEF Init, TypeOK, Locations, Status

LEMMA TypeStep == TypeOK /\ [Next]_vars => TypeOK'
<1>. SUFFICES ASSUME TypeOK, [Next]_vars PROVE TypeOK'
  OBVIOUS
<1>. USE DEF TypeOK
<1>1. CASE SkipMoved
  BY <1>1, CountAssumption DEF SkipMoved, Moves, Injective
<1>2. CASE SkipSame
  BY <1>2, CountAssumption DEF SkipSame, Moves, Injective
<1>3. CASE Start
  <2>1. Activation(outer) \in Frames
    BY <1>3, CountAssumption DEF Start, Activation, Frames, Moves
  <2>2. stack' \in Seq(Frames)
    BY <1>3, <2>1 DEF Start
  <2>3. outer' \in 1 .. N + 1
    BY <1>3, CountAssumption DEF Start, Moves
  <2>4. status' \in [Moves -> Status]
    BY <1>3 DEF Start, Status
  <2>. QED  BY <1>3, <2>2, <2>3, <2>4 DEF Start, Injective
<1>4. CASE Pass
  BY <1>4, AdvancedFacts DEF Pass, Injective
<1>5. CASE Recurse
  <2>1. Top.ai \in Moves
    BY <1>5 DEF Recurse, Clashes
  <2>2. Activation(Top.ai) \in Frames
    BY <2>1, CountAssumption DEF Activation, Frames, Moves
  <2>3. Advanced \in Seq(Frames)
    BY <1>5, <2>1, AdvancedFacts DEF Recurse
  <2>4. stack' \in Seq(Frames)
    BY <1>5, <2>2, <2>3, PushedFacts DEF Recurse
  <2>5. status' \in [Moves -> Status]
    BY <1>5 DEF Recurse, Status
  <2>. QED  BY <1>5, <2>4, <2>5 DEF Recurse, Injective
<1>6. CASE BreakCycle
  <2>1. Top.ai \in Moves
    BY <1>6 DEF BreakCycle, Clashes
  <2>2. stack' \in Seq(Frames)
    BY <1>6, <2>1, AdvancedFacts DEF BreakCycle
  <2>3. args' \in [Moves -> Locations] /\ regs' \in [Locations -> Locations]
    BY <1>6, <2>1 DEF BreakCycle, Locations
  <2>. QED  BY <1>6, <2>2, <2>3 DEF BreakCycle, Injective
<1>7. CASE Emit
  <2>1. PICK t \in Frames : t = Top
    BY <1>7, PopFacts DEF Emit
  <2>2. stack' \in Seq(Frames)
    BY <1>7, PopFacts DEF Emit
  <2>3. regs' \in [Locations -> Locations]
    BY <1>7, <2>1 DEF Emit, Frames, Locations
  <2>4. status' \in [Moves -> Status]
    BY <1>7, <2>1 DEF Emit, Status
  <2>. QED  BY <1>7, <2>2, <2>3, <2>4 DEF Emit, Injective
<1>8. CASE UNCHANGED vars
  BY <1>8 DEF vars, Injective
<1>. QED  BY <1>1, <1>2, <1>3, <1>4, <1>5, <1>6, <1>7, <1>8 DEF Next

-----------------------------------------------------------------------------
(* The invariant, action by action.                                         *)

LEMMA InvInit == Init => Inv
<1>. SUFFICES ASSUME Init PROVE Inv
  OBVIOUS
<1>1. TypeOK
  BY TypeInit
<1>2. stack = <<>> /\ Len(stack) = 0 /\ Positions = {}
  BY DEF Init, Positions
<1>3. \A i \in Moves : status[i] = "TO_MOVE" /\ args[i] = source[i] /\ args[i] # Tmp0
  BY ScratchAssumption DEF Init
<1>4. Waiting /\ Chained /\ RankFalls
  BY <1>2 DEF Waiting, Chained, RankFalls
<1>5. OneActivation /\ Passed /\ Scratch
  BY <1>2, <1>3 DEF OneActivation, Passed, Scratch
<1>6. Arguments /\ ReadFirst /\ Emitted /\ NoCycleNoScratch
  BY <1>3 DEF Arguments, ReadFirst, Emitted, NoCycleNoScratch
<1>7. Visited
  BY DEF Init, Visited, Moves
<1>8. Untouched
  BY DEF Init, Untouched, Locations
<1>. QED  BY <1>1, <1>4, <1>5, <1>6, <1>7, <1>8 DEF Inv, StackInv, DataInv, MixedInv

(* The loop of output_moves() passes a move.                                *)
LEMMA SkipStep == Inv /\ TypeOK' /\ (SkipMoved \/ SkipSame) => Inv'
<1>. SUFFICES ASSUME Inv, TypeOK', SkipMoved \/ SkipSame PROVE Inv'
  OBVIOUS
<1>. USE DEF Inv, StackInv, DataInv, MixedInv
<1>1. UNCHANGED <<param, source, args, status, stack, regs>>
  BY DEF SkipMoved, SkipSame
<1>2. outer \in Moves /\ outer' = outer + 1
      /\ (status[outer] # "TO_MOVE" \/ args[outer] = param[outer])
  BY DEF SkipMoved, SkipSame
<1>3. \A i \in Moves : i < outer + 1 => i < outer \/ i = outer
  BY <1>2 DEF Moves
<1>4. Visited'
  BY <1>1, <1>2, <1>3 DEF Visited
<1>5. Waiting' /\ OneActivation' /\ Chained' /\ RankFalls'
  BY <1>1 DEF Waiting, OneActivation, Chained, RankFalls, Positions, IsRank
<1>6. Arguments' /\ Untouched' /\ ReadFirst' /\ Emitted'
  BY <1>1 DEF Arguments, Untouched, ReadFirst, Emitted, Correct
<1>7. Passed' /\ Scratch' /\ NoCycleNoScratch'
  BY <1>1 DEF Passed, Scratch, NoCycleNoScratch, Acyclic, Positions
<1>. QED  BY <1>4, <1>5, <1>6, <1>7

(* output_moves() calls move_one(): the stack of one activation.            *)
LEMMA StartStep == Inv /\ TypeOK' /\ Start => Inv'
<1>. SUFFICES ASSUME Inv, TypeOK', Start PROVE Inv'
  OBVIOUS
<1>. USE DEF Inv, StackInv, DataInv, MixedInv
<1>0. UNCHANGED <<param, source, args, regs>>
  BY DEF Start
<1>1. outer \in Moves /\ outer' = outer + 1 /\ status[outer] = "TO_MOVE"
      /\ args[outer] # param[outer] /\ args[outer] = source[outer]
      /\ status' = [status EXCEPT ![outer] = "BEING_MOVED"]
  BY DEF Start, Arguments
<1>2. \A i \in Moves : status'[i] = IF i = outer THEN "BEING_MOVED" ELSE status[i]
  BY <1>1 DEF TypeOK
<1>3. stack' # <<>> /\ Positions' = {1}
      /\ stack'[1].pi = outer /\ stack'[1].a = source[outer] /\ stack'[1].ai = 1
  BY <1>1 DEF Start, Positions, Activation
<1>4. \A i \in Moves : status[i] # "BEING_MOVED"
  BY DEF OneActivation, Start, Positions
<1>5. \A i \in Moves : status'[i] = "MOVED" <=> status[i] = "MOVED"
  BY <1>1, <1>2
<1>6. Waiting'
  BY <1>0, <1>1, <1>2, <1>3 DEF Waiting
<1>7. OneActivation'
  BY <1>2, <1>3, <1>4 DEF OneActivation
<1>8. Chained' /\ RankFalls'
  BY <1>3 DEF Chained, RankFalls
<1>9. Arguments' /\ Untouched' /\ ReadFirst' /\ Emitted'
  BY <1>0, <1>2, <1>5 DEF Arguments, Untouched, ReadFirst, Emitted, Correct
<1>10. \A i \in Moves : i < outer + 1 => i < outer \/ i = outer
  BY <1>1 DEF Moves
<1>11. Visited'
  BY <1>0, <1>1, <1>2, <1>10 DEF Visited
<1>12. \A j \in Moves : ~(j < 1)
  BY DEF Moves
<1>13. Passed'
  BY <1>3, <1>12 DEF Passed
<1>14. source[outer] # Tmp0
  BY <1>1, ScratchAssumption DEF TypeOK
<1>15. Scratch'
  BY <1>0, <1>1, <1>2, <1>4, <1>14 DEF Scratch
<1>16. NoCycleNoScratch'
  BY <1>0 DEF NoCycleNoScratch, Acyclic
<1>. QED  BY <1>6, <1>7, <1>8, <1>9, <1>11, <1>13, <1>15, <1>16

(* The stack after the loop of the innermost activation has moved on.       *)
LEMMA SteppedFacts ==
  ASSUME TypeOK, stack # <<>>, Top.ai \in Moves, stack' = Advanced
  PROVE  /\ stack' # <<>> /\ Positions' = Positions
         /\ \A k \in Positions :
              /\ stack'[k].pi = stack[k].pi
              /\ stack'[k].a = stack[k].a
              /\ stack'[k].ai = stack[k].ai \/ (k = Len(stack) /\ stack'[k].ai = Top.ai + 1)
         /\ Len(stack) \in Positions /\ 1 \in Positions /\ Top = stack[Len(stack)]
         /\ \A k \in Positions : ~(k = Len(stack) + 1) /\ k <= Len(stack)
<1>1. stack \in Seq(Frames)
  BY DEF TypeOK
<1>2. Len(Advanced) = Len(stack) /\ Len(stack) >= 1 /\ Len(stack) \in Nat
  BY <1>1, AdvancedFacts, PopFacts
<1>3. stack' # <<>> /\ Positions' = Positions
  BY <1>2 DEF Positions
<1>4. Len(stack) \in Positions /\ 1 \in Positions /\ Top = stack[Len(stack)]
  BY <1>1, <1>2, PopFacts DEF Positions
<1>. QED  BY <1>1, <1>2, <1>3, <1>4, AdvancedFacts DEF Positions

(* The loop of move_one() passes an argument.                               *)
LEMMA PassStep == Inv /\ TypeOK' /\ Pass => Inv'
<1>. SUFFICES ASSUME Inv, TypeOK', Pass PROVE Inv'
  OBVIOUS
<1>. USE DEF Inv, StackInv, DataInv, MixedInv
<1>1. UNCHANGED <<param, source, args, status, outer, regs>>
  BY DEF Pass
<1>2. stack # <<>> /\ Top.ai \in Moves /\ stack' = Advanced
      /\ (~Clashes \/ status[Top.ai] = "MOVED")
  BY DEF Pass
<1>3. /\ stack' # <<>> /\ Positions' = Positions
      /\ \A k \in Positions :
              /\ stack'[k].pi = stack[k].pi
              /\ stack'[k].a = stack[k].a
              /\ stack'[k].ai = stack[k].ai \/ (k = Len(stack) /\ stack'[k].ai = Top.ai + 1)
      /\ 1 \in Positions /\ Top = stack[Len(stack)]
  BY <1>2, SteppedFacts
<1>4. Waiting' /\ OneActivation' /\ Chained' /\ RankFalls'
  BY <1>1, <1>3 DEF Waiting, OneActivation, Chained, RankFalls, IsRank
<1>5. Arguments' /\ Untouched' /\ Visited' /\ ReadFirst' /\ Emitted'
  BY <1>1 DEF Arguments, Untouched, Visited, ReadFirst, Emitted, Correct
<1>6. Scratch' /\ NoCycleNoScratch'
  BY <1>1, <1>2, <1>3 DEF Scratch, NoCycleNoScratch, Acyclic
<1>7. ASSUME NEW k \in Positions, NEW j \in Moves,
             j < stack'[k].ai, args[j] = param[stack[k].pi]
      PROVE  status[j] = "MOVED" \/ \E l \in Positions : l = k + 1 /\ j = stack[l].pi
  <2>1. CASE j < stack[k].ai
    BY <1>7, <2>1 DEF Passed
  <2>2. CASE ~(j < stack[k].ai)
    <3>1. k = Len(stack) /\ stack'[k].ai = Top.ai + 1
      BY <1>3, <1>7, <2>2
    <3>2. j = Top.ai
      BY <1>2, <1>3, <1>7, <2>2, <3>1 DEF Moves
    <3>. QED  BY <1>2, <1>3, <1>7, <3>1, <3>2 DEF Clashes
  <2>. QED  BY <2>1, <2>2
<1>8. Passed'
  BY <1>1, <1>3, <1>7 DEF Passed
<1>. QED  BY <1>4, <1>5, <1>6, <1>8

(* An activation that finds a clash with move j.                            *)
LEMMA ClashFacts ==
  ASSUME Inv, stack # <<>>, Clashes
  PROVE  /\ Top.pi \in Moves /\ Top.ai \in Moves /\ Top.ai # Top.pi
         /\ status[Top.pi] = "BEING_MOVED"
         /\ source[Top.ai] = param[Top.pi] /\ args[Top.ai] = source[Top.ai]
         /\ args[Top.ai] \in Regs
<1>. USE DEF Inv, StackInv, DataInv, MixedInv
<1>1. Len(stack) \in Positions /\ Top = stack[Len(stack)] /\ Top \in Frames
  BY PopFacts DEF TypeOK, Positions
<1>2. PICK t \in Frames : t = Top
  BY <1>1
<1>3. t.pi \in Moves
  BY DEF Frames
<1>4. t.ai \in Moves /\ args[t.ai] = param[t.pi]
  BY <1>2 DEF Clashes
<1>5. param[t.pi] \in Regs
  BY <1>3 DEF TypeOK
<1>6. args[t.ai] = source[t.ai]
  BY <1>4, <1>5, ScratchAssumption DEF Arguments
<1>7. status[t.pi] = "BEING_MOVED" /\ source[t.pi] # param[t.pi]
  BY <1>1, <1>2 DEF Waiting
<1>. QED  BY <1>2, <1>3, <1>4, <1>5, <1>6, <1>7

(* The stack after a further activation for move j = Top.ai.                *)
LEMMA CalledFacts ==
  ASSUME TypeOK, stack # <<>>, Clashes,
         stack' = Append(Advanced, Activation(Top.ai))
  PROVE  /\ stack' # <<>> /\ Len(stack') = Len(stack) + 1
         /\ Positions' = Positions \cup {Len(stack) + 1}
         /\ \A k \in Positions :
              /\ stack'[k].pi = stack[k].pi
              /\ stack'[k].a = stack[k].a
              /\ stack'[k].ai = stack[k].ai \/ (k = Len(stack) /\ stack'[k].ai = Top.ai + 1)
         /\ stack'[Len(stack) + 1].pi = Top.ai
         /\ stack'[Len(stack) + 1].a = args[Top.ai]
         /\ stack'[Len(stack) + 1].ai = 1
<1>1. stack \in Seq(Frames) /\ Top.ai \in Moves
  BY DEF TypeOK, Clashes
<1>2. PICK f \in Frames : f = Activation(Top.ai)
  BY <1>1, CountAssumption DEF Activation, Frames, Moves, TypeOK
<1>3. f.pi = Top.ai /\ f.a = args[Top.ai] /\ f.ai = 1
  BY <1>2 DEF Activation
<1>4. PICK s \in Seq(Frames) : s = Advanced
  BY <1>1, AdvancedFacts
<1>5. Len(s) = Len(stack) /\ Len(stack) >= 1 /\ Len(stack) \in Nat
  BY <1>1, <1>4, AdvancedFacts, PopFacts
<1>6. /\ stack' = Append(s, f) /\ Len(Append(s, f)) = Len(s) + 1
      /\ \A k \in 1 .. Len(s) : Append(s, f)[k] = s[k]
      /\ Append(s, f)[Len(s) + 1] = f
  BY <1>2, <1>4, PushedFacts
<1>7. /\ Len(stack') = Len(stack) + 1
      /\ \A k \in Positions : stack'[k] = s[k]
      /\ stack'[Len(stack) + 1] = f
  BY <1>5, <1>6 DEF Positions
<1>8. \A k \in Positions :
              /\ s[k].pi = stack[k].pi
              /\ s[k].a = stack[k].a
              /\ s[k].ai = stack[k].ai \/ (k = Len(stack) /\ s[k].ai = Top.ai + 1)
  BY <1>1, <1>4, AdvancedFacts DEF Positions
<1>9. stack' # <<>>
  BY <1>5, <1>7
<1>10. Positions' = Positions \cup {Len(stack) + 1}
  BY <1>5, <1>7 DEF Positions
<1>. QED  BY <1>3, <1>7, <1>8, <1>9, <1>10

(* move_one() calls itself for a move that has not begun.                   *)
LEMMA RecurseStep == Inv /\ TypeOK' /\ Recurse => Inv'
<1>. SUFFICES ASSUME Inv, TypeOK', Recurse PROVE Inv'
  OBVIOUS
<1>. USE DEF Inv, StackInv, DataInv, MixedInv
<1>1. UNCHANGED <<param, source, args, outer, regs>>
  BY DEF Recurse
<1>. DEFINE j == Top.ai
            p == Top.pi
            n == Len(stack)
<1>2. /\ stack # <<>> /\ Clashes /\ status[j] = "TO_MOVE"
      /\ status' = [status EXCEPT ![j] = "BEING_MOVED"]
      /\ stack' = Append(Advanced, Activation(Top.ai))
  BY DEF Recurse
<1>3. /\ p \in Moves /\ j \in Moves /\ j # p
      /\ source[j] = param[p] /\ args[j] = source[j] /\ args[j] \in Regs
  BY <1>2, ClashFacts
<1>4. /\ stack' # <<>> /\ Len(stack') = n + 1
      /\ Positions' = Positions \cup {n + 1}
      /\ \A k \in Positions :
           /\ stack'[k].pi = stack[k].pi
           /\ stack'[k].a = stack[k].a
           /\ stack'[k].ai = stack[k].ai \/ (k = n /\ stack'[k].ai = j + 1)
      /\ stack'[n + 1].pi = j /\ stack'[n + 1].a = args[j] /\ stack'[n + 1].ai = 1
  BY <1>2, CalledFacts
<1>5. /\ n \in Nat /\ n >= 1 /\ n \in Positions /\ 1 \in Positions
      /\ \A k \in Positions : k \in Nat /\ k >= 1 /\ k <= n /\ stack[k].pi \in Moves
      /\ stack[n].pi = p /\ stack[n].ai = j
  <2>1. stack \in Seq(Frames)
    BY DEF TypeOK
  <2>2. \A k \in Positions : stack[k] \in Frames
    BY <2>1, ElementOfSeq DEF Positions
  <2>. QED  BY <1>2, <2>1, <2>2, PopFacts DEF Positions, Frames
<1>6. \A i \in Moves : status'[i] = IF i = j THEN "BEING_MOVED" ELSE status[i]
  BY <1>2, <1>3 DEF TypeOK
<1>7. \A i \in Moves : status'[i] = "MOVED" <=> status[i] = "MOVED"
  BY <1>2, <1>6
<1>8. \A k \in Positions : stack[k].pi # j
  BY <1>2 DEF Waiting
<1>9. source[j] # param[j]
  BY <1>3 DEF TypeOK, Injective
<1>. HIDE DEF j, p, n
<1>10. Waiting'
  <2>1. \A k \in Positions : status'[stack'[k].pi] = "BEING_MOVED"
    <3>1. SUFFICES ASSUME NEW k \in Positions PROVE status'[stack'[k].pi] = "BEING_MOVED"
      OBVIOUS
    <3>2. stack'[k].pi = stack[k].pi /\ stack[k].pi \in Moves /\ stack[k].pi # j
      BY <1>4, <1>5, <1>8
    <3>3. status[stack[k].pi] = "BEING_MOVED"
      BY DEF Waiting
    <3>. QED  BY <1>6, <3>2, <3>3
  <2>2. \A k \in Positions : stack'[k].a = source[stack'[k].pi]
                             /\ source[stack'[k].pi] # param[stack'[k].pi]
    BY <1>4 DEF Waiting
  <2>. QED  BY <1>1, <1>3, <1>4, <1>6, <1>9, <2>1, <2>2 DEF Waiting
<1>11. OneActivation'
  <2>1. \A k, l \in Positions' : stack'[k].pi = stack'[l].pi => k = l
    BY <1>4, <1>8 DEF OneActivation
  <2>2. \A i \in Moves : status'[i] = "BEING_MOVED" => \E k \in Positions' : stack'[k].pi = i
    BY <1>4, <1>6 DEF OneActivation
  <2>. QED  BY <2>1, <2>2 DEF OneActivation
<1>12. Chained'
  <2>1. ASSUME NEW k \in Positions', NEW l \in Positions', l = k + 1
        PROVE  source[stack'[l].pi] = param[stack'[k].pi]
    <3>1. k \in Positions
      BY <1>4, <1>5, <2>1
    <3>2. CASE l \in Positions
      BY <1>4, <2>1, <3>1, <3>2 DEF Chained
    <3>3. CASE l = n + 1
      BY <1>3, <1>4, <1>5, <2>1, <3>1, <3>3
    <3>. QED  BY <1>4, <3>2, <3>3
  <2>. QED  BY <1>1, <2>1 DEF Chained
<1>13. RankFalls'
  <2>1. ASSUME NEW rank \in [Moves -> Moves], IsRank(rank),
               NEW k \in Positions', NEW l \in Positions', k < l
        PROVE  rank[stack'[l].pi] < rank[stack'[k].pi]
    <3>1. CASE l \in Positions
      <4>1. k \in Positions
        BY <1>4, <1>5, <2>1, <3>1
      <4>. QED  BY <1>4, <2>1, <3>1, <4>1 DEF RankFalls
    <3>2. CASE l = n + 1
      <4>1. rank[j] < rank[p]
        BY <1>3, <2>1 DEF IsRank
      <4>2. k \in Positions
        BY <1>4, <1>5, <2>1, <3>2
      <4>3. k = n \/ rank[p] < rank[stack[k].pi]
        BY <1>5, <2>1, <4>2 DEF RankFalls
      <4>4. rank[j] \in Int /\ rank[p] \in Int /\ rank[stack[k].pi] \in Int
        BY <1>3, <1>5, <4>2 DEF Moves
      <4>5. rank[j] < rank[stack[k].pi]
        BY <1>5, <4>1, <4>3, <4>4
      <4>. QED  BY <1>4, <3>2, <4>2, <4>5
    <3>. QED  BY <1>4, <3>1, <3>2
  <2>2. \A rank : IsRank(rank)' => IsRank(rank)
    BY <1>1 DEF IsRank
  <2>. QED  BY <2>1, <2>2 DEF RankFalls
<1>14. Arguments' /\ Untouched' /\ ReadFirst' /\ Emitted'
  BY <1>1, <1>6, <1>7 DEF Arguments, Untouched, ReadFirst, Emitted, Correct
<1>15. Visited'
  BY <1>1, <1>6 DEF Visited
<1>16. Passed'
  <2>1. ASSUME NEW k \in Positions, NEW i \in Moves,
               i < stack'[k].ai, args[i] = param[stack[k].pi]
        PROVE  status[i] = "MOVED" \/ \E l \in Positions' : l = k + 1 /\ i = stack'[l].pi
    <3>1. CASE i < stack[k].ai
      BY <1>4, <2>1, <3>1 DEF Passed
    <3>2. CASE ~(i < stack[k].ai)
      <4>1. k = n /\ i = j
        BY <1>3, <1>4, <1>5, <2>1, <3>2 DEF Moves
      <4>. QED  BY <1>4, <4>1
    <3>. QED  BY <3>1, <3>2
  <2>2. \A i \in Moves : ~(i < 1)
    BY DEF Moves
  <2>3. \A k \in Positions' : \A i \in Moves :
          i < stack'[k].ai /\ args[i] = param[stack'[k].pi] =>
            status[i] = "MOVED" \/ \E l \in Positions' : l = k + 1 /\ i = stack'[l].pi
    BY <1>4, <2>1, <2>2
  <2>. QED  BY <1>1, <1>7, <2>3 DEF Passed
<1>17. Scratch'
  <2>1. args[j] # Tmp0
    BY <1>3, ScratchAssumption
  <2>2. ASSUME NEW i \in Moves, status'[i] = "BEING_MOVED", args[i] = Tmp0
        PROVE  stack'[1].pi = i /\ regs[Tmp0] = source[i]
    BY <1>4, <1>5, <1>6, <2>1, <2>2 DEF Scratch
  <2>. QED  BY <1>1, <1>4, <2>2 DEF Scratch
<1>18. NoCycleNoScratch'
  BY <1>1 DEF NoCycleNoScratch, Acyclic
<1>. QED  BY <1>10, <1>11, <1>12, <1>13, <1>14, <1>15, <1>16, <1>17, <1>18

(* A cycle is broken: it can only be closed by the outermost activation,    *)
(* because every other one reads the register its own caller writes.        *)
LEMMA BreakStep == Inv /\ TypeOK' /\ BreakCycle => Inv'
<1>. SUFFICES ASSUME Inv, TypeOK', BreakCycle PROVE Inv'
  OBVIOUS
<1>. USE DEF Inv, StackInv, DataInv, MixedInv
<1>. DEFINE j == Top.ai
            p == Top.pi
            n == Len(stack)
<1>1. /\ UNCHANGED <<param, source, status, outer>>
      /\ stack # <<>> /\ Clashes /\ status[j] = "BEING_MOVED"
      /\ regs' = [regs EXCEPT ![Tmp0] = regs[args[j]]]
      /\ args' = [args EXCEPT ![j] = Tmp0]
      /\ stack' = Advanced
  BY DEF BreakCycle
<1>2. /\ p \in Moves /\ j \in Moves /\ j # p
      /\ status[p] = "BEING_MOVED"
      /\ source[j] = param[p] /\ args[j] = source[j] /\ args[j] \in Regs
  BY <1>1, ClashFacts
<1>3. /\ stack' # <<>> /\ Positions' = Positions
      /\ \A k \in Positions :
              /\ stack'[k].pi = stack[k].pi
              /\ stack'[k].a = stack[k].a
              /\ stack'[k].ai = stack[k].ai \/ (k = n /\ stack'[k].ai = j + 1)
      /\ n \in Positions /\ 1 \in Positions /\ Top = stack[n]
      /\ \A k \in Positions : ~(k = n + 1) /\ k <= n
  BY <1>1, <1>2, SteppedFacts
<1>4. /\ \A i \in Moves : args'[i] = IF i = j THEN Tmp0 ELSE args[i]
      /\ \A r \in Regs : regs'[r] = regs[r]
      /\ regs'[Tmp0] = regs[args[j]]
  BY <1>1, <1>2, ScratchAssumption DEF TypeOK, Locations
<1>5. \A i \in Moves : param[i] \in Regs
  BY DEF TypeOK
<1>6. regs[args[j]] = source[j]
  BY <1>2 DEF Untouched, TypeOK, Injective
<1>7. stack[1].pi = j
  <2>1. PICK k \in Positions : stack[k].pi = j
    BY <1>1, <1>2 DEF OneActivation
  <2>2. CASE k = 1
    BY <2>1, <2>2
  <2>3. CASE k # 1
    <3>1. k - 1 \in Positions /\ k = (k - 1) + 1
      BY <2>3 DEF Positions
    <3>2. param[stack[k - 1].pi] = param[p]
      BY <1>2, <2>1, <3>1 DEF Chained
    <3>3. stack[k - 1].pi \in Moves
      <4>1. stack[k - 1] \in Frames
        BY <3>1, ElementOfSeq DEF TypeOK, Positions
      <4>. QED  BY <4>1 DEF Frames
    <3>4. stack[k - 1].pi = p
      BY <1>2, <3>2, <3>3 DEF TypeOK, Injective
    <3>5. k - 1 = n
      BY <1>3, <3>1, <3>4 DEF OneActivation
    <3>. QED  BY <1>3, <3>5 DEF Positions
  <2>. QED  BY <2>2, <2>3
<1>8. ~Acyclic
  <2>1. ASSUME Acyclic PROVE FALSE
    <3>1. PICK rank \in [Moves -> Moves] : IsRank(rank)
      BY <2>1 DEF Acyclic, IsRank
    <3>2. rank[j] < rank[p] /\ rank[j] \in Int /\ rank[p] \in Int
      BY <1>2, <3>1 DEF IsRank, Moves
    <3>3. 1 # n
      BY <1>2, <1>3, <1>7
    <3>4. 1 < n
      <4>1. n \in Nat /\ n >= 1
        BY <1>1, PopFacts DEF TypeOK
        <4>. HIDE DEF n
        <4>. QED  BY <3>3, <4>1
    <3>5. rank[stack[n].pi] < rank[stack[1].pi]
      BY <1>3, <3>1, <3>4 DEF RankFalls
    <3>6. stack[n].pi = p
      BY <1>3
    <3>. HIDE DEF p, j, n
    <3>. QED  BY <1>7, <3>2, <3>5, <3>6
  <2>. QED  BY <2>1
<1>. HIDE DEF j, p, n
<1>9. Waiting' /\ OneActivation' /\ Chained' /\ RankFalls'
  BY <1>1, <1>3 DEF Waiting, OneActivation, Chained, RankFalls, IsRank
<1>10. Arguments'
  BY <1>1, <1>4 DEF Arguments
<1>11. Untouched'
  BY <1>1, <1>4 DEF Untouched
<1>12. Visited'
  BY <1>1, <1>4 DEF Visited
<1>13. ReadFirst'
  BY <1>1, <1>4, <1>5, ScratchAssumption DEF ReadFirst
<1>14. Emitted'
  BY <1>1, <1>4, <1>5, ScratchAssumption DEF Emitted, Correct
<1>15. Scratch'
  <2>1. \A i \in Moves : status[i] = "BEING_MOVED" /\ args'[i] = Tmp0 => i = j
    BY <1>2, <1>4, <1>7 DEF Scratch
  <2>. QED  BY <1>1, <1>3, <1>4, <1>6, <1>7, <2>1 DEF Scratch
<1>16. NoCycleNoScratch'
  BY <1>1, <1>8 DEF NoCycleNoScratch, Acyclic
<1>17. ASSUME NEW k \in Positions, NEW i \in Moves,
              i < stack'[k].ai, args'[i] = param[stack[k].pi]
       PROVE  status[i] = "MOVED" \/ \E l \in Positions : l = k + 1 /\ i = stack[l].pi
  <2>1. stack[k].pi \in Moves /\ stack[k].ai \in Int
    <3>1. stack[k] \in Frames
      BY ElementOfSeq DEF TypeOK, Positions
    <3>. QED  BY <3>1 DEF Frames
  <2>2. i # j /\ args[i] = param[stack[k].pi]
    BY <1>4, <1>5, <1>17, <2>1, ScratchAssumption
  <2>3. i < stack[k].ai
    <3>1. k = n => stack[k].ai = j
      BY <1>3 DEF j
    <3>. QED  BY <1>2, <1>3, <1>17, <2>1, <2>2, <3>1 DEF Moves
  <2>. QED  BY <2>2, <2>3 DEF Passed
<1>18. Passed'
  BY <1>1, <1>3, <1>17 DEF Passed
<1>. QED  BY <1>9, <1>10, <1>11, <1>12, <1>13, <1>14, <1>15, <1>16, <1>18

(* When the loop is over, all other readers of the register are done.       *)
LEMMA ReadersDone ==
  ASSUME Inv, Emit
  PROVE  \A j \in Moves \ {Top.pi} : args[j] = param[Top.pi] => status[j] = "MOVED"
<1>. USE DEF Inv, StackInv, DataInv, MixedInv
<1>1. stack # <<>> /\ Top.ai = N + 1
  BY DEF Emit
<1>2. Len(stack) \in Positions /\ Top = stack[Len(stack)]
      /\ \A k \in Positions : k # Len(stack) + 1
  BY <1>1, PopFacts DEF TypeOK, Positions
<1>3. \A j \in Moves : j < N + 1
  BY CountAssumption DEF Moves
<1>. QED  BY <1>1, <1>2, <1>3 DEF Passed

(* The move is emitted and the activation returns.                          *)
LEMMA EmitStep == Inv /\ TypeOK' /\ Emit => Inv'
<1>. SUFFICES ASSUME Inv, TypeOK', Emit PROVE Inv'
  OBVIOUS
<1>. USE DEF Inv, StackInv, DataInv, MixedInv
<1>. DEFINE p == Top.pi
            n == Len(stack)
<1>1. /\ UNCHANGED <<param, source, args, outer>> /\ stack # <<>>
      /\ regs' = [regs EXCEPT ![param[p]] = regs[Top.a]]
      /\ status' = [status EXCEPT ![p] = "MOVED"]
      /\ stack' = Rest
  BY DEF Emit
<1>2. /\ n \in Nat /\ n >= 1 /\ n \in Positions /\ 1 \in Positions /\ Top = stack[n]
      /\ Positions' = Positions \ {n}
      /\ \A k \in Positions' : stack'[k] = stack[k]
      /\ \A k \in Positions : k \in Nat /\ k >= 1 /\ k <= n /\ stack[k].pi \in Moves
  <2>1. stack \in Seq(Frames)
    BY DEF TypeOK
  <2>2. \A k \in Positions : stack[k] \in Frames
    BY <2>1, ElementOfSeq DEF Positions
  <2>. QED  BY <1>1, <2>1, <2>2, PopFacts DEF Positions, Frames
<1>3. p \in Moves /\ status[p] = "BEING_MOVED" /\ Top.a = source[p] /\ p = stack[n].pi
  BY <1>2 DEF Waiting
<1>4. \A j \in Moves : j # p /\ args[j] = param[p] => status[j] = "MOVED"
  BY ReadersDone
<1>5. \A i \in Moves : status'[i] = IF i = p THEN "MOVED" ELSE status[i]
  BY <1>1, <1>3 DEF TypeOK
<1>6. \A i \in Moves : param[i] \in Regs /\ source[i] \in Regs
  BY DEF TypeOK
<1>7. /\ regs'[param[p]] = regs[source[p]] /\ regs'[Tmp0] = regs[Tmp0]
      /\ \A r \in Regs : r # param[p] => regs'[r] = regs[r]
  BY <1>1, <1>3, <1>6, ScratchAssumption DEF TypeOK, Locations
<1>8. \A i \in Moves : param[i] = param[p] => i = p
  BY <1>3 DEF TypeOK, Injective
<1>9. \A k \in Positions' : stack[k].pi # p
  BY <1>2, <1>3 DEF OneActivation
<1>. HIDE DEF p, n
<1>10. Waiting'
  BY <1>1, <1>2, <1>5, <1>9 DEF Waiting
<1>11. OneActivation'
  <2>1. ASSUME NEW i \in Moves, status'[i] = "BEING_MOVED"
        PROVE  \E k \in Positions' : stack'[k].pi = i
    <3>1. i # p /\ status[i] = "BEING_MOVED"
      BY <1>5, <2>1
    <3>2. PICK k \in Positions : stack[k].pi = i
      BY <3>1 DEF OneActivation
    <3>. QED  BY <1>2, <1>3, <3>1, <3>2
  <2>2. \A k, l \in Positions' : stack'[k].pi = stack'[l].pi => k = l
    BY <1>2 DEF OneActivation
  <2>. QED  BY <2>1, <2>2 DEF OneActivation
<1>12. Chained' /\ RankFalls'
  BY <1>1, <1>2 DEF Chained, RankFalls, IsRank
<1>13. Arguments'
  BY <1>1, <1>5 DEF Arguments
<1>14. Untouched'
  BY <1>1, <1>3, <1>5, <1>7 DEF Untouched
<1>15. Visited'
  BY <1>1, <1>5 DEF Visited
<1>16. ReadFirst'
  BY <1>1, <1>4, <1>5 DEF ReadFirst
<1>17. Emitted'
  <2>1. args[p] # Tmp0 => regs[source[p]] = source[p]
    <3>1. ASSUME args[p] # Tmp0, regs[source[p]] # source[p] PROVE FALSE
      <4>1. PICK i \in Moves : param[i] = source[p] /\ status[i] = "MOVED"
        BY <1>3, <1>6, <3>1 DEF Untouched
      <4>2. args[p] = source[p]
        BY <1>3, <3>1 DEF Arguments
      <4>. QED  BY <1>3, <4>1, <4>2 DEF ReadFirst
    <3>. QED  BY <3>1
  <2>2. \A i \in Moves : i # p => regs'[param[i]] = regs[param[i]]
    BY <1>6, <1>7, <1>8
  <2>. QED  BY <1>1, <1>5, <1>7, <2>1, <2>2 DEF Emitted, Correct
<1>18. Passed'
  <2>1. ASSUME NEW k \in Positions', NEW j \in Moves,
               j < stack'[k].ai, args[j] = param[stack'[k].pi]
        PROVE  status'[j] = "MOVED" \/ \E l \in Positions' : l = k + 1 /\ j = stack'[l].pi
    <3>1. status[j] = "MOVED" \/ \E l \in Positions : l = k + 1 /\ j = stack[l].pi
      BY <1>2, <2>1 DEF Passed
    <3>2. CASE status[j] = "MOVED"
      BY <1>5, <3>2
    <3>3. ASSUME NEW l \in Positions, l = k + 1, j = stack[l].pi
          PROVE  status'[j] = "MOVED" \/ \E m \in Positions' : m = k + 1 /\ j = stack'[m].pi
      BY <1>2, <1>3, <1>5, <3>3
    <3>. QED  BY <3>1, <3>2, <3>3
  <2>. QED  BY <1>1, <2>1 DEF Passed
<1>19. Scratch'
  <2>1. ASSUME NEW i \in Moves, status'[i] = "BEING_MOVED", args[i] = Tmp0
        PROVE  stack' # <<>> /\ stack'[1].pi = i /\ regs[Tmp0] = source[i]
    <3>1. i # p /\ stack[1].pi = i /\ regs[Tmp0] = source[i]
      BY <1>5, <2>1 DEF Scratch
    <3>2. 1 \in Positions'
      BY <1>2, <1>3, <3>1
    <3>3. stack' # <<>>
      BY <3>2 DEF Positions
    <3>. QED  BY <1>2, <3>1, <3>2, <3>3
  <2>. QED  BY <1>1, <1>7, <2>1 DEF Scratch
<1>20. NoCycleNoScratch'
  BY <1>1 DEF NoCycleNoScratch, Acyclic
<1>. QED  BY <1>10, <1>11, <1>12, <1>13, <1>14, <1>15, <1>16, <1>17, <1>18, <1>19, <1>20

(* Every variable keeps its type, for any number of moves: in particular no *)
(* loop of move_one() runs past the argument vector.                        *)
THEOREM TypeCorrect == Spec => []TypeOK
BY TypeInit, TypeStep, PTL DEF Spec

LEMMA InvStep == Inv /\ [Next]_vars => Inv'
<1>. SUFFICES ASSUME Inv, [Next]_vars PROVE Inv'
  OBVIOUS
<1>1. TypeOK'
  BY TypeStep DEF Inv
<1>2. CASE UNCHANGED vars
  <2>1. StackInv'
    BY <1>2 DEF vars, Inv, StackInv, Waiting, OneActivation, Chained, RankFalls,
                Positions, IsRank
  <2>2. DataInv'
    BY <1>2 DEF vars, Inv, DataInv, Arguments, Untouched, Visited, ReadFirst, Emitted,
                Correct
  <2>3. MixedInv'
    BY <1>2 DEF vars, Inv, MixedInv, Passed, Scratch, NoCycleNoScratch, Positions, Acyclic
  <2>. QED  BY <1>1, <2>1, <2>2, <2>3 DEF Inv
<1>. QED  BY <1>1, <1>2, SkipStep, StartStep, PassStep, RecurseStep, BreakStep, EmitStep
          DEF Next

LEMMA Invariance == Spec => []Inv
BY InvInit, InvStep, PTL DEF Spec

(* A parameter whose move was not needed or was emitted unredirected holds  *)
(* the initial value of its argument.                                       *)
LEMMA FinishedIsRight == Inv => UnbrokenCorrect
<1>. SUFFICES ASSUME Inv, Finished, NEW i \in Moves, args[i] # Tmp0 PROVE Correct(i)
  BY DEF UnbrokenCorrect
<1>. USE DEF Inv, StackInv, DataInv, MixedInv
<1>1. stack = <<>> /\ outer = N + 1
  BY DEF Finished
<1>2. status[i] # "BEING_MOVED"
  BY <1>1 DEF OneActivation, Positions
<1>3. i < outer
  BY <1>1, CountAssumption DEF Moves
<1>4. CASE status[i] = "MOVED"
  BY <1>4 DEF Emitted
<1>5. CASE status[i] = "TO_MOVE"
  <2>1. param[i] = source[i] /\ param[i] \in Regs
    BY <1>3, <1>5 DEF Visited, Arguments, TypeOK
  <2>2. \A j \in Moves : param[j] = param[i] => j = i
    BY DEF TypeOK, Injective
  <2>3. regs[param[i]] = param[i]
    BY <1>5, <2>1, <2>2 DEF Untouched
  <2>. QED  BY <2>1, <2>3 DEF Correct
<1>. QED  BY <1>2, <1>4, <1>5 DEF TypeOK, Status

(* For any number of moves and any cycles among them, every parameter whose *)
(* argument was not redirected to the scratch register ends up right.       *)
THEOREM UnbrokenAreCorrect == Spec => []UnbrokenCorrect
BY Invariance, FinishedIsRight, PTL

(* Without cycles the sequence move_one() emits has the effect of doing all *)
(* moves at once.                                                           *)
THEOREM AcyclicAreCorrect == Spec => []AcyclicMovesCorrect
<1>1. Inv => AcyclicMovesCorrect
  BY FinishedIsRight
     DEF AcyclicMovesCorrect, UnbrokenCorrect, Inv, MixedInv, NoCycleNoScratch
<1>. QED  BY <1>1, Invariance, PTL

(* What an emitted move overwrites is read by no move that has not begun    *)
(* and by no activation below it, but for a redirected one.                 *)
LEMMA EmitSpares ==
  ASSUME Inv, Emit
  PROVE  /\ \A j \in Moves : status[j] = "TO_MOVE" => args[j] # param[Top.pi]
         /\ \A k \in 1 .. Len(stack) - 1 :
              args[stack[k].pi] # Tmp0 => stack[k].a # param[Top.pi]
<1>. USE DEF Inv, StackInv, DataInv, MixedInv
<1>1. stack \in Seq(Frames) /\ stack # <<>>
  BY DEF Emit, TypeOK
<1>2. Len(stack) \in Positions /\ Top = stack[Len(stack)]
  BY <1>1, PopFacts DEF Positions
<1>3. status[Top.pi] = "BEING_MOVED"
  BY <1>2 DEF Waiting
<1>4. \A j \in Moves : j # Top.pi /\ args[j] = param[Top.pi] => status[j] = "MOVED"
  BY ReadersDone
<1>5. ASSUME NEW k \in 1 .. Len(stack) - 1, args[stack[k].pi] # Tmp0
      PROVE  stack[k].a # param[Top.pi]
  <2>1. k \in Positions /\ k # Len(stack)
    BY <1>1, PopFacts DEF Positions
  <2>2. stack[k].pi \in Moves
    <3>1. stack[k] \in Frames
      BY <1>1, <2>1, ElementOfSeq DEF Positions
    <3>. QED  BY <3>1 DEF Frames
  <2>3. stack[k].pi # Top.pi
    BY <1>2, <2>1 DEF OneActivation
  <2>4. status[stack[k].pi] = "BEING_MOVED" /\ stack[k].a = source[stack[k].pi]
    BY <2>1 DEF Waiting
  <2>5. args[stack[k].pi] = source[stack[k].pi]
    BY <1>5, <2>2 DEF Arguments
  <2>. QED  BY <1>4, <2>2, <2>3, <2>4, <2>5
<1>. QED  BY <1>3, <1>4, <1>5

(* No emitted move overwrites a register that a move not begun reads, or    *)
(* that an activation on the stack whose argument was not redirected reads. *)
THEOREM ReadBeforeWritten == Spec => NothingClobbered
<1>1. Inv /\ [Next]_vars =>
        [Emit =>
           /\ \A j \in Moves : status[j] = "TO_MOVE" => args[j] # param[Top.pi]
           /\ \A k \in 1 .. Len(stack) - 1 :
                args[stack[k].pi] # Tmp0 => stack[k].a # param[Top.pi]]_vars
  BY EmitSpares
<1>. QED  BY <1>1, Invariance, PTL DEF Spec, NothingClobbered

(* The scratch register is never reused before the value in it is needed:   *)
(* one activation of output_moves() can have several cycles, but no two are *)
(* open at the same time.                                                   *)
THEOREM ScratchIsKept == Spec => ScratchHoldsLostValue
<1>1. ASSUME Inv, Emit, args[Top.pi] = Tmp0 PROVE regs[Tmp0] = source[Top.pi]
  <2>1. PICK t \in Frames : t = Top
    BY <1>1, PopFacts DEF Emit, Inv, TypeOK
  <2>2. Len(stack) \in Positions
    BY <1>1, PopFacts DEF Emit, Inv, TypeOK, Positions
  <2>3. t.pi \in Moves /\ status[t.pi] = "BEING_MOVED"
    BY <1>1, <2>1, <2>2 DEF Frames, Inv, StackInv, Waiting, Top
  <2>. QED  BY <1>1, <2>1, <2>3 DEF Inv, MixedInv, Scratch
<1>2. Inv /\ [Next]_vars =>
        [Emit /\ args[Top.pi] = Tmp0 => regs[Tmp0] = source[Top.pi]]_vars
  BY <1>1
<1>. QED  BY <1>2, Invariance, PTL DEF Spec, ScratchHoldsLostValue
=============================================================================
