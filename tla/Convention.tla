----------------------------- MODULE Convention -----------------------------
(* What the generated code promises at function level, whatever its frames  *)
(* look like in memory: a call gives the callee an activation of its own;   *)
(* the callee may overwrite the registers it declares, its spill slots and  *)
(* its locals; when it returns, every callee-saved register is what it was  *)
(* at the call, the slots and locals of the activations below it are        *)
(* untouched, and the caller's code goes on.                                *)
EXTENDS Integers, Sequences

CONSTANTS
  Fns,         \* the functions of the program
  CalleeSave,  \* how many callee-saved registers each of them uses
  CallSave,    \* how many spill slots each of them uses
  HasCalls,    \* whether it calls anything
  NS,          \* number of callee-saved registers
  Values,      \* what a register may hold
  Trytes,      \* what a cell of memory may hold
  Outside      \* whoever called the first function

VARIABLES
  fn,        \* the function whose code runs
  leaving,   \* its body is over
  s,         \* callee-saved registers
  t,         \* a register a call need not preserve
  acts       \* activations: [fn, entry, slots, locals], innermost last

vars == <<fn, leaving, s, t, acts>>

SRegs == 0 .. NS - 1
Top   == acts[Len(acts)]
Below == SubSeq(acts, 1, Len(acts) - 1)

Fresh(f) == [fn |-> f, entry |-> s, slots |-> <<>>, locals |-> <<>>]

Init ==
  /\ fn \in Fns
  /\ leaving = FALSE
  /\ s \in [SRegs -> Values]
  /\ t \in Values
  /\ acts = <<Fresh(fn)>>

Running == acts # <<>> /\ ~leaving

Call ==
  /\ Running /\ HasCalls[fn]
  /\ \E f \in Fns : fn' = f /\ acts' = Append(acts, Fresh(f))
  /\ UNCHANGED <<leaving, s, t>>

\* the body changes a register the function has declared
Compute ==
  /\ Running
  /\ \E i \in SRegs, v \in Values : i < CalleeSave[fn] /\ s' = [s EXCEPT ![i] = v]
  /\ UNCHANGED <<fn, leaving, t, acts>>

ComputeTemp ==
  /\ Running
  /\ t' \in Values
  /\ UNCHANGED <<fn, leaving, s, acts>>

Spill ==
  /\ Running
  /\ \E i \in 0 .. CallSave[fn] - 1 :
       acts' = Append(Below, [Top EXCEPT !.slots =
                 [j \in DOMAIN @ \cup {i} |-> IF j = i THEN t ELSE @[j]]])
  /\ UNCHANGED <<fn, leaving, s, t>>

Fill ==
  /\ Running
  /\ \E i \in DOMAIN Top.slots : t' = Top.slots[i]
  /\ UNCHANGED <<fn, leaving, s, acts>>

\* space for locals, with unspecified contents; t gets its address
Alloc ==
  /\ Running
  /\ Len(acts') = Len(acts)
  /\ LET new == acts'[Len(acts)].locals
     IN  /\ Len(new) > Len(Top.locals)
         /\ SubSeq(new, 1, Len(Top.locals)) = Top.locals
         /\ acts' = Append(Below, [Top EXCEPT !.locals = new])
  /\ t' \in Values
  /\ UNCHANGED <<fn, leaving, s>>

Dealloc ==
  /\ Running
  /\ \E n \in 0 .. Len(Top.locals) :
       acts' = Append(Below, [Top EXCEPT !.locals = SubSeq(@, 1, n)])
  /\ UNCHANGED <<fn, leaving, s, t>>

StoreLocal ==
  /\ Running
  /\ \E j \in DOMAIN Top.locals, c \in Trytes :
       acts' = Append(Below, [Top EXCEPT !.locals[j] = c])
  /\ UNCHANGED <<fn, leaving, s, t>>

\* the registers are given back as they were received
Leave ==
  /\ Running
  /\ leaving' = TRUE
  /\ s' = Top.entry
  /\ UNCHANGED <<fn, t, acts>>

\* the caller goes on
Back ==
  /\ leaving
  /\ leaving' = FALSE
  /\ acts' = Below
  /\ fn' = IF Below = <<>> THEN Outside ELSE Below[Len(Below)].fn
  /\ UNCHANGED <<s, t>>

Next ==
  \/ Call \/ Compute \/ ComputeTemp \/ Spill \/ Fill
  \/ Alloc \/ Dealloc \/ StoreLocal \/ Leave \/ Back

Spec == Init /\ [][Next]_vars
=============================================================================
