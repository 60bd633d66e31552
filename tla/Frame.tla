------------------------------- MODULE Frame -------------------------------
(* The stack frames of the generated code: save_state(), restore_state(),   *)
(* output_save(), output_restore(), output_alloc(), output_dealloc(),       *)
(* output_call() and output_ret() in src/asm.c, and the machine that runs   *)
(* what they print, one instruction a step.                                 *)
(*                                                                          *)
(* The body of a function is any sequence of the instructions regalloc()    *)
(* lets it have: writes to the s registers it has counted, saves and        *)
(* restores of the slots it has counted, calls if it has any, and           *)
(* allocations whose cells it stores to. Memory is an array of trytes; a    *)
(* word takes three, and a word that was partly overwritten reads as Junk.  *)
(* A return address is the function it lies in. Addresses count down from   *)
(* 0, the stack pointer of whoever called the first function.               *)
EXTENDS Integers, Sequences

CONSTANTS
  Fns,         \* the functions of the program
  CalleeSave,  \* f->max_callee_save
  CallSave,    \* f->max_call_save
  HasCalls,    \* f->has_calls
  NS,          \* number of s registers
  Data,        \* data values
  Pointer,     \* the value of a temporary that holds the address of a local
  Junk,        \* a word that is no value
  Outside,     \* whoever called the first function
  StackSize,   \* trytes of stack
  MaxLocals    \* bound on the trytes one function allocates

SRegs == 0 .. NS - 1

ASSUME FnsAssumption ==
  /\ NS \in Nat
  /\ CalleeSave \in [Fns -> 0 .. NS]
  /\ CallSave \in [Fns -> Nat]
  /\ HasCalls \in [Fns -> BOOLEAN]
ASSUME StackAssumption == StackSize \in Nat /\ MaxLocals \in Nat
ASSUME ValuesAssumption == Data # {} /\ Outside \notin Fns

Values == Data \cup {Pointer}
Addr   == -StackSize .. -1
Words  == Values \cup Fns \cup {Outside, Junk} \cup -StackSize .. 0
Trytes == Words \X (0 .. 2)

VARIABLES
  fn,         \* the function whose code runs, part of the program counter
  pc,         \* the instruction of its prologue or epilogue, or "body"
  i,          \* which register of a loop over the s registers is next
  sp, fp, ra, \* the registers of the calling convention
  s, t,       \* the s registers, and one temporary
  mem,
  calls       \* history: activations [fn, base, entry, saved, locals]

vars == <<fn, pc, i, sp, fp, ra, s, t, mem, calls>>

-----------------------------------------------------------------------------
(* Where things are in a frame, in trytes below fp.                         *)

\* mutant: the words of fp and ra are not counted
frame_size_NoLinks(f) == 3 * CalleeSave[f] + 3 * CallSave[f] + 3

frame_size(f) == 3 * CalleeSave[f] + 3 * CallSave[f] + 3 * 2

\* mutant: no room is left for ra
callee_save_fploc_NoRa(k) == 3 * k + 3 * 2

callee_save_fploc(k) == 3 * (k + 1) + 3 * 2

\* mutant: the slots for calls start one word early
call_save_fploc_Early(f, k) == 3 * CalleeSave[f] + 3 * k + 3 * 2

call_save_fploc(f, k) == 3 * (CalleeSave[f] + 1) + 3 * k + 3 * 2

ra_fploc == 6
fp_fploc == 3

Stored(a, w) == [x \in Addr |-> IF x \in a .. a + 2 THEN <<w, x - a>> ELSE mem[x]]

Holds(a, w) == \A k \in 0 .. 2 : a + k \in Addr /\ mem[a + k] = <<w, k>>

Loaded(a) == IF a \in Addr /\ Holds(a, mem[a][1]) THEN mem[a][1] ELSE Junk

-----------------------------------------------------------------------------
Top   == calls[Len(calls)]
Below == SubSeq(calls, 1, Len(calls) - 1)

Activation(f, b) == [fn |-> f, base |-> b, entry |-> s, saved |-> {}, locals |-> 0]

Init ==
  /\ fn \in Fns
  /\ frame_size(fn) <= StackSize
  /\ pc = "store_fp"
  /\ i = 0
  /\ sp = 0 /\ fp = 0 /\ ra = Outside
  /\ s \in [SRegs -> Data]
  /\ t \in Data
  /\ mem = [x \in Addr |-> <<Junk, 0>>]
  /\ calls = <<Activation(fn, 0)>>

(* save_state()                                                             *)

StoreFp ==
  /\ pc = "store_fp"
  /\ mem' = Stored(sp - fp_fploc, fp)
  /\ pc' = "set_fp"
  /\ UNCHANGED <<fn, i, sp, fp, ra, s, t, calls>>

SetFp ==
  /\ pc = "set_fp"
  /\ fp' = sp
  /\ pc' = IF HasCalls[fn] THEN "store_ra" ELSE "reserve"
  /\ UNCHANGED <<fn, i, sp, ra, s, t, mem, calls>>

StoreRa ==
  /\ pc = "store_ra"
  /\ mem' = Stored(fp - ra_fploc, ra)
  /\ pc' = "reserve"
  /\ UNCHANGED <<fn, i, sp, fp, ra, s, t, calls>>

Reserve ==
  /\ pc = "reserve"
  /\ sp' = sp - frame_size(fn)
  /\ i' = 0
  /\ pc' = "store_s"
  /\ UNCHANGED <<fn, fp, ra, s, t, mem, calls>>

StoreS ==
  /\ pc = "store_s" /\ i < CalleeSave[fn]
  /\ mem' = Stored(fp - callee_save_fploc(i), s[i])
  /\ i' = i + 1
  /\ UNCHANGED <<fn, pc, sp, fp, ra, s, t, calls>>

EndStores ==
  /\ pc = "store_s" /\ i >= CalleeSave[fn]
  /\ pc' = "body"
  /\ UNCHANGED <<fn, i, sp, fp, ra, s, t, mem, calls>>

(* the body                                                                 *)

Compute ==
  /\ pc = "body"
  /\ \E k \in SRegs, v \in Data : k < CalleeSave[fn] /\ s' = [s EXCEPT ![k] = v]
  /\ UNCHANGED <<fn, pc, i, sp, fp, ra, t, mem, calls>>

ComputeTemp ==
  /\ pc = "body"
  /\ t' \in Data
  /\ UNCHANGED <<fn, pc, i, sp, fp, ra, s, mem, calls>>

\* output_call(); bound: the callee's frame must fit into the stack
Call ==
  /\ pc = "body" /\ HasCalls[fn]
  /\ \E f \in Fns :
       /\ sp - frame_size(f) >= -StackSize
       /\ fn' = f
       /\ calls' = Append(calls, Activation(f, sp))
  /\ ra' = fn
  /\ pc' = "store_fp"
  /\ UNCHANGED <<i, sp, fp, s, t, mem>>

\* output_save()
Save ==
  /\ pc = "body"
  /\ \E k \in 0 .. CallSave[fn] - 1 :
       /\ mem' = Stored(fp - call_save_fploc(fn, k), t)
       /\ calls' = Append(Below, [Top EXCEPT !.saved = @ \cup {k}])
  /\ UNCHANGED <<fn, pc, i, sp, fp, ra, s, t>>

\* output_restore(), of what was saved
Restore ==
  /\ pc = "body"
  /\ \E k \in Top.saved : t' = Loaded(fp - call_save_fploc(fn, k))
  /\ UNCHANGED <<fn, pc, i, sp, fp, ra, s, mem, calls>>

\* output_alloc()
Alloc ==
  /\ pc = "body"
  /\ \E n \in 1 .. MaxLocals :
       /\ Top.locals + n <= MaxLocals
       /\ sp - n >= -StackSize
       /\ sp' = sp - n
       /\ calls' = Append(Below, [Top EXCEPT !.locals = @ + n])
  /\ t' = Pointer
  /\ UNCHANGED <<fn, pc, i, fp, ra, s, mem>>

\* output_dealloc(), of what was allocated
Dealloc ==
  /\ pc = "body"
  /\ \E n \in 1 .. Top.locals :
       /\ sp' = sp + n
       /\ calls' = Append(Below, [Top EXCEPT !.locals = @ - n])
  /\ UNCHANGED <<fn, pc, i, fp, ra, s, t, mem>>

\* a store of one tryte, through the address of the last allocation
StoreLocal ==
  /\ pc = "body"
  /\ \E n \in 0 .. Top.locals - 1, v \in Data : mem' = [mem EXCEPT ![sp + n] = <<v, 0>>]
  /\ UNCHANGED <<fn, pc, i, sp, fp, ra, s, t, calls>>

(* output_ret(), which prints restore_state()                               *)

Leave ==
  /\ pc = "body"
  /\ pc' = "load_s"
  /\ i' = 0
  /\ UNCHANGED <<fn, sp, fp, ra, s, t, mem, calls>>

\* mutant: one register too many
LoadS_TooFar ==
  /\ pc = "load_s" /\ i <= CalleeSave[fn]
  /\ s' = [s EXCEPT ![i] = Loaded(fp - callee_save_fploc(i))]
  /\ i' = i + 1
  /\ UNCHANGED <<fn, pc, sp, fp, ra, t, mem, calls>>

LoadS ==
  /\ pc = "load_s" /\ i < CalleeSave[fn]
  /\ s' = [s EXCEPT ![i] = Loaded(fp - callee_save_fploc(i))]
  /\ i' = i + 1
  /\ UNCHANGED <<fn, pc, sp, fp, ra, t, mem, calls>>

EndLoads ==
  /\ pc = "load_s" /\ i >= CalleeSave[fn]
  /\ pc' = IF HasCalls[fn] THEN "load_ra" ELSE "drop"
  /\ UNCHANGED <<fn, i, sp, fp, ra, s, t, mem, calls>>

LoadRa ==
  /\ pc = "load_ra"
  /\ ra' = Loaded(fp - ra_fploc)
  /\ pc' = "drop"
  /\ UNCHANGED <<fn, i, sp, fp, s, t, mem, calls>>

Drop ==
  /\ pc = "drop"
  /\ sp' = fp
  /\ pc' = "load_fp"
  /\ UNCHANGED <<fn, i, fp, ra, s, t, mem, calls>>

LoadFp ==
  /\ pc = "load_fp"
  /\ fp' = Loaded(fp - fp_fploc)
  /\ pc' = "ret"
  /\ UNCHANGED <<fn, i, sp, ra, s, t, mem, calls>>

Ret ==
  /\ pc = "ret"
  /\ fn' = ra
  /\ pc' = IF ra \in Fns THEN "body" ELSE "outside"
  /\ i' = 0
  /\ calls' = Below
  /\ UNCHANGED <<sp, fp, ra, s, t, mem>>

Next ==
  \/ StoreFp \/ SetFp \/ StoreRa \/ Reserve \/ StoreS \/ EndStores
  \/ Compute \/ ComputeTemp \/ Call \/ Save \/ Restore
  \/ Alloc \/ Dealloc \/ StoreLocal
  \/ Leave \/ LoadS \/ EndLoads \/ LoadRa \/ Drop \/ LoadFp \/ Ret

Spec == Init /\ [][Next]_vars

-----------------------------------------------------------------------------
(* What the frames must achieve.                                            *)

Prologue == {"store_fp", "set_fp", "store_ra", "reserve", "store_s"}
Epilogue == {"load_s", "load_ra", "drop", "load_fp", "ret"}

TypeOK ==
  /\ fn \in Fns \cup {Outside}
  /\ pc \in Prologue \cup {"body"} \cup Epilogue \cup {"outside"}
  /\ i \in 0 .. NS
  /\ sp \in -StackSize .. 0 /\ fp \in -StackSize .. 0
  /\ ra \in Fns \cup {Outside}
  /\ s \in [SRegs -> Values]
  /\ t \in Values
  /\ mem \in [Addr -> Trytes]
  /\ calls \in Seq([fn : Fns, base : -StackSize .. 0, entry : [SRegs -> Values],
                    saved : SUBSET Nat, locals : Nat])

\* fp and return address that activation k was called with
CallerFp(k) == IF k = 1 THEN 0 ELSE calls[k - 1].base
CallerFn(k) == IF k = 1 THEN Outside ELSE calls[k - 1].fn

(* In the body of a function at any depth, the saved frame pointers lead    *)
(* from fp through the frames of all its callers, and each frame that has a *)
(* return address holds the right one.                                      *)
FrameChain ==
  pc = "body" =>
    /\ fp = Top.base
    /\ \A k \in DOMAIN calls :
         /\ Loaded(calls[k].base - fp_fploc) = CallerFp(k)
         /\ HasCalls[calls[k].fn] => Loaded(calls[k].base - ra_fploc) = CallerFn(k)

(* When a function returns, the caller finds the stack pointer, the frame   *)
(* pointer and every s register as it left them, also those the function    *)
(* and the functions it called have used.                                   *)
GivenBack ==
  [][Ret => /\ sp = Top.base
            /\ fp = CallerFp(Len(calls))
            /\ s = Top.entry]_vars

Slots(a)  == [k \in a.saved |-> Loaded(a.base - call_save_fploc(a.fn, k))]
Locals(a) == [n \in 1 .. a.locals |-> mem[a.base - frame_size(a.fn) - n]]

Promised == INSTANCE Convention WITH
  leaving <- pc \in Epilogue,
  s       <- IF pc \in Epilogue THEN Top.entry ELSE s,
  acts    <- [k \in DOMAIN calls |->
                [fn |-> calls[k].fn, entry |-> calls[k].entry,
                 slots |-> Slots(calls[k]), locals |-> Locals(calls[k])]]

(* The instructions keep the promise of the calling convention: slots and   *)
(* locals of every activation, read from memory, change only by that        *)
(* activation's own instructions, calls and returns nest, and registers     *)
(* come back as they were handed over.                                      *)
KeepsConvention == Promised!Spec
=============================================================================
