-------------------------------- MODULE Flow --------------------------------
(* What a function with block parameters means: a block is entered with     *)
(* values for its parameters, its instructions compute further values, and  *)
(* it leaves along one edge, which hands the values of its arguments, all   *)
(* read at once, to the parameters of the next block. A value is named by   *)
(* the register it is in, and a block knows its own values only.            *)
EXTENDS Words, SequencesExt

VARIABLES
  fun,   \* any function: each block's [kind, s1, s2, cmp, insns, params, args1, args2]
  at,    \* the block control is at, 0 after a return
  ip,    \* the instruction that is next
  env,   \* the values the block has so far
  mem

vars == <<fun, at, ip, env, mem>>

Here == fun[at]

Init ==
  /\ at = 1 /\ ip = 1
  /\ env \in [ToSet(fun[1].params) -> Values]
  /\ mem \in [Values -> Cells]

\* the value of an operand
Of(o) == IF o[1] = "reg" THEN env[o[2]] ELSE o[2]

WidthOf(n) == IF n.vtype = "I9" THEN 9 ELSE 27

Result(n) ==
  CASE n.type \in {"MOVE", "COPY"} -> Of(n.in[1])
    [] n.type = "ADD"  -> Wrap(Of(n.in[1]) + Of(n.in[2]))
    [] n.type = "SUB"  -> Wrap(Of(n.in[1]) - Of(n.in[2]))
    [] n.type = "LT"   -> IF Of(n.in[1]) < Of(n.in[2]) THEN 1 ELSE 0
    [] n.type = "LOAD" -> Loaded(mem, Wrap(Of(n.in[1]) + n.v), WidthOf(n))

Execute ==
  /\ at # 0 /\ ip <= Len(Here.insns)
  /\ LET n == Here.insns[ip]
     IN  IF n.type = "STORE"
         THEN /\ mem' = Stored(mem, Wrap(Of(n.in[1]) + n.v), WidthOf(n), Of(n.in[2]))
              /\ env' = env
         ELSE /\ env' = [r \in DOMAIN env \cup {n.out[2]} |-> IF r = n.out[2] THEN Result(n) ELSE env[r]]
              /\ mem' = mem
  /\ ip' = ip + 1
  /\ at' = at

AtEnd == at # 0 /\ ip = Len(Here.insns) + 1

\* parameter k gets what argument k was
Goto(target, args) ==
  LET params == fun[target].params
  IN  /\ at' = target /\ ip' = 1
      /\ env' = [r \in ToSet(params) |->
                   env[args[CHOOSE k \in DOMAIN params : params[k] = r]]]
      /\ mem' = mem

Jump ==
  /\ AtEnd /\ Here.kind = "J"
  /\ Goto(Here.s2, Here.args2)

\* the comparison of block b holds
Holds(b) ==
  CASE b.kind = "BLT" -> env[b.cmp[1]] < env[b.cmp[2]]
    [] b.kind = "BLE" -> env[b.cmp[1]] <= env[b.cmp[2]]
    [] b.kind = "BNE" -> env[b.cmp[1]] # env[b.cmp[2]]
    [] b.kind = "BNZ" -> env[b.cmp[1]] # 0
    [] b.kind = "BEZ" -> env[b.cmp[1]] = 0

Branch ==
  /\ AtEnd /\ Here.kind \notin {"J", "RET"}
  /\ IF Holds(Here) THEN Goto(Here.s2, Here.args2) ELSE Goto(Here.s1, Here.args1)

Return ==
  /\ AtEnd /\ Here.kind = "RET"
  /\ at' = 0 /\ ip' = 1 /\ env' = <<>>
  /\ mem' = mem

Next == (Execute \/ Jump \/ Branch \/ Return) /\ UNCHANGED fun

Spec == Init /\ [][Next]_vars
=============================================================================
