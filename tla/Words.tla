------------------------------- MODULE Words --------------------------------
(* The words and the memory of the machine the code is printed for, scaled  *)
(* down: words are the integers around 0 of which Radius is the largest,    *)
(* which for Radius 1 is one trit, and any word is an address. Memory is    *)
(* read and written in widths of 9 and 27 trits; a cell that is read in     *)
(* another width than it was written in reads as 0.                         *)
EXTENDS Integers

CONSTANT Radius

ASSUME RadiusAssumption == Radius \in Nat \ {0}

Values  == -Radius .. Radius
Wrap(n) == ((n + Radius) % (2 * Radius + 1)) - Radius

Cells == [width : {9, 27}, value : Values]

Loaded(mem, addr, width) == IF mem[addr].width = width THEN mem[addr].value ELSE 0

Stored(mem, addr, width, value) ==
  [mem EXCEPT ![addr] = [width |-> width, value |-> value]]
=============================================================================
