------------------------------ MODULE HcMemPool ------------------------------
(***************************************************************************)
(* The memory pool of the USB host controller drivers (UsbHcMem.c): blocks *)
(* with a bit for every unit of 64 bytes.  An allocation takes the first   *)
(* run of free units of a block that is long enough, or the beginning of a *)
(* new block; a block other than the first goes when its last bit is       *)
(* cleared.  The first block is searched first; the order of the others is *)
(* left open.  The operators map a pool to those that a call may leave.    *)
(***************************************************************************)
EXTENDS Integers

CONSTANTS
  Blocks,    \* bound: the blocks that the system has memory for
  First,     \* Pool->Head
  Units      \* units of a block

ASSUME PoolAssumption == First \in Blocks /\ Units \in Nat \ {0}

Cells == Blocks \X (0 .. Units - 1)
NewPool == [held |-> {First}, marked |-> {}]

Run(b, u, n) == {b} \X (u .. u + n - 1)

(* Where n free units follow each other in the block b.                    *)
Fits(p, b, n) == {u \in 0 .. Units - n : Run(b, u, n) \cap p.marked = {}}

(* Mutant: the count of free units ends one too early.                     *)
FirstFitShort(p, b, n) ==
  {Run(b, u, n) : u \in {v \in Fits(p, b, n - 1) : \A w \in Fits(p, b, n - 1) : v <= w}}

(* UsbHcAllocMemFromBlock: the first of them, if there is one.             *)
FirstFit(p, b, n) ==
  {Run(b, u, n) : u \in {v \in Fits(p, b, n) : \A w \in Fits(p, b, n) : v <= w}}

Found(p, n) ==
  IF Fits(p, First, n) # {} THEN FirstFit(p, First, n)
  ELSE UNION {FirstFit(p, b, n) : b \in p.held}
Mark(p, c)  == [pool |-> [p EXCEPT !.marked = @ \cup c], mem |-> c]

(* UsbHcAllocateMem, where it succeeds: the units, and the pool it leaves. *)
(* It fails only if a new block is needed.                                 *)
Allocate(p, n) ==
  IF Found(p, n) # {} THEN {Mark(p, c) : c \in Found(p, n)}
  ELSE UNION {LET q == [p EXCEPT !.held = @ \cup {b}]
              IN {Mark(q, c) : c \in FirstFit(q, b, n)} : b \in Blocks \ p.held}
MayFail(p, n) == Found(p, n) = {}

(* Mutant: the block stays although it is empty.                           *)
FreeMemKeepsBlock(p, c) == [p EXCEPT !.marked = @ \ c]

(* UsbHcFreeMem.  The bits are toggled: to free what is free would mark it *)
(* (the code asserts that nobody does), which is not modelled.             *)
FreeMem(p, c) ==
  LET rest == p.marked \ c
      Emptied(b) == (\E x \in c : x[1] = b) /\ ~\E x \in rest : x[1] = b
  IN [held |-> {b \in p.held : b # First => ~Emptied(b)}, marked |-> rest]
=============================================================================
