----------------------------- MODULE EngineLoads -----------------------------
(***************************************************************************)
(* The small machine and the programs the two engines are checked on.      *)
(* Words have 8 bits: code at 0.., heap at 16.., stack 32..34.  The        *)
(* registers are whatever an earlier run of the context left in them.      *)
(***************************************************************************)
EXTENDS Integers, Sequences, TLC

LoadRegs == {0, 1, 2, 18, 19, 31}

Ins(op, fn, rd, ra, rb, imm) ==
  [op |-> op, fn |-> fn, rd |-> rd, ra |-> ra, rb |-> rb, imm |-> imm]

halt    == Ins("SYS", "halt", 0, 0, 0, 0)
syscall == Ins("SYS", "syscall", 0, 0, 0, 0)
mul     == Ins("MR", "mul", 18, 18, 19, 0)

SequencesOver(instructions, sizes) == UNION {[1 .. n -> instructions] : n \in sizes}

(* Every program of at most three of these instructions, none of which     *)
(* names r1.  A float branch stays within the code: its target is not      *)
(* clamped by run(), see FarFloatBranch.                                   *)
ControlInstructions ==
  {halt, mul,
   Ins("I", "add", 18, 18, 0, 1), Ins("I", "sub", 19, 18, 0, 1),
   Ins("R", "xor", 0, 18, 19, 0), Ins("I", "add", 2, 2, 0, 12),
   Ins("I", "jmp", 18, 19, 0, 0), Ins("I", "jmp", 0, 18, 0, 40), Ins("I", "jmp", 18, 0, 0, 2),
   Ins("B", "bne", 0, 18, 19, -1), Ins("B", "beq", 0, 18, 0, 3), Ins("B", "blt", 0, 19, 18, -4),
   Ins("S", "sw", 0, 2, 18, 0), Ins("L", "lw", 19, 2, 0, 0), Ins("L", "lw", 19, 18, 0, 0),
   Ins("FB", "fbgt", 0, 18, 19, -1)}

FloatBranchesStay(p) ==
  \A k \in DOMAIN p : p[k].op = "FB" => k - 1 + p[k].imm \in 0 .. Len(p)

ControlPrograms == {p \in SequencesOver(ControlInstructions, {1, 2, 3}) : FloatBranchesStay(p)}

(* Every function of every opcode alone, and for each opcode one function  *)
(* it does not have; extensions enabled or not.                            *)
Of(op, fns) == {op} \X fns
Arithmetic == {"add", "sub", "or", "and", "xor", "sll", "srl", "sra"}
Divisions == {"mul", "div", "divu", "rem", "remu"}
EveryFunction ==
  Of("R", Arithmetic \cup {"slt", "sltu", "seq", "jmp"}) \cup Of("I", Arithmetic \cup {"slt"})
    \cup Of("B", {"beq", "bne", "blt", "bltu", "ble", "bleu", "bgt", "bgtu", "bge", "bgeu", "add"})
    \cup Of("MR", Divisions \cup {"mulh", "mulhu", "add"}) \cup Of("MI", Divisions \cup {"mulh"})
    \cup Of("FR", {"fadd", "fneg"}) \cup Of("FI", {"fadd", "fneg", "mul"})
    \cup Of("S", {"add"}) \cup Of("L", {"add"}) \cup Of("SYS", {"add", "nop", "break"})
SinglePrograms == {<<Ins(f[1], f[2], 18, 18, 19, 255)>> : f \in EveryFunction}

(* System calls, alone and one after another, and the heap: allocations    *)
(* of what a0 holds, which may be so much that the sum wraps, stores and   *)
(* loads through the addresses returned.                                   *)
CallPrograms == {<<syscall>>, <<syscall, syscall>>,
                 <<syscall, Ins("I", "add", 31, 31, 0, 1), syscall>>}

HeapInstructions ==
  {syscall, Ins("I", "add", 18, 0, 0, 1), Ins("I", "add", 18, 18, 0, 1), Ins("I", "add", 18, 0, 0, -1),
   Ins("S", "sw", 0, 18, 31, 0), Ins("L", "lw", 18, 18, 0, 0)}
HeapPrograms == SequencesOver(HeapInstructions, {1, 2, 3, 4})

(* Programs that leave the rules the refinement is stated under: they name *)
(* r1, write r0 in every way there is, or branch past the end.             *)
FarFloatBranch == Ins("FB", "fbge", 0, 18, 18, 2)
StrayInstructions ==
  {Ins("I", "add", 18, 1, 0, 0), Ins("I", "add", 1, 18, 0, 1), Ins("I", "jmp", 1, 0, 0, 1),
   Ins("I", "jmp", 0, 1, 0, 0), Ins("MR", "mul", 1, 18, 19, 0), Ins("MI", "mul", 0, 18, 0, 3),
   Ins("L", "lw", 0, 0, 0, 0), Ins("S", "sw", 0, 2, 0, 0), Ins("R", "add", 19, 0, 18, 0),
   FarFloatBranch, syscall, halt}
-----------------------------------------------------------------------------
Registers(pcs, sps, a0s, a1s, a13s) ==
  {(0 :> 0) @@ (1 :> p) @@ (2 :> s) @@ (18 :> a) @@ (19 :> b) @@ (31 :> n) :
     p \in pcs, s \in sps, a \in a0s, b \in a1s, n \in a13s}

CallNumbers == {0, 1, 2, 3, 4, 5, 6, 11, 12, 13, 14, 15, 21, 22, 23, 24,
                31, 32, 33, 34, 41, 42, 51, 52}

Load(programs, exts, registers) ==
  [programs |-> programs, extensions |-> exts, registers |-> registers]
Every == {{"M", "F"}}

RuleLoads ==
  <<Load(ControlPrograms, Every, Registers({0}, {32}, {0, 2}, {1, 255}, {0})),
    Load(SinglePrograms, SUBSET {"M", "F"},
         Registers({0}, {32, 44}, {0, 3, 128, 200}, {0, 3, 255}, {0})),
    Load(CallPrograms, Every,
         Registers({0}, {32}, {0, 1, 3, 4, 16, 32, 34, 200, 255}, {0, 1, 3, 33}, CallNumbers)),
    Load(HeapPrograms, Every, Registers({0}, {32}, {0, 1, 2}, {0}, {51}))>>

StrayLoads ==
  <<Load(SequencesOver(StrayInstructions, {1, 2, 3}), Every,
         Registers({0, 1, 3}, {32}, {0, 3}, {5}, {0}))>>

AllLoads == RuleLoads \o StrayLoads

(* The shortest way past the sentinel.                                     *)
FloatLoad == <<Load({<<FarFloatBranch>>}, Every, Registers({0}, {32}, {0}, {0}, {0}))>>
-----------------------------------------------------------------------------
MCLines == {<<>>, <<5>>, <<3, 4>>}
MCCodeWord(i) == IF i.op = "SYS" THEN 38 ELSE 7
MCFloatResult(fn, a, b) == a
MCFloatTaken(fn, a, b) ==
  CASE fn = "fblt" -> a < b [] fn = "fble" -> a <= b
    [] fn = "fbgt" -> a > b [] fn = "fbge" -> a >= b
=============================================================================
