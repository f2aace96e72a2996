------------------------------ MODULE Engines ------------------------------
(***************************************************************************)
(* A program run by either engine of src/core.c: step(), which the         *)
(* debugger calls one instruction at a time, or run(), which the command   *)
(* line, the library and the IDE's runs use.  The two are written twice    *)
(* and are to behave alike; both are checked against Isa.                  *)
(***************************************************************************)
EXTENDS Syscalls

CONSTANT
  Workloads  \* what a run may be started with, as a sequence of records of
             \* sets: code sections, extensions enabled, register contents
             \* (r1 the entry point, the others what an earlier run left)

(* Code is loaded below the heap.  r0 is zero when a context is created    *)
(* and every run leaves it so.                                             *)
ASSUME WorkloadsAssumption ==
  \A k \in DOMAIN Workloads :
    /\ \A p \in Workloads[k].programs :
         /\ p \in Seq(Instruction) /\ Len(p) <= HEAP_ADDR
         /\ \A j \in DOMAIN p : CodeWord(p[j]) \in Word
    /\ \A rg \in Workloads[k].registers : rg \in [RegIds -> Word] /\ rg[ZERO] = 0

VARIABLES
  engine,  \* "step" or "run"
  prog, extensions, regs,
  pc,      \* run()'s local program counter; step() has none
  mem, status, output, exitCode,
  lawful   \* whether the program keeps the rules of the refinement (history)

vars == <<engine, prog, extensions, regs, pc, mem, status, output, exitCode, lawful>>

Step == INSTANCE StepEngine
Run == INSTANCE RunEngine

(* The program starts inside its code, names r1 nowhere, and its float     *)
(* branches stay within the code.                                          *)
KeepsRules ==
  /\ regs[PC] < Len(prog)
  /\ \A k \in DOMAIN prog :
       /\ PC \notin {prog[k].rd, prog[k].ra, prog[k].rb}
       /\ prog[k].op = "FB" => k - 1 + prog[k].imm \in 0 .. Len(prog)

Init ==
  /\ \/ engine = "step" /\ pc = 0 /\ Step!Init
     \/ engine = "run" /\ Run!Init
  /\ lawful = KeepsRules

Next ==
  \/ engine = "step" /\ Step!Next /\ UNCHANGED <<engine, pc, lawful>>
  \/ engine = "run" /\ Run!Next /\ UNCHANGED <<engine, lawful>>

Spec == Init /\ [][Next]_vars
-----------------------------------------------------------------------------
(* Every variable has its type.                                            *)
TypeOK ==
  /\ engine \in {"step", "run"}
  /\ regs \in [RegIds -> Word]
  /\ pc \in Word
  /\ mem.stack \in [0 .. StackWords - 1 -> Word]
  /\ mem.heap \in Seq(Word)
  /\ mem.used \in Word /\ mem.cap \in Word
  /\ mem.fds \subseteq 3 .. MAX_FDS - 1
  /\ status \in {"running", "stopped", "exited", "fatal", "wild"}
  /\ output \in Seq(Word)
  /\ exitCode \in Word
  /\ lawful \in BOOLEAN

(* r0 is "Hardwired zero. Writes are discarded; reads always return 0"     *)
(* (SPEC.md): in the code it is an ordinary array element that every kind  *)
(* of instruction can write, and is zero again before the next reads it.   *)
ZeroReadsZero == status = "running" => regs[ZERO] = 0

(* Either engine implements the instruction set: the registers the guest   *)
(* sees, its memory, what it prints, when it stops and its exit code are   *)
(* those of Isa, for programs that keep the rules.  run() having reached   *)
(* the sentinel counts as stopped; the r1 it shows is stale, so programs   *)
(* are not to name r1.                                                     *)
At == IF engine = "step" THEN regs[PC] ELSE pc
I == INSTANCE Isa WITH
       pc     <- IF At >= Len(prog) THEN Len(prog) ELSE At,
       gpr    <- [r \in RegIds \ {ZERO, PC} |-> regs[r]],
       status <- IF engine = "run" /\ status = "running" /\ pc >= Len(prog)
                 THEN "stopped" ELSE status
ImplementsIsa ==
  /\ lawful => I!Init
  /\ [][lawful => [I!Next]_(I!vars)]_vars

(* "a sentinel halt sits at decoded[fileLength] so falling off the end of  *)
(* code halts naturally" (src/core.c, run()): no instruction makes run()   *)
(* fetch beyond it.                                                        *)
SentinelStops == engine = "run" /\ status = "running" => pc <= Len(prog)

(* It holds but for one kind of instruction: whatever jumps, calls and     *)
(* branches lead there, the step that takes run() past the sentinel is an  *)
(* extension opcode, a branch or one that writes r1.                       *)
OnlyExtensionsOverrun ==
  [][engine = "run" /\ status' = "running" /\ pc' > Len(prog) =>
       /\ pc < Len(prog)
       /\ prog[pc + 1].op = "FB" \/ (prog[pc + 1].op \in {"MR", "MI", "FR", "FI"} /\ prog[pc + 1].rd = PC)]_vars

(* Words the guest was told it owns are really there, and there are as     *)
(* many as it was told: an allocation is never granted beyond the array.   *)
HeapBacked == status \notin {"fatal", "wild"} => mem.used <= Len(mem.heap)

(* "The heap grows monotonically" (SPEC.md, SYS_HEAP_GROW) but for one     *)
(* call: whatever instructions, stores and refused grows do, the words in  *)
(* use become fewer only in a SYS_HEAP_GROW whose sum does not fit a word. *)
HeapGrowsUnlessWrapped ==
  [][mem'.used < mem.used =>
       /\ status = "running" /\ At < Len(prog)
       /\ prog[At + 1].op = "SYS" /\ prog[At + 1].fn = "syscall"
       /\ regs[A13] = SYS_HEAP_GROW
       /\ mem.used + regs[A0] >= WordSize]_vars
=============================================================================
