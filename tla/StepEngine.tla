----------------------------- MODULE StepEngine -----------------------------
(***************************************************************************)
(* step() of src/core.c: the engine of the debugger, and of run() where    *)
(* the compiler has no computed goto.  The program counter is register 1,  *)
(* incremented by the fetch before the instruction executes; the checks on *)
(* sp, pc and r0 come after the switch, so an instruction sees whatever    *)
(* the one before it left.                                                 *)
(***************************************************************************)
EXTENDS Syscalls

CONSTANT
  Workloads  \* what a run may be started with, as a sequence of records of
             \* sets: code sections, extensions enabled, register contents
             \* (r1 the entry point, the others what an earlier run left)

VARIABLES prog, extensions, regs, mem, status, output, exitCode

vars == <<prog, extensions, regs, mem, status, output, exitCode>>

Init ==
  /\ \E k \in DOMAIN Workloads :
       /\ prog \in Workloads[k].programs
       /\ extensions \in Workloads[k].extensions
       /\ regs \in Workloads[k].registers
  /\ mem = InitialMemory
  /\ status = "running"
  /\ output = <<>>
  /\ exitCode = 0

(* Fetch: a pc outside the code reads outside the code arena.              *)
InCode == regs[PC] < Len(prog)
Instr == prog[regs[PC] + 1]
Fetched == [regs EXCEPT ![PC] = Wrap(@ + 1)]
Fetches(op) == status = "running" /\ InCode /\ Instr.op = op

(* The process is gone: its registers and memory are not looked at again.  *)
Dies(st) == status' = st /\ UNCHANGED <<prog, extensions, regs, mem, output, exitCode>>

ZeroCleared(rg) == [rg EXCEPT ![ZERO] = 0]

(* After the switch: stack check, end-of-code check, r0 = 0.               *)
Epilogue(rg, m, st, words) ==
  IF rg[SP] >= STACKSIZE + STACK_ADDR
  THEN Dies("fatal")
  ELSE /\ regs' = ZeroCleared(rg)
       /\ mem' = m
       /\ status' = IF st = "running" /\ rg[PC] >= Len(prog) THEN "stopped" ELSE st
       /\ output' = output \o words
       /\ exitCode' = IF st = "exited" THEN rg[A0] ELSE exitCode
       /\ UNCHANGED <<prog, extensions>>

Continue(rg) == Epilogue(rg, mem, "running", Silent)

WildFetch == status = "running" /\ ~InCode /\ Dies("wild")

ExecArithmetic ==
  /\ \/ Fetches("R") /\ Instr.fn \in RFunctions
     \/ Fetches("I") /\ Instr.fn \in IFunctions
  /\ Continue([Fetched EXCEPT ![Instr.rd] =
                 Alu(Instr.fn, Fetched[Instr.ra], Operand(Instr, Fetched))])

(* The jump is written first, so a link into r1 undoes it.                 *)
ExecJmp ==
  /\ Fetches("I") /\ Instr.fn = "jmp"
  /\ Continue([Fetched EXCEPT ![PC] = Wrap(Fetched[Instr.ra] + Instr.imm),
                              ![Instr.rd] = Fetched[PC]])

ExecStore ==
  /\ Fetches("S") /\ Instr.fn = "sw"
  /\ LET store == setWord(mem, Wrap(Fetched[Instr.ra] + Instr.imm), Fetched[Instr.rb])
     IN  IF store.status = "running"
         THEN Epilogue(Fetched, store.mem, "running", Silent) ELSE Dies(store.status)

ExecLoad ==
  /\ Fetches("L") /\ Instr.fn = "lw"
  /\ LET addr == Wrap(Fetched[Instr.ra] + Instr.imm)
     IN  IF WildLoad(mem, addr) THEN Dies("wild")
         ELSE Continue([Fetched EXCEPT ![Instr.rd] = loadWord(mem, prog, addr)])

(* Mutant: a branch is computed in signed arithmetic, and can leave the    *)
(* code downwards.                                                         *)
BranchSigned(rg, imm) == rg[PC] - 1 + imm
BranchTarget(rg, imm) == Wrap((rg[PC] - 1) + imm)

ExecBranch ==
  /\ Fetches("B") /\ Instr.fn \in BFunctions
  /\ Continue(IF Taken(Instr.fn, Fetched[Instr.ra], Fetched[Instr.rb])
              THEN [Fetched EXCEPT ![PC] = BranchTarget(Fetched, Instr.imm)] ELSE Fetched)

ExecHalt == Fetches("SYS") /\ Instr.fn = "halt" /\ Epilogue(Fetched, mem, "stopped", Silent)

ExecIdle == Fetches("SYS") /\ Instr.fn \in {"nop", "break"} /\ Continue(Fetched)

Outside(outcomes) ==
  \E o \in outcomes : IF o.status \in {"fatal", "wild"} THEN Dies(o.status)
                      ELSE Epilogue(o.regs, o.mem, o.status, o.io)

ExecSyscall == Fetches("SYS") /\ Instr.fn = "syscall" /\ Outside(handleSyscall(Fetched, mem, prog))

ExecExtension ==
  /\ status = "running" /\ InCode
  /\ Instr.op \notin {"R", "I", "S", "L", "B", "SYS"}
  /\ Outside(handleExtensionOpcode(Instr, extensions, Fetched, mem))

(* The default cases of the switches: an unknown function is fatal.        *)
Functions == [R |-> RFunctions, I |-> IFunctions \cup {"jmp"}, S |-> {"sw"}, L |-> {"lw"},
              B |-> BFunctions, SYS |-> {"halt", "syscall", "nop", "break"}]

ExecIllegal ==
  /\ \E op \in DOMAIN Functions : Fetches(op) /\ Instr.fn \notin Functions[op]
  /\ Dies("fatal")

Next ==
  \/ WildFetch \/ ExecArithmetic \/ ExecJmp \/ ExecStore \/ ExecLoad \/ ExecBranch
  \/ ExecHalt \/ ExecIdle \/ ExecSyscall \/ ExecExtension \/ ExecIllegal

Spec == Init /\ [][Next]_vars
=============================================================================
