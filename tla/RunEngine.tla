------------------------------ MODULE RunEngine ------------------------------
(***************************************************************************)
(* run() of src/core.c: the threaded engine.  The program counter is a     *)
(* local, `pc`; regs[PC] is written only where control leaves the dispatch *)
(* loop (a halt, a system call, an extension opcode).  decoded[] has a     *)
(* sentinel halt after the last instruction in place of a bound check, and *)
(* each handler that jumps is to keep pc from going past it.               *)
(***************************************************************************)
EXTENDS Syscalls

CONSTANT
  Workloads  \* what a run may be started with, as a sequence of records of
             \* sets: code sections, extensions enabled, register contents
             \* (r1 the entry point, the others what an earlier run left)

VARIABLES prog, extensions, regs, pc, mem, status, output, exitCode

vars == <<prog, extensions, regs, pc, mem, status, output, exitCode>>

code_end == Len(prog)

Init ==
  /\ \E k \in DOMAIN Workloads :
       /\ prog \in Workloads[k].programs
       /\ extensions \in Workloads[k].extensions
       /\ regs \in Workloads[k].registers
  /\ pc = regs[PC]
  /\ status = IF pc > code_end THEN "stopped" ELSE "running"
  /\ mem = InitialMemory
  /\ output = <<>>
  /\ exitCode = 0

(* NEXT() fetches decoded[pc++]: entry code_end is the sentinel, anything  *)
(* beyond it is outside the array.                                         *)
Sentinel == [op |-> "SYS", fn |-> "halt", rd |-> 0, ra |-> 0, rb |-> 0, imm |-> 0]
InDecoded == pc <= code_end
Instr == IF pc = code_end THEN Sentinel ELSE prog[pc + 1]
Fetches(op) == status = "running" /\ InDecoded /\ Instr.op = op
After == Wrap(pc + 1)

Dies(st) == status' = st /\ UNCHANGED <<prog, extensions, regs, pc, mem, output, exitCode>>

(* Mutant: NEXT() does not zero r0.                                        *)
ZeroKept(rg) == rg
ZeroCleared(rg) == [rg EXCEPT ![ZERO] = 0]

(* NEXT(): r0 is zeroed, and control goes to `target`.                     *)
Dispatch(rg, m, target, words) ==
  /\ regs' = ZeroCleared(rg)
  /\ pc' = target
  /\ mem' = m
  /\ output' = output \o words
  /\ UNCHANGED <<prog, extensions, status, exitCode>>

Leave(rg, m, st, words) ==
  /\ regs' = rg
  /\ pc' = After
  /\ mem' = m
  /\ status' = st
  /\ output' = output \o words
  /\ exitCode' = IF st = "exited" THEN rg[A0] ELSE exitCode
  /\ UNCHANGED <<prog, extensions>>

(* Mutants: the clamp compares signed words; pc is not stored before a     *)
(* call leaves the loop.                                                   *)
ClampSigned(target) == IF Signed(target) > code_end THEN code_end ELSE target
NotSynced == regs

ClampToEnd(target) == IF target > code_end THEN code_end ELSE target
Synced == [regs EXCEPT ![PC] = After]
BranchTarget(imm) == Wrap((After - 1) + imm)

WildFetch == status = "running" /\ ~InDecoded /\ Dies("wild")

ExecArithmetic ==
  /\ \/ Fetches("R") /\ Instr.fn \in RFunctions
     \/ Fetches("I") /\ Instr.fn \in IFunctions
  /\ Dispatch([regs EXCEPT ![Instr.rd] = Alu(Instr.fn, regs[Instr.ra], Operand(Instr, regs))],
              mem, After, Silent)

ExecJmp ==
  /\ Fetches("I") /\ Instr.fn = "jmp"
  /\ Dispatch([regs EXCEPT ![Instr.rd] = After], mem,
              ClampToEnd(Wrap(regs[Instr.ra] + Instr.imm)), Silent)

ExecStore ==
  /\ Fetches("S") /\ Instr.fn = "sw"
  /\ LET store == setWord(mem, Wrap(regs[Instr.ra] + Instr.imm), regs[Instr.rb])
     IN  IF store.status = "running" THEN Dispatch(regs, store.mem, After, Silent)
                                     ELSE Dies(store.status)

ExecLoad ==
  /\ Fetches("L") /\ Instr.fn = "lw"
  /\ LET addr == Wrap(regs[Instr.ra] + Instr.imm)
     IN  IF WildLoad(mem, addr) THEN Dies("wild")
         ELSE Dispatch([regs EXCEPT ![Instr.rd] = loadWord(mem, prog, addr)], mem, After, Silent)

ExecBranch ==
  /\ Fetches("B") /\ Instr.fn \in BFunctions
  /\ Dispatch(regs, mem,
              IF Taken(Instr.fn, regs[Instr.ra], regs[Instr.rb])
              THEN ClampToEnd(BranchTarget(Instr.imm)) ELSE After, Silent)

ExecHalt == Fetches("SYS") /\ Instr.fn = "halt" /\ Leave(Synced, mem, "stopped", Silent)

ExecIdle ==
  /\ Fetches("SYS") /\ Instr.fn \in {"nop", "break"}
  /\ Dispatch(regs, mem, After, Silent)

(* pc is stored before the call and read back after it, unclamped.         *)
Outside(outcomes) ==
  \E o \in outcomes :
    CASE o.status \in {"fatal", "wild"} -> Dies(o.status)
      [] o.status = "running" -> Dispatch(o.regs, o.mem, o.regs[PC], o.io)
      [] o.status = "exited" -> Leave(o.regs, o.mem, "exited", o.io)

ExecSyscall == Fetches("SYS") /\ Instr.fn = "syscall" /\ Outside(handleSyscall(Synced, mem, prog))

(* do_illegal: extension opcodes, and every pair of opcode and function    *)
(* the dispatch table has no label for.                                    *)
InTable(i) ==
  <<i.op, i.fn>> \in ({"R"} \X RFunctions) \cup ({"I"} \X (IFunctions \cup {"jmp"}))
                     \cup {<<"S", "sw">>, <<"L", "lw">>} \cup ({"B"} \X BFunctions)
                     \cup ({"SYS"} \X {"halt", "syscall", "nop", "break"})

DoIllegal ==
  /\ status = "running" /\ InDecoded
  /\ ~InTable(Instr)
  /\ Outside(handleExtensionOpcode(Instr, extensions, Synced, mem))

Next ==
  \/ WildFetch \/ ExecArithmetic \/ ExecJmp \/ ExecStore \/ ExecLoad \/ ExecBranch
  \/ ExecHalt \/ ExecIdle \/ ExecSyscall \/ DoIllegal

Spec == Init /\ [][Next]_vars
=============================================================================
