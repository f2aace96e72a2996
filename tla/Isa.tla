--------------------------------- MODULE Isa ---------------------------------
(***************************************************************************)
(* What both engines of src/core.c promise a guest program (SPEC.md): one  *)
(* instruction at a time, r0 reads as zero, r1 reads as the address of the *)
(* next instruction and writing it is a jump, and control that leaves the  *)
(* code stops the program.  Nothing is said of how the program counter is  *)
(* kept, nor of its value once it has left the code.                       *)
(***************************************************************************)
EXTENDS Syscalls

CONSTANT
  Workloads  \* what a run may be started with, as a sequence of records of
             \* sets: code sections, extensions enabled, register contents
             \* (r1 the entry point, the others what an earlier run left)

VARIABLES
  prog, extensions,  \* the code words and the extensions enabled
  pc,        \* the next instruction's address; Len(prog) once out of the code
  gpr,       \* the registers but r0 and r1
  mem,       \* stack, heap and open files
  status,    \* running, stopped, exited, fatal (exit(EXIT_FAILURE)) or wild
  output,        \* every word the system calls printed
  exitCode   \* the value given to SYS_EXIT

vars == <<prog, extensions, pc, gpr, mem, status, output, exitCode>>

GPR == RegIds \ {ZERO, PC}
Clamp(addr) == IF addr >= Len(prog) THEN Len(prog) ELSE addr

Init ==
  /\ \E k \in DOMAIN Workloads :
       /\ prog \in Workloads[k].programs
       /\ extensions \in Workloads[k].extensions
       /\ \E rg \in Workloads[k].registers :
            /\ gpr = [r \in GPR |-> rg[r]]
            /\ pc = Clamp(rg[PC])
            /\ status = IF rg[PC] >= Len(prog) THEN "stopped" ELSE "running"
  /\ mem = InitialMemory
  /\ output = <<>>
  /\ exitCode = 0

(* The register file an instruction sees.                                  *)
View == [r \in RegIds |-> IF r = ZERO THEN 0 ELSE IF r = PC THEN Wrap(pc + 1) ELSE gpr[r]]

(* Everything an instruction may do.                                       *)
Outcomes(i) ==
  LET rg == View
      a == rg[i.ra]
      b == Operand(i, rg)
      addr == Wrap(a + i.imm)
      Write(v) == {Outcome([rg EXCEPT ![i.rd] = v], mem)}
      Jump(target) == [rg EXCEPT ![PC] = target]
      store == setWord(mem, addr, b)
  IN  CASE (i.op = "R" /\ i.fn \in RFunctions) \/ (i.op = "I" /\ i.fn \in IFunctions) ->
             Write(Alu(i.fn, a, b))
        [] i.op = "I" /\ i.fn = "jmp" ->
             {Outcome([Jump(addr) EXCEPT ![i.rd] = rg[PC]], mem)}
        [] i.op = "S" /\ i.fn = "sw" ->
             {[Outcome(rg, store.mem) EXCEPT !.status = store.status]}
        [] i.op = "L" /\ i.fn = "lw" ->
             IF WildLoad(mem, addr) THEN Ends(rg, mem, "wild")
                                    ELSE Write(loadWord(mem, prog, addr))
        [] i.op = "B" /\ i.fn \in BFunctions ->
             {Outcome(IF Taken(i.fn, a, b) THEN Jump(Wrap(pc + i.imm)) ELSE rg, mem)}
        [] i.op = "SYS" /\ i.fn = "halt" -> Ends(rg, mem, "stopped")
        [] i.op = "SYS" /\ i.fn = "syscall" -> handleSyscall(rg, mem, prog)
        [] i.op = "SYS" /\ i.fn \in {"nop", "break"} -> {Outcome(rg, mem)}
        [] OTHER -> handleExtensionOpcode(i, extensions, rg, mem)

Gone(s) == s \in {"fatal", "wild"}

Execute ==
  /\ status = "running"
  /\ \E o \in Outcomes(prog[pc + 1]) :
       /\ ~Gone(o.status)
       /\ gpr' = [r \in GPR |-> o.regs[r]]
       /\ pc' = Clamp(o.regs[PC])
       /\ mem' = o.mem
       /\ status' = IF o.status = "running" /\ o.regs[PC] >= Len(prog) THEN "stopped" ELSE o.status
       /\ output' = output \o o.io
       /\ exitCode' = IF o.status = "exited" THEN gpr[A0] ELSE exitCode
  /\ UNCHANGED <<prog, extensions>>

(* The process dies in the middle of an instruction.                       *)
Fault ==
  /\ status = "running"
  /\ \E o \in Outcomes(prog[pc + 1]) : Gone(o.status) /\ status' = o.status
  /\ UNCHANGED <<prog, extensions, pc, gpr, mem, output, exitCode>>

(* An engine may refuse a stack pointer beyond the stack.                  *)
StackFault ==
  /\ status = "running"
  /\ \E o \in Outcomes(prog[pc + 1]) : o.regs[SP] >= STACK_ADDR + StackWords
  /\ status' = "fatal"
  /\ UNCHANGED <<prog, extensions, pc, gpr, mem, output, exitCode>>

Next == Execute \/ Fault \/ StackFault

Spec == Init /\ [][Next]_vars
=============================================================================
