------------------------------ MODULE Syscalls ------------------------------
(***************************************************************************)
(* handleSyscall() and handleExtensionOpcode() of src/core.c, called by    *)
(* both engines with the program counter stored in regs[PC].  Each is the  *)
(* set of outcomes the call may have, an outcome being the registers, the  *)
(* memory, the status the guest is left in, and what was written to the    *)
(* host's streams by the call.                                             *)
(***************************************************************************)
EXTENDS Machine

SYS_EXIT == 0
SYS_PRINT_INT == 1
SYS_PRINT_UINT == 2
SYS_PRINT_CHAR == 3
SYS_PRINT_FLOAT == 4
SYS_PRINT_STR == 5
SYS_READ_INT == 11
SYS_READ_UINT == 12
SYS_READ_CHAR == 13
SYS_READ_FLOAT == 14
SYS_READ_STR == 15
SYS_RAND_SEED == 21
SYS_RAND_INT == 22
SYS_RAND_R_INT == 23
SYS_RAND_FLOAT == 24
SYS_FILE_OPEN == 31
SYS_FILE_READ == 32
SYS_FILE_CLOSE == 33
SYS_FILE_WRITE == 34
SYS_TIME_GET == 41
SYS_TIME_SLEEP == 42
SYS_HEAP_GROW == 51
SYS_HEAP_TOP == 52

Silent == <<>>
Formats == 0 .. 3

Outcome(rg, m) == [regs |-> rg, mem |-> m, status |-> "running", io |-> Silent]
Prints(rg, m, words) == {[Outcome(rg, m) EXCEPT !.io = words]}
Returns(rg, m, values) == {Outcome([rg EXCEPT ![A0] = v], m) : v \in values}
Ends(rg, m, status) == {[Outcome(rg, m) EXCEPT !.status = status]}
-----------------------------------------------------------------------------
(* Input calls: what is read is any sample; a parse failure reads as zero. *)

ReadNumber(rg, m) ==
  IF rg[A1] \in Formats THEN Returns(rg, m, Samples \cup {0}) ELSE Ends(rg, m, "fatal")

ReadChar(rg, m) == Returns(rg, m, {v % CharSize : v \in Samples} \cup {MinusOne})

(* At most a1 - 1 characters of the line are stored, then the terminator.  *)
ReadStr(rg, m) ==
  IF rg[A1] = 0 THEN {Outcome(rg, m)}
  ELSE {LET room == rg[A1] - 1
            kept == SubSeq(line, 1, IF Len(line) < room THEN Len(line) ELSE room)
            store == StoreAll(m, rg[A0], Append(kept, 0))
        IN  [Outcome(rg, store.mem) EXCEPT !.status = store.status] : line \in Lines}

(* mn + rand % (mx - mn + 1); over the full range the divisor wraps to 0.  *)
RandRange(rg, m) ==
  LET mn == Signed(rg[A0])
      mx == Signed(rg[A1])
      range == Wrap(mx - mn + 1)
  IN  IF mx < mn THEN Ends(rg, m, "fatal")
      ELSE IF range = 0 THEN Ends(rg, m, "wild")
      ELSE Returns(rg, m, {Wrap(mn + (s % range)) : s \in Samples})
-----------------------------------------------------------------------------
(* File calls on the slots of fdTable; fopen itself may fail.              *)

Fd(v) == v % IntSize
FreeSlots(m) == (3 .. MAX_FDS - 1) \ m.fds

FileOpen(rg, m) ==
  Ends(rg, m, "fatal") \cup
  IF rg[A1] \in 0 .. 2 /\ FreeSlots(m) # {}
  THEN Returns(rg, [m EXCEPT !.fds = @ \cup {Min(FreeSlots(m))}], {Min(FreeSlots(m))})
  ELSE {}

FileRead(rg, m) ==
  IF Fd(rg[A0]) \notin m.fds THEN Ends(rg, m, "fatal")
  ELSE {LET store == StoreAll(m, rg[A1], Append(line, 0))
        IN  IF store.status = "running"
            THEN Outcome([rg EXCEPT ![A0] = Len(line)], store.mem)
            ELSE [Outcome(rg, store.mem) EXCEPT !.status = store.status] : line \in Lines}

FileClose(rg, m) == {Outcome(rg, [m EXCEPT !.fds = @ \ {Fd(rg[A0])}])}

PrintString(rg, m, code, addr) ==
  LET chars == LoadString(m, code, addr)
  IN  IF WildLoad(m, Wrap(addr + Len(chars))) THEN Ends(rg, m, "wild") ELSE Prints(rg, m, chars)

FileWrite(rg, m, code) ==
  IF Fd(rg[A0]) \notin m.fds THEN Ends(rg, m, "fatal") ELSE PrintString(rg, m, code, rg[A1])
-----------------------------------------------------------------------------
(* The heap.  The sum and the byte count given to realloc both wrap; the   *)
(* array realloc returns holds the words those bytes have room for.  A new *)
(* word is whatever it is found to hold.  Asked for no bytes at all,       *)
(* realloc may free the array and return NULL instead.                     *)

(* Mutant: the array is grown by one word too few.                         *)
GrownShort(m, newCap) ==
  {[m EXCEPT !.cap = newCap, !.heap = @ \o [k \in 1 .. newCap - Len(@) - 1 |-> junk]]
     : junk \in Samples}

Grown(m, newCap) ==
  LET words == Wrap(newCap * WordBytes) \div WordBytes
  IN  {[m EXCEPT !.cap = newCap,
                 !.heap = SubSeq(@, 1, IF Len(@) < words THEN Len(@) ELSE words)
                          \o [k \in 1 .. words - Len(@) |-> junk]] : junk \in Samples}

(* Mutant: the words in use become those asked for, not the sum.           *)
UsedReplaced(m, nwords) == nwords
NewUsed(m, nwords) == Wrap(m.used + nwords)

HeapGrow(rg, m) ==
  LET nwords == rg[A0]
      newCap == NewUsed(m, nwords)
      bytes == Wrap(newCap * WordBytes)
      Commit(m2) == Outcome([rg EXCEPT ![A0] = Wrap(m.used + HEAP_ADDR)],
                            [m2 EXCEPT !.used = newCap])
  IN  CASE nwords = 0 -> Returns(rg, m, {0})
        [] nwords # 0 /\ newCap <= m.cap -> {Commit(m)}
        [] nwords # 0 /\ newCap > m.cap ->
             (IF bytes \div WordBytes <= MemoryWords
              THEN {Commit(m2) : m2 \in Grown(m, newCap)} ELSE Returns(rg, m, {0}))
             \cup (IF bytes = 0 THEN Returns(rg, [m EXCEPT !.heap = <<>>], {0}) ELSE {})

HeapTop(rg, m) == Returns(rg, m, {Wrap(HEAP_ADDR + m.used)})
-----------------------------------------------------------------------------
handleSyscall(rg, m, code) ==
  LET n == rg[A13] IN
  CASE n = SYS_EXIT -> Ends(rg, m, "exited")
    [] n \in {SYS_PRINT_INT, SYS_PRINT_UINT} ->
         IF rg[A1] \in Formats THEN Prints(rg, m, <<rg[A0]>>) ELSE Ends(rg, m, "fatal")
    [] n = SYS_PRINT_CHAR -> Prints(rg, m, <<rg[A0] % CharSize>>)
    [] n = SYS_PRINT_FLOAT -> Prints(rg, m, <<rg[A0]>>)
    [] n = SYS_PRINT_STR -> PrintString(rg, m, code, rg[A0])
    [] n \in {SYS_READ_INT, SYS_READ_UINT} -> ReadNumber(rg, m)
    [] n = SYS_READ_CHAR -> ReadChar(rg, m)
    [] n = SYS_READ_FLOAT -> Returns(rg, m, Samples \cup {0})
    [] n = SYS_READ_STR -> ReadStr(rg, m)
    [] n \in {SYS_RAND_SEED, SYS_TIME_SLEEP} -> {Outcome(rg, m)}
    [] n \in {SYS_RAND_INT, SYS_RAND_FLOAT, SYS_TIME_GET} -> Returns(rg, m, Samples)
    [] n = SYS_RAND_R_INT -> RandRange(rg, m)
    [] n = SYS_FILE_OPEN -> FileOpen(rg, m)
    [] n = SYS_FILE_READ -> FileRead(rg, m)
    [] n = SYS_FILE_CLOSE -> FileClose(rg, m)
    [] n = SYS_FILE_WRITE -> FileWrite(rg, m, code)
    [] n = SYS_HEAP_GROW -> HeapGrow(rg, m)
    [] n = SYS_HEAP_TOP -> HeapTop(rg, m)
    [] OTHER -> Ends(rg, m, "fatal")
-----------------------------------------------------------------------------
(* Extension opcodes.  C division truncates toward zero; dividing by zero  *)
(* or the most negative word by -1 is undefined.                           *)

Abs(n) == IF n < 0 THEN -n ELSE n
Quotient(a, b) == IF (a < 0) = (b < 0) THEN Abs(a) \div Abs(b) ELSE -(Abs(a) \div Abs(b))
Remainder(a, b) == a - b * Quotient(a, b)

Multiply(fn, a, b) ==
  CASE fn = "mul"   -> Wrap(Signed(a) * Signed(b))
    [] fn = "mulh"  -> Wrap((Signed(a) * Signed(b)) \div WordSize)
    [] fn = "mulhu" -> (a * b) \div WordSize
    [] fn = "div"   -> Wrap(Quotient(Signed(a), Signed(b)))
    [] fn = "divu"  -> a \div b
    [] fn = "rem"   -> Wrap(Remainder(Signed(a), Signed(b)))
    [] fn = "remu"  -> a % b

Undefined(fn, a, b) ==
  \/ fn \in {"div", "divu", "rem", "remu"} /\ b = 0
  \/ fn \in {"div", "rem"} /\ a = WordSize \div 2 /\ b = MinusOne

MRFunctions == {"mul", "mulh", "mulhu", "div", "divu", "rem", "remu"}
MIFunctions == MRFunctions \ {"mulh", "mulhu"}
FRFunctions == {"fadd", "fsub", "fmul", "fdiv"}
FIFunctions == FRFunctions \cup {"fneg", "fsqrt", "fabs", "ftoi", "itof", "ftoui", "uitof"}
FBFunctions == {"fblt", "fble", "fbgt", "fbge"}

(* An instruction as it is decoded; "other" is a code that has no name.    *)
Opcodes == {"R", "I", "S", "L", "B", "SYS", "MR", "MI", "FR", "FI", "FB", "other"}
FunctionNames ==
  RFunctions \cup BFunctions \cup {"jmp", "sw", "lw", "halt", "syscall", "nop", "break", "other"}
    \cup MRFunctions \cup FIFunctions \cup FBFunctions
Instruction ==
  [op : Opcodes, fn : FunctionNames, rd : RegIds, ra : RegIds, rb : RegIds, imm : Int]

ASSUME FloatAssumption ==
  \A fn \in FRFunctions \cup FIFunctions, a, b \in Word : FloatResult(fn, a, b) \in Word

(* The extension enabled for an instruction, and its function legal.       *)
Handled(i, extensions) ==
  \/ "F" \in extensions /\ <<i.op, i.fn>> \in ({"FR"} \X FRFunctions) \cup ({"FI"} \X FIFunctions)
                                              \cup ({"FB"} \X FBFunctions)
  \/ "M" \in extensions /\ <<i.op, i.fn>> \in ({"MR"} \X MRFunctions) \cup ({"MI"} \X MIFunctions)

handleExtensionOpcode(i, extensions, rg, m) ==
  LET a == rg[i.ra]
      b == Operand(i, rg)
      Write(v) == {Outcome([rg EXCEPT ![i.rd] = v], m)}
  IN  IF ~Handled(i, extensions) THEN Ends(rg, m, "fatal")
      ELSE CASE i.op \in {"FR", "FI"} -> Write(FloatResult(i.fn, a, b))
             [] i.op = "FB" -> IF FloatTaken(i.fn, a, b)
                               THEN {Outcome([rg EXCEPT ![PC] = Wrap(@ - 1 + i.imm)], m)}
                               ELSE {Outcome(rg, m)}
             [] OTHER -> IF Undefined(i.fn, a, b) THEN Ends(rg, m, "wild")
                                                  ELSE Write(Multiply(i.fn, a, b))
=============================================================================
