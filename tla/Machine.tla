------------------------------- MODULE Machine -------------------------------
(***************************************************************************)
(* The data path of src/core.c that both execution engines call: the       *)
(* memory map, the system calls and the extension opcodes, and the integer *)
(* functions that step() and run() each spell out.                         *)
(*                                                                         *)
(* Words keep their width: a word is a residue modulo 2^WordBits (64 in    *)
(* the code).  An outcome with status "wild" is undefined behaviour of the *)
(* C program (an access outside an allocation, a division by zero): what   *)
(* follows it is not modelled.                                             *)
(***************************************************************************)
EXTENDS Integers, Sequences, FiniteSetsExt

CONSTANTS
  WordBits,       \* bits of a machine word
  WordBytes,      \* sizeof(uint64_t)
  IntSize,        \* values of the C int an fd is cast to
  CharSize,       \* values of the C char a word is cast to
  HEAP_ADDR, STACK_ADDR,  \* the memory map of include/defs.h
  StackWords,     \* STACKSIZE / sizeof(uint64_t)
  MemoryWords,    \* the largest array realloc can give
  MAX_FDS,        \* slots of fdTable
  RegIds,         \* the registers modelled
  CodeWord(_),    \* the word an instruction is encoded as
  Samples,        \* words the host supplies: parsed input, rand(), time()
  Lines,          \* character sequences read from stdin or from a file
  FloatResult(_, _, _), \* IEEE arithmetic: function, two operands
  FloatTaken(_, _, _)   \* IEEE comparison of a float branch

WordSize == 2 ^ WordBits
Word == 0 .. WordSize - 1
Wrap(n) == n % WordSize
Signed(a) == IF a < WordSize \div 2 THEN a ELSE a - WordSize
MinusOne == WordSize - 1
STACKSIZE == StackWords * WordBytes

ZERO == 0
PC == 1
SP == 2
A0 == 18
A1 == 19
A13 == 31

(* That a power of two is positive is arithmetic the provers do not know.  *)
ASSUME MachineAssumption ==
  /\ WordBits \in Nat \ {0}
  /\ \A n \in 0 .. WordBits : 2 ^ n > 0
  /\ WordBytes \in Nat \ {0}
  /\ IntSize \in Nat \ {0}
  /\ CharSize \in Nat \ {0}
  /\ HEAP_ADDR \in Nat /\ STACK_ADDR \in Nat /\ StackWords \in Nat
  /\ HEAP_ADDR < STACK_ADDR /\ STACK_ADDR + STACKSIZE < WordSize
  /\ MemoryWords \in Nat
  /\ MAX_FDS \in Word
  /\ {ZERO, PC, SP, A0, A1, A13} \subseteq RegIds
  /\ Samples \subseteq Word
  /\ Lines \subseteq Seq(Word) /\ \A line \in Lines : Len(line) \in Word
-----------------------------------------------------------------------------
(* Integer functions.  The shift amount is masked to the word's width.     *)

BitsOf(a) == {i \in 0 .. WordBits - 1 : (a \div 2^i) % 2 = 1}
FromBits(S) == Max({c \in Word : BitsOf(c) \subseteq S})
Bool(p) == IF p THEN 1 ELSE 0

Alu(fn, a, b) ==
  CASE fn = "add"  -> Wrap(a + b)
    [] fn = "sub"  -> Wrap(a - b)
    [] fn = "or"   -> FromBits(BitsOf(a) \cup BitsOf(b))
    [] fn = "and"  -> FromBits(BitsOf(a) \cap BitsOf(b))
    [] fn = "xor"  -> FromBits(SymDiff(BitsOf(a), BitsOf(b)))
    [] fn = "sll"  -> Wrap(a * 2^(b % WordBits))
    [] fn = "srl"  -> a \div 2^(b % WordBits)
    [] fn = "sra"  -> Wrap(Signed(a) \div 2^(b % WordBits))
    [] fn = "slt"  -> Bool(Signed(a) < Signed(b))
    [] fn = "sltu" -> Bool(a < b)
    [] fn = "seq"  -> Bool(a = b)

Taken(fn, a, b) ==
  CASE fn = "beq"  -> a = b
    [] fn = "bne"  -> a # b
    [] fn = "blt"  -> Signed(a) < Signed(b)
    [] fn = "bltu" -> a < b
    [] fn = "ble"  -> Signed(a) <= Signed(b)
    [] fn = "bleu" -> a <= b
    [] fn = "bgt"  -> Signed(a) > Signed(b)
    [] fn = "bgtu" -> a > b
    [] fn = "bge"  -> Signed(a) >= Signed(b)
    [] fn = "bgeu" -> a >= b

RFunctions == {"add", "sub", "or", "and", "xor", "sll", "srl", "sra", "slt", "sltu", "seq"}
IFunctions == RFunctions \ {"slt", "sltu", "seq"}
BFunctions == {"beq", "bne", "blt", "bltu", "ble", "bleu", "bgt", "bgtu", "bge", "bgeu"}

(* The second operand of an instruction with registers rg.                 *)
Operand(i, rg) == IF i.op \in {"R", "B", "S", "MR", "FR", "FB"} THEN rg[i.rb] ELSE Wrap(i.imm)
-----------------------------------------------------------------------------
(* Memory: the stack, the heap array realloc gave us with the words in use *)
(* and the capacity the code believes it has, and the open file slots.     *)

InitialMemory ==
  [stack |-> [w \in 0 .. StackWords - 1 |-> 0],
   heap |-> <<>>, used |-> 0, cap |-> 0, fds |-> {}]

HeapIndex(addr) == addr - HEAP_ADDR
InHeap(addr) == HEAP_ADDR <= addr /\ addr < STACK_ADDR
OnStack(addr) == addr >= STACK_ADDR /\ addr - STACK_ADDR < StackWords
Allocated(m, addr) == InHeap(addr) /\ m.cap > 0 /\ HeapIndex(addr) < m.used
Backed(m, addr) == HeapIndex(addr) < Len(m.heap)

(* setWord(): code and unallocated heap are fatal, stack overruns ignored. *)
setWord(m, addr, v) ==
  CASE addr < HEAP_ADDR -> [status |-> "fatal", mem |-> m]
    [] InHeap(addr) ->
         IF ~Allocated(m, addr) THEN [status |-> "fatal", mem |-> m]
         ELSE IF ~Backed(m, addr) THEN [status |-> "wild", mem |-> m]
         ELSE [status |-> "running", mem |-> [m EXCEPT !.heap[HeapIndex(addr) + 1] = v]]
    [] addr >= STACK_ADDR ->
         [status |-> "running",
          mem |-> IF OnStack(addr) THEN [m EXCEPT !.stack[addr - STACK_ADDR] = v] ELSE m]

(* loadWord(): every address outside an arena reads as zero.               *)
loadWord(m, code, addr) ==
  CASE addr < Len(code) /\ addr < HEAP_ADDR -> CodeWord(code[addr + 1])
    [] Allocated(m, addr) /\ Backed(m, addr) -> m.heap[HeapIndex(addr) + 1]
    [] OnStack(addr) -> m.stack[addr - STACK_ADDR]
    [] OTHER -> 0

WildLoad(m, addr) == Allocated(m, addr) /\ ~Backed(m, addr)

(* A word sequence stored from addr on, up to the first store that fails,  *)
(* which ends the process.  Where the words wrap around the address space  *)
(* the last one stored at an address stays.                                *)
StoreAll(m, addr, words) ==
  LET At(k) == Wrap(addr + k - 1)
      fails == {k \in DOMAIN words : setWord(m, At(k), words[k]).status # "running"}
      Put(a, old) == LET ks == {k \in DOMAIN words : At(k) = a}
                     IN  IF ks = {} THEN old ELSE words[Max(ks)]
      HeapWord(i, old) == IF InHeap(HEAP_ADDR + i - 1) THEN Put(HEAP_ADDR + i - 1, old) ELSE old
  IN  IF fails # {}
      THEN [status |-> setWord(m, At(Min(fails)), words[Min(fails)]).status, mem |-> m]
      ELSE [status |-> "running",
            mem |-> [m EXCEPT !.heap = [i \in DOMAIN @ |-> HeapWord(i, @[i])],
                              !.stack = [w \in DOMAIN @ |-> Put(STACK_ADDR + w, @[w])]]]

(* The characters from addr to the first zero one.                         *)
LoadString(m, code, addr) ==
  LET Char(k) == loadWord(m, code, Wrap(addr + k)) % CharSize
      end == CHOOSE k \in 0 .. WordSize : Char(k) = 0 /\ \A j \in 0 .. k - 1 : Char(j) # 0
  IN  [k \in 1 .. end |-> Char(k - 1)]
=============================================================================
