---------------------------- MODULE EnginesProofs ----------------------------
(***************************************************************************)
(* The engines, proved for every word width, memory map and workload.      *)
(*                                                                         *)
(* First the operators of Machine and Syscalls, which both engines are     *)
(* built from: arithmetic yields words, memory stays well formed, and what *)
(* a system call or an extension opcode leaves alone.  StepExecutes and    *)
(* RunExecutes then bring the engines to one form: a step of either is an  *)
(* outcome of the instruction it fetched (Executes), put into effect the   *)
(* way that engine does it.  ExecutesIsLegal says what an outcome can be.  *)
(* The inductive invariant IInv has three parts: the types and the loaded  *)
(* program (TypeInv), r0 = 0 (ZeroReadsZero), and for programs that keep   *)
(* the rules that neither engine has left the code (Lawful).  That the     *)
(* heap stays backed takes an assumption on what the guest asks for        *)
(* (HeapAsked).  The refinement follows an outcome through either engine's *)
(* epilogue into Isa's state.                                              *)
(***************************************************************************)
EXTENDS Engines, SequenceTheorems, NumberLemmas

Registers == [RegIds -> Word]

Memory ==
  [stack : [0 .. StackWords - 1 -> Word], heap : Seq(Word), used : Word, cap : Word,
   fds : SUBSET (3 .. MAX_FDS - 1)]

(* A code section, as the engines are given it.                            *)
IsCode(code) ==
  /\ Len(code) \in Nat /\ Len(code) <= HEAP_ADDR /\ DOMAIN code = 1 .. Len(code)
  /\ \A j \in DOMAIN code : CodeWord(code[j]) \in Word
-----------------------------------------------------------------------------
(* Words.                                                                  *)

LEMMA WordSizeType == WordSize \in Nat /\ WordSize > 1
<1>1. 2 ^ WordBits \in Int /\ 2 ^ WordBits > 0
  BY MachineAssumption
<1>2. STACKSIZE \in Nat
  BY MachineAssumption DEF STACKSIZE
<1> QED
  BY <1>1, <1>2, MachineAssumption DEF WordSize

LEMMA Words == Word \subseteq Nat /\ 0 \in Word /\ 1 \in Word /\ MinusOne \in Word
  BY WordSizeType DEF Word, MinusOne

LEMMA WrapIsWord ==
  ASSUME NEW n \in Int
  PROVE  Wrap(n) \in Word
  BY WordSizeType DEF Wrap, Word

LEMMA WrapOfWord ==
  ASSUME NEW n \in Word
  PROVE  Wrap(n) = n
  BY WordSizeType DEF Wrap, Word

LEMMA SignedIsInt ==
  ASSUME NEW a \in Word
  PROVE  Signed(a) \in Int /\ (Signed(a) = 0 => a = 0)
  BY WordSizeType DEF Signed, Word

LEMMA PowerType ==
  ASSUME NEW n \in 0 .. WordBits
  PROVE  2 ^ n \in Nat \ {0}
<1>1. 2 ^ n \in Int /\ 2 ^ n > 0
  BY MachineAssumption
<1> QED
  BY <1>1

LEMMA ShiftAmount ==
  ASSUME NEW b \in Word
  PROVE  2 ^ (b % WordBits) \in Nat \ {0}
<1>1. b % WordBits \in 0 .. WordBits
  BY Words, MachineAssumption
<1> QED
  BY <1>1, PowerType

LEMMA ZeroHasNoBits ==
  ASSUME NEW p \in Nat \ {0}
  PROVE  (0 \div p) % 2 # 1
<1>1. 0 \div p = 0
  OBVIOUS
<1> QED
  BY <1>1

(* Zero has no bits, so there is always a largest word without others.     *)
LEMMA FromBitsIsWord ==
  ASSUME NEW S
  PROVE  FromBits(S) \in Word
<1> DEFINE T == {c \in Word : BitsOf(c) \subseteq S}
<1>1. BitsOf(0) = {}
  <2>1. ASSUME NEW i \in 0 .. WordBits - 1
        PROVE  (0 \div 2 ^ i) % 2 # 1
    <3>1. i \in 0 .. WordBits
      BY MachineAssumption
    <3>2. 2 ^ i \in Nat \ {0}
      BY <3>1, PowerType
    <3> QED
      BY <3>2, ZeroHasNoBits
  <2> QED
    BY <2>1 DEF BitsOf
<1>2. 0 \in T
  BY <1>1, Words
<1>3. T \subseteq Nat /\ \A c \in T : c <= MinusOne
  BY WordSizeType DEF Word, MinusOne
<1>4. MinusOne \in Nat
  BY Words
<1>5. Max(T) \in T
  BY <1>2, <1>3, <1>4, MaxIsElement
<1> QED
  BY <1>5 DEF FromBits

(* A word divided by a positive number is a word.                          *)
LEMMA QuotientIsWord ==
  ASSUME NEW a \in Word, NEW n \in Nat \ {0}
  PROVE  a \div n \in Word
<1>1. a \in Nat /\ a < WordSize
  BY WordSizeType DEF Word
<1>2. a \div n \in Nat /\ a \div n <= a
  BY <1>1
<1> QED
  BY <1>1, <1>2, WordSizeType DEF Word

LEMMA AluIsWord ==
  ASSUME NEW fn \in RFunctions, NEW a \in Word, NEW b \in Word
  PROVE  Alu(fn, a, b) \in Word
<1>1. a \in Nat /\ b \in Nat
  BY Words
<1>2. CASE fn = "add"
  BY <1>1, <1>2, WrapIsWord DEF Alu
<1>3. CASE fn = "sub"
  BY <1>1, <1>3, WrapIsWord DEF Alu
<1>4. CASE fn = "or"
  BY <1>4, FromBitsIsWord DEF Alu
<1>5. CASE fn = "and"
  BY <1>5, FromBitsIsWord DEF Alu
<1>6. CASE fn = "xor"
  BY <1>6, FromBitsIsWord DEF Alu
<1>7. CASE fn = "sll"
  <2>1. a * 2 ^ (b % WordBits) \in Int
    BY <1>1, ShiftAmount
  <2> QED
    BY <1>7, <2>1, WrapIsWord DEF Alu
<1>8. CASE fn = "srl"
  BY <1>8, ShiftAmount, QuotientIsWord DEF Alu
<1>9. CASE fn = "sra"
  <2>1. Signed(a) \div 2 ^ (b % WordBits) \in Int
    BY SignedIsInt, ShiftAmount
  <2> QED
    BY <1>9, <2>1, WrapIsWord DEF Alu
<1>10. CASE fn \in {"slt", "sltu", "seq"}
  BY <1>10, Words DEF Alu, Bool
<1> QED
  BY <1>2, <1>3, <1>4, <1>5, <1>6, <1>7, <1>8, <1>9, <1>10 DEF RFunctions
-----------------------------------------------------------------------------
(* Memory.  A store changes a word: not the size of anything.              *)

SameSize(m, m2) ==
  m2.used = m.used /\ m2.cap = m.cap /\ Len(m2.heap) = Len(m.heap)

LEMMA InitialMemoryTyped == InitialMemory \in Memory
<1>1. <<>> \in Seq(Word) /\ {} \in SUBSET (3 .. MAX_FDS - 1)
  OBVIOUS
<1>2. [w \in 0 .. StackWords - 1 |-> 0] \in [0 .. StackWords - 1 -> Word]
  BY Words
<1> QED
  BY <1>1, <1>2, Words DEF InitialMemory, Memory

LEMMA StoreStatus ==
  ASSUME NEW m, NEW addr \in Word, NEW v
  PROVE  setWord(m, addr, v).status \in {"running", "fatal", "wild"}
<1>1. addr \in Nat /\ HEAP_ADDR \in Nat /\ STACK_ADDR \in Nat
  BY Words, MachineAssumption
<1>2. CASE addr < HEAP_ADDR
  BY <1>1, <1>2 DEF setWord
<1>3. CASE InHeap(addr)
  BY <1>1, <1>3 DEF setWord, InHeap
<1>4. CASE addr >= STACK_ADDR
  BY <1>1, <1>4, MachineAssumption DEF setWord, InHeap
<1> QED
  BY <1>1, <1>2, <1>3, <1>4 DEF InHeap

LEMMA StoreTyped ==
  ASSUME NEW m \in Memory, NEW addr \in Word, NEW v \in Word
  PROVE  LET m2 == setWord(m, addr, v).mem IN m2 \in Memory /\ SameSize(m, m2)
<1>1. addr \in Nat /\ HEAP_ADDR \in Nat /\ STACK_ADDR \in Nat /\ StackWords \in Nat
  BY Words, MachineAssumption
<1>2. m.heap \in Seq(Word) /\ m.stack \in [0 .. StackWords - 1 -> Word]
  BY DEF Memory
<1>3. CASE addr < HEAP_ADDR
  BY <1>1, <1>3, MachineAssumption DEF setWord, InHeap, SameSize
<1>4. CASE InHeap(addr)
  <2>1. CASE ~Allocated(m, addr) \/ ~Backed(m, addr)
    BY <1>1, <1>4, <2>1 DEF setWord, InHeap, SameSize
  <2>2. CASE Allocated(m, addr) /\ Backed(m, addr)
    <3> DEFINE i == HeapIndex(addr) + 1
               h == [m.heap EXCEPT ![i] = v]
    <3>1. i \in 1 .. Len(m.heap)
      BY <1>1, <1>2, <1>4, <2>2 DEF InHeap, Backed, HeapIndex
    <3>2. h \in Seq(Word) /\ Len(h) = Len(m.heap)
      BY <1>2, <3>1
    <3>3. setWord(m, addr, v).mem = [m EXCEPT !.heap = h]
      BY <1>1, <1>4, <2>2 DEF setWord, InHeap
    <3> HIDE DEF h
    <3>4. [m EXCEPT !.heap = h] \in Memory
      BY <3>2 DEF Memory
    <3>5. SameSize(m, [m EXCEPT !.heap = h])
      BY <3>2 DEF SameSize, Memory
    <3> QED
      BY <3>3, <3>4, <3>5
  <2> QED
    BY <2>1, <2>2
<1>5. CASE addr >= STACK_ADDR
  <2>1. setWord(m, addr, v).mem = IF OnStack(addr) THEN [m EXCEPT !.stack[addr - STACK_ADDR] = v] ELSE m
    BY <1>1, <1>5, MachineAssumption DEF setWord, InHeap
  <2>2. CASE OnStack(addr)
    <3> DEFINE s == [m.stack EXCEPT ![addr - STACK_ADDR] = v]
    <3>1. s \in [0 .. StackWords - 1 -> Word]
      BY <1>2
    <3>2. setWord(m, addr, v).mem = [m EXCEPT !.stack = s]
      BY <2>1, <2>2
    <3> HIDE DEF s
    <3>3. [m EXCEPT !.stack = s] \in Memory /\ SameSize(m, [m EXCEPT !.stack = s])
      BY <3>1 DEF Memory, SameSize
    <3> QED
      BY <3>2, <3>3
  <2>3. CASE ~OnStack(addr)
    BY <2>1, <2>3 DEF SameSize
  <2> QED
    BY <2>2, <2>3
<1> QED
  BY <1>1, <1>3, <1>4, <1>5 DEF InHeap

LEMMA LoadIsWord ==
  ASSUME NEW m \in Memory, NEW code, IsCode(code), NEW addr \in Word
  PROVE  loadWord(m, code, addr) \in Word
<1>1. addr \in Nat /\ HEAP_ADDR \in Nat /\ STACK_ADDR \in Nat /\ StackWords \in Nat
  BY Words, MachineAssumption
<1>2. m.heap \in Seq(Word) /\ m.stack \in [0 .. StackWords - 1 -> Word]
  BY DEF Memory
<1>3. CASE addr < Len(code) /\ addr < HEAP_ADDR
  <2>1. addr + 1 \in DOMAIN code
    BY <1>1, <1>3 DEF IsCode
  <2>2. loadWord(m, code, addr) = CodeWord(code[addr + 1])
    BY <1>1, <1>3, MachineAssumption DEF loadWord, Allocated, InHeap, OnStack
  <2> QED
    BY <2>1, <2>2 DEF IsCode
<1>4. CASE Allocated(m, addr) /\ Backed(m, addr)
  <2>1. HeapIndex(addr) + 1 \in 1 .. Len(m.heap)
    BY <1>1, <1>2, <1>4 DEF Allocated, InHeap, Backed, HeapIndex
  <2>2. loadWord(m, code, addr) = m.heap[HeapIndex(addr) + 1]
    BY <1>1, <1>4, MachineAssumption DEF loadWord, Allocated, InHeap, OnStack
  <2> QED
    BY <1>2, <2>1, <2>2
<1>5. CASE OnStack(addr)
  <2>1. addr - STACK_ADDR \in 0 .. StackWords - 1
    BY <1>1, <1>5 DEF OnStack
  <2>2. loadWord(m, code, addr) = m.stack[addr - STACK_ADDR]
    BY <1>1, <1>5, MachineAssumption DEF loadWord, Allocated, InHeap, OnStack
  <2> QED
    BY <1>2, <2>1, <2>2
<1>6. CASE /\ ~(addr < Len(code) /\ addr < HEAP_ADDR)
           /\ ~(Allocated(m, addr) /\ Backed(m, addr)) /\ ~OnStack(addr)
  BY <1>6, Words DEF loadWord
<1> QED
  BY <1>3, <1>4, <1>5, <1>6

(* What a sequence of words is stored as, when no store fails: each word   *)
(* of memory keeps its value or takes one of those stored.                 *)
LEMMA StoreAllTyped ==
  ASSUME NEW m \in Memory, NEW addr \in Word, NEW words \in Seq(Word)
  PROVE  LET s == StoreAll(m, addr, words)
         IN  /\ s.status \in {"running", "fatal", "wild"}
             /\ s.mem \in Memory /\ SameSize(m, s.mem)
<1> DEFINE Place(k) == Wrap(addr + k - 1)
           fails == {k \in DOMAIN words : setWord(m, Place(k), words[k]).status # "running"}
           Stored(a) == {k \in DOMAIN words : Place(k) = a}
           NewWord(a, old) == IF Stored(a) = {} THEN old ELSE words[Max(Stored(a))]
           HeapWord(i, old) ==
             IF InHeap(HEAP_ADDR + i - 1) THEN NewWord(HEAP_ADDR + i - 1, old) ELSE old
           h == [i \in DOMAIN m.heap |-> HeapWord(i, m.heap[i])]
           k == [w \in DOMAIN m.stack |-> NewWord(STACK_ADDR + w, m.stack[w])]
<1>1. Len(words) \in Nat /\ DOMAIN words = 1 .. Len(words)
  OBVIOUS
<1>2. m.heap \in Seq(Word) /\ m.stack \in [0 .. StackWords - 1 -> Word]
  BY DEF Memory
<1>3. ASSUME NEW a, NEW old \in Word
      PROVE  NewWord(a, old) \in Word
  <2>1. CASE Stored(a) # {}
    <3>1. Stored(a) \subseteq Nat /\ \A y \in Stored(a) : y <= Len(words)
      BY <1>1
    <3> HIDE DEF Stored
    <3>2. Max(Stored(a)) \in Stored(a)
      BY <1>1, <2>1, <3>1, MaxIsElement
    <3>3. Max(Stored(a)) \in DOMAIN words
      BY <3>2 DEF Stored
    <3> QED
      BY <1>1, <2>1, <3>3
  <2> QED
    BY <2>1
<1> HIDE DEF NewWord
<1>4. h \in Seq(Word) /\ Len(h) = Len(m.heap)
  <2>1. Len(m.heap) \in Nat /\ DOMAIN m.heap = 1 .. Len(m.heap)
    BY <1>2
  <2>2. ASSUME NEW i \in DOMAIN m.heap
        PROVE  HeapWord(i, m.heap[i]) \in Word
    <3>1. m.heap[i] \in Word
      BY <1>2
    <3> QED
      BY <1>3, <3>1
  <2> HIDE DEF HeapWord
  <2>3. h \in [1 .. Len(m.heap) -> Word]
    BY <2>1, <2>2
  <2> QED
    BY <2>1, <2>3
<1>5. k \in [0 .. StackWords - 1 -> Word]
  BY <1>2, <1>3
<1>6. CASE fails = {}
  <2>1. StoreAll(m, addr, words) =
          [status |-> "running", mem |-> [m EXCEPT !.heap = h, !.stack = k]]
    BY <1>6 DEF StoreAll, NewWord
  <2> HIDE DEF h, k
  <2>2. [m EXCEPT !.heap = h, !.stack = k] \in Memory
    BY <1>4, <1>5 DEF Memory
  <2>3. SameSize(m, [m EXCEPT !.heap = h, !.stack = k])
    BY <1>4, <1>5 DEF Memory, SameSize
  <2> QED
    BY <2>1, <2>2, <2>3
<1>7. CASE fails # {}
  <2>1. StoreAll(m, addr, words) =
          [status |-> setWord(m, Place(Min(fails)), words[Min(fails)]).status, mem |-> m]
    BY <1>7 DEF StoreAll
  <2>2. Min(fails) \in Nat
    <3>1. fails \subseteq Nat
      BY <1>1
    <3> HIDE DEF fails
    <3> QED
      BY <1>7, <3>1, MinIsElement
  <2>3. Place(Min(fails)) \in Word
    <3>1. addr + Min(fails) - 1 \in Int
      BY <2>2, Words
    <3> QED
      BY <3>1, WrapIsWord
  <2> HIDE DEF fails, Place
  <2>4. setWord(m, Place(Min(fails)), words[Min(fails)]).status \in {"running", "fatal", "wild"}
    BY <2>3, StoreStatus
  <2> QED
    BY <2>1, <2>4 DEF SameSize
<1> QED
  BY <1>6, <1>7
-----------------------------------------------------------------------------
(* System calls.  Whatever one does, it leaves registers and memory well   *)
(* formed, and of the registers it writes a0 alone.                        *)

Legal(rg, o) ==
  /\ o.regs \in Registers /\ o.mem \in Memory
  /\ o.status \in {"running", "exited", "fatal", "wild"}
  /\ \A r \in RegIds \ {A0} : o.regs[r] = rg[r]
  /\ o.status = "exited" => o.regs = rg
  /\ o.io \in Seq(Word)

(* The calls that neither grow the heap nor touch its size.                *)
Plain(rg, m, outcomes) == \A o \in outcomes : Legal(rg, o) /\ SameSize(m, o.mem)

LEMMA ArgumentRegisters ==
  /\ {ZERO, PC, SP, A0, A1, A13} \subseteq RegIds
  /\ A0 # ZERO /\ A0 # PC /\ ZERO # PC
  /\ \A rg \in Registers, r \in RegIds : rg[r] \in Word
BY MachineAssumption DEF ZERO, PC, SP, A0, A1, A13, Registers

LEMMA SilentTyped == Silent \in Seq(Word)
BY DEF Silent

LEMMA OutcomeIsLegal ==
  ASSUME NEW rg \in Registers, NEW m \in Memory
  PROVE  Legal(rg, Outcome(rg, m))
BY SilentTyped DEF Outcome, Legal

LEMMA EndsIsPlain ==
  ASSUME NEW rg \in Registers, NEW m \in Memory, NEW st \in {"exited", "fatal", "wild"}
  PROVE  Plain(rg, m, Ends(rg, m, st))
BY SilentTyped DEF Ends, Outcome, Legal, Plain, SameSize

LEMMA PrintsIsPlain ==
  ASSUME NEW rg \in Registers, NEW m \in Memory, NEW words \in Seq(Word)
  PROVE  Plain(rg, m, Prints(rg, m, words))
BY DEF Prints, Outcome, Legal, Plain, SameSize

LEMMA ReturnsIsLegal ==
  ASSUME NEW rg \in Registers, NEW m \in Memory, NEW values, values \subseteq Word,
         NEW o \in Returns(rg, m, values)
  PROVE  Legal(rg, o) /\ o.mem = m
<1>1. PICK v \in values : o = Outcome([rg EXCEPT ![A0] = v], m)
  BY DEF Returns
<1>2. [rg EXCEPT ![A0] = v] \in Registers
  BY DEF Registers
<1>3. \A r \in RegIds \ {A0} : [rg EXCEPT ![A0] = v][r] = rg[r]
  BY DEF Registers
<1> QED
  BY <1>1, <1>2, <1>3, SilentTyped DEF Outcome, Legal

LEMMA ReturnsIsPlain ==
  ASSUME NEW rg \in Registers, NEW m \in Memory, NEW values, values \subseteq Word
  PROVE  Plain(rg, m, Returns(rg, m, values))
BY ReturnsIsLegal DEF Plain, SameSize

LEMMA ReadIsPlain ==
  ASSUME NEW rg \in Registers, NEW m \in Memory
  PROVE  /\ Plain(rg, m, ReadNumber(rg, m))
         /\ Plain(rg, m, ReadChar(rg, m))
         /\ Plain(rg, m, RandRange(rg, m))
<1>1. Samples \cup {0} \subseteq Word
  BY Words, MachineAssumption
<1>2. {v % CharSize : v \in Samples} \cup {MinusOne} \subseteq Word
  <2>1. ASSUME NEW v \in Samples
        PROVE  v % CharSize \in Word
    <3>1. v \in Nat /\ v < WordSize /\ CharSize \in Nat \ {0}
      BY MachineAssumption, WordSizeType DEF Word
    <3>2. v % CharSize \in Nat /\ v % CharSize <= v
      BY <3>1
    <3> QED
      BY <3>1, <3>2, WordSizeType DEF Word
  <2> QED
    BY <2>1, Words
<1>3. Plain(rg, m, RandRange(rg, m))
  <2> DEFINE mn == Signed(rg[A0])
             mx == Signed(rg[A1])
             range == Wrap(mx - mn + 1)
  <2>1. mn \in Int /\ mx \in Int
    BY ArgumentRegisters, SignedIsInt
  <2> HIDE DEF mn, mx
  <2>2. range \in Nat
    <3>1. mx - mn + 1 \in Int
      BY <2>1
    <3> QED
      BY <3>1, WrapIsWord, Words
  <2> HIDE DEF range
  <2>3. range # 0 => {Wrap(mn + (s % range)) : s \in Samples} \subseteq Word
    <3>1. ASSUME range # 0, NEW s \in Samples
          PROVE  mn + (s % range) \in Int
      <4>1. s \in Nat
        BY Words, MachineAssumption
      <4> QED
        BY <2>1, <2>2, <3>1, <4>1
    <3> QED
      BY <3>1, WrapIsWord
  <2>4. RandRange(rg, m) =
          IF mx < mn THEN Ends(rg, m, "fatal")
          ELSE IF range = 0 THEN Ends(rg, m, "wild")
          ELSE Returns(rg, m, {Wrap(mn + (s % range)) : s \in Samples})
    BY DEF RandRange, mn, mx, range
  <2> QED
    BY <2>3, <2>4, EndsIsPlain, ReturnsIsPlain
<1> QED
  BY <1>1, <1>2, <1>3, EndsIsPlain, ReturnsIsPlain DEF ReadNumber, ReadChar

LEMMA ReadStrIsPlain ==
  ASSUME NEW rg \in Registers, NEW m \in Memory
  PROVE  Plain(rg, m, ReadStr(rg, m))
<1>1. rg[A0] \in Word /\ rg[A1] \in Word
  BY ArgumentRegisters
<1>2. CASE rg[A1] = 0
  BY <1>2, OutcomeIsLegal DEF ReadStr, Plain, SameSize, Outcome
<1>3. CASE rg[A1] # 0
  <2> DEFINE room == rg[A1] - 1
             kept(line) == SubSeq(line, 1, IF Len(line) < room THEN Len(line) ELSE room)
             store(line) == StoreAll(m, rg[A0], Append(kept(line), 0))
             o(line) == [Outcome(rg, store(line).mem) EXCEPT !.status = store(line).status]
  <2>1. room \in Nat
    <3>1. rg[A1] \in Nat
      BY <1>1, Words
    <3> QED
      BY <1>3, <3>1
  <2>2. ASSUME NEW line \in Lines
        PROVE  Legal(rg, o(line)) /\ SameSize(m, o(line).mem)
    <3>1. line \in Seq(Word)
      BY MachineAssumption
    <3> DEFINE n == IF Len(line) < room THEN Len(line) ELSE room
    <3>2. n \in 0 .. Len(line)
      BY <2>1, <3>1
    <3> HIDE DEF n
    <3>3. SubSeq(line, 1, n) \in Seq(Word)
      BY <3>1, <3>2
    <3>4. kept(line) \in Seq(Word)
      BY <3>3 DEF n
    <3> HIDE DEF kept
    <3>5. Append(kept(line), 0) \in Seq(Word)
      BY <3>4, Words
    <3>6. /\ store(line).status \in {"running", "fatal", "wild"}
          /\ store(line).mem \in Memory /\ SameSize(m, store(line).mem)
      BY <1>1, <3>5, StoreAllTyped
    <3> HIDE DEF store
    <3> QED
      BY <3>6, SilentTyped DEF Legal, Outcome
  <2>3. ReadStr(rg, m) = {o(line) : line \in Lines}
    BY <1>3 DEF ReadStr
  <2> HIDE DEF o
  <2> QED
    BY <2>2, <2>3 DEF Plain
<1> QED
  BY <1>2, <1>3

(* A string ends: above the stack everything reads as zero.                *)
LEMMA StringEnds ==
  ASSUME NEW m \in Memory, NEW code, IsCode(code), NEW addr \in Word
  PROVE  LoadString(m, code, addr) \in Seq(Word)
<1> DEFINE Char(k) == loadWord(m, code, Wrap(addr + k)) % CharSize
           End(k) == Char(k) = 0 /\ \A j \in 0 .. k - 1 : Char(j) # 0
           Zeros == {k \in 0 .. WordSize : Char(k) = 0}
<1>1. /\ addr \in Nat /\ addr < WordSize /\ WordSize \in Nat /\ CharSize \in Nat \ {0}
      /\ HEAP_ADDR \in Nat /\ STACK_ADDR \in Nat /\ StackWords \in Nat /\ WordBytes \in Nat \ {0}
      /\ HEAP_ADDR < STACK_ADDR /\ STACK_ADDR + STACKSIZE < WordSize
  BY MachineAssumption, WordSizeType DEF Word
<1>2. ASSUME NEW k \in Nat
      PROVE  Char(k) \in Word
  <2>1. addr + k \in Int
    BY <1>1
  <2>2. loadWord(m, code, Wrap(addr + k)) \in Word
    BY <2>1, WrapIsWord, LoadIsWord
  <2> DEFINE w == loadWord(m, code, Wrap(addr + k))
  <2> HIDE DEF w
  <2>3. w \in Nat /\ w < WordSize
    BY <2>2, WordSizeType DEF w, Word
  <2>4. w % CharSize \in Nat /\ w % CharSize <= w
    BY <1>1, <2>3
  <2> QED
    BY <1>1, <2>3, <2>4 DEF w, Word
<1> DEFINE last == WordSize - 1 - addr
<1>3. last \in 0 .. WordSize /\ Wrap(addr + last) = MinusOne
  <2>1. addr + last = MinusOne /\ last \in 0 .. WordSize
    BY <1>1 DEF MinusOne
  <2> QED
    BY <2>1, Words, WrapOfWord
<1>4. loadWord(m, code, MinusOne) = 0
  <2>1. StackWords <= STACKSIZE /\ STACKSIZE \in Nat
    BY <1>1 DEF STACKSIZE
  <2>2. MinusOne >= STACK_ADDR + StackWords /\ MinusOne \in Nat
    BY <1>1, <2>1 DEF MinusOne
  <2>3. ~(MinusOne < HEAP_ADDR) /\ ~InHeap(MinusOne) /\ ~OnStack(MinusOne)
    BY <1>1, <2>2 DEF InHeap, OnStack
  <2> QED
    BY <2>3 DEF loadWord, Allocated
<1>5. Zeros # {} /\ Zeros \subseteq Nat
  <2>1. Char(last) = 0 % CharSize
    BY <1>3, <1>4
  <2>2. 0 % CharSize = 0
    BY <1>1
  <2> HIDE DEF last, Char
  <2> QED
    BY <1>1, <1>3, <2>1, <2>2
<1>6. PICK k \in Zeros : \A j \in Zeros : k <= j
  BY <1>5, LeastElement
<1>7. k \in 0 .. WordSize /\ End(k)
  <2>1. k \in 0 .. WordSize /\ Char(k) = 0
    BY <1>6
  <2>2. ASSUME NEW j \in 0 .. k - 1
        PROVE  Char(j) # 0
    <3>1. j \in 0 .. WordSize /\ ~(k <= j)
      BY <1>1, <2>1
    <3> QED
      BY <1>6, <3>1
  <2> QED
    BY <2>1, <2>2
<1> DEFINE end == CHOOSE n \in 0 .. WordSize : End(n)
<1>8. end \in 0 .. WordSize
  <2> HIDE DEF End
  <2> QED
    BY <1>7
<1>9. LoadString(m, code, addr) = [n \in 1 .. end |-> Char(n - 1)]
  BY DEF LoadString
<1> HIDE DEF end, Char
<1>10. end \in Nat
  BY <1>1, <1>8
<1>11. [n \in 1 .. end |-> Char(n - 1)] \in [1 .. end -> Word]
  <2>1. ASSUME NEW n \in 1 .. end
        PROVE  Char(n - 1) \in Word
    BY <1>2, <1>10
  <2> QED
    BY <2>1
<1> QED
  BY <1>9, <1>10, <1>11

LEMMA PrintStringIsPlain ==
  ASSUME NEW rg \in Registers, NEW m \in Memory, NEW code, IsCode(code), NEW addr \in Word
  PROVE  Plain(rg, m, PrintString(rg, m, code, addr))
BY StringEnds, EndsIsPlain, PrintsIsPlain DEF PrintString

LEMMA FilesArePlain ==
  ASSUME NEW rg \in Registers, NEW m \in Memory, NEW code, IsCode(code)
  PROVE  /\ Plain(rg, m, FileOpen(rg, m))
         /\ Plain(rg, m, FileRead(rg, m))
         /\ Plain(rg, m, FileClose(rg, m))
         /\ Plain(rg, m, FileWrite(rg, m, code))
<1>1. rg[A0] \in Word /\ rg[A1] \in Word
  BY ArgumentRegisters
<1>2. Plain(rg, m, FileOpen(rg, m))
  <2>1. ASSUME FreeSlots(m) # {}
        PROVE  Min(FreeSlots(m)) \in 3 .. MAX_FDS - 1 /\ Min(FreeSlots(m)) \in Word
    <3>1. FreeSlots(m) \subseteq Nat
      BY DEF FreeSlots
    <3>2. Min(FreeSlots(m)) \in FreeSlots(m)
      BY <2>1, <3>1, MinIsElement
    <3> QED
      BY <3>2, MachineAssumption, WordSizeType DEF FreeSlots, Word
  <2> DEFINE slot == Min(FreeSlots(m))
             m2 == [m EXCEPT !.fds = @ \cup {slot}]
  <2>2. ASSUME FreeSlots(m) # {}
        PROVE  Plain(rg, m, Returns(rg, m2, {slot}))
    <3>1. m2 \in Memory /\ SameSize(m, m2)
      BY <2>1, <2>2 DEF Memory, SameSize
    <3>2. {slot} \subseteq Word
      BY <2>1, <2>2
    <3> HIDE DEF m2, slot
    <3> QED
      BY <3>1, <3>2, ReturnsIsLegal DEF Plain
  <2>3. Plain(rg, m, Ends(rg, m, "fatal"))
    BY EndsIsPlain
  <2> QED
    BY <2>2, <2>3 DEF FileOpen, Plain
<1>3. Plain(rg, m, FileRead(rg, m))
  <2> DEFINE store(line) == StoreAll(m, rg[A1], Append(line, 0))
             o(line) == IF store(line).status = "running"
                        THEN Outcome([rg EXCEPT ![A0] = Len(line)], store(line).mem)
                        ELSE [Outcome(rg, store(line).mem) EXCEPT !.status = store(line).status]
  <2>1. ASSUME NEW line \in Lines
        PROVE  Legal(rg, o(line)) /\ SameSize(m, o(line).mem)
    <3>1. line \in Seq(Word) /\ Len(line) \in Word
      BY MachineAssumption
    <3>2. Append(line, 0) \in Seq(Word)
      BY <3>1, Words
    <3>3. /\ store(line).status \in {"running", "fatal", "wild"}
          /\ store(line).mem \in Memory /\ SameSize(m, store(line).mem)
      BY <1>1, <3>2, StoreAllTyped
    <3> HIDE DEF store
    <3>4. CASE store(line).status = "running"
      <4>1. o(line) \in Returns(rg, store(line).mem, {Len(line)})
        BY <3>4 DEF Returns
      <4>2. o(line).mem = store(line).mem
        BY <3>4 DEF Outcome
      <4> QED
        BY <3>1, <3>3, <4>1, <4>2, ReturnsIsLegal
    <3>5. CASE store(line).status # "running"
      BY <3>3, <3>5, SilentTyped DEF Legal, Outcome
    <3> QED
      BY <3>4, <3>5
  <2>2. FileRead(rg, m) =
          IF Fd(rg[A0]) \notin m.fds THEN Ends(rg, m, "fatal") ELSE {o(line) : line \in Lines}
    BY DEF FileRead
  <2> HIDE DEF o
  <2> QED
    BY <2>1, <2>2, EndsIsPlain DEF Plain
<1>4. Plain(rg, m, FileClose(rg, m))
  <2> DEFINE m2 == [m EXCEPT !.fds = @ \ {Fd(rg[A0])}]
  <2>1. m2 \in Memory /\ SameSize(m, m2)
    BY DEF Memory, SameSize
  <2>2. FileClose(rg, m) = {Outcome(rg, m2)} /\ Outcome(rg, m2).mem = m2
    BY DEF FileClose, Outcome
  <2> HIDE DEF m2
  <2> QED
    BY <2>1, <2>2, OutcomeIsLegal DEF Plain
<1>5. Plain(rg, m, FileWrite(rg, m, code))
  BY <1>1, EndsIsPlain, PrintStringIsPlain DEF FileWrite
<1> QED
  BY <1>2, <1>3, <1>4, <1>5

(* The heap: the capacity the code keeps is the array it was given, and    *)
(* what it counts as used is in it.  So it stays unless the capacity asked *)
(* for has more bytes than a word can count and the host grants what is    *)
(* left of them.                                                           *)
HeapSound(m) == m.used <= m.cap /\ m.cap <= Len(m.heap)

Fits(m, nwords) ==
  NewUsed(m, nwords) <= m.cap \/ NewUsed(m, nwords) * WordBytes < WordSize
Refused(m, nwords) ==
  /\ NewUsed(m, nwords) > m.cap
  /\ Wrap(NewUsed(m, nwords) * WordBytes) \div WordBytes > MemoryWords
Straight(m, nwords) == Fits(m, nwords) \/ Refused(m, nwords)

LEMMA GrownTyped ==
  ASSUME NEW m \in Memory, NEW newCap \in Word, NEW m2 \in Grown(m, newCap)
  PROVE  /\ m2 \in Memory /\ m2.used = m.used /\ m2.cap = newCap
         /\ newCap * WordBytes < WordSize => Len(m2.heap) = newCap \/ Len(m2.heap) > newCap
<1> DEFINE words == Wrap(newCap * WordBytes) \div WordBytes
           n == IF Len(m.heap) < words THEN Len(m.heap) ELSE words
<1>1. newCap \in Nat /\ WordBytes \in Nat \ {0}
  BY Words, MachineAssumption
<1>2. newCap * WordBytes \in Nat
  BY <1>1
<1>3. words \in Nat
  <2>1. Wrap(newCap * WordBytes) \in Nat
    <3>1. Wrap(newCap * WordBytes) \in Word
      BY <1>2, WrapIsWord
    <3> QED
      BY <3>1, Words
  <2> QED
    BY <1>1, <2>1
<1>4. newCap * WordBytes < WordSize => words = newCap
  <2>1. ASSUME newCap * WordBytes < WordSize
        PROVE  Wrap(newCap * WordBytes) = newCap * WordBytes
    BY <1>2, <2>1, WrapOfWord, WordSizeType DEF Word
  <2>2. (newCap * WordBytes) \div WordBytes = newCap
    BY <1>1
  <2> QED
    BY <2>1, <2>2
<1>5. m.heap \in Seq(Word) /\ Len(m.heap) \in Nat
  BY DEF Memory
<1> HIDE DEF words
<1>6. PICK junk \in Samples :
        m2 = [m EXCEPT !.cap = newCap,
                       !.heap = SubSeq(m.heap, 1, n) \o [k \in 1 .. words - Len(m.heap) |-> junk]]
  BY DEF Grown, words
<1>7. n \in 0 .. Len(m.heap)
  BY <1>3, <1>5
<1>8. SubSeq(m.heap, 1, n) \in Seq(Word) /\ Len(SubSeq(m.heap, 1, n)) = n
  BY <1>5, <1>7
<1> DEFINE extra == [k \in 1 .. words - Len(m.heap) |-> junk]
<1>9. extra \in Seq(Word) /\ Len(extra) = words - n
  <2>1. junk \in Word
    BY MachineAssumption
  <2>2. words - n \in Nat
    BY <1>3, <1>5
  <2>3. 1 .. words - Len(m.heap) = 1 .. words - n
    BY <1>3, <1>5
  <2>4. extra \in [1 .. words - n -> Word]
    BY <2>1, <2>3
  <2> HIDE DEF extra, n
  <2>5. extra \in Seq(Word)
    BY <2>2, <2>4
  <2> QED
    BY <2>2, <2>4, <2>5
<1> DEFINE old == SubSeq(m.heap, 1, n)
           h == old \o extra
<1>10. h \in Seq(Word) /\ Len(h) = words
  <2>1. old \in Seq(Word) /\ Len(old) = n
    BY <1>8
  <2>2. n \in Int
    BY <1>7
  <2> HIDE DEF old, extra, n
  <2> QED
    BY <1>3, <1>9, <2>1, <2>2, ConcatProperties
<1>11. m2 = [m EXCEPT !.cap = newCap, !.heap = h]
  BY <1>6
<1> HIDE DEF h
<1> QED
  BY <1>4, <1>10, <1>11, <1>1 DEF Memory

LEMMA HeapGrowsByWhatFits ==
  ASSUME NEW rg \in Registers, NEW m \in Memory, NEW o \in HeapGrow(rg, m)
  PROVE  /\ Legal(rg, o)
         /\ m.used <= o.mem.used \/ m.used + rg[A0] >= WordSize
         /\ Fits(m, rg[A0]) /\ HeapSound(m) => HeapSound(o.mem)
<1> DEFINE nwords == rg[A0]
           newCap == NewUsed(m, nwords)
           bytes == Wrap(newCap * WordBytes)
           top == Wrap(m.used + HEAP_ADDR)
           Commit(m2) == Outcome([rg EXCEPT ![A0] = top], [m2 EXCEPT !.used = newCap])
<1>1. nwords \in Nat /\ m.used \in Nat /\ WordBytes \in Nat \ {0} /\ HEAP_ADDR \in Nat
  BY ArgumentRegisters, Words, MachineAssumption DEF Memory
<1>2. newCap \in Word /\ top \in Word
  <2>1. m.used + nwords \in Int /\ m.used + HEAP_ADDR \in Int
    BY <1>1
  <2> QED
    BY <2>1, WrapIsWord DEF NewUsed
<1>3. newCap = m.used + nwords \/ m.used + nwords >= WordSize
  <2>1. m.used + nwords \in Nat
    BY <1>1
  <2> QED
    BY <2>1, WrapOfWord, WordSizeType DEF NewUsed, Word
<1>4. /\ newCap \in Nat /\ m.cap \in Nat
      /\ m.used <= newCap \/ m.used + nwords >= WordSize
  <2>1. newCap \in Nat /\ m.cap \in Nat
    BY <1>2, Words DEF Memory
  <2> HIDE DEF newCap
  <2> QED
    BY <1>1, <1>3, <2>1, WordSizeType
<1>5. Fits(m, nwords) => newCap <= m.cap \/ newCap * WordBytes < WordSize
  BY DEF Fits
<1> HIDE DEF newCap, top
<1>6. ASSUME NEW m2 \in Memory
      PROVE  Legal(rg, Commit(m2)) /\ Commit(m2).mem = [m2 EXCEPT !.used = newCap]
  <2>1. [m2 EXCEPT !.used = newCap] \in Memory
    BY <1>2 DEF Memory
  <2>2. Commit(m2) \in Returns(rg, [m2 EXCEPT !.used = newCap], {top})
    BY DEF Returns
  <2> QED
    BY <1>2, <2>1, <2>2, ReturnsIsLegal
<1>7. ASSUME NEW m2 \in Memory, o \in Returns(rg, m2, {0})
      PROVE  Legal(rg, o) /\ o.mem = m2
  <2>1. {0} \subseteq Word
    BY Words
  <2> QED
    BY <1>7, <2>1, ReturnsIsLegal
<1>8. CASE nwords = 0 /\ o \in Returns(rg, m, {0})
  BY <1>1, <1>7, <1>8
<1>9. CASE nwords # 0 /\ newCap <= m.cap /\ o = Commit(m)
  <2>1. Legal(rg, o) /\ o.mem = [m EXCEPT !.used = newCap]
    BY <1>6, <1>9
  <2>2. o.mem.used = newCap /\ o.mem.cap = m.cap /\ o.mem.heap = m.heap
    BY <2>1 DEF Memory
  <2> QED
    BY <1>1, <1>9, <1>4, <2>1, <2>2 DEF HeapSound
<1>10. ASSUME newCap > m.cap, NEW m2 \in Grown(m, newCap), o = Commit(m2)
      PROVE  /\ Legal(rg, o)
             /\ m.used <= o.mem.used \/ m.used + nwords >= WordSize
             /\ Fits(m, nwords) => HeapSound(o.mem)
  <2>1. /\ m2 \in Memory /\ m2.cap = newCap
        /\ newCap * WordBytes < WordSize => Len(m2.heap) = newCap \/ Len(m2.heap) > newCap
    BY <1>2, GrownTyped
  <2>2. Legal(rg, o) /\ o.mem = [m2 EXCEPT !.used = newCap]
    BY <1>6, <1>10, <2>1
  <2>3. o.mem.used = newCap /\ o.mem.cap = newCap /\ o.mem.heap = m2.heap
    BY <2>1, <2>2 DEF Memory
  <2>4. m2.heap \in Seq(Word) /\ newCap \in Nat
    BY <1>2, <2>1, Words DEF Memory
  <2>5. Fits(m, nwords) => newCap * WordBytes < WordSize
    BY <1>10, <1>4, <1>5
  <2> QED
    BY <1>1, <1>4, <2>1, <2>2, <2>3, <2>4, <2>5 DEF HeapSound
<1>11. CASE nwords # 0 /\ bytes = 0 /\ newCap > m.cap /\ o \in Returns(rg, [m EXCEPT !.heap = <<>>], {0})
  <2>1. [m EXCEPT !.heap = <<>>] \in Memory
    <3>1. <<>> \in Seq(Word)
      OBVIOUS
    <3> QED
      BY <3>1 DEF Memory
  <2>2. Legal(rg, o)
    BY <1>7, <1>11, <2>1
  <2>3. ~Fits(m, nwords)
    <3>1. SUFFICES ASSUME Fits(m, nwords)
                   PROVE  FALSE
      OBVIOUS
    <3>2. newCap > 0 /\ newCap * WordBytes < WordSize
      BY <1>11, <1>4, <1>5, <3>1
    <3>3. newCap * WordBytes \in Nat /\ newCap * WordBytes > 0
      BY <1>1, <1>4, <3>2
    <3>4. newCap * WordBytes \in Word
      BY <3>2, <3>3, WordSizeType DEF Word
    <3> QED
      BY <1>11, <3>3, <3>4, WrapOfWord
  <2>4. o.mem.used = m.used
    BY <1>7, <1>11, <2>1 DEF Memory
  <2> QED
    BY <1>1, <2>2, <2>3, <2>4
<1>12. CASE nwords # 0 /\ o \in Returns(rg, m, {0})
  BY <1>1, <1>7, <1>12, Words
<1>13. \/ nwords = 0 /\ o \in Returns(rg, m, {0})
       \/ nwords # 0 /\ newCap <= m.cap /\ o = Commit(m)
       \/ newCap > m.cap /\ \E m2 \in Grown(m, newCap) : o = Commit(m2)
       \/ nwords # 0 /\ o \in Returns(rg, m, {0})
       \/ nwords # 0 /\ bytes = 0 /\ newCap > m.cap /\ o \in Returns(rg, [m EXCEPT !.heap = <<>>], {0})
  <2>1. HeapGrow(rg, m) =
          CASE nwords = 0 -> Returns(rg, m, {0})
            [] nwords # 0 /\ newCap <= m.cap -> {Commit(m)}
            [] nwords # 0 /\ newCap > m.cap ->
                 (IF bytes \div WordBytes <= MemoryWords
                  THEN {Commit(m2) : m2 \in Grown(m, newCap)} ELSE Returns(rg, m, {0}))
                 \cup (IF bytes = 0 THEN Returns(rg, [m EXCEPT !.heap = <<>>], {0}) ELSE {})
    BY DEF HeapGrow, newCap, top
  <2>2. newCap \in Nat /\ m.cap \in Nat
    BY <1>2, Words DEF Memory
  <2> HIDE DEF Commit, bytes
  <2>3. CASE nwords = 0
    BY <2>1, <2>3
  <2>4. CASE nwords # 0 /\ newCap <= m.cap
    BY <2>1, <2>2, <2>4
  <2>5. CASE nwords # 0 /\ newCap > m.cap
    BY <2>1, <2>2, <2>5
  <2> QED
    BY <2>2, <2>3, <2>4, <2>5
<1> QED
  BY <1>8, <1>9, <1>10, <1>11, <1>12, <1>13

LEMMA RefusedGrowsNothing ==
  ASSUME NEW rg \in Registers, NEW m \in Memory, Refused(m, rg[A0]), NEW o \in HeapGrow(rg, m)
  PROVE  o.mem = m
<1> DEFINE newCap == NewUsed(m, rg[A0])
           bytes == Wrap(newCap * WordBytes)
<1>1. rg[A0] \in Nat /\ m.used \in Nat /\ m.cap \in Nat
      /\ WordBytes \in Nat \ {0} /\ MemoryWords \in Nat
  BY ArgumentRegisters, Words, MachineAssumption DEF Memory
<1>2. newCap \in Nat
  <2>1. m.used + rg[A0] \in Int
    BY <1>1
  <2>2. newCap \in Word
    BY <2>1, WrapIsWord DEF NewUsed
  <2> QED
    BY <2>2, Words
<1>3. newCap > m.cap /\ bytes \div WordBytes > MemoryWords
  BY DEF Refused
<1> HIDE DEF newCap
<1>4. bytes \in Nat
  <2>1. newCap * WordBytes \in Int
    BY <1>1, <1>2
  <2>2. bytes \in Word
    BY <2>1, WrapIsWord
  <2> QED
    BY <2>2, Words
<1> HIDE DEF bytes
<1>5. bytes # 0 /\ ~(bytes \div WordBytes <= MemoryWords) /\ ~(newCap <= m.cap)
  BY <1>1, <1>2, <1>3, <1>4
<1>6. o \in Returns(rg, m, {0})
  BY <1>3, <1>5 DEF HeapGrow, newCap, bytes
<1> QED
  BY <1>6 DEF Returns, Outcome

LEMMA HeapGrowIsLegal ==
  ASSUME NEW rg \in Registers, NEW m \in Memory, NEW o \in HeapGrow(rg, m)
  PROVE  /\ Legal(rg, o)
         /\ m.used <= o.mem.used \/ m.used + rg[A0] >= WordSize
         /\ Straight(m, rg[A0]) /\ HeapSound(m) => HeapSound(o.mem)
<1>1. m.used \in Nat
  BY Words DEF Memory
<1> QED
  BY <1>1, HeapGrowsByWhatFits, RefusedGrowsNothing DEF Straight

LEMMA SameSizeKeepsHeap ==
  ASSUME NEW m \in Memory, NEW m2 \in Memory, SameSize(m, m2)
  PROVE  m.used <= m2.used /\ (HeapSound(m) => HeapSound(m2))
<1>1. m.used \in Nat
  BY Words DEF Memory
<1> QED
  BY <1>1 DEF SameSize, HeapSound

(* All the system calls.                                                   *)
LEMMA SyscallIsLegal ==
  ASSUME NEW rg \in Registers, NEW m \in Memory, NEW code, IsCode(code),
         NEW o \in handleSyscall(rg, m, code)
  PROVE  /\ Legal(rg, o)
         /\ m.used <= o.mem.used \/ (rg[A13] = SYS_HEAP_GROW /\ m.used + rg[A0] >= WordSize)
         /\ (rg[A13] = SYS_HEAP_GROW => Straight(m, rg[A0])) =>
              (HeapSound(m) => HeapSound(o.mem))
<1> DEFINE n == rg[A13]
           words == <<rg[A0]>>
<1> USE DEF SYS_EXIT, SYS_PRINT_INT, SYS_PRINT_UINT, SYS_PRINT_CHAR, SYS_PRINT_FLOAT,
            SYS_PRINT_STR, SYS_READ_INT, SYS_READ_UINT, SYS_READ_CHAR, SYS_READ_FLOAT,
            SYS_READ_STR, SYS_RAND_SEED, SYS_RAND_INT, SYS_RAND_R_INT, SYS_RAND_FLOAT,
            SYS_FILE_OPEN, SYS_FILE_READ, SYS_FILE_CLOSE, SYS_FILE_WRITE, SYS_TIME_GET,
            SYS_TIME_SLEEP, SYS_HEAP_GROW, SYS_HEAP_TOP
<1>1. ASSUME Plain(rg, m, handleSyscall(rg, m, code))
      PROVE  Legal(rg, o) /\ m.used <= o.mem.used /\ (HeapSound(m) => HeapSound(o.mem))
  BY <1>1, SameSizeKeepsHeap DEF Plain, Legal
<1>2. n \in Nat
  BY ArgumentRegisters, Words
<1>3. Samples \subseteq Word /\ Samples \cup {0} \subseteq Word
  BY Words, MachineAssumption
<1>4. Plain(rg, m, {Outcome(rg, m)})
  BY OutcomeIsLegal DEF Plain, SameSize, Outcome
<1>20. rg[A0] \in Word /\ words \in Seq(Word) /\ <<rg[A0] % CharSize>> \in Seq(Word)
  <2>1. rg[A0] \in Word
    BY ArgumentRegisters
  <2>2. rg[A0] \in Nat /\ rg[A0] < WordSize /\ CharSize \in Nat \ {0}
    BY <2>1, MachineAssumption, WordSizeType DEF Word
  <2>3. rg[A0] % CharSize \in Nat /\ rg[A0] % CharSize <= rg[A0]
    BY <2>2
  <2>4. rg[A0] % CharSize \in Word
    BY <2>2, <2>3, WordSizeType DEF Word
  <2> QED
    BY <2>1, <2>4
<1>5. CASE n = SYS_EXIT
  <2>1. handleSyscall(rg, m, code) = Ends(rg, m, "exited")
    BY <1>5 DEF handleSyscall
  <2> QED
    BY <1>1, <2>1, EndsIsPlain
<1>6. CASE n \in {SYS_PRINT_INT, SYS_PRINT_UINT}
  <2>1. handleSyscall(rg, m, code) =
          IF rg[A1] \in Formats THEN Prints(rg, m, words) ELSE Ends(rg, m, "fatal")
    BY <1>6 DEF handleSyscall
  <2> QED
    BY <1>1, <1>20, <2>1, EndsIsPlain, PrintsIsPlain
<1>7. CASE n \in {SYS_PRINT_CHAR, SYS_PRINT_FLOAT}
  <2>1. n = SYS_PRINT_CHAR => handleSyscall(rg, m, code) = Prints(rg, m, <<rg[A0] % CharSize>>)
    BY DEF handleSyscall
  <2>2. n = SYS_PRINT_FLOAT => handleSyscall(rg, m, code) = Prints(rg, m, words)
    BY DEF handleSyscall
  <2> QED
    BY <1>1, <1>7, <1>20, <2>1, <2>2, PrintsIsPlain
<1>8. CASE n = SYS_PRINT_STR
  <2>1. handleSyscall(rg, m, code) = PrintString(rg, m, code, rg[A0])
    BY <1>8 DEF handleSyscall
  <2> QED
    BY <1>1, <1>20, <2>1, PrintStringIsPlain
<1>9. CASE n \in {SYS_READ_INT, SYS_READ_UINT}
  <2>1. handleSyscall(rg, m, code) = ReadNumber(rg, m)
    BY <1>9 DEF handleSyscall
  <2> QED
    BY <1>1, <2>1, ReadIsPlain
<1>10. CASE n = SYS_READ_CHAR
  <2>1. handleSyscall(rg, m, code) = ReadChar(rg, m)
    BY <1>10 DEF handleSyscall
  <2> QED
    BY <1>1, <2>1, ReadIsPlain
<1>11. CASE n = SYS_READ_FLOAT
  <2>1. handleSyscall(rg, m, code) = Returns(rg, m, Samples \cup {0})
    BY <1>11 DEF handleSyscall
  <2> QED
    BY <1>1, <1>3, <2>1, ReturnsIsPlain
<1>12. CASE n = SYS_READ_STR
  <2>1. handleSyscall(rg, m, code) = ReadStr(rg, m)
    BY <1>12 DEF handleSyscall
  <2> QED
    BY <1>1, <2>1, ReadStrIsPlain
<1>13. CASE n \in {SYS_RAND_SEED, SYS_TIME_SLEEP}
  <2>1. handleSyscall(rg, m, code) = {Outcome(rg, m)}
    BY <1>13 DEF handleSyscall
  <2> QED
    BY <1>1, <1>4, <2>1
<1>14. CASE n \in {SYS_RAND_INT, SYS_RAND_FLOAT, SYS_TIME_GET}
  <2>1. handleSyscall(rg, m, code) = Returns(rg, m, Samples)
    BY <1>14 DEF handleSyscall
  <2> QED
    BY <1>1, <1>3, <2>1, ReturnsIsPlain
<1>15. CASE n = SYS_RAND_R_INT
  <2>1. handleSyscall(rg, m, code) = RandRange(rg, m)
    BY <1>15 DEF handleSyscall
  <2> QED
    BY <1>1, <2>1, ReadIsPlain
<1>16. CASE n \in {SYS_FILE_OPEN, SYS_FILE_READ, SYS_FILE_CLOSE, SYS_FILE_WRITE}
  <2>1. n = SYS_FILE_OPEN => handleSyscall(rg, m, code) = FileOpen(rg, m)
    BY DEF handleSyscall
  <2>2. n = SYS_FILE_READ => handleSyscall(rg, m, code) = FileRead(rg, m)
    BY DEF handleSyscall
  <2>3. n = SYS_FILE_CLOSE => handleSyscall(rg, m, code) = FileClose(rg, m)
    BY DEF handleSyscall
  <2>4. n = SYS_FILE_WRITE => handleSyscall(rg, m, code) = FileWrite(rg, m, code)
    BY DEF handleSyscall
  <2> QED
    BY <1>1, <1>16, <2>1, <2>2, <2>3, <2>4, FilesArePlain
<1>17. CASE n = SYS_HEAP_GROW
  <2>1. handleSyscall(rg, m, code) = HeapGrow(rg, m)
    BY <1>17 DEF handleSyscall
  <2> QED
    BY <1>17, <2>1, HeapGrowIsLegal
<1>18. CASE n = SYS_HEAP_TOP
  <2>1. handleSyscall(rg, m, code) = Returns(rg, m, {Wrap(HEAP_ADDR + m.used)})
    BY <1>18 DEF handleSyscall, HeapTop
  <2>2. {Wrap(HEAP_ADDR + m.used)} \subseteq Word
    <3>1. m.used \in Nat /\ HEAP_ADDR \in Nat
      BY Words, MachineAssumption DEF Memory
    <3> QED
      BY <3>1, WrapIsWord
  <2> QED
    BY <1>1, <2>1, <2>2, ReturnsIsPlain
<1>19. CASE n \notin (0 .. 5) \cup (11 .. 15) \cup (21 .. 24) \cup (31 .. 34)
                     \cup {41, 42, 51, 52}
  <2>1. handleSyscall(rg, m, code) = Ends(rg, m, "fatal")
    BY <1>2, <1>19 DEF handleSyscall
  <2> QED
    BY <1>1, <2>1, EndsIsPlain
<1> QED
  BY <1>2, <1>5, <1>6, <1>7, <1>8, <1>9, <1>10, <1>11, <1>12, <1>13, <1>14, <1>15,
     <1>16, <1>17, <1>18, <1>19
-----------------------------------------------------------------------------
(* Extension opcodes.                                                      *)

(* The high word of a product is no more than either factor.               *)
LEMMA HighWord ==
  ASSUME NEW a \in Word, NEW b \in Word
  PROVE  (a * b) \div WordSize \in Word
<1>1. /\ a \in Nat /\ b \in Nat /\ a < WordSize /\ b < WordSize
      /\ WordSize \in Nat \ {0}
  BY WordSizeType DEF Word
<1>2. a * b \in Nat /\ a * b <= WordSize * b
  BY <1>1
<1> DEFINE p == a * b
<1> HIDE DEF p
<1>3. p \in Nat /\ p <= WordSize * b
  BY <1>2 DEF p
<1>4. p \div WordSize \in Nat /\ WordSize * (p \div WordSize) <= p
  BY <1>1, <1>3
<1>5. p \div WordSize <= b
  <2>1. SUFFICES ASSUME p \div WordSize > b
                 PROVE  FALSE
    BY <1>1, <1>4
  <2> DEFINE q == p \div WordSize
  <2>2. q \in Nat /\ q >= b + 1 /\ WordSize * q <= WordSize * b
    BY <1>1, <1>3, <1>4, <2>1
  <2> HIDE DEF q
  <2>3. WordSize * q >= WordSize * (b + 1)
    BY <1>1, <2>2
  <2>4. WordSize * (b + 1) = WordSize * b + WordSize
    BY <1>1
  <2> QED
    BY <1>1, <2>2, <2>3, <2>4
<1> QED
  BY <1>1, <1>4, <1>5, WordSizeType DEF Word, p

LEMMA MultiplyIsWord ==
  ASSUME NEW fn \in MRFunctions, NEW a \in Word, NEW b \in Word, ~Undefined(fn, a, b)
  PROVE  Multiply(fn, a, b) \in Word
<1>1. a \in Nat /\ b \in Nat /\ WordSize \in Nat \ {0}
  BY Words, WordSizeType
<1> DEFINE x == Signed(a)
           y == Signed(b)
<1>2. x \in Int /\ y \in Int /\ (y = 0 => b = 0)
  BY SignedIsInt
<1> HIDE DEF x, y
<1>3. ASSUME y # 0
      PROVE  Quotient(x, y) \in Int
  <2>1. Abs(x) \in Nat /\ Abs(y) \in Nat \ {0}
    BY <1>2, <1>3 DEF Abs
  <2>2. Abs(x) \div Abs(y) \in Int
    BY <2>1
  <2> QED
    BY <2>2 DEF Quotient
<1>4. CASE fn = "mul"
  <2>1. x * y \in Int
    BY <1>2
  <2> QED
    BY <1>4, <2>1, WrapIsWord DEF Multiply, x, y
<1>5. CASE fn = "mulh"
  <2>1. x * y \in Int
    BY <1>2
  <2>2. (x * y) \div WordSize \in Int
    BY <1>1, <2>1
  <2> QED
    BY <1>5, <2>2, WrapIsWord DEF Multiply, x, y
<1>6. CASE fn = "mulhu"
  BY <1>6, HighWord DEF Multiply
<1>7. CASE fn = "div"
  <2>1. Quotient(x, y) \in Int
    BY <1>2, <1>3, <1>7 DEF Undefined
  <2> QED
    BY <1>7, <2>1, WrapIsWord DEF Multiply, x, y
<1>8. CASE fn = "divu"
  <2>1. b \in Nat \ {0}
    BY <1>1, <1>8 DEF Undefined
  <2> QED
    BY <1>8, <2>1, QuotientIsWord DEF Multiply
<1>9. CASE fn = "rem"
  <2>1. Quotient(x, y) \in Int
    BY <1>2, <1>3, <1>9 DEF Undefined
  <2>2. x - y * Quotient(x, y) \in Int
    BY <1>2, <2>1
  <2> QED
    BY <1>9, <2>2, WrapIsWord DEF Multiply, Remainder, x, y
<1>10. CASE fn = "remu"
  <2>1. b \in Nat \ {0} /\ b < WordSize
    BY <1>1, <1>10, WordSizeType DEF Undefined, Word
  <2>2. a % b \in Nat /\ a % b < b
    BY <1>1, <2>1
  <2>3. a % b \in Word
    BY <1>1, <2>1, <2>2 DEF Word
  <2> QED
    BY <1>10, <2>3 DEF Multiply
<1> QED
  BY <1>4, <1>5, <1>6, <1>7, <1>8, <1>9, <1>10 DEF MRFunctions

LEMMA OperandIsWord ==
  ASSUME NEW i \in Instruction, NEW rg \in Registers
  PROVE  rg[i.ra] \in Word /\ rg[i.rb] \in Word /\ Operand(i, rg) \in Word
BY WrapIsWord DEF Instruction, Registers, Operand

(* The registers with one of them written.                                 *)
Put(rg, r, v) == [rg EXCEPT ![r] = v]

LEMMA PutTyped ==
  ASSUME NEW rg \in Registers, NEW r \in RegIds, NEW v \in Word
  PROVE  /\ Put(rg, r, v) \in Registers /\ Put(rg, r, v)[r] = v
         /\ \A q \in RegIds \ {r} : Put(rg, r, v)[q] = rg[q]
BY DEF Put, Registers

(* An extension opcode leaves memory alone, and jumps, writes one register *)
(* or writes none.                                                         *)
LEMMA ExtensionIsLegal ==
  ASSUME NEW i \in Instruction, NEW exts, NEW rg \in Registers, NEW m \in Memory,
         NEW o \in handleExtensionOpcode(i, exts, rg, m)
  PROVE  /\ o.mem = m /\ o.io = Silent
         /\ o.status \in {"running", "fatal", "wild"}
         /\ \/ o.regs = rg
            \/ i.op = "FB" /\ o.regs = Put(rg, PC, Wrap(rg[PC] - 1 + i.imm))
            \/ /\ i.op \in {"FR", "FI", "MR", "MI"}
               /\ \E v \in Word : o.regs = Put(rg, i.rd, v)
<1> DEFINE a == rg[i.ra]
           b == Operand(i, rg)
<1>1. a \in Word /\ b \in Word
  BY OperandIsWord
<1> HIDE DEF a, b
<1>2. CASE ~Handled(i, exts)
  <2>1. o \in Ends(rg, m, "fatal")
    BY <1>2 DEF handleExtensionOpcode
  <2> QED
    BY <2>1 DEF Ends, Outcome
<1>3. CASE Handled(i, exts) /\ i.op \in {"FR", "FI"}
  <2>1. i.fn \in FRFunctions \cup FIFunctions
    BY <1>3 DEF Handled
  <2>2. FloatResult(i.fn, a, b) \in Word
    BY <1>1, <2>1, FloatAssumption
  <2>3. o = Outcome([rg EXCEPT ![i.rd] = FloatResult(i.fn, a, b)], m)
    BY <1>3 DEF handleExtensionOpcode, a, b
  <2> QED
    BY <1>3, <2>2, <2>3 DEF Outcome, Put
<1>4. CASE Handled(i, exts) /\ i.op = "FB"
  <2>1. \/ o = Outcome([rg EXCEPT ![PC] = Wrap(rg[PC] - 1 + i.imm)], m)
        \/ o = Outcome(rg, m)
    BY <1>4 DEF handleExtensionOpcode
  <2> QED
    BY <1>4, <2>1 DEF Outcome, Put
<1>5. CASE Handled(i, exts) /\ i.op \notin {"FR", "FI", "FB"}
  <2>1. i.op \in {"MR", "MI"} /\ i.fn \in MRFunctions
    BY <1>5 DEF Handled, MIFunctions
  <2>2. CASE Undefined(i.fn, a, b)
    <3>1. o \in Ends(rg, m, "wild")
      BY <1>5, <2>2 DEF handleExtensionOpcode, a, b
    <3> QED
      BY <3>1 DEF Ends, Outcome
  <2>3. CASE ~Undefined(i.fn, a, b)
    <3>1. o = Outcome([rg EXCEPT ![i.rd] = Multiply(i.fn, a, b)], m)
      BY <1>5, <2>3 DEF handleExtensionOpcode, a, b
    <3>2. Multiply(i.fn, a, b) \in Word
      BY <1>1, <2>1, <2>3, MultiplyIsWord
    <3> QED
      BY <2>1, <3>1, <3>2 DEF Outcome, Put
  <2> QED
    BY <2>2, <2>3
<1> QED
  BY <1>2, <1>3, <1>4, <1>5
-----------------------------------------------------------------------------
(* An instance's copy of an operator is the operator.                      *)

LEMMA StepOperators ==
  /\ Step!ZERO = ZERO /\ Step!PC = PC /\ Step!SP = SP
  /\ Step!A0 = A0 /\ Step!STACKSIZE = STACKSIZE /\ Step!Silent = Silent
  /\ Step!RFunctions = RFunctions /\ Step!IFunctions = IFunctions /\ Step!BFunctions = BFunctions
  /\ Step!InitialMemory = InitialMemory
  /\ \A n : Step!Wrap(n) = Wrap(n)
  /\ \A fn, a, b : Step!Alu(fn, a, b) = Alu(fn, a, b)
  /\ \A fn, a, b : Step!Taken(fn, a, b) = Taken(fn, a, b)
  /\ \A i, rg : Step!Operand(i, rg) = Operand(i, rg)
  /\ \A rg, m : Step!Outcome(rg, m) = Outcome(rg, m)
  /\ \A rg, m, st : Step!Ends(rg, m, st) = Ends(rg, m, st)
  /\ \A m, addr, v : Step!setWord(m, addr, v) = setWord(m, addr, v)
  /\ \A m, code, addr : Step!loadWord(m, code, addr) = loadWord(m, code, addr)
  /\ \A m, addr : Step!WildLoad(m, addr) = WildLoad(m, addr)
  /\ \A rg, m, code : Step!handleSyscall(rg, m, code) = handleSyscall(rg, m, code)
  /\ \A i, exts, rg, m : Step!handleExtensionOpcode(i, exts, rg, m) = handleExtensionOpcode(i, exts, rg, m)
<1> USE DEF
     ZERO, PC, SP, A0, A1, A13, WordSize, Word, Wrap, Signed, MinusOne, STACKSIZE, BitsOf,
     FromBits, Bool, Alu, Taken, RFunctions, IFunctions, BFunctions, Operand, InitialMemory,
     HeapIndex, InHeap, OnStack, Allocated, Backed, setWord, loadWord, WildLoad, StoreAll,
     LoadString, SymDiff, Max, Min, SYS_EXIT, SYS_PRINT_INT, SYS_PRINT_UINT, SYS_PRINT_CHAR,
     SYS_PRINT_FLOAT, SYS_PRINT_STR, SYS_READ_INT, SYS_READ_UINT, SYS_READ_CHAR,
     SYS_READ_FLOAT, SYS_READ_STR, SYS_RAND_SEED, SYS_RAND_INT, SYS_RAND_R_INT, SYS_RAND_FLOAT,
     SYS_FILE_OPEN, SYS_FILE_READ, SYS_FILE_CLOSE, SYS_FILE_WRITE, SYS_TIME_GET,
     SYS_TIME_SLEEP, SYS_HEAP_GROW, SYS_HEAP_TOP, Silent, Formats, Outcome, Prints, Returns,
     Ends, ReadNumber, ReadChar, ReadStr, RandRange, Fd, FreeSlots, FileOpen, FileRead,
     FileClose, PrintString, FileWrite, Grown, NewUsed, HeapGrow, HeapTop, handleSyscall, Abs,
     Quotient, Remainder, Multiply, Undefined, MRFunctions, MIFunctions, FRFunctions,
     FIFunctions, FBFunctions, Handled, handleExtensionOpcode,
     Step!ZERO, Step!PC, Step!SP, Step!A0, Step!A1, Step!A13, Step!WordSize, Step!Word,
     Step!Wrap, Step!Signed, Step!MinusOne, Step!STACKSIZE, Step!BitsOf, Step!FromBits,
     Step!Bool, Step!Alu, Step!Taken, Step!RFunctions, Step!IFunctions, Step!BFunctions,
     Step!Operand, Step!InitialMemory, Step!HeapIndex, Step!InHeap, Step!OnStack,
     Step!Allocated, Step!Backed, Step!setWord, Step!loadWord, Step!WildLoad, Step!StoreAll,
     Step!LoadString, Step!SymDiff, Step!Max, Step!Min, Step!SYS_EXIT, Step!SYS_PRINT_INT,
     Step!SYS_PRINT_UINT, Step!SYS_PRINT_CHAR, Step!SYS_PRINT_FLOAT, Step!SYS_PRINT_STR,
     Step!SYS_READ_INT, Step!SYS_READ_UINT, Step!SYS_READ_CHAR, Step!SYS_READ_FLOAT,
     Step!SYS_READ_STR, Step!SYS_RAND_SEED, Step!SYS_RAND_INT, Step!SYS_RAND_R_INT,
     Step!SYS_RAND_FLOAT, Step!SYS_FILE_OPEN, Step!SYS_FILE_READ, Step!SYS_FILE_CLOSE,
     Step!SYS_FILE_WRITE, Step!SYS_TIME_GET, Step!SYS_TIME_SLEEP, Step!SYS_HEAP_GROW,
     Step!SYS_HEAP_TOP, Step!Silent, Step!Formats, Step!Outcome, Step!Prints, Step!Returns,
     Step!Ends, Step!ReadNumber, Step!ReadChar, Step!ReadStr, Step!RandRange, Step!Fd,
     Step!FreeSlots, Step!FileOpen, Step!FileRead, Step!FileClose, Step!PrintString,
     Step!FileWrite, Step!Grown, Step!NewUsed, Step!HeapGrow, Step!HeapTop, Step!handleSyscall,
     Step!Abs, Step!Quotient, Step!Remainder, Step!Multiply, Step!Undefined, Step!MRFunctions,
     Step!MIFunctions, Step!FRFunctions, Step!FIFunctions, Step!FBFunctions, Step!Handled,
     Step!handleExtensionOpcode
<1>1. /\ Step!ZERO = ZERO /\ Step!PC = PC /\ Step!SP = SP
      /\ Step!A0 = A0 /\ Step!STACKSIZE = STACKSIZE /\ Step!Silent = Silent
      /\ Step!RFunctions = RFunctions /\ Step!IFunctions = IFunctions /\ Step!BFunctions = BFunctions
      /\ Step!InitialMemory = InitialMemory
  OBVIOUS
<1>2. ASSUME NEW n
      PROVE  Step!Wrap(n) = Wrap(n)
  OBVIOUS
<1>3. ASSUME NEW fn, NEW a, NEW b
      PROVE  Step!Alu(fn, a, b) = Alu(fn, a, b)
  OBVIOUS
<1>4. ASSUME NEW fn, NEW a, NEW b
      PROVE  Step!Taken(fn, a, b) = Taken(fn, a, b)
  OBVIOUS
<1>5. ASSUME NEW i, NEW rg
      PROVE  Step!Operand(i, rg) = Operand(i, rg)
  OBVIOUS
<1>6. ASSUME NEW rg, NEW m
      PROVE  Step!Outcome(rg, m) = Outcome(rg, m)
  OBVIOUS
<1>7. ASSUME NEW rg, NEW m, NEW st
      PROVE  Step!Ends(rg, m, st) = Ends(rg, m, st)
  OBVIOUS
<1>8. ASSUME NEW m, NEW addr, NEW v
      PROVE  Step!setWord(m, addr, v) = setWord(m, addr, v)
  OBVIOUS
<1>9. ASSUME NEW m, NEW code, NEW addr
      PROVE  Step!loadWord(m, code, addr) = loadWord(m, code, addr)
  OBVIOUS
<1>10. ASSUME NEW m, NEW addr
      PROVE  Step!WildLoad(m, addr) = WildLoad(m, addr)
  OBVIOUS
<1>11. ASSUME NEW rg, NEW m, NEW code
      PROVE  Step!handleSyscall(rg, m, code) = handleSyscall(rg, m, code)
  OBVIOUS
<1>12. ASSUME NEW i, NEW exts, NEW rg, NEW m
      PROVE  Step!handleExtensionOpcode(i, exts, rg, m) = handleExtensionOpcode(i, exts, rg, m)
  OBVIOUS
<1> QED
  BY <1>1, <1>2, <1>3, <1>4, <1>5, <1>6, <1>7, <1>8, <1>9, <1>10, <1>11, <1>12

LEMMA RunOperators ==
  /\ Run!ZERO = ZERO /\ Run!PC = PC /\ Run!SP = SP
  /\ Run!A0 = A0 /\ Run!STACKSIZE = STACKSIZE /\ Run!Silent = Silent
  /\ Run!RFunctions = RFunctions /\ Run!IFunctions = IFunctions /\ Run!BFunctions = BFunctions
  /\ Run!InitialMemory = InitialMemory
  /\ \A n : Run!Wrap(n) = Wrap(n)
  /\ \A fn, a, b : Run!Alu(fn, a, b) = Alu(fn, a, b)
  /\ \A fn, a, b : Run!Taken(fn, a, b) = Taken(fn, a, b)
  /\ \A i, rg : Run!Operand(i, rg) = Operand(i, rg)
  /\ \A rg, m : Run!Outcome(rg, m) = Outcome(rg, m)
  /\ \A rg, m, st : Run!Ends(rg, m, st) = Ends(rg, m, st)
  /\ \A m, addr, v : Run!setWord(m, addr, v) = setWord(m, addr, v)
  /\ \A m, code, addr : Run!loadWord(m, code, addr) = loadWord(m, code, addr)
  /\ \A m, addr : Run!WildLoad(m, addr) = WildLoad(m, addr)
  /\ \A rg, m, code : Run!handleSyscall(rg, m, code) = handleSyscall(rg, m, code)
  /\ \A i, exts, rg, m : Run!handleExtensionOpcode(i, exts, rg, m) = handleExtensionOpcode(i, exts, rg, m)
<1> USE DEF
     ZERO, PC, SP, A0, A1, A13, WordSize, Word, Wrap, Signed, MinusOne, STACKSIZE, BitsOf,
     FromBits, Bool, Alu, Taken, RFunctions, IFunctions, BFunctions, Operand, InitialMemory,
     HeapIndex, InHeap, OnStack, Allocated, Backed, setWord, loadWord, WildLoad, StoreAll,
     LoadString, SymDiff, Max, Min, SYS_EXIT, SYS_PRINT_INT, SYS_PRINT_UINT, SYS_PRINT_CHAR,
     SYS_PRINT_FLOAT, SYS_PRINT_STR, SYS_READ_INT, SYS_READ_UINT, SYS_READ_CHAR,
     SYS_READ_FLOAT, SYS_READ_STR, SYS_RAND_SEED, SYS_RAND_INT, SYS_RAND_R_INT, SYS_RAND_FLOAT,
     SYS_FILE_OPEN, SYS_FILE_READ, SYS_FILE_CLOSE, SYS_FILE_WRITE, SYS_TIME_GET,
     SYS_TIME_SLEEP, SYS_HEAP_GROW, SYS_HEAP_TOP, Silent, Formats, Outcome, Prints, Returns,
     Ends, ReadNumber, ReadChar, ReadStr, RandRange, Fd, FreeSlots, FileOpen, FileRead,
     FileClose, PrintString, FileWrite, Grown, NewUsed, HeapGrow, HeapTop, handleSyscall, Abs,
     Quotient, Remainder, Multiply, Undefined, MRFunctions, MIFunctions, FRFunctions,
     FIFunctions, FBFunctions, Handled, handleExtensionOpcode,
     Run!ZERO, Run!PC, Run!SP, Run!A0, Run!A1, Run!A13, Run!WordSize, Run!Word, Run!Wrap,
     Run!Signed, Run!MinusOne, Run!STACKSIZE, Run!BitsOf, Run!FromBits, Run!Bool, Run!Alu,
     Run!Taken, Run!RFunctions, Run!IFunctions, Run!BFunctions, Run!Operand, Run!InitialMemory,
     Run!HeapIndex, Run!InHeap, Run!OnStack, Run!Allocated, Run!Backed, Run!setWord,
     Run!loadWord, Run!WildLoad, Run!StoreAll, Run!LoadString, Run!SymDiff, Run!Max, Run!Min,
     Run!SYS_EXIT, Run!SYS_PRINT_INT, Run!SYS_PRINT_UINT, Run!SYS_PRINT_CHAR,
     Run!SYS_PRINT_FLOAT, Run!SYS_PRINT_STR, Run!SYS_READ_INT, Run!SYS_READ_UINT,
     Run!SYS_READ_CHAR, Run!SYS_READ_FLOAT, Run!SYS_READ_STR, Run!SYS_RAND_SEED,
     Run!SYS_RAND_INT, Run!SYS_RAND_R_INT, Run!SYS_RAND_FLOAT, Run!SYS_FILE_OPEN,
     Run!SYS_FILE_READ, Run!SYS_FILE_CLOSE, Run!SYS_FILE_WRITE, Run!SYS_TIME_GET,
     Run!SYS_TIME_SLEEP, Run!SYS_HEAP_GROW, Run!SYS_HEAP_TOP, Run!Silent, Run!Formats,
     Run!Outcome, Run!Prints, Run!Returns, Run!Ends, Run!ReadNumber, Run!ReadChar, Run!ReadStr,
     Run!RandRange, Run!Fd, Run!FreeSlots, Run!FileOpen, Run!FileRead, Run!FileClose,
     Run!PrintString, Run!FileWrite, Run!Grown, Run!NewUsed, Run!HeapGrow, Run!HeapTop,
     Run!handleSyscall, Run!Abs, Run!Quotient, Run!Remainder, Run!Multiply, Run!Undefined,
     Run!MRFunctions, Run!MIFunctions, Run!FRFunctions, Run!FIFunctions, Run!FBFunctions,
     Run!Handled, Run!handleExtensionOpcode
<1>1. /\ Run!ZERO = ZERO /\ Run!PC = PC /\ Run!SP = SP
      /\ Run!A0 = A0 /\ Run!STACKSIZE = STACKSIZE /\ Run!Silent = Silent
      /\ Run!RFunctions = RFunctions /\ Run!IFunctions = IFunctions /\ Run!BFunctions = BFunctions
      /\ Run!InitialMemory = InitialMemory
  OBVIOUS
<1>2. ASSUME NEW n
      PROVE  Run!Wrap(n) = Wrap(n)
  OBVIOUS
<1>3. ASSUME NEW fn, NEW a, NEW b
      PROVE  Run!Alu(fn, a, b) = Alu(fn, a, b)
  OBVIOUS
<1>4. ASSUME NEW fn, NEW a, NEW b
      PROVE  Run!Taken(fn, a, b) = Taken(fn, a, b)
  OBVIOUS
<1>5. ASSUME NEW i, NEW rg
      PROVE  Run!Operand(i, rg) = Operand(i, rg)
  OBVIOUS
<1>6. ASSUME NEW rg, NEW m
      PROVE  Run!Outcome(rg, m) = Outcome(rg, m)
  OBVIOUS
<1>7. ASSUME NEW rg, NEW m, NEW st
      PROVE  Run!Ends(rg, m, st) = Ends(rg, m, st)
  OBVIOUS
<1>8. ASSUME NEW m, NEW addr, NEW v
      PROVE  Run!setWord(m, addr, v) = setWord(m, addr, v)
  OBVIOUS
<1>9. ASSUME NEW m, NEW code, NEW addr
      PROVE  Run!loadWord(m, code, addr) = loadWord(m, code, addr)
  OBVIOUS
<1>10. ASSUME NEW m, NEW addr
      PROVE  Run!WildLoad(m, addr) = WildLoad(m, addr)
  OBVIOUS
<1>11. ASSUME NEW rg, NEW m, NEW code
      PROVE  Run!handleSyscall(rg, m, code) = handleSyscall(rg, m, code)
  OBVIOUS
<1>12. ASSUME NEW i, NEW exts, NEW rg, NEW m
      PROVE  Run!handleExtensionOpcode(i, exts, rg, m) = handleExtensionOpcode(i, exts, rg, m)
  OBVIOUS
<1> QED
  BY <1>1, <1>2, <1>3, <1>4, <1>5, <1>6, <1>7, <1>8, <1>9, <1>10, <1>11, <1>12

LEMMA IsaOperators ==
  /\ I!ZERO = ZERO /\ I!PC = PC /\ I!SP = SP
  /\ I!A0 = A0 /\ I!STACKSIZE = STACKSIZE /\ I!Silent = Silent
  /\ I!RFunctions = RFunctions /\ I!IFunctions = IFunctions /\ I!BFunctions = BFunctions
  /\ I!InitialMemory = InitialMemory
  /\ \A n : I!Wrap(n) = Wrap(n)
  /\ \A fn, a, b : I!Alu(fn, a, b) = Alu(fn, a, b)
  /\ \A fn, a, b : I!Taken(fn, a, b) = Taken(fn, a, b)
  /\ \A i, rg : I!Operand(i, rg) = Operand(i, rg)
  /\ \A rg, m : I!Outcome(rg, m) = Outcome(rg, m)
  /\ \A rg, m, st : I!Ends(rg, m, st) = Ends(rg, m, st)
  /\ \A m, addr, v : I!setWord(m, addr, v) = setWord(m, addr, v)
  /\ \A m, code, addr : I!loadWord(m, code, addr) = loadWord(m, code, addr)
  /\ \A m, addr : I!WildLoad(m, addr) = WildLoad(m, addr)
  /\ \A rg, m, code : I!handleSyscall(rg, m, code) = handleSyscall(rg, m, code)
  /\ \A i, exts, rg, m : I!handleExtensionOpcode(i, exts, rg, m) = handleExtensionOpcode(i, exts, rg, m)
<1> USE DEF
     ZERO, PC, SP, A0, A1, A13, WordSize, Word, Wrap, Signed, MinusOne, STACKSIZE, BitsOf,
     FromBits, Bool, Alu, Taken, RFunctions, IFunctions, BFunctions, Operand, InitialMemory,
     HeapIndex, InHeap, OnStack, Allocated, Backed, setWord, loadWord, WildLoad, StoreAll,
     LoadString, SymDiff, Max, Min, SYS_EXIT, SYS_PRINT_INT, SYS_PRINT_UINT, SYS_PRINT_CHAR,
     SYS_PRINT_FLOAT, SYS_PRINT_STR, SYS_READ_INT, SYS_READ_UINT, SYS_READ_CHAR,
     SYS_READ_FLOAT, SYS_READ_STR, SYS_RAND_SEED, SYS_RAND_INT, SYS_RAND_R_INT, SYS_RAND_FLOAT,
     SYS_FILE_OPEN, SYS_FILE_READ, SYS_FILE_CLOSE, SYS_FILE_WRITE, SYS_TIME_GET,
     SYS_TIME_SLEEP, SYS_HEAP_GROW, SYS_HEAP_TOP, Silent, Formats, Outcome, Prints, Returns,
     Ends, ReadNumber, ReadChar, ReadStr, RandRange, Fd, FreeSlots, FileOpen, FileRead,
     FileClose, PrintString, FileWrite, Grown, NewUsed, HeapGrow, HeapTop, handleSyscall, Abs,
     Quotient, Remainder, Multiply, Undefined, MRFunctions, MIFunctions, FRFunctions,
     FIFunctions, FBFunctions, Handled, handleExtensionOpcode,
     I!ZERO, I!PC, I!SP, I!A0, I!A1, I!A13, I!WordSize, I!Word, I!Wrap, I!Signed, I!MinusOne,
     I!STACKSIZE, I!BitsOf, I!FromBits, I!Bool, I!Alu, I!Taken, I!RFunctions, I!IFunctions,
     I!BFunctions, I!Operand, I!InitialMemory, I!HeapIndex, I!InHeap, I!OnStack, I!Allocated,
     I!Backed, I!setWord, I!loadWord, I!WildLoad, I!StoreAll, I!LoadString, I!SymDiff, I!Max,
     I!Min, I!SYS_EXIT, I!SYS_PRINT_INT, I!SYS_PRINT_UINT, I!SYS_PRINT_CHAR, I!SYS_PRINT_FLOAT,
     I!SYS_PRINT_STR, I!SYS_READ_INT, I!SYS_READ_UINT, I!SYS_READ_CHAR, I!SYS_READ_FLOAT,
     I!SYS_READ_STR, I!SYS_RAND_SEED, I!SYS_RAND_INT, I!SYS_RAND_R_INT, I!SYS_RAND_FLOAT,
     I!SYS_FILE_OPEN, I!SYS_FILE_READ, I!SYS_FILE_CLOSE, I!SYS_FILE_WRITE, I!SYS_TIME_GET,
     I!SYS_TIME_SLEEP, I!SYS_HEAP_GROW, I!SYS_HEAP_TOP, I!Silent, I!Formats, I!Outcome,
     I!Prints, I!Returns, I!Ends, I!ReadNumber, I!ReadChar, I!ReadStr, I!RandRange, I!Fd,
     I!FreeSlots, I!FileOpen, I!FileRead, I!FileClose, I!PrintString, I!FileWrite, I!Grown,
     I!NewUsed, I!HeapGrow, I!HeapTop, I!handleSyscall, I!Abs, I!Quotient, I!Remainder,
     I!Multiply, I!Undefined, I!MRFunctions, I!MIFunctions, I!FRFunctions, I!FIFunctions,
     I!FBFunctions, I!Handled, I!handleExtensionOpcode
<1>1. /\ I!ZERO = ZERO /\ I!PC = PC /\ I!SP = SP
      /\ I!A0 = A0 /\ I!STACKSIZE = STACKSIZE /\ I!Silent = Silent
      /\ I!RFunctions = RFunctions /\ I!IFunctions = IFunctions /\ I!BFunctions = BFunctions
      /\ I!InitialMemory = InitialMemory
  OBVIOUS
<1>2. ASSUME NEW n
      PROVE  I!Wrap(n) = Wrap(n)
  OBVIOUS
<1>3. ASSUME NEW fn, NEW a, NEW b
      PROVE  I!Alu(fn, a, b) = Alu(fn, a, b)
  OBVIOUS
<1>4. ASSUME NEW fn, NEW a, NEW b
      PROVE  I!Taken(fn, a, b) = Taken(fn, a, b)
  OBVIOUS
<1>5. ASSUME NEW i, NEW rg
      PROVE  I!Operand(i, rg) = Operand(i, rg)
  OBVIOUS
<1>6. ASSUME NEW rg, NEW m
      PROVE  I!Outcome(rg, m) = Outcome(rg, m)
  OBVIOUS
<1>7. ASSUME NEW rg, NEW m, NEW st
      PROVE  I!Ends(rg, m, st) = Ends(rg, m, st)
  OBVIOUS
<1>8. ASSUME NEW m, NEW addr, NEW v
      PROVE  I!setWord(m, addr, v) = setWord(m, addr, v)
  OBVIOUS
<1>9. ASSUME NEW m, NEW code, NEW addr
      PROVE  I!loadWord(m, code, addr) = loadWord(m, code, addr)
  OBVIOUS
<1>10. ASSUME NEW m, NEW addr
      PROVE  I!WildLoad(m, addr) = WildLoad(m, addr)
  OBVIOUS
<1>11. ASSUME NEW rg, NEW m, NEW code
      PROVE  I!handleSyscall(rg, m, code) = handleSyscall(rg, m, code)
  OBVIOUS
<1>12. ASSUME NEW i, NEW exts, NEW rg, NEW m
      PROVE  I!handleExtensionOpcode(i, exts, rg, m) = handleExtensionOpcode(i, exts, rg, m)
  OBVIOUS
<1> QED
  BY <1>1, <1>2, <1>3, <1>4, <1>5, <1>6, <1>7, <1>8, <1>9, <1>10, <1>11, <1>12
-----------------------------------------------------------------------------
(* What executing an instruction with the registers rg may do, whichever   *)
(* engine does it: the instruction set's outcomes, of Isa.                 *)

Executes(i, rg) ==
  LET a == rg[i.ra]
      b == Operand(i, rg)
      addr == Wrap(a + i.imm)
      store == setWord(mem, addr, b)
      Write(v) == {Outcome([rg EXCEPT ![i.rd] = v], mem)}
  IN  CASE (i.op = "R" /\ i.fn \in RFunctions) \/ (i.op = "I" /\ i.fn \in IFunctions) ->
             Write(Alu(i.fn, a, b))
        [] i.op = "I" /\ i.fn = "jmp" ->
             {Outcome([rg EXCEPT ![PC] = addr, ![i.rd] = rg[PC]], mem)}
        [] i.op = "S" /\ i.fn = "sw" ->
             {[Outcome(rg, store.mem) EXCEPT !.status = store.status]}
        [] i.op = "L" /\ i.fn = "lw" ->
             IF WildLoad(mem, addr) THEN Ends(rg, mem, "wild")
                                    ELSE Write(loadWord(mem, prog, addr))
        [] i.op = "B" /\ i.fn \in BFunctions ->
             {Outcome(IF Taken(i.fn, a, b) THEN [rg EXCEPT ![PC] = Wrap(rg[PC] - 1 + i.imm)]
                                           ELSE rg, mem)}
        [] i.op = "SYS" /\ i.fn = "halt" -> Ends(rg, mem, "stopped")
        [] i.op = "SYS" /\ i.fn = "syscall" -> handleSyscall(rg, mem, prog)
        [] i.op = "SYS" /\ i.fn \in {"nop", "break"} -> {Outcome(rg, mem)}
        [] OTHER -> handleExtensionOpcode(i, extensions, rg, mem)

Arithmetic(i) == (i.op = "R" /\ i.fn \in RFunctions) \/ (i.op = "I" /\ i.fn \in IFunctions)

Known(i) ==
  \/ Arithmetic(i) \/ (i.op = "I" /\ i.fn = "jmp") \/ (i.op = "S" /\ i.fn = "sw")
  \/ (i.op = "L" /\ i.fn = "lw") \/ (i.op = "B" /\ i.fn \in BFunctions)
  \/ (i.op = "SYS" /\ i.fn \in {"halt", "syscall", "nop", "break"})
-----------------------------------------------------------------------------
(* The inductive invariant.  The program does not change, so what the rule *)
(* keepers keep stays true of it; under the rules neither engine has left  *)
(* the code while it is running.                                           *)

ProgramOK ==
  /\ prog \in Seq(Instruction) /\ Len(prog) <= HEAP_ADDR
  /\ \A j \in DOMAIN prog : CodeWord(prog[j]) \in Word

TypeInv == TypeOK /\ mem \in Memory /\ ProgramOK

Lawful ==
  lawful =>
    /\ \A k \in DOMAIN prog :
         /\ PC \notin {prog[k].rd, prog[k].ra, prog[k].rb}
         /\ prog[k].op = "FB" => k - 1 + prog[k].imm \in 0 .. Len(prog)
    /\ status = "running" =>
         IF engine = "step" THEN regs[PC] < Len(prog) ELSE pc <= Len(prog)

IInv == TypeInv /\ ZeroReadsZero /\ Lawful

(* The instruction that can grow the heap.                                 *)
Grows(i, rg) == i.op = "SYS" /\ i.fn = "syscall" /\ rg[A13] = SYS_HEAP_GROW

(* Addresses in the code, and the sentinel's, are words.                   *)
LEMMA CodeSize ==
  ASSUME TypeInv
  PROVE  /\ Len(prog) \in Nat /\ DOMAIN prog = 1 .. Len(prog)
         /\ Len(prog) + 1 < WordSize /\ IsCode(prog)
         /\ \A j \in Nat : j < Len(prog) => j + 1 \in DOMAIN prog /\ prog[j + 1] \in Instruction
<1>1. prog \in Seq(Instruction) /\ Len(prog) <= HEAP_ADDR
  BY DEF TypeInv, ProgramOK
<1>2. Len(prog) \in Nat /\ DOMAIN prog = 1 .. Len(prog) /\ \A j \in 1 .. Len(prog) : prog[j] \in Instruction
  BY <1>1
<1>3. HEAP_ADDR \in Nat /\ HEAP_ADDR + 1 < WordSize
  BY MachineAssumption, WordSizeType DEF STACKSIZE
<1> QED
  BY <1>1, <1>2, <1>3, WordSizeType DEF TypeInv, ProgramOK, IsCode

(* What leaves the memory alone takes no heap words back.                  *)
LEMMA SameMemory ==
  ASSUME NEW m \in Memory
  PROVE  m.used <= m.used /\ (HeapSound(m) => HeapSound(m))
<1>1. m.used \in Nat
  BY Words DEF Memory
<1> QED
  BY <1>1

(* Whatever is executed, registers and memory stay well formed.            *)
LEMMA ExecutesIsLegal ==
  ASSUME TypeInv, NEW i \in Instruction, NEW rg \in Registers, NEW o \in Executes(i, rg)
  PROVE  /\ o.regs \in Registers /\ o.mem \in Memory /\ o.io \in Seq(Word)
         /\ o.status \in {"running", "stopped", "exited", "fatal", "wild"}
         /\ mem.used <= o.mem.used \/ (Grows(i, rg) /\ mem.used + rg[A0] >= WordSize)
         /\ (Grows(i, rg) => Straight(mem, rg[A0])) => (HeapSound(mem) => HeapSound(o.mem))
<1> DEFINE a == rg[i.ra]
           b == Operand(i, rg)
           addr == Wrap(a + i.imm)
           store == setWord(mem, addr, b)
<1>0. "jmp" \notin IFunctions /\ "jmp" \notin RFunctions
  BY DEF IFunctions, RFunctions
<1>1. mem \in Memory /\ IsCode(prog)
  BY CodeSize DEF TypeInv
<1>2. a \in Word /\ b \in Word /\ i.imm \in Int /\ i.rd \in RegIds
  BY OperandIsWord DEF Instruction
<1>3. addr \in Word
  <2>1. a \in Nat
    BY <1>2, Words
  <2>2. a + i.imm \in Int
    BY <1>2, <2>1
  <2> QED
    BY <2>2, WrapIsWord
<1>4. ASSUME NEW v \in Word
      PROVE  [rg EXCEPT ![i.rd] = v] \in Registers
  BY <1>4 DEF Registers
<1>5. PC \in RegIds /\ rg[PC] \in Word /\ Wrap(rg[PC] - 1 + i.imm) \in Word
  <2>1. PC \in RegIds /\ rg[PC] \in Word
    BY ArgumentRegisters
  <2>2. rg[PC] \in Nat
    BY <2>1, Words
  <2>3. rg[PC] - 1 + i.imm \in Int
    BY <1>2, <2>2
  <2> QED
    BY <2>1, <2>3, WrapIsWord
<1> HIDE DEF a, b, addr
<1>6. ASSUME NEW v \in Word, o = Outcome([rg EXCEPT ![i.rd] = v], mem)
      PROVE  o.regs \in Registers /\ o.mem = mem /\ o.status = "running" /\ o.io \in Seq(Word)
  BY <1>4, <1>6, SilentTyped DEF Outcome
<1>7. CASE Arithmetic(i)
  <2>1. o = Outcome([rg EXCEPT ![i.rd] = Alu(i.fn, a, b)], mem)
    BY <1>7, <1>0 DEF Executes, Arithmetic, a, b
  <2>2. Alu(i.fn, a, b) \in Word
    BY <1>2, <1>7, AluIsWord DEF Arithmetic, IFunctions
  <2> QED
    BY <1>1, <1>6, <2>1, <2>2, SameMemory
<1>8. CASE i.op = "I" /\ i.fn = "jmp"
  <2>1. o = Outcome([rg EXCEPT ![PC] = addr, ![i.rd] = rg[PC]], mem)
    BY <1>8, <1>0 DEF Executes, Arithmetic, a, addr
  <2>2. [rg EXCEPT ![PC] = addr, ![i.rd] = rg[PC]] \in Registers
    BY <1>3, <1>5 DEF Registers
  <2> QED
    BY <1>1, <2>1, <2>2, SilentTyped, SameMemory DEF Outcome
<1>9. CASE i.op = "S" /\ i.fn = "sw"
  <2>1. o = [Outcome(rg, store.mem) EXCEPT !.status = store.status]
    BY <1>9, <1>0 DEF Executes, Arithmetic, a, b, addr
  <2>2. store.mem \in Memory /\ SameSize(mem, store.mem)
    BY <1>1, <1>2, <1>3, StoreTyped
  <2>3. store.status \in {"running", "fatal", "wild"}
    BY <1>3, StoreStatus
  <2> HIDE DEF store
  <2> QED
    BY <1>1, <2>1, <2>2, <2>3, SilentTyped, SameSizeKeepsHeap DEF Outcome
<1>10. CASE i.op = "L" /\ i.fn = "lw"
  <2>1. \/ o \in Ends(rg, mem, "wild")
        \/ o = Outcome([rg EXCEPT ![i.rd] = loadWord(mem, prog, addr)], mem)
    BY <1>10, <1>0 DEF Executes, Arithmetic, a, addr
  <2>2. loadWord(mem, prog, addr) \in Word
    BY <1>1, <1>3, LoadIsWord
  <2>3. CASE o \in Ends(rg, mem, "wild")
    BY <1>1, <2>3, SilentTyped, SameMemory DEF Ends, Outcome
  <2> QED
    BY <1>1, <1>6, <2>1, <2>2, <2>3, SameMemory
<1>11. CASE i.op = "B" /\ i.fn \in BFunctions
  <2>1. \/ o = Outcome([rg EXCEPT ![PC] = Wrap(rg[PC] - 1 + i.imm)], mem)
        \/ o = Outcome(rg, mem)
    BY <1>11, <1>0 DEF Executes, Arithmetic, Known
  <2>3. [rg EXCEPT ![PC] = Wrap(rg[PC] - 1 + i.imm)] \in Registers
    BY <1>5 DEF Registers
  <2> QED
    BY <1>1, <2>1, <2>3, SilentTyped, SameMemory DEF Outcome
<1>12. CASE i.op = "SYS" /\ i.fn \in {"halt", "nop", "break"}
  <2>1. o \in Ends(rg, mem, "stopped") \/ o = Outcome(rg, mem)
    BY <1>12, <1>0 DEF Executes, Arithmetic, Known
  <2> QED
    BY <1>1, <2>1, SilentTyped, SameMemory DEF Ends, Outcome
<1>13. CASE i.op = "SYS" /\ i.fn = "syscall"
  <2>1. o \in handleSyscall(rg, mem, prog)
    BY <1>13, <1>0 DEF Executes, Arithmetic, Known
  <2> QED
    BY <1>1, <1>13, <2>1, SyscallIsLegal DEF Legal, Grows
<1>14. CASE ~Known(i)
  <2>1. o \in handleExtensionOpcode(i, extensions, rg, mem)
    BY <1>14, <1>0 DEF Executes, Arithmetic, Known
  <2>3. o.regs \in Registers
    <3>1. \/ o.regs = rg
          \/ o.regs = Put(rg, PC, Wrap(rg[PC] - 1 + i.imm))
          \/ \E v \in Word : o.regs = Put(rg, i.rd, v)
      BY <1>1, <2>1, ExtensionIsLegal
    <3>2. Put(rg, PC, Wrap(rg[PC] - 1 + i.imm)) \in Registers
      BY <1>5, PutTyped
    <3>3. ASSUME NEW v \in Word
          PROVE  Put(rg, i.rd, v) \in Registers
      BY <1>2, PutTyped
    <3> QED
      BY <3>1, <3>2, <3>3
  <2>4. o.mem = mem /\ o.io = Silent /\ o.status \in {"running", "fatal", "wild"}
    BY <1>1, <2>1, ExtensionIsLegal
  <2> QED
    BY <1>1, <2>3, <2>4, SilentTyped, SameMemory
<1> QED
  BY <1>7, <1>8, <1>9, <1>10, <1>11, <1>12, <1>13, <1>14 DEF Known
-----------------------------------------------------------------------------
(* What step() fetches: an instruction of the program, unless its counter  *)
(* is past the end.                                                        *)
LEMMA StepFetches ==
  ASSUME TypeInv, regs[PC] < Len(prog)
  PROVE  /\ Step!Instr = prog[regs[PC] + 1] /\ Step!Instr \in Instruction
         /\ Step!Fetched = Put(regs, PC, regs[PC] + 1) /\ Step!Fetched \in Registers
<1>1. regs \in Registers /\ PC \in RegIds
  BY ArgumentRegisters DEF TypeInv, TypeOK, Registers
<1>2. regs[PC] \in Nat
  BY <1>1, ArgumentRegisters, Words
<1>3. regs[PC] + 1 \in Word
  <2>1. Len(prog) \in Nat /\ Len(prog) + 1 < WordSize
    BY CodeSize
  <2> QED
    BY <1>2, <2>1, WordSizeType DEF Word
<1>4. Wrap(regs[PC] + 1) = regs[PC] + 1
  BY <1>3, WrapOfWord
<1>5. Step!Instr = prog[regs[PC] + 1]
  BY StepOperators DEF Step!Instr
<1>6. Step!Fetched = Put(regs, PC, regs[PC] + 1)
  BY <1>4, StepOperators DEF Step!Fetched, Put
<1> QED
  BY <1>1, <1>2, <1>3, <1>5, <1>6, CodeSize, PutTyped

(* A step of step() executes the instruction its counter is at, or dies.   *)
LEMMA StepExecutes ==
  ASSUME TypeInv, Step!Next
  PROVE  /\ status = "running"
         /\ \/ ~(regs[PC] < Len(prog)) /\ Step!Dies("wild")
            \/ /\ regs[PC] < Len(prog)
               /\ \E o \in Executes(Step!Instr, Step!Fetched) :
                    \/ o.status \in {"fatal", "wild"} /\ Step!Dies(o.status)
                    \/ o.status \notin {"fatal", "wild"} /\ Step!Epilogue(o.regs, o.mem, o.status, o.io)
<1> DEFINE i == Step!Instr
           rg == Step!Fetched
           a == rg[i.ra]
           b == Operand(i, rg)
           addr == Wrap(a + i.imm)
<1> HIDE DEF i, rg
<1> USE DEF Step!InCode, Step!Fetches
<1>0. "jmp" \notin IFunctions /\ "jmp" \notin RFunctions
  BY DEF IFunctions, RFunctions
<1>1. SUFFICES ASSUME ~Step!WildFetch, regs[PC] < Len(prog), status = "running"
               PROVE  \E o \in Executes(i, rg) :
                        \/ o.status \in {"fatal", "wild"} /\ Step!Dies(o.status)
                        \/ o.status \notin {"fatal", "wild"}
                           /\ Step!Epilogue(o.regs, o.mem, o.status, o.io)
  BY StepOperators
     DEF i, rg, Step!Next, Step!WildFetch, Step!ExecArithmetic, Step!ExecJmp, Step!ExecStore,
         Step!ExecLoad, Step!ExecBranch, Step!ExecHalt, Step!ExecIdle, Step!ExecSyscall,
         Step!ExecExtension, Step!ExecIllegal
<1>2. ASSUME NEW r, Outcome(r, mem) \in Executes(i, rg), Step!Epilogue(r, mem, "running", Silent)
      PROVE  \E o \in Executes(i, rg) :
               o.status \notin {"fatal", "wild"} /\ Step!Epilogue(o.regs, o.mem, o.status, o.io)
  <2>1. /\ Outcome(r, mem).regs = r /\ Outcome(r, mem).mem = mem
        /\ Outcome(r, mem).status = "running" /\ Outcome(r, mem).io = Silent
    BY DEF Outcome
  <2> QED
    BY <1>2, <2>1
<1>3. CASE Step!ExecArithmetic
  <2> DEFINE r == [rg EXCEPT ![i.rd] = Alu(i.fn, a, b)]
  <2>1. Arithmetic(i)
    BY <1>3, StepOperators DEF i, Step!ExecArithmetic, Arithmetic
  <2>2. Outcome(r, mem) \in Executes(i, rg)
    BY <1>0, <2>1 DEF Executes, Arithmetic
  <2>3. Step!Epilogue(r, mem, "running", Silent)
    BY <1>3, StepOperators DEF i, rg, Step!ExecArithmetic, Step!Continue
  <2> HIDE DEF r
  <2> QED
    BY <1>2, <2>2, <2>3
<1>4. CASE Step!ExecJmp
  <2> DEFINE r == [rg EXCEPT ![PC] = addr, ![i.rd] = rg[PC]]
  <2>1. i.op = "I" /\ i.fn = "jmp"
    BY <1>4 DEF i, Step!ExecJmp
  <2>2. Outcome(r, mem) \in Executes(i, rg)
    BY <1>0, <2>1 DEF Executes
  <2>3. Step!Epilogue(r, mem, "running", Silent)
    BY <1>4, StepOperators DEF i, rg, Step!ExecJmp, Step!Continue
  <2> HIDE DEF r
  <2> QED
    BY <1>2, <2>2, <2>3
<1>5. CASE Step!ExecBranch
  <2> DEFINE r == IF Taken(i.fn, a, b) THEN [rg EXCEPT ![PC] = Wrap(rg[PC] - 1 + i.imm)] ELSE rg
  <2>1. i.op = "B" /\ i.fn \in BFunctions
    BY <1>5, StepOperators DEF i, Step!ExecBranch
  <2>2. Outcome(r, mem) \in Executes(i, rg)
    BY <2>1 DEF Executes
  <2>3. b = rg[i.rb]
    BY <2>1 DEF Operand
  <2>4. Step!Epilogue(r, mem, "running", Silent)
    BY <1>5, <2>3, StepOperators DEF i, rg, Step!ExecBranch, Step!Continue, Step!BranchTarget
  <2> HIDE DEF r
  <2> QED
    BY <1>2, <2>2, <2>4
<1>6. CASE Step!ExecStore
  <2> DEFINE store == setWord(mem, addr, b)
             o == [Outcome(rg, store.mem) EXCEPT !.status = store.status]
  <2>1. i.op = "S" /\ i.fn = "sw"
    BY <1>6 DEF i, Step!ExecStore
  <2>2. b = rg[i.rb]
    BY <2>1 DEF Operand
  <2>3. o \in Executes(i, rg)
    BY <2>1 DEF Executes
  <2>4. o.regs = rg /\ o.mem = store.mem /\ o.status = store.status /\ o.io = Silent
    BY DEF Outcome
  <2>5. store.status \in {"running", "fatal", "wild"}
    <3>1. rg \in Registers /\ i \in Instruction
      BY <1>1, StepFetches DEF i, rg
    <3>2. a \in Word /\ i.imm \in Int
      BY <3>1, OperandIsWord DEF Instruction
    <3>3. a \in Nat
      BY <3>2, Words
    <3>4. a + i.imm \in Int
      BY <3>2, <3>3
    <3>5. addr \in Word
      BY <3>4, WrapIsWord
    <3> QED
      BY <3>5, StoreStatus
  <2>6. IF store.status = "running" THEN Step!Epilogue(rg, store.mem, "running", Silent)
                                    ELSE Step!Dies(store.status)
    BY <1>6, <2>2, StepOperators DEF i, rg, Step!ExecStore
  <2> HIDE DEF o, store
  <2> QED
    BY <2>3, <2>4, <2>5, <2>6
<1>7. CASE Step!ExecLoad
  <2> DEFINE r == [rg EXCEPT ![i.rd] = loadWord(mem, prog, addr)]
  <2>1. i.op = "L" /\ i.fn = "lw"
    BY <1>7 DEF i, Step!ExecLoad
  <2>2. CASE WildLoad(mem, addr)
    <3> DEFINE o == [Outcome(rg, mem) EXCEPT !.status = "wild"]
    <3>1. o \in Executes(i, rg)
      BY <2>1, <2>2 DEF Executes, Ends
    <3>2. o.status = "wild"
      BY DEF Outcome
    <3>3. Step!Dies("wild")
      BY <1>7, <2>2, StepOperators DEF i, rg, Step!ExecLoad
    <3> HIDE DEF o
    <3> QED
      BY <3>1, <3>2, <3>3
  <2>3. CASE ~WildLoad(mem, addr)
    <3>1. Outcome(r, mem) \in Executes(i, rg)
      BY <2>1, <2>3 DEF Executes
    <3>2. Step!Epilogue(r, mem, "running", Silent)
      BY <1>7, <2>3, StepOperators DEF i, rg, Step!ExecLoad, Step!Continue
    <3> HIDE DEF r
    <3> QED
      BY <1>2, <3>1, <3>2
  <2> QED
    BY <2>2, <2>3
<1>8. CASE Step!ExecHalt
  <2> DEFINE o == [Outcome(rg, mem) EXCEPT !.status = "stopped"]
  <2>1. o \in Executes(i, rg)
    BY <1>8 DEF i, Step!ExecHalt, Executes, Ends
  <2>2. o.regs = rg /\ o.mem = mem /\ o.status = "stopped" /\ o.io = Silent
    BY DEF Outcome
  <2>3. Step!Epilogue(rg, mem, "stopped", Silent)
    BY <1>8, StepOperators DEF rg, Step!ExecHalt
  <2> HIDE DEF o
  <2> QED
    BY <2>1, <2>2, <2>3
<1>9. CASE Step!ExecIdle
  <2>1. Outcome(rg, mem) \in Executes(i, rg)
    BY <1>9 DEF i, Step!ExecIdle, Executes
  <2>2. Step!Epilogue(rg, mem, "running", Silent)
    BY <1>9, StepOperators DEF rg, Step!ExecIdle, Step!Continue
  <2> QED
    BY <1>2, <2>1, <2>2
<1>10. ASSUME NEW outcomes, Step!Outside(outcomes), outcomes = Executes(i, rg)
       PROVE  \E o \in Executes(i, rg) :
                \/ o.status \in {"fatal", "wild"} /\ Step!Dies(o.status)
                \/ o.status \notin {"fatal", "wild"}
                   /\ Step!Epilogue(o.regs, o.mem, o.status, o.io)
  BY <1>10 DEF Step!Outside
<1>11. CASE Step!ExecSyscall
  <2>1. handleSyscall(rg, mem, prog) = Executes(i, rg)
    BY <1>11 DEF i, Step!ExecSyscall, Executes
  <2>2. Step!Outside(handleSyscall(rg, mem, prog))
    BY <1>11, StepOperators DEF rg, Step!ExecSyscall
  <2> QED
    BY <1>10, <2>1, <2>2
<1>12. CASE Step!ExecExtension
  <2>1. handleExtensionOpcode(i, extensions, rg, mem) = Executes(i, rg)
    BY <1>12 DEF i, Step!ExecExtension, Executes
  <2>2. Step!Outside(handleExtensionOpcode(i, extensions, rg, mem))
    BY <1>12, StepOperators DEF i, rg, Step!ExecExtension
  <2> QED
    BY <1>10, <2>1, <2>2
<1>13. CASE Step!ExecIllegal
  <2> DEFINE o == [Outcome(rg, mem) EXCEPT !.status = "fatal"]
  <2>1. i.op \in {"R", "I", "S", "L", "B", "SYS"} /\ ~Known(i)
    BY <1>13, StepOperators DEF i, Step!ExecIllegal, Step!Functions, Known, Arithmetic
  <2>2. Executes(i, rg) = handleExtensionOpcode(i, extensions, rg, mem)
    BY <2>1 DEF Executes, Known, Arithmetic
  <2>3. handleExtensionOpcode(i, extensions, rg, mem) = Ends(rg, mem, "fatal")
    BY <2>1 DEF handleExtensionOpcode, Handled
  <2>4. o \in Executes(i, rg) /\ o.status = "fatal"
    BY <2>2, <2>3 DEF Ends, Outcome
  <2>5. Step!Dies("fatal")
    BY <1>13 DEF Step!ExecIllegal
  <2> HIDE DEF o
  <2> QED
    BY <2>4, <2>5
<1> QED
  BY <1>1, <1>3, <1>4, <1>5, <1>6, <1>7, <1>8, <1>9, <1>11, <1>12, <1>13 DEF Step!Next
-----------------------------------------------------------------------------
(* The guest about to ask for heap; and asking for a capacity it has, one  *)
(* whose bytes a word can count, or one the host refuses.                  *)
Asking ==
  /\ status = "running" /\ At < Len(prog)
  /\ Grows(prog[At + 1], regs)
HeapAsked == Asking => Straight(mem, regs[A0])

(* What may become of the heap's bookkeeping in a step.                    *)
HeapKept(m) ==
  /\ mem.used <= m.used \/ (Asking /\ mem.used + regs[A0] >= WordSize)
  /\ HeapAsked => (HeapSound(mem) => HeapSound(m))

(* The instructions that can take run() past its sentinel.                 *)
Strays(i) ==
  \/ i.op = "FB" /\ pc + i.imm \notin 0 .. Len(prog)
  \/ i.op \in {"MR", "MI", "FR", "FI"} /\ i.rd = PC

(* What run() dispatches on.                                               *)
LEMMA RunFetches ==
  ASSUME TypeInv, pc <= Len(prog)
  PROVE  /\ pc \in Nat /\ Run!After = pc + 1 /\ pc + 1 \in Word
         /\ Run!Instr \in Instruction
         /\ pc = Len(prog) => Run!Instr.op = "SYS" /\ Run!Instr.fn = "halt"
         /\ pc < Len(prog) => Run!Instr = prog[pc + 1]
         /\ Run!Synced = Put(regs, PC, pc + 1) /\ Run!Synced \in Registers
<1>1. regs \in Registers /\ {ZERO, PC} \subseteq RegIds
  BY ArgumentRegisters DEF TypeInv, TypeOK, Registers
<1>2. pc \in Nat
  BY Words DEF TypeInv, TypeOK
<1>3. Len(prog) \in Nat /\ Len(prog) + 1 < WordSize
  BY CodeSize
<1>4. pc + 1 \in Word
  BY <1>2, <1>3, WordSizeType DEF Word
<1>5. Wrap(pc + 1) = pc + 1
  BY <1>4, WrapOfWord
<1>6. Run!After = pc + 1
  BY <1>5, RunOperators DEF Run!After
<1>7. Run!Synced = Put(regs, PC, pc + 1)
  BY <1>6, RunOperators DEF Run!Synced, Put
<1>8. Run!Instr = IF pc = Len(prog) THEN Run!Sentinel ELSE prog[pc + 1]
  BY DEF Run!Instr, Run!code_end
<1>9. Run!Sentinel \in Instruction /\ Run!Sentinel.op = "SYS" /\ Run!Sentinel.fn = "halt"
  <2>1. 0 \in RegIds
    BY <1>1 DEF ZERO
  <2> QED
    BY <2>1 DEF Run!Sentinel, Instruction, Opcodes, FunctionNames
<1>10. pc < Len(prog) => prog[pc + 1] \in Instruction
  BY <1>2, CodeSize
<1>11. pc < Len(prog) => Run!Instr = prog[pc + 1]
  BY <1>2, <1>3, <1>8
<1>12. Run!Instr \in Instruction
  BY <1>2, <1>3, <1>8, <1>9, <1>10
<1> QED
  BY <1>1, <1>2, <1>4, <1>6, <1>7, <1>8, <1>9, <1>11, <1>12, PutTyped

(* A clamped target is in the code or at its end.                          *)
LEMMA ClampedIsWord ==
  ASSUME TypeInv, NEW n \in Word
  PROVE  Run!ClampToEnd(n) \in Word /\ Run!ClampToEnd(n) <= Len(prog)
<1>1. Len(prog) \in Nat /\ Len(prog) + 1 < WordSize
  BY CodeSize
<1>2. n \in Nat
  BY Words
<1> QED
  BY <1>1, <1>2, WordSizeType DEF Run!ClampToEnd, Run!code_end, Word

(* A step of run() goes on in the loop, to an address in the code or at    *)
(* its end unless the instruction strays, or leaves the loop, or dies.     *)
Goes(rg, m, words) ==
  \/ \E target \in Word :
       /\ Run!Dispatch(rg, m, target, words)
       /\ target <= Len(prog) \/ (pc < Len(prog) /\ Strays(prog[pc + 1]))
  \/ \E st \in {"stopped", "exited"} : Run!Leave(rg, m, st, words)

LEMMA RunExecutes ==
  ASSUME TypeInv, engine = "run", Run!Next
  PROVE  /\ status = "running"
         /\ \/ \E st \in {"fatal", "wild"} : Run!Dies(st)
            \/ \E rg \in Registers, m \in Memory : HeapKept(m) /\ \E words \in Seq(Word) : Goes(rg, m, words)
<1> DEFINE i == Run!Instr
           a == regs[i.ra]
           b == Operand(i, regs)
           addr == Wrap(a + i.imm)
<1> USE DEF Run!InDecoded, Run!Fetches, Run!code_end
<1>1. SUFFICES ASSUME ~Run!WildFetch, pc <= Len(prog), status = "running"
               PROVE  \/ \E st \in {"fatal", "wild"} : Run!Dies(st)
                      \/ \E rg \in Registers, m \in Memory :
                           HeapKept(m) /\ \E words \in Seq(Word) : Goes(rg, m, words)
  <2>1. Run!WildFetch => status = "running" /\ \E st \in {"fatal", "wild"} : Run!Dies(st)
    BY DEF Run!WildFetch
  <2>2. ~Run!WildFetch => status = "running" /\ pc <= Len(prog)
    BY DEF Run!Next, Run!WildFetch, Run!ExecArithmetic, Run!ExecJmp, Run!ExecStore,
           Run!ExecLoad, Run!ExecBranch, Run!ExecHalt, Run!ExecIdle, Run!ExecSyscall,
           Run!DoIllegal
  <2> QED
    BY <2>1, <2>2
<1>2. /\ pc \in Nat /\ Run!After = pc + 1 /\ pc + 1 \in Word
      /\ i \in Instruction /\ regs \in Registers /\ mem \in Memory
      /\ i.op # "SYS" \/ i.fn # "halt" => pc < Len(prog) /\ i = prog[pc + 1]
      /\ Run!Synced \in Registers
  <2>1. Len(prog) \in Nat
    BY CodeSize
  <2> QED
    BY <1>1, <2>1, RunFetches DEF TypeInv, TypeOK, Registers
<1> HIDE DEF i
<1>3. a \in Word /\ b \in Word /\ regs[i.rb] \in Word /\ addr \in Word
      /\ i.rd \in RegIds /\ i.imm \in Int
  <2>1. a \in Word /\ b \in Word /\ regs[i.rb] \in Word /\ i.imm \in Int /\ i.rd \in RegIds
    BY <1>2, OperandIsWord DEF Instruction
  <2>2. a \in Nat
    BY <2>1, Words
  <2>3. a + i.imm \in Int
    BY <2>1, <2>2
  <2> QED
    BY <2>1, <2>3, WrapIsWord
<1>4. HeapKept(mem)
  BY <1>2, SameMemory DEF HeapKept
<1>5. ASSUME NEW rg \in Registers, NEW target \in Word, target <= Len(prog),
             Run!Dispatch(rg, mem, target, Silent)
      PROVE  \E r \in Registers, m \in Memory : HeapKept(m) /\ \E words \in Seq(Word) : Goes(r, m, words)
  BY <1>2, <1>4, <1>5, SilentTyped DEF Goes
<1>6. CASE Run!ExecArithmetic
  <2> DEFINE r == Put(regs, i.rd, Alu(i.fn, a, b))
  <2>1. Run!Dispatch(r, mem, pc + 1, Silent)
    BY <1>2, <1>6, RunOperators DEF i, Run!ExecArithmetic, Put
  <2>2. i.fn \in RFunctions /\ i.op # "SYS"
    BY <1>6, RunOperators DEF i, Run!ExecArithmetic, IFunctions
  <2>3. Alu(i.fn, a, b) \in Word
    BY <1>3, <2>2, AluIsWord
  <2>4. r \in Registers
    BY <1>2, <1>3, <2>3, PutTyped
  <2>5. pc + 1 <= Len(prog)
    BY <1>2, <2>2, CodeSize
  <2> HIDE DEF r
  <2> QED
    BY <1>2, <1>5, <2>1, <2>4, <2>5
<1>7. CASE Run!ExecJmp
  <2> DEFINE r == Put(regs, i.rd, pc + 1)
  <2>1. Run!Dispatch(r, mem, Run!ClampToEnd(addr), Silent)
    BY <1>2, <1>7, RunOperators DEF i, Run!ExecJmp, Put
  <2>2. r \in Registers
    BY <1>2, <1>3, PutTyped
  <2>3. Run!ClampToEnd(addr) \in Word /\ Run!ClampToEnd(addr) <= Len(prog)
    BY <1>3, ClampedIsWord
  <2> HIDE DEF r
  <2> QED
    BY <1>5, <2>1, <2>2, <2>3
<1>8. CASE Run!ExecStore
  <2> DEFINE store == setWord(mem, addr, regs[i.rb])
  <2>1. i.op # "SYS"
    BY <1>8 DEF i, Run!ExecStore
  <2>2. /\ store.mem \in Memory /\ SameSize(mem, store.mem)
        /\ store.status \in {"running", "fatal", "wild"}
    BY <1>2, <1>3, StoreTyped, StoreStatus
  <2>3. IF store.status = "running" THEN Run!Dispatch(regs, store.mem, pc + 1, Silent)
                                    ELSE Run!Dies(store.status)
    BY <1>2, <1>8, RunOperators DEF i, Run!ExecStore
  <2> HIDE DEF store
  <2>4. HeapKept(store.mem)
    BY <1>2, <2>2, SameSizeKeepsHeap DEF HeapKept
  <2>5. pc + 1 <= Len(prog)
    BY <1>2, <2>1, CodeSize
  <2> QED
    BY <1>2, <2>2, <2>3, <2>4, <2>5, SilentTyped DEF Goes
<1>9. CASE Run!ExecLoad
  <2> DEFINE r == Put(regs, i.rd, loadWord(mem, prog, addr))
  <2>1. i.op # "SYS"
    BY <1>9 DEF i, Run!ExecLoad
  <2>2. IF WildLoad(mem, addr) THEN Run!Dies("wild") ELSE Run!Dispatch(r, mem, pc + 1, Silent)
    BY <1>2, <1>9, RunOperators DEF i, Run!ExecLoad, Put
  <2>3. loadWord(mem, prog, addr) \in Word
    BY <1>2, <1>3, LoadIsWord, CodeSize
  <2>4. r \in Registers
    BY <1>2, <1>3, <2>3, PutTyped
  <2>5. pc + 1 <= Len(prog)
    BY <1>2, <2>1, CodeSize
  <2> HIDE DEF r
  <2> QED
    BY <1>2, <1>5, <2>2, <2>4, <2>5
<1>10. CASE Run!ExecBranch
  <2> DEFINE target == Wrap((pc + 1) - 1 + i.imm)
  <2>1. i.op # "SYS"
    BY <1>10 DEF i, Run!ExecBranch
  <2>2. \/ Run!Dispatch(regs, mem, Run!ClampToEnd(target), Silent)
        \/ Run!Dispatch(regs, mem, pc + 1, Silent)
    BY <1>2, <1>10, RunOperators DEF i, Run!ExecBranch, Run!BranchTarget
  <2>3. target \in Word
    <3>1. (pc + 1) - 1 + i.imm \in Int
      BY <1>2, <1>3
    <3> QED
      BY <3>1, WrapIsWord
  <2>4. Run!ClampToEnd(target) \in Word /\ Run!ClampToEnd(target) <= Len(prog)
    BY <2>3, ClampedIsWord
  <2>5. pc + 1 <= Len(prog)
    BY <1>2, <2>1, CodeSize
  <2> HIDE DEF target
  <2> QED
    BY <1>2, <1>5, <2>2, <2>4, <2>5
<1>11. CASE Run!ExecHalt
  <2>1. Run!Leave(Run!Synced, mem, "stopped", Silent)
    BY <1>11, RunOperators DEF Run!ExecHalt
  <2> QED
    BY <1>2, <1>4, <2>1, SilentTyped DEF Goes
<1>12. CASE Run!ExecIdle
  <2>1. i.op = "SYS" /\ i.fn # "halt" /\ Run!Dispatch(regs, mem, pc + 1, Silent)
    BY <1>2, <1>12, RunOperators DEF i, Run!ExecIdle
  <2>2. pc + 1 <= Len(prog)
    BY <1>2, <2>1, CodeSize
  <2> QED
    BY <1>2, <1>5, <2>1, <2>2
<1>13. ASSUME NEW o, o.regs \in Registers, o.mem \in Memory,
              o.status \in {"running", "exited", "fatal", "wild"}, HeapKept(o.mem),
              o.io \in Seq(Word),
              o.regs[PC] <= Len(prog) \/ (pc < Len(prog) /\ Strays(prog[pc + 1])),
              CASE o.status \in {"fatal", "wild"} -> Run!Dies(o.status)
                [] o.status = "running" -> Run!Dispatch(o.regs, o.mem, o.regs[PC], o.io)
                [] o.status = "exited" -> Run!Leave(o.regs, o.mem, "exited", o.io)
       PROVE  \/ \E st \in {"fatal", "wild"} : Run!Dies(st)
              \/ \E rg \in Registers, m \in Memory : HeapKept(m) /\ \E words \in Seq(Word) : Goes(rg, m, words)
  <2>1. o.regs[PC] \in Word
    BY <1>13, ArgumentRegisters
  <2>2. CASE o.status \in {"fatal", "wild"}
    BY <1>13, <2>2
  <2>3. CASE o.status = "running"
    <3>1. Run!Dispatch(o.regs, o.mem, o.regs[PC], o.io)
      BY <1>13, <2>3
    <3>2. Goes(o.regs, o.mem, o.io)
      BY <1>13, <2>1, <3>1 DEF Goes
    <3> QED
      BY <1>13, <3>2
  <2>4. CASE o.status = "exited"
    <3>1. Run!Leave(o.regs, o.mem, "exited", o.io)
      BY <1>13, <2>4
    <3>2. Goes(o.regs, o.mem, o.io)
      BY <3>1 DEF Goes
    <3> QED
      BY <1>13, <3>2
  <2> QED
    BY <1>13, <2>2, <2>3, <2>4
<1>14. Run!Synced[PC] = pc + 1 /\ \A r \in RegIds \ {PC} : Run!Synced[r] = regs[r]
  <2>1. Run!Synced = Put(regs, PC, pc + 1) /\ PC \in RegIds
    BY <1>1, RunFetches, ArgumentRegisters
  <2> QED
    BY <1>2, <2>1, PutTyped
<1>15. CASE Run!ExecSyscall
  <2>1. i.op = "SYS" /\ i.fn = "syscall"
    BY <1>15 DEF i, Run!ExecSyscall
  <2>2. PICK o \in handleSyscall(Run!Synced, mem, prog) :
          CASE o.status \in {"fatal", "wild"} -> Run!Dies(o.status)
            [] o.status = "running" -> Run!Dispatch(o.regs, o.mem, o.regs[PC], o.io)
            [] o.status = "exited" -> Run!Leave(o.regs, o.mem, "exited", o.io)
    BY <1>15, RunOperators DEF Run!ExecSyscall, Run!Outside
  <2>3. /\ Legal(Run!Synced, o)
        /\ \/ mem.used <= o.mem.used
           \/ Run!Synced[A13] = SYS_HEAP_GROW /\ mem.used + Run!Synced[A0] >= WordSize
        /\ (Run!Synced[A13] = SYS_HEAP_GROW => Straight(mem, Run!Synced[A0])) =>
             (HeapSound(mem) => HeapSound(o.mem))
    <3>1. IsCode(prog)
      BY CodeSize
    <3> QED
      BY <1>2, <3>1, SyscallIsLegal
  <2>4. {PC, A0, A13} \subseteq RegIds /\ PC # A0 /\ PC # A13
    BY ArgumentRegisters DEF PC, A13
  <2>5. HeapKept(o.mem)
    <3>1. Grows(i, regs) => Asking
      BY <1>1, <1>2, <2>1 DEF Asking, At
    <3>2. Run!Synced[A13] = regs[A13] /\ Run!Synced[A0] = regs[A0]
      BY <1>14, <2>4
    <3>3. HeapAsked => (Run!Synced[A13] = SYS_HEAP_GROW => Straight(mem, Run!Synced[A0]))
      BY <2>1, <3>1, <3>2 DEF HeapAsked, Grows
    <3>4. \/ mem.used <= o.mem.used
          \/ Asking /\ mem.used + regs[A0] >= WordSize
      BY <2>1, <2>3, <3>1, <3>2 DEF Grows
    <3> QED
      BY <2>3, <3>3, <3>4 DEF HeapKept
  <2>6. o.regs[PC] = pc + 1
    BY <1>14, <2>3, <2>4 DEF Legal
  <2>7. pc + 1 <= Len(prog)
    BY <1>2, <2>1, CodeSize
  <2> QED
    BY <1>13, <2>2, <2>3, <2>5, <2>6, <2>7 DEF Legal
<1>16. CASE Run!DoIllegal
  <2>1. i.op # "SYS" \/ i.fn # "halt"
    BY <1>16 DEF i, Run!DoIllegal, Run!InTable
  <2>2. PICK o \in handleExtensionOpcode(i, extensions, Run!Synced, mem) :
          CASE o.status \in {"fatal", "wild"} -> Run!Dies(o.status)
            [] o.status = "running" -> Run!Dispatch(o.regs, o.mem, o.regs[PC], o.io)
            [] o.status = "exited" -> Run!Leave(o.regs, o.mem, "exited", o.io)
    BY <1>16, RunOperators DEF i, Run!DoIllegal, Run!Outside
  <2> DEFINE sync == Run!Synced
             target == Wrap(sync[PC] - 1 + i.imm)
  <2>3. /\ o.mem = mem /\ o.io = Silent /\ o.status \in {"running", "fatal", "wild"}
        /\ \/ o.regs = sync
           \/ i.op = "FB" /\ o.regs = Put(sync, PC, target)
           \/ /\ i.op \in {"FR", "FI", "MR", "MI"}
              /\ \E v \in Word : o.regs = Put(sync, i.rd, v)
    BY <1>2, <2>2, ExtensionIsLegal
  <2>4. pc < Len(prog) /\ i = prog[pc + 1] /\ Len(prog) \in Nat /\ Len(prog) + 1 < WordSize
        /\ PC \in RegIds /\ sync[PC] = pc + 1 /\ sync \in Registers
    BY <1>2, <1>14, <2>1, CodeSize, ArgumentRegisters
  <2>5. pc + 1 <= Len(prog)
    BY <1>2, <2>4
  <2>6. target \in Word /\ (pc + i.imm \in 0 .. Len(prog) => target = pc + i.imm)
    <3>1. sync[PC] - 1 + i.imm = pc + i.imm /\ pc + i.imm \in Int
      BY <1>2, <1>3, <2>4
    <3>2. pc + i.imm \in 0 .. Len(prog) => pc + i.imm \in Word
      BY <2>4, <3>1, WordSizeType DEF Word
    <3> HIDE DEF sync
    <3> QED
      BY <3>1, <3>2, WrapIsWord, WrapOfWord
  <2> HIDE DEF sync, target
  <2>7. o.regs \in Registers /\ (o.regs[PC] <= Len(prog) \/ (pc < Len(prog) /\ Strays(prog[pc + 1])))
    <3>1. CASE o.regs = sync
      BY <2>4, <2>5, <3>1
    <3>2. CASE i.op = "FB" /\ o.regs = Put(sync, PC, target)
      <4>1. o.regs \in Registers /\ o.regs[PC] = target
        BY <2>4, <2>6, <3>2, PutTyped
      <4> QED
        BY <2>4, <2>6, <3>2, <4>1 DEF Strays
    <3>3. ASSUME NEW v \in Word, i.op \in {"FR", "FI", "MR", "MI"}, o.regs = Put(sync, i.rd, v)
          PROVE  o.regs \in Registers
                 /\ (o.regs[PC] <= Len(prog) \/ (pc < Len(prog) /\ Strays(prog[pc + 1])))
      <4>1. o.regs \in Registers
        BY <1>3, <2>4, <3>3, PutTyped
      <4>2. i.rd # PC => PC \in RegIds \ {i.rd}
        BY <2>4
      <4>3. i.rd # PC => o.regs[PC] = pc + 1
        BY <1>3, <2>4, <3>3, <4>2 DEF Put, Registers
      <4> QED
        BY <2>4, <2>5, <3>3, <4>1, <4>3 DEF Strays
    <3> QED
      BY <2>3, <3>1, <3>2, <3>3
  <2> QED
    BY <1>2, <1>4, <1>13, <2>2, <2>3, <2>7, SilentTyped
<1> QED
  BY <1>1, <1>6, <1>7, <1>8, <1>9, <1>10, <1>11, <1>12, <1>15, <1>16 DEF Run!Next
-----------------------------------------------------------------------------
(* What a step of either engine keeps.                                     *)

(* When the process dies nothing else changes; otherwise the registers and *)
(* memory an instruction left are the machine's, with r0 zeroed.           *)
LEMMA TypesKept ==
  ASSUME TypeInv, UNCHANGED <<engine, lawful, prog>>, pc' \in Word,
         regs' \in Registers, mem' \in Memory, exitCode' \in Word, output' \in Seq(Word),
         status' \in {"running", "stopped", "exited", "fatal", "wild"}
  PROVE  TypeInv'
BY DEF TypeInv, TypeOK, ProgramOK, Registers, Memory

(* Zeroing r0 makes it read as zero.                                       *)
LEMMA ZeroPut ==
  ASSUME NEW rg \in Registers
  PROVE  /\ Put(rg, ZERO, 0) \in Registers /\ Put(rg, ZERO, 0)[ZERO] = 0
         /\ \A r \in RegIds \ {ZERO} : Put(rg, ZERO, 0)[r] = rg[r]
BY PutTyped, ArgumentRegisters, Words

(* A step of step() keeps the invariant.                                   *)
LEMMA StepKeeps ==
  ASSUME TypeInv, engine = "step", Step!Next, UNCHANGED <<engine, pc, lawful>>
  PROVE  /\ TypeInv' /\ ZeroReadsZero' /\ HeapKept(mem')
         /\ status = "running" /\ prog' = prog
         /\ status' = "running" => regs'[PC] < Len(prog)
<1>1. /\ regs \in Registers /\ mem \in Memory /\ exitCode \in Word /\ pc \in Word
      /\ output \in Seq(Word)
  BY DEF TypeInv, TypeOK, Registers
<1>2. ASSUME NEW st \in {"fatal", "wild"}, Step!Dies(st)
      PROVE  /\ TypeInv' /\ ZeroReadsZero' /\ HeapKept(mem') /\ prog' = prog
             /\ status' # "running"
  <2>1. /\ status' = st /\ prog' = prog /\ regs' = regs /\ mem' = mem /\ exitCode' = exitCode
        /\ output' = output
    BY <1>2 DEF Step!Dies
  <2>2. TypeInv'
    BY <1>1, <2>1, TypesKept
  <2> QED
    BY <1>1, <2>1, <2>2, SameMemory DEF ZeroReadsZero, HeapKept
<1>3. status = "running"
  BY StepExecutes
<1>4. CASE Step!Dies("wild")
  BY <1>2, <1>3, <1>4
<1>5. ASSUME regs[PC] < Len(prog), NEW o \in Executes(Step!Instr, Step!Fetched),
             o.status \in {"fatal", "wild"}, Step!Dies(o.status)
      PROVE  TypeInv' /\ ZeroReadsZero' /\ HeapKept(mem') /\ prog' = prog /\ status' # "running"
  BY <1>2, <1>5
<1>6. ASSUME regs[PC] < Len(prog), NEW o \in Executes(Step!Instr, Step!Fetched),
             o.status \notin {"fatal", "wild"}, Step!Epilogue(o.regs, o.mem, o.status, o.io)
      PROVE  /\ TypeInv' /\ ZeroReadsZero' /\ HeapKept(mem') /\ prog' = prog
             /\ status' = "running" => regs'[PC] < Len(prog)
  <2> DEFINE i == Step!Instr
             rg == Step!Fetched
  <2>1. i = prog[regs[PC] + 1] /\ i \in Instruction /\ rg \in Registers
        /\ rg = Put(regs, PC, regs[PC] + 1)
    BY <1>6, StepFetches
  <2>2. {ZERO, PC, A0, A13} \subseteq RegIds /\ PC # A0 /\ PC # A13 /\ PC # ZERO
    BY ArgumentRegisters DEF PC, A13
  <2>3. /\ o.regs \in Registers /\ o.mem \in Memory /\ o.io \in Seq(Word)
        /\ o.status \in {"running", "stopped", "exited", "fatal", "wild"}
        /\ mem.used <= o.mem.used \/ (Grows(i, rg) /\ mem.used + rg[A0] >= WordSize)
        /\ (Grows(i, rg) => Straight(mem, rg[A0])) => (HeapSound(mem) => HeapSound(o.mem))
    BY <2>1, ExecutesIsLegal
  <2>4. CASE Step!Dies("fatal")
    BY <1>2, <2>4
  <2>5. CASE ~Step!Dies("fatal")
    <3>1. /\ regs' = Put(o.regs, ZERO, 0) /\ mem' = o.mem /\ prog' = prog
          /\ output' = output \o o.io
          /\ status' = IF o.status = "running" /\ o.regs[PC] >= Len(prog) THEN "stopped" ELSE o.status
          /\ exitCode' = IF o.status = "exited" THEN o.regs[A0] ELSE exitCode
      BY <1>6, <2>5, StepOperators DEF Step!Epilogue, Step!ZeroCleared, Put
    <3>2. regs' \in Registers /\ regs'[ZERO] = 0 /\ regs'[PC] = o.regs[PC]
      BY <2>2, <2>3, <3>1, ZeroPut
    <3>3. o.regs[A0] \in Word /\ o.regs[PC] \in Nat
      <4>1. o.regs[A0] \in Word /\ o.regs[PC] \in Word
        BY <2>2, <2>3, ArgumentRegisters
      <4> QED
        BY <4>1, Words
    <3>4. TypeInv'
      <4>1. output \o o.io \in Seq(Word)
        BY <1>1, <2>3
      <4> QED
        BY <1>1, <2>3, <3>1, <3>2, <3>3, <4>1, TypesKept
    <3>5. HeapKept(mem')
      <4>1. Grows(i, regs) => Asking
        BY <1>3, <1>6, <2>1 DEF Asking, At
      <4>2. rg[A13] = regs[A13] /\ rg[A0] = regs[A0]
        BY <1>1, <2>1, <2>2 DEF Put, Registers
      <4>3. HeapAsked => (Grows(i, rg) => Straight(mem, rg[A0]))
        BY <4>1, <4>2 DEF HeapAsked, Grows
      <4>4. \/ mem.used <= o.mem.used
            \/ Asking /\ mem.used + regs[A0] >= WordSize
        BY <2>3, <4>1, <4>2 DEF Grows
      <4> QED
        BY <2>3, <3>1, <4>3, <4>4 DEF HeapKept
    <3>6. status' = "running" => regs'[PC] < Len(prog)
      BY <3>1, <3>2, <3>3, CodeSize
    <3> QED
      BY <3>1, <3>2, <3>4, <3>5, <3>6 DEF ZeroReadsZero
  <2> QED
    BY <2>4, <2>5
<1> QED
  BY <1>3, <1>4, <1>5, <1>6, StepExecutes

(* So does one of run().                                                   *)
LEMMA RunKeeps ==
  ASSUME TypeInv, engine = "run", Run!Next, UNCHANGED <<engine, lawful>>
  PROVE  /\ TypeInv' /\ ZeroReadsZero' /\ HeapKept(mem')
         /\ status = "running" /\ prog' = prog
         /\ status' = "running" => pc' <= Len(prog) \/ (pc < Len(prog) /\ Strays(prog[pc + 1]))
<1>1. /\ regs \in Registers /\ mem \in Memory /\ exitCode \in Word /\ pc \in Word
      /\ output \in Seq(Word)
  BY DEF TypeInv, TypeOK, Registers
<1>2. status = "running"
  BY RunExecutes
<1>3. ASSUME NEW st \in {"fatal", "wild"}, Run!Dies(st)
      PROVE  /\ TypeInv' /\ ZeroReadsZero' /\ HeapKept(mem') /\ prog' = prog
             /\ status' # "running"
  <2>1. /\ status' = st /\ prog' = prog /\ regs' = regs /\ mem' = mem /\ exitCode' = exitCode
        /\ pc' = pc /\ output' = output
    BY <1>3 DEF Run!Dies
  <2>2. TypeInv'
    BY <1>1, <2>1, TypesKept
  <2> QED
    BY <1>1, <2>1, <2>2, SameMemory DEF ZeroReadsZero, HeapKept
<1>4. ASSUME NEW rg \in Registers, NEW m \in Memory, HeapKept(m), NEW words \in Seq(Word), NEW target \in Word,
             Run!Dispatch(rg, m, target, words),
             target <= Len(prog) \/ (pc < Len(prog) /\ Strays(prog[pc + 1]))
      PROVE  /\ TypeInv' /\ ZeroReadsZero' /\ HeapKept(mem') /\ prog' = prog
             /\ pc' <= Len(prog) \/ (pc < Len(prog) /\ Strays(prog[pc + 1]))
  <2>1. /\ regs' = Put(rg, ZERO, 0) /\ mem' = m /\ prog' = prog /\ pc' = target
        /\ status' = status /\ exitCode' = exitCode /\ output' = output \o words
    BY <1>4, RunOperators DEF Run!Dispatch, Run!ZeroCleared, Put
  <2>2. regs' \in Registers /\ regs'[ZERO] = 0
    BY <2>1, ZeroPut
  <2>3. TypeInv'
    <3>1. output \o words \in Seq(Word)
      BY <1>1
    <3> QED
      BY <1>1, <1>2, <2>1, <2>2, <3>1, TypesKept
  <2> QED
    BY <1>4, <2>1, <2>2, <2>3 DEF ZeroReadsZero
<1>5. ASSUME NEW rg \in Registers, NEW m \in Memory, HeapKept(m), NEW words \in Seq(Word),
             NEW st \in {"stopped", "exited"}, Run!Leave(rg, m, st, words)
      PROVE  /\ TypeInv' /\ ZeroReadsZero' /\ HeapKept(mem') /\ prog' = prog
             /\ status' # "running"
  <2>1. /\ regs' = rg /\ mem' = m /\ prog' = prog /\ pc' = Run!After /\ status' = st
        /\ exitCode' = IF st = "exited" THEN rg[A0] ELSE exitCode
        /\ output' = output \o words
    BY <1>5, RunOperators DEF Run!Leave
  <2>2. rg[A0] \in Word
    BY ArgumentRegisters
  <2>3. Run!After \in Word
    <3>1. pc + 1 \in Int
      BY <1>1, Words
    <3> QED
      BY <3>1, WrapIsWord, RunOperators DEF Run!After
  <2>4. TypeInv'
    <3>1. output \o words \in Seq(Word)
      BY <1>1
    <3> QED
      BY <1>1, <2>1, <2>2, <2>3, <3>1, TypesKept
  <2> QED
    BY <1>5, <2>1, <2>4 DEF ZeroReadsZero
<1> QED
  BY <1>2, <1>3, <1>4, <1>5, RunExecutes DEF Goes

(* A step of the machine, of whichever engine.                             *)
LEMMA NextKeeps ==
  ASSUME TypeInv, Next
  PROVE  /\ TypeInv' /\ ZeroReadsZero' /\ HeapKept(mem')
         /\ status = "running" /\ prog' = prog /\ engine' = engine /\ lawful' = lawful
         /\ engine = "step" => (status' = "running" => regs'[PC] < Len(prog))
         /\ engine = "run" => (status' = "running" =>
              pc' <= Len(prog) \/ (pc < Len(prog) /\ Strays(prog[pc + 1])))
BY StepKeeps, RunKeeps DEF Next
-----------------------------------------------------------------------------
(* The program and registers a run is given are those of a workload.       *)
LEMMA InitTyped ==
  ASSUME Init
  PROVE  TypeInv /\ regs[ZERO] = 0 /\ status \in {"running", "stopped"}
         /\ mem = InitialMemory /\ output = <<>> /\ exitCode = 0
<1>1. /\ \E k \in DOMAIN Workloads :
           prog \in Workloads[k].programs /\ regs \in Workloads[k].registers
      /\ mem = InitialMemory /\ output = <<>> /\ exitCode = 0
      /\ engine \in {"step", "run"} /\ status \in {"running", "stopped"}
      /\ pc = 0 \/ pc = regs[PC]
  BY StepOperators, RunOperators DEF Init, Step!Init, Run!Init
<1>2. /\ prog \in Seq(Instruction) /\ Len(prog) <= HEAP_ADDR
      /\ \A j \in DOMAIN prog : CodeWord(prog[j]) \in Word
      /\ regs \in [RegIds -> Word] /\ regs[ZERO] = 0
  BY <1>1, WorkloadsAssumption
<1>3. pc \in Word
  BY <1>1, <1>2, ArgumentRegisters, Words DEF Registers
<1>4. mem \in Memory
  BY <1>1, InitialMemoryTyped
<1>5. lawful \in BOOLEAN
  BY DEF Init, KeepsRules
<1>6. <<>> \in Seq(Word)
  OBVIOUS
<1> QED
  BY <1>1, <1>2, <1>3, <1>4, <1>5, <1>6, Words DEF TypeInv, TypeOK, ProgramOK, Memory

(* The initial state satisfies the invariant.                              *)
LEMMA InitIInv ==
  ASSUME Init
  PROVE  IInv
<1>1. TypeInv /\ regs[ZERO] = 0
  BY InitTyped
<1>2. ASSUME lawful
      PROVE  /\ \A k \in DOMAIN prog :
                  /\ PC \notin {prog[k].rd, prog[k].ra, prog[k].rb}
                  /\ prog[k].op = "FB" => k - 1 + prog[k].imm \in 0 .. Len(prog)
             /\ regs[PC] < Len(prog)
  BY <1>2 DEF Init, KeepsRules
<1>3. engine = "run" => pc = regs[PC]
  BY RunOperators DEF Init, Run!Init
<1>4. regs[PC] \in Nat /\ Len(prog) \in Nat
  <2>1. regs[PC] \in Word
    BY <1>1, ArgumentRegisters DEF TypeInv, TypeOK, Registers
  <2> QED
    BY <1>1, <2>1, Words, CodeSize
<1>5. engine \in {"step", "run"}
  BY <1>1 DEF TypeInv, TypeOK
<1> QED
  BY <1>1, <1>2, <1>3, <1>4, <1>5 DEF IInv, ZeroReadsZero, Lawful

(* Every step keeps it.                                                    *)
LEMMA NextIInv ==
  ASSUME IInv, [Next]_vars
  PROVE  IInv'
<1>1. CASE Next
  <2>1. TypeInv
    BY DEF IInv
  <2>2. /\ TypeInv' /\ ZeroReadsZero' /\ prog' = prog /\ engine' = engine /\ lawful' = lawful
        /\ status = "running"
        /\ engine = "step" => (status' = "running" => regs'[PC] < Len(prog))
        /\ engine = "run" => (status' = "running" =>
             pc' <= Len(prog) \/ (pc < Len(prog) /\ Strays(prog[pc + 1])))
    BY <1>1, <2>1, NextKeeps
  <2>3. engine \in {"step", "run"} /\ pc \in Nat /\ pc < WordSize
    BY <2>1, WordSizeType DEF TypeInv, TypeOK, Word
  <2>4. ASSUME lawful, pc < Len(prog)
        PROVE  ~Strays(prog[pc + 1])
    <3>1. pc + 1 \in DOMAIN prog
      BY <2>1, <2>3, <2>4, CodeSize
    <3>2. /\ PC # prog[pc + 1].rd
          /\ prog[pc + 1].op = "FB" => (pc + 1) - 1 + prog[pc + 1].imm \in 0 .. Len(prog)
      BY <2>4, <3>1 DEF IInv, Lawful
    <3>3. (pc + 1) - 1 = pc
      BY <2>3
    <3> QED
      BY <3>2, <3>3 DEF Strays
  <2>5. Lawful'
    BY <2>2, <2>3, <2>4 DEF IInv, Lawful
  <2> QED
    BY <2>2, <2>5 DEF IInv
<1>2. CASE UNCHANGED vars
  BY <1>2 DEF vars, IInv, TypeInv, TypeOK, ProgramOK, ZeroReadsZero, Lawful
<1> QED
  BY <1>1, <1>2
-----------------------------------------------------------------------------
(* So it holds in every state.                                             *)
LEMMA Invariance == Spec => []IInv
<1>1. Init => IInv
  BY InitIInv
<1>2. IInv /\ [Next]_vars => IInv'
  BY NextIInv
<1> QED
  BY <1>1, <1>2, PTL DEF Spec

(* Every variable has its type, whichever engine runs whatever program.    *)
THEOREM TypeCorrect == Spec => []TypeOK
<1>1. IInv => TypeOK
  BY DEF IInv, TypeInv
<1> QED
  BY <1>1, Invariance, PTL

(* r0 reads as zero although every kind of instruction can write it: the   *)
(* engines zero it after the instruction, before the next reads it.        *)
THEOREM ZeroIsZero == Spec => []ZeroReadsZero
<1>1. IInv => ZeroReadsZero
  BY DEF IInv
<1> QED
  BY <1>1, Invariance, PTL

(* Nothing takes run() past its sentinel but an extension opcode, a float  *)
(* branch or one that writes r1.                                           *)
THEOREM SentinelCatchesTheRest == Spec => OnlyExtensionsOverrun
<1> DEFINE Overrun ==
             engine = "run" /\ status' = "running" /\ pc' > Len(prog) =>
               /\ pc < Len(prog)
               /\ \/ prog[pc + 1].op = "FB"
                  \/ prog[pc + 1].op \in {"MR", "MI", "FR", "FI"} /\ prog[pc + 1].rd = PC
<1>1. IInv /\ [Next]_vars => [Overrun]_vars
  <2>1. SUFFICES ASSUME TypeInv, Next, engine = "run", status' = "running", pc' > Len(prog)
                 PROVE  /\ pc < Len(prog)
                        /\ \/ prog[pc + 1].op = "FB"
                           \/ prog[pc + 1].op \in {"MR", "MI", "FR", "FI"} /\ prog[pc + 1].rd = PC
    BY DEF IInv
  <2>2. TypeInv' /\ (pc' <= Len(prog) \/ (pc < Len(prog) /\ Strays(prog[pc + 1])))
    BY <2>1, NextKeeps
  <2>3. pc' \in Nat /\ Len(prog) \in Nat
    <3>1. pc' \in Word
      BY <2>2 DEF TypeInv, TypeOK
    <3> QED
      BY <2>1, <3>1, Words, CodeSize
  <2> QED
    BY <2>1, <2>2, <2>3 DEF Strays
<1> QED
  BY <1>1, Invariance, PTL DEF Spec, OnlyExtensionsOverrun

(* The words the guest was told it owns are there, in every run that never *)
(* asks for so many that the byte count wraps to one the host can give.    *)
THEOREM HeapStaysBacked == Spec /\ []HeapAsked => []HeapBacked
<1>1. Init => HeapSound(mem)
  <2>1. SUFFICES ASSUME Init
                 PROVE  HeapSound(mem)
    OBVIOUS
  <2>2. mem = InitialMemory
    BY <2>1, InitTyped
  <2> QED
    BY <2>2 DEF InitialMemory, HeapSound
<1>2. IInv /\ HeapAsked /\ HeapSound(mem) /\ [Next]_vars => HeapSound(mem)'
  <2>1. SUFFICES ASSUME TypeInv, HeapAsked, HeapSound(mem), [Next]_vars
                 PROVE  HeapSound(mem')
    BY DEF IInv, HeapSound
  <2>2. CASE Next
    BY <2>1, <2>2, NextKeeps DEF HeapKept
  <2>3. CASE UNCHANGED vars
    BY <2>1, <2>3 DEF vars
  <2> QED
    BY <2>1, <2>2, <2>3
<1>3. IInv /\ HeapSound(mem) => HeapBacked
  <2>1. SUFFICES ASSUME TypeInv, HeapSound(mem)
                 PROVE  mem.used <= Len(mem.heap)
    BY DEF IInv, HeapBacked
  <2>2. mem.used \in Word /\ mem.cap \in Word /\ mem.heap \in Seq(Word)
    BY <2>1 DEF TypeInv, Memory
  <2>3. mem.used \in Nat /\ mem.cap \in Nat
    BY <2>2, Words
  <2>4. Len(mem.heap) \in Nat
    BY <2>2
  <2> QED
    BY <2>1, <2>3, <2>4 DEF HeapSound
<1> QED
  BY <1>1, <1>2, <1>3, Invariance, PTL DEF Spec

(* Of any program: the words in use become fewer only where the sum of a   *)
(* SYS_HEAP_GROW wraps.                                                    *)
THEOREM HeapOnlyGrows == Spec => HeapGrowsUnlessWrapped
<1>1. IInv /\ [Next]_vars =>
        [mem'.used < mem.used =>
           /\ status = "running" /\ At < Len(prog)
           /\ prog[At + 1].op = "SYS" /\ prog[At + 1].fn = "syscall"
           /\ regs[A13] = SYS_HEAP_GROW
           /\ mem.used + regs[A0] >= WordSize]_vars
  <2>1. SUFFICES ASSUME TypeInv, Next, mem'.used < mem.used
                 PROVE  /\ status = "running" /\ At < Len(prog)
                        /\ prog[At + 1].op = "SYS" /\ prog[At + 1].fn = "syscall"
                        /\ regs[A13] = SYS_HEAP_GROW
                        /\ mem.used + regs[A0] >= WordSize
    BY DEF IInv
  <2>2. /\ TypeInv'
        /\ mem.used <= mem'.used \/ (Asking /\ mem.used + regs[A0] >= WordSize)
    BY <2>1, NextKeeps DEF HeapKept
  <2>3. mem.used \in Nat /\ mem'.used \in Nat
    <3>1. mem.used \in Word /\ mem'.used \in Word
      BY <2>1, <2>2 DEF TypeInv, Memory
    <3> QED
      BY <3>1, Words
  <2> QED
    BY <2>1, <2>2, <2>3 DEF Asking, Grows
<1> QED
  BY <1>1, Invariance, PTL DEF Spec, HeapGrowsUnlessWrapped
-----------------------------------------------------------------------------
(* The refinement.  The instruction set's state, seen in the machine's.    *)

IsaPc == IF At >= Len(prog) THEN Len(prog) ELSE At
IsaGpr == [r \in RegIds \ {ZERO, PC} |-> regs[r]]
IsaStatus == IF engine = "run" /\ status = "running" /\ pc >= Len(prog) THEN "stopped" ELSE status

(* Where both engines fetch, and the registers the instruction sees.       *)
Seen == Put(regs, PC, At + 1)

Fetching == IInv /\ status = "running" /\ At < Len(prog)

(* An engine about to execute is where Isa is, at the same instruction.    *)
LEMMA Fetched ==
  ASSUME Fetching
  PROVE  /\ At \in Nat /\ At + 1 \in DOMAIN prog /\ prog[At + 1] \in Instruction
         /\ regs \in Registers /\ mem \in Memory /\ At + 1 \in Word
         /\ Seen \in Registers /\ Seen[PC] = At + 1 /\ Seen[ZERO] = 0
         /\ \A r \in RegIds \ {PC} : Seen[r] = regs[r]
         /\ IsaPc = At /\ IsaStatus = "running"
<1>1. TypeInv /\ regs[ZERO] = 0
  BY DEF Fetching, IInv, ZeroReadsZero
<1>2. regs \in Registers /\ mem \in Memory /\ pc \in Word
  BY <1>1 DEF TypeInv, TypeOK, Registers
<1>3. {ZERO, PC} \subseteq RegIds /\ ZERO # PC /\ regs[PC] \in Word
  BY <1>2, ArgumentRegisters
<1>4. At \in Nat
  BY <1>2, <1>3, Words DEF At
<1>5. At + 1 \in Word
  <2>1. Len(prog) \in Nat /\ Len(prog) + 1 < WordSize
    BY <1>1, CodeSize
  <2> QED
    BY <1>4, <2>1, WordSizeType DEF Word, Fetching
<1>6. Seen \in Registers /\ Seen[PC] = At + 1 /\ \A r \in RegIds \ {PC} : Seen[r] = regs[r]
  <2>1. regs \in Registers /\ PC \in RegIds /\ At + 1 \in Word
    BY <1>2, <1>3, <1>5
  <2> QED
    BY <2>1, PutTyped DEF Seen
<1>7. At + 1 \in DOMAIN prog /\ prog[At + 1] \in Instruction /\ Len(prog) \in Nat
  BY <1>1, <1>4, CodeSize DEF Fetching
<1>8. IsaPc = At /\ IsaStatus = "running"
  BY <1>4, <1>7 DEF IsaPc, IsaStatus, Fetching, At
<1> QED
  BY <1>1, <1>2, <1>3, <1>4, <1>5, <1>6, <1>7, <1>8

(* The two see the same registers through the refinement mapping.          *)
LEMMA IsaSees ==
  ASSUME Fetching
  PROVE  I!View = Seen
<1>1. /\ regs \in Registers /\ IsaPc = At /\ At + 1 \in Word /\ regs[ZERO] = 0
      /\ {ZERO, PC} \subseteq RegIds /\ ZERO # PC
  BY Fetched, ArgumentRegisters DEF Fetching, IInv, ZeroReadsZero
<1>2. Wrap(IsaPc + 1) = At + 1
  BY <1>1, WrapOfWord
<1>3. I!View = [r \in RegIds |-> IF r = ZERO THEN 0 ELSE IF r = PC THEN Wrap(IsaPc + 1) ELSE IsaGpr[r]]
  BY IsaOperators DEF I!View, IsaPc, IsaGpr
<1>4. ASSUME NEW r \in RegIds
      PROVE  (IF r = ZERO THEN 0 ELSE IF r = PC THEN Wrap(IsaPc + 1) ELSE IsaGpr[r]) = Seen[r]
  BY <1>1, <1>2, <1>4, Fetched DEF IsaGpr
<1>5. Seen \in [RegIds -> Word]
  BY Fetched DEF Registers
<1> QED
  BY <1>3, <1>4, <1>5

(* and so expect the same outcomes of an instruction.                      *)
LEMMA IsaOutcomes ==
  ASSUME Fetching, NEW i \in Instruction
  PROVE  I!Outcomes(i) = Executes(i, Seen)
<1>1. I!View = Seen /\ IsaPc = At /\ At \in Nat /\ Seen[PC] = At + 1
  BY IsaSees, Fetched
<1>2. "jmp" \notin IFunctions /\ "jmp" \notin RFunctions
  BY DEF IFunctions, RFunctions
<1>3. i.imm \in Int
  BY DEF Instruction
<1>4. Seen[PC] - 1 + i.imm = IsaPc + i.imm
  BY <1>1, <1>3
<1>5. CASE Arithmetic(i)
  BY <1>1, <1>2, <1>5, IsaOperators DEF I!Outcomes, Executes, Arithmetic
<1>6. CASE i.op = "I" /\ i.fn = "jmp"
  BY <1>1, <1>2, <1>6, IsaOperators DEF I!Outcomes, Executes
<1>7. CASE i.op = "S" /\ i.fn = "sw"
  BY <1>1, <1>7, IsaOperators DEF I!Outcomes, Executes
<1>8. CASE i.op = "L" /\ i.fn = "lw"
  BY <1>1, <1>8, IsaOperators DEF I!Outcomes, Executes
<1>9. CASE i.op = "B" /\ i.fn \in BFunctions
  BY <1>1, <1>4, <1>9, IsaOperators DEF I!Outcomes, Executes, IsaPc
<1>10. CASE i.op = "SYS" /\ i.fn \in {"halt", "syscall", "nop", "break"}
  BY <1>1, <1>10, IsaOperators DEF I!Outcomes, Executes
<1>11. CASE ~Known(i)
  BY <1>1, <1>11, IsaOperators DEF I!Outcomes, Executes, Known, Arithmetic
<1> QED
  BY <1>5, <1>6, <1>7, <1>8, <1>9, <1>10, <1>11 DEF Known

(* Only the exit call ends a guest with "exited", its registers untouched. *)
LEMMA ExitKeeps ==
  ASSUME Fetching, NEW o \in Executes(prog[At + 1], Seen), o.status = "exited"
  PROVE  o.regs[A0] = Seen[A0]
<1> DEFINE i == prog[At + 1]
           addr == Wrap(Seen[i.ra] + i.imm)
<1>1. i \in Instruction /\ Seen \in Registers /\ mem \in Memory
  BY Fetched
<1> HIDE DEF i
<1>2. o \in Executes(i, Seen)
  BY DEF i
<1>3. CASE i.op = "SYS" /\ i.fn = "syscall"
  <2>1. o \in handleSyscall(Seen, mem, prog)
    BY <1>2, <1>3 DEF Executes
  <2>2. IsCode(prog)
    BY CodeSize DEF Fetching, IInv
  <2> QED
    BY <1>1, <2>1, <2>2, SyscallIsLegal DEF Legal
<1>4. CASE ~Known(i)
  <2>1. o \in handleExtensionOpcode(i, extensions, Seen, mem)
    BY <1>2, <1>4 DEF Executes, Known, Arithmetic
  <2>2. o.status \in {"running", "fatal", "wild"}
    BY <1>1, <2>1, ExtensionIsLegal
  <2> QED
    BY <2>2
<1>5. CASE i.op = "S" /\ i.fn = "sw"
  <2>1. addr \in Word
    <3>1. Seen[i.ra] \in Word /\ i.imm \in Int
      BY <1>1, OperandIsWord DEF Instruction
    <3>2. Seen[i.ra] + i.imm \in Int
      BY <3>1, Words
    <3> QED
      BY <3>2, WrapIsWord
  <2>2. setWord(mem, addr, Operand(i, Seen)).status \in {"running", "fatal", "wild"}
    BY <2>1, StoreStatus
  <2>3. o.status = setWord(mem, addr, Operand(i, Seen)).status
    BY <1>2, <1>5 DEF Executes, Outcome
  <2> QED
    BY <2>2, <2>3
<1>6. CASE Known(i) /\ i.op # "S" /\ ~(i.op = "SYS" /\ i.fn = "syscall")
  <2>1. "jmp" \notin IFunctions /\ "jmp" \notin RFunctions
    BY DEF IFunctions, RFunctions
  <2>2. o.status \in {"running", "stopped", "wild"}
    <3>1. CASE Arithmetic(i)
      BY <1>2, <2>1, <3>1 DEF Executes, Arithmetic, Outcome
    <3>2. CASE i.op = "I" /\ i.fn = "jmp"
      BY <1>2, <2>1, <3>2 DEF Executes, Outcome
    <3>3. CASE i.op = "L" /\ i.fn = "lw"
      BY <1>2, <3>3 DEF Executes, Outcome, Ends
    <3>4. CASE i.op = "B" /\ i.fn \in BFunctions
      BY <1>2, <3>4 DEF Executes, Outcome
    <3>5. CASE i.op = "SYS" /\ i.fn \in {"halt", "nop", "break"}
      BY <1>2, <3>5 DEF Executes, Outcome, Ends
    <3> QED
      BY <1>6, <3>1, <3>2, <3>3, <3>4, <3>5 DEF Known
  <2> QED
    BY <2>2
<1> QED
  BY <1>3, <1>4, <1>5, <1>6 DEF Known, Arithmetic

(* A step that leaves what an outcome of the instruction set is, executes. *)
LEMMA IsaExecutes ==
  ASSUME Fetching, NEW o \in Executes(prog[At + 1], Seen), o.status \notin {"fatal", "wild"},
         prog' = prog, extensions' = extensions, mem' = o.mem, output' = output \o o.io,
         exitCode' = IF o.status = "exited" THEN regs[A0] ELSE exitCode,
         IsaGpr' = [r \in RegIds \ {ZERO, PC} |-> o.regs[r]],
         IsaPc' = IF o.regs[PC] >= Len(prog) THEN Len(prog) ELSE o.regs[PC],
         IsaStatus' = IF o.status = "running" /\ o.regs[PC] >= Len(prog) THEN "stopped"
                                                                        ELSE o.status
  PROVE  I!Execute
<1>1. prog[At + 1] \in Instruction /\ IsaPc = At /\ IsaStatus = "running"
  BY Fetched
<1>2. o \in I!Outcomes(prog[IsaPc + 1])
  BY <1>1, IsaOutcomes
<1>3. IsaGpr[A0] = regs[A0]
  BY ArgumentRegisters DEF IsaGpr
<1> QED
  BY <1>1, <1>2, <1>3, IsaOperators
     DEF I!Execute, I!GPR, I!Clamp, I!Gone, IsaPc, IsaGpr, IsaStatus

Frozen == UNCHANGED <<prog, extensions, engine, regs, pc, mem, output, exitCode>>

(* A death leaves Isa's variables, but the status, as they were.           *)
LEMMA FrozenIsa ==
  ASSUME Frozen
  PROVE  IsaPc' = IsaPc /\ IsaGpr' = IsaGpr /\ (status' # "running" => IsaStatus' = status')
BY DEF Frozen, IsaPc, IsaGpr, IsaStatus, At

(* A death is a fault of Isa's,                                            *)
LEMMA IsaFaults ==
  ASSUME Fetching, NEW o \in Executes(prog[At + 1], Seen), o.status \in {"fatal", "wild"},
         Frozen, status' = o.status
  PROVE  I!Fault
<1>1. prog[At + 1] \in Instruction /\ IsaPc = At /\ IsaStatus = "running"
  BY Fetched
<1>2. o \in I!Outcomes(prog[IsaPc + 1])
  BY <1>1, IsaOutcomes
<1>3. IsaPc' = IsaPc /\ IsaGpr' = IsaGpr /\ IsaStatus' = o.status
  BY FrozenIsa
<1> QED
  BY <1>1, <1>2, <1>3 DEF I!Fault, I!Gone, Frozen, IsaPc, IsaGpr, IsaStatus

(* or, with the stack pointer past the stack, one it permits.              *)
LEMMA IsaStackFaults ==
  ASSUME Fetching, NEW o \in Executes(prog[At + 1], Seen), o.regs[SP] >= STACK_ADDR + StackWords,
         Frozen, status' = "fatal"
  PROVE  I!StackFault
<1>1. prog[At + 1] \in Instruction /\ IsaPc = At /\ IsaStatus = "running"
  BY Fetched
<1>2. o \in I!Outcomes(prog[IsaPc + 1])
  BY <1>1, IsaOutcomes
<1>3. IsaPc' = IsaPc /\ IsaGpr' = IsaGpr /\ IsaStatus' = "fatal"
  BY FrozenIsa
<1> QED
  BY <1>1, <1>2, <1>3, IsaOperators DEF I!StackFault, Frozen, IsaPc, IsaGpr, IsaStatus

(* step() implements the instruction set as long as it is in the code.     *)
LEMMA StepRefines ==
  ASSUME IInv, engine = "step", lawful, Step!Next, UNCHANGED <<engine, pc, lawful>>
  PROVE  I!Next
<1>1. status = "running" /\ TypeInv
  BY StepExecutes DEF IInv
<1>2. At = regs[PC] /\ regs[PC] < Len(prog)
  BY <1>1 DEF IInv, Lawful, At
<1>3. Fetching
  BY <1>1, <1>2 DEF Fetching
<1>4. Step!Instr = prog[At + 1] /\ Step!Fetched = Seen
  BY <1>1, <1>2, StepFetches DEF Seen
<1>5. PICK o \in Executes(prog[At + 1], Seen) :
        \/ o.status \in {"fatal", "wild"} /\ Step!Dies(o.status)
        \/ o.status \notin {"fatal", "wild"} /\ Step!Epilogue(o.regs, o.mem, o.status, o.io)
  BY <1>1, <1>2, <1>4, StepExecutes
<1>6. ASSUME NEW st, Step!Dies(st)
      PROVE  Frozen /\ status' = st
  BY <1>6 DEF Step!Dies, Frozen
<1>7. CASE o.status \in {"fatal", "wild"} /\ Step!Dies(o.status)
  BY <1>3, <1>6, <1>7, IsaFaults DEF I!Next
<1>8. CASE /\ o.status \notin {"fatal", "wild"} /\ Step!Epilogue(o.regs, o.mem, o.status, o.io)
           /\ o.regs[SP] >= STACKSIZE + STACK_ADDR
  <2>1. Step!Dies("fatal")
    BY <1>8, StepOperators DEF Step!Epilogue
  <2>2. o.regs[SP] >= STACK_ADDR + StackWords
    <3>1. o.regs \in Registers
      BY <1>1, <1>3, <1>5, Fetched, ExecutesIsLegal
    <3>2. o.regs[SP] \in Nat
      <4>1. o.regs[SP] \in Word
        BY <3>1, ArgumentRegisters
      <4> QED
        BY <4>1, Words
    <3>3. /\ STACK_ADDR \in Nat /\ StackWords \in Nat /\ WordBytes \in Nat \ {0}
      BY MachineAssumption
    <3>4. StackWords * WordBytes >= StackWords /\ StackWords * WordBytes \in Nat
      BY <3>3
    <3> DEFINE bytes == StackWords * WordBytes
    <3> HIDE DEF bytes
    <3>5. bytes \in Nat /\ bytes >= StackWords /\ o.regs[SP] >= bytes + STACK_ADDR
      BY <1>8, <3>4 DEF bytes, STACKSIZE
    <3> QED
      BY <3>2, <3>3, <3>5
  <2> QED
    BY <1>3, <1>6, <2>1, <2>2, IsaStackFaults DEF I!Next
<1>9. CASE /\ o.status \notin {"fatal", "wild"} /\ Step!Epilogue(o.regs, o.mem, o.status, o.io)
           /\ ~(o.regs[SP] >= STACKSIZE + STACK_ADDR)
  <2>1. o.regs \in Registers /\ (o.status = "exited" => o.regs[A0] = regs[A0])
    <3>1. o.regs \in Registers
      BY <1>1, <1>3, <1>5, Fetched, ExecutesIsLegal
    <3>2. o.status = "exited" => o.regs[A0] = Seen[A0]
      BY <1>3, <1>5, ExitKeeps
    <3> QED
      BY <1>3, <3>1, <3>2, Fetched, ArgumentRegisters
  <2>2. /\ regs' = Put(o.regs, ZERO, 0) /\ mem' = o.mem /\ prog' = prog
        /\ extensions' = extensions /\ output' = output \o o.io
        /\ status' = IF o.status = "running" /\ o.regs[PC] >= Len(prog) THEN "stopped" ELSE o.status
        /\ exitCode' = IF o.status = "exited" THEN o.regs[A0] ELSE exitCode
    BY <1>9, StepOperators DEF Step!Epilogue, Step!ZeroCleared, Put
  <2>3. \A r \in RegIds \ {ZERO} : regs'[r] = o.regs[r]
    BY <2>1, <2>2, ZeroPut
  <2>4. IsaGpr' = [r \in RegIds \ {ZERO, PC} |-> o.regs[r]]
    BY <2>3 DEF IsaGpr
  <2>5. PC \in RegIds \ {ZERO}
    BY ArgumentRegisters
  <2>6. At' = o.regs[PC]
    BY <2>3, <2>5 DEF At
  <2>7. IsaPc' = IF o.regs[PC] >= Len(prog) THEN Len(prog) ELSE o.regs[PC]
    BY <2>2, <2>6 DEF IsaPc
  <2>8. IsaStatus' = status'
    BY DEF IsaStatus
  <2>9. I!Execute
    BY <1>3, <1>9, <2>1, <2>2, <2>4, <2>7, <2>8, IsaExecutes
  <2> QED
    BY <2>9 DEF I!Next
<1> QED
  BY <1>5, <1>7, <1>8, <1>9

(* run() leaving through its sentinel: the guest of Isa stops at the end   *)
(* of the code.                                                            *)
LEMMA RunAtEnd ==
  ASSUME IInv, engine = "run", pc = Len(prog), Run!Next, UNCHANGED <<engine, lawful>>
  PROVE  UNCHANGED I!vars
<1>1. TypeInv /\ output \in Seq(Word) /\ Len(prog) \in Nat /\ pc <= Len(prog)
      /\ regs \in Registers
  BY CodeSize DEF IInv, TypeInv, TypeOK, Registers
<1>2. Run!Instr.op = "SYS" /\ Run!Instr.fn = "halt" /\ Run!After = pc + 1
  BY <1>1, RunFetches
<1>3. Run!ExecHalt
  BY <1>1, <1>2, RunOperators
     DEF Run!Next, Run!WildFetch, Run!InDecoded, Run!code_end, Run!ExecArithmetic, Run!ExecJmp,
         Run!ExecStore, Run!ExecLoad, Run!ExecBranch, Run!ExecIdle, Run!ExecSyscall,
         Run!DoIllegal, Run!InTable, Run!Fetches
<1>4. status = "running" /\ Run!Leave(Run!Synced, mem, "stopped", Silent)
  BY <1>3, RunOperators DEF Run!ExecHalt, Run!Fetches
<1>5. /\ regs' = Put(regs, PC, pc + 1) /\ pc' = pc + 1 /\ mem' = mem /\ status' = "stopped"
      /\ output' = output \o Silent /\ exitCode' = exitCode
      /\ prog' = prog /\ extensions' = extensions
  BY <1>1, <1>2, <1>4, RunFetches DEF Run!Leave
<1>6. output' = output
  BY <1>1, <1>5 DEF Silent
<1>7. IsaGpr' = IsaGpr
  BY <1>1, <1>5 DEF IsaGpr, Put, Registers
<1>8. IsaPc' = IsaPc /\ IsaStatus' = IsaStatus
  BY <1>1, <1>4, <1>5 DEF IsaPc, IsaStatus, At
<1> QED
  BY <1>5, <1>6, <1>7, <1>8 DEF I!vars, IsaPc, IsaGpr, IsaStatus

(* A dispatch to the next instruction executes in Isa,                     *)
LEMMA RunDispatches ==
  ASSUME Fetching, engine = "run", engine' = engine,
         NEW o \in Executes(prog[At + 1], Seen), o.status = "running",
         NEW rg \in Registers, \A r \in RegIds \ {ZERO, PC} : rg[r] = o.regs[r],
         NEW target \in Nat, Run!Dispatch(rg, o.mem, target, o.io),
         IF target >= Len(prog) THEN o.regs[PC] >= Len(prog)
                                ELSE o.regs[PC] = target /\ ~(o.regs[PC] >= Len(prog)),
         target <= Len(prog)
  PROVE  I!Next
<1>1. /\ regs' = Put(rg, ZERO, 0) /\ mem' = o.mem /\ prog' = prog /\ pc' = target
      /\ extensions' = extensions /\ output' = output \o o.io
      /\ status' = "running" /\ exitCode' = exitCode
  BY RunOperators DEF Run!Dispatch, Run!ZeroCleared, Put, Fetching
<1>2. \A r \in RegIds \ {ZERO} : regs'[r] = rg[r]
  BY <1>1, ZeroPut
<1>3. IsaGpr' = [r \in RegIds \ {ZERO, PC} |-> o.regs[r]]
  BY <1>2 DEF IsaGpr
<1>4. IsaPc' = IF o.regs[PC] >= Len(prog) THEN Len(prog) ELSE o.regs[PC]
  BY <1>1 DEF IsaPc, At
<1>5. IsaStatus' = IF o.status = "running" /\ o.regs[PC] >= Len(prog) THEN "stopped" ELSE o.status
  BY <1>1 DEF IsaStatus
<1>6. I!Execute
  BY <1>1, <1>3, <1>4, <1>5, IsaExecutes
<1> QED
  BY <1>6 DEF I!Next

(* a death is a fault of Isa's,                                            *)
LEMMA RunDies ==
  ASSUME Fetching, engine' = engine, NEW o \in Executes(prog[At + 1], Seen),
         o.status \in {"fatal", "wild"}, Run!Dies(o.status)
  PROVE  I!Next
<1>1. Frozen /\ status' = o.status
  BY DEF Frozen, Run!Dies
<1> QED
  BY <1>1, IsaFaults DEF I!Next

(* and what leaves the loop ends the guest of Isa.                         *)
LEMMA RunLeaves ==
  ASSUME Fetching, engine = "run", engine' = engine,
         NEW o \in Executes(prog[At + 1], Seen), o.status \in {"stopped", "exited"},
         o.regs[PC] = At + 1, Run!Leave(o.regs, o.mem, o.status, o.io)
  PROVE  I!Next
<1>1. /\ regs' = o.regs /\ mem' = o.mem /\ prog' = prog /\ pc' = pc + 1 /\ status' = o.status
      /\ extensions' = extensions /\ output' = output \o o.io
      /\ exitCode' = IF o.status = "exited" THEN o.regs[A0] ELSE exitCode
  <2>1. TypeInv /\ pc <= Len(prog)
    <3>1. pc \in Nat /\ pc < Len(prog) /\ TypeInv
      BY Fetched DEF At, Fetching, IInv
    <3> QED
      BY <3>1, CodeSize
  <2>2. Run!After = pc + 1
    BY <2>1, RunFetches
  <2> QED
    BY <2>2, RunOperators DEF Run!Leave
<1>2. o.status = "exited" => o.regs[A0] = regs[A0]
  BY ExitKeeps, Fetched, ArgumentRegisters
<1>3. IsaGpr' = [r \in RegIds \ {ZERO, PC} |-> o.regs[r]]
  BY <1>1 DEF IsaGpr
<1>4. IsaPc' = IF o.regs[PC] >= Len(prog) THEN Len(prog) ELSE o.regs[PC]
  BY <1>1 DEF IsaPc, At
<1>5. IsaStatus' = o.status
  BY <1>1 DEF IsaStatus
<1>6. I!Execute
  BY <1>1, <1>2, <1>3, <1>4, <1>5, IsaExecutes
<1> QED
  BY <1>6 DEF I!Next

(* run() implements it too, for programs that keep the rules: it does not  *)
(* keep r1 up to date, and such a program does not look.                   *)
LEMMA RunRefines ==
  ASSUME IInv, engine = "run", lawful, pc < Len(prog), Run!Next, UNCHANGED <<engine, lawful>>
  PROVE  I!Next
<1> DEFINE i == Run!Instr
           a == Seen[i.ra]
           b == Operand(i, Seen)
           addr == Wrap(a + i.imm)
<1> USE DEF Run!Fetches
<1>0. "jmp" \notin IFunctions /\ "jmp" \notin RFunctions
  BY DEF IFunctions, RFunctions
<1>1. Fetching /\ At = pc /\ TypeInv
  <2>1. status = "running" /\ TypeInv
    BY RunExecutes DEF IInv
  <2> QED
    BY <2>1 DEF Fetching, At
<1>2. /\ pc \in Nat /\ Len(prog) \in Nat /\ pc + 1 <= Len(prog) /\ pc + 1 \in DOMAIN prog
      /\ Run!After = pc + 1 /\ Run!Synced = Seen /\ i = prog[At + 1] /\ i \in Instruction
      /\ regs \in Registers /\ mem \in Memory /\ Seen \in Registers /\ Seen[PC] = pc + 1
      /\ ~Run!WildFetch
  <2>1. Len(prog) \in Nat /\ pc \in Nat
    BY <1>1, Fetched, CodeSize
  <2>2. pc <= Len(prog)
    BY <2>1
  <2> QED
    BY <1>1, <2>1, <2>2, Fetched, RunFetches DEF Seen, Run!WildFetch, Run!InDecoded, Run!code_end
<1>3. /\ {ZERO, PC} \subseteq RegIds /\ i.rd \in RegIds /\ i.ra \in RegIds /\ i.rb \in RegIds
      /\ i.imm \in Int /\ PC \notin {i.rd, i.ra, i.rb}
      /\ i.op = "FB" => pc + i.imm \in 0 .. Len(prog)
  <2>1. /\ PC \notin {i.rd, i.ra, i.rb}
        /\ i.op = "FB" => (pc + 1) - 1 + i.imm \in 0 .. Len(prog)
    BY <1>1, <1>2 DEF IInv, Lawful
  <2>2. (pc + 1) - 1 = pc
    BY <1>2
  <2> QED
    BY <1>2, <2>1, <2>2, ArgumentRegisters DEF Instruction
<1> HIDE DEF i
<1>4. \A r \in RegIds \ {PC} : Seen[r] = regs[r]
  BY <1>1, Fetched
<1>5. regs[i.ra] = a /\ regs[i.rb] = Seen[i.rb] /\ Operand(i, regs) = b
  BY <1>3, <1>4 DEF Operand
<1>6. addr \in Word
  <2>1. a \in Word
    BY <1>2, OperandIsWord
  <2>2. a \in Nat
    BY <2>1, Words
  <2>3. a + i.imm \in Int
    BY <1>3, <2>2
  <2> QED
    BY <2>3, WrapIsWord
<1>7. ASSUME NEW o \in Executes(i, Seen), o.status = "running", o.regs[PC] = pc + 1,
             NEW rg \in Registers, \A r \in RegIds \ {ZERO, PC} : rg[r] = o.regs[r],
             Run!Dispatch(rg, o.mem, pc + 1, o.io)
      PROVE  I!Next
  BY <1>1, <1>2, <1>7, RunDispatches
<1>8. ASSUME NEW o \in Executes(i, Seen), o.status = "running", NEW rg \in Registers,
             \A r \in RegIds \ {ZERO, PC} : rg[r] = o.regs[r],
             o.regs[PC] \in Nat, NEW target, target = Run!ClampToEnd(o.regs[PC]),
             Run!Dispatch(rg, o.mem, target, o.io)
      PROVE  I!Next
  <2> DEFINE n == o.regs[PC]
  <2>1. target = IF n > Len(prog) THEN Len(prog) ELSE n
    BY <1>8 DEF Run!ClampToEnd, Run!code_end
  <2> HIDE DEF n
  <2>2. n \in Nat
    BY <1>8 DEF n
  <2>3. target \in Nat /\ target <= Len(prog)
    BY <1>2, <2>1, <2>2
  <2>4. IF target >= Len(prog) THEN n >= Len(prog) ELSE n = target /\ ~(n >= Len(prog))
    BY <1>2, <2>1, <2>2
  <2>5. IF target >= Len(prog) THEN o.regs[PC] >= Len(prog)
                               ELSE o.regs[PC] = target /\ ~(o.regs[PC] >= Len(prog))
    BY <2>4 DEF n
  <2>6. o \in Executes(prog[At + 1], Seen)
    BY <1>2, <1>8
  <2> QED
    BY <1>1, <1>8, <2>3, <2>5, <2>6, RunDispatches
<1>9. ASSUME NEW r
      PROVE  /\ Outcome(r, mem).regs = r /\ Outcome(r, mem).mem = mem
             /\ Outcome(r, mem).status = "running" /\ Outcome(r, mem).io = Silent
  BY DEF Outcome
<1>10. ASSUME NEW v \in Word, Outcome(Put(Seen, i.rd, v), mem) \in Executes(i, Seen),
              Run!Dispatch(Put(regs, i.rd, v), mem, pc + 1, Silent)
       PROVE  I!Next
  <2> DEFINE o == Outcome(Put(Seen, i.rd, v), mem)
  <2>1. o.regs = Put(Seen, i.rd, v) /\ o.mem = mem /\ o.status = "running" /\ o.io = Silent
    BY <1>9
  <2> HIDE DEF o
  <2>2. o.regs[PC] = pc + 1
    BY <1>2, <1>3, <2>1 DEF Put, Registers
  <2>3. \A r \in RegIds \ {ZERO, PC} : Put(regs, i.rd, v)[r] = o.regs[r]
    BY <1>2, <1>4, <2>1 DEF Put, Registers
  <2>4. Put(regs, i.rd, v) \in Registers
    BY <1>2, <1>3, PutTyped
  <2>5. o \in Executes(i, Seen)
    BY <1>10 DEF o
  <2> QED
    BY <1>7, <1>10, <2>1, <2>2, <2>3, <2>4, <2>5
<1>11. CASE Run!ExecArithmetic
  <2> DEFINE v == Alu(i.fn, a, b)
  <2>1. Arithmetic(i) /\ i.fn \in RFunctions
    BY <1>11, RunOperators DEF i, Run!ExecArithmetic, Arithmetic, IFunctions
  <2>2. v \in Word
    BY <1>2, <2>1, OperandIsWord, AluIsWord
  <2>3. Outcome(Put(Seen, i.rd, v), mem) \in Executes(i, Seen)
    BY <1>0, <2>1 DEF Executes, Arithmetic, Put
  <2>4. Run!Dispatch(Put(regs, i.rd, v), mem, pc + 1, Silent)
    BY <1>2, <1>5, <1>11, RunOperators DEF i, Run!ExecArithmetic, Put
  <2> HIDE DEF v
  <2> QED
    BY <1>10, <2>2, <2>3, <2>4
<1>12. CASE Run!ExecJmp
  <2> DEFINE r == [Seen EXCEPT ![PC] = addr, ![i.rd] = Seen[PC]]
             o == Outcome(r, mem)
  <2>1. i.op = "I" /\ i.fn = "jmp"
    BY <1>12 DEF i, Run!ExecJmp
  <2>2. o \in Executes(i, Seen)
    BY <1>0, <2>1 DEF Executes
  <2>3. o.regs = r /\ o.mem = mem /\ o.status = "running" /\ o.io = Silent
    BY <1>9
  <2> HIDE DEF o
  <2>4. o.regs[PC] = addr
    BY <1>2, <1>3, <2>3 DEF Registers
  <2>5. \A q \in RegIds \ {ZERO, PC} : Put(regs, i.rd, pc + 1)[q] = o.regs[q]
    BY <1>2, <1>4, <2>3 DEF Put, Registers
  <2>6. Put(regs, i.rd, pc + 1) \in Registers
    <3>1. pc + 1 \in Word
      BY <1>1, Fetched
    <3> QED
      BY <1>2, <1>3, <3>1, PutTyped
  <2>7. Run!Dispatch(Put(regs, i.rd, pc + 1), mem, Run!ClampToEnd(addr), Silent)
    BY <1>2, <1>5, <1>12, RunOperators DEF i, Run!ExecJmp, Put
  <2>8. Run!Dispatch(Put(regs, i.rd, pc + 1), o.mem, Run!ClampToEnd(o.regs[PC]), o.io)
    BY <2>3, <2>4, <2>7
  <2>9. o.regs[PC] \in Nat
    BY <1>6, <2>4, Words
  <2> QED
    BY <1>8, <2>2, <2>3, <2>5, <2>6, <2>8, <2>9
<1>13. CASE Run!ExecStore
  <2> DEFINE store == setWord(mem, addr, b)
             o == [Outcome(Seen, store.mem) EXCEPT !.status = store.status]
  <2>1. i.op = "S" /\ i.fn = "sw"
    BY <1>13 DEF i, Run!ExecStore
  <2>2. b = Seen[i.rb]
    BY <2>1 DEF Operand
  <2>3. o \in Executes(i, Seen)
    BY <2>1 DEF Executes
  <2>4. o.regs = Seen /\ o.mem = store.mem /\ o.status = store.status /\ o.io = Silent
    BY DEF Outcome
  <2>5. store.status \in {"running", "fatal", "wild"}
    BY <1>6, StoreStatus
  <2>6. IF store.status = "running" THEN Run!Dispatch(regs, store.mem, pc + 1, Silent)
                                    ELSE Run!Dies(store.status)
    BY <1>2, <1>5, <1>13, <2>2, RunOperators DEF i, Run!ExecStore
  <2> HIDE DEF o, store
  <2>7. CASE store.status = "running"
    BY <1>2, <1>4, <1>7, <2>3, <2>4, <2>6, <2>7
  <2>8. CASE store.status # "running"
    BY <1>1, <1>2, <2>3, <2>4, <2>5, <2>6, <2>8, RunDies
  <2> QED
    BY <2>7, <2>8
<1>14. CASE Run!ExecLoad
  <2> DEFINE v == loadWord(mem, prog, addr)
  <2>1. i.op = "L" /\ i.fn = "lw"
    BY <1>14 DEF i, Run!ExecLoad
  <2>2. IF WildLoad(mem, addr) THEN Run!Dies("wild")
                               ELSE Run!Dispatch(Put(regs, i.rd, v), mem, pc + 1, Silent)
    BY <1>2, <1>5, <1>14, RunOperators DEF i, Run!ExecLoad, Put
  <2>3. CASE WildLoad(mem, addr)
    <3> DEFINE o == [Outcome(Seen, mem) EXCEPT !.status = "wild"]
    <3>1. o \in Executes(i, Seen) /\ o.status = "wild"
      BY <2>1, <2>3 DEF Executes, Ends, Outcome
    <3> HIDE DEF o
    <3> QED
      BY <1>1, <1>2, <2>2, <2>3, <3>1, RunDies
  <2>4. CASE ~WildLoad(mem, addr)
    <3>1. Outcome(Put(Seen, i.rd, v), mem) \in Executes(i, Seen)
      BY <2>1, <2>4 DEF Executes, Put
    <3>2. v \in Word
      BY <1>1, <1>2, <1>6, LoadIsWord, CodeSize
    <3> HIDE DEF v
    <3> QED
      BY <1>10, <2>2, <2>4, <3>1, <3>2
  <2> QED
    BY <2>3, <2>4
<1>15. CASE Run!ExecBranch
  <2> DEFINE to == Wrap(Seen[PC] - 1 + i.imm)
             o == Outcome(IF Taken(i.fn, a, b) THEN [Seen EXCEPT ![PC] = to] ELSE Seen, mem)
  <2>1. i.op = "B" /\ i.fn \in BFunctions
    BY <1>15, RunOperators DEF i, Run!ExecBranch
  <2>2. b = Seen[i.rb]
    BY <2>1 DEF Operand
  <2>3. o \in Executes(i, Seen)
    BY <2>1 DEF Executes
  <2>4. /\ o.regs = IF Taken(i.fn, a, b) THEN [Seen EXCEPT ![PC] = to] ELSE Seen
        /\ o.mem = mem /\ o.status = "running" /\ o.io = Silent
    BY <1>9
  <2>5. to \in Word
    <3>1. Seen[PC] - 1 + i.imm \in Int
      BY <1>2, <1>3
    <3> QED
      BY <3>1, WrapIsWord
  <2>6. Run!Dispatch(regs, mem, IF Taken(i.fn, a, b) THEN Run!ClampToEnd(to) ELSE pc + 1, Silent)
    BY <1>2, <1>5, <1>15, <2>2, RunOperators DEF i, Run!ExecBranch, Run!BranchTarget
  <2> HIDE DEF o, to
  <2>7. CASE Taken(i.fn, a, b)
    <3>1. o.regs[PC] = to /\ \A q \in RegIds \ {ZERO, PC} : regs[q] = o.regs[q]
      BY <1>2, <1>3, <1>4, <2>4, <2>7 DEF Registers
    <3>2. Run!Dispatch(regs, o.mem, Run!ClampToEnd(o.regs[PC]), o.io)
      BY <2>4, <2>6, <2>7, <3>1
    <3>3. o.regs[PC] \in Nat
      BY <2>5, <3>1, Words
    <3> QED
      BY <1>2, <1>8, <2>3, <2>4, <3>1, <3>2, <3>3
  <2>8. CASE ~Taken(i.fn, a, b)
    BY <1>2, <1>4, <1>7, <2>3, <2>4, <2>6, <2>8
  <2> QED
    BY <2>7, <2>8
<1>16. CASE Run!ExecHalt
  <2> DEFINE o == [Outcome(Seen, mem) EXCEPT !.status = "stopped"]
  <2>1. o \in Executes(i, Seen)
    BY <1>16 DEF i, Run!ExecHalt, Executes, Ends
  <2>2. o.regs = Seen /\ o.mem = mem /\ o.status = "stopped" /\ o.io = Silent
    BY DEF Outcome
  <2>3. Run!Leave(Seen, mem, "stopped", Silent)
    BY <1>2, <1>16, RunOperators DEF Run!ExecHalt
  <2> HIDE DEF o
  <2> QED
    BY <1>1, <1>2, <2>1, <2>2, <2>3, RunLeaves
<1>17. CASE Run!ExecIdle
  <2>1. Outcome(Seen, mem) \in Executes(i, Seen)
    BY <1>17 DEF i, Run!ExecIdle, Executes
  <2>2. Run!Dispatch(regs, mem, pc + 1, Silent)
    BY <1>2, <1>17, RunOperators DEF Run!ExecIdle
  <2> QED
    BY <1>2, <1>4, <1>7, <1>9, <2>1, <2>2
<1>18. ASSUME NEW o \in Executes(i, Seen), o.status \in {"running", "exited", "fatal", "wild"},
              o.regs \in Registers, o.regs[PC] \in Nat, o.regs[PC] <= Len(prog),
              o.status = "exited" => o.regs[PC] = pc + 1,
              CASE o.status \in {"fatal", "wild"} -> Run!Dies(o.status)
                [] o.status = "running" -> Run!Dispatch(o.regs, o.mem, o.regs[PC], o.io)
                [] o.status = "exited" -> Run!Leave(o.regs, o.mem, "exited", o.io)
       PROVE  I!Next
  <2>1. CASE o.status \in {"fatal", "wild"}
    <3>1. Run!Dies(o.status)
      BY <1>18, <2>1
    <3> QED
      BY <1>1, <1>2, <2>1, <3>1, RunDies
  <2>2. CASE o.status = "running"
    <3>1. Run!Dispatch(o.regs, o.mem, o.regs[PC], o.io)
      BY <1>18, <2>2
    <3>2. o.regs[PC] = Run!ClampToEnd(o.regs[PC])
      <4>1. ~(o.regs[PC] > Len(prog))
        BY <1>2, <1>18
      <4> QED
        BY <4>1 DEF Run!ClampToEnd, Run!code_end
    <3> QED
      BY <1>8, <1>18, <2>2, <3>1, <3>2
  <2>3. CASE o.status = "exited"
    <3>1. Run!Leave(o.regs, o.mem, o.status, o.io)
      BY <1>18, <2>3
    <3> QED
      BY <1>1, <1>2, <1>18, <2>3, <3>1, RunLeaves
  <2> QED
    BY <1>18, <2>1, <2>2, <2>3
<1>19. CASE Run!ExecSyscall
  <2>1. i.op = "SYS" /\ i.fn = "syscall"
    BY <1>19 DEF i, Run!ExecSyscall
  <2>2. PICK o \in handleSyscall(Seen, mem, prog) :
          CASE o.status \in {"fatal", "wild"} -> Run!Dies(o.status)
            [] o.status = "running" -> Run!Dispatch(o.regs, o.mem, o.regs[PC], o.io)
            [] o.status = "exited" -> Run!Leave(o.regs, o.mem, "exited", o.io)
    BY <1>2, <1>19, RunOperators DEF Run!ExecSyscall, Run!Outside
  <2>3. o \in Executes(i, Seen)
    BY <2>1, <2>2 DEF Executes
  <2>4. Legal(Seen, o)
    <3>1. IsCode(prog)
      BY <1>1, CodeSize
    <3> QED
      BY <1>2, <3>1, SyscallIsLegal
  <2>5. o.regs[PC] = pc + 1
    BY <1>2, <2>4, ArgumentRegisters DEF Legal
  <2>6. o.regs[PC] \in Nat /\ o.regs[PC] <= Len(prog)
    BY <1>2, <2>5
  <2>7. o.status \in {"running", "exited", "fatal", "wild"} /\ o.regs \in Registers
    BY <2>4 DEF Legal
  <2> QED
    BY <1>18, <2>2, <2>3, <2>5, <2>6, <2>7
<1>20. CASE Run!DoIllegal
  <2>1. ~Known(i)
    BY <1>20, RunOperators DEF i, Run!DoIllegal, Run!InTable, Known, Arithmetic
  <2>2. PICK o \in handleExtensionOpcode(i, extensions, Seen, mem) :
          CASE o.status \in {"fatal", "wild"} -> Run!Dies(o.status)
            [] o.status = "running" -> Run!Dispatch(o.regs, o.mem, o.regs[PC], o.io)
            [] o.status = "exited" -> Run!Leave(o.regs, o.mem, "exited", o.io)
    BY <1>2, <1>20, RunOperators DEF i, Run!DoIllegal, Run!Outside
  <2>3. o \in Executes(i, Seen)
    BY <2>1, <2>2 DEF Executes, Known, Arithmetic
  <2> DEFINE target == Wrap(Seen[PC] - 1 + i.imm)
  <2>4. /\ o.status \in {"running", "fatal", "wild"}
        /\ \/ o.regs = Seen
           \/ i.op = "FB" /\ o.regs = Put(Seen, PC, target)
           \/ \E v \in Word : o.regs = Put(Seen, i.rd, v)
    BY <1>2, <2>2, ExtensionIsLegal
  <2>5. target \in Word /\ (pc + i.imm \in 0 .. Len(prog) => target = pc + i.imm)
    <3>1. Seen[PC] - 1 + i.imm = pc + i.imm /\ pc + i.imm \in Int
      BY <1>2, <1>3
    <3>2. pc + i.imm \in 0 .. Len(prog) => pc + i.imm \in Word
      <4>1. Len(prog) + 1 < WordSize
        BY <1>1, CodeSize
      <4> QED
        BY <1>2, <3>1, <4>1, WordSizeType DEF Word
    <3> QED
      BY <3>1, <3>2, WrapIsWord, WrapOfWord
  <2> HIDE DEF target
  <2>6. o.regs \in Registers /\ o.regs[PC] \in Nat /\ o.regs[PC] <= Len(prog)
    <3>1. CASE o.regs = Seen
      BY <1>2, <3>1
    <3>2. CASE i.op = "FB" /\ o.regs = Put(Seen, PC, target)
      <4>1. o.regs \in Registers /\ o.regs[PC] = target
        BY <1>2, <1>3, <2>5, <3>2, PutTyped
      <4> QED
        BY <1>2, <1>3, <2>5, <3>2, <4>1
    <3>3. ASSUME NEW v \in Word, o.regs = Put(Seen, i.rd, v)
          PROVE  o.regs \in Registers /\ o.regs[PC] = pc + 1
      <4>1. o.regs \in Registers
        BY <1>2, <1>3, <3>3, PutTyped
      <4>2. o.regs[PC] = pc + 1
        BY <1>2, <1>3, <3>3 DEF Put, Registers
      <4> QED
        BY <4>1, <4>2
    <3> QED
      BY <1>2, <2>4, <3>1, <3>2, <3>3
  <2> QED
    BY <1>18, <2>2, <2>3, <2>4, <2>6
<1> QED
  BY <1>2, <1>11, <1>12, <1>13, <1>14, <1>15, <1>16, <1>17, <1>19, <1>20 DEF Run!Next
-----------------------------------------------------------------------------
(* An initial state shows one of Isa's.                                    *)
LEMMA InitRefines ==
  ASSUME Init, lawful
  PROVE  I!Init
<1>1. PICK k \in DOMAIN Workloads :
        /\ prog \in Workloads[k].programs /\ extensions \in Workloads[k].extensions
        /\ regs \in Workloads[k].registers
  BY StepOperators, RunOperators DEF Init, Step!Init, Run!Init
<1>2. TypeInv /\ mem = InitialMemory /\ output = <<>> /\ exitCode = 0
  BY InitTyped
<1>3. regs[PC] \in Nat /\ Len(prog) \in Nat
  <2>1. regs[PC] \in Word
    BY <1>2, ArgumentRegisters DEF TypeInv, TypeOK, Registers
  <2> QED
    BY <1>2, <2>1, Words, CodeSize
<1>4. regs[PC] < Len(prog)
  BY DEF Init, KeepsRules
<1>5. At = regs[PC] /\ status = "running" /\ (engine = "run" => pc = regs[PC])
  <2>1. CASE engine = "step" /\ Step!Init
    BY <2>1 DEF Step!Init, At
  <2>2. CASE engine = "run" /\ Run!Init
    <3>1. pc = regs[PC] /\ status = IF pc > Len(prog) THEN "stopped" ELSE "running"
      BY <2>2, RunOperators DEF Run!Init, Run!code_end
    <3>2. ~(pc > Len(prog))
      BY <1>3, <1>4, <3>1
    <3> QED
      BY <2>2, <3>1, <3>2 DEF At
  <2> QED
    BY <2>1, <2>2 DEF Init
<1>6. ~(regs[PC] >= Len(prog))
  BY <1>3, <1>4
<1>7. IsaPc = regs[PC] /\ IsaStatus = "running"
  BY <1>5, <1>6 DEF IsaPc, IsaStatus
<1> QED
  BY <1>1, <1>2, <1>6, <1>7, IsaOperators
     DEF I!Init, I!GPR, I!Clamp, IsaPc, IsaGpr, IsaStatus

(* Every step of either engine is one of Isa's or changes nothing it       *)
(* shows.                                                                  *)
LEMMA NextRefines ==
  ASSUME IInv, lawful, [Next]_vars
  PROVE  [I!Next]_(I!vars)
<1>1. CASE engine = "step" /\ Step!Next /\ UNCHANGED <<engine, pc, lawful>>
  BY <1>1, StepRefines
<1>2. CASE engine = "run" /\ Run!Next /\ UNCHANGED <<engine, lawful>>
  <2>1. status = "running" /\ TypeInv
    BY <1>2, RunExecutes DEF IInv
  <2>2. pc <= Len(prog)
    BY <1>2, <2>1 DEF IInv, Lawful
  <2>3. pc \in Nat /\ Len(prog) \in Nat
    <3>1. pc \in Word
      BY <2>1 DEF TypeInv, TypeOK
    <3> QED
      BY <2>1, <3>1, Words, CodeSize
  <2>4. pc = Len(prog) \/ pc < Len(prog)
    BY <2>2, <2>3
  <2> QED
    BY <1>2, <2>4, RunAtEnd, RunRefines
<1>3. CASE UNCHANGED vars
  BY <1>3 DEF vars, I!vars, At
<1> QED
  BY <1>1, <1>2, <1>3 DEF Next

(* Either engine implements the instruction set, for every program that    *)
(* keeps the rules: each step of an engine is an instruction carried out   *)
(* to the end, a death of the process in the middle of one, or a step the  *)
(* guest cannot see (run() leaving through its sentinel).                  *)
THEOREM Refinement == Spec => ImplementsIsa
<1>1. Init => (lawful => I!Init)
  BY InitRefines
<1>2. IInv /\ [Next]_vars => [lawful => [I!Next]_(I!vars)]_vars
  BY NextRefines
<1> QED
  BY <1>1, <1>2, Invariance, PTL DEF Spec, ImplementsIsa
=============================================================================
