--------------------------- MODULE RoundTripProofs ---------------------------
(***************************************************************************)
(* A binary is disassembled to a source that assembles to it again, proved *)
(* for every width, every source and every sequence of commands.           *)
(*                                                                         *)
(* What an assembly finishes is WellBuilt (AssemblyIsWellBuilt), which is  *)
(* all the disassembler needs to know of a binary.  The two tables of      *)
(* mnemonics agree (Spelling), so a word is written as one instruction     *)
(* that is encoded as that word again (LineIs): registers, immediates,     *)
(* extensions.  A listing is code, one label before the word at the entry  *)
(* point (CodeListed), and data in which every separator has a value after *)
(* it (DataListed): of such a source (Listing) the layout is plain, item   *)
(* by item (ListingWords), and it joins to the words of the binary         *)
(* (ListingLays).  Rebuilds puts header and words together.  HistoryInv    *)
(* says that what was listed is such a binary.                             *)
(***************************************************************************)
EXTENDS ToolchainProofs

(* The two tables.  Whatever mnemonic the assembler has made a word of, the*)
(* disassembler's tables name that mnemonic; what the disassembler asks of *)
(* a word, and which extension it belongs to, its opcode tells.            *)
Spells(mn, w) ==
  /\ mn \in DOMAIN getOpcodeFunct
  /\ w.op = getOpcodeFunct[mn].op /\ w.fn = getOpcodeFunct[mn].fn
  /\ w.flags = getOpcodeFunct[mn].flags

Short == {"fsqrt", "fabs", "ftoi", "ftoui", "itof", "uitof", "fneg"}
Floats == {"fsubi", "faddi", "fmuli", "fdivi"}
ExtensionOf(op) ==
  (IF op \in {"MR", "MI"} THEN {"M"} ELSE {}) \cup (IF op \in {"FR", "FI", "FB"} THEN {"F"} ELSE {})

(* What is to be shown of a table: its entry f of the mnemonic mn.         *)
Reads(mn, f) ==
  /\ f.op \in Ops
  /\ \A w : w.op = f.op /\ w.fn = f.fn /\ w.flags = f.flags => Dis!NameOf(w) = mn
  /\ f.op = "FI" => (mn \in Short /\ Unary(f)) \/ (mn \in Floats /\ ~Unary(f))

LEMMA TablesAgree ==
  /\ \A mn \in DOMAIN LettersAOX : Reads(mn, LettersAOX[mn])
  /\ \A mn \in DOMAIN LettersS : Reads(mn, LettersS[mn])
  /\ \A mn \in DOMAIN LettersJLBHN : Reads(mn, LettersJLBHN[mn])
  /\ \A mn \in DOMAIN LettersMDR : Reads(mn, LettersMDR[mn])
  /\ \A mn \in DOMAIN LettersFIU : Reads(mn, LettersFIU[mn])
<1> USE DEF Reads, Fn, Ops, Dis!NameOf, Dis!disOp, Unary, Short, Floats
<1>1. \A mn \in DOMAIN LettersAOX : Reads(mn, LettersAOX[mn])
  BY DEF LettersAOX, Dis!disOpR, Dis!disOpI
<1>2. \A mn \in DOMAIN LettersS : Reads(mn, LettersS[mn])
  BY DEF LettersS, Dis!disOpR, Dis!disOpI, Dis!disOpS, Dis!disOpSYS
<1>3. \A mn \in DOMAIN LettersJLBHN : Reads(mn, LettersJLBHN[mn])
  BY DEF LettersJLBHN, Dis!disOpI, Dis!disOpL, Dis!disOpB, Dis!disOpSYS
<1>4. \A mn \in DOMAIN LettersMDR : Reads(mn, LettersMDR[mn])
  BY DEF LettersMDR, Dis!disOpMR, Dis!disOpMI
<1>5. \A mn \in DOMAIN LettersFIU : Reads(mn, LettersFIU[mn])
  BY DEF LettersFIU, Dis!disOpFR, Dis!disOpFI, Dis!disOpFB
<1> QED
  BY <1>1, <1>2, <1>3, <1>4, <1>5

LEMMA ExtensionsAgree ==
  \A mn \in DOMAIN getOpcodeFunct : ExtensionsOf(mn) = ExtensionOf(getOpcodeFunct[mn].op)
<1> USE DEF ExtensionsOf, ExtensionOf, Fn
<1>1. \A mn \in DOMAIN LettersAOX : ExtensionsOf(mn) = ExtensionOf(LettersAOX[mn].op)
  BY DEF LettersAOX, LettersMDR, LettersFIU
<1>2. \A mn \in DOMAIN LettersS : ExtensionsOf(mn) = ExtensionOf(LettersS[mn].op)
  BY DEF LettersS, LettersMDR, LettersFIU
<1>3. \A mn \in DOMAIN LettersJLBHN : ExtensionsOf(mn) = ExtensionOf(LettersJLBHN[mn].op)
  BY DEF LettersJLBHN, LettersMDR, LettersFIU
<1>4. \A mn \in DOMAIN LettersMDR : ExtensionsOf(mn) = ExtensionOf(LettersMDR[mn].op)
  BY DEF LettersMDR, LettersFIU
<1>5. \A mn \in DOMAIN LettersFIU : ExtensionsOf(mn) = ExtensionOf(LettersFIU[mn].op)
  BY DEF LettersMDR, LettersFIU
<1> HIDE DEF ExtensionsOf, ExtensionOf, Fn
<1> QED
  BY <1>1, <1>2, <1>3, <1>4, <1>5 DEF getOpcodeFunct

LEMMA Spelling ==
  ASSUME NEW mn, NEW w, Spells(mn, w)
  PROVE  /\ w.op \in Ops /\ Dis!NameOf(w) = mn
         /\ ExtensionsOf(mn) = ExtensionOf(w.op)
         /\ w.op = "FI" => \/ mn \in Short /\ ~TakesImm(getOpcodeFunct[mn])
                           \/ mn \in Floats /\ TakesImm(getOpcodeFunct[mn])
         /\ w.op # "FI" => (TakesImm(getOpcodeFunct[mn]) <=> w.op \notin {"R", "MR", "FR", "SYS"})
<1> DEFINE f == getOpcodeFunct[mn]
<1>1. \A m \in DOMAIN getOpcodeFunct : Reads(m, getOpcodeFunct[m])
  BY TablesAgree DEF getOpcodeFunct
<1>2. Reads(mn, f) /\ w.op = f.op /\ w.fn = f.fn /\ w.flags = f.flags
  BY <1>1 DEF Spells
<1>3. ExtensionsOf(mn) = ExtensionOf(w.op)
  BY ExtensionsAgree DEF Spells
<1> HIDE DEF f
<1>4. w.op \in Ops /\ Dis!NameOf(w) = mn
  BY <1>2 DEF Reads
<1>5. /\ w.op = "FI" => (mn \in Short /\ ~TakesImm(f)) \/ (mn \in Floats /\ TakesImm(f))
      /\ w.op # "FI" => (TakesImm(f) <=> w.op \notin {"R", "MR", "FR", "SYS"})
  <2>1. f.op = "FI" => (mn \in Short /\ Unary(f)) \/ (mn \in Floats /\ ~Unary(f))
    BY <1>2 DEF Reads
  <2>2. f.op \in Ops /\ w.op = f.op
    BY <1>2 DEF Reads
  <2>3. w.op = "FI" => (TakesImm(f) <=> ~Unary(f))
    BY <2>2 DEF TakesImm
  <2>4. w.op # "FI" => (TakesImm(f) <=> w.op \notin {"R", "MR", "FR", "SYS"})
    BY <2>2 DEF TakesImm, Ops
  <2> QED
    BY <2>1, <2>2, <2>3, <2>4
<1> QED
  BY <1>3, <1>4, <1>5 DEF f
-----------------------------------------------------------------------------
(* A word that is an instruction.                                          *)
Slots == {"rd", "ra", "rb"}
UsesSlot(op, slot) == \E k \in DOMAIN Operands[op] : Operands[op][k] = slot
IsInstr(w) ==
  /\ w = [op |-> w.op, fn |-> w.fn, flags |-> w.flags, rd |-> w.rd, ra |-> w.ra, rb |-> w.rb,
          imm |-> w.imm]
  /\ \A slot \in Slots : w[slot] \in 0 .. 63 /\ (~UsesSlot(w.op, slot) => w[slot] = 0)
  /\ w.imm \in 0 .. 2 ^ Width(w.op) - 1
  /\ \E mn : Spells(mn, w) /\ (~TakesImm(getOpcodeFunct[mn]) => w.imm = 0)

LEMMA WidthIs ==
  ASSUME NEW op
  PROVE  2 ^ Width(op) \in Nat \ {0} /\ 2 ^ Width(op) - 1 \in Nat
<1>1. Width(op) \in {IBits, SBits}
  BY DEF Width
<1>2. 2 ^ Width(op) \in Nat \ {0}
  BY <1>1, AssemblerAssumption
<1> QED
  BY <1>2

LEMMA RegsAreRegs ==
  ASSUME NEW r \in RegNames, IsReg(r)
  PROVE  getReg(r) \in 0 .. 63
<1>1. CASE r \in {<<name>> : name \in DOMAIN NamedRegs}
  <2>1. PICK name \in DOMAIN NamedRegs : r = <<name>>
    BY <1>1
  <2>2. Len(r) = 1 /\ r[1] = name
    BY <2>1
  <2>3. NamedRegs[name] \in 0 .. 63
    BY DEF NamedRegs
  <2> QED
    BY <2>2, <2>3 DEF getReg
<1>2. CASE r \in (DOMAIN Banks) \X Nat
  <2>1. PICK bank \in DOMAIN Banks, n \in Nat : r = <<bank, n>>
    BY <1>2
  <2>2. Len(r) = 2 /\ r[1] = bank /\ r[2] = n
    BY <2>1
  <2>3. n % 256 \in Nat /\ n % 256 < Banks[bank].count
    BY <2>2 DEF IsReg, parseRegNum
  <2>4. Banks[bank].first \in Nat /\ Banks[bank].count \in Nat /\ Banks[bank].first + Banks[bank].count <= 64
    BY DEF Banks
  <2>5. getReg(r) = Banks[bank].first + (n % 256)
    <3>1. Len(r) # 1
      BY <2>2
    <3>2. getReg(r) = Banks[r[1]].first + parseRegNum(r[2])
      BY <3>1, Zenon DEF getReg
    <3> QED
      BY <2>2, <3>2, Zenon DEF parseRegNum
  <2> DEFINE m == n % 256
             first == Banks[bank].first
             count == Banks[bank].count
  <2>6. m \in Nat /\ m < count /\ first \in Nat /\ count \in Nat /\ first + count <= 64
    BY <2>3, <2>4
  <2>7. getReg(r) = first + m
    BY <2>5
  <2> HIDE DEF m, first, count
  <2>8. \A x, y, z \in Nat : x < z /\ y + z <= 64 => y + x \in 0 .. 63
    OBVIOUS
  <2>9. first + m \in 0 .. 63
    BY <2>6, <2>8
  <2> QED
    BY <2>7, <2>9
<1> QED
  BY <1>1, <1>2 DEF RegNames

LEMMA SlotsAre ==
  ASSUME NEW op \in Ops
  PROVE  /\ op \in {"R", "MR", "FR"} => Operands[op] = <<"rd", "ra", "rb">>
         /\ op \in {"I", "MI", "FI", "L"} => Operands[op] = <<"rd", "ra">>
         /\ op \in {"S", "B", "FB"} => Operands[op] = <<"ra", "rb">>
         /\ op = "SYS" => Operands[op] = <<>>
         /\ DOMAIN Operands[op] = 1 .. Len(Operands[op])
         /\ \A k \in DOMAIN Operands[op] : Operands[op][k] \in Slots
         /\ \A j, k \in DOMAIN Operands[op] : Operands[op][j] = Operands[op][k] => j = k
<1>1. CASE op \in {"R", "MR", "FR"}
  <2>1. Operands[op] = <<"rd", "ra", "rb">>
    BY <1>1 DEF Operands
  <2> QED
    BY <1>1, <2>1 DEF Slots
<1>2. CASE op \in {"I", "MI", "FI", "L"}
  <2>1. Operands[op] = <<"rd", "ra">>
    BY <1>2 DEF Operands
  <2> QED
    BY <1>2, <2>1 DEF Slots
<1>3. CASE op \in {"S", "B", "FB"}
  <2>1. Operands[op] = <<"ra", "rb">>
    BY <1>3 DEF Operands
  <2> QED
    BY <1>3, <2>1 DEF Slots
<1>4. CASE op = "SYS"
  <2>1. Operands[op] = <<>>
    BY <1>4 DEF Operands
  <2> QED
    BY <1>4, <2>1 DEF Slots
<1> QED
  BY <1>1, <1>2, <1>3, <1>4 DEF Ops

(* The register an instruction has for a field.                            *)
FieldOf(op, regs, slot) ==
  IF UsesSlot(op, slot)
  THEN getReg(regs[CHOOSE k \in DOMAIN Operands[op] : Operands[op][k] = slot]) ELSE 0

LEMMA EncodedIs ==
  ASSUME NEW it
  PROVE  LET f == getOpcodeFunct[it.mn] IN
         Encoded(it) = [op |-> f.op, fn |-> f.fn, flags |-> f.flags,
                        rd |-> FieldOf(f.op, it.regs, "rd"), ra |-> FieldOf(f.op, it.regs, "ra"),
                        rb |-> FieldOf(f.op, it.regs, "rb"),
                        imm |-> Wrap(Immediate(it), Width(f.op))]
BY DEF Encoded, FieldOf, UsesSlot

LEMMA FieldIs ==
  ASSUME NEW op \in Ops, NEW regs, NEW k \in DOMAIN Operands[op]
  PROVE  FieldOf(op, regs, Operands[op][k]) = getReg(regs[k])
<1> DEFINE slots == Operands[op]
           j == CHOOSE j \in DOMAIN slots : slots[j] = slots[k]
<1>1. j \in DOMAIN slots /\ slots[j] = slots[k]
  OBVIOUS
<1>2. j = k
  BY <1>1, SlotsAre
<1>3. UsesSlot(op, slots[k])
  BY DEF UsesSlot
<1> QED
  BY <1>2, <1>3 DEF FieldOf

(* An immediate is an integer, whatever is written for it.                 *)
LEMMA Saturates ==
  ASSUME NEW n \in Int
  PROVE  /\ getImm(n) \in Int /\ Strtoll(n) \in Int
         /\ MaxSigned \in Int /\ MaxSigned + 1 \in Nat
         /\ n \in -MaxSigned .. MaxSigned => getImm(n) = n /\ Strtoll(n) = n
<1>1. MaxSigned \in Int /\ MaxSigned + 1 \in Nat
  BY WidthsAssumption DEF MaxSigned
<1> HIDE DEF MaxSigned
<1>2. \A x \in Int : Strtoll(x) \in Int /\ (x \in -MaxSigned .. MaxSigned => Strtoll(x) = x)
  BY <1>1 DEF Strtoll
<1> HIDE DEF Strtoll
<1>3. -n \in Int
  OBVIOUS
<1>4. n < 0 => getImm(n) = -Strtoll(-n)
  BY DEF getImm
<1>5. ~(n < 0) => getImm(n) = Strtoll(n)
  BY DEF getImm
<1>6. n \in -MaxSigned .. MaxSigned => -n \in -MaxSigned .. MaxSigned
  BY <1>1
<1>7. Strtoll(n) \in Int /\ Strtoll(-n) \in Int
  BY <1>2, <1>3
<1>8. getImm(n) \in Int
  BY <1>4, <1>5, <1>7
<1>9. n \in -MaxSigned .. MaxSigned => getImm(n) = n /\ Strtoll(n) = n
  BY <1>2, <1>3, <1>4, <1>5, <1>6
<1> QED
  BY <1>1, <1>7, <1>8, <1>9

LEMMA WrapsToWidth ==
  ASSUME NEW n \in Int, NEW op
  PROVE  Wrap(n, Width(op)) \in 0 .. 2 ^ Width(op) - 1
<1> DEFINE m == 2 ^ Width(op)
<1>1. m \in Nat \ {0}
  BY WidthIs
<1>2. Wrap(n, Width(op)) = n % m
  BY DEF Wrap
<1> HIDE DEF m
<1>3. n % m \in 0 .. m - 1
  BY <1>1
<1> QED
  BY <1>2, <1>3 DEF m

LEMMA ItemIs ==
  ASSUME NEW it
  PROVE  /\ it.t = "instr" => (IsItem(it) <=> /\ it.regs \in Seq(RegNames)
                                              /\ "imm" \in DOMAIN it => it.imm \in Int)
         /\ it.t = "num" => (IsItem(it) <=> it.v \in Int)
         /\ it.t = "dbl" => (IsItem(it) <=> it.bits \in Nat /\ it.whole \in Int /\ it.rest \in Nat)
         /\ it.t = "str" => (IsItem(it) <=> it.chars \in Seq(Nat))
         /\ it.t \notin {"instr", "num", "dbl", "str"} => IsItem(it)
<1> DEFINE instr == it.regs \in Seq(RegNames) /\ ("imm" \in DOMAIN it => it.imm \in Int)
           num == it.v \in Int
           dbl == it.bits \in Nat /\ it.whole \in Int /\ it.rest \in Nat
           str == it.chars \in Seq(Nat)
<1>1. IsItem(it) <=> CASE it.t = "instr" -> instr [] it.t = "num" -> num [] it.t = "dbl" -> dbl
                       [] it.t = "str" -> str [] OTHER -> TRUE
  BY DEF IsItem
<1> HIDE DEF instr, num, dbl, str
<1>2. /\ it.t = "instr" => (IsItem(it) <=> instr)
      /\ it.t = "num" => (IsItem(it) <=> num)
      /\ it.t = "dbl" => (IsItem(it) <=> dbl)
      /\ it.t = "str" => (IsItem(it) <=> str)
      /\ it.t \notin {"instr", "num", "dbl", "str"} => IsItem(it)
  BY <1>1
<1> QED
  BY <1>2 DEF instr, num, dbl, str

(* What the assembler makes of an instruction is one.                      *)
LEMMA EncodedIsInstr ==
  ASSUME NEW it, it.t = "instr", IsItem(it), Parses(it)
  PROVE  /\ Spells(it.mn, Encoded(it)) /\ IsInstr(Encoded(it))
         /\ Names(it) => TakesImm(getOpcodeFunct[it.mn])
<1> DEFINE f == getOpcodeFunct[it.mn]
           w == Encoded(it)
           v == Wrap(Immediate(it), Width(f.op))
<1>1. /\ it.mn \in DOMAIN getOpcodeFunct /\ Len(it.regs) = Len(Operands[f.op])
      /\ ("imm" \in DOMAIN it \/ Names(it)) => TakesImm(f)
      /\ \A k \in DOMAIN it.regs : IsReg(it.regs[k])
  BY DEF Parses
<1>2. it.regs \in Seq(RegNames) /\ ("imm" \in DOMAIN it => it.imm \in Int)
  BY ItemIs
<1>3. w = [op |-> f.op, fn |-> f.fn, flags |-> f.flags,
           rd |-> FieldOf(f.op, it.regs, "rd"), ra |-> FieldOf(f.op, it.regs, "ra"),
           rb |-> FieldOf(f.op, it.regs, "rb"), imm |-> v]
  BY EncodedIs
<1>4. f.op \in Ops
  BY <1>1, OpsAreOps
<1> HIDE DEF f, w, v
<1>5. /\ w.op = f.op /\ w.fn = f.fn /\ w.flags = f.flags /\ w.imm = v
      /\ \A slot \in Slots : w[slot] = FieldOf(f.op, it.regs, slot)
      /\ w = [op |-> w.op, fn |-> w.fn, flags |-> w.flags, rd |-> w.rd, ra |-> w.ra, rb |-> w.rb,
              imm |-> w.imm]
  BY <1>3 DEF Slots
<1>6. Spells(it.mn, w)
  BY <1>1, <1>5 DEF Spells, f
<1>7. ASSUME NEW slot \in Slots
      PROVE  w[slot] \in 0 .. 63 /\ (~UsesSlot(w.op, slot) => w[slot] = 0)
  <2>1. CASE ~UsesSlot(f.op, slot)
    BY <1>5, <2>1 DEF FieldOf
  <2>2. CASE UsesSlot(f.op, slot)
    <3>1. PICK k \in DOMAIN Operands[f.op] : Operands[f.op][k] = slot
      BY <2>2 DEF UsesSlot
    <3>2. w[slot] = getReg(it.regs[k])
      BY <1>4, <1>5, <3>1, FieldIs
    <3>3. k \in DOMAIN it.regs
      <4>1. DOMAIN Operands[f.op] = 1 .. Len(Operands[f.op])
        BY <1>4, SlotsAre
      <4>2. DOMAIN it.regs = 1 .. Len(it.regs)
        BY <1>2
      <4> QED
        BY <1>1, <3>1, <4>1, <4>2
    <3>4. it.regs[k] \in RegNames /\ IsReg(it.regs[k])
      BY <1>1, <1>2, <3>3
    <3> QED
      BY <1>5, <2>2, <3>2, <3>4, RegsAreRegs
  <2> QED
    BY <2>1, <2>2
<1>8. Immediate(it) \in Int /\ (~TakesImm(f) => Immediate(it) = 0)
  BY <1>1, <1>2, Saturates DEF Immediate
<1>9. v \in 0 .. 2 ^ Width(f.op) - 1
  BY <1>8, WrapsToWidth DEF v
<1>10. ~TakesImm(f) => v = 0
  <2> DEFINE m == 2 ^ Width(f.op)
  <2>1. m \in Nat \ {0}
    BY WidthIs
  <2>2. v = Immediate(it) % m
    BY DEF v, Wrap
  <2> HIDE DEF m
  <2>3. 0 % m = 0
    BY <2>1
  <2> QED
    BY <1>8, <2>2, <2>3
<1>11. IsInstr(w)
  BY <1>5, <1>6, <1>7, <1>9, <1>10 DEF IsInstr, f
<1> QED
  BY <1>1, <1>6, <1>11 DEF w, f

(* So it is with a name's address in it.                                   *)
LEMMA AddressedIsInstr ==
  ASSUME NEW w, IsInstr(w), NEW mn, Spells(mn, w), TakesImm(getOpcodeFunct[mn]),
         NEW pc \in Int, NEW target \in Int
  PROVE  LET x == Addressed(w, pc, target) IN IsInstr(x) /\ Spells(mn, x) /\ x.op = w.op
<1> DEFINE value == Wrap(IF w.op \in {"B", "FB"} THEN target - pc ELSE target - HEADER_LEN, Width(w.op))
           x == Addressed(w, pc, target)
<1>1. x = [w EXCEPT !.imm = value]
  BY DEF Addressed
<1>2. value \in 0 .. 2 ^ Width(w.op) - 1
  <2>1. (IF w.op \in {"B", "FB"} THEN target - pc ELSE target - HEADER_LEN) \in Int
    BY DEF HEADER_LEN
  <2> QED
    BY <2>1, WrapsToWidth
<1> HIDE DEF value
<1>3. w = [op |-> w.op, fn |-> w.fn, flags |-> w.flags, rd |-> w.rd, ra |-> w.ra, rb |-> w.rb,
           imm |-> w.imm]
  BY DEF IsInstr
<1>4. x = [op |-> w.op, fn |-> w.fn, flags |-> w.flags, rd |-> w.rd, ra |-> w.ra, rb |-> w.rb,
           imm |-> value]
  BY <1>1, <1>3
<1> HIDE DEF x
<1>5. /\ x.op = w.op /\ x.fn = w.fn /\ x.flags = w.flags /\ x.imm = value
      /\ \A slot \in Slots : x[slot] = w[slot]
      /\ x = [op |-> x.op, fn |-> x.fn, flags |-> x.flags, rd |-> x.rd, ra |-> x.ra, rb |-> x.rb,
              imm |-> x.imm]
  BY <1>3, <1>4 DEF Slots
<1>6. Spells(mn, x)
  BY <1>5 DEF Spells
<1>7. IsInstr(x)
  <2>1. \A slot \in Slots : x[slot] \in 0 .. 63 /\ (~UsesSlot(x.op, slot) => x[slot] = 0)
    BY <1>5 DEF IsInstr
  <2> QED
    BY <1>2, <1>5, <1>6, <2>1 DEF IsInstr
<1> QED
  BY <1>5, <1>6, <1>7 DEF x

(* A number that fits in m numbers is its own remainder, and so, for the   *)
(* upper half, is the negative number with the same bits.                  *)
LEMMA Remainders ==
  ASSUME NEW m \in Nat \ {0}, NEW n \in 0 .. m - 1
  PROVE  n % m = n /\ (n - m) % m = n
<1>1. n % m = n
  OBVIOUS
<1>2. (n - m) % m = n
  OBVIOUS
<1> QED
  BY <1>1, <1>2

LEMMA ImmediatesSurvive ==
  ASSUME NEW bits \in {IBits, SBits}, NEW n \in 0 .. 2 ^ bits - 1
  PROVE  /\ Dis!SignExt(n, bits) \in Int /\ Wrap(getImm(Dis!SignExt(n, bits)), bits) = n
         /\ Wrap(getImm(n), bits) = n
<1> DEFINE h == 2 ^ (bits - 1)
           m == 2 ^ bits
           M == 2 ^ (WordBits - 1)
<1>1. h \in Nat /\ m = 2 * h /\ m <= M /\ M \in Nat /\ m # 0 /\ MaxSigned = M - 1
  BY WidthsAssumption, AssemblerAssumption DEF MaxSigned
<1>2. n \in 0 .. m - 1
  OBVIOUS
<1>3. Dis!SignExt(n, bits) = IF n < h THEN n ELSE n - m
  BY DEF Dis!SignExt
<1>4. \A x : Wrap(x, bits) = x % m
  BY DEF Wrap
<1> HIDE DEF h, m, M
<1>5. m \in Nat \ {0} /\ n % m = n /\ (n - m) % m = n
  <2>1. m \in Nat \ {0}
    BY <1>1
  <2> QED
    BY <1>2, <2>1, Remainders
<1>6. n \in -MaxSigned .. MaxSigned /\ (n >= h => n - m \in -MaxSigned .. MaxSigned)
  BY <1>1, <1>2
<1>7. getImm(n) = n /\ (n >= h => getImm(n - m) = n - m)
  <2>1. n \in Int /\ n - m \in Int
    BY <1>2, <1>5
  <2> QED
    BY <1>6, <2>1, Saturates
<1>8. Dis!SignExt(n, bits) \in Int /\ getImm(Dis!SignExt(n, bits)) % m = n
  <2>1. CASE n < h
    BY <1>2, <1>3, <1>5, <1>7, <2>1
  <2>2. CASE ~(n < h)
    <3>1. n >= h
      BY <1>1, <1>2, <2>2
    <3> QED
      BY <1>1, <1>2, <1>3, <1>5, <1>7, <2>2, <3>1
  <2> QED
    BY <2>1, <2>2
<1> QED
  BY <1>4, <1>5, <1>7, <1>8

(* A register written by its number reads as that register; so the         *)
(* operands of a word, written in order, read as its fields.               *)
LEMMA RegSurvives ==
  ASSUME NEW n \in 0 .. 63
  PROVE  Dis!Reg(n) \in RegNames /\ IsReg(Dis!Reg(n)) /\ getReg(Dis!Reg(n)) = n
<1>1. Dis!Reg(n) = <<"r", n>> /\ Len(<<"r", n>>) = 2 /\ <<"r", n>>[1] = "r" /\ <<"r", n>>[2] = n
  BY DEF Dis!Reg
<1>2. "r" \in DOMAIN Banks /\ Banks["r"].first = 0 /\ Banks["r"].count = 64
  BY DEF Banks
<1>3. n % 256 = n /\ n \in Nat /\ n < 64
  OBVIOUS
<1>4. Dis!Reg(n) \in RegNames
  BY <1>1, <1>2, <1>3 DEF RegNames
<1>5. IsReg(Dis!Reg(n))
  BY <1>1, <1>2, <1>3 DEF IsReg, parseRegNum
<1>6. getReg(Dis!Reg(n)) = 0 + n
  BY <1>1, <1>2, <1>3 DEF getReg, parseRegNum
<1> QED
  BY <1>3, <1>4, <1>5, <1>6

LEMMA FieldsAre ==
  ASSUME NEW w, IsInstr(w), w.op \in Ops
  PROVE  LET regs == Dis!FieldsOf(w) IN
         /\ regs \in Seq(RegNames) /\ Len(regs) = Len(Operands[w.op])
         /\ \A k \in DOMAIN regs : IsReg(regs[k])
         /\ \A slot \in Slots : FieldOf(w.op, regs, slot) = w[slot]
<1> DEFINE regs == Dis!FieldsOf(w)
<1>1. /\ w["rd"] = w.rd /\ w["ra"] = w.ra /\ w["rb"] = w.rb
      /\ \A slot \in Slots : w[slot] \in 0 .. 63 /\ (~UsesSlot(w.op, slot) => w[slot] = 0)
  BY DEF IsInstr
<1>2. \A n \in 0 .. 63 : Dis!Reg(n) \in RegNames /\ IsReg(Dis!Reg(n)) /\ getReg(Dis!Reg(n)) = n
  BY RegSurvives
<1>3. w.rd \in 0 .. 63 /\ w.ra \in 0 .. 63 /\ w.rb \in 0 .. 63
  BY <1>1 DEF Slots
<1> DEFINE d == Dis!Reg(w.rd)
           a == Dis!Reg(w.ra)
           b == Dis!Reg(w.rb)
<1>4. d \in RegNames /\ a \in RegNames /\ b \in RegNames
  BY <1>2, <1>3
<1>5. /\ w.op \in {"R", "MR", "FR"} => regs = <<d, a, b>>
      /\ w.op \in {"I", "MI", "FI", "L"} => regs = <<d, a>>
      /\ w.op \in {"S", "B", "FB"} => regs = <<a, b>>
      /\ w.op = "SYS" => regs = <<>>
  BY DEF Dis!FieldsOf
<1> HIDE DEF d, a, b, regs
<1>6. /\ regs \in Seq(RegNames) /\ Len(regs) = Len(Operands[w.op])
      /\ \A k \in DOMAIN regs : k \in DOMAIN Operands[w.op] /\ regs[k] = Dis!Reg(w[Operands[w.op][k]])
  <2>1. CASE w.op \in {"R", "MR", "FR"}
    <3>1. regs = <<d, a, b>> /\ Operands[w.op] = <<"rd", "ra", "rb">>
      BY <1>5, <2>1, SlotsAre
    <3> QED
      BY <1>4, <3>1 DEF d, a, b
  <2>2. CASE w.op \in {"I", "MI", "FI", "L"}
    <3>1. regs = <<d, a>> /\ Operands[w.op] = <<"rd", "ra">>
      BY <1>5, <2>2, SlotsAre
    <3> QED
      BY <1>4, <3>1 DEF d, a, b
  <2>3. CASE w.op \in {"S", "B", "FB"}
    <3>1. regs = <<a, b>> /\ Operands[w.op] = <<"ra", "rb">>
      BY <1>5, <2>3, SlotsAre
    <3> QED
      BY <1>4, <3>1 DEF d, a, b
  <2>4. CASE w.op = "SYS"
    <3>1. regs = <<>> /\ Operands[w.op] = <<>>
      BY <1>5, <2>4, SlotsAre
    <3> QED
      BY <3>1
  <2> QED
    BY <2>1, <2>2, <2>3, <2>4 DEF Ops
<1>7. \A k \in DOMAIN Operands[w.op] : Operands[w.op][k] \in Slots
  BY SlotsAre
<1>8. \A k \in DOMAIN regs : IsReg(regs[k])
  BY <1>1, <1>2, <1>6, <1>7
<1>9. ASSUME NEW slot \in Slots
      PROVE  FieldOf(w.op, regs, slot) = w[slot]
  <2>1. CASE ~UsesSlot(w.op, slot)
    BY <1>1, <2>1 DEF FieldOf
  <2>2. CASE UsesSlot(w.op, slot)
    <3>1. PICK k \in DOMAIN Operands[w.op] : Operands[w.op][k] = slot
      BY <2>2 DEF UsesSlot
    <3>2. FieldOf(w.op, regs, slot) = getReg(regs[k])
      BY <3>1, FieldIs
    <3>3. k \in DOMAIN regs
      <4>1. DOMAIN Operands[w.op] = 1 .. Len(Operands[w.op]) /\ DOMAIN regs = 1 .. Len(regs)
        BY <1>6, SlotsAre
      <4> QED
        BY <1>6, <3>1, <4>1
    <3> QED
      BY <1>1, <1>2, <1>6, <3>1, <3>2, <3>3
  <2> QED
    BY <2>1, <2>2
<1> QED
  BY <1>6, <1>8, <1>9 DEF regs

(* What a line has to be for the assembler to make the word of it again.   *)
LEMMA Rewritten ==
  ASSUME NEW w, IsInstr(w), NEW mn, Spells(mn, w), ~TakesImm(getOpcodeFunct[mn]) => w.imm = 0,
         NEW it, it.t = "instr", it.mn = mn, it.regs = Dis!FieldsOf(w), ~Names(it),
         "imm" \in DOMAIN it => /\ TakesImm(getOpcodeFunct[mn]) /\ it.imm \in Int
                                /\ Wrap(getImm(it.imm), Width(w.op)) = w.imm,
         "imm" \notin DOMAIN it => w.imm = 0
  PROVE  Parses(it) /\ IsItem(it) /\ Encoded(it) = w /\ ExtensionsOf(it.mn) = ExtensionOf(w.op)
<1> DEFINE f == getOpcodeFunct[mn]
<1>1. /\ mn \in DOMAIN getOpcodeFunct /\ w.op = f.op /\ w.fn = f.fn /\ w.flags = f.flags
      /\ w.op \in Ops /\ ExtensionsOf(mn) = ExtensionOf(w.op)
  BY Spelling DEF Spells
<1> DEFINE regs == Dis!FieldsOf(w)
<1>2. /\ regs \in Seq(RegNames) /\ Len(regs) = Len(Operands[w.op])
      /\ \A k \in DOMAIN regs : IsReg(regs[k])
      /\ \A slot \in Slots : FieldOf(w.op, regs, slot) = w[slot]
  BY <1>1, FieldsAre
<1>3. it.regs = regs
  OBVIOUS
<1> HIDE DEF f, regs
<1>4. Parses(it)
  BY <1>1, <1>2, <1>3 DEF Parses, f
<1>5. IsItem(it)
  BY <1>2, <1>3, ItemIs
<1>6. Wrap(Immediate(it), Width(w.op)) = w.imm
  <2>1. CASE "imm" \in DOMAIN it
    BY <2>1 DEF Immediate
  <2>2. CASE "imm" \notin DOMAIN it
    <3> DEFINE m == 2 ^ Width(w.op)
    <3>1. m \in Nat \ {0}
      BY WidthIs
    <3>2. Wrap(0, Width(w.op)) = 0 % m
      BY DEF Wrap
    <3> HIDE DEF m
    <3>3. 0 % m = 0
      BY <3>1
    <3>4. Immediate(it) = 0
      BY <2>2 DEF Immediate
    <3> QED
      BY <2>2, <3>2, <3>3, <3>4
  <2> QED
    BY <2>1, <2>2
<1>7. Encoded(it) = [op |-> f.op, fn |-> f.fn, flags |-> f.flags,
                     rd |-> FieldOf(f.op, it.regs, "rd"), ra |-> FieldOf(f.op, it.regs, "ra"),
                     rb |-> FieldOf(f.op, it.regs, "rb"), imm |-> Wrap(Immediate(it), Width(f.op))]
  BY EncodedIs DEF f
<1>8. w = [op |-> w.op, fn |-> w.fn, flags |-> w.flags, rd |-> w.rd, ra |-> w.ra, rb |-> w.rb,
           imm |-> w.imm]
  BY DEF IsInstr
<1>9. /\ FieldOf(w.op, regs, "rd") = w.rd /\ FieldOf(w.op, regs, "ra") = w.ra
      /\ FieldOf(w.op, regs, "rb") = w.rb
  BY <1>2 DEF Slots
<1>10. Encoded(it) = w
  BY <1>1, <1>3, <1>6, <1>7, <1>8, <1>9
<1> QED
  BY <1>1, <1>4, <1>5, <1>10

LEMMA LineIs ==
  ASSUME NEW w, IsInstr(w)
  PROVE  /\ \A k \in DOMAIN Dis!Line(w) :
              IsItem(Dis!Line(w)[k]) /\ Dis!Line(w)[k].t \in {"instr", "junk"}
         /\ (w.op = "FI" => w.imm \notin Infinite) =>
              \E it : /\ Dis!Line(w) = <<it>> /\ it.t = "instr" /\ ~Names(it) /\ Parses(it)
                      /\ Encoded(it) = w /\ ExtensionsOf(it.mn) = ExtensionOf(w.op)
<1>1. PICK mn : Spells(mn, w) /\ (~TakesImm(getOpcodeFunct[mn]) => w.imm = 0)
  BY DEF IsInstr
<1> DEFINE takes == TakesImm(getOpcodeFunct[mn])
<1>2. /\ w.op \in Ops /\ Dis!NameOf(w) = mn
      /\ w.op = "FI" => (mn \in Short /\ ~takes) \/ (mn \in Floats /\ takes)
      /\ w.op # "FI" => (takes <=> w.op \notin {"R", "MR", "FR", "SYS"})
  BY <1>1, Spelling
<1> HIDE DEF takes
<1>3. \A x \in Short : x \notin Floats
  BY DEF Short, Floats
<1> DEFINE bare == Dis!Bare(w)
           wide == Dis!Wide(w)
           float == [t |-> "instr", mn |-> Dis!NameOf(w), regs |-> Dis!FieldsOf(w), imm |-> w.imm]
           name == [t |-> "instr", mn |-> Dis!NameOf(w), regs |-> Dis!FieldsOf(w), ref |-> "inf"]
           junk == [t |-> "junk"]
           Good(it) == /\ it.t = "instr" /\ ~Names(it) /\ Parses(it) /\ IsItem(it)
                       /\ Encoded(it) = w /\ ExtensionsOf(it.mn) = ExtensionOf(w.op)
<1>4. w.imm \in 0 .. 2 ^ Width(w.op) - 1 /\ Width(w.op) \in {IBits, SBits}
  BY DEF IsInstr, Width
<1>5. ~takes => Good(bare)
  <2>1. /\ bare.t = "instr" /\ bare.mn = mn /\ bare.regs = Dis!FieldsOf(w) /\ ~Names(bare)
        /\ "imm" \notin DOMAIN bare
    BY <1>2 DEF Dis!Bare, Names
  <2> HIDE DEF bare
  <2> QED
    BY <1>1, <2>1, Rewritten DEF takes
<1>6. takes /\ w.op = "FI" => Good(float)
  <2>1. /\ float.t = "instr" /\ float.mn = mn /\ float.regs = Dis!FieldsOf(w) /\ ~Names(float)
        /\ "imm" \in DOMAIN float /\ float.imm = w.imm
    BY <1>2 DEF Names
  <2>2. Wrap(getImm(w.imm), Width(w.op)) = w.imm /\ w.imm \in Int
    <3>1. 2 ^ Width(w.op) - 1 \in Nat
      BY WidthIs
    <3> QED
      BY <1>4, <3>1, ImmediatesSurvive
  <2> HIDE DEF float
  <2> QED
    BY <1>1, <2>1, <2>2, Rewritten DEF takes
<1>7. takes /\ w.op # "FI" => Good(wide)
  <2>1. SUFFICES ASSUME takes, w.op # "FI"
                 PROVE  Good(wide)
    OBVIOUS
  <2>2. /\ wide.t = "instr" /\ wide.mn = mn /\ wide.regs = Dis!FieldsOf(w) /\ ~Names(wide)
        /\ "imm" \in DOMAIN wide
        /\ wide.imm = Dis!SignExt(w.imm, IF w.op \in {"I", "MI"} THEN IBits ELSE SBits)
    BY <1>2 DEF Dis!Wide, Names
  <2>3. (IF w.op \in {"I", "MI"} THEN IBits ELSE SBits) = Width(w.op)
    BY <2>1 DEF Width
  <2>4. wide.imm = Dis!SignExt(w.imm, Width(w.op))
    BY <2>2, <2>3
  <2>5. wide.imm \in Int /\ Wrap(getImm(wide.imm), Width(w.op)) = w.imm
    BY <1>4, <2>4, ImmediatesSurvive
  <2> HIDE DEF wide
  <2> QED
    BY <1>1, <2>1, <2>2, <2>5, Rewritten DEF takes
<1>8. /\ w.op \in {"R", "MR", "FR", "SYS"} => Dis!Line(w) = <<bare>>
      /\ w.op = "FI" /\ mn \in Short => Dis!Line(w) = <<bare>>
      /\ w.op = "FI" /\ mn \in Floats => Dis!Line(w) = Dis!FloatLine(w)
      /\ w.op \notin {"R", "MR", "FR", "SYS", "FI"} => Dis!Line(w) = <<wide>>
  BY <1>2, <1>3 DEF Dis!Line, Short, Floats
<1>9. Dis!FloatLine(w) = IF w.imm \in Infinite THEN <<name, junk>> ELSE <<float>>
  BY DEF Dis!FloatLine
<1>10. name.t = "instr" /\ IsItem(name) /\ junk.t = "junk" /\ IsItem(junk)
  <2>1. name.t = "instr" /\ "imm" \notin DOMAIN name /\ name.regs = Dis!FieldsOf(w) /\ junk.t = "junk"
    OBVIOUS
  <2>2. Dis!FieldsOf(w) \in Seq(RegNames)
    BY <1>2, FieldsAre
  <2> HIDE DEF name, junk
  <2> QED
    BY <2>1, <2>2, ItemIs
<1> HIDE DEF bare, wide, float, name, junk, Good
<1>11. \/ \E it : Good(it) /\ Dis!Line(w) = <<it>>
       \/ w.op = "FI" /\ w.imm \in Infinite /\ Dis!Line(w) = <<name, junk>>
  BY <1>2, <1>5, <1>6, <1>7, <1>8, <1>9
<1>12. ASSUME NEW it, Good(it), Dis!Line(w) = <<it>>
       PROVE  \A k \in DOMAIN Dis!Line(w) :
                IsItem(Dis!Line(w)[k]) /\ Dis!Line(w)[k].t \in {"instr", "junk"}
  BY <1>12 DEF Good
<1>13. ASSUME Dis!Line(w) = <<name, junk>>
       PROVE  \A k \in DOMAIN Dis!Line(w) :
                IsItem(Dis!Line(w)[k]) /\ Dis!Line(w)[k].t \in {"instr", "junk"}
  BY <1>10, <1>13
<1> QED
  BY <1>11, <1>12, <1>13 DEF Good
-----------------------------------------------------------------------------
(* What a binary is that an assembly has finished: instructions, then      *)
(* numbers, and a header that says so.                                     *)
WellBuilt(b) ==
  /\ IsBinary(b) /\ b[1] = Magic
  /\ \E e \in Nat : HEADER_LEN <= e /\ b[3] = Word(e)
  /\ \A k \in HEADER_LEN + 1 .. Dis!CodeEnd(b) : IsInstr(b[k])
  /\ \A k \in Dis!CodeEnd(b) + 1 .. Len(b) : \E n \in Nat : b[k] = Word(n)
  /\ b[4] = [extensions |-> UNION {ExtensionOf(b[k].op) : k \in HEADER_LEN + 1 .. Dis!CodeEnd(b)}]

(* A source the scanner can have read.                                     *)
Scanned(s) == IsSource(s) /\ \A k \in DOMAIN s : IsItem(s[k])

(* A label that stands somewhere has an address.                           *)
LEMMA TargetIs ==
  ASSUME NEW s, IsSource(s), NEW name, A!Labels(s, name) # {}
  PROVE  A!Target(s, name) \in Nat /\ HEADER_LEN <= A!Target(s, name)
<1> DEFINE S == A!Labels(s, name)
<1>1. Len(s) \in Nat /\ DOMAIN s = 1 .. Len(s)
  BY SourceFacts
<1>2. S # {} /\ S \subseteq 1 .. Len(s) /\ S \subseteq Nat
  BY <1>1 DEF A!Labels
<1> HIDE DEF S
<1>3. A!Min(S) \in S
  <2>1. \E x \in S : \A y \in S : x <= y
    BY <1>2, LeastElement
  <2> QED
    BY <2>1 DEF A!Min
<1>4. A!Min(S) \in 1 .. Len(s) + 1
  <2>1. A!Min(S) \in 1 .. Len(s)
    BY <1>2, <1>3
  <2>2. 1 .. Len(s) \subseteq 1 .. Len(s) + 1
    BY <1>1
  <2> QED
    BY <2>1, <2>2
<1>5. A!Target(s, name) = A!Address(s, A!Min(S))
  BY DEF A!Target, S
<1>6. A!Address(s, A!Min(S)) = HEADER_LEN + Len(Before(s, A!Min(S))) /\ Len(Before(s, A!Min(S))) \in Nat
  BY <1>4, Addresses
<1> QED
  BY <1>5, <1>6 DEF HEADER_LEN

(* The words of data are numbers.                                          *)
LEMMA WrapsToWord ==
  ASSUME NEW n \in Int
  PROVE  Wrap(n, WordBits) \in Nat
<1> DEFINE m == 2 ^ WordBits
<1>1. m \in Nat \ {0}
  BY WidthsAssumption, AssemblerAssumption
<1>2. Wrap(n, WordBits) = n % m
  BY DEF Wrap
<1> HIDE DEF m
<1>3. n % m \in 0 .. m - 1
  BY <1>1
<1> QED
  BY <1>1, <1>2, <1>3

Numbers(words) == \A i \in 1 .. Len(words) : \E n \in Nat : words[i] = Word(n)

LEMMA FewNumbers ==
  /\ Numbers(<<>>)
  /\ \A x \in Nat : Numbers(<<Word(x)>>)
  /\ \A x, y \in Nat : Numbers(<<Word(x), Word(y)>>)
<1>1. Numbers(<<>>)
  BY EmptyIsSeq DEF Numbers
<1>2. ASSUME NEW x \in Nat
      PROVE  Numbers(<<Word(x)>>)
  BY OneIsSeq DEF Numbers
<1>3. ASSUME NEW x \in Nat, NEW y \in Nat
      PROVE  Numbers(<<Word(x), Word(y)>>)
  <2> DEFINE u == Word(x)
             v == Word(y)
  <2>1. (\E n \in Nat : u = Word(n)) /\ (\E n \in Nat : v = Word(n))
    OBVIOUS
  <2> HIDE DEF u, v
  <2>2. Len(<<u, v>>) = 2 /\ <<u, v>>[1] = u /\ <<u, v>>[2] = v
    OBVIOUS
  <2>3. \A i \in 1 .. 2 : i = 1 \/ i = 2
    OBVIOUS
  <2>4. Numbers(<<u, v>>)
    BY <2>1, <2>2, <2>3 DEF Numbers
  <2> QED
    BY <2>4 DEF u, v
<1> QED
  BY <1>1, <1>2, <1>3

LEMMA DataIsNumbers ==
  ASSUME NEW s, Scanned(s), NEW k \in A!Data(s) .. Len(s)
  PROVE  Numbers(A!Words(s, k))
<1>1. IsSource(s) /\ k \in 1 .. Len(s) /\ IsItem(s[k])
  BY SourceFacts DEF Scanned
<1>2. CASE s[k].t \notin {"num", "dbl", "str", "blank"}
  BY <1>1, <1>2, DataLays, FewNumbers
<1>3. CASE s[k].t = "blank"
  <2>1. A!Words(s, k) = <<>> \/ A!Words(s, k) = <<Word(0)>>
    BY <1>1, <1>3, DataLays
  <2>2. 0 \in Nat
    OBVIOUS
  <2> QED
    BY <2>1, <2>2, FewNumbers
<1>4. \A n \in Int : Strtoll(n) \in Int /\ getImm(n) \in Int
  BY Saturates
<1>5. CASE s[k].t = "num"
  <2>1. s[k].v \in Int
    BY <1>1, <1>5, ItemIs
  <2>2. Wrap(getImm(s[k].v), WordBits) \in Nat /\ Wrap(Strtoll(s[k].v), WordBits) \in Nat
    BY <1>4, <2>1, WrapsToWord
  <2>3. DataWords(s[k]) = <<Word(Wrap(getImm(s[k].v), WordBits))>>
    BY <1>5 DEF DataWords
  <2>4. SpilledWords(s[k]) = <<Word(Wrap(Strtoll(s[k].v), WordBits))>>
    BY <1>5 DEF SpilledWords
  <2>5. A!Words(s, k) = DataWords(s[k]) \/ A!Words(s, k) = SpilledWords(s[k])
    BY <1>1, <1>5, DataLays
  <2> QED
    BY <2>2, <2>3, <2>4, <2>5, FewNumbers
<1>6. CASE s[k].t = "dbl"
  <2>1. s[k].bits \in Nat /\ s[k].whole \in Int /\ s[k].rest \in Nat
    BY <1>1, <1>6, ItemIs
  <2>2. Wrap(Strtoll(s[k].whole), WordBits) \in Nat
    BY <1>4, <2>1, WrapsToWord
  <2>3. DataWords(s[k]) = <<Word(s[k].bits)>>
    BY <1>6 DEF DataWords
  <2>4. SpilledWords(s[k]) = <<Word(Wrap(Strtoll(s[k].whole), WordBits)), Word(s[k].rest)>>
    BY <1>6 DEF SpilledWords
  <2>5. A!Words(s, k) = DataWords(s[k]) \/ A!Words(s, k) = SpilledWords(s[k])
    BY <1>1, <1>6, DataLays
  <2> QED
    BY <2>1, <2>2, <2>3, <2>4, <2>5, FewNumbers
<1>7. CASE s[k].t = "str"
  <2>1. s[k].chars \in Seq(Nat)
    BY <1>1, <1>7, ItemIs
  <2> DEFINE n == Len(s[k].chars)
             c == s[k].chars
             w == [i \in 1 .. n + 1 |-> [word |-> IF i <= n THEN c[i] ELSE 0]]
  <2>2. ~A!InCode(s, k) /\ ~A!Spilled(s, k)
    BY <1>1, <1>7, SourceFacts DEF A!InCode, A!Spilled
  <2>3. A!Words(s, k) = w
    BY <1>7, <2>2 DEF A!Words
  <2>4. n \in Nat /\ \A i \in 1 .. n : c[i] \in Nat
    <3>1. \A x \in Seq(Nat) : Len(x) \in Nat /\ \A i \in 1 .. Len(x) : x[i] \in Nat
      OBVIOUS
    <3> QED
      BY <2>1, <3>1
  <2> HIDE DEF n, c
  <2>5. IsSeq(w) /\ Len(w) = n + 1
    <3>1. n + 1 \in Nat /\ w = [i \in 1 .. n + 1 |-> w[i]]
      BY <2>4
    <3> HIDE DEF w
    <3> QED
      BY <3>1, FunctionIsSeq
  <2>6. ASSUME NEW i \in 1 .. n + 1
        PROVE  \E x \in Nat : w[i] = Word(x)
    <3>1. i <= n => i \in 1 .. n
      BY <2>4
    <3>2. w[i] = Word(IF i <= n THEN c[i] ELSE 0)
      BY DEF Word
    <3> QED
      BY <2>4, <3>1, <3>2
  <2> HIDE DEF w
  <2> QED
    BY <2>3, <2>5, <2>6 DEF Numbers
<1> QED
  BY <1>2, <1>3, <1>5, <1>6, <1>7

(* The five words before the body.                                         *)
EntryOf(s) == IF A!Labels(s, "main") = {} THEN HEADER_LEN ELSE A!Target(s, "main")
NeedsOf(s) == UNION {Needs(s[k]) : k \in {j \in DOMAIN s : A!InCode(s, j) /\ s[j].t = "instr"}}
OffsetOf(s) == IF A!HasData(s) THEN A!Address(s, A!Data(s)) ELSE 0

LEMMA BinaryIs ==
  ASSUME NEW s, IsSource(s)
  PROVE  LET b == A!Binary(s) IN
         /\ IsSeq(b) /\ Len(A!Body(s)) \in Nat /\ Len(b) = 5 + Len(A!Body(s))
         /\ b[1] = Magic /\ b[2] = Word(Len(b)) /\ b[3] = Word(EntryOf(s))
         /\ b[4] = [extensions |-> NeedsOf(s)] /\ b[5] = Word(OffsetOf(s))
         /\ \A i \in 1 .. Len(A!Body(s)) : b[5 + i] = A!Body(s)[i]
<1> DEFINE body == A!Body(s)
           five == <<Magic, Word(HEADER_LEN + Len(body)), Word(EntryOf(s)),
                     [extensions |-> NeedsOf(s)], Word(OffsetOf(s))>>
           b == A!Binary(s)
<1>1. b = five \o body
  BY DEF A!Binary, Magic, Word, EntryOf, NeedsOf, OffsetOf
<1>2. /\ IsSeq(five) /\ Len(five) = 5
      /\ five[1] = Magic /\ five[2] = Word(HEADER_LEN + Len(body)) /\ five[3] = Word(EntryOf(s))
      /\ five[4] = [extensions |-> NeedsOf(s)] /\ five[5] = Word(OffsetOf(s))
  <2> DEFINE w2 == Word(HEADER_LEN + Len(body))
             w3 == Word(EntryOf(s))
             w4 == [extensions |-> NeedsOf(s)]
             w5 == Word(OffsetOf(s))
  <2>1. five = <<Magic, w2, w3, w4, w5>>
    OBVIOUS
  <2> HIDE DEF w2, w3, w4, w5, five
  <2>2. five \in Seq({Magic, w2, w3, w4, w5})
    BY <2>1
  <2>3. IsSeq(five)
    BY <2>2, SeqOfSeq
  <2>4. /\ Len(five) = 5 /\ five[1] = Magic /\ five[2] = w2 /\ five[3] = w3 /\ five[4] = w4
        /\ five[5] = w5
    BY <2>1
  <2> QED
    BY <2>3, <2>4 DEF w2, w3, w4, w5
<1>3. IsSeq(body) /\ Len(body) \in Nat
  <2> DEFINE x == Flat(ResolvedAll(s), Len(s))
             t == Tail_(s)
  <2>1. body = x \o t /\ IsSeq(x) /\ IsSeq(t)
    BY BodyIs
  <2> HIDE DEF x, t, body
  <2>2. IsSeq(x \o t)
    BY <2>1, ConcatIsSeq
  <2> QED
    BY <2>1, <2>2, SeqFacts
<1> HIDE DEF five, body
<1>4. /\ IsSeq(five \o body) /\ Len(five \o body) = Len(five) + Len(body)
      /\ \A k \in 1 .. Len(five) : (five \o body)[k] = five[k]
      /\ \A k \in 1 .. Len(body) : (five \o body)[Len(five) + k] = body[k]
  <2>1. IsSeq(five) /\ IsSeq(body)
    BY <1>2, <1>3
  <2> QED
    BY <2>1, ConcatIsSeq
<1>5. Len(b) = 5 + Len(body) /\ IsSeq(b)
  BY <1>1, <1>2, <1>4
<1>6. /\ b[1] = five[1] /\ b[2] = five[2] /\ b[3] = five[3] /\ b[4] = five[4] /\ b[5] = five[5]
      /\ \A i \in 1 .. Len(body) : b[5 + i] = body[i]
  BY <1>1, <1>2, <1>4
<1>7. b[2] = Word(Len(b))
  BY <1>2, <1>5, <1>6 DEF HEADER_LEN
<1> QED
  BY <1>2, <1>3, <1>5, <1>6, <1>7 DEF body

(* The body: one instruction for every one in the code, then numbers.      *)
LEMMA BodyWords ==
  ASSUME NEW s, Scanned(s), A!Accepted(s)
  PROVE  LET c == Len(Before(s, A!Data(s)))
             body == A!Body(s)
         IN  /\ c \in 0 .. Len(body)
             /\ \A i \in 1 .. c : \E k \in 1 .. A!Data(s) - 1 :
                  /\ s[k].t = "instr" /\ IsInstr(body[i])
                  /\ ExtensionsOf(s[k].mn) = ExtensionOf(body[i].op)
             /\ \A k \in 1 .. A!Data(s) - 1 : s[k].t = "instr" =>
                  \E i \in 1 .. c : ExtensionsOf(s[k].mn) = ExtensionOf(body[i].op)
             /\ \A i \in c + 1 .. Len(body) : \E n \in Nat : body[i] = Word(n)
             /\ ~A!HasData(s) => c = Len(body)
<1> DEFINE n == Len(s)
           d == A!Data(s)
           f == ResolvedAll(s)
           all == Flat(f, n)
           code == Flat(f, d - 1)
           body == A!Body(s)
           c == Len(Before(s, d))
<1>1. /\ IsSource(s) /\ n \in Nat /\ DOMAIN s = 1 .. n /\ d \in 1 .. n + 1 /\ d - 1 \in 0 .. n
      /\ A!HasData(s) <=> d <= n
  BY SourceFacts DEF Scanned
<1>2. \A k \in 1 .. n : IsItem(s[k]) /\ GoodItem(s, k)
  BY <1>1, AcceptedIs DEF Scanned
<1>3. /\ Pieces(f, n)
      /\ \A k \in 1 .. n :
           /\ Len(f[k]) = Len(Worded(s)[k])
           /\ ~Uses(s, k) => f[k] = Worded(s)[k]
           /\ Uses(s, k) =>
                f[k] = <<Addressed(Encoded(s[k]), A!Address(s, k), A!Target(s, s[k].ref))>>
  BY <1>1, ResolvedAreSeqs
<1>4. \A k \in 1 .. n : Worded(s)[k] = A!Words(s, k)
  BY <1>1, WordsAreSeqs
<1>5. /\ body = all \o Tail_(s) /\ IsSeq(all) /\ IsSeq(Tail_(s))
      /\ Len(Tail_(s)) = IF A!HasData(s) THEN 1 ELSE 0
  BY <1>1, BodyIs
<1>6. ASSUME NEW k \in 1 .. d - 1
      PROVE  /\ s[k].t = "instr" => \E w : /\ f[k] = <<w>> /\ IsInstr(w)
                                           /\ ExtensionsOf(s[k].mn) = ExtensionOf(w.op)
             /\ s[k].t # "instr" => f[k] = <<>>
  <2>1. k \in 1 .. n /\ k < d /\ A!InCode(s, k) /\ k # d
    BY <1>1 DEF A!InCode
  <2>2. A!Words(s, k) = IF s[k].t = "instr" THEN <<Encoded(s[k])>> ELSE <<>>
    BY <2>1, CodeLays
  <2>3. CASE s[k].t # "instr"
    BY <1>3, <1>4, <2>1, <2>2, <2>3 DEF Uses
  <2>4. CASE s[k].t = "instr"
    <3>1. Parses(s[k]) /\ ("ref" \in DOMAIN s[k] => A!Labels(s, s[k].ref) # {})
      BY <1>2, <2>1, <2>4 DEF GoodItem, A!CodeItem
    <3>2. /\ Spells(s[k].mn, Encoded(s[k])) /\ IsInstr(Encoded(s[k]))
          /\ Names(s[k]) => TakesImm(getOpcodeFunct[s[k].mn])
      BY <1>2, <2>1, <2>4, <3>1, EncodedIsInstr
    <3>3. CASE ~Uses(s, k)
      <4>1. f[k] = <<Encoded(s[k])>>
        BY <1>3, <1>4, <2>1, <2>2, <2>4, <3>3
      <4>2. ExtensionsOf(s[k].mn) = ExtensionOf(Encoded(s[k]).op)
        BY <3>2, Spelling
      <4> QED
        BY <2>4, <3>2, <4>1, <4>2
    <3>4. CASE Uses(s, k)
      <4> DEFINE w == Encoded(s[k])
                 pc == A!Address(s, k)
                 target == A!Target(s, s[k].ref)
                 x == Addressed(w, pc, target)
      <4>1. "ref" \in DOMAIN s[k] /\ Names(s[k])
        BY <3>4 DEF Uses, Names
      <4>2. pc \in Int /\ target \in Int
        BY <1>1, <2>1, <3>1, <3>4, <4>1, TargetIs, UsesApart
      <4>3. f[k] = <<x>>
        BY <1>3, <2>1, <3>4
      <4> HIDE DEF w, pc, target
      <4>4. IsInstr(w) /\ Spells(s[k].mn, w) /\ TakesImm(getOpcodeFunct[s[k].mn])
        BY <3>2, <4>1 DEF w
      <4>5. IsInstr(x) /\ Spells(s[k].mn, x)
        BY <4>2, <4>4, AddressedIsInstr
      <4> HIDE DEF x
      <4>6. ExtensionsOf(s[k].mn) = ExtensionOf(x.op)
        BY <4>5, Spelling
      <4> QED
        BY <2>4, <4>3, <4>5, <4>6
    <3> QED
      BY <3>3, <3>4
  <2> QED
    BY <2>3, <2>4
<1>7. ASSUME NEW k \in d .. n
      PROVE  Numbers(f[k])
  <2>1. k \in 1 .. n /\ ~Uses(s, k)
    BY <1>1 DEF Uses, A!InCode
  <2>2. Numbers(A!Words(s, k))
    BY DataIsNumbers
  <2> QED
    BY <1>3, <1>4, <2>1, <2>2
<1>8. /\ Len(code) = c /\ c \in Nat /\ Len(all) \in Nat /\ c <= Len(all)
      /\ \A i \in 1 .. c : all[i] = code[i]
  <2> DEFINE l == d - 1
  <2>1. l \in 0 .. n /\ n \in l .. n /\ Before(s, d) = Flat(Worded(s), l)
    BY <1>1 DEF Before
  <2> HIDE DEF l
  <2>2. Len(Flat(f, l)) = Len(Flat(Worded(s), l))
    <3>1. Pieces(Worded(s), n)
      BY <1>1, WordsAreSeqs
    <3> QED
      BY <1>1, <1>3, <2>1, <3>1, FlatLengths
  <2>3. /\ Len(Flat(f, l)) \in Nat /\ Len(Flat(f, n)) \in Nat /\ Len(Flat(f, l)) <= Len(Flat(f, n))
        /\ \A i \in 1 .. Len(Flat(f, l)) : Flat(f, n)[i] = Flat(f, l)[i]
    BY <1>1, <1>3, <2>1, FlatGrows
  <2> QED
    BY <2>1, <2>2, <2>3 DEF l
<1> DEFINE t == Tail_(s)
<1>9. /\ Len(body) = Len(all) + Len(t)
      /\ \A i \in 1 .. Len(all) : body[i] = all[i]
      /\ \A i \in 1 .. Len(t) : body[Len(all) + i] = t[i]
  <2>1. IsSeq(all) /\ IsSeq(t) /\ body = all \o t
    BY <1>5
  <2> HIDE DEF all, t, body
  <2>2. /\ Len(all \o t) = Len(all) + Len(t)
        /\ \A i \in 1 .. Len(all) : (all \o t)[i] = all[i]
        /\ \A i \in 1 .. Len(t) : (all \o t)[Len(all) + i] = t[i]
    BY <2>1, ConcatIsSeq
  <2> QED
    BY <2>1, <2>2
<1>10. Len(t) \in {0, 1} /\ (d > n => Len(t) = 0) /\ Numbers(t)
  <2>1. Len(t) \in {0, 1} /\ (d > n => Len(t) = 0)
    BY <1>1, <1>5
  <2>2. 0 \in Nat
    OBVIOUS
  <2>3. Numbers(t)
    BY <2>2, FewNumbers DEF Tail_
  <2> QED
    BY <2>1, <2>3
<1> HIDE DEF all, t, body, f
<1>11. ASSUME NEW i \in 1 .. c
       PROVE  \E k \in 1 .. d - 1 : /\ s[k].t = "instr" /\ IsInstr(body[i])
                                    /\ ExtensionsOf(s[k].mn) = ExtensionOf(body[i].op)
  <2> DEFINE l == d - 1
  <2>1. l \in Nat /\ l \in 0 .. n /\ code = Flat(f, l)
    BY <1>1
  <2> HIDE DEF l
  <2>2. Pieces(f, l)
    BY <1>1, <1>3, <2>1 DEF Pieces
  <2>3. PICK m \in 1 .. l : \E k \in 1 .. Len(f[m]) : i = Start(f, m) + k
    <3>1. i \in 1 .. Len(Flat(f, l))
      BY <1>8, <2>1
    <3> QED
      BY <2>1, <2>2, <3>1, FlatPlace
  <2>4. PICK k \in 1 .. Len(f[m]) : i = Start(f, m) + k
    BY <2>3
  <2>5. code[i] = f[m][k]
    BY <2>1, <2>2, <2>4, FlatStart
  <2>6. s[m].t = "instr"
    BY <1>6, <2>4, EmptyIsSeq DEF l
  <2>7. PICK w : f[m] = <<w>> /\ IsInstr(w) /\ ExtensionsOf(s[m].mn) = ExtensionOf(w.op)
    BY <1>6, <2>6 DEF l
  <2>8. f[m][k] = w
    BY <2>4, <2>7, OneIsSeq
  <2>9. body[i] = w
    <3>1. i \in 1 .. Len(all)
      BY <1>8
    <3> QED
      BY <1>8, <1>9, <2>5, <2>8, <3>1
  <2> QED
    BY <2>6, <2>7, <2>9 DEF l
<1>12. ASSUME NEW k \in 1 .. d - 1, s[k].t = "instr"
       PROVE  \E i \in 1 .. c : ExtensionsOf(s[k].mn) = ExtensionOf(body[i].op)
  <2> DEFINE l == d - 1
  <2>1. l \in Nat /\ l \in 0 .. n /\ code = Flat(f, l) /\ k \in 1 .. l
    BY <1>1
  <2> HIDE DEF l
  <2>2. Pieces(f, l)
    BY <1>1, <1>3, <2>1 DEF Pieces
  <2>3. PICK w : f[k] = <<w>> /\ IsInstr(w) /\ ExtensionsOf(s[k].mn) = ExtensionOf(w.op)
    BY <1>6, <1>12
  <2>4. Len(f[k]) = 1 /\ f[k][1] = w
    BY <2>3, OneIsSeq
  <2>5. /\ Start(f, k) \in Nat /\ Start(f, k) + Len(f[k]) <= Len(Flat(f, l))
        /\ \A j \in 1 .. Len(f[k]) : Flat(f, l)[Start(f, k) + j] = f[k][j]
    BY <2>1, <2>2, FlatStart
  <2>6. Start(f, k) + 1 \in 1 .. c /\ code[Start(f, k) + 1] = w
    BY <1>8, <2>1, <2>4, <2>5
  <2>7. body[Start(f, k) + 1] = w
    <3>1. Start(f, k) + 1 \in 1 .. Len(all)
      BY <1>8, <2>6
    <3> QED
      BY <1>8, <1>9, <2>6, <3>1
  <2> QED
    BY <2>3, <2>6, <2>7
<1>13. ASSUME NEW i \in c + 1 .. Len(body)
       PROVE  \E x \in Nat : body[i] = Word(x)
  <2>1. CASE i <= Len(all)
    <3>1. i \in 1 .. Len(all) /\ Len(code) < i
      BY <1>8, <2>1
    <3>2. PICK m \in 1 .. n : \E k \in 1 .. Len(f[m]) : i = Start(f, m) + k
      BY <1>1, <1>3, <3>1, FlatPlace DEF all
    <3>3. PICK k \in 1 .. Len(f[m]) : i = Start(f, m) + k
      BY <3>2
    <3>4. /\ all[i] = f[m][k] /\ Start(f, m) + Len(f[m]) = Len(Flat(f, m))
          /\ Start(f, m) \in Nat /\ Len(f[m]) \in Nat
      <4>1. n \in Nat /\ Pieces(f, n)
        BY <1>1, <1>3
      <4> HIDE DEF n, f
      <4>2. /\ Start(f, m) \in Nat /\ Len(f[m]) \in Nat
            /\ Start(f, m) + Len(f[m]) = Len(Flat(f, m))
            /\ \A j \in 1 .. Len(f[m]) : Flat(f, n)[Start(f, m) + j] = f[m][j]
        BY <4>1, FlatStart
      <4> QED
        BY <3>3, <4>2 DEF all
    <3>5. m >= d
      <4>1. SUFFICES ASSUME m < d
                     PROVE  FALSE
        BY <1>1
      <4> DEFINE l == d - 1
      <4>2. m \in 0 .. n /\ l \in 0 .. n /\ l \in m .. n
        BY <1>1, <4>1
      <4> HIDE DEF l
      <4>3. Len(Flat(f, m)) <= Len(Flat(f, l))
        BY <1>1, <1>3, <4>2, FlatGrows
      <4>4. Len(Flat(f, l)) = c
        BY <1>8 DEF l
      <4> QED
        BY <1>8, <3>1, <3>3, <3>4, <4>3, <4>4
    <3>6. Numbers(f[m])
      BY <1>1, <1>7, <3>5
    <3> QED
      BY <1>9, <3>1, <3>3, <3>4, <3>6 DEF Numbers
  <2>2. CASE ~(i <= Len(all))
    <3> DEFINE j == i - Len(all)
    <3>1. j \in 1 .. Len(t) /\ i = Len(all) + j
      BY <1>8, <1>9, <1>10, <2>2
    <3> HIDE DEF j
    <3> QED
      BY <1>9, <1>10, <3>1 DEF Numbers
  <2> QED
    BY <2>1, <2>2
<1>14. ~A!HasData(s) => c = Len(body)
  <2>1. SUFFICES ASSUME ~A!HasData(s)
                 PROVE  c = Len(body)
    OBVIOUS
  <2>2. d - 1 = n /\ Len(t) = 0
    BY <1>1, <1>10, <2>1
  <2>3. code = all
    BY <2>2 DEF all
  <2> QED
    BY <1>8, <1>9, <2>2, <2>3
<1>15. c \in 0 .. Len(body)
  BY <1>8, <1>9, <1>10
<1> QED
  BY <1>11, <1>12, <1>13, <1>14, <1>15 DEF body

LEMMA AssemblyIsWellBuilt ==
  ASSUME NEW s, Scanned(s), A!Accepted(s)
  PROVE  /\ WellBuilt(A!Binary(s))
         /\ Dis!CodeEnd(A!Binary(s)) = HEADER_LEN + Len(Before(s, A!Data(s)))
<1> DEFINE c == Len(Before(s, A!Data(s)))
           body == A!Body(s)
           b == A!Binary(s)
           d == A!Data(s)
<1>1. IsSource(s) /\ DOMAIN s = 1 .. Len(s) /\ Len(s) \in Nat /\ d \in 1 .. Len(s) + 1
  BY SourceFacts DEF Scanned
<1>2. /\ IsSeq(b) /\ Len(body) \in Nat /\ Len(b) = 5 + Len(body)
      /\ b[1] = Magic /\ b[2] = Word(Len(b)) /\ b[3] = Word(EntryOf(s))
      /\ b[4] = [extensions |-> NeedsOf(s)] /\ b[5] = Word(OffsetOf(s))
      /\ \A i \in 1 .. Len(body) : b[5 + i] = body[i]
  BY <1>1, BinaryIs
<1>3. /\ c \in 0 .. Len(body)
      /\ \A i \in 1 .. c : \E k \in 1 .. d - 1 :
           /\ s[k].t = "instr" /\ IsInstr(body[i]) /\ ExtensionsOf(s[k].mn) = ExtensionOf(body[i].op)
      /\ \A k \in 1 .. d - 1 : s[k].t = "instr" =>
           \E i \in 1 .. c : ExtensionsOf(s[k].mn) = ExtensionOf(body[i].op)
      /\ \A i \in c + 1 .. Len(body) : \E n \in Nat : body[i] = Word(n)
      /\ ~A!HasData(s) => c = Len(body)
  BY BodyWords
<1>4. A!Address(s, d) = 5 + c
  BY <1>1, Addresses DEF HEADER_LEN
<1> HIDE DEF c, body, b, d
<1>5. OffsetOf(s) \in {0} \cup HEADER_LEN .. Len(b) /\ Dis!CodeEnd(b) = 5 + c
  <2>1. Dis!DataOffset(b) = OffsetOf(s) /\ Dis!FileLength(b) = Len(b)
    BY <1>2 DEF Dis!DataOffset, Dis!FileLength, Word
  <2>2. CASE A!HasData(s)
    <3>1. OffsetOf(s) = 5 + c
      BY <1>4, <2>2 DEF OffsetOf, d
    <3> QED
      BY <1>2, <1>3, <2>1, <3>1 DEF Dis!CodeEnd, HEADER_LEN
  <2>3. CASE ~A!HasData(s)
    <3>1. OffsetOf(s) = 0
      BY <2>3 DEF OffsetOf
    <3>2. Len(b) = 5 + c
      BY <1>2, <1>3, <2>3
    <3> QED
      BY <2>1, <3>1, <3>2 DEF Dis!CodeEnd
  <2> QED
    BY <2>2, <2>3
<1>6. IsBinary(b)
  BY <1>2, <1>5 DEF IsBinary, HEADER_LEN
<1>7. EntryOf(s) \in Nat /\ HEADER_LEN <= EntryOf(s)
  BY <1>1, TargetIs DEF EntryOf, HEADER_LEN
<1>8. ASSUME NEW k \in 6 .. 5 + c
      PROVE  IsInstr(b[k])
  <2> DEFINE i == k - 5
  <2>1. i \in 1 .. c /\ i \in 1 .. Len(body) /\ k = 5 + i
    BY <1>2, <1>3
  <2> HIDE DEF i
  <2>2. IsInstr(body[i])
    BY <1>3, <2>1
  <2> QED
    BY <1>2, <2>1, <2>2
<1>9. ASSUME NEW k \in 5 + c + 1 .. Len(b)
      PROVE  \E n \in Nat : b[k] = Word(n)
  <2> DEFINE i == k - 5
  <2>1. i \in c + 1 .. Len(body) /\ i \in 1 .. Len(body) /\ k = 5 + i
    BY <1>2, <1>3
  <2> HIDE DEF i
  <2>2. \E n \in Nat : body[i] = Word(n)
    BY <1>3, <2>1
  <2> QED
    BY <1>2, <2>1, <2>2
<1> DEFINE E == UNION {ExtensionOf(b[k].op) : k \in 6 .. 5 + c}
<1>10. NeedsOf(s) = E
  <2>1. ASSUME NEW x \in NeedsOf(s)
        PROVE  x \in E
    <3>1. PICK k \in DOMAIN s : A!InCode(s, k) /\ s[k].t = "instr" /\ x \in ExtensionsOf(s[k].mn)
      BY DEF NeedsOf, Needs
    <3>2. k \in 1 .. d - 1
      BY <1>1, <3>1 DEF A!InCode, d
    <3>3. PICK i \in 1 .. c : ExtensionsOf(s[k].mn) = ExtensionOf(body[i].op)
      BY <1>3, <3>1, <3>2
    <3>4. i \in 1 .. Len(body) /\ 5 + i \in 6 .. 5 + c
      BY <1>2, <1>3
    <3>5. b[5 + i] = body[i]
      BY <1>2, <3>4
    <3>6. x \in ExtensionOf(b[5 + i].op)
      BY <3>1, <3>3, <3>5
    <3> QED
      BY <3>4, <3>6
  <2>2. ASSUME NEW x \in E
        PROVE  x \in NeedsOf(s)
    <3>1. PICK k \in 6 .. 5 + c : x \in ExtensionOf(b[k].op)
      OBVIOUS
    <3> DEFINE i == k - 5
    <3>2. i \in 1 .. c /\ i \in 1 .. Len(body) /\ k = 5 + i
      BY <1>2, <1>3
    <3> HIDE DEF i
    <3>3. b[k] = body[i]
      BY <1>2, <3>2
    <3>4. PICK j \in 1 .. d - 1 : s[j].t = "instr" /\ ExtensionsOf(s[j].mn) = ExtensionOf(body[i].op)
      BY <1>3, <3>2
    <3>5. j \in DOMAIN s /\ A!InCode(s, j)
      BY <1>1 DEF A!InCode, d
    <3>6. x \in Needs(s[j])
      BY <3>1, <3>3, <3>4 DEF Needs
    <3> QED
      BY <3>4, <3>5, <3>6 DEF NeedsOf
  <2> HIDE DEF E
  <2> QED
    BY <2>1, <2>2
<1>11. HEADER_LEN + 1 = 6
  BY DEF HEADER_LEN
<1>12. b[4] = [extensions |-> UNION {ExtensionOf(b[k].op) : k \in HEADER_LEN + 1 .. 5 + c}]
  BY <1>2, <1>10, <1>11
<1> HIDE DEF E
<1>13. WellBuilt(b)
  BY <1>2, <1>5, <1>6, <1>7, <1>8, <1>9, <1>11, <1>12 DEF WellBuilt
<1> QED
  BY <1>5, <1>13 DEF b, c, d, HEADER_LEN
-----------------------------------------------------------------------------
(* What the items of a listing lay down, one by one and altogether.        *)
ItemWords(it) ==
  IF it.t = "instr" THEN <<Encoded(it)>> ELSE IF it.t \in {"num", "str"} THEN DataWords(it) ELSE <<>>
Each(x) == [k \in DOMAIN x |-> ItemWords(x[k])]
Spread(x) == Flat(Each(x), Len(x))

LEMMA Joins ==
  ASSUME NEW x, NEW y, NEW z, IsSeq(x), IsSeq(y), IsSeq(z)
  PROVE  (x \o y) \o z = x \o (y \o z) /\ x \o <<>> = x /\ <<>> \o x = x
<1> DEFINE R == {x[k] : k \in DOMAIN x} \cup {y[k] : k \in DOMAIN y} \cup {z[k] : k \in DOMAIN z}
<1>1. ASSUME NEW u, IsSeq(u), {u[k] : k \in DOMAIN u} \subseteq R
      PROVE  u \in Seq(R)
  <2>1. Len(u) \in Nat /\ DOMAIN u = 1 .. Len(u) /\ u = [k \in 1 .. Len(u) |-> u[k]]
    BY <1>1, SeqFacts
  <2>2. \A k \in 1 .. Len(u) : u[k] \in R
    BY <1>1, <2>1
  <2> HIDE DEF R
  <2> QED
    BY <2>1, <2>2
<1>2. x \in Seq(R)
  BY <1>1
<1>3. y \in Seq(R)
  BY <1>1
<1>4. z \in Seq(R)
  BY <1>1
<1> HIDE DEF R
<1> QED
  BY <1>2, <1>3, <1>4, ConcatAssociative, ConcatEmptySeq

LEMMA FlatSame ==
  ASSUME NEW f, NEW g, NEW n \in Nat, \A j \in 1 .. n : f[j] = g[j]
  PROVE  Flat(f, n) = Flat(g, n)
<1>1. [j \in 1 .. n |-> f[j]] = [j \in 1 .. n |-> g[j]]
  OBVIOUS
<1> QED
  BY <1>1 DEF Flat

LEMMA WordsOfItem ==
  ASSUME NEW it, it.t = "str" => IsSeq(it.chars)
  PROVE  IsSeq(ItemWords(it))
<1>1. CASE it.t = "str"
  <2> DEFINE n == Len(it.chars)
             w == [k \in 1 .. n |-> Word(it.chars[k])]
  <2>1. n \in Nat
    BY <1>1, SeqFacts
  <2>2. IsSeq(w)
    <3>1. w = [k \in 1 .. n |-> w[k]]
      OBVIOUS
    <3> HIDE DEF w, n
    <3> QED
      BY <2>1, <3>1, FunctionIsSeq
  <2>3. ItemWords(it) = w \o <<Word(0)>>
    BY <1>1 DEF ItemWords, DataWords
  <2> HIDE DEF w
  <2>4. IsSeq(<<Word(0)>>)
    BY OneIsSeq
  <2> QED
    BY <2>2, <2>3, <2>4, ConcatIsSeq
<1>2. CASE it.t = "num"
  BY <1>2, OneIsSeq DEF ItemWords, DataWords
<1>3. CASE it.t = "instr"
  BY <1>3, OneIsSeq DEF ItemWords
<1>4. CASE it.t \notin {"instr", "num", "str"}
  BY <1>4, EmptyIsSeq DEF ItemWords
<1> QED
  BY <1>1, <1>2, <1>3, <1>4

LEMMA EachIsSeq ==
  ASSUME NEW x, IsSource(x)
  PROVE  /\ Len(x) \in Nat /\ DOMAIN x = 1 .. Len(x)
         /\ Pieces(Each(x), Len(x)) /\ \A k \in 1 .. Len(x) : Each(x)[k] = ItemWords(x[k])
         /\ IsSeq(Spread(x)) /\ Len(Spread(x)) \in Nat
<1>1. Len(x) \in Nat /\ DOMAIN x = 1 .. Len(x) /\ Len(x) \in 0 .. Len(x)
  BY SeqFacts DEF IsSource
<1>2. \A k \in 1 .. Len(x) : Each(x)[k] = ItemWords(x[k])
  BY <1>1 DEF Each
<1>3. \A k \in 1 .. Len(x) : IsSeq(ItemWords(x[k]))
  BY <1>1, WordsOfItem DEF IsSource
<1>4. Pieces(Each(x), Len(x))
  BY <1>2, <1>3 DEF Pieces
<1> QED
  BY <1>1, <1>2, <1>4, FlatSteps DEF Spread

LEMMA SpreadPrefix ==
  ASSUME NEW x, NEW z, IsSource(x), IsSource(z), Len(x) <= Len(z), \A k \in 1 .. Len(x) : z[k] = x[k]
  PROVE  Flat(Each(z), Len(x)) = Spread(x)
<1>1. /\ Len(x) \in Nat /\ \A k \in 1 .. Len(x) : Each(x)[k] = ItemWords(x[k])
      /\ Len(z) \in Nat /\ \A k \in 1 .. Len(z) : Each(z)[k] = ItemWords(z[k])
  BY EachIsSeq
<1>2. \A k \in 1 .. Len(x) : Each(z)[k] = Each(x)[k]
  <2>1. ASSUME NEW k \in 1 .. Len(x)
        PROVE  Each(z)[k] = Each(x)[k]
    <3>1. k \in 1 .. Len(z)
      BY <1>1
    <3> QED
      BY <1>1, <3>1
  <2> QED
    BY <2>1
<1> QED
  BY <1>1, <1>2, FlatSame DEF Spread

LEMMA SpreadJoin ==
  ASSUME NEW x, NEW y, IsSource(x), IsSource(y)
  PROVE  Spread(x \o y) = Spread(x) \o Spread(y)
<1> DEFINE z == x \o y
           a == Len(x)
           n == Len(y)
           f == Each(z)
           g == Each(y)
           S == {m \in 0 .. n : Flat(f, a + m) = Spread(x) \o Flat(g, m)}
<1>1. IsSource(z) /\ IsSeq(x) /\ IsSeq(y)
  BY JoinedSources DEF IsSource
<1>2. /\ Len(z) = a + n
      /\ \A k \in 1 .. a : z[k] = x[k]
      /\ \A k \in 1 .. n : z[a + k] = y[k]
  BY <1>1, ConcatIsSeq
<1> HIDE DEF z
<1>3. /\ a \in Nat /\ IsSeq(Spread(x))
      /\ n \in Nat /\ Pieces(g, n) /\ \A k \in 1 .. n : g[k] = ItemWords(y[k])
      /\ Pieces(f, a + n) /\ \A k \in 1 .. a + n : f[k] = ItemWords(z[k])
  BY <1>1, <1>2, EachIsSeq
<1>4. 0 \in S
  <2>1. Flat(f, a) = Spread(x)
    <3>1. Len(x) <= Len(z)
      BY <1>2, <1>3
    <3> QED
      BY <1>1, <1>2, <3>1, SpreadPrefix
  <2>2. Flat(g, 0) = <<>>
    BY <1>3, FlatSteps
  <2>3. Spread(x) \o <<>> = Spread(x)
    BY <1>3, Joins
  <2>4. a + 0 = a /\ 0 \in 0 .. n
    BY <1>3
  <2> HIDE DEF f, g, a
  <2> QED
    BY <2>1, <2>2, <2>3, <2>4
<1>5. ASSUME NEW m \in 0 .. n - 1, m \in S
      PROVE  m + 1 \in S
  <2> DEFINE l == m + 1
  <2>1. l \in 1 .. n /\ l \in 0 .. n /\ m \in 0 .. n /\ l - 1 = m
    BY <1>3
  <2>2. a + l \in 1 .. a + n /\ (a + l) - 1 = a + m /\ a + m \in 0 .. a + n /\ a + n \in Nat
    BY <1>3
  <2>3. f[a + l] = g[l]
    BY <1>2, <1>3, <2>1, <2>2
  <2> HIDE DEF l
  <2>4. Flat(g, l) = Flat(g, l - 1) \o g[l] /\ IsSeq(Flat(g, m)) /\ IsSeq(g[l])
    BY <1>3, <2>1, FlatSteps DEF Pieces
  <2> DEFINE q == a + l
  <2>5. Flat(f, q) = Flat(f, q - 1) \o f[q]
    BY <1>3, <2>2, FlatSteps
  <2>6. Flat(f, a + m) = Spread(x) \o Flat(g, m)
    BY <1>5
  <2> HIDE DEF f, g
  <2>7. (Spread(x) \o Flat(g, m)) \o g[l] = Spread(x) \o (Flat(g, m) \o g[l])
    <3> DEFINE u == Spread(x)
               v == Flat(g, m)
               w == g[l]
    <3>1. IsSeq(u) /\ IsSeq(v) /\ IsSeq(w)
      BY <1>3, <2>4
    <3> HIDE DEF u, v, w
    <3>2. (u \o v) \o w = u \o (v \o w)
      BY <3>1, Joins
    <3> QED
      BY <3>2 DEF u, v, w
  <2>8. Flat(f, a + l) = Spread(x) \o Flat(g, l)
    BY <2>1, <2>2, <2>3, <2>4, <2>5, <2>6, <2>7
  <2> QED
    BY <2>1, <2>8 DEF l
<1> HIDE DEF S
<1>6. n \in S
  <2>1. 0 \in Nat /\ n \in 0 .. n
    BY <1>3
  <2> QED
    BY <1>3, <1>4, <1>5, <2>1, Reached
<1>7. Flat(f, a + n) = Spread(x) \o Flat(g, n)
  BY <1>6 DEF S
<1> QED
  BY <1>2, <1>7 DEF Spread, z

LEMMA SpreadOne ==
  /\ Spread(<<>>) = <<>>
  /\ \A it : (it.t = "str" => IsSeq(it.chars)) => Spread(<<it>>) = ItemWords(it)
<1>1. Spread(<<>>) = <<>>
  <2>1. Pieces(Each(<<>>), 0) /\ Len(<<>>) = 0
    BY DEF Pieces
  <2> QED
    BY <2>1, FlatSteps DEF Spread
<1>2. ASSUME NEW it, it.t = "str" => IsSeq(it.chars)
      PROVE  Spread(<<it>>) = ItemWords(it)
  <2> DEFINE x == <<it>>
             f == Each(x)
  <2>1. IsSource(x) /\ Len(x) = 1 /\ x[1] = it
    BY <1>2, ShortSources, OneIsSeq
  <2> HIDE DEF x
  <2>2. Pieces(f, 1) /\ f[1] = ItemWords(it)
    BY <2>1, EachIsSeq
  <2> HIDE DEF f
  <2>3. /\ Flat(f, 0) = <<>>
        /\ \A m \in 1 .. 1 : Flat(f, m) = Flat(f, m - 1) \o f[m]
    BY <2>2, FlatSteps
  <2>4. Flat(f, 1) = <<>> \o f[1]
    <3>1. Flat(f, 1) = Flat(f, 1 - 1) \o f[1]
      BY <2>3
    <3>2. 1 - 1 = 0
      OBVIOUS
    <3> QED
      BY <2>3, <3>1, <3>2, Zenon
  <2>5. IsSeq(ItemWords(it))
    BY <1>2, WordsOfItem
  <2>6. <<>> \o ItemWords(it) = ItemWords(it)
    BY <2>5, Joins
  <2> QED
    BY <2>1, <2>2, <2>4, <2>6 DEF Spread, f, x
<1> QED
  BY <1>1, <1>2
-----------------------------------------------------------------------------
(* The items of a listing.                                                 *)
Items(x) == {x[k] : k \in DOMAIN x}

LEMMA ItemsJoin ==
  /\ Items(<<>>) = {}
  /\ \A x : Items(<<x>>) = {x}
  /\ \A x, y : IsSeq(x) /\ IsSeq(y) => Items(x \o y) = Items(x) \cup Items(y)
<1>1. Items(<<>>) = {}
  BY EmptyIsSeq DEF Items
<1>2. ASSUME NEW x
      PROVE  Items(<<x>>) = {x}
  <2>1. DOMAIN <<x>> = {1} /\ <<x>>[1] = x
    OBVIOUS
  <2> QED
    BY <2>1 DEF Items
<1>3. ASSUME NEW x, NEW y, IsSeq(x), IsSeq(y)
      PROVE  Items(x \o y) = Items(x) \cup Items(y)
  <2> DEFINE z == x \o y
             a == Len(x)
             n == Len(y)
  <2>1. /\ IsSeq(z) /\ Len(z) = a + n
        /\ \A k \in 1 .. a : z[k] = x[k]
        /\ \A k \in 1 .. n : z[a + k] = y[k]
    BY <1>3, ConcatIsSeq
  <2> HIDE DEF z
  <2>2. /\ a \in Nat /\ n \in Nat /\ DOMAIN x = 1 .. a /\ DOMAIN y = 1 .. n /\ DOMAIN z = 1 .. a + n
    BY <1>3, <2>1, SeqFacts
  <2> HIDE DEF a, n
  <2>3. ASSUME NEW k \in 1 .. a + n
        PROVE  z[k] \in Items(x) \cup Items(y)
    <3>1. CASE k \in 1 .. a
      BY <2>1, <2>2, <3>1 DEF Items
    <3>2. CASE k \notin 1 .. a
      <4> DEFINE j == k - a
      <4>1. j \in 1 .. n /\ k = a + j
        BY <2>2, <3>2
      <4> HIDE DEF j
      <4> QED
        BY <2>1, <2>2, <4>1 DEF Items
    <3> QED
      BY <3>1, <3>2
  <2>4. ASSUME NEW k \in 1 .. a
        PROVE  x[k] \in Items(z)
    <3>1. k \in 1 .. a + n /\ z[k] = x[k]
      BY <2>1, <2>2
    <3> QED
      BY <2>2, <3>1 DEF Items
  <2>5. ASSUME NEW k \in 1 .. n
        PROVE  y[k] \in Items(z)
    <3>1. a + k \in 1 .. a + n /\ z[a + k] = y[k]
      BY <2>1, <2>2
    <3> QED
      BY <2>2, <3>1 DEF Items
  <2>6. Items(z) \subseteq Items(x) \cup Items(y)
    BY <2>2, <2>3 DEF Items
  <2>7. Items(x) \subseteq Items(z) /\ Items(y) \subseteq Items(z)
    <3>1. \A it \in Items(x) : it \in Items(z)
      <4>1. ASSUME NEW it \in Items(x)
            PROVE  it \in Items(z)
        <5>1. PICK k \in 1 .. a : it = x[k]
          BY <2>2 DEF Items
        <5> QED
          BY <2>4, <5>1
      <4> QED
        BY <4>1
    <3>2. \A it \in Items(y) : it \in Items(z)
      <4>1. ASSUME NEW it \in Items(y)
            PROVE  it \in Items(z)
        <5>1. PICK k \in 1 .. n : it = y[k]
          BY <2>2 DEF Items
        <5> QED
          BY <2>5, <5>1
      <4> QED
        BY <4>1
    <3> QED
      BY <3>1, <3>2
  <2> QED
    BY <2>6, <2>7 DEF z
<1> QED
  BY <1>1, <1>2, <1>3

(* What the listing has for one word of code.                              *)
Added(b, i) == MainAt(b, i) \o (Dis!Line(b[i]) \o Dis!nl)
CodeTyped(it) ==
  IsItem(it) /\ it.t \in {"nl", "label", "instr", "junk"} /\ (it.t = "label" => it.name = "main")
Plainly(it) == it.t # "junk" /\ (it.t = "instr" => Parses(it) /\ ~Names(it))
Finite(b) == \A k \in HEADER_LEN + 1 .. Dis!CodeEnd(b) : b[k].op = "FI" => b[k].imm \notin Infinite

LEMMA MainIs ==
  LET main == Dis!MainLabel IN
  /\ IsSource(main) /\ Len(main) = 2 /\ main[1].t = "label" /\ main[2].t = "nl" /\ Spread(main) = <<>>
  /\ \A it \in Items(main) : CodeTyped(it) /\ Plainly(it)
<1> DEFINE label == [t |-> "label", name |-> "main"]
           new == [t |-> "nl"]
<1>1. label.t = "label" /\ label.name = "main" /\ new.t = "nl"
  OBVIOUS
<1>2. Dis!MainLabel = <<label>> \o <<new>> /\ Dis!nl = <<new>>
  BY DEF Dis!MainLabel, Dis!nl
<1> HIDE DEF label, new
<1>3. IsSource(<<label>>) /\ IsSource(<<new>>)
  BY <1>1, ShortSources
<1>4. /\ IsSeq(<<label>>) /\ Len(<<label>>) = 1 /\ <<label>>[1] = label
      /\ IsSeq(<<new>>) /\ Len(<<new>>) = 1 /\ <<new>>[1] = new
  BY OneIsSeq
<1> DEFINE m == <<label>> \o <<new>>
<1>5. IsSource(m)
  BY <1>3, JoinedSources
<1>6. Len(m) = 2 /\ m[1] = label /\ m[2] = new
  OBVIOUS
<1>7. Spread(m) = <<>>
  <2>1. Spread(<<label>>) = <<>> /\ Spread(<<new>>) = <<>>
    <3>1. Spread(<<label>>) = ItemWords(label) /\ Spread(<<new>>) = ItemWords(new)
      BY <1>1, SpreadOne
    <3> QED
      BY <1>1, <3>1 DEF ItemWords
  <2>2. Spread(m) = <<>> \o <<>>
    BY <1>3, <2>1, SpreadJoin
  <2> QED
    BY <2>2
<1>8. Items(m) = {label, new}
  <2>1. Items(m) = Items(<<label>>) \cup Items(<<new>>)
    BY <1>4, ItemsJoin
  <2>2. Items(<<label>>) = {label} /\ Items(<<new>>) = {new}
    BY ItemsJoin
  <2> QED
    BY <2>1, <2>2
<1> HIDE DEF m
<1>9. CodeTyped(label) /\ CodeTyped(new) /\ Plainly(label) /\ Plainly(new)
  BY <1>1, ItemIs DEF CodeTyped, Plainly
<1> QED
  BY <1>1, <1>2, <1>5, <1>6, <1>7, <1>8, <1>9 DEF m

LEMMA NewlineIs ==
  /\ IsSource(Dis!nl) /\ Len(Dis!nl) = 1 /\ Dis!nl[1].t = "nl" /\ Spread(Dis!nl) = <<>>
  /\ \A it \in Items(Dis!nl) : it.t = "nl" /\ CodeTyped(it) /\ Plainly(it)
<1> DEFINE new == [t |-> "nl"]
<1>1. new.t = "nl" /\ Dis!nl = <<new>>
  BY DEF Dis!nl
<1> HIDE DEF new
<1>2. IsSource(<<new>>) /\ Len(<<new>>) = 1 /\ <<new>>[1] = new
  BY <1>1, ShortSources, OneIsSeq
<1>3. Spread(<<new>>) = <<>>
  <2>1. Spread(<<new>>) = ItemWords(new)
    BY <1>1, SpreadOne
  <2> QED
    BY <1>1, <2>1 DEF ItemWords
<1>4. Items(<<new>>) = {new}
  BY ItemsJoin
<1>5. CodeTyped(new) /\ Plainly(new)
  BY <1>1, ItemIs DEF CodeTyped, Plainly
<1> QED
  BY <1>1, <1>2, <1>3, <1>4, <1>5

LEMMA AddedIs ==
  ASSUME NEW b, NEW i, IsInstr(b[i])
  PROVE  LET x == Added(b, i)
             here == i - 1 = Dis!Entry(b)
         IN  /\ IsSource(x) /\ Len(x) \in Nat
             /\ \A it \in Items(x) : CodeTyped(it)
             /\ \A k \in 1 .. Len(x) : x[k].t = "label" <=> (here /\ k = 1)
             /\ here => Len(x) >= 1
             /\ (b[i].op = "FI" => b[i].imm \notin Infinite) =>
                  Spread(x) = <<b[i]>> /\ \A it \in Items(x) : Plainly(it)
<1> DEFINE w == b[i]
           line == Dis!Line(w)
           new == Dis!nl
           rest == line \o new
           main == MainAt(b, i)
           x == main \o rest
           here == i - 1 = Dis!Entry(b)
<1>1. /\ IsSource(line) /\ IsSeq(line)
      /\ \A k \in DOMAIN line : IsItem(line[k]) /\ line[k].t \in {"instr", "junk"}
      /\ (w.op = "FI" => w.imm \notin Infinite) =>
           \E it : line = <<it>> /\ it.t = "instr" /\ ~Names(it) /\ Parses(it) /\ Encoded(it) = w
  BY LineIs, LineIsSource DEF IsSource
<1>2. /\ IsSource(new) /\ IsSeq(new) /\ Len(new) = 1 /\ new[1].t = "nl" /\ Spread(new) = <<>>
      /\ \A it \in Items(new) : it.t = "nl" /\ CodeTyped(it) /\ Plainly(it)
  BY NewlineIs DEF IsSource
<1>3. /\ here => main = Dis!MainLabel
      /\ ~here => main = <<>>
  BY DEF MainAt
<1>4. /\ IsSource(main) /\ IsSeq(main) /\ Spread(main) = <<>>
      /\ \A it \in Items(main) : CodeTyped(it) /\ Plainly(it)
      /\ here => Len(main) = 2 /\ main[1].t = "label" /\ main[2].t = "nl"
      /\ ~here => Len(main) = 0
  <2>1. CASE here
    BY <1>3, <2>1, MainIs DEF IsSource
  <2>2. CASE ~here
    <3>1. main = <<>>
      BY <1>3, <2>2
    <3> QED
      BY <2>2, <3>1, ShortSources, EmptyIsSeq, SpreadOne, ItemsJoin
  <2> QED
    BY <2>1, <2>2
<1> HIDE DEF line, new, main
<1>5. IsSource(rest) /\ IsSeq(rest) /\ Items(rest) = Items(line) \cup Items(new)
  <2>1. IsSource(line \o new)
    BY <1>1, <1>2, JoinedSources
  <2>2. Items(line \o new) = Items(line) \cup Items(new)
    BY <1>1, <1>2, ItemsJoin
  <2> QED
    BY <2>1, <2>2 DEF IsSource
<1>6. \A it \in Items(line) : CodeTyped(it) /\ it.t # "label"
  BY <1>1 DEF Items, CodeTyped
<1>7. \A it \in Items(rest) : CodeTyped(it) /\ it.t # "label"
  BY <1>2, <1>5, <1>6
<1>8. (w.op = "FI" => w.imm \notin Infinite) => Spread(rest) = <<w>> /\ \A it \in Items(rest) : Plainly(it)
  <2>1. SUFFICES ASSUME w.op = "FI" => w.imm \notin Infinite
                 PROVE  Spread(rest) = <<w>> /\ \A it \in Items(rest) : Plainly(it)
    OBVIOUS
  <2>2. PICK it : line = <<it>> /\ it.t = "instr" /\ ~Names(it) /\ Parses(it) /\ Encoded(it) = w
    BY <1>1, <2>1
  <2>3. Spread(line) = <<w>>
    <3>1. Spread(<<it>>) = ItemWords(it)
      BY <2>2, SpreadOne
    <3> QED
      BY <2>2, <3>1 DEF ItemWords
  <2>4. Spread(rest) = Spread(line) \o Spread(new)
    BY <1>1, <1>2, SpreadJoin
  <2>5. Spread(rest) = <<w>>
    <3>1. IsSeq(<<w>>)
      BY OneIsSeq
    <3>2. <<w>> \o <<>> = <<w>>
      BY <3>1, Joins
    <3> QED
      BY <1>2, <2>3, <2>4, <3>2
  <2>6. Items(line) = {it} /\ Plainly(it)
    BY <2>2, ItemsJoin DEF Plainly
  <2> QED
    BY <1>2, <1>5, <2>5, <2>6
<1> HIDE DEF rest
<1>9. /\ IsSource(x) /\ IsSeq(x) /\ Items(x) = Items(main) \cup Items(rest)
      /\ Len(x) = Len(main) + Len(rest)
      /\ \A k \in 1 .. Len(main) : x[k] = main[k]
      /\ \A k \in 1 .. Len(rest) : x[Len(main) + k] = rest[k]
  <2>1. IsSource(main \o rest)
    BY <1>4, <1>5, JoinedSources
  <2>2. Items(main \o rest) = Items(main) \cup Items(rest)
    BY <1>4, <1>5, ItemsJoin
  <2>3. /\ Len(main \o rest) = Len(main) + Len(rest)
        /\ \A k \in 1 .. Len(main) : (main \o rest)[k] = main[k]
        /\ \A k \in 1 .. Len(rest) : (main \o rest)[Len(main) + k] = rest[k]
    BY <1>4, <1>5, ConcatIsSeq
  <2> QED
    BY <2>1, <2>2, <2>3 DEF IsSource
<1>10. Spread(x) = Spread(rest)
  <2>1. Spread(main \o rest) = Spread(main) \o Spread(rest)
    BY <1>4, <1>5, SpreadJoin
  <2>2. IsSeq(Spread(rest))
    BY <1>5, EachIsSeq
  <2>3. <<>> \o Spread(rest) = Spread(rest)
    BY <2>2, Joins
  <2> QED
    BY <1>4, <2>1, <2>3
<1>11. Len(rest) \in Nat /\ Len(main) \in Nat /\ DOMAIN rest = 1 .. Len(rest)
  BY <1>4, <1>5, SeqFacts
<1> HIDE DEF x
<1>12. ASSUME NEW k \in 1 .. Len(x)
       PROVE  x[k].t = "label" <=> (here /\ k = 1)
  <2>1. CASE k > Len(main)
    <3> DEFINE j == k - Len(main)
    <3>1. j \in 1 .. Len(rest) /\ k = Len(main) + j
      BY <1>9, <1>11, <2>1
    <3> HIDE DEF j
    <3>2. x[k] = rest[j] /\ rest[j] \in Items(rest)
      BY <1>9, <1>11, <3>1 DEF Items
    <3>3. x[k].t # "label"
      BY <1>7, <3>2
    <3>4. here => k # 1
      <4>1. here => Len(main) = 2
        BY <1>4
      <4> QED
        BY <2>1, <4>1
    <3> QED
      BY <3>3, <3>4
  <2>2. CASE k <= Len(main)
    <3>1. here /\ (k = 1 \/ k = 2) /\ x[k] = main[k]
      BY <1>4, <1>9, <1>11, <2>2
    <3> QED
      BY <1>4, <3>1
  <2> QED
    BY <1>11, <2>1, <2>2
<1>13. here => Len(x) >= 1
  <2>1. (here => Len(main) = 2) /\ Len(x) = Len(main) + Len(rest)
    BY <1>4, <1>9
  <2> HIDE DEF here
  <2>2. Len(main) = 2 /\ Len(x) = Len(main) + Len(rest) => Len(x) >= 1
    BY <1>11
  <2> QED
    BY <2>1, <2>2
<1>14. x = Added(b, i)
  BY DEF Added, x, main, rest, line, new, w
<1>15. Len(x) \in Nat
  BY <1>9, <1>11
<1> QED
  BY <1>4, <1>7, <1>8, <1>9, <1>10, <1>12, <1>13, <1>14, <1>15 DEF x
-----------------------------------------------------------------------------
(* Some words of a binary, one after the other.                            *)
Part(b, lo, hi) == [k \in 1 .. hi - lo |-> b[lo + k]]

LEMMA Regroups ==
  ASSUME NEW x, NEW y, NEW z, IsSeq(x), IsSeq(y), IsSeq(z)
  PROVE  (x \o y) \o z = x \o (y \o z)
BY Joins

LEMMA SameSeq ==
  ASSUME NEW x, NEW y, IsSeq(x), IsSeq(y), Len(x) = Len(y), \A k \in 1 .. Len(x) : x[k] = y[k]
  PROVE  x = y
<1>1. x = [k \in 1 .. Len(x) |-> x[k]] /\ y = [k \in 1 .. Len(y) |-> y[k]]
  BY SeqFacts
<1>2. [k \in 1 .. Len(x) |-> x[k]] = [k \in 1 .. Len(x) |-> y[k]]
  OBVIOUS
<1> QED
  BY <1>1, <1>2

LEMMA PartIs ==
  ASSUME NEW b, NEW lo \in Nat, NEW hi \in Nat, lo <= hi
  PROVE  /\ IsSeq(Part(b, lo, hi)) /\ Len(Part(b, lo, hi)) = hi - lo
         /\ \A k \in 1 .. hi - lo : Part(b, lo, hi)[k] = b[lo + k]
         /\ lo = hi => Part(b, lo, hi) = <<>>
         /\ lo + 1 = hi => Part(b, lo, hi) = <<b[hi]>>
<1> DEFINE x == Part(b, lo, hi)
<1>1. hi - lo \in Nat /\ x = [k \in 1 .. hi - lo |-> x[k]] /\ \A k \in 1 .. hi - lo : x[k] = b[lo + k]
  BY DEF Part
<1> HIDE DEF x
<1>2. IsSeq(x) /\ Len(x) = hi - lo
  BY <1>1, FunctionIsSeq
<1>3. lo = hi => x = <<>>
  <2>1. SUFFICES ASSUME lo = hi
                 PROVE  x = <<>>
    OBVIOUS
  <2>2. hi - lo = 0 /\ \A k \in 1 .. 0 : FALSE
    BY <2>1
  <2> QED
    BY <1>2, <2>2, EmptyIsSeq, SameSeq
<1>4. lo + 1 = hi => x = <<b[hi]>>
  <2>1. SUFFICES ASSUME lo + 1 = hi
                 PROVE  x = <<b[hi]>>
    OBVIOUS
  <2> DEFINE y == <<b[hi]>>
  <2>2. IsSeq(y) /\ Len(y) = 1 /\ y[1] = b[hi]
    BY OneIsSeq
  <2> HIDE DEF y
  <2>3. hi - lo = 1 /\ x[1] = b[hi] /\ \A k \in 1 .. 1 : k = 1
    BY <1>1, <2>1
  <2>4. Len(x) = 1 /\ \A k \in 1 .. 1 : x[k] = y[k]
    BY <1>2, <2>2, <2>3
  <2>5. x = y
    BY <1>2, <2>2, <2>4, SameSeq
  <2> QED
    BY <2>5 DEF y
<1> QED
  BY <1>1, <1>2, <1>3, <1>4 DEF x

LEMMA PartsJoin ==
  ASSUME NEW b, NEW lo \in Nat, NEW mid \in Nat, NEW hi \in Nat, lo <= mid, mid <= hi
  PROVE  Part(b, lo, mid) \o Part(b, mid, hi) = Part(b, lo, hi)
<1> DEFINE x == Part(b, lo, mid)
           y == Part(b, mid, hi)
           z == Part(b, lo, hi)
           u == x \o y
<1>1. /\ IsSeq(x) /\ Len(x) = mid - lo /\ \A k \in 1 .. mid - lo : x[k] = b[lo + k]
      /\ IsSeq(y) /\ Len(y) = hi - mid /\ \A k \in 1 .. hi - mid : y[k] = b[mid + k]
      /\ IsSeq(z) /\ Len(z) = hi - lo /\ \A k \in 1 .. hi - lo : z[k] = b[lo + k]
  <2>1. IsSeq(x) /\ Len(x) = mid - lo /\ \A k \in 1 .. mid - lo : x[k] = b[lo + k]
    BY PartIs
  <2>2. IsSeq(y) /\ Len(y) = hi - mid /\ \A k \in 1 .. hi - mid : y[k] = b[mid + k]
    BY PartIs
  <2>3. lo <= hi
    OBVIOUS
  <2>4. IsSeq(z) /\ Len(z) = hi - lo /\ \A k \in 1 .. hi - lo : z[k] = b[lo + k]
    BY <2>3, PartIs
  <2> QED
    BY <2>1, <2>2, <2>4
<1> HIDE DEF x, y, z
<1>2. /\ IsSeq(u) /\ Len(u) = Len(x) + Len(y)
      /\ \A k \in 1 .. Len(x) : u[k] = x[k]
      /\ \A k \in 1 .. Len(y) : u[Len(x) + k] = y[k]
  BY <1>1, ConcatIsSeq
<1> HIDE DEF u
<1>3. Len(u) = hi - lo
  BY <1>1, <1>2
<1>4. ASSUME NEW k \in 1 .. hi - lo
      PROVE  u[k] = z[k]
  <2>1. CASE k <= mid - lo
    <3>1. k \in 1 .. mid - lo /\ k \in 1 .. Len(x)
      BY <1>1, <2>1
    <3> QED
      BY <1>1, <1>2, <3>1
  <2>2. CASE ~(k <= mid - lo)
    <3> DEFINE j == k - (mid - lo)
    <3>1. j \in 1 .. hi - mid /\ j \in 1 .. Len(y) /\ k = Len(x) + j /\ lo + k = mid + j
      BY <1>1, <2>2
    <3> HIDE DEF j
    <3>2. u[k] = y[j] /\ y[j] = b[mid + j]
      BY <1>1, <1>2, <3>1
    <3> QED
      BY <1>1, <3>1, <3>2
  <2> QED
    BY <2>1, <2>2
<1>5. u = z
  BY <1>1, <1>2, <1>3, <1>4, SameSeq
<1> QED
  BY <1>5 DEF u, x, y, z
-----------------------------------------------------------------------------
(* The code of a listing: its items, the words they lay down, and the one  *)
(* label, before the word at the entry point.                              *)
Marked(lines, e, i) ==
  /\ i <= e => \A k \in 1 .. Len(lines[i]) : lines[i][k].t # "label"
  /\ i > e => /\ Len(lines[e]) + 1 <= Len(lines[i])
              /\ \A k \in 1 .. Len(lines[e]) : lines[i][k] = lines[e][k]
              /\ \A k \in 1 .. Len(lines[i]) : lines[i][k].t = "label" <=> k = Len(lines[e]) + 1

LEMMA CodeListed ==
  ASSUME NEW b, NEW n \in Nat, 5 <= n, NEW e \in Nat, 5 <= e, Dis!Entry(b) = e,
         NEW lines, \A i \in 0 .. n : CodeUpTo(b, lines, i), \A k \in 6 .. n : IsInstr(b[k])
  PROVE  \A i \in 5 .. n :
           /\ IsSource(lines[i]) /\ \A it \in Items(lines[i]) : CodeTyped(it)
           /\ Marked(lines, e, i)
           /\ (\A k \in 6 .. n : b[k].op = "FI" => b[k].imm \notin Infinite) =>
                Spread(lines[i]) = Part(b, 5, i) /\ \A it \in Items(lines[i]) : Plainly(it)
<1> DEFINE fine == \A k \in 6 .. n : b[k].op = "FI" => b[k].imm \notin Infinite
           Good(i) == /\ \A it \in Items(lines[i]) : CodeTyped(it)
                      /\ Marked(lines, e, i)
                      /\ fine => Spread(lines[i]) = Part(b, 5, i) /\ \A it \in Items(lines[i]) : Plainly(it)
           S == {i \in 5 .. n : Good(i)}
<1>1. \A i \in 0 .. n : IsSource(lines[i])
  BY CodeLinesAreSources
<1>2. \A i \in 5 .. n : /\ i \in 0 .. n /\ IsSource(lines[i]) /\ IsSeq(lines[i])
                        /\ Len(lines[i]) \in Nat /\ DOMAIN lines[i] = 1 .. Len(lines[i])
  <2>1. ASSUME NEW i \in 5 .. n
        PROVE  i \in 0 .. n
    OBVIOUS
  <2> QED
    BY <1>1, <2>1, SeqFacts DEF IsSource
<1>3. 5 \in S
  <2>1. 5 \in 0 .. n /\ 5 \in 5 .. n
    OBVIOUS
  <2>2. lines[5] = <<>>
    BY <2>1 DEF CodeUpTo, HEADER_LEN
  <2>3. Part(b, 5, 5) = <<>>
    <3>1. \A m \in Nat : Part(b, m, m) = <<>>
      <4>1. ASSUME NEW m \in Nat
            PROVE  Part(b, m, m) = <<>>
        <5>1. m <= m
          OBVIOUS
        <5> QED
          BY <5>1, PartIs, Zenon
      <4> QED
        BY <4>1
    <3> QED
      BY <3>1
  <2>4. Marked(lines, e, 5)
    BY <2>2, EmptyIsSeq DEF Marked
  <2>5. Good(5)
    BY <2>2, <2>3, <2>4, SpreadOne, ItemsJoin
  <2> QED
    BY <2>1, <2>5
<1>4. ASSUME NEW i \in 5 .. n - 1, i \in S
      PROVE  i + 1 \in S
  <2> DEFINE j == i + 1
             x == lines[i]
             y == Added(b, j)
             z == lines[j]
             here == j - 1 = Dis!Entry(b)
  <2>1. j \in 5 .. n /\ j \in 6 .. n /\ j \in 0 .. n /\ i \in 5 .. n /\ j - 1 = i /\ ~(j <= 5)
    OBVIOUS
  <2>2. IsInstr(b[j]) /\ (fine => (b[j].op = "FI" => b[j].imm \notin Infinite))
    BY <2>1
  <2> HIDE DEF j
  <2>3. /\ IsSource(y) /\ Len(y) \in Nat
        /\ \A it \in Items(y) : CodeTyped(it)
        /\ \A k \in 1 .. Len(y) : y[k].t = "label" <=> (here /\ k = 1)
        /\ here => Len(y) >= 1
        /\ fine => Spread(y) = <<b[j]>> /\ \A it \in Items(y) : Plainly(it)
    BY <2>2, AddedIs
  <2>4. here <=> i = e
    BY <2>1
  <2> HIDE DEF here, fine
  <2>5. z = x \o y
    <3> DEFINE main == MainAt(b, j)
               line == Dis!Line(b[j])
               new == Dis!nl
    <3>1. z = lines[j - 1] \o main \o line \o new
      BY <2>1 DEF CodeUpTo, HEADER_LEN
    <3>2. IsSeq(x) /\ IsSeq(main) /\ IsSeq(line) /\ IsSeq(new)
      BY <1>2, <2>1, MainIs, EmptyIsSeq, LineIsSource, NewlineIs DEF MainAt, IsSource
    <3>3. y = main \o (line \o new)
      BY DEF Added
    <3> HIDE DEF x, y, z, main, line, new
    <3> DEFINE front == x \o main
               rest == line \o new
    <3>4. IsSeq(front) /\ IsSeq(rest)
      BY <3>2, ConcatIsSeq
    <3>5. front \o rest = x \o (main \o rest)
      <4>1. IsSeq(x) /\ IsSeq(main) /\ IsSeq(rest)
        BY <3>2, <3>4
      <4> HIDE DEF rest
      <4> QED
        BY <4>1, Regroups, SMTT(30)
    <3>6. (front \o line) \o new = front \o rest
      <4>1. IsSeq(front) /\ IsSeq(line) /\ IsSeq(new)
        BY <3>2, <3>4
      <4> HIDE DEF front
      <4> QED
        BY <4>1, Regroups, SMTT(30)
    <3>7. lines[j - 1] = x
      BY <2>1 DEF x
    <3> QED
      BY <3>1, <3>3, <3>5, <3>6, <3>7
  <2>6. /\ IsSource(x) /\ IsSeq(x) /\ Len(x) \in Nat /\ DOMAIN x = 1 .. Len(x)
        /\ IsSource(z) /\ IsSeq(z) /\ Len(z) \in Nat /\ DOMAIN z = 1 .. Len(z)
    BY <1>2, <2>1
  <2>7. IsSeq(y)
    BY <2>3 DEF IsSource
  <2>8. Good(i)
    BY <1>4
  <2> HIDE DEF x, y, z
  <2>9. Items(z) = Items(x) \cup Items(y)
    BY <2>5, <2>6, <2>7, ItemsJoin
  <2>10. /\ Len(z) = Len(x) + Len(y)
         /\ \A k \in 1 .. Len(x) : z[k] = x[k]
         /\ \A k \in 1 .. Len(y) : z[Len(x) + k] = y[k]
    BY <2>5, <2>6, <2>7, ConcatIsSeq
  <2>11. \A it \in Items(z) : CodeTyped(it)
    BY <2>3, <2>8, <2>9 DEF x
  <2>12. fine => Spread(z) = Part(b, 5, j) /\ \A it \in Items(z) : Plainly(it)
    <3>1. SUFFICES ASSUME fine
                   PROVE  Spread(z) = Part(b, 5, j) /\ \A it \in Items(z) : Plainly(it)
      OBVIOUS
    <3>2. Spread(z) = Spread(x) \o Spread(y)
      BY <2>3, <2>5, <2>6, SpreadJoin
    <3>3. Spread(x) = Part(b, 5, i) /\ \A it \in Items(x) : Plainly(it)
      BY <2>8, <3>1 DEF x
    <3>4. Spread(y) = <<b[j]>> /\ \A it \in Items(y) : Plainly(it)
      BY <2>3, <3>1
    <3>5. i \in Nat /\ j \in Nat /\ 5 <= i /\ i <= j /\ i + 1 = j /\ 5 \in Nat
      BY <2>1 DEF j
    <3>6. Part(b, i, j) = <<b[j]>>
      <4>1. i \in Nat /\ j \in Nat /\ i <= j /\ i + 1 = j
        BY <3>5
      <4> QED
        BY <4>1, PartIs, Zenon
    <3>7. Part(b, 5, i) \o Part(b, i, j) = Part(b, 5, j)
      <4>1. ASSUME NEW h \in Nat, h <= i
            PROVE  Part(b, h, i) \o Part(b, i, j) = Part(b, h, j)
        <5>1. h \in Nat /\ i \in Nat /\ j \in Nat /\ h <= i /\ i <= j
          BY <3>5, <4>1
        <5> QED
          BY <5>1, PartsJoin, Zenon
      <4> QED
        BY <3>5, <4>1
    <3> QED
      BY <2>9, <3>2, <3>3, <3>4, <3>6, <3>7
  <2>13. Marked(lines, e, j)
    <3>1. Marked(lines, e, i) /\ x = lines[i] /\ z = lines[j] /\ j = i + 1 /\ i \in Nat
      BY <2>8 DEF x, z, j
    <3>2. ASSUME NEW k \in 1 .. Len(z), k > Len(x)
          PROVE  z[k].t = "label" <=> (i = e /\ k = Len(x) + 1)
      <4> DEFINE q == k - Len(x)
      <4>1. q \in 1 .. Len(y) /\ k = Len(x) + q /\ (q = 1 <=> k = Len(x) + 1)
        BY <2>3, <2>6, <2>10, <3>2
      <4> HIDE DEF q
      <4>2. z[k] = y[q]
        BY <2>10, <4>1
      <4>3. y[q].t = "label" <=> (here /\ q = 1)
        BY <2>3, <4>1
      <4> QED
        BY <2>4, <4>1, <4>2, <4>3
    <3>3. CASE j <= e
      <4>1. i <= e /\ i # e
        BY <3>1, <3>3
      <4>2. \A k \in 1 .. Len(x) : x[k].t # "label"
        BY <3>1, <4>1 DEF Marked
      <4>3. ASSUME NEW k \in 1 .. Len(z)
            PROVE  z[k].t # "label"
        <5>1. CASE k <= Len(x)
          <6>1. k \in 1 .. Len(x)
            BY <2>6, <5>1
          <6> QED
            BY <2>10, <4>2, <6>1
        <5>2. CASE k > Len(x)
          BY <3>2, <4>1, <5>2
        <5> QED
          BY <2>6, <5>1, <5>2
      <4>4. ~(j > e)
        BY <3>1, <3>3
      <4> QED
        BY <3>1, <4>3, <4>4 DEF Marked
    <3>4. CASE i = e
      <4>1. ~(j <= e) /\ lines[e] = x /\ Len(y) >= 1 /\ i <= e
        BY <2>3, <2>4, <3>1, <3>4
      <4>2. \A k \in 1 .. Len(x) : x[k].t # "label"
        BY <3>1, <4>1 DEF Marked
      <4>3. Len(x) + 1 <= Len(z)
        BY <2>3, <2>6, <2>10, <4>1
      <4>4. ASSUME NEW k \in 1 .. Len(z)
            PROVE  z[k].t = "label" <=> k = Len(x) + 1
        <5>1. CASE k <= Len(x)
          <6>1. k \in 1 .. Len(x) /\ k # Len(x) + 1
            BY <2>6, <5>1
          <6> QED
            BY <2>10, <4>2, <6>1
        <5>2. CASE k > Len(x)
          BY <3>2, <3>4, <5>2
        <5> QED
          BY <2>6, <5>1, <5>2
      <4> QED
        BY <2>10, <3>1, <4>1, <4>3, <4>4 DEF Marked
    <3>5. CASE i > e
      <4> DEFINE a == lines[e]
      <4>1. ~(j <= e) /\ e \in 5 .. n /\ i # e /\ ~(i <= e)
        BY <2>1, <3>1, <3>5
      <4>2. Len(a) \in Nat
        BY <1>2, <4>1
      <4> HIDE DEF a
      <4>3. /\ Len(a) + 1 <= Len(x) /\ \A k \in 1 .. Len(a) : x[k] = a[k]
            /\ \A k \in 1 .. Len(x) : x[k].t = "label" <=> k = Len(a) + 1
        BY <3>1, <3>5 DEF Marked, a
      <4>4. Len(a) + 1 <= Len(z)
        BY <2>3, <2>6, <2>10, <4>2, <4>3
      <4>5. ASSUME NEW k \in 1 .. Len(a)
            PROVE  z[k] = a[k]
        <5>1. k \in 1 .. Len(x)
          BY <2>6, <4>2, <4>3
        <5> QED
          BY <2>10, <4>3, <5>1
      <4>6. ASSUME NEW k \in 1 .. Len(z)
            PROVE  z[k].t = "label" <=> k = Len(a) + 1
        <5>1. CASE k <= Len(x)
          <6>1. k \in 1 .. Len(x)
            BY <2>6, <5>1
          <6> QED
            BY <2>10, <4>3, <6>1
        <5>2. CASE k > Len(x)
          <6>1. k # Len(a) + 1
            BY <2>6, <4>2, <4>3, <5>2
          <6> QED
            BY <3>2, <4>1, <5>2, <6>1
        <5> QED
          BY <2>6, <5>1, <5>2
      <4> QED
        BY <3>1, <4>1, <4>4, <4>5, <4>6 DEF Marked, a
    <3>6. j <= e \/ i = e \/ i > e
      BY <3>1
    <3> QED
      BY <3>3, <3>4, <3>5, <3>6
  <2>14. Good(j)
    BY <2>11, <2>12, <2>13 DEF z
  <2> HIDE DEF Good
  <2> QED
    BY <2>1, <2>14 DEF j
<1> HIDE DEF S
<1>5. \A i \in 5 .. n : i \in S
  BY <1>3, <1>4, Reached
<1> QED
  BY <1>2, <1>5 DEF S
-----------------------------------------------------------------------------
(* The data of a listing.  Induction goes backwards, as the recursion does.*)
LEMMA ReachedBack ==
  ASSUME NEW n \in Nat, NEW a \in 0 .. n, NEW S, n \in S,
         \A m \in a .. n : m # n /\ (\A j \in m + 1 .. n : j \in S) => m \in S
  PROVE  \A m \in a .. n : m \in S
<1> DEFINE Bad == {q \in Nat : q <= n - a /\ n - q \notin S}
<1>1. SUFFICES ASSUME NEW m \in a .. n, m \notin S
               PROVE  FALSE
  OBVIOUS
<1>2. n - m \in Bad
  <2>1. n - m \in Nat /\ n - m <= n - a /\ n - (n - m) = m
    OBVIOUS
  <2> QED
    BY <1>1, <2>1
<1>3. PICK q \in Bad : \A y \in Bad : q <= y
  <2>1. Bad \subseteq Nat
    OBVIOUS
  <2> HIDE DEF Bad
  <2> QED
    BY <1>2, <2>1, LeastElement
<1> DEFINE i == n - q
<1>4. q \in Nat /\ q <= n - a /\ i \notin S
  BY <1>3
<1>5. i \in a .. n /\ i # n
  BY <1>4
<1>6. ASSUME NEW j \in i + 1 .. n
      PROVE  j \in S
  <2>1. n - j \in Nat /\ n - j <= n - a /\ ~(q <= n - j) /\ n - (n - j) = j
    BY <1>4
  <2>2. n - j \notin Bad
    <3> HIDE DEF Bad
    <3> QED
      BY <1>3, <2>1
  <2> QED
    BY <2>1, <2>2
<1> HIDE DEF i
<1> QED
  BY <1>4, <1>5, <1>6

DataPiece(b, i) == DataLine(b, i) \o Dis!nl
NumbersFrom(b, i, n) == \A j \in i .. n - 1 : Dis!Datum(b, j) \in Nat /\ b[j + 1] = Word(Dis!Datum(b, j))
Faithful(b, i, n) == \A j \in i .. n - 1 : Dis!Datum(b, j) <= MaxSigned /\ Dis!Datum(b, j) # QUOTE

(* An element of the data as the listing has it: a string, or a number.    *)
LEMMA StringIs ==
  ASSUME NEW b, NEW n \in Nat, Dis!FileLength(b) = n, NEW i \in 0 .. n, i # n, NumbersFrom(b, i, n),
         Dis!IsString(b, i)
  PROVE  LET it == [t |-> "str", chars |-> Dis!Chars(b, i)] IN
         /\ IsItem(it) /\ IsSeq(it.chars)
         /\ Faithful(b, i, n) => QUOTE \notin Items(it.chars)
         /\ ItemWords(it) = Part(b, i, After(b, i))
<1> DEFINE q == Dis!StringEnd(b, i)
           m == q - i
           chars == Dis!Chars(b, i)
           it == [t |-> "str", chars |-> chars]
           w == [k \in 1 .. m |-> Word(chars[k])]
<1>1. q \in Dis!StringEnds(b, i)
  BY DEF Dis!IsString, Dis!StringEnd
<1>2. q \in i + 1 .. n - 1 /\ Dis!Datum(b, q) = 0 /\ After(b, i) = q + 1
  BY <1>1 DEF Dis!StringEnds, After
<1>3. chars = [k \in 1 .. m |-> Dis!Datum(b, i + k - 1)]
  BY DEF Dis!Chars
<1> HIDE DEF q, chars
<1>4. m \in Nat /\ q = i + m /\ q \in Nat /\ i \in Nat
  BY <1>2
<1> HIDE DEF m
<1>5. ASSUME NEW k \in 1 .. m
      PROVE  /\ chars[k] \in Nat /\ b[i + k] = Word(chars[k])
             /\ Faithful(b, i, n) => chars[k] # QUOTE
  <2> DEFINE j == i + k - 1
  <2>1. j \in i .. n - 1 /\ j + 1 = i + k /\ chars[k] = Dis!Datum(b, j)
    BY <1>2, <1>3, <1>4
  <2> HIDE DEF j
  <2> QED
    BY <2>1 DEF NumbersFrom, Faithful
<1>6. chars = [k \in 1 .. m |-> chars[k]]
  BY <1>3
<1>7. chars \in Seq(Nat) /\ Len(chars) = m /\ IsSeq(chars)
  <2>1. IsSeq(chars) /\ Len(chars) = m
    BY <1>4, <1>6, FunctionIsSeq
  <2>2. chars \in Seq(Nat)
    BY <1>4, <1>5, <1>6
  <2> QED
    BY <2>1, <2>2
<1>8. it.t = "str" /\ it.chars = chars
  OBVIOUS
<1> HIDE DEF it
<1>9. IsItem(it)
  BY <1>7, <1>8, ItemIs
<1>10. Faithful(b, i, n) => QUOTE \notin Items(it.chars)
  <2>1. DOMAIN chars = 1 .. m
    BY <1>3
  <2> QED
    BY <1>5, <1>8, <2>1 DEF Items
<1>11. w = Part(b, i, q)
  <2>1. i <= q /\ q - i = m /\ i \in Nat /\ q \in Nat
    BY <1>4
  <2>6. /\ IsSeq(Part(b, i, q)) /\ Len(Part(b, i, q)) = q - i
        /\ \A k \in 1 .. q - i : Part(b, i, q)[k] = b[i + k]
    BY <2>1, PartIs
  <2>2. /\ IsSeq(Part(b, i, q)) /\ Len(Part(b, i, q)) = m
        /\ \A k \in 1 .. m : Part(b, i, q)[k] = b[i + k]
    <3> HIDE DEF w, it
    <3> QED
      BY <2>1, <2>6
  <2>3. w = [k \in 1 .. m |-> w[k]] /\ \A k \in 1 .. m : w[k] = Word(chars[k])
    OBVIOUS
  <2> HIDE DEF w
  <2>4. IsSeq(w) /\ Len(w) = m
    BY <1>4, <2>3, FunctionIsSeq
  <2>5. \A k \in 1 .. m : w[k] = Part(b, i, q)[k]
    BY <1>5, <2>2, <2>3
  <2> QED
    BY <2>2, <2>4, <2>5, SameSeq
<1>12. Part(b, q, q + 1) = <<Word(0)>>
  <2>1. b[q + 1] = Word(0)
    <3>1. q \in i .. n - 1
      BY <1>2
    <3> QED
      BY <1>2, <3>1 DEF NumbersFrom
  <2> DEFINE r == q + 1
  <2>2. r \in Nat /\ q + 1 = r /\ q <= r
    BY <1>4
  <2> HIDE DEF r
  <2>3. Part(b, q, r) = <<b[r]>>
    <3>1. q \in Nat /\ r \in Nat /\ q <= r /\ q + 1 = r
      BY <1>4, <2>2
    <3> QED
      BY <3>1, PartIs, Zenon
  <2> QED
    BY <2>1, <2>3 DEF r
<1>13. ItemWords(it) = w \o <<Word(0)>>
  BY <1>7, <1>8 DEF ItemWords, DataWords
<1> HIDE DEF w
<1>14. Part(b, i, q) \o Part(b, q, q + 1) = Part(b, i, q + 1)
  <2> DEFINE r == q + 1
  <2>1. i \in Nat /\ q \in Nat /\ r \in Nat /\ i <= q /\ q <= r
    BY <1>4
  <2> HIDE DEF r
  <2>2. Part(b, i, q) \o Part(b, q, r) = Part(b, i, r)
    BY <2>1, PartsJoin, Zenon
  <2> QED
    BY <2>2 DEF r
<1>15. ItemWords(it) = Part(b, i, After(b, i))
  BY <1>2, <1>11, <1>12, <1>13, <1>14
<1> QED
  BY <1>7, <1>8, <1>9, <1>10, <1>15 DEF it, chars

LEMMA NumberIs ==
  ASSUME NEW b, NEW n \in Nat, Dis!FileLength(b) = n, NEW i \in 0 .. n, i # n, NumbersFrom(b, i, n),
         ~Dis!IsString(b, i)
  PROVE  LET it == [t |-> "num", v |-> Dis!Datum(b, i)] IN
         /\ IsItem(it)
         /\ Faithful(b, i, n) => ItemWords(it) = Part(b, i, After(b, i))
<1> DEFINE v == Dis!Datum(b, i)
           it == [t |-> "num", v |-> v]
<1>1. v \in Nat /\ b[i + 1] = Word(v) /\ After(b, i) = i + 1
  <2>1. i \in i .. n - 1
    OBVIOUS
  <2> QED
    BY <2>1 DEF NumbersFrom, After
<1>2. it.t = "num" /\ it.v = v
  OBVIOUS
<1> HIDE DEF it, v
<1>3. IsItem(it)
  BY <1>1, <1>2, ItemIs
<1>4. ItemWords(it) = <<Word(Wrap(getImm(v), WordBits))>>
  BY <1>2 DEF ItemWords, DataWords
<1>5. Faithful(b, i, n) => Wrap(getImm(v), WordBits) = v
  <2>1. SUFFICES ASSUME Faithful(b, i, n)
                 PROVE  Wrap(getImm(v), WordBits) = v
    OBVIOUS
  <2>2. v <= MaxSigned
    <3>1. i \in i .. n - 1
      OBVIOUS
    <3> QED
      BY <2>1, <3>1 DEF Faithful, v
  <2>3. MaxSigned \in Int /\ MaxSigned + 1 \in Nat
    <3>1. 0 \in Int
      OBVIOUS
    <3> QED
      BY <3>1, Saturates
  <2>4. v \in -MaxSigned .. MaxSigned /\ v \in Int
    BY <1>1, <2>2, <2>3
  <2>5. getImm(v) = v
    BY <2>4, Saturates
  <2> DEFINE m == 2 ^ WordBits
  <2>6. m \in Nat \ {0} /\ MaxSigned < m
    <3> DEFINE h == 2 ^ (WordBits - 1)
    <3>1. h \in Nat /\ m = 2 * h /\ MaxSigned = h - 1 /\ m # 0
      BY WidthsAssumption, AssemblerAssumption DEF MaxSigned
    <3> HIDE DEF h, m
    <3> QED
      BY <3>1
  <2>7. Wrap(getImm(v), WordBits) = v % m
    BY <2>5 DEF Wrap
  <2> HIDE DEF m
  <2>8. v \in 0 .. m - 1
    BY <1>1, <2>2, <2>3, <2>6
  <2>9. v % m = v
    BY <2>6, <2>8, Remainders
  <2> QED
    BY <2>7, <2>9
<1>6. Part(b, i, i + 1) = <<Word(v)>>
  <2> DEFINE r == i + 1
  <2>1. r \in Nat /\ i + 1 = r /\ i <= r /\ i \in Nat
    OBVIOUS
  <2> HIDE DEF r
  <2>2. Part(b, i, r) = <<b[r]>>
    BY <2>1, PartIs
  <2> QED
    BY <1>1, <2>2 DEF r
<1> QED
  BY <1>1, <1>3, <1>4, <1>5, <1>6 DEF it, v
-----------------------------------------------------------------------------
(* The data of a listing: every separator has a value after it.            *)
DataTyped(it) == IsItem(it) /\ it.t \in {"blank", "num", "str", "nl"}
Shaped(x) ==
  /\ IsSource(x) /\ \A it \in Items(x) : DataTyped(it)
  /\ \A k \in 1 .. Len(x) : x[k].t = "blank" => k + 1 <= Len(x) /\ x[k + 1].t \in {"num", "str"}
Unquoted(x) == \A it \in Items(x) : it.t = "str" => QUOTE \notin Items(it.chars)

LEMMA PieceIs ==
  ASSUME NEW it, IsItem(it), it.t \in {"num", "str"}, it.t = "str" => IsSeq(it.chars)
  PROVE  LET x == <<[t |-> "blank"], it>> \o Dis!nl IN
         /\ Shaped(x) /\ Spread(x) = ItemWords(it)
         /\ (it.t = "str" => QUOTE \notin Items(it.chars)) => Unquoted(x)
<1> DEFINE bl == [t |-> "blank"]
           u == <<bl>>
           v == <<it>>
           new == Dis!nl
           w == u \o v
           x == w \o new
<1>1. bl.t = "blank" /\ IsItem(bl) /\ ItemWords(bl) = <<>>
  <2>1. bl.t = "blank"
    OBVIOUS
  <2> HIDE DEF bl
  <2> QED
    BY <2>1, ItemIs DEF ItemWords
<1>2. <<bl, it>> = w
  <2> HIDE DEF bl
  <2> QED
    OBVIOUS
<1> HIDE DEF bl
<1>3. /\ IsSource(u) /\ Len(u) = 1 /\ u[1] = bl /\ Items(u) = {bl} /\ Spread(u) = <<>>
      /\ IsSource(v) /\ Len(v) = 1 /\ v[1] = it /\ Items(v) = {it} /\ Spread(v) = ItemWords(it)
  <2>1. bl.t = "str" => IsSeq(bl.chars)
    BY <1>1
  <2>2. IsSource(u) /\ IsSource(v)
    BY <2>1, ShortSources
  <2>3. Spread(u) = ItemWords(bl) /\ Spread(v) = ItemWords(it)
    BY <2>1, SpreadOne
  <2>4. Items(u) = {bl} /\ Items(v) = {it}
    BY ItemsJoin
  <2> QED
    BY <1>1, <2>2, <2>3, <2>4, OneIsSeq
<1>4. /\ IsSource(new) /\ Len(new) = 1 /\ new[1].t = "nl" /\ Spread(new) = <<>>
      /\ \A e \in Items(new) : e.t = "nl" /\ IsItem(e)
  BY NewlineIs DEF CodeTyped
<1> HIDE DEF u, v, new
<1>5. IsSeq(u) /\ IsSeq(v) /\ IsSeq(new)
  BY <1>3, <1>4 DEF IsSource
<1>6. IsSource(w) /\ IsSeq(w) /\ IsSource(w \o new)
  <2>1. IsSource(w)
    BY <1>3, JoinedSources
  <2> HIDE DEF w
  <2>2. IsSource(w \o new)
    BY <1>4, <2>1, JoinedSources
  <2> QED
    BY <2>1, <2>2 DEF IsSource
<1>7. /\ Len(w) = 2 /\ w[1] = bl /\ w[2] = it /\ Items(w) = {bl, it}
      /\ Spread(w) = ItemWords(it)
  <2>1. /\ Len(w) = Len(u) + Len(v)
        /\ \A k \in 1 .. Len(u) : w[k] = u[k]
        /\ \A k \in 1 .. Len(v) : w[Len(u) + k] = v[k]
    BY <1>5, ConcatIsSeq
  <2>2. Items(w) = Items(u) \cup Items(v)
    BY <1>5, ItemsJoin
  <2>3. Spread(w) = Spread(u) \o Spread(v)
    BY <1>3, SpreadJoin
  <2>4. IsSeq(ItemWords(it))
    BY WordsOfItem
  <2>5. <<>> \o ItemWords(it) = ItemWords(it)
    BY <2>4, Joins
  <2> HIDE DEF w
  <2> QED
    BY <1>3, <2>1, <2>2, <2>3, <2>5
<1> HIDE DEF w
<1>8. /\ Len(x) = 3 /\ x[1] = bl /\ x[2] = it /\ x[3].t = "nl"
      /\ Items(x) = {bl, it} \cup Items(new) /\ Spread(x) = ItemWords(it)
  <2>1. /\ Len(x) = Len(w) + Len(new)
        /\ \A k \in 1 .. Len(w) : x[k] = w[k]
        /\ \A k \in 1 .. Len(new) : x[Len(w) + k] = new[k]
    BY <1>5, <1>6, ConcatIsSeq
  <2>2. Items(x) = Items(w) \cup Items(new)
    BY <1>5, <1>6, ItemsJoin
  <2>3. Spread(x) = Spread(w) \o Spread(new)
    BY <1>4, <1>6, SpreadJoin
  <2>4. IsSeq(ItemWords(it))
    BY WordsOfItem
  <2>5. ItemWords(it) \o <<>> = ItemWords(it)
    BY <2>4, Joins
  <2> HIDE DEF x
  <2> QED
    BY <1>4, <1>7, <2>1, <2>2, <2>3, <2>5
<1>9. IsSource(x)
  BY <1>6
<1> HIDE DEF x
<1>10. \A e \in Items(x) : DataTyped(e)
  BY <1>1, <1>4, <1>8 DEF DataTyped
<1>11. \A k \in 1 .. Len(x) : x[k].t = "blank" => k + 1 <= Len(x) /\ x[k + 1].t \in {"num", "str"}
  <2>1. \A k \in 1 .. Len(x) : k = 1 \/ k = 2 \/ k = 3
    BY <1>8
  <2> QED
    BY <1>1, <1>8, <2>1
<1>12. (it.t = "str" => QUOTE \notin Items(it.chars)) => Unquoted(x)
  BY <1>1, <1>4, <1>8 DEF Unquoted
<1>13. <<[t |-> "blank"], it>> \o Dis!nl = x
  BY <1>2 DEF bl, x, new
<1> QED
  BY <1>8, <1>9, <1>10, <1>11, <1>12, <1>13 DEF Shaped

LEMMA ShapedJoin ==
  ASSUME NEW x, NEW y, Shaped(x), Shaped(y)
  PROVE  Shaped(x \o y) /\ (Unquoted(x) /\ Unquoted(y) => Unquoted(x \o y))
<1> DEFINE z == x \o y
<1>1. IsSource(x) /\ IsSource(y) /\ IsSeq(x) /\ IsSeq(y) /\ Len(x) \in Nat /\ Len(y) \in Nat
  BY SeqFacts DEF Shaped, IsSource
<1>2. IsSource(z) /\ Items(z) = Items(x) \cup Items(y)
  BY <1>1, JoinedSources, ItemsJoin
<1>3. /\ Len(z) = Len(x) + Len(y)
      /\ \A k \in 1 .. Len(x) : z[k] = x[k]
      /\ \A k \in 1 .. Len(y) : z[Len(x) + k] = y[k]
  BY <1>1, ConcatIsSeq
<1> HIDE DEF z
<1>4. ASSUME NEW k \in 1 .. Len(z), z[k].t = "blank"
      PROVE  k + 1 <= Len(z) /\ z[k + 1].t \in {"num", "str"}
  <2>1. CASE k <= Len(x)
    <3>1. k \in 1 .. Len(x)
      BY <1>1, <2>1
    <3>2. x[k].t = "blank"
      BY <1>3, <1>4, <3>1
    <3>3. k + 1 <= Len(x) /\ x[k + 1].t \in {"num", "str"}
      BY <3>1, <3>2 DEF Shaped
    <3>4. k + 1 \in 1 .. Len(x)
      BY <1>1, <3>1, <3>3
    <3> QED
      BY <1>1, <1>3, <3>3, <3>4
  <2>2. CASE k > Len(x)
    <3> DEFINE q == k - Len(x)
    <3>1. q \in 1 .. Len(y) /\ k = Len(x) + q
      BY <1>1, <1>3, <2>2
    <3> HIDE DEF q
    <3>2. y[q].t = "blank"
      BY <1>3, <1>4, <3>1
    <3>3. q + 1 <= Len(y) /\ y[q + 1].t \in {"num", "str"}
      BY <3>1, <3>2 DEF Shaped
    <3> DEFINE r == q + 1
    <3>4. r \in 1 .. Len(y) /\ k + 1 = Len(x) + r
      BY <1>1, <3>1, <3>3
    <3>5. y[r].t \in {"num", "str"}
      BY <3>3
    <3> HIDE DEF r
    <3>6. z[Len(x) + r] = y[r]
      BY <1>3, <3>4
    <3>7. k + 1 <= Len(z)
      BY <1>1, <1>3, <3>4
    <3> QED
      BY <3>4, <3>5, <3>6, <3>7
  <2> QED
    BY <1>1, <2>1, <2>2
<1>5. Shaped(z)
  BY <1>2, <1>4 DEF Shaped
<1>6. Unquoted(x) /\ Unquoted(y) => Unquoted(z)
  BY <1>2 DEF Unquoted
<1> QED
  BY <1>5, <1>6 DEF z

LEMMA DataPieceIs ==
  ASSUME NEW b, NEW n \in Nat, Dis!FileLength(b) = n, NEW i \in 0 .. n, i # n, NumbersFrom(b, i, n)
  PROVE  LET x == DataPiece(b, i) IN
         /\ Shaped(x)
         /\ Faithful(b, i, n) => Spread(x) = Part(b, i, After(b, i)) /\ Unquoted(x)
<1> DEFINE str == [t |-> "str", chars |-> Dis!Chars(b, i)]
           num == [t |-> "num", v |-> Dis!Datum(b, i)]
<1>1. CASE Dis!IsString(b, i)
  <2>1. /\ IsItem(str) /\ IsSeq(str.chars) /\ str.t = "str"
        /\ Faithful(b, i, n) => QUOTE \notin Items(str.chars)
        /\ ItemWords(str) = Part(b, i, After(b, i))
    BY <1>1, StringIs
  <2>2. DataPiece(b, i) = <<[t |-> "blank"], str>> \o Dis!nl
    BY <1>1 DEF DataPiece, DataLine
  <2> HIDE DEF str
  <2> QED
    BY <2>1, <2>2, PieceIs
<1>2. CASE ~Dis!IsString(b, i)
  <2>1. IsItem(num) /\ num.t = "num" /\ (Faithful(b, i, n) => ItemWords(num) = Part(b, i, After(b, i)))
    BY <1>2, NumberIs
  <2>2. DataPiece(b, i) = <<[t |-> "blank"], num>> \o Dis!nl
    BY <1>2 DEF DataPiece, DataLine
  <2> HIDE DEF num
  <2> QED
    BY <2>1, <2>2, PieceIs
<1> QED
  BY <1>1, <1>2

LEMMA DataListed ==
  ASSUME NEW b, NEW n \in Nat, Dis!FileLength(b) = n, NEW d \in 0 .. n, NumbersFrom(b, d, n),
         NEW lines, \A i \in 0 .. n : DataFrom(b, n, lines, i),
         \A i \in 0 .. n : i # n => After(b, i) \in i + 1 .. n
  PROVE  /\ Shaped(lines[d])
         /\ Faithful(b, d, n) => Spread(lines[d]) = Part(b, d, n) /\ Unquoted(lines[d])
<1> DEFINE Good(i) == /\ Shaped(lines[i])
                      /\ Faithful(b, i, n) => Spread(lines[i]) = Part(b, i, n) /\ Unquoted(lines[i])
           S == {i \in d .. n : Good(i)}
<1>1. n \in S
  <2>1. n \in d .. n /\ n \in 0 .. n
    OBVIOUS
  <2>2. lines[n] = <<>>
    BY <2>1 DEF DataFrom
  <2>3. Part(b, n, n) = <<>>
    <3>1. n <= n
      OBVIOUS
    <3> QED
      BY <3>1, PartIs
  <2>4. Shaped(<<>>) /\ Unquoted(<<>>)
    BY ShortSources, ItemsJoin, EmptyIsSeq DEF Shaped, Unquoted
  <2> QED
    BY <2>1, <2>2, <2>3, <2>4, SpreadOne
<1>2. ASSUME NEW i \in d .. n, i # n, \A j \in i + 1 .. n : j \in S
      PROVE  i \in S
  <2> DEFINE q == After(b, i)
             x == DataPiece(b, i)
             y == lines[q]
  <2>1. i \in 0 .. n /\ q \in i + 1 .. n /\ i \in Nat
    <3>1. i \in 0 .. n
      OBVIOUS
    <3> QED
      BY <1>2, <3>1
  <2>2. Good(q)
    BY <1>2, <2>1
  <2>3. NumbersFrom(b, i, n) /\ (Faithful(b, i, n) => Faithful(b, q, n))
    BY <2>1 DEF NumbersFrom, Faithful
  <2>4. /\ Shaped(x)
        /\ Faithful(b, i, n) => Spread(x) = Part(b, i, q) /\ Unquoted(x)
    BY <1>2, <2>1, <2>3, DataPieceIs
  <2>5. lines[i] = x \o y
    BY <1>2, <2>1 DEF DataFrom, DataPiece
  <2>6. q \in Nat /\ i <= q /\ q <= n
    BY <2>1
  <2>7. /\ Shaped(y)
        /\ Faithful(b, q, n) => Spread(y) = Part(b, q, n) /\ Unquoted(y)
    BY <2>2
  <2> HIDE DEF q, x, y
  <2>8. Shaped(x \o y) /\ (Unquoted(x) /\ Unquoted(y) => Unquoted(x \o y))
    BY <2>4, <2>7, ShapedJoin
  <2>9. Spread(x \o y) = Spread(x) \o Spread(y)
    BY <2>4, <2>7, SpreadJoin DEF Shaped
  <2>10. Part(b, i, q) \o Part(b, q, n) = Part(b, i, n)
    BY <2>1, <2>6, PartsJoin
  <2>11. Good(i)
    BY <2>3, <2>4, <2>5, <2>7, <2>8, <2>9, <2>10
  <2> QED
    BY <2>11
<1> HIDE DEF S
<1>3. \A i \in d .. n : i \in S
  BY <1>1, <1>2, ReachedBack
<1>4. d \in S
  BY <1>3
<1> QED
  BY <1>4 DEF S
-----------------------------------------------------------------------------
(* A source of the shape of a listing: code without operands that are      *)
(* names, .data after m items, and no separators at the end of a line.     *)
Listing(s, m) ==
  /\ Scanned(s) /\ m \in 0 .. Len(s)
  /\ \A k \in 1 .. m : CodeTyped(s[k])
  /\ m < Len(s) => s[m + 1].t = ".data"
  /\ \A k \in m + 2 .. Len(s) :
       /\ s[k].t \in {"blank", "num", "str", "nl"}
       /\ s[k].t = "blank" => k + 1 <= Len(s) /\ s[k + 1].t \in {"num", "str"}
Plainest(s, m) ==
  /\ \A k \in 1 .. m : Plainly(s[k])
  /\ \A k \in m + 2 .. Len(s) : s[k].t = "str" => QUOTE \notin Items(s[k].chars)

LEMMA ListingData ==
  ASSUME NEW s, NEW m, Listing(s, m)
  PROVE  /\ IsSource(s) /\ Len(s) \in Nat /\ DOMAIN s = 1 .. Len(s) /\ m \in Nat
         /\ A!Data(s) = m + 1 /\ (A!HasData(s) <=> m < Len(s))
<1>1. IsSource(s) /\ m \in 0 .. Len(s)
  BY DEF Listing, Scanned
<1>2. /\ Len(s) \in Nat /\ DOMAIN s = 1 .. Len(s)
      /\ A!Data(s) \in 1 .. Len(s) + 1
      /\ A!HasData(s) <=> A!Data(s) <= Len(s)
      /\ A!Data(s) <= Len(s) => s[A!Data(s)].t = ".data"
      /\ \A k \in 1 .. Len(s) : k < A!Data(s) => s[k].t # ".data"
  BY <1>1, SourceFacts
<1> DEFINE d == A!Data(s)
<1>3. ~(d < m + 1)
  <2>1. SUFFICES ASSUME d < m + 1
                 PROVE  FALSE
    OBVIOUS
  <2>2. d \in 1 .. m /\ d <= Len(s)
    BY <1>1, <1>2, <2>1
  <2>3. s[d].t = ".data"
    BY <1>2, <2>2
  <2> HIDE DEF d
  <2> QED
    BY <2>2, <2>3 DEF Listing, CodeTyped
<1>4. ~(d > m + 1)
  <2>1. SUFFICES ASSUME d > m + 1
                 PROVE  FALSE
    OBVIOUS
  <2> DEFINE k == m + 1
  <2>2. k \in 1 .. Len(s) /\ k < d /\ m < Len(s)
    BY <1>1, <1>2, <2>1
  <2>3. s[k].t = ".data"
    BY <2>2 DEF Listing
  <2> HIDE DEF k
  <2> QED
    BY <1>2, <2>2, <2>3
<1> QED
  BY <1>1, <1>2, <1>3, <1>4

LEMMA ListingWords ==
  ASSUME NEW s, NEW m, Listing(s, m), NEW k \in 1 .. Len(s)
  PROVE  A!Words(s, k) = ItemWords(s[k])
<1>1. /\ IsSource(s) /\ Len(s) \in Nat /\ DOMAIN s = 1 .. Len(s) /\ m \in Nat
      /\ A!Data(s) = m + 1 /\ (A!HasData(s) <=> m < Len(s))
  BY ListingData
<1>2. ASSUME NEW j \in m + 2 .. Len(s)
      PROVE  ~A!EndsBlank(s, j)
  <2>1. SUFFICES ASSUME A!EndsBlank(s, j)
                 PROVE  FALSE
    OBVIOUS
  <2>2. s[j].t = "blank" /\ (j < Len(s) => s[j + 1].t = "nl")
    BY <2>1 DEF A!EndsBlank
  <2>3. j + 1 <= Len(s) /\ s[j + 1].t \in {"num", "str"}
    BY <2>2 DEF Listing
  <2> QED
    BY <1>1, <2>2, <2>3
<1>3. CASE k <= m
  <2>1. k < A!Data(s) /\ k \in 1 .. m
    BY <1>1, <1>3
  <2>2. A!Words(s, k) = IF s[k].t = "instr" THEN <<Encoded(s[k])>> ELSE <<>>
    BY <2>1, CodeLays
  <2>3. s[k].t \in {"nl", "label", "instr", "junk"}
    BY <2>1 DEF Listing, CodeTyped
  <2> QED
    BY <2>2, <2>3 DEF ItemWords
<1>4. CASE k = m + 1
  <2>1. k \in A!Data(s) .. Len(s) /\ s[k].t = ".data"
    BY <1>1, <1>4 DEF Listing
  <2>2. A!Words(s, k) = <<>>
    BY <1>1, <2>1, DataLays
  <2> QED
    BY <2>1, <2>2 DEF ItemWords
<1>5. CASE k > m + 1
  <2>1. k \in A!Data(s) .. Len(s) /\ k \in m + 2 .. Len(s)
    BY <1>1, <1>5
  <2>2. s[k].t \in {"blank", "num", "str", "nl"} /\ ~A!EndsBlank(s, k)
    BY <1>2, <2>1 DEF Listing
  <2>3. ~A!BlankZero(s, k)
    BY <2>2 DEF A!BlankZero
  <2>4. ~A!Spilled(s, k)
    <3>1. SUFFICES ASSUME A!Spilled(s, k)
                   PROVE  FALSE
      OBVIOUS
    <3>2. PICK j \in A!Data(s) + 1 .. k - 1 : A!EndsBlank(s, j)
      BY <3>1 DEF A!Spilled
    <3>3. j \in m + 2 .. Len(s)
      BY <1>1, <3>2
    <3> QED
      BY <1>2, <3>2, <3>3
  <2>5. /\ s[k].t \notin {"num", "dbl", "str", "blank"} => A!Words(s, k) = <<>>
        /\ s[k].t = "blank" /\ ~A!BlankZero(s, k) => A!Words(s, k) = <<>>
        /\ s[k].t \in {"num", "dbl", "str"} /\ ~A!Spilled(s, k) => A!Words(s, k) = DataWords(s[k])
    BY <1>1, <2>1, DataLays
  <2> QED
    BY <2>2, <2>3, <2>4, <2>5 DEF ItemWords
<1> QED
  BY <1>1, <1>3, <1>4, <1>5

LEMMA ListingAddresses ==
  ASSUME NEW s, NEW m, Listing(s, m), NEW k \in 1 .. Len(s) + 1
  PROVE  /\ Before(s, k) = Flat(Each(s), k - 1)
         /\ A!Address(s, k) = HEADER_LEN + Len(Flat(Each(s), k - 1))
<1>1. /\ IsSource(s) /\ Len(s) \in Nat /\ DOMAIN s = 1 .. Len(s)
  BY ListingData
<1> DEFINE n == k - 1
<1>2. n \in Nat /\ n <= Len(s)
  BY <1>1
<1>3. A!Address(s, k) = HEADER_LEN + Len(Before(s, k))
  BY <1>1, Addresses
<1>4. ASSUME NEW j \in 1 .. n
      PROVE  Worded(s)[j] = Each(s)[j]
  <2>1. j \in 1 .. Len(s) /\ j \in DOMAIN s
    BY <1>1, <1>2
  <2>2. A!Words(s, j) = ItemWords(s[j])
    BY <2>1, ListingWords
  <2> QED
    BY <2>1, <2>2 DEF Worded, Each
<1>5. Before(s, k) = Flat(Worded(s), n)
  BY DEF Before
<1> HIDE DEF n
<1>6. Flat(Worded(s), n) = Flat(Each(s), n)
  BY <1>2, <1>4, FlatSame
<1> QED
  BY <1>3, <1>5, <1>6 DEF n

LEMMA ListingAccepted ==
  ASSUME NEW s, NEW m, Listing(s, m), Plainest(s, m)
  PROVE  A!Accepted(s) /\ A!Body(s) = Spread(s) \o Tail_(s)
<1>1. /\ IsSource(s) /\ Len(s) \in Nat /\ DOMAIN s = 1 .. Len(s) /\ m \in Nat
      /\ A!Data(s) = m + 1
  BY ListingData
<1>2. ASSUME NEW k \in 1 .. Len(s)
      PROVE  GoodItem(s, k) /\ A!Resolved(s, k) = ItemWords(s[k])
  <2>1. A!Words(s, k) = ItemWords(s[k])
    BY ListingWords
  <2>2. CASE k <= m
    <3>1. k \in 1 .. m /\ A!InCode(s, k) /\ k # A!Data(s)
      BY <1>1, <2>2 DEF A!InCode
    <3>2. CodeTyped(s[k]) /\ Plainly(s[k])
      BY <3>1 DEF Listing, Plainest
    <3>3. /\ s[k].t \in {"nl", "label", "instr"}
          /\ s[k].t = "instr" => Parses(s[k]) /\ ~("ref" \in DOMAIN s[k])
      BY <3>2 DEF CodeTyped, Plainly, Names
    <3>4. A!CodeItem(s, k)
      BY <3>3 DEF A!CodeItem
    <3>5. A!Resolved(s, k) = A!Words(s, k)
      BY <3>3 DEF A!Resolved
    <3> QED
      BY <2>1, <3>1, <3>4, <3>5 DEF GoodItem
  <2>3. CASE k = m + 1
    <3>1. k = A!Data(s) /\ ~A!InCode(s, k)
      BY <1>1, <2>3 DEF A!InCode
    <3>2. A!Resolved(s, k) = A!Words(s, k)
      BY <3>1 DEF A!Resolved
    <3> QED
      BY <2>1, <3>1, <3>2 DEF GoodItem
  <2>4. CASE k > m + 1
    <3>1. k \in m + 2 .. Len(s) /\ ~A!InCode(s, k)
      BY <1>1, <2>4 DEF A!InCode
    <3>2. /\ s[k].t \in {"blank", "num", "str", "nl"}
          /\ s[k].t = "str" => QUOTE \notin Items(s[k].chars)
      BY <3>1 DEF Listing, Plainest
    <3>3. A!DataItem(s, k)
      <4>1. s[k].t = "str" => QUOTE \notin A!ToSet(s[k].chars)
        BY <3>2 DEF Items, A!ToSet
      <4> QED
        BY <3>2, <4>1 DEF A!DataItem
    <3>4. A!Resolved(s, k) = A!Words(s, k)
      BY <3>1 DEF A!Resolved
    <3> QED
      BY <2>1, <3>1, <3>3, <3>4 DEF GoodItem
  <2> QED
    BY <1>1, <2>2, <2>3, <2>4
<1>3. A!Accepted(s)
  BY <1>1, <1>2, AcceptedIs
<1>4. A!Body(s) = Flat(ResolvedAll(s), Len(s)) \o Tail_(s)
  BY <1>1, BodyIs
<1>5. Flat(ResolvedAll(s), Len(s)) = Flat(Each(s), Len(s))
  <2>1. \A j \in 1 .. Len(s) : ResolvedAll(s)[j] = Each(s)[j]
    BY <1>1, <1>2 DEF ResolvedAll, Each
  <2> QED
    BY <1>1, <2>1, FlatSame
<1> QED
  BY <1>3, <1>4, <1>5 DEF Spread
-----------------------------------------------------------------------------
(* What is known of a binary, by name.                                     *)
LEMMA WellBuiltIs ==
  ASSUME NEW b, WellBuilt(b)
  PROVE  LET n == Len(b)
             c == Dis!CodeEnd(b)
             e == Dis!Entry(b)
             off == Dis!DataOffset(b)
         IN  /\ IsSeq(b) /\ n \in Nat /\ Dis!FileLength(b) = n
             /\ c \in Nat /\ 5 <= c /\ c <= n /\ e \in Nat /\ 5 <= e
             /\ b[1] = Magic /\ b[2] = Word(n) /\ b[3] = Word(e) /\ b[5] = Word(off)
             /\ off > 0 \/ off = 0
             /\ off > 0 => c = off
             /\ off = 0 => c = n
             /\ \A k \in 6 .. c : IsInstr(b[k])
             /\ NumbersFrom(b, c, n)
<1> DEFINE n == Len(b)
<1>1. IsSeq(b) /\ n \in Nat /\ HEADER_LEN <= n /\ b[2] = Word(n)
  BY SeqFacts DEF WellBuilt, IsBinary
<1>2. PICK d \in {0} \cup HEADER_LEN .. Len(b) : b[5] = Word(d)
  BY DEF WellBuilt, IsBinary
<1>3. PICK e \in Nat : HEADER_LEN <= e /\ b[3] = Word(e)
  BY DEF WellBuilt
<1>4. Dis!FileLength(b) = n /\ Dis!DataOffset(b) = d /\ Dis!Entry(b) = e
  BY <1>1, <1>2, <1>3 DEF Word, Dis!FileLength, Dis!DataOffset, Dis!Entry
<1> DEFINE c == Dis!CodeEnd(b)
<1>5. /\ c \in Nat /\ 5 <= c /\ c <= n
      /\ d > 0 \/ d = 0
      /\ d > 0 => c = d
      /\ d = 0 => c = n
  BY <1>1, <1>2, <1>4 DEF Dis!CodeEnd, HEADER_LEN
<1>6. \A k \in 6 .. c : IsInstr(b[k])
  <2>1. HEADER_LEN + 1 = 6
    BY DEF HEADER_LEN
  <2> QED
    BY <2>1 DEF WellBuilt
<1>7. \A k \in c + 1 .. n : \E x \in Nat : b[k] = Word(x)
  BY DEF WellBuilt
<1> HIDE DEF n, c
<1>8. NumbersFrom(b, c, n)
  <2>1. ASSUME NEW j \in c .. n - 1
        PROVE  Dis!Datum(b, j) \in Nat /\ b[j + 1] = Word(Dis!Datum(b, j))
    <3>1. j + 1 \in c + 1 .. n
      BY <1>1, <1>5
    <3>2. PICK x \in Nat : b[j + 1] = Word(x)
      BY <1>7, <3>1
    <3> QED
      BY <3>2 DEF Dis!Datum, Word
  <2> QED
    BY <2>1 DEF NumbersFrom
<1> QED
  <2>1. b[1] = Magic
    BY DEF WellBuilt
  <2> QED
    BY <1>1, <1>2, <1>3, <1>4, <1>5, <1>6, <1>8, <2>1 DEF n, c, HEADER_LEN

(* The code of a listing, up to the label and in all.                      *)
Labelled_(code, front) ==
  /\ Len(front) + 1 <= Len(code) /\ \A k \in 1 .. Len(front) : code[k] = front[k]
  /\ \A k \in 1 .. Len(code) : code[k].t = "label" <=> k = Len(front) + 1

LEMMA CodePartIs ==
  ASSUME NEW b, WellBuilt(b)
  PROVE  LET code == Dis!CodeLines(b)
             c == Dis!CodeEnd(b)
             e == Dis!Entry(b)
         IN  /\ IsSource(code) /\ \A it \in Items(code) : CodeTyped(it)
             /\ Finite(b) => Spread(code) = Part(b, 5, c) /\ \A it \in Items(code) : Plainly(it)
             /\ IF e < c
                THEN \E front : /\ IsSource(front) /\ Labelled_(code, front)
                                /\ Finite(b) => Spread(front) = Part(b, 5, e)
                ELSE \A k \in 1 .. Len(code) : code[k].t # "label"
<1> DEFINE c == Dis!CodeEnd(b)
           e == Dis!Entry(b)
           code == Dis!CodeLines(b)
<1>1. /\ c \in Nat /\ 5 <= c /\ e \in Nat /\ 5 <= e
      /\ \A k \in 6 .. c : IsInstr(b[k])
  BY WellBuiltIs
<1>2. Finite(b) => \A k \in 6 .. c : b[k].op = "FI" => b[k].imm \notin Infinite
  <2>1. HEADER_LEN + 1 = 6
    BY DEF HEADER_LEN
  <2> QED
    BY <2>1 DEF Finite
<1>3. Dis!CodeEnd(b) = c /\ Dis!Entry(b) = e
  OBVIOUS
<1> HIDE DEF c, e
<1>4. PICK lines : code = lines[c] /\ \A i \in 0 .. c : CodeUpTo(b, lines, i)
  BY <1>1, <1>3, CodeLinesAre
<1>5. \A i \in 5 .. c :
        /\ IsSource(lines[i]) /\ \A it \in Items(lines[i]) : CodeTyped(it)
        /\ Marked(lines, e, i)
        /\ (\A k \in 6 .. c : b[k].op = "FI" => b[k].imm \notin Infinite) =>
             Spread(lines[i]) = Part(b, 5, i) /\ \A it \in Items(lines[i]) : Plainly(it)
  BY <1>1, <1>3, <1>4, CodeListed
<1> HIDE DEF code
<1>6. /\ IsSource(code) /\ \A it \in Items(code) : CodeTyped(it)
      /\ Marked(lines, e, c)
      /\ Finite(b) => Spread(code) = Part(b, 5, c) /\ \A it \in Items(code) : Plainly(it)
  <2>1. c \in 5 .. c
    BY <1>1
  <2> QED
    BY <1>2, <1>4, <1>5, <2>1
<1>7. CASE e < c
  <2>1. e \in 5 .. c /\ c > e
    BY <1>1, <1>7
  <2>2. IsSource(lines[e]) /\ (Finite(b) => Spread(lines[e]) = Part(b, 5, e))
    BY <1>2, <1>5, <2>1
  <2>3. Labelled_(code, lines[e])
    BY <1>4, <1>6, <2>1 DEF Marked, Labelled_
  <2> QED
    BY <1>6, <1>7, <2>2, <2>3 DEF c, e, code
<1>8. CASE ~(e < c)
  <2>1. c <= e
    BY <1>1, <1>8
  <2>2. \A k \in 1 .. Len(code) : code[k].t # "label"
    BY <1>4, <1>6, <2>1 DEF Marked
  <2> QED
    BY <1>6, <1>8, <2>2 DEF c, e, code
<1> QED
  BY <1>7, <1>8

LEMMA DataPartIs ==
  ASSUME NEW b, WellBuilt(b)
  PROVE  LET data == Dis!DataLines(b)
             c == Dis!CodeEnd(b)
         IN  Dis!DataOffset(b) > 0 =>
               /\ Shaped(data)
               /\ Faithful(b, c, Len(b)) => Spread(data) = Part(b, c, Len(b)) /\ Unquoted(data)
<1> DEFINE n == Len(b)
           c == Dis!CodeEnd(b)
<1>1. SUFFICES ASSUME Dis!DataOffset(b) > 0
               PROVE  /\ Shaped(Dis!DataLines(b))
                      /\ Faithful(b, c, n) => /\ Spread(Dis!DataLines(b)) = Part(b, c, n)
                                              /\ Unquoted(Dis!DataLines(b))
  OBVIOUS
<1>2. /\ n \in Nat /\ Dis!FileLength(b) = n /\ c \in Nat /\ c <= n
      /\ Dis!DataOffset(b) = c /\ NumbersFrom(b, c, n)
  BY <1>1, WellBuiltIs
<1> HIDE DEF n, c
<1>3. c \in 0 .. n /\ Dis!DataOffset(b) \in 0 .. n
  BY <1>2
<1>4. /\ \A i \in 0 .. n : i # n => /\ After(b, i) \in i + 1 .. n
                                    /\ Dis!IsString(b, i) => IsSeq(Dis!Chars(b, i))
      /\ \E lines : /\ Dis!DataLines(b) = lines[Dis!DataOffset(b)]
                    /\ \A i \in 0 .. n : DataFrom(b, n, lines, i)
  BY <1>2, <1>3, DataLinesAre
<1>5. PICK lines : /\ Dis!DataLines(b) = lines[c]
                   /\ \A i \in 0 .. n : DataFrom(b, n, lines, i)
  BY <1>2, <1>4
<1>6. \A i \in 0 .. n : i # n => After(b, i) \in i + 1 .. n
  BY <1>4
<1>7. /\ Shaped(lines[c])
      /\ Faithful(b, c, n) => Spread(lines[c]) = Part(b, c, n) /\ Unquoted(lines[c])
  BY <1>2, <1>3, <1>5, <1>6, DataListed
<1> QED
  BY <1>5, <1>7

LEMMA DotDataIs ==
  LET dot == <<[t |-> ".data"]>> \o Dis!nl IN
  /\ IsSource(dot) /\ Len(dot) = 2 /\ dot[1].t = ".data" /\ dot[2].t = "nl" /\ Spread(dot) = <<>>
  /\ \A it \in Items(dot) : IsItem(it)
<1> DEFINE x == [t |-> ".data"]
           u == <<x>>
           new == Dis!nl
           dot == u \o new
<1>1. x.t = ".data"
  OBVIOUS
<1> HIDE DEF x
<1>2. IsItem(x) /\ ItemWords(x) = <<>>
  BY <1>1, ItemIs DEF ItemWords
<1>3. IsSource(u) /\ Len(u) = 1 /\ u[1] = x /\ Items(u) = {x} /\ Spread(u) = <<>>
  <2>1. x.t = "str" => IsSeq(x.chars)
    BY <1>1
  <2>2. IsSource(u)
    BY <2>1, ShortSources
  <2>3. Spread(u) = ItemWords(x)
    BY <2>1, SpreadOne
  <2>4. Items(u) = {x}
    BY ItemsJoin
  <2> QED
    BY <1>2, <2>2, <2>3, <2>4, OneIsSeq
<1>4. /\ IsSource(new) /\ Len(new) = 1 /\ new[1].t = "nl" /\ Spread(new) = <<>>
      /\ \A e \in Items(new) : IsItem(e)
  BY NewlineIs DEF CodeTyped
<1> HIDE DEF u, new
<1>5. IsSeq(u) /\ IsSeq(new)
  BY <1>3, <1>4 DEF IsSource
<1>6. IsSource(dot) /\ Items(dot) = Items(u) \cup Items(new) /\ Spread(dot) = Spread(u) \o Spread(new)
  BY <1>3, <1>4, <1>5, JoinedSources, ItemsJoin, SpreadJoin
<1>7. /\ Len(dot) = Len(u) + Len(new)
      /\ \A k \in 1 .. Len(u) : dot[k] = u[k]
      /\ \A k \in 1 .. Len(new) : dot[Len(u) + k] = new[k]
  BY <1>5, ConcatIsSeq
<1>8. <<>> \o <<>> = <<>>
  OBVIOUS
<1> HIDE DEF dot
<1>9. Len(dot) = 2 /\ dot[1].t = ".data" /\ dot[2].t = "nl" /\ Spread(dot) = <<>>
  BY <1>1, <1>3, <1>4, <1>6, <1>7, <1>8
<1>10. \A it \in Items(dot) : IsItem(it)
  BY <1>2, <1>3, <1>4, <1>6
<1> QED
  BY <1>6, <1>9, <1>10 DEF dot, u, x, new
-----------------------------------------------------------------------------
(* What disassembling a finished binary lists.                             *)
LEMMA ListingIs ==
  ASSUME NEW b, WellBuilt(b)
  PROVE  LET s == Dis!disassemble(b)
             code == Dis!CodeLines(b)
             m == Len(code)
             c == Dis!CodeEnd(b)
             n == Len(b)
         IN  /\ Listing(s, m) /\ (m < Len(s) <=> Dis!DataOffset(b) > 0)
             /\ \A k \in 1 .. m : s[k] = code[k]
             /\ Finite(b) /\ Faithful(b, c, n) => Plainest(s, m) /\ Spread(s) = Part(b, 5, n)
<1> DEFINE s == Dis!disassemble(b)
           code == Dis!CodeLines(b)
           data == Dis!DataLines(b)
           dot == <<[t |-> ".data"]>> \o Dis!nl
           c == Dis!CodeEnd(b)
           n == Len(b)
           off == Dis!DataOffset(b)
           t == dot \o data
           m == Len(code)
           fine == Finite(b) /\ Faithful(b, c, n)
<1>1. /\ n \in Nat /\ c \in Nat /\ 5 <= c /\ c <= n /\ (off > 0 \/ off = 0)
      /\ off = 0 => c = n
  BY WellBuiltIs
<1>2. /\ IsSource(code) /\ \A it \in Items(code) : CodeTyped(it)
      /\ Finite(b) => Spread(code) = Part(b, 5, c) /\ \A it \in Items(code) : Plainly(it)
  BY CodePartIs
<1>3. off > 0 => /\ Shaped(data)
                 /\ Faithful(b, c, n) => Spread(data) = Part(b, c, n) /\ Unquoted(data)
  BY DataPartIs
<1>4. /\ IsSource(dot) /\ Len(dot) = 2 /\ dot[1].t = ".data" /\ dot[2].t = "nl" /\ Spread(dot) = <<>>
      /\ \A it \in Items(dot) : IsItem(it)
  BY DotDataIs
<1>5. s = code \o (IF off > 0 THEN t ELSE <<>>)
  BY DEF Dis!disassemble
<1> HIDE DEF s, code, data, dot, off
<1>6. /\ IsSeq(code) /\ m \in Nat /\ DOMAIN code = 1 .. m
      /\ IsSeq(dot)
  BY <1>2, <1>4, SeqFacts DEF IsSource
<1>7. \A k \in 1 .. m : code[k] \in Items(code)
  BY <1>6 DEF Items
<1> HIDE DEF m, c, n
<1>8. CASE off = 0
  <2>1. s = code
    <3>1. code \o <<>> = code
      BY <1>6, Joins
    <3>2. ~(off > 0)
      BY <1>8
    <3> QED
      BY <1>5, <3>1, <3>2
  <2>2. /\ Scanned(s) /\ Len(s) = m /\ DOMAIN s = 1 .. m
        /\ \A k \in 1 .. m : CodeTyped(s[k])
    BY <1>2, <1>6, <1>7, <2>1 DEF Scanned, CodeTyped, m
  <2>3. Listing(s, m)
    BY <1>6, <2>2 DEF Listing
  <2>4. fine => Plainest(s, m) /\ Spread(s) = Part(b, 5, n)
    <3>1. SUFFICES ASSUME fine
                   PROVE  Plainest(s, m) /\ Spread(s) = Part(b, 5, n)
      OBVIOUS
    <3>2. Spread(s) = Part(b, 5, n)
      BY <1>1, <1>2, <1>8, <2>1, <3>1
    <3>3. \A k \in 1 .. m : Plainly(s[k])
      BY <1>2, <1>7, <2>1, <3>1
    <3>4. \A k \in m + 2 .. Len(s) : FALSE
      BY <1>6, <2>2
    <3> QED
      BY <3>2, <3>3, <3>4 DEF Plainest
  <2>5. ~(m < Len(s)) /\ ~(off > 0) /\ \A k \in 1 .. m : s[k] = code[k]
    BY <1>6, <1>8, <2>1, <2>2
  <2> QED
    BY <2>3, <2>4, <2>5 DEF s, code, m, c, n, off
<1>9. CASE off > 0
  <2>1. Shaped(data) /\ (Faithful(b, c, n) => Spread(data) = Part(b, c, n) /\ Unquoted(data))
    BY <1>3, <1>9
  <2>2. IsSource(data) /\ IsSeq(data) /\ Len(data) \in Nat /\ DOMAIN data = 1 .. Len(data)
    BY <2>1, SeqFacts DEF Shaped, IsSource
  <2>3. /\ IsSource(t) /\ IsSeq(t) /\ Len(t) = 2 + Len(data)
        /\ \A k \in 1 .. 2 : t[k] = dot[k]
        /\ \A k \in 1 .. Len(data) : t[2 + k] = data[k]
    <3>1. /\ IsSeq(t) /\ Len(t) = Len(dot) + Len(data)
          /\ \A k \in 1 .. Len(dot) : t[k] = dot[k]
          /\ \A k \in 1 .. Len(data) : t[Len(dot) + k] = data[k]
      BY <1>6, <2>2, ConcatIsSeq
    <3>2. IsSource(t)
      BY <1>4, <2>2, JoinedSources
    <3> HIDE DEF t
    <3> QED
      BY <1>4, <3>1, <3>2
  <2>4. Spread(t) = Spread(dot) \o Spread(data)
    BY <1>4, <2>2, SpreadJoin
  <2> HIDE DEF t
  <2>5. s = code \o t
    BY <1>5, <1>9
  <2>6. /\ IsSource(s) /\ Len(s) = m + Len(t)
        /\ \A k \in 1 .. m : s[k] = code[k]
        /\ \A k \in 1 .. Len(t) : s[m + k] = t[k]
    <3>1. /\ Len(code \o t) = Len(code) + Len(t)
          /\ \A k \in 1 .. Len(code) : (code \o t)[k] = code[k]
          /\ \A k \in 1 .. Len(t) : (code \o t)[Len(code) + k] = t[k]
      <4>1. IsSeq(code) /\ IsSeq(t)
        BY <1>6, <2>3
      <4> QED
        BY <4>1, ConcatIsSeq
    <3>2. IsSource(code \o t)
      BY <1>2, <2>3, JoinedSources
    <3> QED
      BY <2>5, <3>1, <3>2 DEF m
  <2>7. Len(s) = m + 2 + Len(data) /\ m + 1 <= Len(s) /\ m < Len(s)
    BY <1>6, <2>2, <2>3, <2>6
  <2>8. s[m + 1].t = ".data" /\ IsItem(s[m + 1]) /\ s[m + 2].t = "nl" /\ IsItem(s[m + 2])
    <3>1. dot[1] \in Items(dot) /\ dot[2] \in Items(dot)
      <4>1. 1 \in DOMAIN dot /\ 2 \in DOMAIN dot
        BY <1>4, <1>6, SeqFacts
      <4> QED
        BY <4>1 DEF Items
    <3>2. 1 \in 1 .. 2 /\ 2 \in 1 .. 2 /\ 1 \in 1 .. Len(t) /\ 2 \in 1 .. Len(t)
      BY <2>2, <2>3
    <3>3. s[m + 1] = dot[1] /\ s[m + 2] = dot[2]
      BY <2>3, <2>6, <3>2
    <3> QED
      BY <1>4, <3>1, <3>3
  <2>9. ASSUME NEW k \in m + 3 .. Len(s)
        PROVE  /\ DataTyped(s[k])
               /\ s[k].t = "blank" => k + 1 <= Len(s) /\ s[k + 1].t \in {"num", "str"}
               /\ Unquoted(data) => (s[k].t = "str" => QUOTE \notin Items(s[k].chars))
    <3> DEFINE q == k - m - 2
               r == q + 1
    <3>1. q \in 1 .. Len(data) /\ k = m + (2 + q) /\ 2 + q \in 1 .. Len(t)
      BY <1>6, <2>2, <2>3, <2>7
    <3>2. r \in Nat /\ k + 1 = m + (2 + r) /\ r = q + 1
      BY <1>6, <3>1
    <3> HIDE DEF q
    <3>3. s[k] = data[q]
      BY <2>3, <2>6, <3>1
    <3>4. data[q] \in Items(data)
      BY <2>2, <3>1 DEF Items
    <3>5. data[q].t = "blank" => q + 1 <= Len(data) /\ data[q + 1].t \in {"num", "str"}
      BY <2>1, <3>1 DEF Shaped
    <3>6. DataTyped(data[q]) /\ (Unquoted(data) => (data[q].t = "str" => QUOTE \notin Items(data[q].chars)))
      BY <2>1, <3>4 DEF Shaped, Unquoted
    <3>7. ASSUME s[k].t = "blank"
          PROVE  k + 1 <= Len(s) /\ s[k + 1].t \in {"num", "str"}
      <4>1. r <= Len(data) /\ data[r].t \in {"num", "str"}
        BY <3>3, <3>5, <3>7
      <4> HIDE DEF r
      <4>2. r \in 1 .. Len(data) /\ 2 + r \in 1 .. Len(t) /\ k + 1 <= Len(s)
        <5>1. m \in Nat /\ Len(data) \in Nat /\ Len(t) = 2 + Len(data) /\ Len(s) = m + 2 + Len(data)
          BY <1>6, <2>2, <2>3, <2>7
        <5>2. q \in 1 .. Len(data) /\ r = q + 1 /\ k + 1 = m + (2 + r) /\ r <= Len(data)
          BY <3>1, <3>2, <4>1
        <5> QED
          BY <5>1, <5>2
      <4>3. s[k + 1] = data[r]
        BY <2>3, <2>6, <3>2, <4>2
      <4> QED
        BY <4>1, <4>2, <4>3
    <3> QED
      BY <3>3, <3>6, <3>7
  <2>10. ASSUME NEW k \in 1 .. Len(s)
         PROVE  k \in 1 .. m \/ k = m + 1 \/ k = m + 2 \/ k \in m + 3 .. Len(s)
    BY <1>6, <2>7
  <2>11. \A k \in 1 .. m : CodeTyped(s[k])
    BY <1>2, <1>7, <2>6
  <2>12. Scanned(s)
    <3>1. ASSUME NEW k \in DOMAIN s
          PROVE  IsItem(s[k])
      <4>1. k \in 1 .. Len(s)
        BY <2>6, SeqFacts DEF IsSource
      <4> QED
        BY <2>8, <2>9, <2>10, <2>11, <4>1 DEF CodeTyped, DataTyped
    <3> QED
      BY <2>6, <3>1 DEF Scanned
  <2>13. ASSUME NEW k \in m + 2 .. Len(s)
         PROVE  k = m + 2 \/ k \in m + 3 .. Len(s)
    BY <1>6, <2>7
  <2>14. ASSUME NEW k \in m + 2 .. Len(s)
         PROVE  /\ s[k].t \in {"blank", "num", "str", "nl"}
                /\ s[k].t = "blank" => k + 1 <= Len(s) /\ s[k + 1].t \in {"num", "str"}
                /\ Unquoted(data) => (s[k].t = "str" => QUOTE \notin Items(s[k].chars))
    BY <2>8, <2>9, <2>13 DEF DataTyped
  <2>15. Listing(s, m)
    <3>1. m \in 0 .. Len(s)
      BY <1>6, <2>7
    <3> QED
      BY <2>8, <2>11, <2>12, <2>14, <3>1 DEF Listing
  <2>16. fine => Plainest(s, m) /\ Spread(s) = Part(b, 5, n)
    <3>1. SUFFICES ASSUME fine
                   PROVE  Plainest(s, m) /\ Spread(s) = Part(b, 5, n)
      OBVIOUS
    <3>2. Unquoted(data) /\ Spread(data) = Part(b, c, n) /\ Spread(code) = Part(b, 5, c)
      BY <1>2, <2>1, <3>1
    <3>3. Plainest(s, m)
      <4>1. \A k \in 1 .. m : Plainly(s[k])
        BY <1>2, <1>7, <2>6, <3>1
      <4>2. \A k \in m + 2 .. Len(s) : s[k].t = "str" => QUOTE \notin Items(s[k].chars)
        BY <2>14, <3>2
      <4> QED
        BY <4>1, <4>2 DEF Plainest
    <3>4. Spread(s) = Spread(code) \o Spread(t)
      BY <1>2, <2>3, <2>5, SpreadJoin
    <3>5. ASSUME NEW h \in Nat, h <= c
          PROVE  Part(b, h, c) \o Part(b, c, n) = Part(b, h, n)
      <4>1. c \in Nat /\ n \in Nat /\ c <= n
        BY <1>1
      <4> QED
        BY <3>5, <4>1, PartsJoin
    <3>6. IsSeq(Part(b, c, n))
      BY <1>1, PartIs
    <3>7. <<>> \o Part(b, c, n) = Part(b, c, n)
      BY <3>6, Joins
    <3>8. Spread(t) = Part(b, c, n)
      BY <1>4, <2>4, <3>2, <3>7
    <3>9. Part(b, 5, c) \o Part(b, c, n) = Part(b, 5, n)
      BY <1>1, <3>5
    <3> QED
      BY <3>2, <3>3, <3>4, <3>8, <3>9
  <2> QED
    BY <1>9, <2>6, <2>7, <2>15, <2>16 DEF s, code, m, c, n, off
<1> QED
  BY <1>1, <1>8, <1>9
-----------------------------------------------------------------------------
(* What a reassemblable binary is: every word of it is listed faithfully.  *)
LEMMA ReassemblableIs ==
  ASSUME NEW b, WellBuilt(b), Reassemblable(b)
  PROVE  Finite(b) /\ Faithful(b, Dis!CodeEnd(b), Len(b))
<1> DEFINE c == Dis!CodeEnd(b)
           n == Len(b)
<1>1. n \in Nat /\ c \in Nat /\ 5 <= c /\ c <= n /\ HEADER_LEN = 5
  BY WellBuiltIs DEF HEADER_LEN
<1>2. \A k \in HEADER_LEN + 1 .. n :
        IF k <= c THEN b[k].op = "FI" => b[k].imm \notin Infinite
                  ELSE b[k].word <= MaxSigned /\ b[k].word # QUOTE
  BY DEF Reassemblable
<1>3. Dis!CodeEnd(b) = c
  OBVIOUS
<1> HIDE DEF c, n
<1>4. ASSUME NEW k \in HEADER_LEN + 1 .. c
      PROVE  b[k].op = "FI" => b[k].imm \notin Infinite
  <2>1. k \in HEADER_LEN + 1 .. n /\ k <= c
    BY <1>1
  <2> QED
    BY <1>2, <2>1
<1>5. ASSUME NEW j \in c .. n - 1
      PROVE  Dis!Datum(b, j) <= MaxSigned /\ Dis!Datum(b, j) # QUOTE
  <2> DEFINE k == j + 1
  <2>1. k \in HEADER_LEN + 1 .. n /\ ~(k <= c)
    BY <1>1
  <2>2. b[k].word <= MaxSigned /\ b[k].word # QUOTE
    <3> HIDE DEF k
    <3> QED
      BY <1>2, <2>1
  <2> QED
    BY <2>2 DEF Dis!Datum
<1> QED
  BY <1>3, <1>4, <1>5 DEF Finite, Faithful, c, n

LEMMA EntryKept ==
  ASSUME NEW b, WellBuilt(b), Finite(b),
         Dis!Entry(b) < Dis!CodeEnd(b) \/ Dis!Entry(b) = HEADER_LEN
  PROVE  EntryOf(Dis!disassemble(b)) = Dis!Entry(b)
<1> DEFINE s == Dis!disassemble(b)
           code == Dis!CodeLines(b)
           m == Len(code)
           e == Dis!Entry(b)
           c == Dis!CodeEnd(b)
<1>1. /\ IsSource(code) /\ \A it \in Items(code) : CodeTyped(it)
      /\ IF e < c
         THEN \E front : /\ IsSource(front) /\ Labelled_(code, front)
                         /\ Finite(b) => Spread(front) = Part(b, 5, e)
         ELSE \A k \in 1 .. Len(code) : code[k].t # "label"
  BY CodePartIs
<1>2. Listing(s, m) /\ \A k \in 1 .. m : s[k] = code[k]
  BY ListingIs
<1>3. e \in Nat /\ 5 <= e
  BY WellBuiltIs
<1>4. e < c \/ e = HEADER_LEN
  OBVIOUS
<1> HIDE DEF s, code, m, e, c
<1>5. IsSource(s) /\ Len(s) \in Nat /\ DOMAIN s = 1 .. Len(s) /\ m \in Nat /\ m <= Len(s)
  BY <1>2, ListingData DEF Listing
<1>6. DOMAIN code = 1 .. m
  BY <1>1, SeqFacts DEF IsSource, m
<1>7. ASSUME NEW k \in 1 .. Len(s), s[k].t = "label"
      PROVE  k \in 1 .. m /\ code[k].t = "label" /\ s[k].name = "main"
  <2>1. k \in 1 .. m
    <3>1. CASE k = m + 1
      <4>1. m < Len(s)
        BY <1>5, <3>1
      <4> QED
        BY <1>2, <1>7, <3>1, <4>1 DEF Listing
    <3>2. CASE k > m + 1
      <4>1. k \in m + 2 .. Len(s)
        BY <1>5, <3>2
      <4> QED
        BY <1>2, <1>7, <4>1 DEF Listing
    <3> QED
      BY <1>5, <3>1, <3>2
  <2>2. code[k] \in Items(code) /\ s[k] = code[k]
    BY <1>2, <1>6, <2>1 DEF Items
  <2> QED
    BY <1>1, <1>7, <2>1, <2>2 DEF CodeTyped
<1>8. CASE e < c
  <2>1. PICK front : IsSource(front) /\ Labelled_(code, front) /\ Spread(front) = Part(b, 5, e)
    BY <1>1, <1>8
  <2> DEFINE h == Len(front)
             k == h + 1
  <2>2. h \in Nat
    BY <2>1, SeqFacts DEF IsSource
  <2>3. k <= m /\ \A j \in 1 .. m : code[j].t = "label" <=> j = k
    BY <2>1 DEF Labelled_, m
  <2>4. \A j \in 1 .. h : code[j] = front[j]
    BY <2>1 DEF Labelled_
  <2>5. k \in 1 .. m /\ k \in 1 .. Len(s) /\ k \in 1 .. Len(s) + 1 /\ h <= Len(s) /\ k - 1 = h
    BY <1>5, <2>2, <2>3
  <2>6. \A j \in 1 .. h : s[j] = front[j]
    <3>1. ASSUME NEW j \in 1 .. h
          PROVE  s[j] = front[j]
      <4>1. j \in 1 .. m
        BY <1>5, <2>2, <2>3
      <4> QED
        BY <1>2, <2>4, <4>1
    <3> QED
      BY <3>1
  <2> HIDE DEF k
  <2>7. s[k].t = "label" /\ s[k].name = "main"
    <3>1. s[k].t = "label"
      BY <1>2, <2>3, <2>5
    <3> QED
      BY <1>7, <2>5, <3>1
  <2>8. ASSUME NEW j \in 1 .. k - 1
        PROVE  s[j].t # "label"
    <3>1. j \in 1 .. Len(s) /\ j # k /\ j \in 1 .. m
      BY <1>5, <2>5
    <3> QED
      BY <1>7, <2>3, <3>1
  <2>9. A!Target(s, "main") = A!Address(s, k)
    <3>1. \A j \in 1 .. k - 1 : s[j].t = "label" => s[j].name # s[k].name
      BY <2>8
    <3>2. A!Target(s, s[k].name) = A!Address(s, k)
      BY <1>5, <2>5, <2>7, <3>1, FirstLabel
    <3> QED
      BY <2>7, <3>2
  <2>10. A!Labels(s, "main") # {}
    BY <1>5, <2>5, <2>7 DEF A!Labels
  <2>11. A!Address(s, k) = HEADER_LEN + Len(Flat(Each(s), k - 1))
    BY <1>2, <2>5, ListingAddresses
  <2>12. Flat(Each(s), Len(front)) = Spread(front)
    BY <1>5, <2>1, <2>5, <2>6, SpreadPrefix
  <2>13. Len(Part(b, 5, e)) = e - 5
    <3>1. ASSUME NEW lo \in Nat, lo <= e
          PROVE  Len(Part(b, lo, e)) = e - lo
      BY <1>3, <3>1, PartIs
    <3> QED
      BY <1>3, <3>1
  <2>14. Flat(Each(s), k - 1) = Part(b, 5, e)
    BY <2>1, <2>5, <2>12
  <2>15. A!Address(s, k) = e
    BY <1>3, <2>11, <2>13, <2>14 DEF HEADER_LEN
  <2> QED
    BY <2>9, <2>10, <2>15 DEF EntryOf, s, e
<1>9. CASE ~(e < c)
  <2>1. \A k \in 1 .. Len(code) : code[k].t # "label"
    BY <1>1, <1>9
  <2>2. A!Labels(s, "main") = {}
    <3>1. ASSUME NEW k \in A!Labels(s, "main")
          PROVE  FALSE
      <4>1. k \in 1 .. Len(s) /\ s[k].t = "label"
        BY <1>5 DEF A!Labels
      <4>2. k \in 1 .. Len(code) /\ code[k].t = "label"
        BY <1>7, <4>1 DEF m
      <4> QED
        BY <2>1, <4>2
    <3> QED
      BY <3>1
  <2> QED
    BY <1>4, <1>9, <2>2 DEF EntryOf, s, e
<1> QED
  BY <1>8, <1>9

(* The listing is accepted, and its binary has the words of this one.      *)
LEMMA ListingLays ==
  ASSUME NEW b, WellBuilt(b), Reassemblable(b)
  PROVE  LET s == Dis!disassemble(b)
             n == Len(b)
             off == Dis!DataOffset(b)
         IN  /\ Scanned(s) /\ A!Accepted(s)
             /\ A!Body(s) = Part(b, 5, n) \o (IF off > 0 THEN <<Word(0)>> ELSE <<>>)
             /\ OffsetOf(s) = off /\ EntryOf(s) = Dis!Entry(b)
             /\ HEADER_LEN + Len(Before(s, A!Data(s))) = Dis!CodeEnd(b)
<1> DEFINE s == Dis!disassemble(b)
           code == Dis!CodeLines(b)
           m == Len(code)
           n == Len(b)
           c == Dis!CodeEnd(b)
           off == Dis!DataOffset(b)
<1>1. Finite(b) /\ Faithful(b, c, n)
  BY ReassemblableIs
<1>2. /\ Listing(s, m) /\ (m < Len(s) <=> off > 0)
      /\ \A k \in 1 .. m : s[k] = code[k]
      /\ Plainest(s, m) /\ Spread(s) = Part(b, 5, n)
  BY <1>1, ListingIs
<1>3. IsSource(code) /\ Spread(code) = Part(b, 5, c)
  BY <1>1, CodePartIs
<1>4. EntryOf(s) = Dis!Entry(b)
  <2>1. Dis!Entry(b) < Dis!CodeEnd(b) \/ Dis!Entry(b) = HEADER_LEN
    BY DEF Reassemblable
  <2> QED
    BY <1>1, <2>1, EntryKept
<1>5. c \in Nat /\ 5 <= c /\ (off > 0 \/ off = 0) /\ (off > 0 => c = off)
  BY WellBuiltIs
<1> HIDE DEF s, code, n, c, off
<1>6. A!Accepted(s) /\ A!Body(s) = Spread(s) \o Tail_(s)
  BY <1>2, ListingAccepted
<1>7. /\ IsSource(s) /\ Len(s) \in Nat /\ m \in Nat
      /\ A!Data(s) = m + 1 /\ (A!HasData(s) <=> m < Len(s))
  BY <1>2, ListingData
<1>8. m <= Len(s) /\ Scanned(s)
  BY <1>2, <1>7 DEF Listing
<1>9. Flat(Each(s), Len(code)) = Spread(code)
  BY <1>2, <1>3, <1>7, <1>8, SpreadPrefix
<1>10. Len(Part(b, 5, c)) = c - 5
  <2>1. ASSUME NEW lo \in Nat, lo <= c
        PROVE  Len(Part(b, lo, c)) = c - lo
    BY <1>5, <2>1, PartIs
  <2> QED
    BY <1>5, <2>1
<1> DEFINE k == m + 1
<1>11. k \in 1 .. Len(s) + 1 /\ k - 1 = Len(code) /\ A!Data(s) = k
  BY <1>7, <1>8
<1> HIDE DEF k, m
<1>12. /\ Before(s, k) = Flat(Each(s), k - 1)
       /\ A!Address(s, k) = HEADER_LEN + Len(Flat(Each(s), k - 1))
  BY <1>2, <1>11, ListingAddresses
<1>13. A!Address(s, A!Data(s)) = c /\ HEADER_LEN + Len(Before(s, A!Data(s))) = c
  <2>1. Flat(Each(s), k - 1) = Part(b, 5, c)
    BY <1>3, <1>9, <1>11
  <2> QED
    BY <1>5, <1>10, <1>11, <1>12, <2>1 DEF HEADER_LEN
<1>14. OffsetOf(s) = off
  BY <1>2, <1>5, <1>7, <1>13 DEF OffsetOf
<1>15. Tail_(s) = IF off > 0 THEN <<Word(0)>> ELSE <<>>
  BY <1>2, <1>7 DEF Tail_
<1> QED
  BY <1>2, <1>4, <1>6, <1>8, <1>13, <1>14, <1>15 DEF s, n, c, off
-----------------------------------------------------------------------------
(* The binary that assembling the listing again gives.                     *)
LEMMA RebuiltIs ==
  ASSUME NEW b, WellBuilt(b)
  PROVE  LET n == Len(b)
             off == Dis!DataOffset(b)
             x == Rebuilt(b)
         IN  /\ IsSeq(x) /\ Len(x) = n + (IF off > 0 THEN 1 ELSE 0)
             /\ x[2] = Word(Len(x)) /\ \A k \in 1 .. n : k # 2 => x[k] = b[k]
             /\ off > 0 => x[n + 1] = Word(0)
<1> DEFINE n == Len(b)
           off == Dis!DataOffset(b)
           w == Word(n + 1)
           y == [b EXCEPT ![2] = w]
           z == Append(y, Word(0))
<1>1. /\ IsSeq(b) /\ n \in Nat /\ 5 <= n /\ b[2] = Word(n) /\ (off > 0 \/ off = 0)
  BY WellBuiltIs
<1>2. DOMAIN b = 1 .. n /\ 2 \in 1 .. n
  BY <1>1, SeqFacts
<1>3. Rebuilt(b) = IF off = 0 THEN b ELSE z
  BY DEF Rebuilt
<1> HIDE DEF w
<1>4. IsSeq(y) /\ Len(y) = n /\ y[2] = w /\ \A k \in 1 .. n : k # 2 => y[k] = b[k]
  <2>1. IsSeq(y) /\ Len(y) = n
    BY <1>1, ChangedIsSeq
  <2> QED
    BY <1>2, <2>1
<1> HIDE DEF y
<1>5. /\ IsSeq(z) /\ Len(z) = n + 1 /\ z[n + 1] = Word(0)
      /\ \A k \in 1 .. n : z[k] = y[k]
  BY <1>4, AppendIsSeq
<1> HIDE DEF z, off
<1>6. CASE off = 0
  <2>1. ~(off > 0) /\ Rebuilt(b) = b /\ n + 0 = n
    BY <1>1, <1>3, <1>6
  <2> QED
    BY <1>1, <2>1 DEF off
<1>7. CASE off > 0
  <2>1. Rebuilt(b) = z
    BY <1>3, <1>7
  <2>2. z[2] = Word(Len(z)) /\ \A k \in 1 .. n : k # 2 => z[k] = b[k]
    BY <1>2, <1>4, <1>5 DEF w
  <2> QED
    BY <1>5, <1>7, <2>1, <2>2 DEF off
<1> QED
  BY <1>1, <1>6, <1>7

LEMMA SameNeeds ==
  ASSUME NEW b, NEW x, WellBuilt(b), WellBuilt(x), NEW c \in Nat,
         Dis!CodeEnd(b) = c, Dis!CodeEnd(x) = c, \A k \in 6 .. c : x[k] = b[k]
  PROVE  x[4] = b[4]
<1>1. HEADER_LEN + 1 = 6
  BY DEF HEADER_LEN
<1> DEFINE Need(y) == {ExtensionOf(y[k].op) : k \in 6 .. c}
<1>2. x[4] = [extensions |-> UNION Need(x)] /\ b[4] = [extensions |-> UNION Need(b)]
  BY <1>1 DEF WellBuilt
<1>3. Need(x) = Need(b)
  OBVIOUS
<1> QED
  BY <1>2, <1>3

LEMMA Rebuilds ==
  ASSUME NEW b, WellBuilt(b), Reassemblable(b)
  PROVE  A!Outcome(Dis!disassemble(b)) = A!Done(Rebuilt(b))
<1> DEFINE s == Dis!disassemble(b)
           n == Len(b)
           c == Dis!CodeEnd(b)
           e == Dis!Entry(b)
           off == Dis!DataOffset(b)
           p == Part(b, 5, n)
           tail == IF off > 0 THEN <<Word(0)>> ELSE <<>>
           extra == IF off > 0 THEN 1 ELSE 0
           x == A!Binary(s)
           z == Rebuilt(b)
<1>1. /\ Scanned(s) /\ A!Accepted(s)
      /\ A!Body(s) = p \o tail
      /\ OffsetOf(s) = off /\ EntryOf(s) = e
      /\ HEADER_LEN + Len(Before(s, A!Data(s))) = c
  BY ListingLays
<1>2. /\ IsSeq(b) /\ n \in Nat /\ c \in Nat /\ 5 <= c /\ c <= n
      /\ b[1] = Magic /\ b[3] = Word(e) /\ b[5] = Word(off) /\ (off > 0 \/ off = 0)
      /\ Dis!CodeEnd(b) = c
  BY WellBuiltIs
<1>3. /\ IsSeq(z) /\ Len(z) = n + extra
      /\ z[2] = Word(Len(z)) /\ \A k \in 1 .. n : k # 2 => z[k] = b[k]
      /\ off > 0 => z[n + 1] = Word(0)
  BY RebuiltIs
<1> HIDE DEF s, n, c, e, off, x, z
<1>4. IsSource(s)
  BY <1>1 DEF Scanned
<1>5. WellBuilt(x) /\ Dis!CodeEnd(x) = c
  BY <1>1, AssemblyIsWellBuilt DEF x
<1>6. /\ IsSeq(p) /\ Len(p) = n - 5 /\ \A k \in 1 .. n - 5 : p[k] = b[5 + k]
  <2>1. ASSUME NEW lo \in Nat, lo <= n
        PROVE  /\ IsSeq(Part(b, lo, n)) /\ Len(Part(b, lo, n)) = n - lo
               /\ \A k \in 1 .. n - lo : Part(b, lo, n)[k] = b[lo + k]
    <3>1. n \in Nat
      BY <1>2
    <3> QED
      BY <2>1, <3>1, PartIs
  <2>2. 5 \in Nat /\ 5 <= n
    BY <1>2
  <2> QED
    BY <2>1, <2>2
<1>7. IsSeq(tail) /\ Len(tail) = extra /\ (off > 0 => tail[1] = Word(0)) /\ extra \in Nat
      /\ (off > 0 => extra = 1) /\ (off = 0 => extra = 0)
  BY <1>2, OneIsSeq, EmptyIsSeq
<1> HIDE DEF p, tail, extra
<1>8. /\ Len(p \o tail) = Len(p) + Len(tail)
      /\ \A k \in 1 .. Len(p) : (p \o tail)[k] = p[k]
      /\ \A k \in 1 .. Len(tail) : (p \o tail)[Len(p) + k] = tail[k]
  <2>1. IsSeq(p) /\ IsSeq(tail)
    BY <1>6, <1>7
  <2> QED
    BY <2>1, ConcatIsSeq
<1>9. /\ IsSeq(x) /\ Len(A!Body(s)) \in Nat /\ Len(x) = 5 + Len(A!Body(s))
      /\ x[1] = Magic /\ x[2] = Word(Len(x)) /\ x[3] = Word(EntryOf(s))
      /\ x[5] = Word(OffsetOf(s))
      /\ \A i \in 1 .. Len(A!Body(s)) : x[5 + i] = A!Body(s)[i]
  BY <1>4, BinaryIs DEF x
<1> DEFINE q == A!Body(s)
<1>10. /\ Len(q) = n - 5 + extra /\ \A k \in 1 .. n - 5 : q[k] = b[5 + k]
       /\ off > 0 => q[n - 4] = Word(0)
  <2>1. \A k \in 1 .. n - 5 : (p \o tail)[k] = b[5 + k]
    BY <1>6, <1>8
  <2>2. off > 0 => (p \o tail)[n - 4] = Word(0)
    <3>1. SUFFICES ASSUME off > 0
                   PROVE  (p \o tail)[n - 4] = Word(0)
      OBVIOUS
    <3>2. 1 \in 1 .. Len(tail) /\ Len(p) + 1 = n - 4
      BY <1>2, <1>6, <1>7, <3>1
    <3>3. (p \o tail)[Len(p) + 1] = tail[1]
      BY <1>8, <3>2
    <3> QED
      BY <1>7, <3>1, <3>2, <3>3
  <2>3. Len(p \o tail) = n - 5 + extra
    BY <1>6, <1>7, <1>8
  <2> QED
    BY <1>1, <2>1, <2>2, <2>3
<1> HIDE DEF q
<1>11. Len(x) = n + extra /\ Len(x) = Len(z)
  BY <1>2, <1>3, <1>7, <1>9, <1>10 DEF q
<1>12. ASSUME NEW k \in 6 .. n
       PROVE  x[k] = b[k]
  <2> DEFINE i == k - 5
  <2>1. i \in 1 .. n - 5 /\ k = 5 + i /\ i \in 1 .. Len(q)
    BY <1>2, <1>7, <1>10
  <2> HIDE DEF i
  <2>2. x[5 + i] = q[i] /\ q[i] = b[5 + i]
    BY <1>9, <1>10, <2>1 DEF q
  <2> QED
    BY <2>1, <2>2
<1>13. x[4] = b[4]
  <2>1. \A k \in 6 .. c : x[k] = b[k]
    <3>1. \A k \in 6 .. c : k \in 6 .. n
      BY <1>2
    <3> QED
      BY <1>12, <3>1
  <2> QED
    BY <1>2, <1>5, <2>1, SameNeeds
<1>14. ASSUME NEW k \in 1 .. Len(x)
       PROVE  x[k] = z[k]
  <2>1. CASE k = 2
    BY <1>3, <1>9, <1>11, <2>1
  <2>2. CASE k \in {1, 3, 4, 5}
    <3>1. k \in 1 .. n /\ k # 2
      BY <1>2, <2>2
    <3>2. z[k] = b[k]
      BY <1>3, <3>1
    <3>3. x[k] = b[k]
      BY <1>1, <1>2, <1>9, <1>13, <2>2
    <3> QED
      BY <3>2, <3>3
  <2>3. CASE k \in 6 .. n
    <3>1. k \in 1 .. n /\ k # 2
      BY <1>2, <2>3
    <3> QED
      BY <1>3, <1>12, <2>3, <3>1
  <2>4. CASE k > n
    <3>1. off > 0 /\ k = n + 1
      BY <1>2, <1>7, <1>11, <2>4
    <3> DEFINE i == n - 4
    <3>2. i \in 1 .. Len(q) /\ 5 + i = k
      BY <1>2, <1>7, <1>10, <3>1
    <3>3. q[i] = Word(0)
      BY <1>10, <3>1
    <3> HIDE DEF i
    <3>4. x[5 + i] = q[i]
      BY <1>9, <3>2 DEF q
    <3> QED
      BY <1>3, <3>1, <3>2, <3>3, <3>4
  <2>5. k = 2 \/ k \in {1, 3, 4, 5} \/ k \in 6 .. n \/ k > n
    BY <1>2, <1>7, <1>11
  <2> QED
    BY <2>1, <2>2, <2>3, <2>4, <2>5
<1>15. x = z
  BY <1>3, <1>9, <1>11, <1>14, SameSeq
<1>16. A!Fits(s)
  <2>1. Len(z) <= MemoryWords
    BY DEF Reassemblable, z
  <2> QED
    BY <1>15, <2>1 DEF A!Fits, x
<1>17. A!Outcome(s) = A!Done(z)
  BY <1>1, <1>15, <1>16 DEF A!Outcome, x
<1> QED
  BY <1>17 DEF s, z
-----------------------------------------------------------------------------
(* Every source is one the scanner can have read, every binary one some    *)
(* assembly finished, and what is said to be listed is what was listed.    *)
HistoryInv ==
  /\ Scanned(sbuff) /\ Scanned(sourceFile)
  /\ \A b \in produced : WellBuilt(b)
  /\ listed = Nothing \/ (WellBuilt(listed) /\ sourceFile = Dis!disassemble(listed))
  /\ phase # "idle" => origin = Nothing \/ (WellBuilt(origin) /\ sbuff = Dis!disassemble(origin))

LEMMA OutcomesDiffer ==
  ASSUME NEW x, NEW y
  PROVE  A!Done(x) # A!Refused /\ (A!Done(x) = A!Done(y) => x = y)
<1>1. A!Done(x).is = "done" /\ A!Refused.is = "refused" /\ A!Done(x).words = x /\ A!Done(y).words = y
  BY DEF A!Done, A!Refused
<1> QED
  BY <1>1

LEMMA FinishedIsWellBuilt ==
  ASSUME NEW s, Scanned(s), NEW words, A!Outcome(s) = A!Done(words)
  PROVE  WellBuilt(words)
<1>1. A!Accepted(s) /\ A!Outcome(s) = A!Done(A!Binary(s))
  BY OutcomesDiffer DEF A!Outcome
<1>2. words = A!Binary(s)
  BY <1>1, OutcomesDiffer
<1> QED
  BY <1>1, <1>2, AssemblyIsWellBuilt

LEMMA InitHistory ==
  ASSUME Init
  PROVE  HistoryInv
<1>1. sbuff = <<>> /\ phase = "idle" /\ produced = {} /\ listed = Nothing
  BY DEF Init, AssemblerInit
<1>2. PICK k \in DOMAIN Workloads : sourceFile \in Workloads[k].sources
  BY DEF Init
<1>3. Scanned(sourceFile)
  BY <1>2, SourcesAssumption DEF Scanned
<1>4. Scanned(<<>>)
  BY ShortSources, EmptyIsSeq DEF Scanned
<1> QED
  BY <1>1, <1>3, <1>4 DEF HistoryInv

LEMMA SameHistory ==
  ASSUME HistoryInv, UNCHANGED <<sbuff, phase, sourceFile, produced, listed, origin>>
  PROVE  HistoryInv'
BY DEF HistoryInv

LEMMA NextHistory ==
  ASSUME IInv, AssemblyInv, HistoryInv, Next
  PROVE  HistoryInv'
<1>1. CASE StartAssemble
  <2>1. /\ sbuff' = sourceFile /\ phase' = "code" /\ origin' = listed
        /\ UNCHANGED <<sourceFile, produced, listed>>
    BY <1>1 DEF StartAssemble, assemble, files
  <2> QED
    BY <2>1 DEF HistoryInv
<1>2. CASE AssembleStep
  <2>1. at = "assemble" /\ phase \notin {"done", "fatal"} /\ Assembles
        /\ UNCHANGED <<sourceFile, produced, listed, origin>>
    BY <1>2 DEF AssembleStep, files, history
  <2>2. AssemblerInv /\ Ready /\ phase # "idle"
    BY <2>1 DEF IInv, AssemblyInv, Busy, AssemblerInv, Phases
  <2>3. sbuff' = sbuff
    BY <2>1, <2>2, AssemblerDelivers
  <2> QED
    BY <2>1, <2>2, <2>3 DEF HistoryInv
<1>3. CASE AssembleDone
  <2>1. phase = "done" /\ produced' = produced \cup {list}
        /\ UNCHANGED <<sbuff, phase, sourceFile, listed, origin>>
    BY <1>3 DEF AssembleDone, assembly
  <2>2. WellBuilt(list)
    <3>1. Scanned(sbuff) /\ A!Outcome(sbuff) = A!Done(list)
      BY <2>1 DEF HistoryInv, AssemblyInv
    <3> QED
      BY <3>1, FinishedIsWellBuilt
  <2> QED
    BY <2>1, <2>2 DEF HistoryInv
<1>4. CASE Disassemble
  <2>1. /\ at = "disassemble" /\ ~Partial
        /\ UNCHANGED <<sbuff, phase, produced, origin>>
        /\ \/ UNCHANGED <<sourceFile, listed>>
           \/ sourceFile' = Dis!disassemble(buff) /\ listed' = buff
    BY <1>4 DEF Disassemble, assembly
  <2>2. buff \in produced
    <3>1. Readable(buff)
      BY <2>1 DEF IInv, CommandInv
    <3> QED
      BY <2>1, <3>1, WholeIsProduced DEF Partial
  <2>3. WellBuilt(buff)
    BY <2>2 DEF HistoryInv
  <2>4. Scanned(Dis!disassemble(buff))
    BY <2>3, ListingIs DEF Listing
  <2> QED
    BY <2>1, <2>3, <2>4 DEF HistoryInv
<1>5. CASE Killed
  <2>1. /\ sbuff' = <<>> /\ phase' = "idle"
        /\ UNCHANGED <<sourceFile, produced, listed, origin>>
    BY <1>5 DEF Killed, files
  <2>2. Scanned(<<>>)
    BY ShortSources, EmptyIsSeq DEF Scanned
  <2> QED
    BY <2>1, <2>2 DEF HistoryInv
<1>6. CASE StartRead \/ AssembleFails \/ WriteCut \/ ReadFails \/ readFileWords
           \/ ReadBeyond \/ DisassembleFails \/ HeaderRefused \/ cortexVMExecBinary
  <2>1. UNCHANGED <<sbuff, phase, sourceFile, produced, listed, origin>>
    BY <1>6 DEF StartRead, AssembleFails, WriteCut, ReadFails, readFileWords, ReadBeyond,
                DisassembleFails, HeaderRefused, cortexVMExecBinary, assembly, files, history
  <2> QED
    BY <2>1, SameHistory
<1>7. CASE ListBeyond
  <2>1. /\ UNCHANGED <<sbuff, phase, produced, origin>>
        /\ \/ UNCHANGED <<sourceFile, listed>>
           \/ sourceFile' \in Garbled /\ listed' = Nothing
    BY <1>7 DEF ListBeyond, assembly
  <2>2. \A s \in Garbled : Scanned(s)
    BY SourcesAssumption DEF Scanned
  <2> QED
    BY <2>1, <2>2 DEF HistoryInv
<1> QED
  BY <1>1, <1>2, <1>3, <1>4, <1>5, <1>6, <1>7 DEF Next

LEMMA HistoryInvariance == Spec => [](AssemblyInv /\ HistoryInv)
<1>1. Init => HistoryInv
  BY InitHistory
<1>2. IInv /\ AssemblyInv /\ HistoryInv /\ [Next]_vars => HistoryInv'
  <2>1. SUFFICES ASSUME IInv, AssemblyInv, HistoryInv, [Next]_vars
                 PROVE  HistoryInv'
    OBVIOUS
  <2>2. CASE Next
    BY <2>1, <2>2, NextHistory
  <2>3. CASE UNCHANGED vars
    <3>1. UNCHANGED <<sbuff, phase, sourceFile, produced, listed, origin>>
      BY <2>3 DEF vars, assembly, files, history
    <3> QED
      BY <2>1, <3>1, SameHistory
  <2> QED
    BY <2>1, <2>2, <2>3
<1> QED
  BY <1>1, <1>2, AssemblyInvariance, PTL DEF Spec

(* A binary is disassembled to a source that assembles to the same binary, *)
(* with one zero more if it has data: src/disassembler.c undoes            *)
(* src/assembler.c, for every binary the conditions of Reassemblable leave.*)
THEOREM RoundTrips == Spec => []RoundTrip
<1>1. ASSUME AssemblyInv, HistoryInv
      PROVE  RoundTrip
  <2>1. SUFFICES ASSUME Reassembled, Reassemblable(origin)
                 PROVE  phase = "done" /\ list = Rebuilt(origin)
    BY DEF RoundTrip
  <2>2. origin # Nothing /\ phase \in {"done", "fatal"}
    BY <2>1 DEF Reassembled
  <2>3. WellBuilt(origin) /\ sbuff = Dis!disassemble(origin)
    BY <1>1, <2>2 DEF HistoryInv
  <2>4. A!Outcome(sbuff) = A!Done(Rebuilt(origin))
    BY <2>1, <2>3, Rebuilds
  <2>5. /\ phase = "fatal" => A!Outcome(sbuff) = A!Refused
        /\ phase = "done" => A!Outcome(sbuff) = A!Done(list)
    BY <1>1 DEF AssemblyInv
  <2> QED
    BY <2>2, <2>4, <2>5, OutcomesDiffer
<1> QED
  BY <1>1, HistoryInvariance, PTL
=============================================================================
