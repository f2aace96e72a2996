------------------------------ MODULE Assembler ------------------------------
(***************************************************************************)
(* assemble() of src/assembler.c: one pass over the source that appends    *)
(* words to a list and notes labels and the words that name them, then a   *)
(* loop that patches those words, then the header.                         *)
(*                                                                         *)
(* A source is a sequence of items, the pieces the scanner tells apart:    *)
(*   nl, blank (a run of separators), comment, label (name), .data         *)
(*   instr (mn, regs, and imm or ref when it has one)                      *)
(*   num (v, in decimal), str (chars), ref (a bare name)                   *)
(*   dbl (bits; whole and rest, what its two halves read as alone)         *)
(*   junk (text nothing accepts)                                           *)
(* A word of the list is an instruction's fields or [word |-> n]; fields   *)
(* keep their width.                                                       *)
(***************************************************************************)
EXTENDS Integers, Sequences, Mnemonics

CONSTANTS
  WordBits,      \* bits of a word
  IBits, SBits,  \* bits of the immediates of I words, and of S, B and L words
  MemoryWords,   \* bound: words listAppend() finds memory for
  QUOTE          \* the character '"'

VARIABLES
  sbuff, head,      \* the source and the next item of it
  list,             \* the words
  labelsRegistry,   \* labels with the address they stand at
  labelsPatches,    \* names used as immediates, with the word that uses them
  extensions, dataOffset,
  patched,          \* patches applied
  phase             \* idle; code, data (the loop of .data); patch; done; fatal

(* The bound has room for the header; powers of two are positive.          *)
ASSUME AssemblerAssumption ==
  /\ MemoryWords \in Nat /\ MemoryWords >= 5
  /\ \A bits \in {IBits, SBits} : 2 ^ bits \in Nat \ {0}

(* The next power of two is twice this one; an immediate is narrower than  *)
(* a word.                                                                 *)
ASSUME WidthsAssumption ==
  /\ 2 ^ (WordBits - 1) \in Nat /\ 2 ^ WordBits = 2 * 2 ^ (WordBits - 1)
  /\ \A bits \in {IBits, SBits} :
       2 ^ (bits - 1) \in Nat /\ 2 ^ bits = 2 * 2 ^ (bits - 1) /\ 2 ^ bits <= 2 ^ (WordBits - 1)

IsSeq(s) == s \in Seq({s[k] : k \in DOMAIN s})
IsSource(s) == IsSeq(s) /\ \A k \in DOMAIN s : s[k].t = "str" => IsSeq(s[k].chars)

assembly == <<sbuff, head, list, labelsRegistry, labelsPatches, extensions, dataOffset,
              patched, phase>>

HEADER_LEN == 5
Word(n) == [word |-> n]
Magic == [magic |-> "CORT"]

AssemblerInit ==
  /\ sbuff = <<>> /\ head = 1
  /\ list = <<>> /\ labelsRegistry = <<>> /\ labelsPatches = <<>>
  /\ extensions = {} /\ dataOffset = 0 /\ patched = 0
  /\ phase = "idle"

assemble(source) ==
  /\ sbuff' = source /\ head' = 1
  /\ list' = <<Magic, Word(0), Word(0), Word(0), Word(0)>>
  /\ labelsRegistry' = <<>> /\ labelsPatches' = <<>>
  /\ extensions' = {} /\ dataOffset' = 0 /\ patched' = 0
  /\ phase' = "code"
-----------------------------------------------------------------------------
(* Operands.                                                               *)

(* parseRegNum() counts in a byte.                                         *)
Banks == [r |-> [first |-> 0, count |-> 64],  s |-> [first |-> 4, count |-> 14],
          a |-> [first |-> 18, count |-> 14], t |-> [first |-> 32, count |-> 32]]
NamedRegs == [zero |-> 0, pc |-> 1, sp |-> 2, ra |-> 3]
RegNames == {<<name>> : name \in DOMAIN NamedRegs} \cup ((DOMAIN Banks) \X Nat)
parseRegNum(n) == n % 256
IsReg(r) == Len(r) > 1 => parseRegNum(r[2]) < Banks[r[1]].count
getReg(r) == IF Len(r) = 1 THEN NamedRegs[r[1]] ELSE Banks[r[1]].first + parseRegNum(r[2])

(* strtoll() saturates; getImm() takes the sign off before it calls it.    *)
MaxSigned == 2 ^ (WordBits - 1) - 1
Strtoll(n) == CASE n > MaxSigned -> MaxSigned [] n < -MaxSigned - 1 -> -MaxSigned - 1 [] OTHER -> n
getImm(n) == IF n < 0 THEN -Strtoll(-n) ELSE Strtoll(n)

Wrap(n, bits) == n % 2 ^ bits

(* Which fields an instruction's registers are, in the order written.      *)
Operands ==
  [R |-> <<"rd", "ra", "rb">>, MR |-> <<"rd", "ra", "rb">>, FR |-> <<"rd", "ra", "rb">>,
   I |-> <<"rd", "ra">>, MI |-> <<"rd", "ra">>, FI |-> <<"rd", "ra">>,
   S |-> <<"ra", "rb">>, L |-> <<"rd", "ra">>, B |-> <<"ra", "rb">>, FB |-> <<"ra", "rb">>,
   SYS |-> <<>>]

Unary(f) == f.fn \in {"FSQRT", "FABS", "FTOI", "FTOUI", "ITOF", "UITOF"}
              \/ (f.fn = "FSUB" /\ f.flags = 1)
TakesImm(f) == f.op \in {"I", "MI", "S", "L", "B", "FB"} \/ (f.op = "FI" /\ ~Unary(f))
Width(op) == IF op \in {"I", "MI", "FI"} THEN IBits ELSE SBits

(* What the scanner can have read.                                         *)
IsItem(it) ==
  CASE it.t = "instr" -> it.regs \in Seq(RegNames) /\ ("imm" \in DOMAIN it => it.imm \in Int)
    [] it.t = "num" -> it.v \in Int
    [] it.t = "dbl" -> it.bits \in Nat /\ it.whole \in Int /\ it.rest \in Nat
    [] it.t = "str" -> it.chars \in Seq(Nat)
    [] OTHER -> TRUE

Names(it) == "ref" \in DOMAIN it

(* An instruction is refused for its mnemonic, or at an operand.           *)
Parses(it) ==
  /\ it.mn \in DOMAIN getOpcodeFunct
  /\ LET f == getOpcodeFunct[it.mn]
     IN  /\ Len(it.regs) = Len(Operands[f.op])
         /\ ("imm" \in DOMAIN it \/ Names(it)) => TakesImm(f)
  /\ \A k \in DOMAIN it.regs : IsReg(it.regs[k])

(* An immediate that is missing is read as zero, and so is a name for now. *)
Immediate(it) == IF "imm" \in DOMAIN it /\ ~Names(it) THEN getImm(it.imm) ELSE 0

Encoded(it) ==
  LET f == getOpcodeFunct[it.mn]
      slots == Operands[f.op]
      Field(slot) == IF \E k \in DOMAIN slots : slots[k] = slot
                     THEN getReg(it.regs[CHOOSE k \in DOMAIN slots : slots[k] = slot]) ELSE 0
  IN  [op |-> f.op, fn |-> f.fn, flags |-> f.flags,
       rd |-> Field("rd"), ra |-> Field("ra"), rb |-> Field("rb"),
       imm |-> Wrap(Immediate(it), Width(f.op))]
-----------------------------------------------------------------------------
(* The pass over the source.                                               *)

AtEnd == head > Len(sbuff)
At(ph, kinds) == phase = ph /\ ~AtEnd /\ sbuff[head].t \in kinds
Item == sbuff[head]
Blank(k) == k <= Len(sbuff) /\ sbuff[k].t = "blank"
skipSep(k) == IF Blank(k) THEN k + 1 ELSE k

Fatal ==
  /\ phase' = "fatal"
  /\ UNCHANGED <<sbuff, head, list, labelsRegistry, labelsPatches, extensions, dataOffset, patched>>

Skip(next) ==
  /\ head' = next
  /\ UNCHANGED <<sbuff, list, labelsRegistry, labelsPatches, extensions, dataOffset, patched, phase>>

(* listAppend(), once for every word; a failing malloc() ends the process. *)
Room(words) == Len(list) + Len(words) <= MemoryWords
Append_(words) == list' = list \o words

(* Mutant: addresses are counted from the first instruction.               *)
LabelledInCode(l, name, pc) == Append(l, [name |-> name, pc |-> pc - HEADER_LEN])
Labelled(l, name, pc) == Append(l, [name |-> name, pc |-> pc])

CodeSkips ==
  \/ At("code", {"nl"}) /\ Skip(head + 1)
  \/ At("code", {"comment"}) /\ Skip(skipSep(head + 1))
  \/ At("code", {"blank"}) /\ head < Len(sbuff) /\ Skip(head + 1)

CodeLabel ==
  /\ At("code", {"label"})
  /\ labelsRegistry' = Labelled(labelsRegistry, Item.name, Len(list))
  /\ head' = skipSep(head + 1)
  /\ UNCHANGED <<sbuff, list, labelsPatches, extensions, dataOffset, patched, phase>>

CodeInstr ==
  /\ At("code", {"instr"}) /\ Parses(Item)
  /\ Room(<<1>>)
  /\ Append_(<<Encoded(Item)>>)
  /\ labelsPatches' = IF Names(Item) THEN Labelled(labelsPatches, Item.ref, Len(list))
                                     ELSE labelsPatches
  /\ extensions' = extensions \cup ExtensionsOf(Item.mn)
  /\ head' = IF getOpcodeFunct[Item.mn].op = "SYS" THEN skipSep(head + 1) ELSE head + 1
  /\ UNCHANGED <<sbuff, labelsRegistry, dataOffset, patched, phase>>

CodeData ==
  /\ At("code", {".data"})
  /\ dataOffset' = Len(list)
  /\ head' = skipSep(head + 1)
  /\ phase' = "data"
  /\ UNCHANGED <<sbuff, list, labelsRegistry, labelsPatches, extensions, patched>>

(* Separators before the end of the file are taken for an opcode.          *)
CodeRefused ==
  /\ \/ At("code", {"num", "dbl", "str", "ref", "junk"})
     \/ At("code", {"instr"}) /\ ~(Parses(Item) /\ Room(<<1>>))
     \/ At("code", {"blank"}) /\ head = Len(sbuff)
  /\ Fatal

CodeEnds ==
  /\ phase = "code" /\ AtEnd
  /\ phase' = "patch"
  /\ UNCHANGED <<sbuff, head, list, labelsRegistry, labelsPatches, extensions, dataOffset, patched>>
-----------------------------------------------------------------------------
(* The loop of .data.  Separators at the end of a line are skipped, then   *)
(* getData() is called on the newline: strtoll() skips it and any blank    *)
(* lines and reads the integer it finds there, sign and all, or else zero. *)

DataWords(it) ==
  CASE it.t = "num" -> <<Word(Wrap(getImm(it.v), WordBits))>>
    [] it.t = "dbl" -> <<Word(it.bits)>>
    [] it.t = "str" -> [k \in 1 .. Len(it.chars) |-> Word(it.chars[k])] \o <<Word(0)>>

SpilledWords(it) ==
  IF it.t = "num" THEN <<Word(Wrap(Strtoll(it.v), WordBits))>>
  ELSE <<Word(Wrap(Strtoll(it.whole), WordBits)), Word(it.rest)>>

BlankLine == At("data", {"blank"}) /\ (head < Len(sbuff) => sbuff[head + 1].t = "nl")
NextText ==
  CHOOSE k \in head .. Len(sbuff) + 1 :
    /\ k = Len(sbuff) + 1 \/ sbuff[k].t \notin {"blank", "nl"}
    /\ \A j \in head .. k - 1 : sbuff[j].t \in {"blank", "nl"}
NumberNext == NextText <= Len(sbuff) /\ sbuff[NextText].t \in {"num", "dbl"}

(* Mutant: a comment in the data is not consumed.                          *)
DataSkipsButComments ==
  \/ At("data", {"nl"}) /\ Skip(head + 1)
  \/ At("data", {"comment"}) /\ Skip(head)
  \/ At("data", {"blank"}) /\ ~BlankLine /\ Skip(head + 1)
DataSkips ==
  \/ At("data", {"nl", "comment"}) /\ Skip(head + 1)
  \/ At("data", {"blank"}) /\ ~BlankLine /\ Skip(head + 1)

DataLabel ==
  /\ At("data", {"label"})
  /\ labelsRegistry' = Labelled(labelsRegistry, Item.name, Len(list))
  /\ head' = head + 1
  /\ UNCHANGED <<sbuff, list, labelsPatches, extensions, dataOffset, patched, phase>>

getData(words, next) ==
  /\ Room(words)
  /\ Append_(words)
  /\ head' = next
  /\ UNCHANGED <<sbuff, labelsRegistry, labelsPatches, extensions, dataOffset, patched, phase>>

(* The disassembler writes a quote as \", which is no escape here.         *)
BadString == Item.t = "str" /\ \E k \in DOMAIN Item.chars : Item.chars[k] = QUOTE

DataValue ==
  \/ At("data", {"num", "dbl", "str"}) /\ ~BadString /\ getData(DataWords(Item), head + 1)
  \/ BlankLine /\ NumberNext /\ getData(SpilledWords(sbuff[NextText]), NextText + 1)
  \/ BlankLine /\ ~NumberNext /\ getData(<<Word(0)>>, head + 1)

(* Text that is no value is not consumed: zeros are appended for ever.     *)
DataJunk == At("data", {"junk", ".data"}) /\ getData(<<Word(0)>>, head)

(* A name, or the mnemonic of code after .data, is noted as used by word 0 *)
(* (and so would its operands be: one such name has the source refused).   *)
(* Mutant: by the word it is in.                                           *)
NameHere == Len(list)
NameUser == 0

DataName ==
  /\ At("data", {"ref", "instr"})
  /\ Room(<<1>>)
  /\ Append_(<<Word(0)>>)
  /\ labelsPatches' = Labelled(labelsPatches, IF Item.t = "ref" THEN Item.name ELSE Item.mn, NameUser)
  /\ head' = head + 1
  /\ UNCHANGED <<sbuff, labelsRegistry, extensions, dataOffset, patched, phase>>

DataRefused ==
  /\ \/ At("data", {"num", "dbl", "str"}) /\ (BadString \/ ~Room(DataWords(Item)))
     \/ At("data", {"junk", ".data", "ref", "instr"}) /\ ~Room(<<1>>)
     \/ BlankLine /\ NumberNext /\ ~Room(SpilledWords(sbuff[NextText]))
     \/ BlankLine /\ ~NumberNext /\ ~Room(<<1>>)
     \/ phase = "data" /\ AtEnd /\ ~Room(<<1>>)
  /\ Fatal

(* Back in assemble(), OP_DATA still appends its word, a zero.             *)
DataEnds ==
  /\ phase = "data" /\ AtEnd
  /\ Room(<<1>>)
  /\ Append_(<<Word(0)>>)
  /\ phase' = "patch"
  /\ UNCHANGED <<sbuff, head, labelsRegistry, labelsPatches, extensions, dataOffset, patched>>
-----------------------------------------------------------------------------
(* The patches.                                                            *)

(* Mutant: the last label of a name wins.                                  *)
FoundLast(name) ==
  {k \in DOMAIN labelsRegistry :
     /\ labelsRegistry[k].name = name
     /\ \A j \in k + 1 .. Len(labelsRegistry) : labelsRegistry[j].name # name}
labelListFind(name) ==
  {k \in DOMAIN labelsRegistry :
     /\ labelsRegistry[k].name = name
     /\ \A j \in 1 .. k - 1 : labelsRegistry[j].name # name}
AddressOf(name) == labelsRegistry[CHOOSE k \in labelListFind(name) : TRUE].pc

Patch == labelsPatches[patched + 1]

(* A branch is relative to itself, every other immediate an address in the *)
(* code.  The bits are or-ed into a field that is still zero.              *)
PatchValue(op, target, pc) ==
  Wrap(IF op \in {"B", "FB"} THEN target - pc ELSE target - HEADER_LEN, Width(op))

Patchable == labelListFind(Patch.name) # {} /\ Patch.pc # 0

PatchApplied ==
  /\ phase = "patch" /\ patched < Len(labelsPatches)
  /\ Patchable
  /\ list' = [list EXCEPT ![Patch.pc + 1].imm = @ + PatchValue(list[Patch.pc + 1].op, AddressOf(Patch.name), Patch.pc)]
  /\ patched' = patched + 1
  /\ UNCHANGED <<sbuff, head, labelsRegistry, labelsPatches, extensions, dataOffset, phase>>

(* No such label, or word 0: the magic number is no opcode.                *)
PatchRefused ==
  /\ phase = "patch" /\ patched < Len(labelsPatches)
  /\ ~Patchable
  /\ Fatal

EntryPoint == IF labelListFind("main") = {} THEN HEADER_LEN ELSE AddressOf("main")

Finish ==
  /\ phase = "patch" /\ patched = Len(labelsPatches)
  /\ list' = [list EXCEPT ![2] = Word(Len(list)), ![3] = Word(EntryPoint),
                          ![4] = [extensions |-> extensions], ![5] = Word(dataOffset)]
  /\ phase' = "done"
  /\ UNCHANGED <<sbuff, head, labelsRegistry, labelsPatches, extensions, dataOffset, patched>>
-----------------------------------------------------------------------------
Code == CodeSkips \/ CodeLabel \/ CodeInstr \/ CodeData \/ CodeRefused \/ CodeEnds
Data == DataSkips \/ DataLabel \/ DataValue \/ DataJunk \/ DataName \/ DataRefused \/ DataEnds
Patches == PatchApplied \/ PatchRefused \/ Finish

Assembles == Code \/ Data \/ Patches
=============================================================================
