---------------------------- MODULE Disassembler ----------------------------
(***************************************************************************)
(* disassemble() of src/disassembler.c: the source written for a binary,   *)
(* as the items the assembler will read it as.                             *)
(***************************************************************************)
EXTENDS Integers, Sequences, FiniteSets, Mnemonics

CONSTANTS
  HEADER_LEN,
  IBits, SBits,   \* bits of the immediates
  Infinite,       \* immediates of float words that print without digits
  Printable,      \* characters a string may hold unescaped
  Escapes,        \* the others it may hold
  LineSize,       \* characters of the buffer a string is written to
  AsciiSize       \* 128

FileLength(b) == b[2].word
Entry(b) == b[3].word
DataOffset(b) == b[5].word
CodeEnd(b) == IF DataOffset(b) > 0 THEN DataOffset(b) ELSE FileLength(b)

nl == <<[t |-> "nl"]>>
-----------------------------------------------------------------------------
(* Registers are written by number, immediates as signed numbers.          *)

SignExt(n, bits) == IF n < 2 ^ (bits - 1) THEN n ELSE n - 2 ^ bits

Reg(n) == <<"r", n>>
(* Mutant: a branch is written rb first.                                   *)
FieldsOfSwapped(w) ==
  CASE w.op \in {"R", "MR", "FR"} -> <<Reg(w.rd), Reg(w.ra), Reg(w.rb)>>
    [] w.op \in {"I", "MI", "FI", "L"} -> <<Reg(w.rd), Reg(w.ra)>>
    [] w.op = "S" -> <<Reg(w.ra), Reg(w.rb)>>
    [] w.op \in {"B", "FB"} -> <<Reg(w.rb), Reg(w.ra)>>
    [] w.op = "SYS" -> <<>>
FieldsOf(w) ==
  CASE w.op \in {"R", "MR", "FR"} -> <<Reg(w.rd), Reg(w.ra), Reg(w.rb)>>
    [] w.op \in {"I", "MI", "FI", "L"} -> <<Reg(w.rd), Reg(w.ra)>>
    [] w.op \in {"S", "B", "FB"} -> <<Reg(w.ra), Reg(w.rb)>>
    [] w.op = "SYS" -> <<>>

Bare(w) == [t |-> "instr", mn |-> NameOf(w), regs |-> FieldsOf(w)]
Wide(w) ==
  [t |-> "instr", mn |-> NameOf(w), regs |-> FieldsOf(w),
   imm |-> SignExt(w.imm, IF w.op \in {"I", "MI"} THEN IBits ELSE SBits)]

(* A float immediate is written as a float, which reads back as the same   *)
(* bits; an infinity as "inf.0", which is a name and then something else.  *)
FloatLine(w) ==
  IF w.imm \in Infinite
  THEN <<[t |-> "instr", mn |-> NameOf(w), regs |-> FieldsOf(w), ref |-> "inf"], [t |-> "junk"]>>
  ELSE <<[t |-> "instr", mn |-> NameOf(w), regs |-> FieldsOf(w), imm |-> w.imm]>>

Line(w) ==
  CASE w.op \in {"R", "MR", "FR", "SYS"} -> <<Bare(w)>>
    [] w.op = "FI" /\ NameOf(w) \in {"fsqrt", "fabs", "ftoi", "ftoui", "itof", "uitof", "fneg"} ->
         <<Bare(w)>>
    [] w.op = "FI" /\ NameOf(w) \in {"fsubi", "faddi", "fmuli", "fdivi"} -> FloatLine(w)
    [] OTHER -> <<Wide(w)>>

MainLabel == <<[t |-> "label", name |-> "main"]>> \o nl

CodeLines(b) ==
  LET Lines[i \in 0 .. CodeEnd(b)] ==
        IF i <= HEADER_LEN THEN <<>>
        ELSE Lines[i - 1] \o (IF i - 1 = Entry(b) THEN MainLabel ELSE <<>>) \o Line(b[i]) \o nl
  IN  Lines[CodeEnd(b)]
-----------------------------------------------------------------------------
(* The data: a run of characters up to a zero is a string, anything else a *)
(* number.  Indices are those of the file, from 0.                         *)

Datum(b, i) == b[i + 1].word

StringEnds(b, i) == {j \in i + 1 .. FileLength(b) - 1 :
                      Datum(b, j) = 0 /\ \A k \in i .. j - 1 : Datum(b, k) \in Printable \cup Escapes}
IsString(b, i) == Datum(b, i) \in 1 .. AsciiSize - 1 /\ StringEnds(b, i) # {}
StringEnd(b, i) == CHOOSE j \in StringEnds(b, i) : TRUE

Chars(b, i) == [k \in 1 .. StringEnd(b, i) - i |-> Datum(b, i + k - 1)]

(* The last character must find room; an escape takes two.                 *)
Taken(chars, n) == 5 + n + Cardinality({k \in 1 .. n : chars[k] \in Escapes})
Overflows(chars) == \E n \in DOMAIN chars : Taken(chars, n - 1) >= LineSize - 4

DataLines(b) ==
  LET Lines[i \in 0 .. FileLength(b)] ==
        IF i = FileLength(b) THEN <<>>
        ELSE IF IsString(b, i)
        THEN <<[t |-> "blank"], [t |-> "str", chars |-> Chars(b, i)]>> \o nl \o Lines[StringEnd(b, i) + 1]
        ELSE <<[t |-> "blank"], [t |-> "num", v |-> Datum(b, i)]>> \o nl \o Lines[i + 1]
  IN  Lines[DataOffset(b)]

TooLong(b) ==
  LET Starts[i \in 0 .. FileLength(b)] ==
        IF i = FileLength(b) THEN FALSE
        ELSE IF IsString(b, i) THEN Overflows(Chars(b, i)) \/ Starts[StringEnd(b, i) + 1]
        ELSE Starts[i + 1]
  IN  DataOffset(b) > 0 /\ Starts[DataOffset(b)]

disassemble(b) ==
  CodeLines(b) \o (IF DataOffset(b) > 0 THEN <<[t |-> ".data"]>> \o nl \o DataLines(b) ELSE <<>>)
=============================================================================
