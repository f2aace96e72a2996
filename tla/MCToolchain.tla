----------------------------- MODULE MCToolchain -----------------------------
(***************************************************************************)
(* Small sources for the toolchain.  Words have 10 bits, immediates 8 and  *)
(* 9: enough for every address in these sources, positive or negative.     *)
(***************************************************************************)
EXTENDS Toolchain

I3(mn) == [t |-> "instr", mn |-> mn, regs |-> <<<<"s", 1>>, <<"r", 300>>, <<"zero">>>>]
I2(mn, imm) == [t |-> "instr", mn |-> mn, regs |-> <<<<"t", 1>>, <<"a", 0>>>>, imm |-> imm]
U2(mn) == [t |-> "instr", mn |-> mn, regs |-> <<<<"sp">>, <<"ra">>>>]
To(mn, name) == [t |-> "instr", mn |-> mn, regs |-> <<<<"r", 5>>, <<"pc">>>>, ref |-> name]
I0(mn) == [t |-> "instr", mn |-> mn, regs |-> <<>>]
Label(name) == [t |-> "label", name |-> name]
Num(v) == [t |-> "num", v |-> v]
Str(chars) == [t |-> "str", chars |-> chars]
It(kind) == [t |-> kind]
Ref(name) == [t |-> "ref", name |-> name]

nl == It("nl")
data == It(".data")

OfMnemonic(mn) ==
  LET op == getOpcodeFunct[mn].op
  IN  IF op \in {"R", "MR", "FR"} THEN I3(mn)
      ELSE IF op = "SYS" THEN I0(mn)
      ELSE IF op = "FI" /\ Unary(getOpcodeFunct[mn]) THEN U2(mn)
      ELSE I2(mn, -3)

MCPrintable == (32 .. 127) \ {34, 92}

SequencesOver(items, sizes) == UNION {[1 .. n -> items] : n \in sizes}
NoTwoBlanks(s) == \A k \in 1 .. Len(s) - 1 : ~(s[k].t = "blank" /\ s[k + 1].t = "blank")

(* Every short source over the kinds of items: labels twice, before and    *)
(* after their uses; separators, line ends and ends of file; things out of *)
(* place.                                                                  *)
CodeItems ==
  {nl, It("blank"), It("comment"), Label("x"), Label("main"), I3("add"), I0("halt"),
   To("jmp", "x"), To("beq", "x"), I2("addi", 700), data, Num(7), It("junk")}
CodeSources == {s \in SequencesOver(CodeItems, {1, 2, 3}) : NoTwoBlanks(s)}

DataItems ==
  {nl, It("blank"), It("comment"), Label("x"), Num(-600), Str(<<65, 66>>), Str(<<>>),
   [t |-> "dbl", bits |-> 900, whole |-> 600, rest |-> 640], Ref("x"), It("junk"), I0("halt")}
DataSources ==
  {<<To("lw", "x"), data>> \o s : s \in {d \in SequencesOver(DataItems, {1, 2, 3}) : NoTwoBlanks(d)}}
    \cup {<<data, Label("x"), It("blank"), nl, nl>> \o s : s \in SequencesOver(DataItems, {1})}

(* Sources that use up the memory.                                         *)
Filled == <<data, Str(<<65, 66, 67, 68, 69, 70, 71, 72, 73>>), Num(1)>>
FullSources ==
  {Filled \o s : s \in SequencesOver(DataItems, {0, 1}) \cup {<<It("blank"), nl, Num(5)>>}}
    \cup {[k \in 1 .. 12 |-> I0("nop")]}

(* Sources that are also run, disassembled, assembled again, and cut off.  *)
EveryMnemonic == {<<OfMnemonic(mn)>> : mn \in DOMAIN getOpcodeFunct}

Programs ==
  {<<To("bge", "x"), Label("main"), I3("mul"), Label("x"), I0("halt")>>,
   <<I2("fmuli", 120)>>, <<I2("fmuli", 200), To("sw", "main"), nl, Label("main"), I0("nop")>>,
   <<Label("main"), To("lw", "m"), nl, data, Label("m"), Str(<<65, 39>>), nl, Num(5)>>,
   <<I0("halt"), data, Label("main"), Num(65), Num(9), Num(0), Num(66)>>,
   <<I0("halt"), data, Num(65), Num(34), Num(0)>>,
   <<I0("halt"), data, Str(<<65, 66, 67, 68, 69>>)>>,
   <<I0("halt"), data, Str(<<92, 10, 65, 66, 67>>)>>,
   <<I0("halt"), data, Num(-1)>>, <<I0("halt"), data, Num(300), Num(65)>>,
   <<I0("halt"), Label("main")>>, <<>>}

MCWorkloads ==
  <<[sources |-> CodeSources \cup DataSources \cup FullSources, commands |-> 1],
    [sources |-> EveryMnemonic \cup Programs, commands |-> 3]>>

MCGarbled == {<<I0("halt"), nl, It("junk")>>, <<I0("halt"), nl, data, nl, It("blank"), Num(300), nl>>}

(* The least a program takes to be changed by a round trip.                *)
NegativeData == <<[sources |-> {<<I0("halt"), data, Num(-1)>>}, commands |-> 3]>>
=============================================================================
