------------------------------ MODULE Mnemonics ------------------------------
(***************************************************************************)
(* The two hand-written tables that say which instruction a mnemonic is:   *)
(* the assembler's decision tree over letters (src/assembler.c,            *)
(* getOpcodeFunct()) and the disassembler's switches over opcode and       *)
(* function (src/disassembler.c, disOp*()).  Case is left out: the         *)
(* assembler ignores it.                                                   *)
(***************************************************************************)
EXTENDS Naturals, Sequences

Fn(op, fn, flags) == [op |-> op, fn |-> fn, flags |-> flags]

LettersAOX ==
  [add |-> Fn("R", "ADDSUB", 0), addi |-> Fn("I", "ADDSUB", 0),
   and |-> Fn("R", "AND", 0), andi |-> Fn("I", "AND", 0),
   or |-> Fn("R", "OR", 0), ori |-> Fn("I", "OR", 0),
   xor |-> Fn("R", "XOR", 0), xori |-> Fn("I", "XOR", 0)]

LettersS ==
  [sub |-> Fn("R", "ADDSUB", 1), subi |-> Fn("I", "ADDSUB", 1),
   sll |-> Fn("R", "SLL", 0), slli |-> Fn("I", "SLL", 0),
   srl |-> Fn("R", "SR", 0), srli |-> Fn("I", "SR", 0),
   sra |-> Fn("R", "SR", 1), srai |-> Fn("I", "SR", 1),
   slt |-> Fn("R", "SLT", 0), sltu |-> Fn("R", "SLTU", 0),
   seq |-> Fn("R", "SEQ", 0), sw |-> Fn("S", "SW", 0),
   syscall |-> Fn("SYS", "SYSCALL", 0)]

LettersJLBHN ==
  [jmp |-> Fn("I", "JMP", 0), lw |-> Fn("L", "LW", 0),
   beq |-> Fn("B", "BEQ", 0), bne |-> Fn("B", "BNE", 0),
   blt |-> Fn("B", "BLT", 0), bltu |-> Fn("B", "BLTU", 0),
   ble |-> Fn("B", "BLE", 0), bleu |-> Fn("B", "BLEU", 0),
   bgt |-> Fn("B", "BGT", 0), bgtu |-> Fn("B", "BGTU", 0),
   bge |-> Fn("B", "BGE", 0), bgeu |-> Fn("B", "BGEU", 0),
   break |-> Fn("SYS", "BREAK", 0), halt |-> Fn("SYS", "HALT", 0),
   nop |-> Fn("SYS", "NOP", 0)]

LettersMDR ==
  [mul |-> Fn("MR", "MUL", 0), muli |-> Fn("MI", "MUL", 0),
   mulh |-> Fn("MR", "MULH", 0), mulhu |-> Fn("MR", "MULHU", 0),
   div |-> Fn("MR", "DIV", 0), divi |-> Fn("MI", "DIV", 0),
   divu |-> Fn("MR", "DIVU", 0), divui |-> Fn("MI", "DIVU", 0),
   rem |-> Fn("MR", "REM", 0), remi |-> Fn("MI", "REM", 0),
   remu |-> Fn("MR", "REMU", 0), remui |-> Fn("MI", "REMU", 0)]

LettersFIU ==
  [fadd |-> Fn("FR", "FADD", 0), faddi |-> Fn("FI", "FADD", 0),
   fsub |-> Fn("FR", "FSUB", 0), fsubi |-> Fn("FI", "FSUB", 0),
   fmul |-> Fn("FR", "FMUL", 0), fmuli |-> Fn("FI", "FMUL", 0),
   fdiv |-> Fn("FR", "FDIV", 0), fdivi |-> Fn("FI", "FDIV", 0),
   fneg |-> Fn("FI", "FSUB", 1), fabs |-> Fn("FI", "FABS", 0),
   fsqrt |-> Fn("FI", "FSQRT", 0),
   ftoi |-> Fn("FI", "FTOI", 0), ftoui |-> Fn("FI", "FTOUI", 0),
   itof |-> Fn("FI", "ITOF", 0), uitof |-> Fn("FI", "UITOF", 0),
   fblt |-> Fn("FB", "FBLT", 0), fble |-> Fn("FB", "FBLE", 0),
   fbgt |-> Fn("FB", "FBGT", 0), fbge |-> Fn("FB", "FBGE", 0)]

getOpcodeFunct ==
  [mn \in DOMAIN LettersAOX \cup DOMAIN LettersS \cup DOMAIN LettersJLBHN
            \cup DOMAIN LettersMDR \cup DOMAIN LettersFIU |->
     CASE mn \in DOMAIN LettersAOX -> LettersAOX[mn]
       [] mn \in DOMAIN LettersS -> LettersS[mn]
       [] mn \in DOMAIN LettersJLBHN -> LettersJLBHN[mn]
       [] mn \in DOMAIN LettersMDR -> LettersMDR[mn]
       [] mn \in DOMAIN LettersFIU -> LettersFIU[mn]]

ExtensionsOf(mn) ==
  (IF mn \in DOMAIN LettersMDR THEN {"M"} ELSE {}) \cup
  (IF mn \in DOMAIN LettersFIU THEN {"F"} ELSE {})
-----------------------------------------------------------------------------
(* The disassembler: a name, or a pair of names the flag chooses from.     *)

disOpR ==
  [ADDSUB |-> <<"add", "sub">>, OR |-> <<"or">>, XOR |-> <<"xor">>, AND |-> <<"and">>,
   SLL |-> <<"sll">>, SR |-> <<"srl", "sra">>, SLT |-> <<"slt">>, SLTU |-> <<"sltu">>,
   SEQ |-> <<"seq">>]
disOpI ==
  [ADDSUB |-> <<"addi", "subi">>, OR |-> <<"ori">>, XOR |-> <<"xori">>, AND |-> <<"andi">>,
   SLL |-> <<"slli">>, SR |-> <<"srli", "srai">>, JMP |-> <<"jmp">>]
disOpS == [SW |-> <<"sw">>]
disOpL == [LW |-> <<"lw">>]
disOpB ==
  [BEQ |-> <<"beq">>, BNE |-> <<"bne">>, BLT |-> <<"blt">>, BLTU |-> <<"bltu">>,
   BLE |-> <<"ble">>, BGT |-> <<"bgt">>, BGTU |-> <<"bgtu">>, BGE |-> <<"bge">>,
   BLEU |-> <<"bleu">>, BGEU |-> <<"bgeu">>]
disOpSYS ==
  [HALT |-> <<"halt">>, SYSCALL |-> <<"syscall">>, NOP |-> <<"nop">>, BREAK |-> <<"break">>]
disOpFR == [FADD |-> <<"fadd">>, FSUB |-> <<"fsub">>, FMUL |-> <<"fmul">>, FDIV |-> <<"fdiv">>]
disOpFI ==
  [FSQRT |-> <<"fsqrt">>, FABS |-> <<"fabs">>, FTOI |-> <<"ftoi">>, FTOUI |-> <<"ftoui">>,
   ITOF |-> <<"itof">>, UITOF |-> <<"uitof">>, FSUB |-> <<"fsubi", "fneg">>,
   FADD |-> <<"faddi">>, FMUL |-> <<"fmuli">>, FDIV |-> <<"fdivi">>]
disOpFB == [FBLT |-> <<"fblt">>, FBLE |-> <<"fble">>, FBGT |-> <<"fbgt">>, FBGE |-> <<"fbge">>]
disOpMR ==
  [MUL |-> <<"mul">>, MULH |-> <<"mulh">>, MULHU |-> <<"mulhu">>, DIV |-> <<"div">>,
   DIVU |-> <<"divu">>, REM |-> <<"rem">>, REMU |-> <<"remu">>]
disOpMI ==
  [MUL |-> <<"muli">>, DIV |-> <<"divi">>, DIVU |-> <<"divui">>, REM |-> <<"remi">>,
   REMU |-> <<"remui">>]

disOp ==
  [R |-> disOpR, I |-> disOpI, S |-> disOpS, L |-> disOpL, B |-> disOpB, SYS |-> disOpSYS,
   FR |-> disOpFR, FI |-> disOpFI, FB |-> disOpFB, MR |-> disOpMR, MI |-> disOpMI]

NameOf(w) ==
  LET names == disOp[w.op][w.fn] IN IF w.flags % 2 = 1 /\ Len(names) = 2 THEN names[2] ELSE names[1]
=============================================================================
