------------------------------ MODULE Assembly ------------------------------
(***************************************************************************)
(* What an assembly promises: the binary laid out from the whole source at *)
(* once.  Every item has the address of the words before it; a name stands *)
(* for the address of the first label that bears it, wherever that is; the *)
(* header says how long the binary is, where it starts, which extensions   *)
(* its instructions need and where its data begins.                        *)
(***************************************************************************)
EXTENDS Integers, Sequences, SequencesExt, FiniteSetsExt

CONSTANTS
  HEADER_LEN, WordBits, MemoryWords, QUOTE,
  Parses(_),       \* an instruction assembles
  Encoded(_),      \* to this word
  Patched(_, _, _), \* that word, used at an address, with a name's address
  Needs(_),        \* the extensions it needs
  Bits(_),         \* the word of a number in the data
  SpilledWords(_)  \* the words of a number read as an integer

VARIABLES
  source,  \* what is being assembled
  result   \* idle, busy, refused, or done with a binary

vars == <<source, result>>

Idle == [is |-> "idle"]
Busy == [is |-> "busy"]
Refused == [is |-> "refused"]
Done(words) == [is |-> "done", words |-> words]
-----------------------------------------------------------------------------
Data(s) == Min({Len(s) + 1} \cup {k \in DOMAIN s : s[k].t = ".data"})
HasData(s) == Data(s) \in DOMAIN s
InCode(s, k) == k < Data(s)

Text(s, k) == k \in DOMAIN s /\ s[k].t \notin {"nl", "blank"}

(* In the data, a line that ends in separators has a zero for them, unless *)
(* a number is what comes next: that is read as an integer.                *)
EndsBlank(s, k) ==
  s[k].t = "blank" /\ s[k - 1].t # ".data" /\ (k < Len(s) => s[k + 1].t = "nl")
Spilled(s, k) ==
  /\ s[k].t \in {"num", "dbl"}
  /\ \E j \in Data(s) + 1 .. k - 1 : EndsBlank(s, j) /\ \A i \in j .. k - 1 : ~Text(s, i)
BlankZero(s, k) ==
  EndsBlank(s, k) /\ ~\E j \in k + 1 .. Len(s) : Spilled(s, j) /\ \A i \in k .. j - 1 : ~Text(s, i)

(* The words of the item at k, names not resolved.                         *)
Words(s, k) ==
  IF InCode(s, k) THEN IF s[k].t = "instr" THEN <<Encoded(s[k])>> ELSE <<>>
  ELSE IF Spilled(s, k) THEN SpilledWords(s[k])
  ELSE CASE s[k].t = "num" -> <<[word |-> Bits(s[k].v)]>>
         [] s[k].t = "dbl" -> <<[word |-> s[k].bits]>>
         [] s[k].t = "str" -> [c \in 1 .. Len(s[k].chars) + 1 |->
                                [word |-> IF c <= Len(s[k].chars) THEN s[k].chars[c] ELSE 0]]
         [] OTHER -> IF BlankZero(s, k) THEN <<[word |-> 0]>> ELSE <<>>

Address(s, k) == HEADER_LEN + Len(FlattenSeq([j \in 1 .. k - 1 |-> Words(s, j)]))

Labels(s, name) == {k \in DOMAIN s : s[k].t = "label" /\ s[k].name = name}
Target(s, name) == Address(s, Min(Labels(s, name)))

Resolved(s, k) ==
  IF InCode(s, k) /\ s[k].t = "instr" /\ "ref" \in DOMAIN s[k]
  THEN <<Patched(Encoded(s[k]), Address(s, k), Target(s, s[k].ref))>>
  ELSE Words(s, k)

Body(s) ==
  FlattenSeq([k \in DOMAIN s |-> Resolved(s, k)]) \o (IF HasData(s) THEN <<[word |-> 0]>> ELSE <<>>)

Binary(s) ==
  <<[magic |-> "CORT"],
    [word |-> HEADER_LEN + Len(Body(s))],
    [word |-> IF Labels(s, "main") = {} THEN HEADER_LEN ELSE Target(s, "main")],
    [extensions |-> UNION {Needs(s[k]) : k \in {j \in DOMAIN s : InCode(s, j) /\ s[j].t = "instr"}}],
    [word |-> IF HasData(s) THEN Address(s, Data(s)) ELSE 0]>> \o Body(s)

(* Separators at the very end are only taken after what is complete        *)
(* without operands.                                                       *)
Trailing(s, k) ==
  /\ s[k].t = "blank" /\ k = Len(s)
  /\ ~(k > 1 /\ (s[k - 1].t \in {"label", "comment"}
                   \/ (s[k - 1].t = "instr" /\ Len(s[k - 1].regs) = 0)))

CodeItem(s, k) ==
  \/ s[k].t \in {"nl", "comment", "label"}
  \/ s[k].t = "blank" /\ ~Trailing(s, k)
  \/ /\ s[k].t = "instr" /\ Parses(s[k])
     /\ "ref" \in DOMAIN s[k] => Labels(s, s[k].ref) # {}

DataItem(s, k) ==
  \/ s[k].t \in {"nl", "comment", "label", "blank", "num", "dbl"}
  \/ s[k].t = "str" /\ QUOTE \notin ToSet(s[k].chars)

Accepted(s) ==
  \A k \in DOMAIN s : k = Data(s) \/ (IF InCode(s, k) THEN CodeItem(s, k) ELSE DataItem(s, k))

Fits(s) == Len(Binary(s)) <= MemoryWords

Outcome(s) ==
  IF Accepted(s) THEN IF Fits(s) THEN Done(Binary(s)) ELSE Refused ELSE Refused
-----------------------------------------------------------------------------
Init == result = Idle /\ source = <<>>

(* A process assembles one source; it may be killed.                       *)
Begin == result # Busy /\ result' = Busy
End == result = Busy /\ result' = Outcome(source) /\ UNCHANGED source
Dies == result = Busy /\ result' = Idle
Forgotten == result # Busy /\ result' = Idle

Next == Begin \/ End \/ Dies \/ Forgotten

Spec == Init /\ [][Next]_vars
=============================================================================
