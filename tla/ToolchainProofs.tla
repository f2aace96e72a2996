--------------------------- MODULE ToolchainProofs ---------------------------
(***************************************************************************)
(* The toolchain, proved for every set of commands, sources and sizes.     *)
(*                                                                         *)
(* The inductive invariant IInv has four parts. AssemblerInv is the        *)
(* assembler's: its cursor and its source, the words it has written, the   *)
(* labels and the patches it owes, and that when it is done the list is    *)
(* what its header says (IsBinary). PatchesInv is why patching is sound:   *)
(* the words recorded are those of the list whose immediate is zero, no    *)
(* word twice. FilesInv says that a binary on disk is either what some     *)
(* assembly finished or shorter than its own header says                   *)
(* (CutIsTruncated), CommandInv what a command has in memory.  RunsWhole,  *)
(* of a command that does not list what it runs, follows from              *)
(* headerValidate's comparison of the two lengths (WholeIsProduced).       *)
(*                                                                         *)
(* A source may also come from the disk, where the disassembler wrote it,  *)
(* so its recursive functions over code and data must be shown to give     *)
(* sources: CodeLinesIsSource and DataLinesIsSource, by a least            *)
(* counterexample (NumberLemmas).                                          *)
(*                                                                         *)
(* The second half shows that the assembler implements Assembly.  Flat,    *)
(* the sequences of a family joined, is what addresses are counted in:     *)
(* where a piece starts (Start), that no two words share a place           *)
(* (FlatUnique), what pieces without words do not change (FlatIdle).  The  *)
(* invariant AssemblyInv says of an assembly at work (Ready): as long as   *)
(* the whole source is acceptable (A!Accepted), LaidOut, the list is the   *)
(* layout of what is before the cursor, the labels are the first of their  *)
(* names (Known), the patches the uses of names (Noted), no number still   *)
(* to come is taken by separators already passed (Settled); and once it    *)
(* is not, Doomed, the item or the patch that will have it refused is      *)
(* still ahead.  Every step keeps it or ends in A!Outcome                  *)
(* (AssemblerDelivers).                                                    *)
(***************************************************************************)
EXTENDS Toolchain, NumberLemmas, SequenceTheorems, TLAPS

(* Sequences.  What is in a Seq is a sequence; what is known of one; a     *)
(* function on 1 .. n is one; and so are the results of \o, Append, EXCEPT *)
(* and SubSeq.                                                             *)
LEMMA SeqOfSeq ==
  ASSUME NEW T, NEW s \in Seq(T)
  PROVE  IsSeq(s)
<1>1. Len(s) \in Nat /\ DOMAIN s = 1 .. Len(s) /\ s = [k \in 1 .. Len(s) |-> s[k]]
  OBVIOUS
<1> DEFINE R == {s[k] : k \in DOMAIN s}
<1>2. \A k \in 1 .. Len(s) : s[k] \in R
  BY <1>1
<1> HIDE DEF R
<1>3. s \in Seq(R)
  BY <1>1, <1>2
<1> QED
  BY <1>3 DEF IsSeq, R

LEMMA SeqFacts ==
  ASSUME NEW s, IsSeq(s)
  PROVE  Len(s) \in Nat /\ DOMAIN s = 1 .. Len(s) /\ s = [k \in 1 .. Len(s) |-> s[k]]
BY DEF IsSeq

LEMMA FunctionIsSeq ==
  ASSUME NEW n \in Nat, NEW s, s = [k \in 1 .. n |-> s[k]]
  PROVE  IsSeq(s) /\ Len(s) = n
<1> DEFINE R == {s[k] : k \in DOMAIN s}
<1>1. DOMAIN s = 1 .. n
  OBVIOUS
<1>2. \A k \in 1 .. n : s[k] \in R
  BY <1>1
<1> HIDE DEF R
<1>3. s \in Seq(R)
  BY <1>2
<1>4. Len(s) = n
  BY <1>1, <1>3
<1> QED
  BY <1>3, <1>4 DEF IsSeq, R

LEMMA ConcatIsSeq ==
  ASSUME NEW s, NEW t, IsSeq(s), IsSeq(t)
  PROVE  /\ IsSeq(s \o t) /\ Len(s \o t) = Len(s) + Len(t)
         /\ \A k \in 1 .. Len(s) : (s \o t)[k] = s[k]
         /\ \A k \in 1 .. Len(t) : (s \o t)[Len(s) + k] = t[k]
<1> DEFINE R == {s[k] : k \in DOMAIN s} \cup {t[k] : k \in DOMAIN t}
<1>1. s \in Seq(R) /\ t \in Seq(R)
  <2>1. /\ Len(s) \in Nat /\ s = [k \in 1 .. Len(s) |-> s[k]] /\ DOMAIN s = 1 .. Len(s)
        /\ Len(t) \in Nat /\ t = [k \in 1 .. Len(t) |-> t[k]] /\ DOMAIN t = 1 .. Len(t)
    BY SeqFacts
  <2>2. (\A k \in 1 .. Len(s) : s[k] \in R) /\ (\A k \in 1 .. Len(t) : t[k] \in R)
    BY <2>1
  <2> HIDE DEF R
  <2> QED
    BY <2>1, <2>2
<1> HIDE DEF R
<1>2. s \o t \in Seq(R)
  BY <1>1
<1>3. IsSeq(s \o t)
  BY <1>2, SeqOfSeq
<1> QED
  BY <1>1, <1>3

LEMMA AppendIsSeq ==
  ASSUME NEW s, IsSeq(s), NEW x
  PROVE  /\ IsSeq(Append(s, x)) /\ Len(Append(s, x)) = Len(s) + 1
         /\ Append(s, x)[Len(s) + 1] = x
         /\ \A k \in 1 .. Len(s) : Append(s, x)[k] = s[k]
<1> DEFINE R == {s[k] : k \in DOMAIN s} \cup {x}
<1>1. s \in Seq(R) /\ x \in R
  <2>1. Len(s) \in Nat /\ s = [k \in 1 .. Len(s) |-> s[k]] /\ DOMAIN s = 1 .. Len(s)
    BY SeqFacts
  <2>2. \A k \in 1 .. Len(s) : s[k] \in R
    BY <2>1
  <2>3. x \in R
    OBVIOUS
  <2> HIDE DEF R
  <2> QED
    BY <2>1, <2>2, <2>3
<1> HIDE DEF R
<1>2. Append(s, x) \in Seq(R)
  BY <1>1
<1>3. IsSeq(Append(s, x))
  BY <1>2, SeqOfSeq
<1> QED
  BY <1>1, <1>3

LEMMA ChangedIsSeq ==
  ASSUME NEW s, IsSeq(s), NEW i, NEW x
  PROVE  IsSeq([s EXCEPT ![i] = x]) /\ Len([s EXCEPT ![i] = x]) = Len(s)
<1> DEFINE t == [s EXCEPT ![i] = x]
<1>1. Len(s) \in Nat /\ s = [k \in 1 .. Len(s) |-> s[k]] /\ DOMAIN s = 1 .. Len(s)
  BY SeqFacts
<1>2. t = [k \in 1 .. Len(s) |-> t[k]]
  BY <1>1
<1> HIDE DEF t
<1>3. IsSeq(t) /\ Len(t) = Len(s)
  BY <1>1, <1>2, FunctionIsSeq
<1> QED
  BY <1>3 DEF t

LEMMA PrefixIsSeq ==
  ASSUME NEW s, IsSeq(s), NEW n \in 0 .. Len(s)
  PROVE  /\ IsSeq(SubSeq(s, 1, n)) /\ Len(SubSeq(s, 1, n)) = n
         /\ \A k \in 1 .. n : SubSeq(s, 1, n)[k] = s[k]
<1> DEFINE R == {s[k] : k \in DOMAIN s}
<1>1. s \in Seq(R) /\ Len(s) \in Nat
  BY SeqFacts DEF IsSeq
<1> HIDE DEF R
<1>2. SubSeq(s, 1, n) \in Seq(R)
  BY <1>1
<1>3. n \in Nat /\ n <= Len(s)
  BY <1>1
<1>4. Len(SubSeq(s, 1, n)) = n /\ \A k \in 1 .. n : SubSeq(s, 1, n)[k] = s[k]
  BY <1>1, <1>3
<1> QED
  BY <1>2, <1>4, SeqOfSeq

LEMMA EmptyIsSeq == IsSeq(<<>>) /\ Len(<<>>) = 0 /\ DOMAIN <<>> = {}
<1>1. <<>> \in Seq({}) /\ Len(<<>>) = 0
  OBVIOUS
<1>2. IsSeq(<<>>)
  BY <1>1, SeqOfSeq
<1>3. DOMAIN <<>> = 1 .. 0
  BY <1>1, <1>2, SeqFacts
<1> QED
  BY <1>1, <1>2, <1>3

LEMMA OneIsSeq ==
  ASSUME NEW x
  PROVE  IsSeq(<<x>>) /\ Len(<<x>>) = 1 /\ <<x>>[1] = x
<1>1. <<x>> \in Seq({x})
  OBVIOUS
<1>2. IsSeq(<<x>>)
  BY <1>1, SeqOfSeq
<1> QED
  BY <1>2

LEMMA TwoAreSeq ==
  ASSUME NEW x, NEW y
  PROVE  IsSeq(<<x, y>>) /\ Len(<<x, y>>) = 2 /\ <<x, y>>[1] = x /\ <<x, y>>[2] = y
<1>1. <<x, y>> \in Seq({x, y})
  OBVIOUS
<1>2. IsSeq(<<x, y>>)
  BY <1>1, SeqOfSeq
<1> QED
  BY <1>2
-----------------------------------------------------------------------------
(* The assembler's inductive invariant.                                    *)

Phases == {"idle", "code", "data", "patch", "done", "fatal"}

IsBinary(b) ==
  /\ IsSeq(b) /\ HEADER_LEN <= Len(b)
  /\ b[2] = Word(Len(b))
  /\ \E d \in {0} \cup HEADER_LEN .. Len(b) : b[5] = Word(d)

SourceInv == IsSource(sbuff) /\ head \in 1 .. Len(sbuff) + 1
ListInv ==
  /\ IsSeq(list) /\ Len(list) <= MemoryWords
  /\ phase # "idle" => HEADER_LEN <= Len(list)
  /\ dataOffset \in {0} \cup HEADER_LEN .. Len(list)
LabelsInv ==
  /\ IsSeq(labelsRegistry)
  /\ \A k \in DOMAIN labelsRegistry : labelsRegistry[k].pc \in HEADER_LEN .. Len(list)
PatchesInv ==
  IsSeq(labelsPatches) /\ patched \in 0 .. Len(labelsPatches) /\ PatchesSound

AssemblerInv ==
  /\ phase \in Phases /\ extensions \subseteq {"M", "F"}
  /\ SourceInv /\ ListInv /\ LabelsInv /\ PatchesInv
  /\ phase = "done" => IsBinary(list)

(* An assembler that has not begun satisfies its invariant.                *)
LEMMA AssemblerStarts ==
  ASSUME AssemblerInit
  PROVE  AssemblerInv
<1>1. IsSeq(<<>>) /\ Len(<<>>) = 0 /\ DOMAIN <<>> = {}
  BY EmptyIsSeq
<1>2. /\ sbuff = <<>> /\ head = 1 /\ list = <<>> /\ labelsRegistry = <<>> /\ labelsPatches = <<>>
      /\ extensions = {} /\ dataOffset = 0 /\ patched = 0 /\ phase = "idle"
  BY DEF AssemblerInit
<1>3. SourceInv
  BY <1>1, <1>2 DEF SourceInv, IsSource
<1>4. ListInv
  BY <1>1, <1>2, AssemblerAssumption DEF ListInv
<1>5. LabelsInv
  BY <1>1, <1>2 DEF LabelsInv
<1>6. PatchesInv
  BY <1>1, <1>2 DEF PatchesInv, PatchesSound
<1> QED
  BY <1>2, <1>3, <1>4, <1>5, <1>6 DEF AssemblerInv, Phases

(* So does one that has been given a source.                               *)
LEMMA AssemblyBegins ==
  ASSUME NEW source, IsSource(source), assemble(source)
  PROVE  AssemblerInv'
<1> DEFINE header == <<Magic, Word(0), Word(0), Word(0), Word(0)>>
<1>1. IsSeq(<<>>) /\ Len(<<>>) = 0 /\ DOMAIN <<>> = {}
  BY EmptyIsSeq
<1>2. /\ sbuff' = source /\ head' = 1 /\ list' = header /\ labelsRegistry' = <<>>
      /\ labelsPatches' = <<>> /\ extensions' = {} /\ dataOffset' = 0 /\ patched' = 0
      /\ phase' = "code"
  BY DEF assemble
<1>3. IsSeq(header) /\ Len(header) = 5
  <2>1. header \in Seq({Magic, Word(0)}) /\ Len(header) = 5
    OBVIOUS
  <2> HIDE DEF header
  <2> QED
    BY <2>1, SeqOfSeq
<1> HIDE DEF header
<1>4. SourceInv'
  <2>1. Len(source) \in Nat
    BY SeqFacts DEF IsSource
  <2> QED
    BY <1>2, <2>1 DEF SourceInv
<1>5. ListInv'
  BY <1>2, <1>3, AssemblerAssumption DEF ListInv, HEADER_LEN
<1>6. LabelsInv'
  BY <1>1, <1>2 DEF LabelsInv
<1>7. PatchesInv'
  BY <1>1, <1>2 DEF PatchesInv, PatchesSound
<1> QED
  BY <1>2, <1>4, <1>5, <1>6, <1>7 DEF AssemblerInv, Phases

(* A step that appends nothing and patches nothing: it moves on in the     *)
(* source, notes a label or goes to another loop.                          *)
LEMMA Moves ==
  ASSUME AssemblerInv, phase \in {"code", "data", "patch"},
         head' \in 1 .. Len(sbuff) + 1, phase' \in {"code", "data", "patch", "fatal"},
         \/ labelsRegistry' = labelsRegistry
         \/ \E name : labelsRegistry' = Labelled(labelsRegistry, name, Len(list)),
         dataOffset' \in {dataOffset, Len(list)},
         UNCHANGED <<sbuff, list, labelsPatches, extensions, patched>>
  PROVE  AssemblerInv'
<1>1. IsSeq(list) /\ Len(list) \in Nat /\ HEADER_LEN <= Len(list)
  BY SeqFacts DEF AssemblerInv, ListInv
<1>2. SourceInv'
  BY DEF AssemblerInv, SourceInv
<1>3. ListInv'
  BY <1>1 DEF AssemblerInv, ListInv, HEADER_LEN
<1>4. LabelsInv'
  <2>1. CASE labelsRegistry' = labelsRegistry
    BY <2>1 DEF AssemblerInv, LabelsInv
  <2>2. ASSUME NEW name, labelsRegistry' = Labelled(labelsRegistry, name, Len(list))
        PROVE  LabelsInv'
    <3> DEFINE l == [name |-> name, pc |-> Len(list)]
    <3>1. labelsRegistry' = Append(labelsRegistry, l) /\ l.pc = Len(list)
      BY <2>2 DEF Labelled
    <3> HIDE DEF l
    <3>2. /\ IsSeq(labelsRegistry) /\ Len(labelsRegistry) \in Nat
          /\ DOMAIN labelsRegistry = 1 .. Len(labelsRegistry)
      BY SeqFacts DEF AssemblerInv, LabelsInv
    <3>3. /\ IsSeq(labelsRegistry') /\ Len(labelsRegistry') = Len(labelsRegistry) + 1
          /\ labelsRegistry'[Len(labelsRegistry) + 1] = l
          /\ \A k \in 1 .. Len(labelsRegistry) : labelsRegistry'[k] = labelsRegistry[k]
      <4> DEFINE reg == Append(labelsRegistry, l)
      <4>1. /\ IsSeq(reg) /\ Len(reg) = Len(labelsRegistry) + 1
            /\ reg[Len(labelsRegistry) + 1] = l
            /\ \A k \in 1 .. Len(labelsRegistry) : reg[k] = labelsRegistry[k]
        BY <3>2, AppendIsSeq
      <4>2. labelsRegistry' = reg
        BY <3>1
      <4> HIDE DEF reg
      <4> QED
        BY <4>1, <4>2
    <3>4. DOMAIN labelsRegistry' = 1 .. Len(labelsRegistry) + 1
      BY <3>3, SeqFacts
    <3>5. ASSUME NEW k \in 1 .. Len(labelsRegistry) + 1
          PROVE  labelsRegistry'[k].pc \in HEADER_LEN .. Len(list)
      <4>1. CASE k = Len(labelsRegistry) + 1
        BY <1>1, <3>1, <3>3, <4>1 DEF HEADER_LEN
      <4>2. CASE k \in 1 .. Len(labelsRegistry)
        BY <3>2, <3>3, <4>2 DEF AssemblerInv, LabelsInv
      <4> QED
        BY <3>2, <4>1, <4>2
    <3> QED
      BY <3>3, <3>4, <3>5 DEF LabelsInv
  <2> QED
    BY <2>1, <2>2
<1>5. PatchesInv'
  BY DEF AssemblerInv, PatchesInv, PatchesSound
<1> QED
  BY <1>2, <1>3, <1>4, <1>5 DEF AssemblerInv, Phases

(* A step that appends words, and may note a name used: by word 0, or by   *)
(* the one word appended, whose immediate is still zero.                   *)
UsesName(w, name) ==
  /\ "imm" \in DOMAIN w /\ w.imm = 0
  /\ labelsPatches' = Labelled(labelsPatches, name, Len(list))

(* A word is appended, and what it names is noted: the patches stay those  *)
(* of immediates that are zero.                                            *)
LEMMA Lengthened ==
  ASSUME AssemblerInv, phase \in {"code", "data"}, phase' \in {"code", "data", "patch"},
         NEW words, IsSeq(words), Room(words), list' = list \o words,
         head' \in 1 .. Len(sbuff) + 1, extensions' \subseteq {"M", "F"},
         \/ labelsPatches' = labelsPatches
         \/ \E name : labelsPatches' = Labelled(labelsPatches, name, 0)
         \/ \E name : Len(words) = 1 /\ UsesName(words[1], name),
         UNCHANGED <<sbuff, labelsRegistry, dataOffset, patched>>
  PROVE  AssemblerInv'
<1>1. IsSeq(list) /\ Len(list) \in Nat /\ HEADER_LEN <= Len(list) /\ Len(words) \in Nat
  BY SeqFacts DEF AssemblerInv, ListInv
<1>2. /\ IsSeq(list') /\ Len(list') = Len(list) + Len(words)
      /\ \A k \in 1 .. Len(list) : list'[k] = list[k]
      /\ \A k \in 1 .. Len(words) : list'[Len(list) + k] = words[k]
  BY <1>1, ConcatIsSeq
<1>3. SourceInv'
  BY DEF AssemblerInv, SourceInv
<1>4. ListInv'
  <2>1. Len(list') <= MemoryWords
    BY <1>2 DEF Room
  <2> QED
    BY <1>1, <1>2, <2>1 DEF AssemblerInv, ListInv, HEADER_LEN
<1>5. LabelsInv'
  BY <1>1, <1>2 DEF AssemblerInv, LabelsInv, HEADER_LEN
<1>6. /\ IsSeq(labelsPatches) /\ Len(labelsPatches) \in Nat /\ patched \in 0 .. Len(labelsPatches)
  BY SeqFacts DEF AssemblerInv, PatchesInv
<1>7. ASSUME NEW k \in patched + 1 .. Len(labelsPatches)
      PROVE  LET pc == labelsPatches[k].pc IN
               \/ pc = 0
               \/ /\ pc \in HEADER_LEN .. Len(list) - 1 /\ pc # 0
                  /\ "imm" \in DOMAIN list'[pc + 1] /\ list'[pc + 1].imm = 0
                  /\ \A j \in k + 1 .. Len(labelsPatches) : labelsPatches[j].pc # pc
  <2> DEFINE pc == labelsPatches[k].pc
  <2>1. \/ pc = 0
        \/ /\ pc \in HEADER_LEN .. Len(list) - 1
           /\ "imm" \in DOMAIN list[pc + 1] /\ list[pc + 1].imm = 0
           /\ \A j \in k + 1 .. Len(labelsPatches) : labelsPatches[j].pc # pc
    BY DEF AssemblerInv, PatchesInv, PatchesSound
  <2> HIDE DEF pc
  <2>2. ASSUME pc \in HEADER_LEN .. Len(list) - 1
        PROVE  list'[pc + 1] = list[pc + 1] /\ pc # 0
    <3>1. pc + 1 \in 1 .. Len(list) /\ pc # 0
      BY <1>1, <2>2 DEF HEADER_LEN
    <3> QED
      BY <1>2, <3>1
  <2>3. \/ pc = 0
        \/ /\ pc \in HEADER_LEN .. Len(list) - 1 /\ pc # 0
           /\ "imm" \in DOMAIN list'[pc + 1] /\ list'[pc + 1].imm = 0
           /\ \A j \in k + 1 .. Len(labelsPatches) : labelsPatches[j].pc # pc
    <3>1. CASE pc = 0
      BY <3>1
    <3>2. CASE pc # 0
      BY <2>1, <2>2, <3>2
    <3> QED
      BY <3>1, <3>2
  <2> QED
    BY <2>3 DEF pc
<1>8. CASE labelsPatches' = labelsPatches
  <2>1. PatchesSound'
    <3>1. \A n \in HEADER_LEN .. Len(list) - 1 : n \in HEADER_LEN .. Len(list') - 1
      BY <1>1, <1>2 DEF HEADER_LEN
    <3>2. patched' = patched
      OBVIOUS
    <3> QED
      BY <1>7, <1>8, <3>1, <3>2 DEF PatchesSound
  <2> QED
    BY <1>3, <1>4, <1>5, <1>6, <1>8, <2>1 DEF AssemblerInv, Phases, PatchesInv
<1>9. ASSUME NEW name, NEW at0, labelsPatches' = Labelled(labelsPatches, name, at0),
             \/ at0 = 0
             \/ at0 = Len(list) /\ Len(words) = 1 /\ "imm" \in DOMAIN words[1] /\ words[1].imm = 0
      PROVE  AssemblerInv'
  <2> DEFINE l == [name |-> name, pc |-> at0]
             n == Len(labelsPatches)
  <2>1. labelsPatches' = Append(labelsPatches, l) /\ l.pc = at0
    BY <1>9 DEF Labelled
  <2> HIDE DEF l
  <2>2. /\ IsSeq(labelsPatches') /\ Len(labelsPatches') = n + 1
        /\ labelsPatches'[n + 1] = l
        /\ \A k \in 1 .. n : labelsPatches'[k] = labelsPatches[k]
    BY <1>6, <2>1, AppendIsSeq
  <2>3. at0 = 0 \/ (at0 \in HEADER_LEN .. Len(list') - 1 /\ "imm" \in DOMAIN list'[at0 + 1]
                      /\ list'[at0 + 1].imm = 0)
    BY <1>1, <1>2, <1>9 DEF HEADER_LEN
  <2>4. ASSUME NEW k \in patched + 1 .. n + 1
        PROVE  LET pc == labelsPatches'[k].pc IN
                 \/ pc = 0
                 \/ /\ pc \in HEADER_LEN .. Len(list') - 1
                    /\ "imm" \in DOMAIN list'[pc + 1] /\ list'[pc + 1].imm = 0
                    /\ \A j \in k + 1 .. n + 1 : labelsPatches'[j].pc # pc
    <3>1. CASE k = n + 1
      <4>1. labelsPatches'[k].pc = at0
        BY <2>1, <2>2, <3>1
      <4>2. \A j \in k + 1 .. n + 1 : FALSE
        BY <1>6, <3>1
      <4> QED
        BY <2>3, <4>1, <4>2
    <3>2. CASE k \in patched + 1 .. n
      <4> DEFINE pc == labelsPatches[k].pc
      <4>1. labelsPatches'[k].pc = pc
        BY <1>6, <2>2, <3>2
      <4>2. \/ pc = 0
            \/ /\ pc \in HEADER_LEN .. Len(list) - 1 /\ pc # 0
               /\ "imm" \in DOMAIN list'[pc + 1] /\ list'[pc + 1].imm = 0
               /\ \A j \in k + 1 .. n : labelsPatches[j].pc # pc
        BY <1>7, <3>2
      <4> HIDE DEF pc
      <4>3. CASE pc = 0
        BY <4>1, <4>3
      <4>4. CASE /\ pc \in HEADER_LEN .. Len(list) - 1 /\ pc # 0
                 /\ \A j \in k + 1 .. n : labelsPatches[j].pc # pc
        <5>1. pc # at0
          BY <1>1, <1>9, <4>4 DEF HEADER_LEN
        <5>2. ASSUME NEW j \in k + 1 .. n + 1
              PROVE  labelsPatches'[j].pc # pc
          <6>1. CASE j = n + 1
            BY <2>1, <2>2, <5>1, <6>1
          <6>2. CASE j \in k + 1 .. n
            <7>1. j \in 1 .. n
              BY <1>6, <3>2, <6>2
            <7>2. labelsPatches'[j] = labelsPatches[j]
              BY <2>2, <7>1
            <7>3. labelsPatches[j].pc # pc
              BY <4>4, <6>2
            <7> QED
              BY <7>2, <7>3
          <6>3. j = n + 1 \/ j \in k + 1 .. n
            <7>1. n \in Nat /\ k \in Nat
              BY <1>6, <3>2
            <7> HIDE DEF n
            <7> QED
              BY <7>1
          <6> QED
            BY <6>1, <6>2, <6>3
        <5>3. pc \in HEADER_LEN .. Len(list') - 1
          BY <1>1, <1>2, <4>4 DEF HEADER_LEN
        <5>4. pc # 0
          BY <4>4
        <5>5. "imm" \in DOMAIN list'[pc + 1] /\ list'[pc + 1].imm = 0
          BY <4>2, <5>4
        <5> QED
          BY <4>1, <5>2, <5>3, <5>5
      <4> QED
        BY <4>2, <4>3, <4>4
    <3>3. k = n + 1 \/ k \in patched + 1 .. n
      BY <1>6
    <3> QED
      BY <3>1, <3>2, <3>3
  <2>5. PatchesSound'
    BY <2>2, <2>4 DEF PatchesSound
  <2>6. PatchesInv'
    BY <1>6, <2>2, <2>5 DEF PatchesInv
  <2> QED
    BY <1>3, <1>4, <1>5, <2>6 DEF AssemblerInv, Phases
<1> QED
  BY <1>8, <1>9 DEF UsesName

(* The item the scanner is at, if any, is an item of the source.           *)
LEMMA HereAndNext ==
  ASSUME AssemblerInv
  PROVE  /\ Len(sbuff) \in Nat /\ head \in Nat
         /\ head \in 1 .. Len(sbuff) + 1
         /\ \A k \in 1 .. Len(sbuff) + 1 : skipSep(k) \in 1 .. Len(sbuff) + 1
         /\ ~AtEnd => head + 1 \in 1 .. Len(sbuff) + 1 /\ head \in DOMAIN sbuff
<1>1. Len(sbuff) \in Nat /\ DOMAIN sbuff = 1 .. Len(sbuff) /\ head \in 1 .. Len(sbuff) + 1
  BY SeqFacts DEF AssemblerInv, SourceInv, IsSource
<1> QED
  BY <1>1 DEF skipSep, Blank, AtEnd

(* The turns of the loop over the code.                                    *)
LEMMA CodeKeeps ==
  ASSUME AssemblerInv, Code
  PROVE  AssemblerInv'
<1> USE DEF At
<1>1. /\ \A k \in 1 .. Len(sbuff) + 1 : skipSep(k) \in 1 .. Len(sbuff) + 1
      /\ ~AtEnd => head + 1 \in 1 .. Len(sbuff) + 1
      /\ head \in 1 .. Len(sbuff) + 1
  BY HereAndNext
<1>2. CASE CodeSkips
  <2>1. phase = "code" /\ \E next \in 1 .. Len(sbuff) + 1 : Skip(next)
    BY <1>1, <1>2 DEF CodeSkips
  <2> QED
    BY <2>1, Moves DEF Skip
<1>3. CASE CodeLabel
  BY <1>1, <1>3, Moves DEF CodeLabel
<1>4. CASE CodeInstr
  <2> DEFINE w == Encoded(Item)
  <2>1. /\ phase = "code" /\ phase' = phase /\ list' = list \o <<w>> /\ Room(<<1>>) /\ ~AtEnd
        /\ labelsPatches' = IF Names(Item) THEN Labelled(labelsPatches, Item.ref, Len(list))
                                           ELSE labelsPatches
        /\ extensions' = extensions \cup ExtensionsOf(Item.mn)
        /\ UNCHANGED <<sbuff, labelsRegistry, dataOffset, patched>>
    BY <1>4 DEF CodeInstr, Append_
  <2>2. head' \in 1 .. Len(sbuff) + 1
    BY <1>1, <1>4 DEF CodeInstr
  <2>3. extensions' \subseteq {"M", "F"}
    BY <2>1 DEF AssemblerInv, ExtensionsOf
  <2>4. Names(Item) => "imm" \in DOMAIN w /\ w.imm = 0
    <3>1. SUFFICES ASSUME Names(Item)
                   PROVE  "imm" \in DOMAIN w /\ w.imm = 0
      OBVIOUS
    <3>2. Immediate(Item) = 0
      BY <3>1 DEF Immediate
    <3>3. ASSUME NEW op
          PROVE  Wrap(0, Width(op)) = 0
      <4> DEFINE size == 2 ^ Width(op)
      <4>1. size \in Nat \ {0}
        BY AssemblerAssumption DEF Width
      <4> HIDE DEF size
      <4>2. 0 % size = 0
        BY <4>1
      <4> QED
        BY <4>2 DEF Wrap, size
    <3> QED
      BY <3>2, <3>3 DEF Encoded
  <2> HIDE DEF w
  <2>5. IsSeq(<<w>>) /\ Len(<<w>>) = 1 /\ <<w>>[1] = w /\ Len(<<1>>) = 1
    BY OneIsSeq
  <2>6. Room(<<w>>)
    BY <2>1, <2>5 DEF Room
  <2>7. \/ labelsPatches' = labelsPatches
        \/ \E name : Len(<<w>>) = 1 /\ UsesName(<<w>>[1], name)
    BY <2>1, <2>4, <2>5 DEF UsesName
  <2> QED
    BY <2>1, <2>2, <2>3, <2>5, <2>6, <2>7, Lengthened
<1>5. CASE CodeData
  BY <1>1, <1>5, Moves DEF CodeData
<1>6. CASE CodeRefused
  <2>1. phase = "code" /\ Fatal
    BY <1>6 DEF CodeRefused
  <2> QED
    BY <1>1, <2>1, Moves DEF Fatal
<1>7. CASE CodeEnds
  BY <1>1, <1>7, Moves DEF CodeEnds
<1> QED
  BY <1>2, <1>3, <1>4, <1>5, <1>6, <1>7 DEF Code

(* The text after the blanks and line ends is found.                       *)
LEMMA NextTextFound ==
  ASSUME AssemblerInv
  PROVE  NextText \in head .. Len(sbuff) + 1
<1>1. Len(sbuff) \in Nat /\ head \in Nat /\ head \in 1 .. Len(sbuff) + 1
  BY HereAndNext
<1> DEFINE Ends(k) == k = Len(sbuff) + 1 \/ sbuff[k].t \notin {"blank", "nl"}
           S == {k \in head .. Len(sbuff) + 1 : Ends(k)}
<1>2. S \subseteq Nat /\ Len(sbuff) + 1 \in S
  BY <1>1
<1>3. PICK m \in S : \A y \in S : m <= y
  BY <1>2, LeastElement
<1>4. /\ m \in head .. Len(sbuff) + 1
      /\ m = Len(sbuff) + 1 \/ sbuff[m].t \notin {"blank", "nl"}
  BY <1>3
<1>5. ASSUME NEW j \in head .. m - 1
      PROVE  sbuff[j].t \in {"blank", "nl"}
  <2>1. j \notin S /\ j \in head .. Len(sbuff) + 1
    BY <1>1, <1>3, <1>4
  <2> QED
    BY <2>1
<1> HIDE DEF S, Ends
<1>6. \E k \in head .. Len(sbuff) + 1 :
        /\ k = Len(sbuff) + 1 \/ sbuff[k].t \notin {"blank", "nl"}
        /\ \A j \in head .. k - 1 : sbuff[j].t \in {"blank", "nl"}
  BY <1>4, <1>5
<1> QED
  BY <1>6 DEF NextText

(* The turns of the loop over .data.                                       *)
LEMMA DataKeeps ==
  ASSUME AssemblerInv, Data
  PROVE  AssemblerInv'
<1> USE DEF At
<1>1. /\ ~AtEnd => head + 1 \in 1 .. Len(sbuff) + 1 /\ head \in DOMAIN sbuff
      /\ head \in 1 .. Len(sbuff) + 1 /\ Len(sbuff) \in Nat
  BY HereAndNext
<1>2. ASSUME NEW words, IsSeq(words), NEW next \in 1 .. Len(sbuff) + 1, phase = "data",
             getData(words, next)
      PROVE  AssemblerInv'
  BY <1>2, Lengthened DEF getData, Append_, AssemblerInv
<1>3. IsSeq(<<Word(0)>>) /\ Len(<<Word(0)>>) = 1 /\ Len(<<1>>) = 1
  BY OneIsSeq
<1>4. CASE DataSkips
  <2>1. phase = "data" /\ \E next \in 1 .. Len(sbuff) + 1 : Skip(next)
    BY <1>1, <1>4 DEF DataSkips
  <2> QED
    BY <2>1, Moves DEF Skip
<1>5. CASE DataLabel
  BY <1>1, <1>5, Moves DEF DataLabel
<1>6. CASE DataValue
  <2>1. CASE At("data", {"num", "dbl", "str"}) /\ getData(DataWords(Item), head + 1)
    <3>1. IsSeq(DataWords(Item))
      <4>1. CASE Item.t = "num"
        BY <4>1, OneIsSeq DEF DataWords
      <4>2. CASE Item.t = "dbl"
        BY <4>2, OneIsSeq DEF DataWords
      <4>3. CASE Item.t = "str"
        <5> DEFINE chars == [k \in 1 .. Len(Item.chars) |-> Word(Item.chars[k])]
        <5>1. IsSeq(Item.chars)
          BY <1>1, <2>1, <4>3 DEF AssemblerInv, SourceInv, IsSource, Item
        <5>2. Len(Item.chars) \in Nat
          BY <5>1, SeqFacts
        <5>3. IsSeq(chars)
          BY <5>2, FunctionIsSeq
        <5>4. DataWords(Item) = chars \o <<Word(0)>>
          BY <4>3 DEF DataWords
        <5> HIDE DEF chars
        <5> QED
          BY <1>3, <5>3, <5>4, ConcatIsSeq
      <4> QED
        BY <2>1, <4>1, <4>2, <4>3 DEF Item
    <3> QED
      BY <1>1, <1>2, <2>1, <3>1
  <2>2. CASE BlankLine /\ NumberNext /\ getData(SpilledWords(sbuff[NextText]), NextText + 1)
    <3>1. IsSeq(SpilledWords(sbuff[NextText]))
      BY OneIsSeq, TwoAreSeq DEF SpilledWords
    <3>2. NextText + 1 \in 1 .. Len(sbuff) + 1
      BY <1>1, <2>2, NextTextFound DEF NumberNext
    <3> QED
      BY <1>2, <2>2, <3>1, <3>2 DEF BlankLine
  <2>3. CASE BlankLine /\ getData(<<Word(0)>>, head + 1)
    BY <1>1, <1>2, <1>3, <2>3 DEF BlankLine
  <2> QED
    BY <1>6, <2>1, <2>2, <2>3 DEF DataValue
<1>7. CASE DataJunk
  BY <1>1, <1>2, <1>3, <1>7 DEF DataJunk
<1>8. CASE DataName
  <2>1. /\ phase = "data" /\ phase' = phase /\ list' = list \o <<Word(0)>> /\ Room(<<1>>)
        /\ head' = head + 1 /\ ~AtEnd /\ \E name : labelsPatches' = Labelled(labelsPatches, name, 0)
        /\ UNCHANGED <<sbuff, labelsRegistry, extensions, dataOffset, patched>>
    BY <1>8 DEF DataName, Append_, NameUser
  <2>2. Room(<<Word(0)>>)
    BY <1>3, <2>1 DEF Room
  <2> QED
    BY <1>1, <1>3, <2>1, <2>2, Lengthened DEF AssemblerInv
<1>9. CASE DataRefused
  <2>1. phase = "data" /\ Fatal
    BY <1>9 DEF DataRefused, BlankLine
  <2> QED
    BY <1>1, <2>1, Moves DEF Fatal
<1>10. CASE DataEnds
  <2>1. Room(<<Word(0)>>)
    BY <1>3, <1>10 DEF Room, DataEnds
  <2> QED
    BY <1>1, <1>3, <1>10, <2>1, Lengthened DEF AssemblerInv, DataEnds, Append_
<1> QED
  BY <1>4, <1>5, <1>6, <1>7, <1>8, <1>9, <1>10 DEF Data

(* The loop over the patches: a patch goes into a zero immediate, and as   *)
(* no word is recorded twice it leaves the others' words alone.            *)
LEMMA PatchesKeep ==
  ASSUME AssemblerInv, Patches
  PROVE  AssemblerInv'
<1>1. /\ IsSeq(list) /\ Len(list) \in Nat /\ DOMAIN list = 1 .. Len(list)
      /\ IsSeq(labelsPatches) /\ Len(labelsPatches) \in Nat /\ patched \in 0 .. Len(labelsPatches)
      /\ head \in 1 .. Len(sbuff) + 1
  BY SeqFacts, HereAndNext DEF AssemblerInv, ListInv, PatchesInv
<1>2. CASE PatchApplied
  <2> DEFINE pc == Patch.pc
             word == [list[pc + 1] EXCEPT !.imm =
                        @ + PatchValue(list[pc + 1].op, AddressOf(Patch.name), pc)]
  <2>1. /\ phase = "patch" /\ phase' = phase /\ patched < Len(labelsPatches) /\ patched' = patched + 1
        /\ pc # 0 /\ list' = [list EXCEPT ![pc + 1] = word]
        /\ UNCHANGED <<sbuff, head, labelsRegistry, labelsPatches, extensions, dataOffset>>
    BY <1>2 DEF PatchApplied, Patchable
  <2> HIDE DEF word
  <2>2. IsSeq(list') /\ Len(list') = Len(list)
    BY <1>1, <2>1, ChangedIsSeq
  <2>3. patched' \in 0 .. Len(labelsPatches)
    BY <1>1, <2>1
  <2>4. patched + 1 \in patched + 1 .. Len(labelsPatches)
    BY <1>1, <2>1
  <2>5. \A j \in patched + 2 .. Len(labelsPatches) : labelsPatches[j].pc # pc
    <3>1. (patched + 1) + 1 = patched + 2
      BY <1>1
    <3> QED
      BY <2>1, <2>4, <3>1 DEF AssemblerInv, PatchesInv, PatchesSound, Patch
  <2>6. PatchesSound'
    <3>1. SUFFICES ASSUME NEW k \in patched + 2 .. Len(labelsPatches)
                   PROVE  LET q == labelsPatches[k].pc IN
                            \/ q = 0
                            \/ /\ q \in HEADER_LEN .. Len(list) - 1
                               /\ "imm" \in DOMAIN list'[q + 1] /\ list'[q + 1].imm = 0
                               /\ \A j \in k + 1 .. Len(labelsPatches) : labelsPatches[j].pc # q
      <4>1. patched' + 1 = patched + 2
        BY <1>1, <2>1
      <4> QED
        BY <2>1, <2>2, <4>1 DEF PatchesSound
    <3> DEFINE q == labelsPatches[k].pc
    <3>2. k \in patched + 1 .. Len(labelsPatches)
      BY <1>1
    <3>3. \/ q = 0
          \/ /\ q \in HEADER_LEN .. Len(list) - 1
             /\ "imm" \in DOMAIN list[q + 1] /\ list[q + 1].imm = 0
             /\ \A j \in k + 1 .. Len(labelsPatches) : labelsPatches[j].pc # q
      BY <3>2 DEF AssemblerInv, PatchesInv, PatchesSound
    <3>4. q # pc
      BY <2>5
    <3>5. pc = 0 \/ pc \in HEADER_LEN .. Len(list) - 1
      BY <2>4 DEF AssemblerInv, PatchesInv, PatchesSound, Patch
    <3> HIDE DEF q, pc
    <3>6. q \in HEADER_LEN .. Len(list) - 1 => list'[q + 1] = list[q + 1]
      <4>1. SUFFICES ASSUME q \in HEADER_LEN .. Len(list) - 1
                     PROVE  list'[q + 1] = list[q + 1]
        OBVIOUS
      <4>2. q + 1 # pc + 1 /\ q + 1 \in 1 .. Len(list)
        BY <1>1, <2>1, <3>4, <3>5, <4>1 DEF HEADER_LEN
      <4> QED
        BY <1>1, <2>1, <4>2
    <3> QED
      BY <3>3, <3>6 DEF q
  <2> QED
    BY <2>1, <2>2, <2>3, <2>6
       DEF AssemblerInv, SourceInv, ListInv, LabelsInv, PatchesInv, Phases
<1>3. CASE PatchRefused
  BY <1>1, <1>3, Moves DEF PatchRefused, Fatal
<1>4. CASE Finish
  <2> DEFINE l2 == [list EXCEPT ![2] = Word(Len(list))]
             l3 == [l2 EXCEPT ![3] = Word(EntryPoint)]
             l4 == [l3 EXCEPT ![4] = [extensions |-> extensions]]
             l5 == [l4 EXCEPT ![5] = Word(dataOffset)]
  <2>1. /\ phase = "patch" /\ phase' = "done" /\ patched = Len(labelsPatches) /\ list' = l5
        /\ UNCHANGED <<sbuff, head, labelsRegistry, labelsPatches, extensions, dataOffset, patched>>
    BY <1>4 DEF Finish
  <2>2. IsSeq(l2) /\ Len(l2) = Len(list)
    BY <1>1, ChangedIsSeq
  <2>3. IsSeq(l3) /\ Len(l3) = Len(list)
    BY <2>2, ChangedIsSeq
  <2>4. IsSeq(l4) /\ Len(l4) = Len(list)
    BY <2>3, ChangedIsSeq
  <2>5. IsSeq(l5) /\ Len(l5) = Len(list)
    BY <2>4, ChangedIsSeq
  <2>6. HEADER_LEN <= Len(list) /\ dataOffset \in {0} \cup HEADER_LEN .. Len(list)
    BY <2>1 DEF AssemblerInv, ListInv
  <2>7. l5[2] = Word(Len(list)) /\ l5[5] = Word(dataOffset)
    <3>1. 2 \in DOMAIN list /\ 5 \in DOMAIN list
      BY <1>1, <2>6 DEF HEADER_LEN
    <3> QED
      BY <3>1
  <2> HIDE DEF l5
  <2>8. IsBinary(list')
    BY <2>1, <2>5, <2>6, <2>7 DEF IsBinary
  <2>9. PatchesSound'
    BY <1>1, <2>1 DEF PatchesSound
  <2> QED
    BY <2>1, <2>5, <2>8, <2>9
       DEF AssemblerInv, SourceInv, ListInv, LabelsInv, PatchesInv, Phases
<1> QED
  BY <1>2, <1>3, <1>4 DEF Patches

(* Every turn of the assembler keeps its invariant.                        *)
LEMMA AssemblerKeeps ==
  ASSUME AssemblerInv, Assembles
  PROVE  AssemblerInv'
BY CodeKeeps, DataKeeps, PatchesKeep DEF Assembles
-----------------------------------------------------------------------------
(* What the disassembler writes is a source.                               *)

(* Two sources, one after the other, are a source.                         *)
LEMMA JoinedSources ==
  ASSUME NEW s, NEW t, IsSource(s), IsSource(t)
  PROVE  IsSource(s \o t)
<1>1. /\ IsSeq(s \o t) /\ Len(s \o t) = Len(s) + Len(t) /\ Len(s) \in Nat /\ Len(t) \in Nat
      /\ DOMAIN s = 1 .. Len(s) /\ DOMAIN t = 1 .. Len(t)
      /\ \A k \in 1 .. Len(s) : (s \o t)[k] = s[k]
      /\ \A k \in 1 .. Len(t) : (s \o t)[Len(s) + k] = t[k]
  BY ConcatIsSeq, SeqFacts DEF IsSource
<1> DEFINE u == s \o t
<1> HIDE DEF u
<1>2. DOMAIN u = 1 .. Len(s) + Len(t)
  BY <1>1, SeqFacts DEF u
<1>3. ASSUME NEW k \in 1 .. Len(s) + Len(t), u[k].t = "str"
      PROVE  IsSeq(u[k].chars)
  <2>1. CASE k \in 1 .. Len(s)
    BY <1>1, <1>3, <2>1 DEF IsSource, u
  <2>2. CASE k - Len(s) \in 1 .. Len(t)
    <3> DEFINE j == k - Len(s)
    <3>1. k = Len(s) + j /\ j \in 1 .. Len(t)
      BY <1>1, <2>2
    <3> HIDE DEF j
    <3>2. u[k] = t[j]
      BY <1>1, <3>1 DEF u
    <3> QED
      BY <1>1, <1>3, <3>1, <3>2 DEF IsSource
  <2>3. k \in 1 .. Len(s) \/ k - Len(s) \in 1 .. Len(t)
    BY <1>1
  <2> QED
    BY <2>1, <2>2, <2>3
<1> QED
  BY <1>1, <1>2, <1>3 DEF IsSource, u

(* So are an item and nothing at all.                                      *)
LEMMA ShortSources ==
  /\ IsSource(<<>>)
  /\ \A x : (x.t = "str" => IsSeq(x.chars)) => IsSource(<<x>>)
  /\ \A x, y : x.t # "str" /\ y.t # "str" => IsSource(<<x, y>>)
<1>1. IsSource(<<>>)
  BY EmptyIsSeq DEF IsSource
<1>2. ASSUME NEW x, x.t = "str" => IsSeq(x.chars)
      PROVE  IsSource(<<x>>)
  <2>1. IsSeq(<<x>>) /\ <<x>>[1] = x /\ DOMAIN <<x>> = {1}
    <3>1. IsSeq(<<x>>) /\ Len(<<x>>) = 1 /\ <<x>>[1] = x
      BY OneIsSeq
    <3>2. DOMAIN <<x>> = 1 .. 1
      BY <3>1, SeqFacts
    <3> QED
      BY <3>1, <3>2
  <2> QED
    BY <1>2, <2>1 DEF IsSource
<1>3. ASSUME NEW x, NEW y, x.t # "str", y.t # "str"
      PROVE  IsSource(<<x, y>>)
  <2>1. IsSeq(<<x, y>>) /\ <<x, y>>[1] = x /\ <<x, y>>[2] = y /\ DOMAIN <<x, y>> = 1 .. 2
    <3>1. IsSeq(<<x, y>>) /\ Len(<<x, y>>) = 2 /\ <<x, y>>[1] = x /\ <<x, y>>[2] = y
      BY TwoAreSeq
    <3>2. DOMAIN <<x, y>> = 1 .. 2
      BY <3>1, SeqFacts
    <3> QED
      BY <3>1, <3>2
  <2>2. \A k \in 1 .. 2 : k = 1 \/ k = 2
    OBVIOUS
  <2> QED
    BY <1>3, <2>1, <2>2 DEF IsSource
<1> QED
  BY <1>1, <1>2, <1>3

(* A line of the listing, however the word is written, is a source.        *)
LEMMA LineIsSource ==
  ASSUME NEW w
  PROVE  IsSource(Dis!Line(w))
<1>1. Dis!Bare(w).t = "instr" /\ Dis!Wide(w).t = "instr"
  BY DEF Dis!Bare, Dis!Wide
<1>2. IsSource(<<Dis!Bare(w)>>) /\ IsSource(<<Dis!Wide(w)>>)
  BY <1>1, ShortSources
<1>3. IsSource(Dis!FloatLine(w))
  <2> DEFINE x == [t |-> "instr", mn |-> Dis!NameOf(w), regs |-> Dis!FieldsOf(w), ref |-> "inf"]
             y == [t |-> "junk"]
             z == [t |-> "instr", mn |-> Dis!NameOf(w), regs |-> Dis!FieldsOf(w), imm |-> w.imm]
  <2>1. x.t # "str" /\ y.t # "str" /\ z.t # "str"
    OBVIOUS
  <2>2. Dis!FloatLine(w) = IF w.imm \in Infinite THEN <<x, y>> ELSE <<z>>
    BY DEF Dis!FloatLine
  <2> HIDE DEF x, y, z
  <2> QED
    BY <2>1, <2>2, ShortSources
<1>4. Dis!Line(w) \in {<<Dis!Bare(w)>>, <<Dis!Wide(w)>>, Dis!FloatLine(w)}
  BY DEF Dis!Line
<1> QED
  BY <1>2, <1>3, <1>4

(* The recursion over the code has a solution, and it is what CodeLines    *)
(* takes: by induction on where it has got to (LeastElement).              *)
MainAt(b, i) == IF i - 1 = Dis!Entry(b) THEN Dis!MainLabel ELSE <<>>
CodeUpTo(b, lines, i) ==
  lines[i] = IF i <= HEADER_LEN THEN <<>>
             ELSE lines[i - 1] \o MainAt(b, i) \o Dis!Line(b[i]) \o Dis!nl

LEMMA CodeLinesAre ==
  ASSUME NEW b, NEW n \in Nat, Dis!CodeEnd(b) = n
  PROVE  \E lines : Dis!CodeLines(b) = lines[n] /\ \A i \in 0 .. n : CodeUpTo(b, lines, i)
<1> DEFINE Here(i) == IF i - 1 = Dis!Entry(b) THEN Dis!MainLabel ELSE <<>>
           Next_(f, i) == IF i <= HEADER_LEN THEN <<>>
                          ELSE f[i - 1] \o Here(i) \o Dis!Line(b[i]) \o Dis!nl
           Solves(f, m) == f = [i \in 0 .. m |-> Next_(f, i)]
<1>1. \A m \in Nat : \E f : Solves(f, m)
  <2> DEFINE Bad == {m \in Nat : ~\E f : Solves(f, m)}
  <2>1. SUFFICES ASSUME Bad # {}
                 PROVE  FALSE
    OBVIOUS
  <2>2. PICK m \in Bad : \A y \in Bad : m <= y
    BY <2>1, LeastElement
  <2>3. m \in Nat /\ ~\E f : Solves(f, m)
    BY <2>2
  <2>4. CASE m = 0
    <3> DEFINE f == [i \in 0 .. 0 |-> <<>>]
    <3>1. f = [i \in 0 .. 0 |-> Next_(f, i)]
      BY DEF HEADER_LEN
    <3> QED
      BY <2>3, <2>4, <3>1
  <2>5. CASE m # 0
    <3>1. m - 1 \in Nat /\ m - 1 \notin Bad
      <4>1. m - 1 \in Nat /\ ~(m <= m - 1)
        BY <2>3, <2>5
      <4> HIDE DEF Bad
      <4> QED
        BY <2>2, <4>1
    <3>2. PICK f : Solves(f, m - 1)
      BY <3>1
    <3> DEFINE g == [i \in 0 .. m |-> IF i = m THEN Next_(f, m) ELSE f[i]]
    <3>3. ASSUME NEW i \in 0 .. m
          PROVE  g[i] = Next_(g, i)
      <4>1. CASE i <= HEADER_LEN
        <5>1. i # m => f[i] = <<>>
          BY <2>3, <3>2, <4>1
        <5> QED
          BY <4>1, <5>1
      <4>2. CASE ~(i <= HEADER_LEN)
        <5>1. i - 1 \in 0 .. m /\ i - 1 # m /\ i - 1 \in 0 .. m - 1
          BY <2>3, <4>2 DEF HEADER_LEN
        <5>2. g[i - 1] = f[i - 1]
          BY <5>1
        <5>3. Next_(g, i) = Next_(f, i)
          BY <5>2
        <5>4. i # m => f[i] = Next_(f, i)
          <6>1. f = [k \in 0 .. m - 1 |-> Next_(f, k)]
            BY <3>2
          <6>2. i # m => i \in 0 .. m - 1
            BY <2>3
          <6> HIDE DEF Next_
          <6> QED
            BY <6>1, <6>2
        <5>5. g[i] = IF i = m THEN Next_(f, i) ELSE f[i]
          OBVIOUS
        <5> HIDE DEF g, Next_
        <5> QED
          BY <5>3, <5>4, <5>5
      <4> QED
        BY <4>1, <4>2
    <3>4. Solves(g, m)
      BY <3>3
    <3> QED
      BY <2>3, <3>4
  <2> QED
    BY <2>4, <2>5
<1> DEFINE Lines == CHOOSE f : Solves(f, n)
<1>2. Solves(Lines, n)
  BY <1>1
<1>3. Dis!CodeLines(b) = Lines[n]
  BY DEF Dis!CodeLines
<1> HIDE DEF Lines
<1>4. \A i \in 0 .. n : CodeUpTo(b, Lines, i)
  BY <1>2 DEF CodeUpTo, MainAt
<1> QED
  BY <1>3, <1>4

(* Up to any word, they are a source.                                      *)
LEMMA CodeLinesAreSources ==
  ASSUME NEW b, NEW n \in Nat, NEW Lines, \A i \in 0 .. n : CodeUpTo(b, Lines, i)
  PROVE  \A i \in 0 .. n : IsSource(Lines[i])
<1> DEFINE Bad == {i \in 0 .. n : ~IsSource(Lines[i])}
<1>1. SUFFICES ASSUME Bad # {}
               PROVE  FALSE
  OBVIOUS
<1>2. PICK i \in Bad : \A y \in Bad : i <= y
  <2>1. Bad \subseteq Nat
    OBVIOUS
  <2> HIDE DEF Bad
  <2> QED
    BY <1>1, <2>1, LeastElement
<1>3. i \in 0 .. n /\ ~IsSource(Lines[i]) /\ CodeUpTo(b, Lines, i)
  BY <1>2
<1>4. ~(i <= HEADER_LEN)
  BY <1>3, ShortSources DEF CodeUpTo
<1>5. IsSource(Lines[i - 1])
  <2>1. i - 1 \in 0 .. n /\ ~(i <= i - 1)
    BY <1>3, <1>4 DEF HEADER_LEN
  <2> QED
    BY <1>2, <2>1
<1>6. IsSource(Dis!nl) /\ IsSource(<<[t |-> "label", name |-> "main"]>>)
  <2>1. [t |-> "nl"].t # "str" /\ [t |-> "label", name |-> "main"].t # "str"
    OBVIOUS
  <2> QED
    BY <2>1, ShortSources DEF Dis!nl
<1>7. IsSource(MainAt(b, i))
  BY <1>6, ShortSources, JoinedSources DEF MainAt, Dis!MainLabel
<1>8. IsSource(Dis!Line(b[i]))
  BY LineIsSource
<1>9. Lines[i] = Lines[i - 1] \o MainAt(b, i) \o Dis!Line(b[i]) \o Dis!nl
  BY <1>3, <1>4 DEF CodeUpTo
<1>10. IsSource(Lines[i - 1] \o MainAt(b, i))
  BY <1>5, <1>7, JoinedSources
<1>11. IsSource(Lines[i - 1] \o MainAt(b, i) \o Dis!Line(b[i]))
  BY <1>8, <1>10, JoinedSources
<1> QED
  BY <1>3, <1>6, <1>9, <1>11, JoinedSources

LEMMA CodeLinesIsSource ==
  ASSUME NEW b, NEW n \in Nat, Dis!CodeEnd(b) = n
  PROVE  IsSource(Dis!CodeLines(b))
<1>1. PICK lines : Dis!CodeLines(b) = lines[n] /\ \A i \in 0 .. n : CodeUpTo(b, lines, i)
  BY CodeLinesAre
<1> QED
  BY <1>1, CodeLinesAreSources

(* The recursion over the data goes backwards: an element is written and   *)
(* then what is after it, which may be several words on.                   *)
After(b, i) == IF Dis!IsString(b, i) THEN Dis!StringEnd(b, i) + 1 ELSE i + 1
DataLine(b, i) ==
  <<[t |-> "blank"], IF Dis!IsString(b, i) THEN [t |-> "str", chars |-> Dis!Chars(b, i)]
                                           ELSE [t |-> "num", v |-> Dis!Datum(b, i)]>>
DataFrom(b, n, lines, i) ==
  lines[i] = IF i = n THEN <<>> ELSE DataLine(b, i) \o Dis!nl \o lines[After(b, i)]

LEMMA DataLinesAre ==
  ASSUME NEW b, NEW n \in Nat, Dis!FileLength(b) = n, Dis!DataOffset(b) \in 0 .. n
  PROVE  /\ \A i \in 0 .. n : i # n => /\ After(b, i) \in i + 1 .. n
                                       /\ Dis!IsString(b, i) => IsSeq(Dis!Chars(b, i))
         /\ \E lines : /\ Dis!DataLines(b) = lines[Dis!DataOffset(b)]
                       /\ \A i \in 0 .. n : DataFrom(b, n, lines, i)
<1> DEFINE End(i) == Dis!StringEnd(b, i)
           Chars(i) == Dis!Chars(b, i)
           Text_(i) == <<[t |-> "blank"], [t |-> "str", chars |-> Chars(i)]>>
           Number(i) == <<[t |-> "blank"], [t |-> "num", v |-> Dis!Datum(b, i)]>>
           Further(i) == IF Dis!IsString(b, i) THEN End(i) + 1 ELSE i + 1
           Next_(f, i) == IF i = n THEN <<>>
                          ELSE IF Dis!IsString(b, i) THEN Text_(i) \o Dis!nl \o f[End(i) + 1]
                          ELSE Number(i) \o Dis!nl \o f[i + 1]
           Solves(f, m) == f = [i \in n - m .. n |-> Next_(f, i)]
<1>1. ASSUME NEW i \in 0 .. n, i # n
      PROVE  Further(i) \in i + 1 .. n /\ (Dis!IsString(b, i) => IsSeq(Chars(i)))
  <2>1. CASE Dis!IsString(b, i)
    <3>1. End(i) \in i + 1 .. n - 1
      BY <2>1 DEF Dis!IsString, Dis!StringEnd, Dis!StringEnds
    <3>2. End(i) - i \in Nat /\ End(i) + 1 \in i + 1 .. n
      BY <3>1
    <3> HIDE DEF End
    <3>3. Chars(i) = [k \in 1 .. End(i) - i |-> Dis!Datum(b, i + k - 1)]
      BY DEF Dis!Chars, End
    <3>4. Chars(i) = [k \in 1 .. End(i) - i |-> Chars(i)[k]]
      BY <3>3
    <3> HIDE DEF Chars
    <3>5. IsSeq(Chars(i))
      BY <3>2, <3>4, FunctionIsSeq
    <3> QED
      BY <2>1, <3>2, <3>5
  <2>2. CASE ~Dis!IsString(b, i)
    BY <1>1, <2>2
  <2> QED
    BY <2>1, <2>2
<1> HIDE DEF End, Chars
<1>2. \A m \in Nat : m <= n => \E f : Solves(f, m)
  <2> DEFINE Bad == {m \in Nat : m <= n /\ ~\E f : Solves(f, m)}
  <2>1. SUFFICES ASSUME Bad # {}
                 PROVE  FALSE
    OBVIOUS
  <2>2. PICK m \in Bad : \A y \in Bad : m <= y
    BY <2>1, LeastElement
  <2>3. m \in Nat /\ m <= n /\ ~\E f : Solves(f, m)
    BY <2>2
  <2>4. CASE m = 0
    <3> DEFINE f == [i \in n - 0 .. n |-> <<>>]
    <3>1. f = [i \in n - 0 .. n |-> Next_(f, i)]
      <4>1. \A i \in n - 0 .. n : i = n
        OBVIOUS
      <4> QED
        BY <4>1
    <3> QED
      BY <2>3, <2>4, <3>1
  <2>5. CASE m # 0
    <3>1. m - 1 \in Nat /\ m - 1 <= n /\ ~(m <= m - 1)
      BY <2>3, <2>5
    <3>2. m - 1 \notin Bad
      <4> HIDE DEF Bad
      <4> QED
        BY <2>2, <3>1
    <3>3. PICK f : Solves(f, m - 1)
      BY <3>1, <3>2
    <3> DEFINE s == n - m
               g == [i \in n - m .. n |-> IF i = s THEN Next_(f, s) ELSE f[i]]
    <3>4. ASSUME NEW i \in n - m .. n
          PROVE  g[i] = Next_(g, i)
      <4>1. i # s => i \in n - (m - 1) .. n
        BY <2>3
      <4>2. i # s => f[i] = Next_(f, i)
        BY <3>3, <4>1
      <4>3. g[i] = Next_(f, i)
        BY <4>2
      <4>4. CASE i = n
        BY <4>3, <4>4
      <4>5. CASE i # n
        <5>1. i \in 0 .. n
          BY <2>3
        <5>2. Further(i) \in i + 1 .. n
          BY <1>1, <4>5, <5>1
        <5> DEFINE next == Further(i)
        <5>3. next \in i + 1 .. n
          BY <5>2
        <5> HIDE DEF next
        <5>4. next \in n - m .. n /\ next # s
          BY <2>3, <5>1, <5>3
        <5>5. g[next] = f[next]
          BY <5>4
        <5>6. Next_(g, i) = Next_(f, i)
          <6>1. g[Further(i)] = f[Further(i)]
            BY <5>5 DEF next
          <6> HIDE DEF g
          <6>2. CASE Dis!IsString(b, i)
            BY <6>1, <6>2
          <6>3. CASE ~Dis!IsString(b, i)
            BY <6>1, <6>3
          <6> QED
            BY <6>2, <6>3
        <5> QED
          BY <4>3, <5>6
      <4> QED
        BY <4>4, <4>5
    <3>5. Solves(g, m)
      BY <3>4
    <3> QED
      BY <2>3, <3>5
  <2> QED
    BY <2>4, <2>5
<1> DEFINE Lines == CHOOSE f : f = [i \in 0 .. n |-> Next_(f, i)]
<1>3. Lines = [i \in 0 .. n |-> Next_(Lines, i)]
  <2>1. n <= n /\ n - n = 0
    OBVIOUS
  <2>2. \E f : f = [i \in n - n .. n |-> Next_(f, i)]
    BY <1>2, <2>1
  <2> QED
    BY <2>1, <2>2
<1>4. Dis!DataLines(b) = Lines[Dis!DataOffset(b)]
  BY DEF Dis!DataLines, End, Chars
<1> HIDE DEF Lines
<1>5. \A i \in 0 .. n : DataFrom(b, n, Lines, i)
  <2> SUFFICES ASSUME NEW i \in 0 .. n
               PROVE  DataFrom(b, n, Lines, i)
    OBVIOUS
  <2>1. Lines[i] = Next_(Lines, i)
    BY <1>3
  <2>2. CASE i = n
    BY <2>1, <2>2 DEF DataFrom
  <2>3. CASE i # n /\ Dis!IsString(b, i)
    BY <2>1, <2>3 DEF DataFrom, DataLine, After, End, Chars
  <2>4. CASE i # n /\ ~Dis!IsString(b, i)
    BY <2>1, <2>4 DEF DataFrom, DataLine, After
  <2> QED
    BY <2>2, <2>3, <2>4
<1>6. \A i \in 0 .. n : i # n => /\ After(b, i) \in i + 1 .. n
                                 /\ Dis!IsString(b, i) => IsSeq(Dis!Chars(b, i))
  BY <1>1 DEF After, End, Chars
<1> QED
  BY <1>4, <1>5, <1>6

(* From any word on, they are a source.                                    *)
LEMMA DataLinesAreSources ==
  ASSUME NEW b, NEW n \in Nat, NEW Lines, \A i \in 0 .. n : DataFrom(b, n, Lines, i),
         \A i \in 0 .. n : i # n => /\ After(b, i) \in i + 1 .. n
                                    /\ Dis!IsString(b, i) => IsSeq(Dis!Chars(b, i))
  PROVE  \A i \in 0 .. n : IsSource(Lines[i])
<1>1. \A m \in Nat : m <= n => IsSource(Lines[n - m])
  <2> DEFINE Bad == {m \in Nat : m <= n /\ ~IsSource(Lines[n - m])}
  <2>1. SUFFICES ASSUME Bad # {}
                 PROVE  FALSE
    OBVIOUS
  <2>2. PICK m \in Bad : \A y \in Bad : m <= y
    BY <2>1, LeastElement
  <2> DEFINE i == n - m
             x == [t |-> "blank"]
             y == [t |-> "str", chars |-> Dis!Chars(b, i)]
             z == [t |-> "num", v |-> Dis!Datum(b, i)]
             next == After(b, i)
  <2>3. m \in Nat /\ i \in 0 .. n /\ ~IsSource(Lines[i])
    BY <2>2
  <2>4. DataFrom(b, n, Lines, i)
    BY <2>3
  <2>5. i # n
    BY <2>3, <2>4, ShortSources DEF DataFrom
  <2>6. next \in i + 1 .. n /\ (Dis!IsString(b, i) => IsSeq(Dis!Chars(b, i)))
    BY <2>3, <2>5
  <2>7. IsSource(Lines[next])
    <3> HIDE DEF next
    <3>1. next \in n - m + 1 .. n /\ m \in Nat /\ m <= n
      BY <2>3, <2>6
    <3>2. n - next \in Nat /\ n - next <= n /\ ~(m <= n - next) /\ n - (n - next) = next
      BY <3>1
    <3>3. n - next \notin Bad
      <4> HIDE DEF Bad
      <4> QED
        BY <2>2, <3>2
    <3> QED
      BY <3>2, <3>3
  <2>8. IsSource(DataLine(b, i))
    <3>1. x.t # "str" /\ z.t # "str" /\ (Dis!IsString(b, i) => IsSeq(y.chars))
      BY <2>6
    <3>2. DataLine(b, i) = <<x>> \o <<IF Dis!IsString(b, i) THEN y ELSE z>>
      <4>1. DataLine(b, i) = <<x, IF Dis!IsString(b, i) THEN y ELSE z>>
        BY DEF DataLine
      <4> HIDE DEF x, y, z
      <4> QED
        BY <4>1
    <3> HIDE DEF x, y, z
    <3>3. IsSource(<<x>>) /\ IsSource(<<z>>) /\ (Dis!IsString(b, i) => IsSource(<<y>>))
      BY <3>1, ShortSources
    <3> QED
      BY <3>2, <3>3, JoinedSources
  <2>9. IsSource(Dis!nl)
    <3>1. [t |-> "nl"].t # "str"
      OBVIOUS
    <3> QED
      BY <3>1, ShortSources DEF Dis!nl
  <2>10. Lines[i] = DataLine(b, i) \o Dis!nl \o Lines[next]
    BY <2>4, <2>5 DEF DataFrom
  <2>11. IsSource(DataLine(b, i) \o Dis!nl)
    BY <2>8, <2>9, JoinedSources
  <2> QED
    BY <2>3, <2>7, <2>10, <2>11, JoinedSources
<1>2. ASSUME NEW i \in 0 .. n
      PROVE  IsSource(Lines[i])
  <2>1. n - i \in Nat /\ n - i <= n /\ n - (n - i) = i
    OBVIOUS
  <2> QED
    BY <1>1, <2>1
<1> QED
  BY <1>2

LEMMA DataLinesIsSource ==
  ASSUME NEW b, NEW n \in Nat, Dis!FileLength(b) = n, Dis!DataOffset(b) \in 0 .. n
  PROVE  IsSource(Dis!DataLines(b))
<1>1. PICK lines : /\ Dis!DataLines(b) = lines[Dis!DataOffset(b)]
                   /\ \A i \in 0 .. n : DataFrom(b, n, lines, i)
  BY DataLinesAre
<1>2. \A i \in 0 .. n : i # n => /\ After(b, i) \in i + 1 .. n
                                 /\ Dis!IsString(b, i) => IsSeq(Dis!Chars(b, i))
  BY DataLinesAre
<1>3. \A i \in 0 .. n : IsSource(lines[i])
  BY <1>1, <1>2, DataLinesAreSources
<1> QED
  BY <1>1, <1>3

(* Hence the whole listing.                                                *)
LEMMA DisassemblyIsSource ==
  ASSUME NEW b, IsBinary(b)
  PROVE  IsSource(Dis!disassemble(b))
<1>1. PICK d \in {0} \cup HEADER_LEN .. Len(b) :
        /\ Len(b) \in Nat /\ HEADER_LEN <= Len(b)
        /\ Dis!FileLength(b) = Len(b) /\ Dis!DataOffset(b) = d
  BY SeqFacts DEF IsBinary, Word, Dis!FileLength, Dis!DataOffset
<1>2. d \in 0 .. Len(b) /\ Dis!CodeEnd(b) = IF d > 0 THEN d ELSE Len(b)
  BY <1>1 DEF Dis!CodeEnd, HEADER_LEN
<1>3. IsSource(Dis!CodeLines(b))
  <2>1. Dis!CodeEnd(b) \in Nat
    BY <1>1, <1>2
  <2> QED
    BY <2>1, CodeLinesIsSource
<1>4. IsSource(Dis!DataLines(b))
  BY <1>1, <1>2, DataLinesIsSource
<1>5. IsSource(<<[t |-> ".data"]>>) /\ IsSource(Dis!nl)
  <2>1. [t |-> ".data"].t # "str" /\ [t |-> "nl"].t # "str"
    OBVIOUS
  <2> QED
    BY <2>1, ShortSources DEF Dis!nl
<1>6. IsSource(<<[t |-> ".data"]>> \o Dis!nl \o Dis!DataLines(b))
  BY <1>4, <1>5, JoinedSources
<1> QED
  BY <1>3, <1>6, ShortSources, JoinedSources DEF Dis!disassemble
-----------------------------------------------------------------------------
(* The files and the commands.  What is read is a binary some assembly     *)
(* finished, or a part of one, whose header says it is longer.             *)

Truncated(words) ==
  IsSeq(words) /\ \E n \in Nat : n > Len(words) /\ (HEADER_LEN <= Len(words) => words[2] = Word(n))
Readable(words) == words \in produced \/ Truncated(words)

FilesInv ==
  /\ IsSource(sourceFile)
  /\ binaryFile.size \in {"absent", "shabang", "uneven", "even"}
  /\ binaryFile.size = "even" => Readable(binaryFile.words)
  /\ \A b \in produced : IsBinary(b)

CommandInv ==
  /\ command \in Flags /\ at \in {"shell", "assemble", "read", "disassemble", "check"}
  /\ at = "read" => command = {} \/ "disassemble" \in command
  /\ at = "disassemble" => "disassemble" \in command
  /\ at \in {"disassemble", "check"} => Readable(buff)
  /\ at = "check" /\ command # {} => buff \in produced \/ "disassemble" \in command

IInv == AssemblerInv /\ FilesInv /\ CommandInv

(* The invariant speaks of the assembler's variables only.                 *)
LEMMA SameAssembly ==
  ASSUME AssemblerInv, UNCHANGED assembly
  PROVE  AssemblerInv'
BY DEF assembly, AssemblerInv, SourceInv, ListInv, LabelsInv, PatchesInv, PatchesSound

(* An assembler at rest again satisfies it.                                *)
LEMMA IdleAgain == AssemblerInit' => AssemblerInv'
<1>1. AssemblerInit => AssemblerInv
  BY AssemblerStarts
<1> QED
  BY <1>1, PTL

(* A cut binary is recognised.                                             *)
LEMMA CutIsTruncated ==
  ASSUME NEW b, IsBinary(b), NEW file \in Cut(b)
  PROVE  /\ file.size \in {"shabang", "uneven", "even"}
         /\ file.size = "even" => Truncated(file.words)
<1>1. Len(b) \in Nat /\ IsSeq(b) /\ b[2] = Word(Len(b))
  BY SeqFacts DEF IsBinary
<1>2. CASE file \in {InShabang, Uneven}
  BY <1>2 DEF InShabang, Uneven
<1>3. ASSUME NEW k \in 0 .. Len(b) - 1, file = Even(SubSeq(b, 1, k))
      PROVE  file.size = "even" /\ Truncated(file.words)
  <2> DEFINE w == SubSeq(b, 1, k)
  <2>1. IsSeq(w) /\ Len(w) = k /\ \A j \in 1 .. k : w[j] = b[j]
    BY <1>1, PrefixIsSeq
  <2>2. file.size = "even" /\ file.words = w
    BY <1>3 DEF Even
  <2> HIDE DEF w
  <2>3. Len(b) > Len(w) /\ (HEADER_LEN <= Len(w) => w[2] = Word(Len(b)))
    BY <1>1, <2>1 DEF HEADER_LEN
  <2> QED
    BY <1>1, <2>1, <2>2, <2>3 DEF Truncated
<1> QED
  BY <1>2, <1>3 DEF Cut

(* What is as long as its header says, or longer, is whole.                *)
LEMMA WholeIsProduced ==
  ASSUME Readable(buff), HasHeader, ~Partial \/ Len(buff) = Dis!FileLength(buff)
  PROVE  buff \in produced
<1>1. SUFFICES ASSUME Truncated(buff)
               PROVE  FALSE
  BY DEF Readable
<1>2. PICK n \in Nat : n > Len(buff) /\ (HEADER_LEN <= Len(buff) => buff[2] = Word(n))
  BY <1>1 DEF Truncated
<1>3. Len(buff) \in Nat /\ HEADER_LEN <= Len(buff)
  BY <1>1, SeqFacts DEF Truncated, HasHeader, HEADER_LEN
<1>4. Dis!FileLength(buff) = n
  BY <1>2, <1>3 DEF Dis!FileLength, Word
<1> QED
  BY <1>2, <1>3, <1>4 DEF Partial

(* The initial state satisfies the invariant.                              *)
LEMMA InitIInv ==
  ASSUME Init
  PROVE  IInv
<1>1. AssemblerInv
  BY AssemblerStarts DEF Init
<1>2. FilesInv
  BY SourcesAssumption DEF Init, FilesInv, Absent
<1>3. CommandInv
  BY DEF Init, CommandInv, Flags
<1> QED
  BY <1>1, <1>2, <1>3 DEF IInv

(* Every step of main, of the assembler and of a kill keeps it.            *)
LEMMA NextIInv ==
  ASSUME IInv, Next
  PROVE  IInv'
<1> USE DEF files, history
<1>1. AssemblerInv /\ FilesInv /\ CommandInv
  BY DEF IInv
<1>2. UNCHANGED assembly => AssemblerInv'
  BY <1>1, SameAssembly
<1>3. UNCHANGED <<sourceFile, binaryFile, produced>> => FilesInv'
  BY <1>1 DEF FilesInv, Readable
<1>4. Exits => CommandInv'
  BY DEF Exits, CommandInv, Flags
<1>5. CASE ListBeyond
  <2>1. IsSource(sourceFile')
    BY <1>1, <1>5, SourcesAssumption DEF ListBeyond, FilesInv
  <2>2. FilesInv'
    BY <1>1, <1>5, <2>1 DEF ListBeyond, FilesInv, Readable
  <2>3. CommandInv'
    BY <1>1, <1>4, <1>5 DEF ListBeyond, CommandInv, Readable
  <2> QED
    BY <1>2, <1>5, <2>2, <2>3 DEF ListBeyond, IInv
<1>6. CASE StartAssemble
  <2>1. AssemblerInv'
    BY <1>1, <1>6, AssemblyBegins DEF StartAssemble, FilesInv
  <2>2. CommandInv'
    BY <1>6 DEF StartAssemble, Command, CommandInv, Flags
  <2> QED
    BY <1>3, <1>6, <2>1, <2>2 DEF StartAssemble, Command, IInv
<1>7. CASE StartRead
  <2>1. PICK flags \in Flags :
          /\ "assemble" \notin flags /\ (flags \subseteq {"run", "no-output"} => flags = {})
          /\ Command(flags)
    BY <1>7 DEF StartRead
  <2>2. flags = {} \/ "disassemble" \in flags
    BY <2>1 DEF Flags
  <2>3. CommandInv'
    BY <1>7, <2>1, <2>2 DEF StartRead, Command, CommandInv
  <2> QED
    BY <1>2, <1>3, <1>7, <2>1, <2>3 DEF StartRead, Command, IInv
<1>8. CASE AssembleStep
  <2>1. AssemblerInv'
    BY <1>1, <1>8, AssemblerKeeps DEF AssembleStep
  <2>2. CommandInv'
    BY <1>1, <1>8 DEF AssembleStep, CommandInv, Readable
  <2> QED
    BY <1>3, <1>8, <2>1, <2>2 DEF AssembleStep, IInv
<1>9. CASE AssembleFails \/ ReadFails \/ ReadBeyond \/ DisassembleFails \/ HeaderRefused
  BY <1>2, <1>3, <1>4, <1>9
     DEF AssembleFails, ReadFails, ReadBeyond, DisassembleFails, HeaderRefused, IInv
<1>10. CASE AssembleDone
  <2>1. IsBinary(list) /\ produced' = produced \cup {list}
    BY <1>1, <1>10 DEF AssembleDone, AssemblerInv
  <2>2. FilesInv'
    BY <1>1, <1>10, <2>1 DEF AssembleDone, FilesInv, Readable, Even
  <2>3. CommandInv'
    BY <1>1, <1>4, <1>10, <2>1 DEF AssembleDone, CommandInv, Readable
  <2> QED
    BY <1>2, <1>10, <2>2, <2>3 DEF AssembleDone, IInv
<1>11. CASE WriteCut
  <2>1. IsBinary(list) /\ binaryFile' \in Cut(list)
    BY <1>1, <1>11 DEF WriteCut, AssemblerInv
  <2>2. /\ binaryFile'.size \in {"shabang", "uneven", "even"}
        /\ binaryFile'.size = "even" => Truncated(binaryFile'.words)
    BY <2>1, CutIsTruncated
  <2>3. FilesInv'
    BY <1>1, <1>11, <2>2 DEF WriteCut, FilesInv, Readable, Truncated
  <2> QED
    BY <1>2, <1>4, <1>11, <2>3 DEF WriteCut, IInv
<1>12. CASE Killed
  <2>1. AssemblerInit'
    BY <1>12 DEF Killed, AssemblerInit
  <2> QED
    BY <1>3, <1>4, <1>12, <2>1, IdleAgain DEF Killed, IInv
<1>13. CASE readFileWords
  <2>1. CommandInv'
    BY <1>1, <1>13 DEF readFileWords, CommandInv, FilesInv, Readable, Truncated
  <2> QED
    BY <1>2, <1>3, <1>13, <2>1 DEF readFileWords, IInv
<1>14. CASE Disassemble
  <2>1. buff \in produced
    BY <1>1, <1>14, WholeIsProduced DEF Disassemble, Partial, CommandInv
  <2>2. IsSource(Dis!disassemble(buff))
    BY <1>1, <2>1, DisassemblyIsSource DEF FilesInv
  <2>3. FilesInv'
    BY <1>1, <1>14, <2>2 DEF Disassemble, FilesInv, Readable
  <2>4. CommandInv'
    BY <1>1, <1>4, <1>14, <2>1 DEF Disassemble, CommandInv, Readable
  <2> QED
    BY <1>2, <1>14, <2>3, <2>4 DEF Disassemble, IInv
<1>15. CASE cortexVMExecBinary
  BY <1>2, <1>3, <1>4, <1>15 DEF cortexVMExecBinary, IInv
<1> QED
  BY <1>5, <1>6, <1>7, <1>8, <1>9, <1>10, <1>11, <1>12, <1>13, <1>14, <1>15 DEF Next
-----------------------------------------------------------------------------
(* So it holds in every state.                                             *)
LEMMA Invariance == Spec => []IInv
<1>1. Init => IInv
  BY InitIInv
<1>2. IInv /\ [Next]_vars => IInv'
  <2>1. IInv /\ Next => IInv'
    BY NextIInv
  <2>2. IInv /\ UNCHANGED vars => IInv'
    BY SameAssembly
       DEF vars, files, history, IInv, FilesInv, CommandInv, Readable, Truncated
  <2> QED
    BY <2>1, <2>2
<1> QED
  BY <1>1, <1>2, PTL DEF Spec

(* Every variable has its type: in particular the scanner stays in the     *)
(* source, labels are addresses in the binary, and the list fits.          *)
THEOREM TypeCorrect == Spec => []TypeOK
<1>1. IInv => TypeOK
  BY DEF IInv, AssemblerInv, SourceInv, ListInv, LabelsInv, PatchesInv, FilesInv, CommandInv,
         TypeOK, Phases
<1> QED
  BY <1>1, Invariance, PTL

(* No patch is or-ed over another, into a word that has no immediate, or   *)
(* outside the list.                                                       *)
THEOREM PatchesAreSound == Spec => []PatchesSound
<1>1. IInv => PatchesSound
  BY DEF IInv, AssemblerInv, PatchesInv
<1> QED
  BY <1>1, Invariance, PTL

(* Whatever commands are killed, and wherever a write is cut, what a       *)
(* command runs is all of what some assembly wrote, unless the command is  *)
(* one that lists it first.                                                *)
LEMMA WholeIsRun ==
  ASSUME IInv, cortexVMExecBinary, "disassemble" \notin command
  PROVE  executed' \in produced
<1>1. CommandInv /\ at = "check" /\ executed' = buff
  BY DEF IInv, cortexVMExecBinary
<1>2. CASE command = {}
  <2>1. HasHeader /\ Len(buff) = Dis!FileLength(buff)
    BY <1>2 DEF cortexVMExecBinary, headerValidate, fileSize
  <2> QED
    BY <1>1, <2>1, WholeIsProduced DEF CommandInv
<1>3. CASE command # {}
  BY <1>1, <1>3 DEF CommandInv
<1> QED
  BY <1>2, <1>3

THEOREM OnlyWholeBinariesRun == Spec => RunsWhole
<1>1. IInv /\ [Next]_vars
        => [executed' \notin {executed, Nothing} /\ "disassemble" \notin command
              => executed' \in produced]_vars
  <2>1. SUFFICES ASSUME IInv, Next, executed' \notin {executed, Nothing},
                        "disassemble" \notin command
                 PROVE  executed' \in produced
    OBVIOUS
  <2>2. CASE cortexVMExecBinary
    BY <2>1, <2>2, WholeIsRun
  <2>3. CASE ~cortexVMExecBinary
    BY <2>1, <2>3 DEF Next, StartAssemble, StartRead, Command, AssembleStep, AssembleFails,
                      AssembleDone, WriteCut, Killed, ReadFails, readFileWords, ReadBeyond,
                      ListBeyond, DisassembleFails, Disassemble, HeaderRefused
  <2> QED
    BY <2>2, <2>3
<1> QED
  BY <1>1, Invariance, PTL DEF Spec, RunsWhole
-----------------------------------------------------------------------------
(* A set that has a number, and the successor of each it has below a       *)
(* bound, has all from the first up to the bound: induction, for sets.     *)
LEMMA Reached ==
  ASSUME NEW a \in Nat, NEW n \in Nat, NEW S, a \in S,
         \A m \in a .. n - 1 : m \in S => m + 1 \in S
  PROVE  \A m \in a .. n : m \in S
<1> DEFINE Bad == {m \in a .. n : m \notin S}
<1>1. SUFFICES ASSUME Bad # {}
               PROVE  FALSE
  OBVIOUS
<1>2. PICK m \in Bad : \A y \in Bad : m <= y
  <2>1. Bad \subseteq Nat
    OBVIOUS
  <2> HIDE DEF Bad
  <2> QED
    BY <1>1, <2>1, LeastElement
<1>3. m \in a .. n /\ m \notin S /\ m # a
  BY <1>2
<1>4. m - 1 \in a .. n - 1 /\ m - 1 \in a .. n /\ ~(m <= m - 1) /\ (m - 1) + 1 = m
  BY <1>3
<1>5. m - 1 \in S
  <2>1. m - 1 \notin Bad
    <3> HIDE DEF Bad
    <3> QED
      BY <1>2, <1>4
  <2> QED
    BY <1>4, <2>1
<1> QED
  BY <1>3, <1>4, <1>5
-----------------------------------------------------------------------------
(* Sequences put together from pieces.                                     *)

Pieces(f, n) == \A j \in 1 .. n : IsSeq(f[j])
Flat(f, n) == A!FlattenSeq([j \in 1 .. n |-> f[j]])

(* The recursion that flattens has a solution, and only one; so the pieces *)
(* up to one are those before it and then that one.                        *)
LEMMA Flattened ==
  ASSUME NEW f, NEW n \in Nat, Pieces(f, n)
  PROVE  \E flat : /\ flat = [i \in 1 .. n |-> IF i = 1 THEN f[i] ELSE flat[i - 1] \o f[i]]
                   /\ \A i \in 1 .. n : IsSeq(flat[i])
<1> DEFINE Solves(flat, m) ==
             /\ flat = [i \in 1 .. m |-> IF i = 1 THEN f[i] ELSE flat[i - 1] \o f[i]]
             /\ \A i \in 1 .. m : IsSeq(flat[i])
           Bad == {m \in 0 .. n : ~\E flat : Solves(flat, m)}
<1>1. SUFFICES ASSUME Bad # {}
               PROVE  FALSE
  <2>1. n \in 0 .. n
    OBVIOUS
  <2>2. n \notin Bad => \E flat : Solves(flat, n)
    <3> HIDE DEF Solves
    <3> QED
      BY <2>1
  <2> QED
    BY <2>2
<1>2. PICK m \in Bad : \A y \in Bad : m <= y
  <2>1. Bad \subseteq Nat
    <3> HIDE DEF Solves
    <3> QED
      OBVIOUS
  <2> HIDE DEF Bad
  <2> QED
    BY <1>1, <2>1, LeastElement
<1>3. m \in 0 .. n /\ ~\E flat : Solves(flat, m)
  BY <1>2
<1>4. CASE m = 0
  <2> DEFINE g == [i \in 1 .. 0 |-> <<>>]
  <2>1. Solves(g, 0)
    OBVIOUS
  <2> QED
    BY <1>3, <1>4, <2>1
<1>5. CASE m # 0
  <2>1. m - 1 \in 0 .. n /\ ~(m <= m - 1)
    BY <1>3, <1>5
  <2>2. m - 1 \notin Bad
    <3> HIDE DEF Bad
    <3> QED
      BY <1>2, <2>1
  <2>3. PICK h : Solves(h, m - 1)
    BY <2>1, <2>2
  <2> DEFINE new == IF m = 1 THEN f[m] ELSE h[m - 1] \o f[m]
             g == [i \in 1 .. m |-> IF i = m THEN new ELSE h[i]]
  <2>4. IsSeq(new)
    <3>1. IsSeq(f[m])
      BY <1>3, <1>5 DEF Pieces
    <3>2. m # 1 => IsSeq(h[m - 1])
      BY <1>3, <1>5, <2>3
    <3> QED
      BY <3>1, <3>2, ConcatIsSeq
  <2>5. ASSUME NEW i \in 1 .. m
        PROVE  g[i] = (IF i = 1 THEN f[i] ELSE g[i - 1] \o f[i]) /\ IsSeq(g[i])
    <3>1. CASE i = m
      <4>1. i # 1 => g[i - 1] = h[m - 1]
        BY <1>3, <3>1
      <4> HIDE DEF Solves
      <4> QED
        BY <2>4, <3>1, <4>1
    <3>2. CASE i # m
      <4>1. i \in 1 .. m - 1 /\ (i # 1 => i - 1 \in 1 .. m - 1 /\ i - 1 # m)
        BY <1>3, <3>2
      <4>2. g[i] = h[i] /\ (i # 1 => g[i - 1] = h[i - 1])
        BY <3>2, <4>1
      <4>3. h[i] = (IF i = 1 THEN f[i] ELSE h[i - 1] \o f[i]) /\ IsSeq(h[i])
        BY <2>3, <4>1
      <4> HIDE DEF g
      <4> QED
        BY <4>1, <4>2, <4>3
    <3> QED
      BY <3>1, <3>2
  <2>6. g = [i \in 1 .. m |-> g[i]]
    OBVIOUS
  <2>7. g = [i \in 1 .. m |-> IF i = 1 THEN f[i] ELSE g[i - 1] \o f[i]]
    <3> HIDE DEF g
    <3> QED
      BY <2>5, <2>6
  <2> QED
    BY <1>3, <2>5, <2>7
<1> QED
  BY <1>4, <1>5

(* Hence: the pieces up to one are those before it, and then that one.     *)
LEMMA FlatSteps ==
  ASSUME NEW f, NEW n \in Nat, Pieces(f, n)
  PROVE  /\ Flat(f, 0) = <<>>
         /\ \A m \in 0 .. n : IsSeq(Flat(f, m)) /\ Len(Flat(f, m)) \in Nat
         /\ \A m \in 1 .. n : Flat(f, m) = Flat(f, m - 1) \o f[m]
<1>1. Flat(f, 0) = <<>>
  <2>1. [j \in 1 .. 0 |-> f[j]] = <<>> /\ Len(<<>>) = 0
    OBVIOUS
  <2> QED
    BY <2>1 DEF Flat, A!FlattenSeq
<1> DEFINE Solves(flat, m) == flat = [i \in 1 .. m |-> IF i = 1 THEN f[i] ELSE flat[i - 1] \o f[i]]
           Solution(m) == CHOOSE flat : Solves(flat, m)
<1>2. ASSUME NEW m \in 1 .. n
      PROVE  Solves(Solution(m), m) /\ Flat(f, m) = Solution(m)[m]
  <2> DEFINE s == [j \in 1 .. m |-> f[j]]
  <2>1. Pieces(f, m) /\ m \in Nat
    BY DEF Pieces
  <2>2. \E flat : Solves(flat, m)
    <3> HIDE DEF Solution
    <3>1. PICK flat : flat = [i \in 1 .. m |-> IF i = 1 THEN f[i] ELSE flat[i - 1] \o f[i]]
      <4>1. \E flat : /\ flat = [i \in 1 .. m |-> IF i = 1 THEN f[i] ELSE flat[i - 1] \o f[i]]
                      /\ \A i \in 1 .. m : IsSeq(flat[i])
        BY <2>1, Flattened
      <4> QED
        BY <4>1, Zenon
    <3> QED
      BY <3>1
  <2>3. Len(s) = m
    BY <2>1, FunctionIsSeq
  <2>4. Flat(f, m) = (CHOOSE flat : flat = [i \in 1 .. m |-> IF i = 1 THEN s[i] ELSE flat[i - 1] \o s[i]])[m]
    BY <2>1, <2>3 DEF Flat, A!FlattenSeq
  <2>5. \A flat : [i \in 1 .. m |-> IF i = 1 THEN s[i] ELSE flat[i - 1] \o s[i]]
                  = [i \in 1 .. m |-> IF i = 1 THEN f[i] ELSE flat[i - 1] \o f[i]]
    OBVIOUS
  <2>6. Flat(f, m) = Solution(m)[m]
    BY <2>4, <2>5
  <2> QED
    BY <2>2, <2>6
<1>3. PICK S : /\ S = [i \in 1 .. n |-> IF i = 1 THEN f[i] ELSE S[i - 1] \o f[i]]
               /\ \A i \in 1 .. n : IsSeq(S[i])
  BY Flattened
<1>4. ASSUME NEW m \in 1 .. n
      PROVE  Flat(f, m) = S[m]
  <2> DEFINE T == Solution(m)
             Bad == {i \in 1 .. m : T[i] # S[i]}
  <2>1. T = [i \in 1 .. m |-> IF i = 1 THEN f[i] ELSE T[i - 1] \o f[i]]
    BY <1>2
  <2> HIDE DEF T
  <2>2. Bad = {}
    <3>1. SUFFICES ASSUME Bad # {}
                   PROVE  FALSE
      OBVIOUS
    <3>2. PICK i \in Bad : \A y \in Bad : i <= y
      <4>1. Bad \subseteq Nat
        OBVIOUS
      <4> HIDE DEF Bad
      <4> QED
        BY <3>1, <4>1, LeastElement
    <3>3. i \in 1 .. m /\ T[i] # S[i]
      BY <3>2
    <3>4. /\ T[i] = IF i = 1 THEN f[i] ELSE T[i - 1] \o f[i]
          /\ S[i] = IF i = 1 THEN f[i] ELSE S[i - 1] \o f[i]
      <4>1. i \in 1 .. n
        BY <3>3
      <4>2. T[i] = IF i = 1 THEN f[i] ELSE T[i - 1] \o f[i]
        BY <2>1, <3>3
      <4>3. S[i] = IF i = 1 THEN f[i] ELSE S[i - 1] \o f[i]
        BY <1>3, <4>1
      <4> QED
        BY <4>2, <4>3
    <3>5. i # 1 => T[i - 1] = S[i - 1]
      <4>1. SUFFICES ASSUME i # 1
                     PROVE  T[i - 1] = S[i - 1]
        OBVIOUS
      <4>2. i - 1 \in 1 .. m /\ ~(i <= i - 1)
        BY <3>3, <4>1
      <4>3. i - 1 \notin Bad
        <5> HIDE DEF Bad
        <5> QED
          BY <3>2, <4>2
      <4> QED
        BY <4>2, <4>3
    <3> QED
      BY <3>3, <3>4, <3>5
  <2>3. T[m] = S[m]
    BY <2>2
  <2> QED
    BY <1>2, <2>3 DEF T
<1>5. ASSUME NEW m \in 0 .. n
      PROVE  IsSeq(Flat(f, m)) /\ Len(Flat(f, m)) \in Nat
  <2>1. IsSeq(Flat(f, m))
    <3>1. CASE m = 0
      BY <1>1, <3>1, EmptyIsSeq
    <3>2. CASE m \in 1 .. n
      BY <1>3, <1>4, <3>2
    <3> QED
      BY <3>1, <3>2
  <2> QED
    BY <2>1, SeqFacts
<1>6. ASSUME NEW m \in 1 .. n
      PROVE  Flat(f, m) = Flat(f, m - 1) \o f[m]
  <2>1. Flat(f, m) = IF m = 1 THEN f[m] ELSE S[m - 1] \o f[m]
    BY <1>3, <1>4
  <2>2. CASE m = 1
    <3>1. IsSeq(f[m])
      BY DEF Pieces
    <3>2. <<>> \o f[m] = f[m]
      BY <3>1 DEF IsSeq
    <3>3. m - 1 = 0
      BY <2>2
    <3> QED
      BY <1>1, <2>1, <2>2, <3>2, <3>3
  <2>3. CASE m # 1
    <3>1. m - 1 \in 1 .. n
      BY <2>3
    <3> QED
      BY <1>4, <2>1, <2>3, <3>1
  <2> QED
    BY <2>2, <2>3
<1> HIDE DEF Solution
<1> QED
  BY <1>1, <1>5, <1>6

(* What is added at a piece.                                               *)
LEMMA FlatPiece ==
  ASSUME NEW f, NEW n \in Nat, Pieces(f, n), NEW l \in 0 .. n, NEW m \in 1 .. n, m = l + 1
  PROVE  /\ Len(f[m]) \in Nat /\ Len(Flat(f, l)) \in Nat
         /\ Len(Flat(f, m)) = Len(Flat(f, l)) + Len(f[m])
         /\ \A k \in 1 .. Len(Flat(f, l)) : Flat(f, m)[k] = Flat(f, l)[k]
         /\ \A k \in 1 .. Len(f[m]) : Flat(f, m)[Len(Flat(f, l)) + k] = f[m][k]
<1>1. m - 1 = l
  OBVIOUS
<1>2. IsSeq(Flat(f, l)) /\ Flat(f, m) = Flat(f, m - 1) \o f[m] /\ Len(Flat(f, l)) \in Nat
  BY FlatSteps
<1>3. Flat(f, m) = Flat(f, l) \o f[m]
  BY <1>1, <1>2
<1>4. IsSeq(f[m]) /\ Len(f[m]) \in Nat
  BY SeqFacts DEF Pieces
<1> QED
  BY <1>2, <1>3, <1>4, ConcatIsSeq

(* It only grows, what it has stays, and pieces that are empty add nothing.*)
LEMMA FlatGrows ==
  ASSUME NEW f, NEW n \in Nat, Pieces(f, n), NEW a \in 0 .. n, NEW b \in a .. n
  PROVE  /\ Len(Flat(f, a)) \in Nat /\ Len(Flat(f, b)) \in Nat
         /\ Len(Flat(f, a)) <= Len(Flat(f, b))
         /\ \A k \in 1 .. Len(Flat(f, a)) : Flat(f, b)[k] = Flat(f, a)[k]
<1> DEFINE S == {m \in a .. n : /\ Len(Flat(f, m)) \in Nat
                                 /\ Len(Flat(f, a)) <= Len(Flat(f, m))
                                 /\ \A k \in 1 .. Len(Flat(f, a)) : Flat(f, m)[k] = Flat(f, a)[k]}
<1>1. a \in Nat /\ a \in a .. n /\ Len(Flat(f, a)) \in Nat
  BY FlatSteps
<1>2. a \in S
  BY <1>1
<1>3. ASSUME NEW m \in a .. n - 1, m \in S
      PROVE  m + 1 \in S
  <2> DEFINE p == m + 1
  <2>1. p \in 1 .. n /\ p = m + 1 /\ m \in 0 .. n /\ p \in a .. n
    OBVIOUS
  <2> HIDE DEF p
  <2>2. /\ Len(f[p]) \in Nat /\ Len(Flat(f, m)) \in Nat
        /\ Len(Flat(f, p)) = Len(Flat(f, m)) + Len(f[p])
        /\ \A k \in 1 .. Len(Flat(f, m)) : Flat(f, p)[k] = Flat(f, m)[k]
    BY <2>1, FlatPiece
  <2>3. /\ Len(Flat(f, a)) <= Len(Flat(f, m))
        /\ \A k \in 1 .. Len(Flat(f, a)) : Flat(f, m)[k] = Flat(f, a)[k]
    BY <1>3
  <2>4. p \in S
    BY <1>1, <2>1, <2>2, <2>3
  <2> QED
    BY <2>4 DEF p
<1> HIDE DEF S
<1>4. b \in S
  BY <1>1, <1>2, <1>3, Reached
<1> QED
  BY <1>1, <1>4 DEF S

LEMMA FlatIdle ==
  ASSUME NEW f, NEW n \in Nat, Pieces(f, n), NEW a \in 0 .. n, NEW b \in a .. n,
         \A j \in a + 1 .. b : f[j] = <<>>
  PROVE  Flat(f, b) = Flat(f, a)
<1> DEFINE S == {m \in a .. b : Flat(f, m) = Flat(f, a)}
<1>1. a \in Nat /\ b \in Nat /\ a \in S /\ b \in a .. b
  OBVIOUS
<1>2. ASSUME NEW m \in a .. b - 1, m \in S
      PROVE  m + 1 \in S
  <2>1. m + 1 \in 1 .. n /\ (m + 1) - 1 = m /\ m + 1 \in a + 1 .. b /\ m + 1 \in a .. b /\ m \in 0 .. n
    OBVIOUS
  <2>2. Flat(f, m + 1) = Flat(f, m) \o f[m + 1] /\ IsSeq(Flat(f, m))
    BY <2>1, FlatSteps
  <2>3. f[m + 1] = <<>>
    BY <2>1
  <2>4. Flat(f, m) \o <<>> = Flat(f, m)
    BY <2>2 DEF IsSeq
  <2>5. Flat(f, m) = Flat(f, a)
    BY <1>2
  <2> HIDE DEF Flat
  <2> QED
    BY <2>1, <2>2, <2>3, <2>4, <2>5
<1> HIDE DEF S
<1>3. b \in S
  BY <1>1, <1>2, Reached
<1> QED
  BY <1>3 DEF S

(* Where a piece starts; every element is of some piece, and of one only.  *)
Start(f, m) == Len(Flat(f, m - 1))

LEMMA FlatStart ==
  ASSUME NEW f, NEW n \in Nat, Pieces(f, n), NEW m \in 1 .. n
  PROVE  /\ Start(f, m) \in Nat /\ Len(f[m]) \in Nat
         /\ Start(f, m) + Len(f[m]) = Len(Flat(f, m))
         /\ Start(f, m) + Len(f[m]) <= Len(Flat(f, n)) /\ Len(Flat(f, n)) \in Nat
         /\ \A k \in 1 .. Len(f[m]) : Flat(f, n)[Start(f, m) + k] = f[m][k]
         /\ \A j \in m + 1 .. n : Start(f, m) + Len(f[m]) <= Start(f, j)
<1> DEFINE l == m - 1
<1>1. l \in 0 .. n /\ m = l + 1 /\ Start(f, m) = Len(Flat(f, l))
  BY DEF Start
<1> HIDE DEF l
<1>2. /\ Len(f[m]) \in Nat /\ Len(Flat(f, l)) \in Nat
      /\ Len(Flat(f, m)) = Len(Flat(f, l)) + Len(f[m])
      /\ \A k \in 1 .. Len(f[m]) : Flat(f, m)[Len(Flat(f, l)) + k] = f[m][k]
  <2>1. l \in 0 .. n /\ m = l + 1
    BY <1>1
  <2> QED
    BY <2>1, FlatPiece
<1>3. m \in 0 .. n /\ n \in m .. n
  OBVIOUS
<1>4. /\ Len(Flat(f, n)) \in Nat /\ Len(Flat(f, m)) <= Len(Flat(f, n))
      /\ \A k \in 1 .. Len(Flat(f, m)) : Flat(f, n)[k] = Flat(f, m)[k]
  BY <1>3, FlatGrows
<1>5. ASSUME NEW j \in m + 1 .. n
      PROVE  Len(Flat(f, m)) <= Start(f, j)
  <2> DEFINE p == j - 1
  <2>1. p \in m .. n /\ Start(f, j) = Len(Flat(f, p))
    BY DEF Start
  <2> HIDE DEF p
  <2> QED
    BY <1>3, <2>1, FlatGrows
<1>6. Start(f, m) + Len(f[m]) = Len(Flat(f, m)) /\ Start(f, m) \in Nat /\ Len(f[m]) \in Nat
  BY <1>1, <1>2
<1>7. ASSUME NEW k \in 1 .. Len(f[m])
      PROVE  Flat(f, n)[Start(f, m) + k] = f[m][k]
  <2>1. Start(f, m) + k \in 1 .. Len(Flat(f, m))
    BY <1>6
  <2>2. Flat(f, m)[Start(f, m) + k] = f[m][k]
    BY <1>1, <1>2
  <2> QED
    BY <1>4, <2>1, <2>2
<1> QED
  BY <1>4, <1>5, <1>6, <1>7

LEMMA FlatPlace ==
  ASSUME NEW f, NEW n \in Nat, Pieces(f, n), NEW i \in 1 .. Len(Flat(f, n))
  PROVE  \E m \in 1 .. n : \E k \in 1 .. Len(f[m]) : i = Start(f, m) + k
<1> DEFINE Found(a) == \A x \in 1 .. Len(Flat(f, a)) :
                         \E m \in 1 .. n : \E k \in 1 .. Len(f[m]) : x = Start(f, m) + k
           S == {a \in 0 .. n : Found(a)}
<1>1. 0 \in S
  <2>1. Flat(f, 0) = <<>>
    BY FlatSteps
  <2> QED
    BY <2>1
<1>2. ASSUME NEW a \in 0 .. n - 1, a \in S
      PROVE  a + 1 \in S
  <2> DEFINE p == a + 1
  <2>1. p \in 1 .. n /\ p \in 0 .. n /\ p - 1 = a /\ a \in 0 .. n /\ p = a + 1
    OBVIOUS
  <2> HIDE DEF p
  <2>2. Start(f, p) = Len(Flat(f, a))
    BY <2>1 DEF Start
  <2>3. /\ Len(f[p]) \in Nat /\ Len(Flat(f, a)) \in Nat
        /\ Len(Flat(f, p)) = Len(Flat(f, a)) + Len(f[p])
    BY <2>1, FlatPiece
  <2>4. Found(a)
    BY <1>2
  <2>5. ASSUME NEW x \in 1 .. Len(Flat(f, p))
        PROVE  \E m \in 1 .. n : \E k \in 1 .. Len(f[m]) : x = Start(f, m) + k
    <3>1. CASE x \in 1 .. Len(Flat(f, a))
      BY <2>4, <3>1
    <3>2. CASE x \notin 1 .. Len(Flat(f, a))
      <4> DEFINE k == x - Len(Flat(f, a))
      <4>1. k \in 1 .. Len(f[p]) /\ x = Start(f, p) + k
        BY <2>2, <2>3, <3>2
      <4> QED
        BY <2>1, <4>1
    <3> QED
      BY <3>1, <3>2
  <2>6. p \in S
    BY <2>1, <2>5
  <2> QED
    BY <2>6 DEF p
<1> HIDE DEF S
<1>3. n \in S
  <2>1. n \in 0 .. n
    OBVIOUS
  <2> QED
    BY <1>1, <1>2, <2>1, Reached
<1> QED
  BY <1>3 DEF S

LEMMA FlatUnique ==
  ASSUME NEW f, NEW n \in Nat, Pieces(f, n), NEW m1 \in 1 .. n, NEW m2 \in 1 .. n,
         NEW k1 \in 1 .. Len(f[m1]), NEW k2 \in 1 .. Len(f[m2]),
         Start(f, m1) + k1 = Start(f, m2) + k2
  PROVE  m1 = m2 /\ k1 = k2
<1>1. /\ Start(f, m1) \in Nat /\ Len(f[m1]) \in Nat
      /\ \A j \in m1 + 1 .. n : Start(f, m1) + Len(f[m1]) <= Start(f, j)
  BY FlatStart
<1>2. /\ Start(f, m2) \in Nat /\ Len(f[m2]) \in Nat
      /\ \A j \in m2 + 1 .. n : Start(f, m2) + Len(f[m2]) <= Start(f, j)
  BY FlatStart
<1>3. ~(m1 < m2)
  <2>1. SUFFICES ASSUME m1 < m2
                 PROVE  FALSE
    OBVIOUS
  <2>2. m2 \in m1 + 1 .. n
    BY <2>1
  <2>3. Start(f, m1) + Len(f[m1]) <= Start(f, m2)
    BY <1>1, <2>2
  <2> QED
    BY <1>1, <1>2, <2>3
<1>4. ~(m2 < m1)
  <2>1. SUFFICES ASSUME m2 < m1
                 PROVE  FALSE
    OBVIOUS
  <2>2. m1 \in m2 + 1 .. n
    BY <2>1
  <2>3. Start(f, m2) + Len(f[m2]) <= Start(f, m1)
    BY <1>2, <2>2
  <2> QED
    BY <1>1, <1>2, <2>3
<1>5. m1 = m2
  BY <1>3, <1>4
<1> QED
  BY <1>1, <1>5

(* Pieces of the same lengths are at the same places.                      *)
LEMMA FlatLengths ==
  ASSUME NEW f, NEW g, NEW n \in Nat, Pieces(f, n), Pieces(g, n),
         \A j \in 1 .. n : Len(g[j]) = Len(f[j])
  PROVE  \A m \in 0 .. n : Len(Flat(g, m)) = Len(Flat(f, m))
<1> DEFINE S == {m \in 0 .. n : Len(Flat(g, m)) = Len(Flat(f, m))}
<1>1. 0 \in S
  <2>1. Flat(f, 0) = <<>> /\ Flat(g, 0) = <<>>
    BY FlatSteps
  <2> QED
    BY <2>1
<1>2. ASSUME NEW a \in 0 .. n - 1, a \in S
      PROVE  a + 1 \in S
  <2> DEFINE p == a + 1
  <2>1. p \in 1 .. n /\ p \in 0 .. n /\ a \in 0 .. n /\ p = a + 1
    OBVIOUS
  <2> HIDE DEF p
  <2>2. Len(Flat(f, p)) = Len(Flat(f, a)) + Len(f[p])
    BY <2>1, FlatPiece
  <2>3. Len(Flat(g, p)) = Len(Flat(g, a)) + Len(g[p])
    BY <2>1, FlatPiece
  <2>4. p \in S
    BY <1>2, <2>1, <2>2, <2>3
  <2> QED
    BY <2>4 DEF p
<1> HIDE DEF S
<1>3. \A m \in 0 .. n : m \in S
  BY <1>1, <1>2, Reached
<1> QED
  BY <1>3 DEF S
-----------------------------------------------------------------------------
(* What the assembler has done of a source s when its cursor is at h.      *)

Worded(s) == [k \in DOMAIN s |-> A!Words(s, k)]
Before(s, h) == Flat(Worded(s), h - 1)
Header == <<Magic, Word(0), Word(0), Word(0), Word(0)>>
Tail_(s) == IF A!HasData(s) THEN <<Word(0)>> ELSE <<>>
Laid(s) == Header \o Before(s, Len(s) + 1) \o Tail_(s)

(* Where it may be: a blank it comes to is not one that a label, a comment *)
(* an instruction without operands or .data takes with it.                 *)
Cursor(s, h, ph) ==
  /\ ph = "code" => h <= A!Data(s)
  /\ ph = "data" => h > A!Data(s)
  /\ ph = "patch" => h = Len(s) + 1
  /\ ph \in {"code", "data"} /\ h <= Len(s) /\ s[h].t = "blank" /\ h > 1 =>
       IF ph = "data" THEN h > A!Data(s) + 1
       ELSE ~(s[h - 1].t \in {"label", "comment"} \/ (s[h - 1].t = "instr" /\ Len(s[h - 1].regs) = 0))

(* No number from here on is read as an integer for blanks already passed. *)
Settled(s, h) ==
  ~\E j \in A!Data(s) + 1 .. h - 1 : \E m \in h .. Len(s) :
     s[m].t \in {"num", "dbl"} /\ A!EndsBlank(s, j) /\ \A i \in j .. m - 1 : ~A!Text(s, i)

(* The labels before h are in the registry, the first of a name with its   *)
(* address; every name there is the name of a label.                       *)
Known(s, h, reg) ==
  /\ \A k \in 1 .. h - 1 : s[k].t = "label" => \E q \in DOMAIN reg : reg[q].name = s[k].name
  /\ \A q \in DOMAIN reg : (\A j \in 1 .. q - 1 : reg[j].name # reg[q].name) =>
                            reg[q].pc = A!Target(s, reg[q].name)
Borne(s, reg) == \A q \in DOMAIN reg : A!Labels(s, reg[q].name) # {}

(* The instructions before h that use a name are noted, once each.         *)
Uses(s, k) == A!InCode(s, k) /\ s[k].t = "instr" /\ "ref" \in DOMAIN s[k]
Note(s, k) == [name |-> s[k].ref, pc |-> A!Address(s, k)]
Noted(s, h, notes) ==
  /\ \A k \in 1 .. h - 1 : Uses(s, k) => \E q \in DOMAIN notes : notes[q] = Note(s, k)
  /\ \A q \in DOMAIN notes : \E k \in 1 .. h - 1 : Uses(s, k) /\ notes[q] = Note(s, k)
  /\ \A p, q \in DOMAIN notes : notes[p].pc = notes[q].pc => p = q

Needed(s, h) ==
  UNION {Needs(s[k]) : k \in {j \in 1 .. h - 1 : A!InCode(s, j) /\ s[j].t = "instr"}}
Offset(s, h) == IF A!Data(s) < h THEN A!Address(s, A!Data(s)) ELSE 0

(* The words are those of the source, with the first p notes resolved.     *)
Patched_(s, words, notes, p) ==
  /\ Len(words) = Len(Laid(s))
  /\ \A q \in 1 .. p :
       words[notes[q].pc + 1]
         = Addressed(Laid(s)[notes[q].pc + 1], notes[q].pc, A!Target(s, notes[q].name))
  /\ \A i \in 1 .. Len(words) : (\A q \in 1 .. p : notes[q].pc + 1 # i) => words[i] = Laid(s)[i]

LaidOut ==
  /\ phase \in {"code", "data"} => list = Header \o Before(sbuff, head)
  /\ phase = "data" => Settled(sbuff, head)
  /\ Known(sbuff, head, labelsRegistry)
  /\ Noted(sbuff, head, labelsPatches)
  /\ extensions = Needed(sbuff, head)
  /\ dataOffset = Offset(sbuff, head)
  /\ phase = "patch" => Patched_(sbuff, list, labelsPatches, patched)

(* A source that is not accepted has an item ahead that will be refused or *)
(* never passed, or a patch that cannot be applied.                        *)
GoodItem(s, k) == k = A!Data(s) \/ (IF A!InCode(s, k) THEN A!CodeItem(s, k) ELSE A!DataItem(s, k))
Doomed(s, h, notes, p) ==
  \/ \E k \in h .. Len(s) : ~GoodItem(s, k)
  \/ \E q \in p + 1 .. Len(notes) : notes[q].pc = 0 \/ A!Labels(s, notes[q].name) = {}

Busy == phase \in {"code", "data", "patch"}
Ready ==
  /\ Borne(sbuff, labelsRegistry)
  /\ Cursor(sbuff, head, phase)
  /\ phase # "patch" => patched = 0
  /\ IF A!Accepted(sbuff) THEN LaidOut ELSE Doomed(sbuff, head, labelsPatches, patched)
AssemblyInv ==
  /\ Busy => Ready
  /\ phase = "done" => A!Outcome(sbuff) = A!Done(list)
  /\ phase = "fatal" => A!Outcome(sbuff) = A!Refused
  /\ at = "assemble" => phase # "idle"
  /\ at # "assemble" => ~Busy
-----------------------------------------------------------------------------
(* The layout of a source.                                                 *)

LEMMA SourceFacts ==
  ASSUME NEW s, IsSource(s)
  PROVE  /\ Len(s) \in Nat /\ DOMAIN s = 1 .. Len(s)
         /\ A!Data(s) \in 1 .. Len(s) + 1
         /\ A!HasData(s) <=> A!Data(s) <= Len(s)
         /\ A!Data(s) <= Len(s) => s[A!Data(s)].t = ".data"
         /\ \A k \in 1 .. Len(s) : k < A!Data(s) => s[k].t # ".data"
<1>1. Len(s) \in Nat /\ DOMAIN s = 1 .. Len(s)
  BY SeqFacts DEF IsSource
<1> DEFINE S == {Len(s) + 1} \cup {k \in DOMAIN s : s[k].t = ".data"}
<1>2. A!Data(s) = CHOOSE x \in S : \A y \in S : x =< y
  BY DEF A!Data, A!Min
<1>3. S \subseteq Nat /\ S # {} /\ S \subseteq 1 .. Len(s) + 1
  BY <1>1
<1> DEFINE d == CHOOSE x \in S : \A y \in S : x =< y
<1>4. d \in S /\ \A y \in S : d <= y
  <2> HIDE DEF S
  <2>1. \E x \in S : \A y \in S : x <= y
    BY <1>3, LeastElement
  <2> QED
    BY <2>1
<1>5. A!Data(s) = d
  BY <1>2
<1> HIDE DEF d
<1>6. d \in 1 .. Len(s) + 1 /\ (d <= Len(s) => s[d].t = ".data")
  BY <1>1, <1>3, <1>4
<1>7. \A k \in 1 .. Len(s) : k < d => s[k].t # ".data"
  BY <1>1, <1>4, <1>6
<1>8. A!HasData(s) <=> A!Data(s) <= Len(s)
  BY <1>1, <1>5, <1>6 DEF A!HasData
<1> QED
  BY <1>1, <1>5, <1>6, <1>7, <1>8

(* What an item lays down is a sequence of words, in the code one or none. *)
LEMMA WordsAreSeqs ==
  ASSUME NEW s, IsSource(s)
  PROVE  Pieces(Worded(s), Len(s)) /\ \A k \in 1 .. Len(s) : Worded(s)[k] = A!Words(s, k)
<1>1. Len(s) \in Nat /\ DOMAIN s = 1 .. Len(s)
  BY SourceFacts
<1>2. \A k \in 1 .. Len(s) : Worded(s)[k] = A!Words(s, k)
  BY <1>1 DEF Worded
<1>3. ASSUME NEW k \in 1 .. Len(s)
      PROVE  IsSeq(A!Words(s, k))
  <2>1. CASE A!InCode(s, k)
    BY <2>1, OneIsSeq, EmptyIsSeq DEF A!Words
  <2>2. CASE ~A!InCode(s, k) /\ A!Spilled(s, k)
    BY <2>2, OneIsSeq, TwoAreSeq DEF A!Words, SpilledWords
  <2>3. CASE ~A!InCode(s, k) /\ ~A!Spilled(s, k)
    <3>1. CASE s[k].t = "num"
      BY <2>3, <3>1, OneIsSeq DEF A!Words
    <3>2. CASE s[k].t = "dbl"
      BY <2>3, <3>2, OneIsSeq DEF A!Words
    <3>3. CASE s[k].t = "str"
      <4> DEFINE w == [c \in 1 .. Len(s[k].chars) + 1 |->
                        [word |-> IF c <= Len(s[k].chars) THEN s[k].chars[c] ELSE 0]]
      <4>1. A!Words(s, k) = w
        BY <2>3, <3>3 DEF A!Words
      <4>2. Len(s[k].chars) \in Nat
        BY <1>1, <3>3, SeqFacts DEF IsSource
      <4>3. Len(s[k].chars) + 1 \in Nat
        BY <4>2
      <4>4. w = [c \in 1 .. Len(s[k].chars) + 1 |-> w[c]]
        OBVIOUS
      <4> HIDE DEF w
      <4> QED
        BY <4>1, <4>3, <4>4, FunctionIsSeq
    <3>4. CASE s[k].t \notin {"num", "dbl", "str"}
      BY <2>3, <3>4, OneIsSeq, EmptyIsSeq DEF A!Words
    <3> QED
      BY <3>1, <3>2, <3>3, <3>4
  <2> QED
    BY <2>1, <2>2, <2>3
<1> QED
  BY <1>2, <1>3 DEF Pieces

LEMMA Addresses ==
  ASSUME NEW s, IsSource(s), NEW k \in 1 .. Len(s) + 1
  PROVE  /\ IsSeq(Before(s, k)) /\ Len(Before(s, k)) \in Nat
         /\ A!Address(s, k) = HEADER_LEN + Len(Before(s, k))
         /\ Start(Worded(s), k) = Len(Before(s, k))
<1> DEFINE l == k - 1
<1>1. Len(s) \in Nat /\ DOMAIN s = 1 .. Len(s) /\ l \in 0 .. Len(s)
  BY SourceFacts
<1>2. IsSeq(Flat(Worded(s), l)) /\ Len(Flat(Worded(s), l)) \in Nat
  BY <1>1, WordsAreSeqs, FlatSteps
<1>3. [j \in 1 .. l |-> Worded(s)[j]] = [j \in 1 .. l |-> A!Words(s, j)]
  <2>1. \A j \in 1 .. l : Worded(s)[j] = A!Words(s, j)
    BY <1>1, WordsAreSeqs
  <2> QED
    BY <2>1
<1>4. A!Address(s, k) = HEADER_LEN + Len(Flat(Worded(s), l))
  BY <1>3 DEF A!Address, Flat
<1> QED
  BY <1>2, <1>4 DEF Before, Start

LEMMA BeforeNext ==
  ASSUME NEW s, IsSource(s), NEW k \in 1 .. Len(s)
  PROVE  Before(s, k + 1) = Before(s, k) \o A!Words(s, k)
<1>1. Len(s) \in Nat /\ k \in 1 .. Len(s) /\ (k + 1) - 1 = k
  BY SourceFacts
<1>2. Flat(Worded(s), k) = Flat(Worded(s), k - 1) \o Worded(s)[k]
  BY <1>1, WordsAreSeqs, FlatSteps
<1>3. Worded(s)[k] = A!Words(s, k)
  BY WordsAreSeqs
<1> QED
  BY <1>1, <1>2, <1>3 DEF Before

LEMMA BeforeIdle ==
  ASSUME NEW s, IsSource(s), NEW a \in 1 .. Len(s) + 1, NEW b \in a .. Len(s) + 1,
         \A j \in a .. b - 1 : A!Words(s, j) = <<>>
  PROVE  Before(s, b) = Before(s, a)
<1> DEFINE x == a - 1
           y == b - 1
<1>1. /\ Len(s) \in Nat /\ x \in 0 .. Len(s) /\ y \in x .. Len(s)
      /\ \A j \in x + 1 .. y : j \in a .. b - 1 /\ j \in 1 .. Len(s)
  BY SourceFacts
<1>2. \A j \in x + 1 .. y : Worded(s)[j] = <<>>
  BY <1>1, WordsAreSeqs
<1> HIDE DEF x, y
<1>3. Flat(Worded(s), y) = Flat(Worded(s), x)
  BY <1>1, <1>2, WordsAreSeqs, FlatIdle
<1> QED
  BY <1>3 DEF Before, x, y

(* The words of items, as the loops of the assembler come to them.         *)
LEMMA CodeLays ==
  ASSUME NEW s, NEW k, k < A!Data(s)
  PROVE  A!Words(s, k) = IF s[k].t = "instr" THEN <<Encoded(s[k])>> ELSE <<>>
BY DEF A!Words, A!InCode

LEMMA DataLays ==
  ASSUME NEW s, IsSource(s), NEW k \in A!Data(s) .. Len(s)
  PROVE  /\ s[k].t \notin {"num", "dbl", "str", "blank"} => A!Words(s, k) = <<>>
         /\ s[k].t = "blank" /\ ~A!BlankZero(s, k) => A!Words(s, k) = <<>>
         /\ s[k].t = "blank" /\ A!BlankZero(s, k) => A!Words(s, k) = <<Word(0)>>
         /\ A!Spilled(s, k) => A!Words(s, k) = SpilledWords(s[k])
         /\ s[k].t \in {"num", "dbl", "str"} /\ ~A!Spilled(s, k) => A!Words(s, k) = DataWords(s[k])
<1>1. Len(s) \in Nat /\ DOMAIN s = 1 .. Len(s) /\ A!Data(s) \in 1 .. Len(s) + 1
  BY SourceFacts
<1>2. ~A!InCode(s, k) /\ k \in 1 .. Len(s)
  BY <1>1 DEF A!InCode
<1>3. A!Spilled(s, k) => s[k].t \in {"num", "dbl"}
  BY DEF A!Spilled
<1>4. A!BlankZero(s, k) => s[k].t = "blank"
  BY DEF A!BlankZero, A!EndsBlank
<1>5. CASE s[k].t \notin {"num", "dbl", "str", "blank"}
  BY <1>2, <1>3, <1>4, <1>5 DEF A!Words
<1>6. CASE s[k].t = "blank"
  BY <1>2, <1>3, <1>6 DEF A!Words, Word
<1>7. CASE A!Spilled(s, k)
  BY <1>2, <1>3, <1>7 DEF A!Words
<1>8. CASE s[k].t \in {"num", "dbl"} /\ ~A!Spilled(s, k)
  BY <1>2, <1>8 DEF A!Words, DataWords, Word, Bits
<1>9. CASE s[k].t = "str" /\ ~A!Spilled(s, k)
  <2> DEFINE n == Len(s[k].chars)
             w == [c \in 1 .. n + 1 |-> [word |-> IF c <= n THEN s[k].chars[c] ELSE 0]]
             x == [c \in 1 .. n |-> Word(s[k].chars[c])]
  <2>1. A!Words(s, k) = w
    BY <1>2, <1>9 DEF A!Words
  <2>2. DataWords(s[k]) = x \o <<Word(0)>>
    BY <1>9 DEF DataWords
  <2>3. n \in Nat
    BY <1>1, <1>2, <1>9, SeqFacts DEF IsSource
  <2>4. IsSeq(x) /\ Len(x) = n /\ IsSeq(<<Word(0)>>) /\ Len(<<Word(0)>>) = 1 /\ <<Word(0)>>[1] = Word(0)
    BY <2>3, FunctionIsSeq, OneIsSeq
  <2> DEFINE y == x \o <<Word(0)>>
  <2>5. /\ IsSeq(y) /\ Len(y) = n + 1
        /\ \A c \in 1 .. n : y[c] = x[c]
        /\ y[n + 1] = Word(0)
    <3> HIDE DEF x, n
    <3>1. 1 \in 1 .. 1
      OBVIOUS
    <3>2. /\ IsSeq(y) /\ Len(y) = Len(x) + 1
          /\ \A c \in 1 .. Len(x) : y[c] = x[c]
          /\ \A c \in 1 .. 1 : y[Len(x) + c] = <<Word(0)>>[c]
      BY <2>4, ConcatIsSeq
    <3> HIDE DEF y
    <3> QED
      BY <2>4, <3>1, <3>2
  <2>6. \A c \in 1 .. n : x[c] = [word |-> s[k].chars[c]]
    BY DEF Word
  <2> HIDE DEF x, y
  <2>7. y = [c \in 1 .. n + 1 |-> y[c]]
    BY <2>5, SeqFacts
  <2>8. \A c \in 1 .. n + 1 : y[c] = [word |-> IF c <= n THEN s[k].chars[c] ELSE 0]
    <3> HIDE DEF n
    <3>1. ASSUME NEW c \in 1 .. n + 1
          PROVE  y[c] = [word |-> IF c <= n THEN s[k].chars[c] ELSE 0]
      <4>1. CASE c <= n
        <5>1. c \in 1 .. n
          BY <2>3, <4>1
        <5> QED
          BY <2>5, <2>6, <4>1, <5>1
      <4>2. CASE ~(c <= n)
        <5>1. c = n + 1
          BY <2>3, <4>2
        <5> QED
          BY <2>5, <4>2, <5>1 DEF Word
      <4> QED
        BY <4>1, <4>2
    <3> QED
      BY <3>1
  <2>9. y = w
    <3> HIDE DEF n
    <3> QED
      BY <2>7, <2>8
  <2>10. A!Words(s, k) = DataWords(s[k])
    BY <2>1, <2>2, <2>9 DEF y
  <2>11. s[k].t \notin {"num", "dbl", "blank"}
    BY <1>9
  <2> QED
    BY <1>9, <2>10, <2>11
<1> QED
  BY <1>3, <1>5, <1>6, <1>7, <1>8, <1>9

(* The first item from h on that is text; a blank that ends its line is    *)
(* read for it if it is a number, else stands for a zero.                  *)
FirstText(s, h, m) ==
  /\ m \in h .. Len(s) + 1
  /\ m = Len(s) + 1 \/ s[m].t \notin {"blank", "nl"}
  /\ \A j \in h .. m - 1 : s[j].t \in {"blank", "nl"}

LEMMA BlankLays ==
  ASSUME NEW s, IsSource(s), NEW h \in A!Data(s) + 1 .. Len(s), A!EndsBlank(s, h),
         NEW m, FirstText(s, h, m)
  PROVE  LET number == m <= Len(s) /\ s[m].t \in {"num", "dbl"}
         IN  /\ number => /\ \A j \in h .. m - 1 : A!Words(s, j) = <<>>
                          /\ A!Words(s, m) = SpilledWords(s[m])
             /\ ~number => A!Words(s, h) = <<Word(0)>>
<1>1. Len(s) \in Nat /\ DOMAIN s = 1 .. Len(s) /\ A!Data(s) \in 1 .. Len(s) + 1
  BY SourceFacts
<1>2. /\ m \in h .. Len(s) + 1
      /\ m = Len(s) + 1 \/ s[m].t \notin {"blank", "nl"}
      /\ \A j \in h .. m - 1 : s[j].t \in {"blank", "nl"}
  BY DEF FirstText
<1>3. \A j \in h .. m - 1 : ~A!Text(s, j)
  BY <1>2 DEF A!Text
<1>4. s[h].t = "blank"
  BY DEF A!EndsBlank
<1>5. m # h
  BY <1>1, <1>2, <1>4
<1>6. CASE m <= Len(s) /\ s[m].t \in {"num", "dbl"}
  <2>1. A!Spilled(s, m)
    <3>1. h \in A!Data(s) + 1 .. m - 1
      BY <1>1, <1>2, <1>5
    <3> QED
      BY <1>3, <1>6, <3>1 DEF A!Spilled
  <2>2. A!Words(s, m) = SpilledWords(s[m])
    <3>1. m \in A!Data(s) .. Len(s)
      BY <1>1, <1>2, <1>6
    <3> QED
      BY <2>1, <3>1, DataLays
  <2>3. ASSUME NEW j \in h .. m - 1
        PROVE  A!Words(s, j) = <<>>
    <3>1. j \in A!Data(s) .. Len(s) /\ m \in j + 1 .. Len(s)
      BY <1>1, <1>2, <1>6
    <3>2. \A i \in j .. m - 1 : ~A!Text(s, i)
      BY <1>1, <1>2, <1>3
    <3>3. ~A!BlankZero(s, j)
      BY <2>1, <3>1, <3>2 DEF A!BlankZero
    <3>4. s[j].t \in {"blank", "nl"}
      BY <1>2
    <3> QED
      BY <3>1, <3>3, <3>4, DataLays
  <2> QED
    BY <1>6, <2>2, <2>3
<1>7. CASE ~(m <= Len(s) /\ s[m].t \in {"num", "dbl"})
  <2>1. ASSUME NEW j \in h + 1 .. Len(s), A!Spilled(s, j), \A i \in h .. j - 1 : ~A!Text(s, i)
        PROVE  FALSE
    <3>1. s[j].t \in {"num", "dbl"}
      BY <2>1 DEF A!Spilled
    <3>2. ~(j < m)
      <4>1. j < m => j \in h .. m - 1
        BY <1>1, <1>2
      <4> QED
        BY <1>2, <3>1, <4>1
    <3>3. ~(m < j)
      <4>1. m < j => m \in h .. j - 1 /\ m \in DOMAIN s
        BY <1>1, <1>2
      <4>2. m < j => A!Text(s, m)
        BY <1>1, <1>2, <4>1 DEF A!Text
      <4> QED
        BY <2>1, <4>1, <4>2
    <3>4. m = j
      BY <1>1, <1>2, <3>2, <3>3
    <3> QED
      BY <1>7, <3>1, <3>4
  <2>2. A!BlankZero(s, h)
    BY <2>1 DEF A!BlankZero
  <2>3. h \in A!Data(s) .. Len(s)
    BY <1>1
  <2> QED
    BY <1>4, <1>7, <2>2, <2>3, DataLays
<1> QED
  BY <1>6, <1>7

(* What is settled stays so, item after item.                              *)
LEMMA SettledOn ==
  ASSUME NEW s, IsSource(s), NEW h \in A!Data(s) + 1 .. Len(s), Settled(s, h)
  PROVE  /\ ~A!Spilled(s, h)
         /\ ~A!EndsBlank(s, h) => Settled(s, h + 1)
         /\ \A m : FirstText(s, h, m) =>
              IF m <= Len(s) /\ s[m].t \in {"num", "dbl"} THEN Settled(s, m + 1)
                                                        ELSE Settled(s, h + 1)
<1>1. Len(s) \in Nat /\ DOMAIN s = 1 .. Len(s) /\ A!Data(s) \in 1 .. Len(s) + 1
  BY SourceFacts
<1>2. ~A!Spilled(s, h)
  BY <1>1 DEF A!Spilled, Settled
<1> DEFINE Reads(j, m) == s[m].t \in {"num", "dbl"} /\ A!EndsBlank(s, j) /\ \A i \in j .. m - 1 : ~A!Text(s, i)
<1>3. ASSUME NEW j \in A!Data(s) + 1 .. h - 1, NEW m \in h .. Len(s), Reads(j, m)
      PROVE  FALSE
  BY <1>3 DEF Settled
<1>4. ASSUME \A m \in h + 1 .. Len(s) : ~Reads(h, m)
      PROVE  Settled(s, h + 1)
  <2>1. ASSUME NEW j \in A!Data(s) + 1 .. h, NEW m \in h + 1 .. Len(s), Reads(j, m)
        PROVE  FALSE
    <3>1. CASE j = h
      BY <1>4, <2>1, <3>1
    <3>2. CASE j # h
      <4>1. j \in A!Data(s) + 1 .. h - 1 /\ m \in h .. Len(s)
        BY <1>1, <3>2
      <4> HIDE DEF Reads
      <4> QED
        BY <1>3, <2>1, <4>1
    <3> QED
      BY <3>1, <3>2
  <2>2. (h + 1) - 1 = h
    BY <1>1
  <2> QED
    BY <2>1, <2>2 DEF Settled
<1>5. ASSUME NEW m, FirstText(s, h, m)
      PROVE  IF m <= Len(s) /\ s[m].t \in {"num", "dbl"} THEN Settled(s, m + 1) ELSE Settled(s, h + 1)
  <2>1. /\ m \in h .. Len(s) + 1
        /\ m = Len(s) + 1 \/ s[m].t \notin {"blank", "nl"}
        /\ \A j \in h .. m - 1 : s[j].t \in {"blank", "nl"}
    BY <1>5 DEF FirstText
  <2>2. m <= Len(s) => A!Text(s, m)
    BY <1>1, <2>1 DEF A!Text
  <2>3. CASE m <= Len(s) /\ s[m].t \in {"num", "dbl"}
    <3>1. ASSUME NEW j \in A!Data(s) + 1 .. (m + 1) - 1, NEW k \in m + 1 .. Len(s), Reads(j, k)
          PROVE  FALSE
      <4>1. m \in j .. k - 1
        BY <1>1, <2>1
      <4> QED
        BY <2>2, <2>3, <3>1, <4>1
    <3>2. Settled(s, m + 1)
      BY <3>1 DEF Settled
    <3> QED
      BY <2>3, <3>2
  <2>4. CASE ~(m <= Len(s) /\ s[m].t \in {"num", "dbl"})
    <3>1. ASSUME NEW k \in h + 1 .. Len(s), Reads(h, k)
          PROVE  FALSE
      <4>1. CASE k < m
        <5>1. k \in h .. m - 1
          BY <1>1, <2>1, <4>1
        <5> QED
          BY <2>1, <3>1, <5>1
      <4>2. CASE k = m
        BY <2>4, <3>1, <4>2
      <4>3. CASE m < k
        <5>1. m \in h .. k - 1 /\ m <= Len(s)
          BY <1>1, <2>1, <4>3
        <5> QED
          BY <2>2, <3>1, <5>1
      <4> QED
        BY <1>1, <2>1, <4>1, <4>2, <4>3
    <3>2. Settled(s, h + 1)
      <4> HIDE DEF Reads
      <4> QED
        BY <1>4, <3>1
    <3> QED
      BY <2>4, <3>2
  <2> QED
    BY <2>3, <2>4
<1>6. ASSUME ~A!EndsBlank(s, h)
      PROVE  Settled(s, h + 1)
  BY <1>4, <1>6
<1> QED
  BY <1>2, <1>5, <1>6

LEMMA SettledAtFirst ==
  ASSUME NEW s, IsSource(s), A!Data(s) <= Len(s)
  PROVE  /\ Settled(s, A!Data(s) + 1)
         /\ A!Data(s) + 1 <= Len(s) => ~A!EndsBlank(s, A!Data(s) + 1) /\ Settled(s, A!Data(s) + 2)
<1>1. Len(s) \in Nat /\ A!Data(s) \in 1 .. Len(s) /\ s[A!Data(s)].t = ".data"
  BY SourceFacts
<1> DEFINE d == A!Data(s)
<1>2. \A j \in d + 1 .. (d + 1) - 1 : FALSE
  BY <1>1
<1>3. Settled(s, d + 1)
  BY <1>2 DEF Settled
<1>4. (d + 1) - 1 = d /\ (d + 1) + 1 = d + 2
  BY <1>1
<1>5. ~A!EndsBlank(s, d + 1)
  BY <1>1, <1>4 DEF A!EndsBlank
<1>6. ASSUME d + 1 <= Len(s)
      PROVE  Settled(s, d + 2)
  <2>1. d + 1 \in A!Data(s) + 1 .. Len(s)
    BY <1>1, <1>6
  <2>2. Settled(s, (d + 1) + 1)
    BY <1>3, <1>5, <2>1, SettledOn
  <2> QED
    BY <1>4, <2>2
<1> QED
  BY <1>3, <1>5, <1>6

(* The first label of a name is what the name stands for.                  *)
LEMMA FirstLabel ==
  ASSUME NEW s, IsSource(s), NEW k \in 1 .. Len(s), s[k].t = "label",
         \A j \in 1 .. k - 1 : s[j].t = "label" => s[j].name # s[k].name
  PROVE  A!Target(s, s[k].name) = A!Address(s, k)
<1> DEFINE S == A!Labels(s, s[k].name)
<1>1. Len(s) \in Nat /\ DOMAIN s = 1 .. Len(s)
  BY SourceFacts
<1>2. k \in S /\ S \subseteq 1 .. Len(s)
  BY <1>1 DEF A!Labels
<1>3. \A y \in S : k <= y
  <2>1. ASSUME NEW y \in S, y < k
        PROVE  FALSE
    <3>1. y \in 1 .. k - 1
      BY <1>1, <1>2, <2>1
    <3>2. s[y].t = "label" /\ s[y].name = s[k].name
      BY DEF A!Labels
    <3> QED
      BY <3>1, <3>2
  <2> HIDE DEF S
  <2> QED
    BY <1>1, <1>2, <2>1
<1> DEFINE m == CHOOSE x \in S : \A y \in S : x =< y
<1> HIDE DEF S
<1>4. m \in S /\ \A y \in S : m <= y
  <2>1. \E x \in S : \A y \in S : x <= y
    BY <1>2, <1>3
  <2> QED
    BY <2>1
<1>5. m = k
  <2> HIDE DEF m
  <2>1. m \in 1 .. Len(s) /\ m <= k /\ k <= m
    BY <1>2, <1>3, <1>4
  <2> QED
    BY <1>1, <2>1
<1>6. A!Min(S) = k
  BY <1>5 DEF A!Min
<1> QED
  BY <1>6 DEF A!Target, S

(* The registry when a label is passed, and when other items are.          *)
LEMMA KnownOn ==
  ASSUME NEW s, NEW h \in Nat, NEW g \in Nat, NEW reg, Known(s, h, reg), h <= g,
         \A k \in h .. g - 1 : s[k].t # "label"
  PROVE  Known(s, g, reg)
<1>1. \A k \in 1 .. g - 1 : k \in 1 .. h - 1 \/ k \in h .. g - 1
  OBVIOUS
<1> QED
  BY <1>1 DEF Known

LEMMA KnownLabel ==
  ASSUME NEW s, IsSource(s), NEW h \in 1 .. Len(s), NEW reg, IsSeq(reg), Known(s, h, reg),
         s[h].t = "label"
  PROVE  /\ Known(s, h + 1, Labelled(reg, s[h].name, A!Address(s, h)))
         /\ Borne(s, reg) => Borne(s, Labelled(reg, s[h].name, A!Address(s, h)))
<1> DEFINE l == [name |-> s[h].name, pc |-> A!Address(s, h)]
           new == Append(reg, l)
           n == Len(reg)
<1>1. Len(s) \in Nat /\ DOMAIN s = 1 .. Len(s) /\ n \in Nat /\ DOMAIN reg = 1 .. n
  BY SourceFacts, SeqFacts
<1>2. l.name = s[h].name /\ l.pc = A!Address(s, h)
  OBVIOUS
<1> HIDE DEF l
<1>3. IsSeq(new) /\ Len(new) = n + 1 /\ new[n + 1] = l /\ \A q \in 1 .. n : new[q] = reg[q]
  BY AppendIsSeq
<1>4. DOMAIN new = 1 .. n + 1
  BY <1>3, SeqFacts
<1> HIDE DEF new, n
<1>5. ASSUME NEW k \in 1 .. (h + 1) - 1, s[k].t = "label"
      PROVE  \E q \in DOMAIN new : new[q].name = s[k].name
  <2>1. CASE k = h
    <3>1. n + 1 \in DOMAIN new
      BY <1>1, <1>4
    <3> QED
      BY <1>2, <1>3, <2>1, <3>1
  <2>2. CASE k # h
    <3>1. k \in 1 .. h - 1
      BY <1>1, <2>2
    <3>2. PICK q \in DOMAIN reg : reg[q].name = s[k].name
      BY <1>5, <3>1 DEF Known
    <3>3. q \in DOMAIN new /\ new[q] = reg[q]
      BY <1>1, <1>3, <1>4
    <3> QED
      BY <3>2, <3>3
  <2> QED
    BY <2>1, <2>2
<1>6. ASSUME NEW q \in DOMAIN new, \A j \in 1 .. q - 1 : new[j].name # new[q].name
      PROVE  new[q].pc = A!Target(s, new[q].name)
  <2>1. CASE q = n + 1
    <3>1. ASSUME NEW k \in 1 .. h - 1, s[k].t = "label"
          PROVE  s[k].name # s[h].name
      <4>1. PICK j \in DOMAIN reg : reg[j].name = s[k].name
        BY <3>1 DEF Known
      <4>2. j \in 1 .. q - 1 /\ new[j] = reg[j]
        BY <1>1, <1>3, <2>1
      <4>3. new[j].name # new[q].name
        BY <1>6, <4>2
      <4> QED
        BY <1>2, <1>3, <2>1, <4>1, <4>2, <4>3
    <3>2. A!Target(s, s[h].name) = A!Address(s, h)
      BY <3>1, FirstLabel
    <3> QED
      BY <1>2, <1>3, <2>1, <3>2
  <2>2. CASE q \in 1 .. n
    <3>1. new[q] = reg[q] /\ \A j \in 1 .. q - 1 : new[j] = reg[j]
      BY <1>1, <1>3, <2>2
    <3>2. \A j \in 1 .. q - 1 : reg[j].name # reg[q].name
      BY <1>6, <3>1
    <3> QED
      BY <1>1, <2>2, <3>1, <3>2 DEF Known
  <2> QED
    BY <1>1, <1>4, <2>1, <2>2
<1>7. ASSUME Borne(s, reg), NEW q \in DOMAIN new
      PROVE  A!Labels(s, new[q].name) # {}
  <2>1. CASE q = n + 1
    <3>1. h \in A!Labels(s, s[h].name)
      BY <1>1 DEF A!Labels
    <3> QED
      BY <1>2, <1>3, <2>1, <3>1
  <2>2. CASE q \in 1 .. n
    BY <1>1, <1>3, <1>7, <2>2 DEF Borne
  <2> QED
    BY <1>1, <1>4, <2>1, <2>2
<1>8. Labelled(reg, s[h].name, A!Address(s, h)) = new
  BY DEF Labelled, l, new
<1>9. Known(s, h + 1, new)
  BY <1>5, <1>6 DEF Known
<1>10. Borne(s, reg) => Borne(s, new)
  BY <1>7 DEF Borne
<1> QED
  BY <1>8, <1>9, <1>10

(* The notes when an instruction with a name is passed, and when other     *)
(* items are.                                                              *)
LEMMA NotedOn ==
  ASSUME NEW s, NEW h \in Nat, NEW g \in Nat, NEW notes, Noted(s, h, notes), h <= g,
         \A k \in h .. g - 1 : ~Uses(s, k)
  PROVE  Noted(s, g, notes)
<1>1. /\ \A k \in 1 .. g - 1 : k \in 1 .. h - 1 \/ k \in h .. g - 1
      /\ \A k \in 1 .. h - 1 : k \in 1 .. g - 1
  OBVIOUS
<1>2. \A k \in 1 .. g - 1 : Uses(s, k) => \E q \in DOMAIN notes : notes[q] = Note(s, k)
  BY <1>1 DEF Noted
<1>3. \A q \in DOMAIN notes : \E k \in 1 .. g - 1 : Uses(s, k) /\ notes[q] = Note(s, k)
  BY <1>1 DEF Noted
<1>4. \A p, q \in DOMAIN notes : notes[p].pc = notes[q].pc => p = q
  BY DEF Noted
<1> QED
  BY <1>2, <1>3, <1>4 DEF Noted

(* An instruction takes one word, so what comes after is at other ones.    *)
LEMMA UsesApart ==
  ASSUME NEW s, IsSource(s), NEW k \in 1 .. Len(s), Uses(s, k)
  PROVE  /\ A!Words(s, k) = <<Encoded(s[k])>>
         /\ A!Address(s, k) \in Nat /\ HEADER_LEN <= A!Address(s, k)
         /\ Len(Before(s, Len(s) + 1)) \in Nat
         /\ A!Address(s, k) < HEADER_LEN + Len(Before(s, Len(s) + 1))
         /\ Before(s, Len(s) + 1)[A!Address(s, k) - HEADER_LEN + 1] = Encoded(s[k])
         /\ \A j \in k + 1 .. Len(s) : A!Address(s, k) < A!Address(s, j)
<1> DEFINE n == Len(s)
           f == Worded(s)
<1>1. n \in Nat /\ Pieces(f, n) /\ f[k] = A!Words(s, k)
  BY SourceFacts, WordsAreSeqs
<1>2. A!Words(s, k) = <<Encoded(s[k])>>
  BY CodeLays DEF Uses, A!InCode
<1>3. Len(f[k]) = 1 /\ f[k][1] = Encoded(s[k])
  BY <1>1, <1>2, OneIsSeq
<1> HIDE DEF f
<1>4. /\ Start(f, k) \in Nat
      /\ Start(f, k) + 1 <= Len(Flat(f, n)) /\ Len(Flat(f, n)) \in Nat
      /\ \A i \in 1 .. 1 : Flat(f, n)[Start(f, k) + i] = f[k][i]
      /\ \A j \in k + 1 .. n : Start(f, k) + 1 <= Start(f, j)
  <2>1. /\ Start(f, k) \in Nat
        /\ Start(f, k) + Len(f[k]) <= Len(Flat(f, n)) /\ Len(Flat(f, n)) \in Nat
        /\ \A i \in 1 .. Len(f[k]) : Flat(f, n)[Start(f, k) + i] = f[k][i]
        /\ \A j \in k + 1 .. n : Start(f, k) + Len(f[k]) <= Start(f, j)
    BY <1>1, FlatStart
  <2> QED
    BY <1>3, <2>1
<1>5. Flat(f, n)[Start(f, k) + 1] = Encoded(s[k])
  BY <1>3, <1>4
<1>6. \A j \in 1 .. n : A!Address(s, j) = HEADER_LEN + Start(f, j)
  <2>1. \A j \in 1 .. n : j \in 1 .. n + 1
    BY <1>1
  <2> QED
    BY <2>1, Addresses DEF f
<1>7. Before(s, n + 1) = Flat(f, n)
  <2>1. (n + 1) - 1 = n
    BY <1>1
  <2> QED
    BY <2>1 DEF Before, f
<1>8. A!Address(s, k) = HEADER_LEN + Start(f, k)
  BY <1>6
<1>9. A!Address(s, k) - HEADER_LEN + 1 = Start(f, k) + 1
  BY <1>4, <1>8 DEF HEADER_LEN
<1>10. A!Address(s, k) \in Nat /\ HEADER_LEN <= A!Address(s, k)
  BY <1>4, <1>8 DEF HEADER_LEN
<1>11. A!Address(s, k) < HEADER_LEN + Len(Flat(f, n))
  BY <1>4, <1>8 DEF HEADER_LEN
<1>12. ASSUME NEW j \in k + 1 .. n
       PROVE  A!Address(s, k) < A!Address(s, j)
  <2>1. j \in 1 .. n + 1 /\ j \in 1 .. n
    BY <1>1
  <2>2. Start(f, j) \in Nat /\ Start(f, k) + 1 <= Start(f, j)
    BY <2>1, <1>1, <1>4, FlatStart
  <2>3. A!Address(s, j) = HEADER_LEN + Start(f, j)
    BY <1>6, <2>1
  <2> QED
    BY <1>4, <1>8, <2>2, <2>3 DEF HEADER_LEN
<1> QED
  BY <1>2, <1>4, <1>5, <1>7, <1>9, <1>10, <1>11, <1>12

LEMMA NotedUse ==
  ASSUME NEW s, IsSource(s), NEW h \in 1 .. Len(s), NEW notes, IsSeq(notes), Noted(s, h, notes),
         Uses(s, h)
  PROVE  Noted(s, h + 1, Labelled(notes, s[h].ref, A!Address(s, h)))
<1> DEFINE new == Append(notes, Note(s, h))
           n == Len(notes)
<1>1. Len(s) \in Nat /\ DOMAIN s = 1 .. Len(s) /\ n \in Nat /\ DOMAIN notes = 1 .. n
  BY SourceFacts, SeqFacts
<1>2. IsSeq(new) /\ Len(new) = n + 1 /\ new[n + 1] = Note(s, h) /\ \A q \in 1 .. n : new[q] = notes[q]
  BY AppendIsSeq
<1>3. DOMAIN new = 1 .. n + 1
  BY <1>2, SeqFacts
<1> HIDE DEF new, n
<1>4. ASSUME NEW k \in 1 .. (h + 1) - 1, Uses(s, k)
      PROVE  \E q \in DOMAIN new : new[q] = Note(s, k)
  <2>1. CASE k = h
    <3>1. n + 1 \in DOMAIN new
      BY <1>1, <1>3
    <3> QED
      BY <1>2, <2>1, <3>1
  <2>2. CASE k # h
    <3>1. k \in 1 .. h - 1
      BY <1>1, <2>2
    <3>2. PICK q \in DOMAIN notes : notes[q] = Note(s, k)
      BY <1>4, <3>1 DEF Noted
    <3>3. q \in DOMAIN new /\ new[q] = notes[q]
      BY <1>1, <1>2, <1>3
    <3> QED
      BY <3>2, <3>3
  <2> QED
    BY <2>1, <2>2
<1>5. ASSUME NEW q \in 1 .. n
      PROVE  /\ \E k \in 1 .. h - 1 : Uses(s, k) /\ new[q] = Note(s, k)
             /\ new[q].pc # A!Address(s, h)
  <2>1. PICK k \in 1 .. h - 1 : Uses(s, k) /\ notes[q] = Note(s, k)
    BY <1>1 DEF Noted
  <2>2. new[q] = Note(s, k)
    BY <1>2, <2>1
  <2>3. A!Address(s, k) \in Nat /\ A!Address(s, k) < A!Address(s, h)
    <3>1. k \in 1 .. Len(s) /\ h \in k + 1 .. Len(s)
      BY <1>1
    <3> QED
      BY <2>1, <3>1, UsesApart
  <2>4. new[q].pc = A!Address(s, k)
    BY <2>2 DEF Note
  <2> QED
    BY <2>1, <2>2, <2>3, <2>4
<1>6. \A q \in DOMAIN new : \E k \in 1 .. (h + 1) - 1 : Uses(s, k) /\ new[q] = Note(s, k)
  <2>1. h \in 1 .. (h + 1) - 1 /\ \A k \in 1 .. h - 1 : k \in 1 .. (h + 1) - 1
    BY <1>1
  <2>2. \A q \in DOMAIN new : q = n + 1 \/ q \in 1 .. n
    BY <1>1, <1>3
  <2> QED
    BY <1>2, <1>5, <2>1, <2>2
<1>7. Note(s, h).pc = A!Address(s, h)
  BY DEF Note
<1>8. ASSUME NEW p \in DOMAIN new, NEW q \in DOMAIN new, new[p].pc = new[q].pc
      PROVE  p = q
  <2>1. (p = n + 1 \/ p \in 1 .. n) /\ (q = n + 1 \/ q \in 1 .. n)
    BY <1>1, <1>3
  <2>2. CASE p \in 1 .. n /\ q \in 1 .. n
    BY <1>1, <1>2, <1>8, <2>2 DEF Noted
  <2> QED
    BY <1>2, <1>5, <1>7, <1>8, <2>1, <2>2
<1>9. Noted(s, h + 1, new)
  BY <1>4, <1>6, <1>8 DEF Noted
<1> QED
  BY <1>9 DEF new, Labelled, Note
-----------------------------------------------------------------------------
(* The assembler's table: the operands of its opcodes.                     *)

Ops == {"R", "MR", "FR", "I", "MI", "FI", "S", "L", "B", "FB", "SYS"}

LEMMA OpsAreOps == \A mn \in DOMAIN getOpcodeFunct : getOpcodeFunct[mn].op \in Ops
<1>1. \A mn \in DOMAIN LettersAOX : LettersAOX[mn].op \in Ops
  BY DEF LettersAOX, Fn, Ops
<1>2. \A mn \in DOMAIN LettersS : LettersS[mn].op \in Ops
  BY DEF LettersS, Fn, Ops
<1>3. \A mn \in DOMAIN LettersJLBHN : LettersJLBHN[mn].op \in Ops
  BY DEF LettersJLBHN, Fn, Ops
<1>4. \A mn \in DOMAIN LettersMDR : LettersMDR[mn].op \in Ops
  BY DEF LettersMDR, Fn, Ops
<1>5. \A mn \in DOMAIN LettersFIU : LettersFIU[mn].op \in Ops
  BY DEF LettersFIU, Fn, Ops
<1> QED
  BY <1>1, <1>2, <1>3, <1>4, <1>5 DEF getOpcodeFunct

LEMMA OperandCounts == \A op \in Ops : Len(Operands[op]) \in Nat /\ (Len(Operands[op]) = 0 <=> op = "SYS")
BY DEF Ops, Operands
-----------------------------------------------------------------------------
(* The turns of the loop over the code.  One takes an item, and with some  *)
(* the blank after it.                                                     *)
Taken(s, h, g) ==
  g = h + 1 \/ (g = h + 2 /\ h + 1 <= Len(s) /\ s[h + 1].t = "blank")

LEMMA CodeTaken ==
  ASSUME NEW s, IsSource(s), NEW h \in 1 .. Len(s), h <= A!Data(s), s[h].t # ".data",
         NEW g, Taken(s, h, g)
  PROVE  /\ h < A!Data(s) /\ g \in Nat /\ h < g /\ g <= A!Data(s) /\ g \in 1 .. Len(s) + 1
         /\ Before(s, g) = Before(s, h) \o A!Words(s, h)
         /\ \A k \in h + 1 .. g - 1 : s[k].t = "blank"
         /\ Offset(s, h) = 0 /\ Offset(s, g) = 0
<1>1. /\ Len(s) \in Nat /\ DOMAIN s = 1 .. Len(s) /\ A!Data(s) \in 1 .. Len(s) + 1
      /\ A!Data(s) <= Len(s) => s[A!Data(s)].t = ".data"
  BY SourceFacts
<1>2. h < A!Data(s)
  BY <1>1
<1>5. \A x \in Nat : x <= A!Data(s) => Offset(s, x) = 0
  BY <1>1 DEF Offset
<1>3. CASE g = h + 1
  <2>1. Before(s, g) = Before(s, h) \o A!Words(s, h)
    BY <1>3, BeforeNext
  <2>2. \A k \in h + 1 .. g - 1 : FALSE
    BY <1>1, <1>3
  <2>3. g \in Nat /\ h < g /\ g <= A!Data(s) /\ g \in 1 .. Len(s) + 1
    BY <1>1, <1>2, <1>3
  <2> QED
    <3>1. Offset(s, h) = 0 /\ Offset(s, g) = 0
      BY <1>5, <2>3
    <3>2. \A k \in h + 1 .. g - 1 : s[k].t = "blank"
      BY <2>2
    <3> QED
      BY <1>2, <2>1, <2>3, <3>1, <3>2
<1>4. CASE g = h + 2 /\ h + 1 <= Len(s) /\ s[h + 1].t = "blank"
  <2> DEFINE p == h + 1
  <2>1. p \in 1 .. Len(s) /\ p # A!Data(s) /\ g = p + 1 /\ s[p].t = "blank"
    BY <1>1, <1>4
  <2>2. p < A!Data(s) /\ h < p
    BY <1>1, <1>2, <2>1
  <2>3. Before(s, p) = Before(s, h) \o A!Words(s, h)
    BY BeforeNext
  <2> HIDE DEF p
  <2>4. A!Words(s, p) = <<>>
    BY <2>1, <2>2, CodeLays
  <2>5. Before(s, g) = Before(s, p) \o <<>>
    BY <2>1, <2>4, BeforeNext
  <2>6. IsSeq(Before(s, p))
    <3>1. p \in 1 .. Len(s) + 1
      BY <1>1, <2>1
    <3> QED
      BY <3>1, Addresses
  <2>7. Before(s, p) \o <<>> = Before(s, p)
    BY <2>6 DEF IsSeq
  <2>8. g \in Nat /\ h < g /\ g <= A!Data(s) /\ g \in 1 .. Len(s) + 1
    BY <1>1, <2>1, <2>2
  <2>9. \A k \in h + 1 .. g - 1 : s[k].t = "blank"
    BY <1>1, <1>4
  <2> QED
    BY <1>1, <1>2, <1>5, <2>3, <2>5, <2>7, <2>8, <2>9
<1> QED
  BY <1>3, <1>4 DEF Taken

(* A blank that is taken with the item before it is in its place.          *)
LEMMA TakenIsGood ==
  ASSUME NEW s, IsSource(s), NEW h \in 1 .. Len(s), h + 1 < A!Data(s), s[h + 1].t = "blank",
         s[h].t \in {"label", "comment"} \/ (s[h].t = "instr" /\ Len(s[h].regs) = 0)
  PROVE  GoodItem(s, h + 1)
<1>1. (h + 1) - 1 = h /\ h + 1 > 1
  OBVIOUS
<1>2. ~A!Trailing(s, h + 1)
  BY <1>1 DEF A!Trailing
<1> QED
  BY <1>2 DEF GoodItem, A!InCode, A!CodeItem

LEMMA NeededOn ==
  ASSUME NEW s, NEW h \in Nat, NEW g \in Nat, h <= g,
         \A k \in h .. g - 1 : ~(A!InCode(s, k) /\ s[k].t = "instr")
  PROVE  Needed(s, g) = Needed(s, h)
<1> DEFINE K(x) == {j \in 1 .. x - 1 : A!InCode(s, j) /\ s[j].t = "instr"}
<1>1. \A k \in 1 .. g - 1 : k \in 1 .. h - 1 \/ k \in h .. g - 1
  OBVIOUS
<1>2. \A k \in 1 .. h - 1 : k \in 1 .. g - 1
  OBVIOUS
<1>3. K(g) = K(h)
  BY <1>1, <1>2
<1> HIDE DEF K
<1>4. Needed(s, g) = UNION {Needs(s[k]) : k \in K(g)} /\ Needed(s, h) = UNION {Needs(s[k]) : k \in K(h)}
  BY DEF Needed, K
<1> QED
  BY <1>3, <1>4

LEMMA NeededInstr ==
  ASSUME NEW s, NEW h \in 1 .. Len(s), Len(s) \in Nat, A!InCode(s, h), s[h].t = "instr"
  PROVE  Needed(s, h + 1) = Needed(s, h) \cup ExtensionsOf(s[h].mn)
<1> DEFINE K(x) == {j \in 1 .. x - 1 : A!InCode(s, j) /\ s[j].t = "instr"}
<1>1. \A k : k \in 1 .. (h + 1) - 1 <=> (k \in 1 .. h - 1 \/ k = h)
  OBVIOUS
<1>2. K(h + 1) = K(h) \cup {h}
  BY <1>1
<1> HIDE DEF K
<1>3. Needed(s, h + 1) = UNION {Needs(s[k]) : k \in K(h + 1)} /\ Needed(s, h) = UNION {Needs(s[k]) : k \in K(h)}
  BY DEF Needed, K
<1>4. UNION {Needs(s[k]) : k \in K(h) \cup {h}} = (UNION {Needs(s[k]) : k \in K(h)}) \cup Needs(s[h])
  OBVIOUS
<1> QED
  BY <1>2, <1>3, <1>4 DEF Needs

(* What a source that is refused is refused for stays ahead.               *)
LEMMA DoomedOn ==
  ASSUME NEW s, NEW h \in Nat, NEW g \in Nat, h <= g, NEW notes, NEW p, Doomed(s, h, notes, p),
         \A k \in h .. g - 1 : k <= Len(s) => GoodItem(s, k), Len(s) \in Nat
  PROVE  Doomed(s, g, notes, p)
<1>1. ASSUME NEW k \in h .. Len(s), ~GoodItem(s, k)
      PROVE  k \in g .. Len(s)
  <2>1. k \notin h .. g - 1
    BY <1>1
  <2> QED
    BY <2>1
<1> QED
  BY <1>1 DEF Doomed

LEMMA DoomedNote ==
  ASSUME NEW s, NEW h \in Nat, NEW g \in Nat, h <= g, NEW notes, IsSeq(notes), NEW name, NEW pc,
         NEW p \in 0 .. Len(notes), Doomed(s, h, notes, p), Len(s) \in Nat,
         \/ pc = 0 \/ A!Labels(s, name) = {}
         \/ \A k \in h .. g - 1 : k <= Len(s) => GoodItem(s, k)
  PROVE  Doomed(s, g, Labelled(notes, name, pc), p)
<1> DEFINE x == [name |-> name, pc |-> pc]
           new == Append(notes, x)
           n == Len(notes)
<1>1. x.name = name /\ x.pc = pc /\ n \in Nat
  BY SeqFacts
<1> HIDE DEF x
<1>2. Len(new) = n + 1 /\ new[n + 1] = x /\ \A q \in 1 .. n : new[q] = notes[q]
  BY AppendIsSeq
<1> HIDE DEF new
<1>3. CASE pc = 0 \/ A!Labels(s, name) = {}
  <2>1. n + 1 \in p + 1 .. Len(new)
    BY <1>1, <1>2
  <2>2. Doomed(s, g, new, p)
    BY <1>1, <1>2, <1>3, <2>1 DEF Doomed
  <2> QED
    BY <2>2 DEF Labelled, new, x
<1>4. CASE \A k \in h .. g - 1 : k <= Len(s) => GoodItem(s, k)
  <2>1. Doomed(s, g, notes, p)
    BY <1>4, DoomedOn
  <2>2. \A q \in p + 1 .. n : q \in p + 1 .. Len(new) /\ new[q] = notes[q]
    BY <1>1, <1>2
  <2>3. Doomed(s, g, new, p)
    BY <2>1, <2>2 DEF Doomed
  <2> QED
    BY <2>3 DEF Labelled, new, x
<1> QED
  BY <1>3, <1>4

LEMMA BorneLabel ==
  ASSUME NEW s, NEW reg, IsSeq(reg), Borne(s, reg), NEW name, NEW pc, A!Labels(s, name) # {}
  PROVE  Borne(s, Labelled(reg, name, pc))
<1> DEFINE l == [name |-> name, pc |-> pc]
           new == Append(reg, l)
           n == Len(reg)
<1>1. l.name = name /\ n \in Nat /\ DOMAIN reg = 1 .. n
  BY SeqFacts
<1> HIDE DEF l
<1>2. IsSeq(new) /\ Len(new) = n + 1 /\ new[n + 1] = l /\ \A q \in 1 .. n : new[q] = reg[q]
  BY AppendIsSeq
<1>3. DOMAIN new = 1 .. n + 1
  BY <1>2, SeqFacts
<1> HIDE DEF new, n
<1>4. \A q \in DOMAIN new : q = n + 1 \/ q \in 1 .. n
  BY <1>1, <1>3
<1>5. Borne(s, new)
  BY <1>1, <1>2, <1>4 DEF Borne
<1> QED
  BY <1>5 DEF Labelled, l, new

LEMMA HeaderIsSeq == IsSeq(Header) /\ Len(Header) = 5 /\ HEADER_LEN = 5
<1>1. Header \in Seq({Magic, Word(0)}) /\ Len(Header) = 5
  BY DEF Header
<1> QED
  BY <1>1, SeqOfSeq DEF HEADER_LEN

(* The next word's address is the length of the list.                      *)
LEMMA HereIs ==
  ASSUME NEW s, IsSource(s), NEW h \in 1 .. Len(s) + 1
  PROVE  A!Address(s, h) = Len(Header \o Before(s, h))
<1>1. IsSeq(Header) /\ Len(Header) = HEADER_LEN
  BY HeaderIsSeq
<1>2. IsSeq(Before(s, h)) /\ A!Address(s, h) = HEADER_LEN + Len(Before(s, h))
  BY Addresses
<1>3. Len(Header \o Before(s, h)) = Len(Header) + Len(Before(s, h))
  BY <1>1, <1>2, ConcatIsSeq
<1> QED
  BY <1>1, <1>2, <1>3

LEMMA LaidOn ==
  ASSUME NEW s, IsSource(s), NEW h \in 1 .. Len(s) + 1, NEW words, IsSeq(words)
  PROVE  (Header \o Before(s, h)) \o words = Header \o (Before(s, h) \o words)
<1>1. IsSeq(Before(s, h)) /\ IsSeq(Header)
  BY Addresses, HeaderIsSeq
<1> DEFINE R == {Header[k] : k \in DOMAIN Header} \cup {words[k] : k \in DOMAIN words}
                 \cup {Before(s, h)[k] : k \in DOMAIN Before(s, h)}
<1>2. ASSUME NEW x, IsSeq(x), {x[k] : k \in DOMAIN x} \subseteq R
      PROVE  x \in Seq(R)
  <2>1. Len(x) \in Nat /\ DOMAIN x = 1 .. Len(x) /\ x = [k \in 1 .. Len(x) |-> x[k]]
    BY <1>2, SeqFacts
  <2>2. \A k \in 1 .. Len(x) : x[k] \in R
    BY <1>2, <2>1
  <2> HIDE DEF R
  <2> QED
    BY <2>1, <2>2
<1>3. Header \in Seq(R)
  BY <1>1, <1>2
<1>4. words \in Seq(R)
  BY <1>1, <1>2
<1>5. Before(s, h) \in Seq(R)
  BY <1>1, <1>2
<1> HIDE DEF R
<1> QED
  BY <1>3, <1>4, <1>5

LEMMA CodeMoves ==
  ASSUME AssemblerInv, Ready, phase = "code", phase' = "code",
         head \in 1 .. Len(sbuff), sbuff[head].t # ".data", Taken(sbuff, head, head'),
         list' = list \o A!Words(sbuff, head),
         labelsRegistry' = IF sbuff[head].t = "label"
                           THEN Labelled(labelsRegistry, sbuff[head].name, Len(list)) ELSE labelsRegistry,
         labelsPatches' = IF Uses(sbuff, head)
                          THEN Labelled(labelsPatches, sbuff[head].ref, Len(list)) ELSE labelsPatches,
         extensions' = IF sbuff[head].t = "instr" THEN extensions \cup ExtensionsOf(sbuff[head].mn)
                                                 ELSE extensions,
         UNCHANGED <<sbuff, dataOffset, patched>>,
         GoodItem(sbuff, head) \/ (Uses(sbuff, head) /\ A!Labels(sbuff, sbuff[head].ref) = {}),
         head' = head + 2 => GoodItem(sbuff, head + 1),
         Cursor(sbuff, head', "code")
  PROVE  Ready'
<1> DEFINE s == sbuff
           h == head
           g == head'
<1>1. IsSource(s) /\ IsSeq(labelsRegistry) /\ IsSeq(labelsPatches) /\ patched \in 0 .. Len(labelsPatches)
  BY DEF AssemblerInv, SourceInv, LabelsInv, PatchesInv
<1>2. /\ Borne(s, labelsRegistry) /\ Cursor(s, h, "code") /\ patched = 0
      /\ IF A!Accepted(s) THEN LaidOut ELSE Doomed(s, h, labelsPatches, patched)
  BY DEF Ready
<1>3. /\ Len(s) \in Nat /\ DOMAIN s = 1 .. Len(s) /\ h \in Nat /\ h \in 1 .. Len(s)
      /\ h < A!Data(s) /\ g \in Nat /\ h < g /\ g <= A!Data(s) /\ g \in 1 .. Len(s) + 1
      /\ Before(s, g) = Before(s, h) \o A!Words(s, h)
      /\ \A k \in h + 1 .. g - 1 : s[k].t = "blank"
      /\ Offset(s, h) = 0 /\ Offset(s, g) = 0
  <2>1. h <= A!Data(s)
    BY <1>2 DEF Cursor
  <2>2. Len(s) \in Nat /\ DOMAIN s = 1 .. Len(s)
    BY <1>1, SourceFacts
  <2>3. h \in Nat /\ h \in 1 .. Len(s)
    BY <2>2
  <2> QED
    BY <1>1, <2>1, <2>2, <2>3, CodeTaken
<1>4. Borne(s, labelsRegistry')
  <2>1. CASE s[h].t = "label"
    <3>1. h \in A!Labels(s, s[h].name)
      BY <1>3, <2>1 DEF A!Labels
    <3> QED
      BY <1>1, <1>2, <2>1, <3>1, BorneLabel
  <2>2. CASE s[h].t # "label"
    BY <1>2, <2>2
  <2> QED
    BY <2>1, <2>2
<1>5. ASSUME ~A!Accepted(s)
      PROVE  Doomed(s, g, labelsPatches', patched)
  <2>1. \A k \in h .. g - 1 : k = h \/ (k = h + 1 /\ g = h + 2)
    <3>1. g = h + 1 \/ g = h + 2
      BY DEF Taken
    <3> HIDE DEF s, h, g
    <3> QED
      BY <1>3, <3>1
  <2>2. GoodItem(s, h) => \A k \in h .. g - 1 : k <= Len(s) => GoodItem(s, k)
    BY <2>1
  <2>3. Doomed(s, h, labelsPatches, patched) /\ h <= g
    BY <1>2, <1>3, <1>5
  <2>4. CASE Uses(s, h)
    <3>1. labelsPatches' = Labelled(labelsPatches, s[h].ref, Len(list))
      BY <2>4
    <3>2. A!Labels(s, s[h].ref) = {} \/ \A k \in h .. g - 1 : k <= Len(s) => GoodItem(s, k)
      BY <2>2
    <3> HIDE DEF s, h, g
    <3> QED
      BY <1>1, <1>3, <2>3, <3>1, <3>2, DoomedNote
  <2>5. CASE ~Uses(s, h)
    BY <1>3, <2>2, <2>3, <2>5, DoomedOn
  <2> QED
    BY <2>4, <2>5
<1>6. ASSUME A!Accepted(s)
      PROVE  LaidOut'
  <2>1. /\ list = Header \o Before(s, h) /\ Known(s, h, labelsRegistry) /\ Noted(s, h, labelsPatches)
        /\ extensions = Needed(s, h) /\ dataOffset = Offset(s, h)
    BY <1>2, <1>6 DEF LaidOut
  <2>2. h \in 1 .. Len(s) + 1 /\ A!Address(s, h) = Len(list)
    <3>1. h \in 1 .. Len(s) + 1
      BY <1>3
    <3> QED
      BY <1>1, <2>1, <3>1, HereIs
  <2>3. list' = Header \o Before(s, g)
    <3>1. IsSeq(A!Words(s, h))
      BY <1>1, WordsAreSeqs DEF Pieces
    <3>2. (Header \o Before(s, h)) \o A!Words(s, h) = Header \o (Before(s, h) \o A!Words(s, h))
      <4>1. IsSource(s) /\ h \in 1 .. Len(s) + 1
        BY <1>1, <2>2
      <4> QED
        BY <3>1, <4>1, LaidOn, SMTT(30)
    <3>3. list' = (Header \o Before(s, h)) \o A!Words(s, h)
      BY <2>1
    <3> HIDE DEF s, h, g
    <3> QED
      BY <1>3, <3>2, <3>3
  <2>4. h + 1 \in Nat /\ h + 1 <= g /\ h \in Nat
    BY <1>3
  <2>5. Known(s, g, labelsRegistry')
    <3>1. Known(s, h + 1, labelsRegistry')
      <4>1. CASE s[h].t = "label"
        BY <1>1, <2>1, <2>2, <4>1, KnownLabel
      <4>2. CASE s[h].t # "label"
        <5>1. \A k \in h .. (h + 1) - 1 : k = h
          BY <1>3
        <5> QED
          BY <1>3, <2>1, <2>4, <4>2, <5>1, KnownOn
      <4> QED
        BY <4>1, <4>2
    <3> QED
      BY <1>3, <2>4, <3>1, KnownOn
  <2>6. Noted(s, g, labelsPatches')
    <3>1. Noted(s, h + 1, labelsPatches')
      <4>1. CASE Uses(s, h)
        BY <1>1, <2>1, <2>2, <4>1, NotedUse
      <4>2. CASE ~Uses(s, h)
        <5>1. \A k \in h .. (h + 1) - 1 : k = h
          BY <1>3
        <5> QED
          BY <1>3, <2>1, <2>4, <4>2, <5>1, NotedOn
      <4> QED
        BY <4>1, <4>2
    <3>2. \A k \in h + 1 .. g - 1 : ~Uses(s, k)
      BY <1>3 DEF Uses
    <3> QED
      BY <1>3, <2>4, <3>1, <3>2, NotedOn
  <2>7. extensions' = Needed(s, g)
    <3>1. extensions' = Needed(s, h + 1)
      <4>1. CASE s[h].t = "instr"
        <5>1. A!InCode(s, h)
          BY <1>3 DEF A!InCode
        <5> QED
          BY <1>3, <2>1, <4>1, <5>1, NeededInstr
      <4>2. CASE s[h].t # "instr"
        <5>1. \A k \in h .. (h + 1) - 1 : k = h
          BY <1>3
        <5> QED
          BY <1>3, <2>1, <2>4, <4>2, <5>1, NeededOn
      <4> QED
        BY <4>1, <4>2
    <3>2. \A k \in h + 1 .. g - 1 : ~(A!InCode(s, k) /\ s[k].t = "instr")
      BY <1>3
    <3> QED
      BY <1>3, <2>4, <3>1, <3>2, NeededOn
  <2> HIDE DEF s, h, g
  <2> QED
    BY <1>3, <2>1, <2>3, <2>5, <2>6, <2>7 DEF LaidOut, s, h, g
<1> QED
  BY <1>2, <1>4, <1>5, <1>6 DEF Ready

LEMMA CodeCursor ==
  ASSUME NEW s, IsSource(s), NEW h \in 1 .. Len(s), h <= A!Data(s), s[h].t # ".data",
         NEW g, Taken(s, h, g),
         g = h + 1 /\ g <= Len(s) /\ s[g].t = "blank" =>
           ~(s[h].t \in {"label", "comment"} \/ (s[h].t = "instr" /\ Len(s[h].regs) = 0))
  PROVE  Cursor(s, g, "code")
<1>1. Len(s) \in Nat /\ g <= A!Data(s)
  BY CodeTaken, SourceFacts
<1>2. g = h + 1 => g - 1 = h
  BY <1>1
<1>3. g = h + 2 => s[g - 1].t = "blank"
  <2>1. g = h + 2 => g - 1 = h + 1
    BY <1>1
  <2> QED
    BY <2>1, <1>1 DEF Taken
<1> QED
  BY <1>1, <1>2, <1>3 DEF Cursor, Taken

LEMMA CodeTurns ==
  ASSUME AssemblerInv, Ready, CodeSkips \/ CodeLabel \/ CodeInstr
  PROVE  Ready' /\ phase' = "code"
<1> DEFINE s == sbuff
           h == head
           g == head'
           Bare(k) == s[k].t \in {"label", "comment"} \/ (s[k].t = "instr" /\ Len(s[k].regs) = 0)
<1>1. IsSource(s) /\ Len(s) \in Nat /\ DOMAIN s = 1 .. Len(s) /\ h \in 1 .. Len(s) + 1
  BY SourceFacts DEF AssemblerInv, SourceInv
<1>2. /\ phase = "code" /\ phase' = "code" /\ h <= Len(s)
      /\ UNCHANGED <<sbuff, dataOffset, patched>>
      /\ s[h].t \in {"nl", "comment", "blank", "label", "instr"}
  BY <1>1 DEF CodeSkips, CodeLabel, CodeInstr, Skip, At, AtEnd, Item
<1>3. h \in 1 .. Len(s) /\ s[h].t # ".data" /\ h <= A!Data(s) /\ Cursor(s, h, "code")
  BY <1>1, <1>2 DEF Ready, Cursor
<1>4. h < A!Data(s) /\ A!InCode(s, h)
  <2>1. h < A!Data(s)
    BY <1>1, <1>2, <1>3, SourceFacts
  <2> QED
    BY <2>1 DEF A!InCode
<1>5. A!Words(s, h) = IF s[h].t = "instr" THEN <<Encoded(s[h])>> ELSE <<>>
  BY <1>4, CodeLays
<1>6. Uses(s, h) <=> s[h].t = "instr" /\ Names(s[h])
  BY <1>4 DEF Uses, Names
<1>7. list \o <<>> = list
  BY DEF AssemblerInv, ListInv, IsSeq
<1>8. /\ skipSep(h + 1) = g => Taken(s, h, g)
      /\ skipSep(h + 1) = g /\ g = h + 1 => ~(g <= Len(s) /\ s[g].t = "blank")
  BY <1>1 DEF skipSep, Blank, Taken
<1>9. h + 1 = g => Taken(s, h, g)
  BY DEF Taken
(* What each of them takes.                                                *)
<1>10. /\ Taken(s, h, g)
       /\ list' = list \o A!Words(s, h)
       /\ labelsRegistry' = IF s[h].t = "label" THEN Labelled(labelsRegistry, s[h].name, Len(list))
                                                ELSE labelsRegistry
       /\ labelsPatches' = IF Uses(s, h) THEN Labelled(labelsPatches, s[h].ref, Len(list))
                                         ELSE labelsPatches
       /\ extensions' = IF s[h].t = "instr" THEN extensions \cup ExtensionsOf(s[h].mn) ELSE extensions
       /\ g = h + 1 /\ g <= Len(s) /\ s[g].t = "blank" => ~Bare(h)
       /\ g = h + 2 => Bare(h)
       /\ s[h].t = "instr" => Parses(s[h])
       /\ s[h].t = "blank" => h < Len(s)
  <2>1. CASE CodeSkips
    <3>1. /\ s[h].t \in {"nl", "comment", "blank"} /\ list' = list
          /\ UNCHANGED <<labelsRegistry, labelsPatches, extensions>>
          /\ IF s[h].t = "comment" THEN g = skipSep(h + 1) ELSE g = h + 1
          /\ s[h].t = "blank" => h < Len(s)
      BY <2>1 DEF CodeSkips, Skip, At
    <3> HIDE DEF s, h, g
    <3>2. g = h + 2 => s[h].t = "comment"
      BY <1>1, <3>1
    <3> QED
      BY <1>5, <1>6, <1>7, <1>8, <1>9, <3>1, <3>2
  <2>2. CASE CodeLabel
    <3>1. /\ s[h].t = "label" /\ list' = list /\ UNCHANGED <<labelsPatches, extensions>>
          /\ labelsRegistry' = Labelled(labelsRegistry, s[h].name, Len(list)) /\ g = skipSep(h + 1)
      BY <2>2 DEF CodeLabel, At, Item
    <3> HIDE DEF s, h, g
    <3> QED
      BY <1>5, <1>6, <1>7, <1>8, <3>1
  <2>3. CASE CodeInstr
    <3>1. /\ s[h].t = "instr" /\ list' = list \o <<Encoded(s[h])>> /\ Parses(s[h])
          /\ UNCHANGED <<labelsRegistry>>
          /\ labelsPatches' = IF Names(s[h]) THEN Labelled(labelsPatches, s[h].ref, Len(list)) ELSE labelsPatches
          /\ extensions' = extensions \cup ExtensionsOf(s[h].mn)
          /\ g = IF getOpcodeFunct[s[h].mn].op = "SYS" THEN skipSep(h + 1) ELSE h + 1
      BY <2>3 DEF CodeInstr, At, Item, Append_
    <3>2. Len(s[h].regs) = 0 <=> getOpcodeFunct[s[h].mn].op = "SYS"
      BY <3>1, OpsAreOps, OperandCounts DEF Parses
    <3> HIDE DEF s, h, g
    <3>3. g = h + 2 => getOpcodeFunct[s[h].mn].op = "SYS"
      BY <1>1, <3>1
    <3> QED
      BY <1>5, <1>6, <1>8, <1>9, <3>1, <3>2, <3>3
  <2> QED
    BY <2>1, <2>2, <2>3
<1>11. Cursor(s, g, "code")
  BY <1>1, <1>3, <1>10, CodeCursor
<1>12. GoodItem(s, h) \/ (Uses(s, h) /\ A!Labels(s, s[h].ref) = {})
  <2>1. s[h].t = "blank" => ~A!Trailing(s, h)
    BY <1>1, <1>2, <1>10 DEF A!Trailing
  <2>2. CASE s[h].t # "instr"
    BY <1>2, <1>4, <2>1, <2>2 DEF GoodItem, A!CodeItem
  <2>3. CASE s[h].t = "instr"
    BY <1>4, <1>6, <1>10, <2>3 DEF GoodItem, A!CodeItem, Uses
  <2> QED
    BY <2>2, <2>3
<1>13. g = h + 2 => GoodItem(s, h + 1)
  <2>1. SUFFICES ASSUME g = h + 2
                 PROVE  GoodItem(s, h + 1)
    OBVIOUS
  <2>2. h + 1 <= Len(s) /\ s[h + 1].t = "blank"
    BY <1>1, <1>10, <2>1 DEF Taken
  <2>3. h + 1 < A!Data(s)
    <3>1. g <= A!Data(s)
      BY <1>11 DEF Cursor
    <3> QED
      BY <1>1, <2>1, <3>1, SourceFacts
  <2> QED
    BY <1>1, <1>3, <1>10, <2>1, <2>2, <2>3, TakenIsGood
<1>14. Ready'
  BY <1>2, <1>3, <1>10, <1>11, <1>12, <1>13, CodeMoves
<1> QED
  BY <1>2, <1>14
-----------------------------------------------------------------------------
(* The binary promised: its body has the words laid down, those that use a *)
(* name resolved, in the same places.                                      *)
ResolvedAll(s) == [k \in DOMAIN s |-> A!Resolved(s, k)]

LEMMA ResolvedAreSeqs ==
  ASSUME NEW s, IsSource(s)
  PROVE  /\ Pieces(ResolvedAll(s), Len(s))
         /\ \A k \in 1 .. Len(s) :
              /\ ResolvedAll(s)[k] = A!Resolved(s, k)
              /\ Len(ResolvedAll(s)[k]) = Len(Worded(s)[k])
              /\ ~Uses(s, k) => ResolvedAll(s)[k] = Worded(s)[k]
              /\ Uses(s, k) =>
                   ResolvedAll(s)[k] = <<Addressed(Encoded(s[k]), A!Address(s, k), A!Target(s, s[k].ref))>>
<1>1. Len(s) \in Nat /\ DOMAIN s = 1 .. Len(s)
  BY SourceFacts
<1>2. Pieces(Worded(s), Len(s)) /\ \A k \in 1 .. Len(s) : Worded(s)[k] = A!Words(s, k)
  BY WordsAreSeqs
<1>3. ASSUME NEW k \in 1 .. Len(s)
      PROVE  /\ ResolvedAll(s)[k] = A!Resolved(s, k) /\ IsSeq(ResolvedAll(s)[k])
             /\ Len(ResolvedAll(s)[k]) = Len(Worded(s)[k])
             /\ ~Uses(s, k) => ResolvedAll(s)[k] = Worded(s)[k]
             /\ Uses(s, k) =>
                   ResolvedAll(s)[k] = <<Addressed(Encoded(s[k]), A!Address(s, k), A!Target(s, s[k].ref))>>
  <2>1. ResolvedAll(s)[k] = A!Resolved(s, k)
    BY <1>1 DEF ResolvedAll
  <2>2. CASE Uses(s, k)
    <3> DEFINE w == Addressed(Encoded(s[k]), A!Address(s, k), A!Target(s, s[k].ref))
    <3>1. A!Resolved(s, k) = <<w>>
      BY <2>2 DEF A!Resolved, Uses
    <3>2. Worded(s)[k] = <<Encoded(s[k])>>
      BY <1>2, <2>2, UsesApart
    <3> HIDE DEF w
    <3>3. IsSeq(<<w>>) /\ Len(<<w>>) = 1 /\ Len(<<Encoded(s[k])>>) = 1
      BY OneIsSeq
    <3>4. IsSeq(ResolvedAll(s)[k]) /\ Len(ResolvedAll(s)[k]) = Len(Worded(s)[k]) /\ ResolvedAll(s)[k] = <<w>>
      BY <2>1, <3>1, <3>2, <3>3
    <3> QED
      BY <2>1, <2>2, <3>4 DEF w
  <2>3. CASE ~Uses(s, k)
    <3>1. A!Resolved(s, k) = A!Words(s, k)
      BY <2>3 DEF A!Resolved, Uses
    <3>2. ResolvedAll(s)[k] = Worded(s)[k] /\ IsSeq(Worded(s)[k])
      BY <1>2, <2>1, <3>1 DEF Pieces
    <3> QED
      BY <2>1, <2>3, <3>2
  <2> QED
    BY <2>2, <2>3
<1> QED
  BY <1>3 DEF Pieces

LEMMA BodyIs ==
  ASSUME NEW s, IsSource(s)
  PROVE  /\ A!Body(s) = Flat(ResolvedAll(s), Len(s)) \o Tail_(s)
         /\ IsSeq(Flat(ResolvedAll(s), Len(s))) /\ IsSeq(Tail_(s))
         /\ Len(Flat(ResolvedAll(s), Len(s))) = Len(Before(s, Len(s) + 1))
         /\ Len(Tail_(s)) = IF A!HasData(s) THEN 1 ELSE 0
<1> DEFINE n == Len(s)
<1>1. n \in Nat /\ DOMAIN s = 1 .. n /\ n \in 0 .. n
  BY SourceFacts
<1>2. [j \in 1 .. n |-> ResolvedAll(s)[j]] = [k \in DOMAIN s |-> A!Resolved(s, k)]
  BY <1>1 DEF ResolvedAll
<1>3. Tail_(s) = IF A!HasData(s) THEN <<[word |-> 0]>> ELSE <<>>
  BY DEF Tail_, Word
<1>4. A!Body(s) = Flat(ResolvedAll(s), n) \o Tail_(s)
  BY <1>2, <1>3 DEF A!Body, Flat
<1>5. Pieces(ResolvedAll(s), n) /\ Pieces(Worded(s), n)
  BY ResolvedAreSeqs, WordsAreSeqs
<1>6. IsSeq(Flat(ResolvedAll(s), n))
  BY <1>1, <1>5, FlatSteps
<1>7. Len(Flat(ResolvedAll(s), n)) = Len(Flat(Worded(s), n))
  <2>1. \A j \in 1 .. n : Len(ResolvedAll(s)[j]) = Len(Worded(s)[j])
    BY ResolvedAreSeqs
  <2> QED
    BY <1>1, <1>5, <2>1, FlatLengths
<1>8. Before(s, n + 1) = Flat(Worded(s), n)
  <2>1. (n + 1) - 1 = n
    BY <1>1
  <2> QED
    BY <2>1 DEF Before
<1>9. IsSeq(Tail_(s)) /\ Len(Tail_(s)) = IF A!HasData(s) THEN 1 ELSE 0
  BY OneIsSeq, EmptyIsSeq DEF Tail_
<1> QED
  BY <1>4, <1>6, <1>7, <1>8, <1>9

LEMMA BinaryLength ==
  ASSUME NEW s, IsSource(s)
  PROVE  /\ IsSeq(A!Binary(s)) /\ IsSeq(Laid(s)) /\ Len(Laid(s)) \in Nat
         /\ Len(A!Binary(s)) = Len(Laid(s))
         /\ Len(Laid(s)) = HEADER_LEN + Len(Before(s, Len(s) + 1)) + (IF A!HasData(s) THEN 1 ELSE 0)
         /\ Len(A!Body(s)) = Len(Laid(s)) - HEADER_LEN
         /\ \A k \in 1 .. Len(s) + 1 : A!Address(s, k) <= A!Address(s, Len(s) + 1)
         /\ A!Address(s, Len(s) + 1) + (IF A!HasData(s) THEN 1 ELSE 0) = Len(A!Binary(s))
<1> DEFINE n == Len(s)
           tail == IF A!HasData(s) THEN 1 ELSE 0
           x == Flat(ResolvedAll(s), n)
           b == Before(s, n + 1)
           t == Tail_(s)
<1>1. n \in Nat /\ n + 1 \in 1 .. n + 1 /\ n \in 0 .. n
  BY SourceFacts
<1>2. /\ A!Body(s) = x \o t /\ IsSeq(x) /\ IsSeq(t) /\ Len(x) = Len(b) /\ Len(t) = tail
  BY BodyIs
<1>3. IsSeq(b) /\ Len(b) \in Nat /\ A!Address(s, n + 1) = HEADER_LEN + Len(b)
  BY <1>1, Addresses
<1>4. IsSeq(Header) /\ Len(Header) = 5 /\ HEADER_LEN = 5
  BY HeaderIsSeq
<1> HIDE DEF x, b, t
<1>5. IsSeq(x \o t) /\ Len(x \o t) = Len(b) + tail
  BY <1>2, ConcatIsSeq
<1>6. IsSeq(Header \o b) /\ Len(Header \o b) = 5 + Len(b)
  <2>1. IsSeq(Header \o b) /\ Len(Header \o b) = Len(Header) + Len(b)
    BY <1>3, <1>4, ConcatIsSeq
  <2> QED
    BY <1>3, <1>4, <2>1
<1>7. IsSeq(Laid(s)) /\ Len(Laid(s)) = 5 + Len(b) + tail
  <2>1. Laid(s) = (Header \o b) \o t
    BY DEF Laid, b, t
  <2>2. IsSeq((Header \o b) \o t) /\ Len((Header \o b) \o t) = Len(Header \o b) + Len(t)
    BY <1>2, <1>6, ConcatIsSeq
  <2> QED
    BY <1>2, <1>6, <2>1, <2>2
<1>8. IsSeq(A!Binary(s)) /\ Len(A!Binary(s)) = 5 + Len(A!Body(s))
  <2>1. \A w1, w2, w3, w4, w5 : IsSeq(<<w1, w2, w3, w4, w5>>) /\ Len(<<w1, w2, w3, w4, w5>>) = 5
    <3>1. ASSUME NEW w1, NEW w2, NEW w3, NEW w4, NEW w5
          PROVE  IsSeq(<<w1, w2, w3, w4, w5>>) /\ Len(<<w1, w2, w3, w4, w5>>) = 5
      <4>1. <<w1, w2, w3, w4, w5>> \in Seq({w1, w2, w3, w4, w5}) /\ Len(<<w1, w2, w3, w4, w5>>) = 5
        OBVIOUS
      <4> QED
        BY <4>1, SeqOfSeq
    <3> QED
      BY <3>1
  <2>2. PICK w1, w2, w3, w4, w5 : A!Binary(s) = <<w1, w2, w3, w4, w5>> \o A!Body(s)
    BY DEF A!Binary
  <2> QED
    BY <1>2, <1>5, <2>1, <2>2, ConcatIsSeq
<1>9. tail \in Nat /\ Len(A!Body(s)) = Len(b) + tail
  BY <1>2, <1>5
<1>10. ASSUME NEW k \in 1 .. n + 1
       PROVE  A!Address(s, k) <= A!Address(s, n + 1)
  <2> DEFINE l == k - 1
  <2>1. l \in 0 .. n /\ n \in l .. n /\ (n + 1) - 1 = n
    BY <1>1
  <2>2. Before(s, k) = Flat(Worded(s), l) /\ Before(s, n + 1) = Flat(Worded(s), n)
    BY <2>1 DEF Before
  <2> HIDE DEF l
  <2>3. Len(Flat(Worded(s), l)) <= Len(Flat(Worded(s), n)) /\ Len(Flat(Worded(s), l)) \in Nat
    BY <1>1, <2>1, WordsAreSeqs, FlatGrows
  <2>4. A!Address(s, k) = HEADER_LEN + Len(Before(s, k))
    BY Addresses
  <2> QED
    BY <1>3, <1>4, <2>2, <2>3, <2>4 DEF b
<1> HIDE DEF tail
<1>11. Len(Laid(s)) = HEADER_LEN + Len(b) + tail /\ Len(A!Binary(s)) = Len(Laid(s)) /\ Len(Laid(s)) \in Nat
  BY <1>3, <1>4, <1>7, <1>8, <1>9
<1>12. Len(A!Body(s)) = Len(Laid(s)) - HEADER_LEN
  BY <1>3, <1>4, <1>9, <1>11
<1>13. A!Address(s, n + 1) + tail = Len(A!Binary(s))
  BY <1>3, <1>4, <1>9, <1>11
<1> QED
  BY <1>7, <1>8, <1>10, <1>11, <1>12, <1>13 DEF tail, b

LEMMA AcceptedIs ==
  ASSUME NEW s, IsSource(s)
  PROVE  A!Accepted(s) <=> \A k \in 1 .. Len(s) : GoodItem(s, k)
BY SourceFacts DEF A!Accepted, GoodItem
-----------------------------------------------------------------------------
(* The turns of the loop of .data.                                         *)

LEMMA DataMoves ==
  ASSUME AssemblerInv, Ready, phase \in {"code", "data"}, phase' = "data",
         head \in 1 .. Len(sbuff), A!Data(sbuff) <= head, head' \in head + 1 .. Len(sbuff) + 1,
         \A k \in head + 1 .. head' - 1 : sbuff[k].t # "label",
         \A k \in head .. head' - 1 : GoodItem(sbuff, k),
         labelsRegistry' = IF sbuff[head].t = "label"
                           THEN Labelled(labelsRegistry, sbuff[head].name, Len(list)) ELSE labelsRegistry,
         UNCHANGED <<sbuff, labelsPatches, extensions, patched>>,
         A!Accepted(sbuff) => /\ list' = Header \o Before(sbuff, head')
                              /\ Settled(sbuff, head')
                              /\ dataOffset' = Offset(sbuff, head'),
         Cursor(sbuff, head', "data")
  PROVE  Ready'
<1> DEFINE s == sbuff
           h == head
           g == head'
<1>1. IsSource(s) /\ IsSeq(labelsRegistry)
  BY DEF AssemblerInv, SourceInv, LabelsInv
<1>2. /\ Borne(s, labelsRegistry) /\ patched = 0
      /\ IF A!Accepted(s) THEN LaidOut ELSE Doomed(s, h, labelsPatches, patched)
  BY DEF Ready
<1>3. /\ Len(s) \in Nat /\ DOMAIN s = 1 .. Len(s) /\ A!Data(s) \in 1 .. Len(s) + 1
      /\ h \in Nat /\ h \in 1 .. Len(s) /\ g \in Nat /\ h <= g /\ h + 1 <= g /\ h + 1 \in Nat
      /\ h \in 1 .. Len(s) + 1
  BY <1>1, SourceFacts
<1>4. \A k \in h .. g - 1 : ~A!InCode(s, k) /\ ~Uses(s, k)
  BY <1>3 DEF A!InCode, Uses
<1>5. Borne(s, labelsRegistry')
  <2>1. CASE s[h].t = "label"
    <3>1. h \in A!Labels(s, s[h].name)
      BY <1>3, <2>1 DEF A!Labels
    <3> QED
      BY <1>1, <1>2, <2>1, <3>1, BorneLabel
  <2>2. CASE s[h].t # "label"
    BY <1>2, <2>2
  <2> QED
    BY <2>1, <2>2
<1>6. ASSUME ~A!Accepted(s)
      PROVE  Doomed(s, g, labelsPatches', patched)
  <2>1. Doomed(s, h, labelsPatches, patched)
    BY <1>2, <1>6
  <2>2. Doomed(s, g, labelsPatches, patched)
    BY <1>3, <2>1, DoomedOn
  <2> QED
    BY <2>2
<1>7. ASSUME A!Accepted(s)
      PROVE  LaidOut'
  <2>1. /\ list = Header \o Before(s, h) /\ Known(s, h, labelsRegistry) /\ Noted(s, h, labelsPatches)
        /\ extensions = Needed(s, h)
    BY <1>2, <1>7 DEF LaidOut
  <2>2. A!Address(s, h) = Len(list)
    BY <1>1, <1>3, <2>1, HereIs
  <2>3. Known(s, g, labelsRegistry')
    <3>1. Known(s, h + 1, labelsRegistry')
      <4>1. CASE s[h].t = "label"
        BY <1>1, <2>1, <2>2, <4>1, KnownLabel
      <4>2. CASE s[h].t # "label"
        <5>1. \A k \in h .. (h + 1) - 1 : k = h
          BY <1>3
        <5> QED
          BY <1>3, <2>1, <4>2, <5>1, KnownOn
      <4> QED
        BY <4>1, <4>2
    <3> QED
      BY <1>3, <3>1, KnownOn
  <2>4. Noted(s, g, labelsPatches)
    BY <1>3, <1>4, <2>1, NotedOn
  <2>5. extensions = Needed(s, g)
    BY <1>3, <1>4, <2>1, NeededOn
  <2>6. list' = Header \o Before(s, g) /\ Settled(s, g) /\ dataOffset' = Offset(s, g)
    BY <1>7
  <2> HIDE DEF s, h, g
  <2> QED
    BY <2>3, <2>4, <2>5, <2>6 DEF LaidOut, s, h, g
<1>8. Cursor(s, g, "data")
  OBVIOUS
<1> QED
  BY <1>2, <1>5, <1>6, <1>7, <1>8 DEF Ready

LEMMA DataBegins ==
  ASSUME AssemblerInv, Ready, CodeData
  PROVE  Ready' /\ phase' = "data"
<1> DEFINE s == sbuff
           h == head
           g == head'
<1>1. IsSource(s) /\ Len(s) \in Nat /\ DOMAIN s = 1 .. Len(s) /\ h \in 1 .. Len(s) + 1
  BY SourceFacts DEF AssemblerInv, SourceInv
<1>2. /\ phase = "code" /\ phase' = "data" /\ h <= Len(s) /\ s[h].t = ".data"
      /\ g = skipSep(h + 1) /\ dataOffset' = Len(list) /\ list' = list
      /\ UNCHANGED <<sbuff, labelsRegistry, labelsPatches, extensions, patched>>
  BY <1>1 DEF CodeData, At, AtEnd, Item
<1>3. h \in 1 .. Len(s) /\ h = A!Data(s)
  <2>1. h <= A!Data(s)
    BY <1>2 DEF Ready, Cursor
  <2> QED
    BY <1>1, <1>2, <2>1, SourceFacts
<1>4. \/ g = h + 1 /\ (g <= Len(s) => s[g].t # "blank")
      \/ g = h + 2 /\ h + 1 <= Len(s) /\ s[h + 1].t = "blank"
  BY <1>1, <1>2 DEF skipSep, Blank
<1>5. /\ g \in h + 1 .. Len(s) + 1
      /\ \A k \in h .. g - 1 : k = h \/ (k = h + 1 /\ g = h + 2)
      /\ \A k \in h + 1 .. g - 1 : k = h + 1 /\ g = h + 2
  <2> HIDE DEF s, h, g
  <2> QED
    BY <1>1, <1>3, <1>4
<1>6. \A k \in h + 1 .. g - 1 : s[k].t = "blank"
  <2>1. g = h + 2 => s[h + 1].t = "blank"
    <3> HIDE DEF s, h, g
    <3> QED
      BY <1>1, <1>3, <1>4
  <2> HIDE DEF s, h, g
  <2> QED
    BY <1>5, <2>1
<1>7. \A k \in h .. g - 1 : GoodItem(s, k)
  <2>1. GoodItem(s, h)
    BY <1>3 DEF GoodItem
  <2>2. g = h + 2 => GoodItem(s, h + 1)
    <3>1. ~A!InCode(s, h + 1)
      BY <1>3 DEF A!InCode
    <3> QED
      BY <1>1, <1>3, <1>4, <3>1 DEF GoodItem, A!DataItem
  <2> QED
    BY <1>5, <2>1, <2>2
<1>8. Settled(s, g)
  BY <1>1, <1>3, <1>4, SettledAtFirst
<1>9. Before(s, g) = Before(s, h)
  <2>1. A!Words(s, h) = <<>>
    <3>1. h \in A!Data(s) .. Len(s)
      BY <1>3
    <3> QED
      BY <1>1, <1>2, <3>1, DataLays
  <2>2. g = h + 2 => A!Words(s, h + 1) = <<>>
    <3>1. SUFFICES ASSUME g = h + 2
                   PROVE  A!Words(s, h + 1) = <<>>
      OBVIOUS
    <3>2. h + 1 \in A!Data(s) .. Len(s) /\ s[h + 1].t = "blank"
      BY <1>1, <1>3, <1>4, <3>1
    <3>3. ~A!BlankZero(s, h + 1)
      <4>1. ~A!EndsBlank(s, h + 1)
        BY <1>1, <1>3, <3>2, SettledAtFirst
      <4> QED
        BY <4>1 DEF A!BlankZero
    <3> QED
      BY <1>1, <3>2, <3>3, DataLays
  <2>3. \A j \in h .. g - 1 : A!Words(s, j) = <<>>
    BY <1>5, <2>1, <2>2
  <2>4. h \in 1 .. Len(s) + 1 /\ g \in h .. Len(s) + 1
    BY <1>1, <1>3, <1>5
  <2> QED
    BY <1>1, <2>3, <2>4, BeforeIdle
<1>10. ASSUME A!Accepted(s)
       PROVE  list' = Header \o Before(s, g) /\ dataOffset' = Offset(s, g)
  <2>1. list = Header \o Before(s, h)
    BY <1>2, <1>10 DEF Ready, LaidOut
  <2>2. A!Address(s, h) = Len(list)
    BY <1>1, <2>1, HereIs
  <2>3. A!Data(s) < g
    BY <1>1, <1>3, <1>5
  <2> QED
    BY <1>2, <1>3, <1>9, <2>1, <2>2, <2>3 DEF Offset
<1>11. Cursor(s, g, "data")
  <2>1. g > A!Data(s) /\ (g <= Len(s) /\ s[g].t = "blank" => g > A!Data(s) + 1)
    BY <1>1, <1>3, <1>4, <1>5
  <2> QED
    BY <2>1 DEF Cursor
<1>12. \A k \in h + 1 .. g - 1 : s[k].t # "label"
  BY <1>6
<1>13. A!Data(s) <= h /\ s[h].t # "label" /\ phase \in {"code", "data"}
  BY <1>1, <1>2, <1>3
<1>14. labelsRegistry' = IF s[h].t = "label" THEN Labelled(labelsRegistry, s[h].name, Len(list)) ELSE labelsRegistry
  BY <1>2, <1>13
<1>15. Ready'
  BY <1>2, <1>3, <1>5, <1>7, <1>8, <1>10, <1>11, <1>12, <1>13, <1>14, DataMoves
<1> QED
  BY <1>2, <1>15

(* Between the values: nothing is laid down.                               *)
LEMMA DataPasses ==
  ASSUME AssemblerInv, Ready, DataSkips \/ DataLabel
  PROVE  Ready' /\ phase' = "data"
<1> DEFINE s == sbuff
           h == head
           g == head'
<1>1. IsSource(s) /\ Len(s) \in Nat /\ DOMAIN s = 1 .. Len(s) /\ h \in 1 .. Len(s) + 1
      /\ A!Data(s) \in 1 .. Len(s) + 1
  BY SourceFacts DEF AssemblerInv, SourceInv
<1>2. /\ phase = "data" /\ phase' = "data" /\ h <= Len(s) /\ list' = list /\ g = h + 1
      /\ s[h].t \in {"nl", "comment", "blank", "label"}
      /\ s[h].t = "blank" => ~(h < Len(s) => s[h + 1].t = "nl")
      /\ UNCHANGED <<sbuff, labelsPatches, extensions, dataOffset, patched>>
      /\ labelsRegistry' = IF s[h].t = "label" THEN Labelled(labelsRegistry, s[h].name, Len(list)) ELSE labelsRegistry
  <2>1. CASE DataSkips
    BY <1>1, <2>1 DEF DataSkips, Skip, At, AtEnd, BlankLine
  <2>2. CASE DataLabel
    BY <1>1, <2>2 DEF DataLabel, At, AtEnd, Item
  <2> QED
    BY <2>1, <2>2
<1>3. h \in 1 .. Len(s) /\ A!Data(s) < h /\ h \in A!Data(s) .. Len(s) /\ h \in A!Data(s) + 1 .. Len(s)
      /\ h \in Nat /\ h \in 1 .. Len(s) + 1
  <2>1. h > A!Data(s)
    BY <1>2 DEF Ready, Cursor
  <2> QED
    BY <1>1, <1>2, <2>1
<1>4. ~A!EndsBlank(s, h)
  BY <1>2 DEF A!EndsBlank
<1>5. A!Words(s, h) = <<>>
  <2>1. ~A!BlankZero(s, h)
    BY <1>4 DEF A!BlankZero
  <2> QED
    BY <1>1, <1>2, <1>3, <2>1, DataLays
<1>6. GoodItem(s, h)
  <2>1. ~A!InCode(s, h)
    BY <1>1, <1>3 DEF A!InCode
  <2> QED
    BY <1>2, <2>1 DEF GoodItem, A!DataItem
<1>7. /\ g \in h + 1 .. Len(s) + 1
      /\ \A k \in h .. g - 1 : k = h
      /\ \A k \in h + 1 .. g - 1 : FALSE
  BY <1>2, <1>3
<1>8. ASSUME A!Accepted(s)
      PROVE  list' = Header \o Before(s, g) /\ Settled(s, g) /\ dataOffset' = Offset(s, g)
  <2>1. list = Header \o Before(s, h) /\ Settled(s, h) /\ dataOffset = Offset(s, h)
    BY <1>2, <1>8 DEF Ready, LaidOut
  <2>2. Before(s, g) = Before(s, h)
    <3>1. \A j \in h .. g - 1 : A!Words(s, j) = <<>>
      BY <1>5, <1>7
    <3>2. g \in h .. Len(s) + 1
      BY <1>1, <1>2, <1>3
    <3> QED
      BY <1>1, <3>1, <3>2, BeforeIdle
  <2>3. Settled(s, g)
    BY <1>1, <1>2, <1>3, <1>4, <2>1, SettledOn
  <2>4. A!Data(s) < g
    BY <1>1, <1>2, <1>3
  <2>5. Offset(s, g) = Offset(s, h)
    BY <1>3, <2>4 DEF Offset
  <2> QED
    BY <1>2, <2>1, <2>2, <2>3, <2>5
<1>9. Cursor(s, g, "data")
  <2>1. g > A!Data(s) + 1
    BY <1>1, <1>2, <1>3
  <2>2. g > A!Data(s)
    BY <1>1, <1>2, <1>3
  <2> QED
    BY <2>1, <2>2 DEF Cursor
<1>10. A!Data(s) <= h /\ phase \in {"code", "data"}
  BY <1>1, <1>2, <1>3
<1>11. \A k \in h .. g - 1 : GoodItem(s, k)
  BY <1>6, <1>7
<1>12. \A k \in h + 1 .. g - 1 : s[k].t # "label"
  BY <1>7
<1>13. Ready'
  BY <1>2, <1>3, <1>7, <1>8, <1>9, <1>10, <1>11, <1>12, DataMoves
<1> QED
  BY <1>2, <1>13

(* The next text after a blank is what the assembler looks for.            *)
LEMMA NextIsFirst ==
  ASSUME IsSource(sbuff), head \in 1 .. Len(sbuff) + 1
  PROVE  FirstText(sbuff, head, NextText)
<1> DEFINE n == Len(sbuff)
           S == {k \in head .. n + 1 : k = n + 1 \/ sbuff[k].t \notin {"blank", "nl"}}
           P(k) == /\ k = n + 1 \/ sbuff[k].t \notin {"blank", "nl"}
                   /\ \A j \in head .. k - 1 : sbuff[j].t \in {"blank", "nl"}
<1>1. n \in Nat /\ head \in Nat
  BY SourceFacts
<1>2. PICK x \in S : \A y \in S : x <= y
  <2>1. S \subseteq Nat /\ n + 1 \in S
    BY <1>1
  <2> HIDE DEF S
  <2> QED
    BY <2>1, LeastElement
<1>3. x \in head .. n + 1 /\ (x = n + 1 \/ sbuff[x].t \notin {"blank", "nl"})
  BY <1>2
<1>4. ASSUME NEW j \in head .. x - 1
      PROVE  sbuff[j].t \in {"blank", "nl"}
  <2>1. j \in head .. n + 1 /\ ~(x <= j)
    BY <1>1, <1>3
  <2>2. j \notin S
    <3> HIDE DEF S
    <3> QED
      BY <1>2, <2>1
  <2> QED
    BY <2>1, <2>2
<1>5. \E k \in head .. n + 1 : P(k)
  BY <1>3, <1>4
<1> DEFINE t == CHOOSE k \in head .. n + 1 : P(k)
<1>6. t \in head .. n + 1 /\ P(t)
  <2> HIDE DEF P
  <2> QED
    BY <1>5
<1>7. NextText = t
  BY DEF NextText
<1> HIDE DEF t
<1> QED
  BY <1>6, <1>7 DEF FirstText

(* Items the loop of .data accepts, and labels nothing.                    *)
Plain(s, k) == GoodItem(s, k) /\ s[k].t # "label"

LEMMA DataLaysDown ==
  ASSUME AssemblerInv, Ready, phase = "data", phase' = "data",
         head \in 1 .. Len(sbuff), head' \in head + 1 .. Len(sbuff) + 1,
         \A k \in head .. head' - 1 : Plain(sbuff, k),
         UNCHANGED <<sbuff, labelsRegistry, labelsPatches, extensions, dataOffset, patched>>,
         NEW words, IsSeq(words), list' = list \o words,
         A!Accepted(sbuff) /\ Settled(sbuff, head) =>
           Before(sbuff, head') = Before(sbuff, head) \o words /\ Settled(sbuff, head')
  PROVE  Ready'
<1> DEFINE s == sbuff
           h == head
           g == head'
<1>1. IsSource(s) /\ Len(s) \in Nat /\ DOMAIN s = 1 .. Len(s) /\ h \in Nat /\ h \in 1 .. Len(s) + 1
      /\ A!Data(s) \in 1 .. Len(s) + 1
  BY SourceFacts DEF AssemblerInv, SourceInv
<1>2. A!Data(s) < h /\ A!Data(s) < g /\ g > A!Data(s) + 1
  <2>1. h > A!Data(s)
    BY DEF Ready, Cursor
  <2> QED
    BY <1>1, <2>1
<1>3. Cursor(s, g, "data")
  BY <1>1, <1>2 DEF Cursor
<1>4. ASSUME A!Accepted(s)
      PROVE  list' = Header \o Before(s, g) /\ Settled(s, g) /\ dataOffset' = Offset(s, g)
  <2>1. list = Header \o Before(s, h) /\ Settled(s, h) /\ dataOffset = Offset(s, h)
    BY <1>4 DEF Ready, LaidOut
  <2>2. Before(s, g) = Before(s, h) \o words /\ Settled(s, g)
    BY <1>4, <2>1
  <2>3. (Header \o Before(s, h)) \o words = Header \o (Before(s, h) \o words)
    <3>1. IsSource(s) /\ h \in 1 .. Len(s) + 1 /\ IsSeq(words)
      BY <1>1
    <3> HIDE DEF s, h
    <3> QED
      BY <3>1, LaidOn, SMTT(30)
  <2>4. Offset(s, g) = Offset(s, h)
    BY <1>1, <1>2 DEF Offset
  <2>5. list' = Header \o Before(s, g)
    BY <2>1, <2>2, <2>3
  <2> QED
    BY <2>1, <2>2, <2>4, <2>5
<1>5. /\ \A k \in h .. g - 1 : GoodItem(s, k) /\ s[k].t # "label"
      /\ h \in h .. g - 1 /\ \A k \in h + 1 .. g - 1 : k \in h .. g - 1
  <2>1. \A k \in h .. g - 1 : GoodItem(s, k) /\ s[k].t # "label"
    BY DEF Plain
  <2>2. h \in h .. g - 1 /\ \A k \in h + 1 .. g - 1 : k \in h .. g - 1
    <3>1. g \in h + 1 .. Len(s) + 1
      OBVIOUS
    <3> HIDE DEF s, h, g
    <3> QED
      BY <1>1, <3>1
  <2> QED
    BY <2>1, <2>2
<1>6. labelsRegistry' = IF s[h].t = "label" THEN Labelled(labelsRegistry, s[h].name, Len(list)) ELSE labelsRegistry
  BY <1>5
<1>7. A!Data(s) <= h /\ phase \in {"code", "data"}
  BY <1>1, <1>2
<1> QED
  BY <1>3, <1>4, <1>5, <1>6, <1>7, DataMoves

LEMMA DataGrows ==
  ASSUME AssemblerInv, Ready, DataValue
  PROVE  Ready' /\ phase' = "data"
<1> DEFINE s == sbuff
           h == head
           g == head'
<1>1. IsSource(s) /\ Len(s) \in Nat /\ DOMAIN s = 1 .. Len(s) /\ h \in 1 .. Len(s) + 1
      /\ A!Data(s) \in 1 .. Len(s) + 1
  BY SourceFacts DEF AssemblerInv, SourceInv
<1>2. /\ phase = "data" /\ phase' = "data" /\ h <= Len(s)
      /\ UNCHANGED <<sbuff, labelsRegistry, labelsPatches, extensions, dataOffset, patched>>
  BY <1>1 DEF DataValue, getData, BlankLine, At, AtEnd
<1>3. h \in 1 .. Len(s) /\ h \in A!Data(s) .. Len(s) /\ h \in A!Data(s) + 1 .. Len(s) /\ h \in Nat
      /\ h \in 1 .. Len(s) + 1
  <2>1. h > A!Data(s)
    BY <1>2 DEF Ready, Cursor
  <2> QED
    BY <1>1, <1>2, <2>1
<1>4. ASSUME NEW k \in h .. Len(s), s[k].t \in {"nl", "comment", "label", "blank", "num", "dbl"}
      PROVE  GoodItem(s, k)
  <2>1. ~A!InCode(s, k)
    BY <1>1, <1>3 DEF A!InCode
  <2> QED
    BY <1>4, <2>1 DEF GoodItem, A!DataItem
(* A blank that ends its line, not taken with .data.                       *)
<1>5. ASSUME A!Accepted(s), BlankLine
      PROVE  A!EndsBlank(s, h)
  <2>1. s[h].t = "blank" /\ (h < Len(s) => s[h + 1].t = "nl")
    BY <1>5 DEF BlankLine, At
  <2>2. h > A!Data(s) + 1
    <3>1. h > 1 /\ h > A!Data(s)
      BY <1>1, <1>3
    <3> QED
      BY <1>1, <1>2, <1>3, <2>1, <3>1 DEF Ready, Cursor
  <2>3. h - 1 \in 1 .. Len(s) /\ h - 1 # A!Data(s) /\ ~(h - 1 < A!Data(s))
    BY <1>1, <1>3, <2>2
  <2>4. GoodItem(s, h - 1)
    BY <1>1, <1>5, <2>3, AcceptedIs
  <2>5. A!DataItem(s, h - 1)
    BY <2>3, <2>4 DEF GoodItem, A!InCode
  <2>6. s[h - 1].t # ".data"
    BY <2>5 DEF A!DataItem
  <2> QED
    BY <2>1, <2>6 DEF A!EndsBlank
<1>6. CASE At("data", {"num", "dbl", "str"}) /\ ~BadString /\ getData(DataWords(Item), head + 1)
  <2> DEFINE words == DataWords(s[h])
  <2>1. /\ s[h].t \in {"num", "dbl", "str"} /\ list' = list \o words /\ g = h + 1
        /\ s[h].t = "str" => \A k \in DOMAIN s[h].chars : s[h].chars[k] # QUOTE
    BY <1>6 DEF At, BadString, getData, Append_, Item
  <2>2. GoodItem(s, h)
    <3>1. CASE s[h].t = "str"
      <4>1. QUOTE \notin A!ToSet(s[h].chars)
        BY <2>1, <3>1 DEF A!ToSet
      <4>2. ~A!InCode(s, h)
        BY <1>1, <1>3 DEF A!InCode
      <4> QED
        BY <3>1, <4>1, <4>2 DEF GoodItem, A!DataItem
    <3>2. CASE s[h].t # "str"
      <4>1. h \in h .. Len(s)
        BY <1>3
      <4> QED
        BY <1>4, <2>1, <3>2, <4>1
    <3> QED
      BY <3>1, <3>2
  <2>3. ~A!EndsBlank(s, h)
    BY <2>1 DEF A!EndsBlank
  <2>4. IsSeq(words) /\ (Settled(s, h) => A!Words(s, h) = words)
    <3>1. Settled(s, h) => A!Words(s, h) = words
      BY <1>1, <1>3, <2>1, SettledOn, DataLays
    <3>2. IsSeq(words)
      <4>1. CASE s[h].t \in {"num", "dbl"}
        BY <4>1, OneIsSeq DEF DataWords
      <4>2. CASE s[h].t = "str"
        <5> DEFINE x == [k \in 1 .. Len(s[h].chars) |-> Word(s[h].chars[k])]
        <5>1. Len(s[h].chars) \in Nat
          BY <1>1, <1>3, <4>2, SeqFacts DEF IsSource
        <5>2. IsSeq(x) /\ IsSeq(<<Word(0)>>)
          BY <5>1, FunctionIsSeq, OneIsSeq
        <5>3. words = x \o <<Word(0)>>
          BY <4>2 DEF DataWords
        <5> HIDE DEF x
        <5> QED
          BY <5>2, <5>3, ConcatIsSeq
      <4> QED
        BY <2>1, <4>1, <4>2
    <3> QED
      BY <3>1, <3>2
  <2> HIDE DEF words
  <2>5. ASSUME Settled(s, h)
        PROVE  Before(s, g) = Before(s, h) \o words /\ Settled(s, g)
    <3>1. Before(s, h + 1) = Before(s, h) \o A!Words(s, h)
      BY <1>1, <1>3, BeforeNext
    <3>2. Settled(s, h + 1)
      BY <1>1, <1>3, <2>3, <2>5, SettledOn
    <3> QED
      BY <2>1, <2>4, <2>5, <3>1, <3>2
  <2>6. g \in h + 1 .. Len(s) + 1 /\ \A k \in h .. g - 1 : k = h
    BY <1>1, <1>3, <2>1
  <2>7. \A k \in h .. g - 1 : Plain(s, k)
    <3>1. Plain(s, h)
      BY <2>1, <2>2 DEF Plain
    <3> QED
      BY <2>6, <3>1
  <2>8. Ready'
    BY <1>2, <1>3, <2>1, <2>4, <2>5, <2>6, <2>7, DataLaysDown
  <2> QED
    BY <1>2, <2>8
<1>7. CASE BlankLine /\ NumberNext /\ getData(SpilledWords(sbuff[NextText]), NextText + 1)
  <2> DEFINE m == NextText
             words == SpilledWords(s[m])
  <2>1. FirstText(s, h, m)
    BY <1>1, NextIsFirst
  <2>2. list' = list \o words /\ g = m + 1 /\ m <= Len(s) /\ s[m].t \in {"num", "dbl"}
    BY <1>7 DEF NumberNext, getData, Append_
  <2> HIDE DEF m
  <2>3. m \in h .. Len(s) + 1 /\ \A j \in h .. m - 1 : s[j].t \in {"blank", "nl"}
    BY <2>1 DEF FirstText
  <2>4. IsSeq(words)
    BY OneIsSeq, TwoAreSeq DEF SpilledWords
  <2>5. /\ m \in 1 .. Len(s) /\ m \in h .. Len(s) /\ g \in h + 1 .. Len(s) + 1
        /\ \A k \in h .. g - 1 : k = m \/ k \in h .. m - 1
        /\ \A k \in h .. m - 1 : k \in h .. Len(s)
    BY <1>1, <1>3, <2>2, <2>3
  <2> HIDE DEF words
  <2>6. ASSUME A!Accepted(s), Settled(s, h)
        PROVE  Before(s, g) = Before(s, h) \o words /\ Settled(s, g)
    <3>1. A!EndsBlank(s, h)
      BY <1>5, <1>7, <2>6
    <3>2. (\A j \in h .. m - 1 : A!Words(s, j) = <<>>) /\ A!Words(s, m) = words
      BY <1>1, <1>3, <2>1, <2>2, <3>1, BlankLays DEF words
    <3>3. Before(s, m) = Before(s, h)
      BY <1>1, <1>3, <2>3, <3>2, BeforeIdle
    <3>4. Before(s, m + 1) = Before(s, m) \o words
      BY <1>1, <2>5, <3>2, BeforeNext
    <3>5. Settled(s, m + 1)
      BY <1>1, <1>3, <2>1, <2>2, <2>6, SettledOn
    <3> QED
      BY <2>2, <3>3, <3>4, <3>5
  <2>7. \A k \in h .. g - 1 : Plain(s, k)
    <3>1. Plain(s, m)
      BY <1>4, <2>2, <2>5 DEF Plain
    <3>2. \A k \in h .. m - 1 : Plain(s, k)
      BY <1>4, <2>3, <2>5 DEF Plain
    <3> QED
      BY <2>5, <3>1, <3>2
  <2>8. Ready'
    BY <1>2, <1>3, <2>2, <2>4, <2>5, <2>6, <2>7, DataLaysDown
  <2> QED
    BY <1>2, <2>8
<1>8. CASE BlankLine /\ ~NumberNext /\ getData(<<Word(0)>>, head + 1)
  <2> DEFINE m == NextText
             words == <<Word(0)>>
  <2>1. FirstText(s, h, m)
    BY <1>1, NextIsFirst
  <2>2. list' = list \o words /\ g = h + 1 /\ ~(m <= Len(s) /\ s[m].t \in {"num", "dbl"}) /\ s[h].t = "blank"
    BY <1>8 DEF NumberNext, getData, Append_, BlankLine, At
  <2> HIDE DEF m
  <2>3. IsSeq(words)
    BY OneIsSeq
  <2> HIDE DEF words
  <2>4. ASSUME A!Accepted(s), Settled(s, h)
        PROVE  Before(s, g) = Before(s, h) \o words /\ Settled(s, g)
    <3>1. A!EndsBlank(s, h)
      BY <1>5, <1>8, <2>4
    <3>2. A!Words(s, h) = words
      BY <1>1, <1>3, <2>1, <2>2, <3>1, BlankLays DEF words
    <3>3. Before(s, h + 1) = Before(s, h) \o words
      BY <1>1, <1>3, <3>2, BeforeNext
    <3>4. Settled(s, h + 1)
      BY <1>1, <1>3, <2>1, <2>2, <2>4, SettledOn
    <3> QED
      BY <2>2, <3>3, <3>4
  <2>5. g \in h + 1 .. Len(s) + 1 /\ \A k \in h .. g - 1 : k = h
    BY <1>1, <1>3, <2>2
  <2>6. \A k \in h .. g - 1 : Plain(s, k)
    <3>1. h \in h .. Len(s)
      BY <1>3
    <3>2. Plain(s, h)
      BY <1>4, <2>2, <3>1 DEF Plain
    <3> QED
      BY <2>5, <3>2
  <2>7. Ready'
    BY <1>2, <1>3, <2>2, <2>3, <2>4, <2>5, <2>6, DataLaysDown
  <2> QED
    BY <1>2, <2>7
<1> QED
  BY <1>6, <1>7, <1>8 DEF DataValue

(* What is no value leaves a source that is refused as it is.              *)
LEMMA DataStuck ==
  ASSUME AssemblerInv, Ready, DataJunk \/ DataName
  PROVE  Ready' /\ phase' = "data"
<1> DEFINE s == sbuff
           h == head
           g == head'
<1>1. IsSource(s) /\ Len(s) \in Nat /\ DOMAIN s = 1 .. Len(s) /\ h \in 1 .. Len(s) + 1
      /\ A!Data(s) \in 1 .. Len(s) + 1 /\ IsSeq(labelsPatches) /\ patched \in 0 .. Len(labelsPatches)
  BY SourceFacts DEF AssemblerInv, SourceInv, PatchesInv
<1>2. /\ phase = "data" /\ phase' = "data" /\ h <= Len(s) /\ s[h].t \in {"junk", ".data", "ref", "instr"}
      /\ UNCHANGED <<sbuff, labelsRegistry, patched>>
      /\ \/ g = h /\ labelsPatches' = labelsPatches
         \/ g = h + 1 /\ \E name : labelsPatches' = Labelled(labelsPatches, name, 0)
  <2>1. CASE DataJunk
    BY <1>1, <2>1 DEF DataJunk, getData, At, AtEnd
  <2>2. CASE DataName
    BY <1>1, <2>2 DEF DataName, At, AtEnd, NameUser
  <2> QED
    BY <2>1, <2>2
<1>3. h > A!Data(s) /\ h \in Nat
  BY <1>1, <1>2 DEF Ready, Cursor
<1>4. ~GoodItem(s, h)
  <2>1. ~A!InCode(s, h) /\ h # A!Data(s)
    BY <1>1, <1>3 DEF A!InCode
  <2> QED
    BY <1>2, <2>1 DEF GoodItem, A!DataItem
<1>5. ~A!Accepted(s)
  <2>1. h \in 1 .. Len(s)
    BY <1>1, <1>2
  <2> QED
    BY <1>1, <1>4, <2>1, AcceptedIs
<1>6. Doomed(s, h, labelsPatches, patched)
  BY <1>5 DEF Ready
<1>7. Doomed(s, g, labelsPatches', patched)
  <2>1. CASE g = h /\ labelsPatches' = labelsPatches
    BY <1>6, <2>1
  <2>2. CASE g = h + 1 /\ \E name : labelsPatches' = Labelled(labelsPatches, name, 0)
    <3>1. PICK name : labelsPatches' = Labelled(labelsPatches, name, 0)
      BY <2>2
    <3>2. g \in Nat /\ h <= g
      BY <1>3, <2>2
    <3> QED
      BY <1>1, <1>3, <1>6, <3>1, <3>2, DoomedNote
  <2> QED
    BY <1>2, <2>1, <2>2
<1>8. Cursor(s, g, "data")
  <2>1. CASE g = h
    BY <1>2, <2>1 DEF Ready, Cursor
  <2>2. CASE g = h + 1
    <3>1. g > A!Data(s) /\ g > A!Data(s) + 1
      BY <1>1, <1>3, <2>2
    <3> QED
      BY <3>1 DEF Cursor
  <2> QED
    BY <1>2, <2>1, <2>2
<1>9. Borne(s, labelsRegistry) /\ patched = 0
  BY <1>2 DEF Ready
<1> QED
  BY <1>2, <1>5, <1>7, <1>8, <1>9 DEF Ready

(* The end of the source: the words are those of the whole of it.          *)
LEMMA SourceEnds ==
  ASSUME AssemblerInv, Ready, CodeEnds \/ DataEnds
  PROVE  Ready' /\ phase' = "patch"
<1> DEFINE s == sbuff
           n == Len(s)
<1>1. IsSource(s) /\ n \in Nat /\ DOMAIN s = 1 .. n /\ head \in 1 .. n + 1
      /\ A!Data(s) \in 1 .. n + 1 /\ (A!HasData(s) <=> A!Data(s) <= n)
  BY SourceFacts DEF AssemblerInv, SourceInv
<1>2. /\ phase \in {"code", "data"} /\ phase' = "patch" /\ head = n + 1
      /\ UNCHANGED <<sbuff, head, labelsRegistry, labelsPatches, extensions, dataOffset, patched>>
      /\ phase = "code" => list' = list
      /\ phase = "data" => list' = list \o <<Word(0)>>
  BY <1>1 DEF CodeEnds, DataEnds, AtEnd, Append_
<1>3. /\ phase = "code" => ~A!HasData(s)
      /\ phase = "data" => A!HasData(s)
  BY <1>1, <1>2 DEF Ready, Cursor
<1>4. Cursor(s, n + 1, "patch")
  BY DEF Cursor
<1>5. ASSUME A!Accepted(s)
      PROVE  LaidOut'
  <2>1. /\ list = Header \o Before(s, n + 1)
        /\ Known(s, n + 1, labelsRegistry) /\ Noted(s, n + 1, labelsPatches)
        /\ extensions = Needed(s, n + 1) /\ dataOffset = Offset(s, n + 1) /\ patched = 0
    BY <1>2, <1>5 DEF Ready, LaidOut
  <2>2. IsSeq(Header \o Before(s, n + 1))
    <3>1. n + 1 \in 1 .. n + 1
      BY <1>1
    <3>2. IsSeq(Before(s, n + 1))
      BY <1>1, <3>1, Addresses
    <3> QED
      BY <3>2, HeaderIsSeq, ConcatIsSeq
  <2>3. list' = Laid(s)
    <3>1. CASE phase = "code"
      <4>1. (Header \o Before(s, n + 1)) \o <<>> = Header \o Before(s, n + 1)
        BY <2>2 DEF IsSeq
      <4>2. Tail_(s) = <<>>
        BY <1>3, <3>1 DEF Tail_
      <4> QED
        BY <1>2, <2>1, <3>1, <4>1, <4>2 DEF Laid
    <3>2. CASE phase = "data"
      <4>1. Tail_(s) = <<Word(0)>>
        BY <1>3, <3>2 DEF Tail_
      <4> QED
        BY <1>2, <2>1, <3>2, <4>1 DEF Laid
    <3> QED
      BY <1>2, <3>1, <3>2
  <2>4. Patched_(s, list', labelsPatches, 0)
    <3>1. \A q \in 1 .. 0 : FALSE
      OBVIOUS
    <3> QED
      BY <2>3, <3>1 DEF Patched_
  <2> HIDE DEF s, n
  <2> QED
    BY <1>2, <2>1, <2>4 DEF LaidOut, s, n
<1>6. ASSUME ~A!Accepted(s)
      PROVE  Doomed(s, n + 1, labelsPatches, patched)
  BY <1>2, <1>6 DEF Ready
<1>7. Borne(s, labelsRegistry)
  BY DEF Ready
<1> HIDE DEF n
<1>8. Ready'
  BY <1>2, <1>4, <1>5, <1>6, <1>7 DEF Ready
<1> QED
  BY <1>2, <1>8

(* Running out of room: the binary would not have fitted.                  *)
LEMMA OutOfRoom ==
  ASSUME AssemblerInv, Ready, phase \in {"code", "data"}, A!Accepted(sbuff),
         \/ head = Len(sbuff) + 1 /\ A!HasData(sbuff) /\ ~Room(<< 1 >>)
         \/ \E m \in head .. Len(sbuff) : \E words :
              /\ IsSeq(words) /\ ~Room(words) /\ Len(words) = Len(A!Words(sbuff, m))
              /\ IsSeq(A!Words(sbuff, m))
              /\ \A j \in head .. m - 1 : A!Words(sbuff, j) = <<>>
  PROVE  A!Outcome(sbuff) = A!Refused
<1> DEFINE s == sbuff
           n == Len(s)
<1>1. IsSource(s) /\ n \in Nat /\ head \in 1 .. n + 1
  BY SourceFacts DEF AssemblerInv, SourceInv
<1>2. list = Header \o Before(s, head)
  BY DEF Ready, LaidOut
<1>3. A!Address(s, head) = Len(list)
  BY <1>1, <1>2, HereIs
<1>4. /\ \A k \in 1 .. n + 1 : A!Address(s, k) <= A!Address(s, n + 1)
      /\ A!Address(s, n + 1) + (IF A!HasData(s) THEN 1 ELSE 0) = Len(A!Binary(s))
  BY <1>1, BinaryLength
<1>5. \A k \in 1 .. n + 1 : A!Address(s, k) \in Nat
  BY <1>1, Addresses DEF HEADER_LEN
<1>6. MemoryWords \in Nat /\ Len(list) \in Nat /\ n + 1 \in 1 .. n + 1
  BY <1>1, <1>3, <1>5, AssemblerAssumption
<1>7. Len(A!Binary(s)) > MemoryWords
  <2>1. CASE head = n + 1 /\ A!HasData(s) /\ ~Room(<<1>>)
    <3>1. Len(<<1>>) = 1
      OBVIOUS
    <3>2. Len(list) + 1 > MemoryWords
      BY <1>6, <2>1, <3>1 DEF Room
    <3> QED
      BY <1>3, <1>4, <1>6, <2>1, <3>2
  <2>2. ASSUME NEW m \in head .. n, NEW words, IsSeq(words), ~Room(words),
               Len(words) = Len(A!Words(s, m)), IsSeq(A!Words(s, m)),
               \A j \in head .. m - 1 : A!Words(s, j) = <<>>
        PROVE  Len(A!Binary(s)) > MemoryWords
    <3> DEFINE p == m + 1
    <3>1. m \in 1 .. n /\ m \in head .. n + 1 /\ m \in 1 .. n + 1 /\ p \in 1 .. n + 1 /\ p = m + 1
      BY <1>1
    <3> HIDE DEF p
    <3>2. Before(s, m) = Before(s, head)
      BY <1>1, <2>2, <3>1, BeforeIdle
    <3>3. Before(s, p) = Before(s, m) \o A!Words(s, m)
      BY <1>1, <3>1, BeforeNext
    <3>4. IsSeq(Before(s, m)) /\ Len(Before(s, m)) \in Nat
      BY <1>1, <3>1, Addresses
    <3>5. Len(Before(s, p)) = Len(Before(s, m)) + Len(A!Words(s, m))
      BY <2>2, <3>3, <3>4, ConcatIsSeq
    <3>6. A!Address(s, p) = HEADER_LEN + Len(Before(s, p)) /\ Len(Before(s, p)) \in Nat
      BY <1>1, <3>1, Addresses
    <3>7. A!Address(s, head) = HEADER_LEN + Len(Before(s, head))
      BY <1>1, Addresses
    <3>8. Len(words) \in Nat
      BY <2>2, SeqFacts
    <3>9. A!Address(s, p) = Len(list) + Len(words)
      BY <1>3, <2>2, <3>2, <3>4, <3>5, <3>6, <3>7, <3>8 DEF HEADER_LEN
    <3>10. Len(list) + Len(words) > MemoryWords
      BY <1>6, <2>2, <3>8 DEF Room
    <3>11. A!Address(s, p) <= A!Address(s, n + 1) /\ A!Address(s, n + 1) \in Nat /\ A!Address(s, p) \in Nat
      BY <1>4, <1>5, <1>6, <3>1
    <3>12. A!Address(s, n + 1) <= Len(A!Binary(s)) /\ Len(A!Binary(s)) \in Nat
      BY <1>4, <3>11
    <3> QED
      BY <1>6, <3>9, <3>10, <3>11, <3>12
  <2> QED
    BY <2>1, <2>2
<1>8. ~A!Fits(s)
  <2>1. Len(A!Binary(s)) \in Nat
    BY <1>1, BinaryLength
  <2> QED
    BY <1>6, <1>7, <2>1 DEF A!Fits
<1> QED
  BY <1>8 DEF A!Outcome

LEMMA CodeRefuses ==
  ASSUME AssemblerInv, Ready, CodeRefused
  PROVE  A!Outcome(sbuff) = A!Refused
<1> DEFINE s == sbuff
           h == head
<1>1. IsSource(s) /\ Len(s) \in Nat /\ DOMAIN s = 1 .. Len(s) /\ h \in 1 .. Len(s) + 1
      /\ A!Data(s) \in 1 .. Len(s) + 1 /\ (A!Data(s) <= Len(s) => s[A!Data(s)].t = ".data")
  BY SourceFacts DEF AssemblerInv, SourceInv
<1>2. /\ phase = "code" /\ h <= Len(s)
      /\ \/ s[h].t \in {"num", "dbl", "str", "ref", "junk"}
         \/ s[h].t = "instr" /\ ~(Parses(s[h]) /\ Room(<<1>>))
         \/ s[h].t = "blank" /\ h = Len(s)
  <2>1. CASE At("code", {"num", "dbl", "str", "ref", "junk"})
    <3>1. phase = "code" /\ ~AtEnd /\ s[h].t \in {"num", "dbl", "str", "ref", "junk"}
      BY <2>1 DEF At
    <3>2. h <= Len(s)
      BY <1>1, <3>1 DEF AtEnd
    <3> QED
      BY <3>1, <3>2
  <2>2. CASE At("code", {"instr"}) /\ ~(Parses(Item) /\ Room(<<1>>))
    <3>1. phase = "code" /\ ~AtEnd /\ s[h].t = "instr"
      BY <2>2 DEF At
    <3>2. ~(Parses(s[h]) /\ Room(<<1>>))
      BY <2>2 DEF Item
    <3>3. h <= Len(s)
      BY <1>1, <3>1 DEF AtEnd
    <3> QED
      BY <3>1, <3>2, <3>3
  <2>3. CASE At("code", {"blank"}) /\ head = Len(sbuff)
    <3>1. phase = "code" /\ ~AtEnd /\ s[h].t = "blank"
      BY <2>3 DEF At
    <3> QED
      BY <1>1, <2>3, <3>1
  <2> QED
    BY <2>1, <2>2, <2>3 DEF CodeRefused
<1>3. h \in 1 .. Len(s) /\ h < A!Data(s) /\ A!InCode(s, h) /\ h # A!Data(s)
  <2>1. h <= A!Data(s)
    BY <1>2 DEF Ready, Cursor
  <2>2. s[h].t # ".data"
    BY <1>2
  <2>3. h < A!Data(s)
    <3>1. h # A!Data(s)
      BY <1>1, <1>2, <2>2
    <3>2. h \in Nat /\ A!Data(s) \in Nat
      BY <1>1
    <3> QED
      BY <2>1, <3>1, <3>2
  <2>4. h \in 1 .. Len(s)
    <3>1. h <= Len(s)
      BY <1>2
    <3>2. Len(s) \in Nat /\ h \in 1 .. Len(s) + 1
      BY <1>1
    <3> QED
      BY <3>1, <3>2
  <2>5. h # A!Data(s)
    BY <2>3, <2>4
  <2> QED
    BY <2>3, <2>4, <2>5 DEF A!InCode
<1>4. CASE s[h].t = "instr" /\ Parses(s[h]) /\ A!Accepted(s)
  <2>1. A!Words(s, h) = <<Encoded(s[h])>>
    BY <1>3, <1>4, CodeLays
  <2>2. Len(<<1>>) = Len(A!Words(s, h)) /\ IsSeq(A!Words(s, h)) /\ IsSeq(<<1>>)
    BY <2>1, OneIsSeq
  <2>3. ~Room(<<1>>)
    BY <1>2, <1>4
  <2>4. h \in h .. Len(s) /\ \A j \in h .. h - 1 : A!Words(s, j) = <<>>
    BY <1>1, <1>3
  <2> QED
    BY <1>2, <1>4, <2>2, <2>3, <2>4, OutOfRoom
<1>5. CASE ~(s[h].t = "instr" /\ Parses(s[h]))
  <2>1. s[h].t = "blank" => A!Trailing(s, h)
    BY <1>1, <1>2 DEF A!Trailing, Ready, Cursor
  <2>2. ~A!CodeItem(s, h)
    BY <1>2, <1>5, <2>1 DEF A!CodeItem
  <2>3. ~GoodItem(s, h)
    BY <1>3, <2>2 DEF GoodItem
  <2>4. ~A!Accepted(s)
    BY <1>1, <1>3, <2>3, AcceptedIs
  <2> QED
    BY <2>4 DEF A!Outcome
<1>6. CASE ~A!Accepted(s)
  BY <1>6 DEF A!Outcome
<1> QED
  BY <1>4, <1>5, <1>6

LEMMA DataRefuses ==
  ASSUME AssemblerInv, Ready, DataRefused
  PROVE  A!Outcome(sbuff) = A!Refused
<1> DEFINE s == sbuff
           h == head
<1>1. IsSource(s) /\ Len(s) \in Nat /\ DOMAIN s = 1 .. Len(s) /\ h \in 1 .. Len(s) + 1
      /\ A!Data(s) \in 1 .. Len(s) + 1 /\ (A!HasData(s) <=> A!Data(s) <= Len(s))
  BY SourceFacts DEF AssemblerInv, SourceInv
<1>2. SUFFICES ASSUME A!Accepted(s)
               PROVE  A!Outcome(s) = A!Refused
  BY DEF A!Outcome
<1>3. phase = "data"
  BY DEF DataRefused, At, BlankLine
<1>4. h > A!Data(s) /\ h \in Nat
  BY <1>1, <1>3 DEF Ready, Cursor
<1>5. Settled(s, h)
  BY <1>2, <1>3 DEF Ready, LaidOut
<1>6. \A k \in h .. Len(s) : A!DataItem(s, k)
  <2>1. ASSUME NEW k \in h .. Len(s)
        PROVE  A!DataItem(s, k)
    <3>1. k \in 1 .. Len(s) /\ ~A!InCode(s, k) /\ k # A!Data(s)
      BY <1>1, <1>4 DEF A!InCode
    <3>2. GoodItem(s, k)
      BY <1>1, <1>2, <3>1, AcceptedIs
    <3> QED
      BY <3>1, <3>2 DEF GoodItem
  <2> QED
    BY <2>1
<1>7. IsSeq(<<1>>) /\ Len(<<1>>) = 1 /\ \A j \in h .. h - 1 : FALSE
  BY <1>4, OneIsSeq
<1>8. ASSUME h <= Len(s)
      PROVE  /\ h \in 1 .. Len(s) /\ h \in h .. Len(s)
             /\ h \in A!Data(s) .. Len(s) /\ h \in A!Data(s) + 1 .. Len(s) /\ IsSeq(A!Words(s, h))
  <2>1. h \in 1 .. Len(s) /\ h \in h .. Len(s) /\ h \in A!Data(s) .. Len(s) /\ h \in A!Data(s) + 1 .. Len(s)
    BY <1>1, <1>4, <1>8
  <2> QED
    BY <1>1, <2>1, WordsAreSeqs DEF Pieces
<1>9. CASE At("data", {"num", "dbl", "str"}) /\ (BadString \/ ~Room(DataWords(Item)))
  <2>1. h <= Len(s) /\ s[h].t \in {"num", "dbl", "str"}
    BY <1>1, <1>9 DEF At, AtEnd
  <2>2. ~BadString
    <3>1. s[h].t = "str" => QUOTE \notin A!ToSet(s[h].chars)
      BY <1>6, <1>8, <2>1 DEF A!DataItem
    <3> QED
      BY <3>1 DEF BadString, A!ToSet, Item
  <2>3. ~Room(DataWords(s[h]))
    BY <1>9, <2>2 DEF Item
  <2>4. A!Words(s, h) = DataWords(s[h])
    BY <1>1, <1>5, <1>8, <2>1, SettledOn, DataLays
  <2> QED
    BY <1>2, <1>3, <1>7, <1>8, <2>1, <2>3, <2>4, OutOfRoom
<1>10. CASE At("data", {"junk", ".data", "ref", "instr"})
  <2>1. h <= Len(s) /\ s[h].t \in {"junk", ".data", "ref", "instr"}
    BY <1>1, <1>10 DEF At, AtEnd
  <2> QED
    BY <1>6, <1>8, <2>1 DEF A!DataItem
<1>11. ASSUME BlankLine
       PROVE  h <= Len(s) /\ A!EndsBlank(s, h)
  <2>1. s[h].t = "blank" /\ (h < Len(s) => s[h + 1].t = "nl") /\ h <= Len(s)
    BY <1>1, <1>11 DEF BlankLine, At, AtEnd
  <2>2. h > A!Data(s) + 1
    <3>1. h > 1 /\ h > A!Data(s)
      BY <1>1, <1>4
    <3> QED
      BY <1>3, <2>1, <3>1 DEF Ready, Cursor
  <2>3. h - 1 \in 1 .. Len(s) /\ h - 1 # A!Data(s) /\ ~(h - 1 < A!Data(s))
    BY <1>1, <2>1, <2>2
  <2>4. GoodItem(s, h - 1)
    BY <1>1, <1>2, <2>3, AcceptedIs
  <2>5. s[h - 1].t # ".data"
    BY <2>3, <2>4 DEF GoodItem, A!InCode, A!DataItem
  <2> QED
    BY <2>1, <2>5 DEF A!EndsBlank
<1>12. CASE BlankLine /\ NumberNext /\ ~Room(SpilledWords(sbuff[NextText]))
  <2> DEFINE m == NextText
             words == SpilledWords(s[m])
  <2>1. FirstText(s, h, m)
    BY <1>1, NextIsFirst
  <2>2. ~Room(words) /\ m <= Len(s) /\ s[m].t \in {"num", "dbl"}
    BY <1>12 DEF NumberNext
  <2> HIDE DEF m
  <2>3. IsSeq(words)
    BY OneIsSeq, TwoAreSeq DEF SpilledWords
  <2>4. (\A j \in h .. m - 1 : A!Words(s, j) = <<>>) /\ A!Words(s, m) = words
    BY <1>1, <1>8, <1>11, <1>12, <2>1, <2>2, BlankLays
  <2> HIDE DEF words
  <2>5. m \in h .. Len(s)
    BY <1>1, <2>1, <2>2 DEF FirstText
  <2> QED
    BY <1>2, <1>3, <2>2, <2>3, <2>4, <2>5, OutOfRoom
<1>13. CASE BlankLine /\ ~NumberNext /\ ~Room(<<1>>)
  <2> DEFINE m == NextText
  <2>1. FirstText(s, h, m)
    BY <1>1, NextIsFirst
  <2>2. ~(m <= Len(s) /\ s[m].t \in {"num", "dbl"})
    BY <1>13 DEF NumberNext
  <2> HIDE DEF m
  <2>3. A!Words(s, h) = <<Word(0)>>
    BY <1>1, <1>8, <1>11, <1>13, <2>1, <2>2, BlankLays
  <2>4. Len(A!Words(s, h)) = 1
    BY <2>3
  <2> QED
    BY <1>2, <1>3, <1>7, <1>8, <1>11, <1>13, <2>4, OutOfRoom
<1>14. CASE phase = "data" /\ AtEnd /\ ~Room(<<1>>)
  <2>1. h = Len(s) + 1 /\ A!HasData(s)
    BY <1>1, <1>4, <1>14 DEF AtEnd
  <2> QED
    BY <1>2, <1>3, <1>14, <2>1, OutOfRoom
<1> QED
  BY <1>9, <1>10, <1>12, <1>13, <1>14 DEF DataRefused
-----------------------------------------------------------------------------
(* The patches.  A name that labels the source is found, at the address it *)
(* stands for; one that does not is not found.                             *)
LEMMA FoundAt ==
  ASSUME NEW s, IsSource(s), Known(s, Len(s) + 1, labelsRegistry), Borne(s, labelsRegistry),
         IsSeq(labelsRegistry), NEW name
  PROVE  /\ labelListFind(name) = {} <=> A!Labels(s, name) = {}
         /\ A!Labels(s, name) # {} => AddressOf(name) = A!Target(s, name) /\ A!Target(s, name) \in Nat
<1> DEFINE n == Len(s)
           r == Len(labelsRegistry)
           S == {q \in DOMAIN labelsRegistry : labelsRegistry[q].name = name}
<1>1. n \in Nat /\ DOMAIN s = 1 .. n /\ r \in Nat /\ DOMAIN labelsRegistry = 1 .. r /\ (n + 1) - 1 = n
  BY SourceFacts, SeqFacts
<1>2. \A q \in labelListFind(name) :
        /\ q \in DOMAIN labelsRegistry /\ labelsRegistry[q].name = name
        /\ \A j \in 1 .. q - 1 : labelsRegistry[j].name # labelsRegistry[q].name
  BY DEF labelListFind
<1>3. ASSUME A!Labels(s, name) # {}
      PROVE  labelListFind(name) # {}
  <2>1. PICK k \in 1 .. n : s[k].t = "label" /\ s[k].name = name
    BY <1>1, <1>3 DEF A!Labels
  <2>2. S # {} /\ S \subseteq Nat
    BY <1>1, <2>1 DEF Known
  <2>3. PICK q \in S : \A y \in S : q <= y
    BY <2>2, LeastElement
  <2>4. ASSUME NEW j \in 1 .. q - 1
        PROVE  labelsRegistry[j].name # name
    <3>1. j \in 1 .. r /\ ~(q <= j)
      BY <1>1, <2>3
    <3>2. j \notin S
      <4> HIDE DEF S
      <4> QED
        BY <2>3, <3>1
    <3> QED
      BY <1>1, <3>1, <3>2
  <2>5. q \in labelListFind(name)
    BY <2>3, <2>4 DEF labelListFind
  <2> QED
    BY <2>5
<1>4. ASSUME labelListFind(name) # {}
      PROVE  /\ A!Labels(s, name) # {}
             /\ AddressOf(name) = A!Target(s, name) /\ A!Target(s, name) \in Nat
  <2> DEFINE q == CHOOSE k \in labelListFind(name) : TRUE
  <2>1. q \in labelListFind(name)
    BY <1>4
  <2>2. AddressOf(name) = labelsRegistry[q].pc
    BY DEF AddressOf
  <2> HIDE DEF q
  <2>3. /\ q \in DOMAIN labelsRegistry /\ labelsRegistry[q].name = name
        /\ \A j \in 1 .. q - 1 : labelsRegistry[j].name # labelsRegistry[q].name
    BY <1>2, <2>1
  <2>4. A!Labels(s, labelsRegistry[q].name) # {}
    BY <2>3 DEF Borne
  <2>5. labelsRegistry[q].pc = A!Target(s, labelsRegistry[q].name)
    BY <2>3 DEF Known
  <2>6. A!Target(s, name) \in Nat
    <3>1. A!Labels(s, name) \subseteq 1 .. n /\ A!Labels(s, name) # {} /\ A!Labels(s, name) \subseteq Nat
      BY <1>1, <2>3, <2>4 DEF A!Labels
    <3>2. A!Min(A!Labels(s, name)) \in A!Labels(s, name)
      <4>1. \E x \in A!Labels(s, name) : \A y \in A!Labels(s, name) : x <= y
        BY <3>1, LeastElement
      <4> QED
        BY <4>1 DEF A!Min
    <3>3. A!Min(A!Labels(s, name)) \in 1 .. n + 1
      BY <1>1, <3>1, <3>2
    <3> QED
      BY <3>3, Addresses DEF A!Target, HEADER_LEN
  <2> QED
    BY <2>2, <2>3, <2>4, <2>5, <2>6
<1> QED
  BY <1>3, <1>4

(* The words laid down, after the header.                                  *)
LEMMA LaidAt ==
  ASSUME NEW s, IsSource(s)
  PROVE  /\ \A i \in 1 .. 5 : Laid(s)[i] = Header[i]
         /\ \A i \in 1 .. Len(Before(s, Len(s) + 1)) : Laid(s)[5 + i] = Before(s, Len(s) + 1)[i]
         /\ \A i \in 1 .. Len(Tail_(s)) : Laid(s)[5 + Len(Before(s, Len(s) + 1)) + i] = Tail_(s)[i]
<1> DEFINE b == Before(s, Len(s) + 1)
           t == Tail_(s)
           x == Header \o b
<1>1. IsSeq(b) /\ Len(b) \in Nat
  <2>1. Len(s) + 1 \in 1 .. Len(s) + 1
    BY SourceFacts
  <2> QED
    BY <2>1, Addresses
<1>2. IsSeq(Header) /\ Len(Header) = 5
  BY HeaderIsSeq
<1>3. IsSeq(t)
  BY OneIsSeq, EmptyIsSeq DEF Tail_
<1> HIDE DEF b, t
<1>4. /\ IsSeq(x) /\ Len(x) = Len(Header) + Len(b)
      /\ \A k \in 1 .. Len(Header) : x[k] = Header[k]
      /\ \A k \in 1 .. Len(b) : x[Len(Header) + k] = b[k]
  <2>1. IsSeq(Header) /\ IsSeq(b)
    BY <1>1, <1>2
  <2>2. /\ IsSeq(Header \o b) /\ Len(Header \o b) = Len(Header) + Len(b)
        /\ \A k \in 1 .. Len(Header) : (Header \o b)[k] = Header[k]
        /\ \A k \in 1 .. Len(b) : (Header \o b)[Len(Header) + k] = b[k]
    BY <2>1, ConcatIsSeq
  <2> QED
    BY <2>2
<1>5. /\ IsSeq(x) /\ Len(x) = 5 + Len(b)
      /\ \A k \in 1 .. 5 : x[k] = Header[k]
      /\ \A k \in 1 .. Len(b) : x[5 + k] = b[k]
  BY <1>2, <1>4
<1> HIDE DEF x
<1>6. /\ \A k \in 1 .. Len(x) : (x \o t)[k] = x[k]
      /\ \A k \in 1 .. Len(t) : (x \o t)[Len(x) + k] = t[k]
  BY <1>3, <1>5, ConcatIsSeq
<1>7. Laid(s) = x \o t
  BY DEF Laid, x, b, t
<1>8. \A i \in 1 .. 5 : Laid(s)[i] = Header[i]
  BY <1>1, <1>5, <1>6, <1>7
<1>9. \A i \in 1 .. Len(b) : Laid(s)[5 + i] = b[i]
  <2>1. ASSUME NEW i \in 1 .. Len(b)
        PROVE  Laid(s)[5 + i] = b[i]
    <3>1. 5 + i \in 1 .. Len(x)
      BY <1>1, <1>5
    <3>2. (x \o t)[5 + i] = x[5 + i]
      BY <1>6, <3>1
    <3> QED
      BY <1>5, <1>7, <3>2
  <2> QED
    BY <2>1
<1>10. \A i \in 1 .. Len(t) : Laid(s)[5 + Len(b) + i] = t[i]
  BY <1>5, <1>6, <1>7
<1> QED
  BY <1>8, <1>9, <1>10 DEF b, t

(* A note is of an instruction, at the word that is to be resolved.        *)
LEMMA NoteIs ==
  ASSUME NEW s, IsSource(s), NEW notes, Noted(s, Len(s) + 1, notes), NEW q \in DOMAIN notes
  PROVE  \E k \in 1 .. Len(s) :
           /\ Uses(s, k) /\ notes[q].name = s[k].ref /\ notes[q].pc = A!Address(s, k)
           /\ notes[q].pc \in Nat /\ HEADER_LEN <= notes[q].pc
           /\ notes[q].pc < HEADER_LEN + Len(Before(s, Len(s) + 1))
           /\ Len(Before(s, Len(s) + 1)) \in Nat
           /\ Laid(s)[notes[q].pc + 1] = Encoded(s[k])
<1> DEFINE b == Before(s, Len(s) + 1)
<1>1. Len(s) \in Nat /\ (Len(s) + 1) - 1 = Len(s)
  BY SourceFacts
<1>2. PICK k \in 1 .. Len(s) : Uses(s, k) /\ notes[q] = Note(s, k)
  BY <1>1 DEF Noted
<1>3. notes[q].name = s[k].ref /\ notes[q].pc = A!Address(s, k)
  BY <1>2 DEF Note
<1>4. /\ A!Address(s, k) \in Nat /\ HEADER_LEN <= A!Address(s, k)
      /\ Len(b) \in Nat
      /\ A!Address(s, k) < HEADER_LEN + Len(b)
      /\ b[A!Address(s, k) - HEADER_LEN + 1] = Encoded(s[k])
  BY <1>2, UsesApart
<1> HIDE DEF b
<1> DEFINE i == A!Address(s, k) - HEADER_LEN + 1
<1>5. i \in 1 .. Len(b) /\ 5 + i = A!Address(s, k) + 1 /\ b[i] = Encoded(s[k])
  BY <1>4 DEF HEADER_LEN
<1> HIDE DEF i
<1>6. Laid(s)[5 + i] = b[i]
  BY <1>5, LaidAt DEF b
<1>7. Laid(s)[notes[q].pc + 1] = Encoded(s[k])
  BY <1>3, <1>5, <1>6
<1> QED
  BY <1>2, <1>3, <1>4, <1>7 DEF b

LEMMA PatchesApply ==
  ASSUME AssemblerInv, Ready, PatchApplied
  PROVE  Ready' /\ phase' = "patch"
<1> DEFINE s == sbuff
           n == Len(s)
           notes == labelsPatches
           p == patched + 1
           pc == notes[p].pc
           name == notes[p].name
<1>1. /\ IsSource(s) /\ n \in Nat /\ IsSeq(labelsRegistry) /\ IsSeq(list) /\ Len(list) \in Nat
      /\ DOMAIN list = 1 .. Len(list) /\ IsSeq(notes) /\ Len(notes) \in Nat /\ DOMAIN notes = 1 .. Len(notes)
      /\ patched \in 0 .. Len(notes)
  BY SourceFacts, SeqFacts DEF AssemblerInv, SourceInv, ListInv, LabelsInv, PatchesInv
<1>2. /\ phase = "patch" /\ phase' = "patch" /\ p \in 1 .. Len(notes) /\ patched' = p
      /\ UNCHANGED <<sbuff, head, labelsRegistry, labelsPatches, extensions, dataOffset>>
      /\ labelListFind(name) # {} /\ pc # 0
  BY <1>1 DEF PatchApplied, Patchable, Patch
<1>3. head = n + 1 /\ Borne(s, labelsRegistry)
  BY <1>2 DEF Ready, Cursor
<1>4. ASSUME ~A!Accepted(s)
      PROVE  Doomed(s, head, notes, p)
  <2>1. PICK q \in patched + 1 .. Len(notes) : notes[q].pc = 0 \/ A!Labels(s, notes[q].name) = {}
    <3>1. \A k \in head .. n : FALSE
      BY <1>1, <1>3
    <3> QED
      BY <1>4, <3>1 DEF Ready, Doomed
  <2>2. q # p
    <3>1. PICK k \in DOMAIN labelsRegistry : labelsRegistry[k].name = name
      BY <1>2 DEF labelListFind
    <3>2. A!Labels(s, name) # {}
      BY <1>3, <3>1 DEF Borne
    <3> QED
      BY <1>2, <2>1, <3>2
  <2>3. q \in p + 1 .. Len(notes)
    BY <1>1, <2>2
  <2> QED
    BY <2>1, <2>3 DEF Doomed
<1>5. ASSUME A!Accepted(s)
      PROVE  LaidOut'
  <2>1. /\ Known(s, n + 1, labelsRegistry) /\ Noted(s, n + 1, notes)
        /\ extensions = Needed(s, n + 1) /\ dataOffset = Offset(s, n + 1)
        /\ Patched_(s, list, notes, patched)
    BY <1>2, <1>3, <1>5 DEF Ready, LaidOut
  <2>2. PICK k \in 1 .. n :
           /\ Uses(s, k) /\ name = s[k].ref /\ pc = A!Address(s, k)
           /\ pc \in Nat /\ HEADER_LEN <= pc /\ pc < HEADER_LEN + Len(Before(s, n + 1))
           /\ Len(Before(s, n + 1)) \in Nat
           /\ Laid(s)[pc + 1] = Encoded(s[k])
    <3>1. p \in DOMAIN notes
      BY <1>1, <1>2
    <3> HIDE DEF p
    <3> QED
      BY <1>1, <2>1, <3>1, NoteIs
  <2> DEFINE w == list[pc + 1]
             target == A!Target(s, name)
  <2>3. pc + 1 \in 1 .. Len(list)
    <3>1. Len(list) = HEADER_LEN + Len(Before(s, n + 1)) + (IF A!HasData(s) THEN 1 ELSE 0)
      BY <1>1, <2>1, BinaryLength DEF Patched_
    <3> QED
      BY <1>1, <2>2, <3>1 DEF HEADER_LEN
  <2>4. \A q \in 1 .. patched : notes[q].pc + 1 # pc + 1
    <3>1. ASSUME NEW q \in 1 .. patched, notes[q].pc + 1 = pc + 1
          PROVE  FALSE
      <4>1. q \in DOMAIN notes /\ p \in DOMAIN notes /\ q # p
        BY <1>1, <1>2
      <4>2. notes[q].pc \in Nat
        <5> HIDE DEF p
        <5> QED
          BY <1>1, <2>1, <4>1, NoteIs
      <4>3. notes[q].pc = notes[p].pc
        BY <2>2, <3>1, <4>2
      <4> HIDE DEF p
      <4> QED
        BY <2>1, <4>1, <4>3 DEF Noted
    <3> QED
      BY <3>1
  <2>5. w = Laid(s)[pc + 1]
    BY <2>1, <2>3, <2>4 DEF Patched_
  <2>6. "imm" \in DOMAIN w /\ w.imm = 0
    <3>1. p \in patched + 1 .. Len(notes)
      BY <1>1, <1>2
    <3> QED
      BY <1>2, <3>1 DEF AssemblerInv, PatchesInv, PatchesSound
  <2>7. AddressOf(name) = target /\ target \in Nat
    BY <1>1, <1>2, <1>3, <2>1, FoundAt
  <2> DEFINE v == PatchValue(w.op, target, pc)
  <2>8. v \in Int
    <3>1. Width(w.op) \in {IBits, SBits}
      BY DEF Width
    <3>2. 2 ^ Width(w.op) \in Nat \ {0}
      BY <3>1, AssemblerAssumption
    <3>3. \A x \in Int : Wrap(x, Width(w.op)) \in Int
      BY <3>2 DEF Wrap
    <3>4. target - pc \in Int /\ target - HEADER_LEN \in Int
      BY <2>2, <2>7 DEF HEADER_LEN
    <3> HIDE DEF w
    <3> QED
      BY <3>3, <3>4 DEF PatchValue
  <2>9. list' = [list EXCEPT ![pc + 1] = [w EXCEPT !.imm = @ + v]]
    BY <2>7 DEF PatchApplied, Patch
  <2>10. [w EXCEPT !.imm = @ + v] = Addressed(w, pc, target)
    <3>1. w.imm + v = v
      <4> HIDE DEF v, w
      <4> QED
        BY <2>6, <2>8
    <3>2. Addressed(w, pc, target) = [w EXCEPT !.imm = v]
      BY DEF Addressed, PatchValue
    <3> HIDE DEF v, w
    <3> QED
      BY <3>1, <3>2
  <2>11. list' = [list EXCEPT ![pc + 1] = Addressed(Laid(s)[pc + 1], pc, target)]
    BY <2>5, <2>9, <2>10
  <2> HIDE DEF w, v
  <2> DEFINE x == Addressed(Laid(s)[pc + 1], pc, target)
  <2>12. /\ Len(list') = Len(list) /\ list'[pc + 1] = x
         /\ \A i \in 1 .. Len(list) : i # pc + 1 => list'[i] = list[i]
    <3> HIDE DEF x, pc
    <3> QED
      BY <1>1, <2>3, <2>11, ChangedIsSeq DEF x
  <2>13. Patched_(s, list', notes, p)
    <3>1. ASSUME NEW q \in 1 .. p
          PROVE  list'[notes[q].pc + 1]
                   = Addressed(Laid(s)[notes[q].pc + 1], notes[q].pc, A!Target(s, notes[q].name))
      <4>1. CASE q = p
        BY <2>12, <4>1
      <4>2. CASE q # p
        <5>1. q \in 1 .. patched /\ q \in DOMAIN notes
          BY <1>1, <4>2
        <5>2. notes[q].pc + 1 # pc + 1
          BY <2>4, <5>1
        <5>3. notes[q].pc + 1 \in 1 .. Len(list)
          <6>1. /\ notes[q].pc \in Nat
                /\ notes[q].pc < HEADER_LEN + Len(Before(s, n + 1))
            BY <1>1, <2>1, <5>1, NoteIs
          <6> DEFINE b == Len(Before(s, n + 1))
                     d == IF A!HasData(s) THEN 1 ELSE 0
          <6>2. Len(list) = HEADER_LEN + b + d
            BY <1>1, <2>1, BinaryLength DEF Patched_
          <6>3. d \in {0, 1} /\ b \in Nat
            BY <2>2
          <6> HIDE DEF b, d
          <6>4. notes[q].pc \in Nat /\ notes[q].pc < HEADER_LEN + b
            BY <6>1 DEF b
          <6> QED
            BY <6>2, <6>3, <6>4 DEF HEADER_LEN
        <5>4. list'[notes[q].pc + 1] = list[notes[q].pc + 1]
          BY <2>12, <5>2, <5>3
        <5> QED
          BY <2>1, <5>1, <5>4 DEF Patched_
      <4> QED
        BY <4>1, <4>2
    <3>2. ASSUME NEW i \in 1 .. Len(list'), \A q \in 1 .. p : notes[q].pc + 1 # i
          PROVE  list'[i] = Laid(s)[i]
      <4>1. p \in 1 .. p /\ \A q \in 1 .. patched : q \in 1 .. p
        BY <1>1
      <4>2. i # pc + 1 /\ \A q \in 1 .. patched : notes[q].pc + 1 # i
        BY <3>2, <4>1
      <4>3. i \in 1 .. Len(list)
        BY <2>12
      <4>4. list'[i] = list[i]
        BY <2>12, <4>2, <4>3
      <4> QED
        BY <2>1, <4>2, <4>3, <4>4 DEF Patched_
    <3>3. Len(list') = Len(Laid(s))
      BY <2>1, <2>12 DEF Patched_
    <3> HIDE DEF p, x, pc, target, name
    <3> QED
      BY <3>1, <3>2, <3>3 DEF Patched_
  <2> HIDE DEF s, n, notes, p, pc, name, target
  <2> QED
    BY <1>2, <1>3, <2>1, <2>13 DEF LaidOut, s, n, notes, p
<1>6. Cursor(s, head, "patch")
  BY <1>2 DEF Ready
<1> HIDE DEF p, pc, name
<1>7. Ready'
  BY <1>2, <1>3, <1>4, <1>5, <1>6 DEF Ready
<1> QED
  BY <1>2, <1>7

LEMMA PatchesRefuse ==
  ASSUME AssemblerInv, Ready, PatchRefused
  PROVE  A!Outcome(sbuff) = A!Refused
<1> DEFINE s == sbuff
           n == Len(s)
           notes == labelsPatches
           p == patched + 1
<1>1. SUFFICES ASSUME A!Accepted(s)
               PROVE  FALSE
  BY DEF A!Outcome
<1>2. /\ IsSource(s) /\ n \in Nat /\ IsSeq(labelsRegistry)
      /\ IsSeq(notes) /\ Len(notes) \in Nat /\ DOMAIN notes = 1 .. Len(notes)
      /\ patched \in 0 .. Len(notes)
  BY SourceFacts, SeqFacts DEF AssemblerInv, SourceInv, LabelsInv, PatchesInv
<1>3. /\ phase = "patch" /\ p \in DOMAIN notes
      /\ ~(labelListFind(notes[p].name) # {} /\ notes[p].pc # 0)
  BY <1>2 DEF PatchRefused, Patchable, Patch
<1>4. /\ Known(s, n + 1, labelsRegistry) /\ Noted(s, n + 1, notes) /\ Borne(s, labelsRegistry)
  BY <1>1, <1>3 DEF Ready, LaidOut, Cursor
<1> HIDE DEF p
<1>5. PICK k \in 1 .. n : Uses(s, k) /\ notes[p].name = s[k].ref /\ notes[p].pc \in Nat /\ HEADER_LEN <= notes[p].pc
  BY <1>2, <1>3, <1>4, NoteIs
<1>6. A!Labels(s, s[k].ref) # {}
  <2>1. GoodItem(s, k)
    BY <1>1, <1>2, AcceptedIs
  <2>2. k # A!Data(s) /\ A!InCode(s, k) /\ s[k].t = "instr" /\ "ref" \in DOMAIN s[k]
    <3>1. A!Data(s) \in 1 .. n + 1
      BY <1>2, SourceFacts
    <3> QED
      BY <1>2, <1>5, <3>1 DEF Uses, A!InCode
  <2> QED
    BY <2>1, <2>2 DEF GoodItem, A!CodeItem
<1>7. labelListFind(notes[p].name) # {}
  BY <1>2, <1>4, <1>5, <1>6, FoundAt
<1> QED
  BY <1>3, <1>5, <1>7 DEF HEADER_LEN

(* With every patch applied, the words after the header are the body of    *)
(* the binary that is promised.                                            *)
LEMMA AllPatched ==
  ASSUME NEW s, IsSource(s), NEW words, NEW notes, IsSeq(notes), Noted(s, Len(s) + 1, notes),
         Patched_(s, words, notes, Len(notes))
  PROVE  /\ words[1] = Magic
         /\ \A i \in 1 .. Len(A!Body(s)) : words[5 + i] = A!Body(s)[i]
<1> DEFINE n == Len(s)
           b == Before(s, n + 1)
           t == Tail_(s)
           R == ResolvedAll(s)
           W == Worded(s)
           X == Flat(R, n)
           m_ == Len(notes)
<1>1. n \in Nat /\ n \in 0 .. n /\ (n + 1) - 1 = n /\ n + 1 \in 1 .. n + 1 /\ m_ \in Nat /\ DOMAIN notes = 1 .. m_
  BY SourceFacts, SeqFacts
<1>2. /\ A!Body(s) = X \o t /\ IsSeq(X) /\ IsSeq(t) /\ Len(X) = Len(b) /\ Len(t) \in Nat
      /\ Len(t) = 1 \/ Len(t) = 0
  BY BodyIs
<1>3. /\ Len(b) \in Nat /\ b = Flat(W, n)
      /\ Len(words) = Len(Laid(s)) /\ Len(Laid(s)) = 5 + Len(b) + Len(t)
  <2>1. Len(b) \in Nat
    BY <1>1, Addresses
  <2>2. b = Flat(W, n)
    BY <1>1 DEF Before
  <2>3. Len(t) = IF A!HasData(s) THEN 1 ELSE 0
    BY BodyIs
  <2>4. Len(Laid(s)) = HEADER_LEN + Len(b) + (IF A!HasData(s) THEN 1 ELSE 0)
    BY BinaryLength
  <2>5. Len(words) = Len(Laid(s))
    BY DEF Patched_
  <2> QED
    BY <2>1, <2>2, <2>3, <2>4, <2>5 DEF HEADER_LEN
<1>4. ASSUME NEW q \in 1 .. m_
      PROVE  \E k \in 1 .. n :
               /\ Uses(s, k) /\ notes[q].name = s[k].ref /\ notes[q].pc = A!Address(s, k)
               /\ notes[q].pc \in Nat /\ 5 <= notes[q].pc /\ notes[q].pc < 5 + Len(b)
               /\ Laid(s)[notes[q].pc + 1] = Encoded(s[k])
  <2>1. q \in DOMAIN notes
    BY <1>1
  <2> QED
    BY <2>1, NoteIs DEF HEADER_LEN
<1>5. \A i \in 1 .. Len(words) : (\A q \in 1 .. m_ : notes[q].pc + 1 # i) => words[i] = Laid(s)[i]
  BY DEF Patched_
<1>6. \A q \in 1 .. m_ :
        words[notes[q].pc + 1] = Addressed(Laid(s)[notes[q].pc + 1], notes[q].pc, A!Target(s, notes[q].name))
  BY DEF Patched_
<1>7. Pieces(R, n) /\ Pieces(W, n)
      /\ \A k \in 1 .. n :
           /\ Len(R[k]) = Len(W[k])
           /\ ~Uses(s, k) => R[k] = W[k]
           /\ Uses(s, k) => R[k] = <<Addressed(Encoded(s[k]), A!Address(s, k), A!Target(s, s[k].ref))>>
           /\ Uses(s, k) => W[k] = <<Encoded(s[k])>>
  BY ResolvedAreSeqs, WordsAreSeqs, UsesApart
<1>8. \A k \in 1 .. n : Start(R, k) = Start(W, k) /\ Start(R, k) \in Nat /\ A!Address(s, k) = 5 + Start(W, k)
  <2>1. \A l \in 0 .. n : Len(Flat(R, l)) = Len(Flat(W, l))
    BY <1>1, <1>7, FlatLengths
  <2>2. ASSUME NEW k \in 1 .. n
        PROVE  Start(R, k) = Start(W, k) /\ Start(R, k) \in Nat /\ A!Address(s, k) = 5 + Start(W, k)
    <3> DEFINE l == k - 1
    <3>1. l \in 0 .. n /\ k \in 1 .. n + 1
      BY <1>1
    <3>2. Start(R, k) = Start(W, k)
      BY <2>1, <3>1 DEF Start
    <3>3. Start(R, k) \in Nat
      BY <1>1, <1>7, FlatStart
    <3>4. A!Address(s, k) = 5 + Start(W, k)
      BY <3>1, Addresses DEF HEADER_LEN
    <3> QED
      BY <3>2, <3>3, <3>4
  <2> QED
    BY <2>2
<1>9. words[1] = Magic
  <2>1. Laid(s)[1] = Magic
    BY LaidAt DEF Header
  <2>2. \A q \in 1 .. m_ : notes[q].pc + 1 # 1
    <3>1. ASSUME NEW q \in 1 .. m_
          PROVE  notes[q].pc \in Nat /\ 5 <= notes[q].pc
      BY <1>4
    <3> QED
      BY <3>1
  <2>3. 1 \in 1 .. Len(words)
    BY <1>2, <1>3
  <2> QED
    BY <1>5, <2>1, <2>2, <2>3
<1> HIDE DEF n, b, t, R, W, X, m_
<1>10. ASSUME NEW i \in 1 .. Len(b)
       PROVE  words[5 + i] = X[i]
  <2>1. i \in 1 .. Len(Flat(R, n)) /\ i \in 1 .. Len(X)
    BY <1>2, <1>3 DEF X
  <2>2. PICK m \in 1 .. n : \E k \in 1 .. Len(R[m]) : i = Start(R, m) + k
    BY <1>1, <1>7, <2>1, FlatPlace
  <2>3. PICK k \in 1 .. Len(R[m]) : i = Start(R, m) + k
    BY <2>2
  <2>4. X[i] = R[m][k]
    <3>1. n \in Nat /\ Pieces(R, n)
      BY <1>1, <1>7
    <3>2. \A j \in 1 .. Len(R[m]) : Flat(R, n)[Start(R, m) + j] = R[m][j]
      BY <3>1, FlatStart
    <3> QED
      BY <2>3, <3>2 DEF X
  <2>5. k \in 1 .. Len(W[m]) /\ i = Start(W, m) + k /\ Start(W, m) \in Nat
    BY <1>7, <1>8, <2>3
  <2>6. b[i] = W[m][k]
    <3>1. \A x \in 1 .. Len(W[m]) : Flat(W, n)[Start(W, m) + x] = W[m][x]
      BY <1>1, <1>7, FlatStart
    <3>2. Flat(W, n)[Start(W, m) + k] = W[m][k]
      BY <2>5, <3>1
    <3> QED
      BY <1>3, <2>5, <3>2
  <2>7. Laid(s)[5 + i] = b[i] /\ 5 + i \in 1 .. Len(words)
    <3>1. Laid(s)[5 + i] = b[i]
      BY LaidAt DEF b, n
    <3> QED
      BY <1>2, <1>3, <3>1
  <2>8. CASE Uses(s, m)
    <3>1. k = 1 /\ W[m][k] = Encoded(s[m])
          /\ R[m][k] = Addressed(Encoded(s[m]), A!Address(s, m), A!Target(s, s[m].ref))
      <4>1. Len(W[m]) = 1
        BY <1>7, <2>8, OneIsSeq
      <4>2. k = 1
        BY <2>5, <4>1
      <4> QED
        BY <1>7, <2>8, <4>2, OneIsSeq
    <3>2. PICK q \in 1 .. m_ : notes[q] = Note(s, m)
      BY <1>1, <2>8 DEF Noted, n
    <3>3. notes[q].name = s[m].ref /\ notes[q].pc = A!Address(s, m)
      BY <3>2 DEF Note
    <3>4. A!Address(s, m) + 1 = 5 + i
      BY <1>8, <2>5, <3>1
    <3> QED
      BY <1>6, <2>4, <2>6, <2>7, <3>1, <3>3, <3>4
  <2>9. CASE ~Uses(s, m)
    <3>1. ASSUME NEW q \in 1 .. m_, notes[q].pc + 1 = 5 + i
          PROVE  FALSE
      <4>1. PICK j \in 1 .. n : Uses(s, j) /\ notes[q].pc = A!Address(s, j)
        BY <1>4
      <4>2. Start(W, j) + 1 = Start(W, m) + k
        <5>1. A!Address(s, j) = 5 + Start(W, j) /\ Start(W, j) \in Nat
          BY <1>8
        <5>2. (5 + Start(W, j)) + 1 = 5 + i
          BY <3>1, <4>1, <5>1
        <5>3. Start(W, j) + 1 = i
          BY <5>1, <5>2
        <5> QED
          BY <2>5, <5>3
      <4>3. 1 \in 1 .. Len(W[j])
        <5>1. W[j] = <<Encoded(s[j])>>
          BY <1>7, <4>1
        <5>2. Len(W[j]) = 1
          BY <5>1
        <5> QED
          BY <5>2
      <4>4. j = m
        BY <1>1, <1>7, <2>5, <4>2, <4>3, FlatUnique
      <4> QED
        BY <2>9, <4>1, <4>4
    <3>2. words[5 + i] = Laid(s)[5 + i]
      BY <1>5, <2>7, <3>1
    <3> QED
      BY <1>7, <2>4, <2>6, <2>7, <2>9, <3>2
  <2> QED
    BY <2>8, <2>9
<1>11. ASSUME NEW i \in 1 .. Len(t)
       PROVE  words[5 + (Len(X) + i)] = t[i]
  <2> DEFINE j == 5 + Len(b) + i
  <2>1. Laid(s)[j] = t[i]
    BY LaidAt DEF b, n, t
  <2>2. j \in 1 .. Len(words) /\ 5 + (Len(X) + i) = j /\ \A pc \in Nat : pc < 5 + Len(b) => pc + 1 # j
    BY <1>2, <1>3
  <2>3. \A q \in 1 .. m_ : notes[q].pc + 1 # j
    BY <1>4, <2>2
  <2> HIDE DEF j
  <2> QED
    BY <1>5, <2>1, <2>2, <2>3
<1>12. /\ IsSeq(X \o t) /\ Len(X \o t) = Len(X) + Len(t)
       /\ \A k \in 1 .. Len(X) : (X \o t)[k] = X[k]
       /\ \A k \in 1 .. Len(t) : (X \o t)[Len(X) + k] = t[k]
  BY <1>2, ConcatIsSeq
<1>13. ASSUME NEW i \in 1 .. Len(X \o t)
       PROVE  words[5 + i] = (X \o t)[i]
  <2>1. CASE i \in 1 .. Len(X)
    BY <1>2, <1>10, <1>12, <2>1
  <2>2. CASE i \notin 1 .. Len(X)
    <3> DEFINE k == i - Len(X)
    <3>1. k \in 1 .. Len(t) /\ i = Len(X) + k
      BY <1>2, <1>3, <1>12, <2>2
    <3> HIDE DEF k
    <3> QED
      BY <1>11, <1>12, <3>1
  <2> QED
    BY <2>1, <2>2
<1> QED
  BY <1>2, <1>9, <1>13

LEMMA Finishes ==
  ASSUME AssemblerInv, Ready, Finish
  PROVE  A!Outcome(sbuff) = A!Done(list')
<1> DEFINE s == sbuff
           n == Len(s)
           notes == labelsPatches
           H == <<Magic, Word(Len(list)), Word(EntryPoint), [extensions |-> extensions], Word(dataOffset)>>
<1>1. /\ IsSource(s) /\ n \in Nat /\ DOMAIN s = 1 .. n /\ IsSeq(labelsRegistry)
      /\ IsSeq(list) /\ Len(list) \in Nat /\ DOMAIN list = 1 .. Len(list) /\ Len(list) <= MemoryWords
      /\ IsSeq(notes) /\ Len(notes) \in Nat /\ DOMAIN notes = 1 .. Len(notes)
  BY SourceFacts, SeqFacts DEF AssemblerInv, SourceInv, ListInv, LabelsInv, PatchesInv
<1>2. /\ phase = "patch" /\ patched = Len(notes) /\ 5 <= Len(list)
      /\ list' = [list EXCEPT ![2] = Word(Len(list)), ![3] = Word(EntryPoint),
                              ![4] = [extensions |-> extensions], ![5] = Word(dataOffset)]
  BY DEF Finish, AssemblerInv, ListInv, HEADER_LEN
<1>3. head = n + 1 /\ Borne(s, labelsRegistry)
  BY <1>2 DEF Ready, Cursor
<1>4. A!Accepted(s)
  <2>1. SUFFICES ASSUME Doomed(s, head, notes, patched)
                 PROVE  FALSE
    BY DEF Ready
  <2>2. (\A k \in head .. n : FALSE) /\ \A q \in patched + 1 .. Len(notes) : FALSE
    BY <1>1, <1>2, <1>3
  <2> QED
    BY <2>1, <2>2 DEF Doomed
<1>5. /\ Known(s, n + 1, labelsRegistry) /\ Noted(s, n + 1, notes)
      /\ extensions = Needed(s, n + 1) /\ dataOffset = Offset(s, n + 1)
      /\ Patched_(s, list, notes, Len(notes))
  BY <1>2, <1>3, <1>4 DEF Ready, LaidOut
<1>6. /\ list[1] = Magic
      /\ \A i \in 1 .. Len(A!Body(s)) : list[5 + i] = A!Body(s)[i]
  BY <1>1, <1>5, AllPatched
<1>7. /\ IsSeq(A!Body(s)) /\ Len(A!Body(s)) \in Nat
      /\ Len(list) = 5 + Len(A!Body(s)) /\ Len(A!Binary(s)) = Len(list) /\ IsSeq(A!Binary(s))
  <2>1. IsSeq(A!Body(s)) /\ Len(A!Body(s)) \in Nat
    <3>1. A!Body(s) = Flat(ResolvedAll(s), n) \o Tail_(s) /\ IsSeq(Flat(ResolvedAll(s), n)) /\ IsSeq(Tail_(s))
      BY <1>1, BodyIs
    <3>2. IsSeq(A!Body(s))
      BY <3>1, ConcatIsSeq
    <3> QED
      BY <3>2, SeqFacts
  <2>2. /\ Len(A!Body(s)) = Len(Laid(s)) - HEADER_LEN /\ Len(Laid(s)) \in Nat
        /\ Len(A!Binary(s)) = Len(Laid(s)) /\ IsSeq(A!Binary(s))
    BY <1>1, BinaryLength
  <2>3. Len(list) = Len(Laid(s))
    BY <1>5 DEF Patched_
  <2> QED
    BY <2>1, <2>2, <2>3 DEF HEADER_LEN
(* The header.                                                             *)
<1>8. Word(Len(list)) = [word |-> HEADER_LEN + Len(A!Body(s))]
  BY <1>7 DEF Word, HEADER_LEN
<1>9. Word(EntryPoint) = [word |-> IF A!Labels(s, "main") = {} THEN HEADER_LEN ELSE A!Target(s, "main")]
  <2>1. /\ labelListFind("main") = {} <=> A!Labels(s, "main") = {}
        /\ A!Labels(s, "main") # {} => AddressOf("main") = A!Target(s, "main")
    BY <1>1, <1>3, <1>5, FoundAt
  <2> QED
    BY <2>1 DEF Word, EntryPoint
<1>10. extensions = UNION {Needs(s[k]) : k \in {j \in DOMAIN s : A!InCode(s, j) /\ s[j].t = "instr"}}
  <2>1. 1 .. (n + 1) - 1 = DOMAIN s
    BY <1>1
  <2> QED
    BY <1>5, <2>1 DEF Needed
<1>11. Word(dataOffset) = [word |-> IF A!HasData(s) THEN A!Address(s, A!Data(s)) ELSE 0]
  <2>1. A!HasData(s) <=> A!Data(s) < n + 1
    <3>1. (A!HasData(s) <=> A!Data(s) <= n) /\ A!Data(s) \in 1 .. n + 1
      BY <1>1, SourceFacts
    <3> QED
      BY <1>1, <3>1
  <2> QED
    BY <1>5, <2>1 DEF Word, Offset
<1>12. A!Binary(s) = H \o A!Body(s)
  <2> DEFINE h1 == [magic |-> "CORT"]
             h2 == [word |-> HEADER_LEN + Len(A!Body(s))]
             h3 == [word |-> IF A!Labels(s, "main") = {} THEN HEADER_LEN ELSE A!Target(s, "main")]
             x4 == UNION {Needs(s[k]) : k \in {j \in DOMAIN s : A!InCode(s, j) /\ s[j].t = "instr"}}
             h5 == [word |-> IF A!HasData(s) THEN A!Address(s, A!Data(s)) ELSE 0]
  <2>1. A!Binary(s) = <<h1, h2, h3, [extensions |-> x4], h5>> \o A!Body(s)
    BY DEF A!Binary
  <2>2. h1 = Magic /\ h2 = Word(Len(list)) /\ h3 = Word(EntryPoint) /\ x4 = extensions /\ h5 = Word(dataOffset)
    BY <1>8, <1>9, <1>10, <1>11 DEF Magic
  <2> HIDE DEF h1, h2, h3, x4, h5
  <2> QED
    BY <2>1, <2>2
<1>13. IsSeq(H) /\ Len(H) = 5 /\ H[1] = Magic /\ H[2] = Word(Len(list)) /\ H[3] = Word(EntryPoint)
       /\ H[4] = [extensions |-> extensions] /\ H[5] = Word(dataOffset)
  <2>1. \A w1, w2, w3, w4, w5 :
          /\ IsSeq(<<w1, w2, w3, w4, w5>>) /\ Len(<<w1, w2, w3, w4, w5>>) = 5
          /\ <<w1, w2, w3, w4, w5>>[1] = w1 /\ <<w1, w2, w3, w4, w5>>[2] = w2
          /\ <<w1, w2, w3, w4, w5>>[3] = w3 /\ <<w1, w2, w3, w4, w5>>[4] = w4
          /\ <<w1, w2, w3, w4, w5>>[5] = w5
    <3>1. ASSUME NEW w1, NEW w2, NEW w3, NEW w4, NEW w5
          PROVE  /\ IsSeq(<<w1, w2, w3, w4, w5>>) /\ Len(<<w1, w2, w3, w4, w5>>) = 5
                 /\ <<w1, w2, w3, w4, w5>>[1] = w1 /\ <<w1, w2, w3, w4, w5>>[2] = w2
                 /\ <<w1, w2, w3, w4, w5>>[3] = w3 /\ <<w1, w2, w3, w4, w5>>[4] = w4
                 /\ <<w1, w2, w3, w4, w5>>[5] = w5
      <4>1. <<w1, w2, w3, w4, w5>> \in Seq({w1, w2, w3, w4, w5}) /\ Len(<<w1, w2, w3, w4, w5>>) = 5
        OBVIOUS
      <4>2. IsSeq(<<w1, w2, w3, w4, w5>>)
        BY <4>1, SeqOfSeq
      <4> QED
        BY <4>1, <4>2
    <3> QED
      BY <3>1, Zenon
  <2> QED
    BY <2>1
<1> DEFINE body == A!Body(s)
<1>14. /\ \A k \in 1 .. Len(H) : (H \o body)[k] = H[k]
       /\ \A k \in 1 .. Len(body) : (H \o body)[Len(H) + k] = body[k]
  BY <1>7, <1>13, ConcatIsSeq
<1> HIDE DEF H, body
<1>15. /\ \A k \in 1 .. 5 : (H \o body)[k] = H[k]
       /\ \A k \in 1 .. Len(body) : (H \o body)[5 + k] = body[k]
  BY <1>13, <1>14
<1>16. /\ DOMAIN list' = 1 .. Len(list) /\ list' = [k \in 1 .. Len(list) |-> list'[k]]
       /\ list'[1] = Magic /\ list'[2] = Word(Len(list)) /\ list'[3] = Word(EntryPoint)
       /\ list'[4] = [extensions |-> extensions] /\ list'[5] = Word(dataOffset)
       /\ \A k \in 6 .. Len(list) : list'[k] = list[k]
  <2> DEFINE e == [extensions |-> extensions]
             w2 == Word(Len(list))
             w3 == Word(EntryPoint)
             w5 == Word(dataOffset)
  <2>1. list' = [list EXCEPT ![2] = w2, ![3] = w3, ![4] = e, ![5] = w5]
    BY <1>2
  <2> HIDE DEF e, w2, w3, w5
  <2>2. /\ DOMAIN list' = 1 .. Len(list) /\ list' = [k \in 1 .. Len(list) |-> list'[k]]
        /\ list'[1] = list[1] /\ list'[2] = w2 /\ list'[3] = w3 /\ list'[4] = e /\ list'[5] = w5
        /\ \A k \in 6 .. Len(list) : list'[k] = list[k]
    <3> DEFINE l2 == [list EXCEPT ![2] = w2]
               l3 == [l2 EXCEPT ![3] = w3]
               l4 == [l3 EXCEPT ![4] = e]
               l5 == [l4 EXCEPT ![5] = w5]
    <3>1. {1, 2, 3, 4, 5} \subseteq 1 .. Len(list) /\ \A k \in 6 .. Len(list) : k \in 1 .. Len(list) /\ k \notin {2, 3, 4, 5}
      BY <1>1, <1>2
    <3>2. l2 = [k \in 1 .. Len(list) |-> IF k = 2 THEN w2 ELSE list[k]]
      BY <1>1
    <3>3. l3 = [k \in 1 .. Len(list) |-> IF k = 3 THEN w3 ELSE l2[k]]
      BY <3>2
    <3>4. l4 = [k \in 1 .. Len(list) |-> IF k = 4 THEN e ELSE l3[k]]
      BY <3>3
    <3>5. l5 = [k \in 1 .. Len(list) |-> IF k = 5 THEN w5 ELSE l4[k]]
      BY <3>4
    <3>6. list' = l5
      BY <2>1
    <3> HIDE DEF l2, l3, l4, l5
    <3>7. \A k \in 1 .. Len(list) :
            list'[k] = IF k = 5 THEN w5 ELSE IF k = 4 THEN e ELSE IF k = 3 THEN w3 ELSE IF k = 2 THEN w2 ELSE list[k]
      BY <3>2, <3>3, <3>4, <3>5, <3>6
    <3>8. DOMAIN list' = 1 .. Len(list) /\ list' = [k \in 1 .. Len(list) |-> list'[k]]
      BY <3>5, <3>6
    <3>9. /\ list'[1] = list[1] /\ list'[2] = w2 /\ list'[3] = w3 /\ list'[4] = e /\ list'[5] = w5
      BY <3>1, <3>7
    <3>10. \A k \in 6 .. Len(list) : list'[k] = list[k]
      BY <3>1, <3>7
    <3> QED
      BY <3>8, <3>9, <3>10
  <2> QED
    BY <1>6, <2>2 DEF e, w2, w3, w5
<1>17. \A k \in 1 .. Len(list) : list'[k] = (H \o body)[k]
  <2>1. ASSUME NEW k \in 1 .. Len(list)
        PROVE  list'[k] = (H \o body)[k]
    <3>1. CASE k \in 1 .. 5
      <4>1. k = 1 \/ k = 2 \/ k = 3 \/ k = 4 \/ k = 5
        BY <3>1
      <4>2. list'[k] = H[k]
        BY <1>13, <1>16, <4>1
      <4> QED
        BY <1>15, <3>1, <4>2
    <3>2. CASE k \notin 1 .. 5
      <4> DEFINE i == k - 5
      <4>1. i \in 1 .. Len(body) /\ k = 5 + i /\ k \in 6 .. Len(list)
        BY <1>7, <3>2 DEF body
      <4> HIDE DEF i
      <4>2. list[5 + i] = body[i]
        BY <1>6, <4>1 DEF body
      <4>3. (H \o body)[5 + i] = body[i]
        BY <1>15, <4>1
      <4> QED
        BY <1>16, <4>1, <4>2, <4>3
    <3> QED
      BY <3>1, <3>2
  <2> QED
    BY <2>1
<1>18. list' = A!Binary(s)
  <2> DEFINE b == A!Binary(s)
  <2>1. b = [k \in 1 .. Len(list) |-> b[k]]
    BY <1>7, SeqFacts
  <2>2. \A k \in 1 .. Len(list) : list'[k] = b[k]
    BY <1>12, <1>17 DEF H, body
  <2> HIDE DEF b
  <2>3. list' = b
    BY <1>16, <2>1, <2>2
  <2> QED
    BY <2>3 DEF b
<1>19. A!Fits(s)
  BY <1>1, <1>7 DEF A!Fits
<1> QED
  BY <1>4, <1>18, <1>19 DEF A!Outcome
-----------------------------------------------------------------------------
(* The invariant holds, and every step of the toolchain is a step of the   *)
(* assembly promised or leaves it as it was.                               *)

LEMMA AssemblyStarts ==
  ASSUME NEW source, IsSource(source), assemble(source)
  PROVE  Ready' /\ phase' = "code"
<1>1. /\ sbuff' = source /\ head' = 1 /\ list' = Header /\ labelsRegistry' = <<>>
      /\ labelsPatches' = <<>> /\ extensions' = {} /\ dataOffset' = 0 /\ patched' = 0
      /\ phase' = "code"
  BY DEF assemble, Header
<1>2. /\ Len(source) \in Nat /\ DOMAIN source = 1 .. Len(source) /\ A!Data(source) \in 1 .. Len(source) + 1
      /\ 1 \in 1 .. Len(source) + 1
  BY SourceFacts
<1>3. /\ Len(<<>>) = 0 /\ DOMAIN <<>> = {}
      /\ \A k \in 1 .. 1 - 1 : FALSE
  BY EmptyIsSeq
<1>4. Borne(source, <<>>)
  BY <1>3 DEF Borne
<1>5. Cursor(source, 1, "code")
  BY <1>2 DEF Cursor
<1>6. ASSUME A!Accepted(source)
      PROVE  LaidOut'
  <2>1. Before(source, 1) = <<>>
    <3>1. Flat(Worded(source), 0) = <<>>
      BY <1>2, WordsAreSeqs, FlatSteps
    <3>2. 1 - 1 = 0
      OBVIOUS
    <3> QED
      BY <3>1, <3>2 DEF Before
  <2>2. Header \o <<>> = Header
    BY HeaderIsSeq DEF IsSeq
  <2>3. Known(source, 1, <<>>)
    BY <1>3 DEF Known
  <2>4. Noted(source, 1, <<>>)
    BY <1>3 DEF Noted
  <2>5. Needed(source, 1) = {}
    BY <1>3 DEF Needed
  <2>6. Offset(source, 1) = 0
    BY <1>2 DEF Offset
  <2> QED
    BY <1>1, <2>1, <2>2, <2>3, <2>4, <2>5, <2>6 DEF LaidOut
<1>7. ASSUME ~A!Accepted(source)
      PROVE  Doomed(source, 1, <<>>, 0)
  <2>1. \E k \in 1 .. Len(source) : ~GoodItem(source, k)
    BY <1>7, AcceptedIs
  <2> QED
    BY <2>1 DEF Doomed
<1>8. Ready'
  BY <1>1, <1>4, <1>5, <1>6, <1>7 DEF Ready
<1> QED
  BY <1>1, <1>8

(* A step of the assembler keeps what it promises, or ends with it.        *)
LEMMA AssemblerDelivers ==
  ASSUME AssemblerInv, Ready, Assembles
  PROVE  /\ sbuff' = sbuff
         /\ \/ Ready' /\ phase' \in {"code", "data", "patch"}
            \/ phase' = "fatal" /\ A!Outcome(sbuff) = A!Refused
            \/ phase' = "done" /\ A!Outcome(sbuff) = A!Done(list')
<1>1. CASE CodeSkips \/ CodeLabel \/ CodeInstr
  <2>1. sbuff' = sbuff
    BY <1>1 DEF CodeSkips, CodeLabel, CodeInstr, Skip
  <2> QED
    BY <1>1, <2>1, CodeTurns
<1>2. CASE CodeData
  <2>1. sbuff' = sbuff
    BY <1>2 DEF CodeData
  <2> QED
    BY <1>2, <2>1, DataBegins
<1>3. CASE CodeRefused
  <2>1. sbuff' = sbuff /\ phase' = "fatal"
    BY <1>3 DEF CodeRefused, Fatal
  <2> QED
    BY <1>3, <2>1, CodeRefuses
<1>4. CASE CodeEnds \/ DataEnds
  <2>1. sbuff' = sbuff
    BY <1>4 DEF CodeEnds, DataEnds
  <2> QED
    BY <1>4, <2>1, SourceEnds
<1>5. CASE DataSkips \/ DataLabel
  <2>1. sbuff' = sbuff
    BY <1>5 DEF DataSkips, DataLabel, Skip
  <2> QED
    BY <1>5, <2>1, DataPasses
<1>6. CASE DataValue
  <2>1. sbuff' = sbuff
    BY <1>6 DEF DataValue, getData
  <2> QED
    BY <1>6, <2>1, DataGrows
<1>7. CASE DataJunk \/ DataName
  <2>1. sbuff' = sbuff
    BY <1>7 DEF DataJunk, DataName, getData
  <2> QED
    BY <1>7, <2>1, DataStuck
<1>8. CASE DataRefused
  <2>1. sbuff' = sbuff /\ phase' = "fatal"
    BY <1>8 DEF DataRefused, Fatal
  <2> QED
    BY <1>8, <2>1, DataRefuses
<1>9. CASE PatchApplied
  <2>1. sbuff' = sbuff
    BY <1>9 DEF PatchApplied
  <2> QED
    BY <1>9, <2>1, PatchesApply
<1>10. CASE PatchRefused
  <2>1. sbuff' = sbuff /\ phase' = "fatal"
    BY <1>10 DEF PatchRefused, Fatal
  <2> QED
    BY <1>10, <2>1, PatchesRefuse
<1>11. CASE Finish
  <2>1. sbuff' = sbuff /\ phase' = "done"
    BY <1>11 DEF Finish
  <2> QED
    BY <1>11, <2>1, Finishes
<1> QED
  BY <1>1, <1>2, <1>3, <1>4, <1>5, <1>6, <1>7, <1>8, <1>9, <1>10, <1>11
     DEF Assembles, Code, Data, Patches

LEMMA SameReady ==
  ASSUME UNCHANGED assembly, AssemblyInv, at' # "assemble", ~Busy
  PROVE  AssemblyInv'
<1>1. UNCHANGED <<sbuff, list, phase>>
  BY DEF assembly
<1> QED
  BY <1>1 DEF AssemblyInv, Busy

LEMMA NextAssembly ==
  ASSUME IInv, AssemblyInv, Next
  PROVE  AssemblyInv'
<1>1. AssemblerInv /\ IsSource(sourceFile)
  BY DEF IInv, FilesInv
<1>2. CASE StartAssemble
  <2>1. assemble(sourceFile) /\ at' = "assemble"
    BY <1>2 DEF StartAssemble
  <2>2. Ready' /\ phase' = "code"
    BY <1>1, <2>1, AssemblyStarts
  <2> QED
    BY <2>1, <2>2 DEF AssemblyInv, Busy
<1>3. CASE AssembleStep
  <2>1. at = "assemble" /\ phase \notin {"done", "fatal"} /\ Assembles /\ at' = at
    BY <1>3 DEF AssembleStep
  <2>2. Ready
    BY <1>1, <2>1 DEF AssemblyInv, Busy, AssemblerInv, Phases
  <2>3. /\ sbuff' = sbuff
        /\ \/ Ready' /\ phase' \in {"code", "data", "patch"}
           \/ phase' = "fatal" /\ A!Outcome(sbuff) = A!Refused
           \/ phase' = "done" /\ A!Outcome(sbuff) = A!Done(list')
    BY <1>1, <2>1, <2>2, AssemblerDelivers
  <2>4. A!Outcome(sbuff)' = A!Outcome(sbuff') /\ A!Done(list)' = A!Done(list') /\ A!Refused' = A!Refused
    BY DEF A!Done, A!Refused
  <2> QED
    BY <2>1, <2>3, <2>4 DEF AssemblyInv, Busy
<1>4. CASE Killed
  <2>1. phase' = "idle" /\ at' = "shell"
    BY <1>4 DEF Killed, Exits
  <2> QED
    BY <2>1 DEF AssemblyInv, Busy
<1>5. CASE StartRead \/ AssembleFails \/ AssembleDone \/ WriteCut \/ ReadFails \/ readFileWords
           \/ ReadBeyond \/ ListBeyond \/ DisassembleFails \/ Disassemble \/ HeaderRefused
           \/ cortexVMExecBinary
  <2>1. UNCHANGED assembly /\ at' # "assemble"
    BY <1>5 DEF StartRead, AssembleFails, AssembleDone, WriteCut, ReadFails, readFileWords,
                ReadBeyond, ListBeyond, DisassembleFails, Disassemble, HeaderRefused, cortexVMExecBinary, Exits
  <2>2. at # "assemble" \/ phase \in {"done", "fatal"}
    BY <1>5 DEF StartRead, AssembleFails, AssembleDone, WriteCut, ReadFails, readFileWords,
                ReadBeyond, ListBeyond, DisassembleFails, Disassemble, HeaderRefused, cortexVMExecBinary, Command
  <2>3. ~Busy
    BY <2>2 DEF AssemblyInv, Busy
  <2> QED
    BY <2>1, <2>3, SameReady
<1> QED
  BY <1>2, <1>3, <1>4, <1>5 DEF Next

LEMMA AssemblyInvariance == Spec => [](IInv /\ AssemblyInv)
<1>1. Init => AssemblyInv
  BY DEF Init, AssemblerInit, AssemblyInv, Busy
<1>2. IInv /\ AssemblyInv /\ [Next]_vars => AssemblyInv'
  <2>1. SUFFICES ASSUME IInv, AssemblyInv, [Next]_vars
                 PROVE  AssemblyInv'
    OBVIOUS
  <2>2. CASE Next
    BY <2>1, <2>2, NextAssembly
  <2>3. CASE UNCHANGED vars
    <3>1. UNCHANGED <<assembly, at>>
      BY <2>3 DEF vars
    <3>2. AssemblyInv => AssemblyInv'
      BY <3>1 DEF assembly, AssemblyInv, Busy, Ready, LaidOut
    <3> QED
      BY <2>1, <3>2
  <2> QED
    BY <2>1, <2>2, <2>3
<1> QED
  BY <1>1, <1>2, Invariance, PTL DEF Spec

(* What of the assembler's state the promise speaks of.                    *)
Result ==
  CASE phase = "idle" -> [is |-> "idle"]
    [] phase \in {"code", "data", "patch"} -> [is |-> "busy"]
    [] phase = "fatal" -> [is |-> "refused"]
    [] phase = "done" -> [is |-> "done", words |-> list]

LEMMA Results ==
  /\ phase = "idle" => Result = A!Idle
  /\ phase \in {"code", "data", "patch"} => Result = A!Busy
  /\ phase = "fatal" => Result = A!Refused
  /\ phase = "done" => Result = A!Done(list)
  /\ phase \in Phases => (Result = A!Busy => Busy)
BY DEF Result, A!Idle, A!Busy, A!Refused, A!Done, Busy, Phases

LEMMA ResultsNext ==
  /\ phase' = "idle" => Result' = A!Idle
  /\ phase' \in {"code", "data", "patch"} => Result' = A!Busy
  /\ phase' = "fatal" => Result' = A!Refused
  /\ phase' = "done" => Result' = A!Done(list')
BY DEF Result, A!Idle, A!Busy, A!Refused, A!Done

LEMMA StepRefines ==
  ASSUME IInv, AssemblyInv, [Next]_vars
  PROVE  [A!Next]_(A!vars)
<1>1. AssemblerInv /\ phase \in Phases
  BY DEF IInv, AssemblerInv
<1>2. A!vars = <<sbuff, Result>>
  BY DEF A!vars, Result
<1>3. /\ A!Begin <=> Result # A!Busy /\ Result' = A!Busy
      /\ A!End <=> Result = A!Busy /\ Result' = A!Outcome(sbuff) /\ sbuff' = sbuff
      /\ A!Dies <=> Result = A!Busy /\ Result' = A!Idle
  BY DEF A!Begin, A!End, A!Dies, Result
<1>4. UNCHANGED assembly => UNCHANGED A!vars
  BY DEF assembly, A!vars
<1>5. CASE StartAssemble
  <2>1. phase' = "code" /\ at = "shell"
    BY <1>5 DEF StartAssemble, assemble, Command
  <2>2. ~Busy
    BY <2>1 DEF AssemblyInv
  <2>3. A!Begin
    BY <1>1, <1>3, <2>1, <2>2, Results, ResultsNext
  <2> QED
    BY <2>3 DEF A!Next
<1>6. CASE AssembleStep
  <2>1. at = "assemble" /\ phase \notin {"done", "fatal"} /\ Assembles
    BY <1>6 DEF AssembleStep
  <2>2. phase \in {"code", "data", "patch"} /\ Ready
    BY <1>1, <2>1 DEF AssemblyInv, Busy, Phases
  <2>3. Result = A!Busy
    BY <2>2, Results
  <2>4. /\ sbuff' = sbuff
        /\ \/ phase' \in {"code", "data", "patch"}
           \/ phase' = "fatal" /\ A!Outcome(sbuff) = A!Refused
           \/ phase' = "done" /\ A!Outcome(sbuff) = A!Done(list')
    BY <1>1, <2>1, <2>2, AssemblerDelivers
  <2>5. CASE phase' \in {"code", "data", "patch"}
    <3>1. Result' = Result
      BY <2>3, <2>5, ResultsNext
    <3>2. UNCHANGED A!vars
      BY <1>2, <2>4, <3>1 DEF A!vars, Result
    <3> QED
      BY <3>2
  <2>6. CASE phase' \in {"fatal", "done"}
    <3>1. Result' = A!Outcome(sbuff)
      BY <2>4, <2>6, ResultsNext
    <3>2. A!End
      BY <1>3, <2>3, <2>4, <3>1
    <3> QED
      BY <3>2 DEF A!Next
  <2> QED
    BY <2>4, <2>5, <2>6
<1>7. CASE Killed
  <2>1. at = "assemble" /\ phase \notin {"done", "fatal"} /\ phase' = "idle"
    BY <1>7 DEF Killed
  <2>2. phase \in {"code", "data", "patch"}
    BY <1>1, <2>1 DEF AssemblyInv, Phases
  <2>3. A!Dies
    BY <1>3, <2>1, <2>2, Results, ResultsNext
  <2> QED
    BY <2>3 DEF A!Next
<1>8. CASE StartRead \/ AssembleFails \/ AssembleDone \/ WriteCut \/ ReadFails \/ readFileWords
           \/ ReadBeyond \/ ListBeyond \/ DisassembleFails \/ Disassemble \/ HeaderRefused
           \/ cortexVMExecBinary
  <2>1. UNCHANGED assembly
    BY <1>8 DEF StartRead, AssembleFails, AssembleDone, WriteCut, ReadFails, readFileWords,
                ReadBeyond, ListBeyond, DisassembleFails, Disassemble, HeaderRefused, cortexVMExecBinary
  <2> QED
    BY <1>4, <2>1
<1>9. CASE UNCHANGED vars
  BY <1>4, <1>9 DEF vars
<1> QED
  BY <1>5, <1>6, <1>7, <1>8, <1>9 DEF Next

LEMMA InitRefines ==
  ASSUME Init
  PROVE  A!Init
<1>1. phase = "idle" /\ sbuff = <<>>
  BY DEF Init, AssemblerInit
<1>2. Result = A!Idle
  BY <1>1, Results
<1> QED
  BY <1>1, <1>2 DEF A!Init, Result

(* assemble() (src/assembler.c:690) takes one pass over the source and     *)
(* patches what it could not know: whatever the source, the commands given *)
(* and the processes killed, what comes of it is the binary laid out from  *)
(* the whole source at once, or a refusal, and a refusal exactly when an   *)
(* item is not accepted, a name labels nothing or memory runs out.         *)
THEOREM AssemblyRefinement == Spec => ImplementsAssembly
<1>1. Init => A!Init
  BY InitRefines
<1>2. IInv /\ AssemblyInv /\ [Next]_vars => [A!Next]_(A!vars)
  BY StepRefines
<1> QED
  BY <1>1, <1>2, AssemblyInvariance, PTL DEF Spec, A!Spec, ImplementsAssembly
=============================================================================
