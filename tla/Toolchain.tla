------------------------------ MODULE Toolchain ------------------------------
(***************************************************************************)
(* The command line (src/main.c) and the files it leaves behind: a source  *)
(* is assembled to a binary, a binary is run or disassembled to a source,  *)
(* one command after the other.  A command may be killed; a binary being   *)
(* written is then cut off anywhere (src/utils.c writes it through stdio). *)
(***************************************************************************)
EXTENDS Assembler, FiniteSets

CONSTANTS
  Workloads,     \* sequence of: sources the source file may hold at first, and
                 \* how many commands are given (bound)
  Garbled,       \* sources a listing of a part of a binary may turn out as
  Infinite, Printable, Escapes, LineSize, AsciiSize  \* see Disassembler

ASSUME SourcesAssumption ==
  \A s \in Garbled \cup UNION {Workloads[k].sources : k \in DOMAIN Workloads} :
    IsSource(s) /\ \A j \in DOMAIN s : IsItem(s[j])

VARIABLES
  sourceFile,  \* the source on disk
  binaryFile,  \* the binary: how far it got, and its words
  command,     \* the command running: its flags, or NoCommand
  at,          \* where it is
  buff,        \* the words it has in memory
  executed,    \* the words the last command that ran a program was given
  produced,    \* binaries that assemblies finished (history)
  listed,      \* the binary the source on disk was disassembled from (history)
  origin,      \* the same, of the source being assembled (history)
  commands     \* commands left to give

files == <<sourceFile, binaryFile>>
history == <<produced, listed, origin, commands>>
vars == <<assembly, files, command, at, buff, executed, history>>

Flags == SUBSET {"assemble", "disassemble", "run", "no-output"}
Nothing == <<>>

(* A binary: absent; cut inside the line that names the interpreter; cut   *)
(* inside a word; or whole words, as many as there are.                    *)
Absent == [size |-> "absent", words |-> Nothing]
InShabang == [size |-> "shabang", words |-> Nothing]
Uneven == [size |-> "uneven", words |-> Nothing]
Even(words) == [size |-> "even", words |-> words]

Dis == INSTANCE Disassembler

Init ==
  /\ AssemblerInit
  /\ \E k \in DOMAIN Workloads :
       sourceFile \in Workloads[k].sources /\ commands = Workloads[k].commands
  /\ binaryFile = Absent
  /\ command = {} /\ at = "shell" /\ buff = Nothing /\ executed = Nothing
  /\ produced = {} /\ listed = Nothing /\ origin = Nothing

(* The process ends; what it had in memory is gone.                        *)
Exits ==
  /\ at' = "shell" /\ command' = {} /\ buff' = Nothing
-----------------------------------------------------------------------------
(* main(): -a assembles, and ends unless -r; -d disassembles, and ends     *)
(* unless -r; then the program is run.                                     *)

Command(flags) ==
  /\ at = "shell" /\ commands > 0
  /\ commands' = commands - 1
  /\ command' = flags
  /\ executed' = Nothing

StartAssemble ==
  /\ \E flags \in Flags : "assemble" \in flags /\ Command(flags)
  /\ assemble(sourceFile)
  /\ origin' = listed
  /\ at' = "assemble"
  /\ UNCHANGED <<files, buff, produced, listed>>

StartRead ==
  /\ \E flags \in Flags :
       /\ "assemble" \notin flags
       /\ flags \subseteq {"run", "no-output"} => flags = {}
       /\ Command(flags)
  /\ at' = "read"
  /\ UNCHANGED <<assembly, files, buff, produced, listed, origin>>

AssembleStep ==
  /\ at = "assemble" /\ phase \notin {"done", "fatal"}
  /\ Assembles
  /\ UNCHANGED <<files, command, at, buff, executed, history>>

AssembleFails ==
  /\ at = "assemble" /\ phase = "fatal"
  /\ Exits
  /\ UNCHANGED <<assembly, files, executed, history>>

(* writeFileWords(), unless -n.  With -r the program is run, unless -d     *)
(* comes between: that reads the source again, as a binary, and refuses it.*)
AssembleDone ==
  /\ at = "assemble" /\ phase = "done"
  /\ binaryFile' = IF "no-output" \in command THEN binaryFile ELSE Even(list)
  /\ produced' = produced \cup {list}
  /\ IF "run" \in command /\ "disassemble" \notin command
     THEN buff' = list /\ at' = "check" /\ UNCHANGED command ELSE Exits
  /\ UNCHANGED <<assembly, sourceFile, executed, listed, origin, commands>>

(* Killed while writing, or the disk is full: some prefix is there.        *)
Cut(words) ==
  {InShabang, Uneven} \cup {Even(SubSeq(words, 1, k)) : k \in 0 .. Len(words) - 1}

WriteCut ==
  /\ at = "assemble" /\ phase = "done" /\ "no-output" \notin command
  /\ binaryFile' \in Cut(list)
  /\ Exits
  /\ UNCHANGED <<assembly, sourceFile, executed, history>>

(* Killed before: nothing of it is on disk yet.                            *)
Killed ==
  /\ at = "assemble" /\ phase \notin {"done", "fatal"}
  /\ sbuff' = <<>> /\ head' = 1 /\ list' = <<>>
  /\ labelsRegistry' = <<>> /\ labelsPatches' = <<>>
  /\ extensions' = {} /\ dataOffset' = 0 /\ patched' = 0 /\ phase' = "idle"
  /\ Exits
  /\ UNCHANGED <<files, executed, produced, listed, origin, commands>>
-----------------------------------------------------------------------------
(* readFileWords(): no such file, and a size that is no multiple of eight, *)
(* are fatal.  So is what a cut interpreter line leaves: its size is not,  *)
(* or its first word is not a version the program knows.                   *)

ReadFails ==
  /\ at = "read" /\ binaryFile.size # "even"
  /\ Exits
  /\ UNCHANGED <<assembly, files, executed, history>>

readFileWords ==
  /\ at = "read" /\ binaryFile.size = "even"
  /\ buff' = binaryFile.words
  /\ at' = IF "disassemble" \in command THEN "disassemble" ELSE "check"
  /\ UNCHANGED <<assembly, files, command, executed, history>>

(* headerParse() reads five words whatever there is, disassemble() as many *)
(* as the header says, and compares that number with itself: of a part it  *)
(* reads on, beyond the buffer.  What is there ends the command, or passes *)
(* for words, and what has been listed then is no binary.                  *)
HasHeader == Len(buff) >= HEADER_LEN
Partial == HasHeader => Dis!FileLength(buff) > Len(buff)

ReadBeyond ==
  /\ at = "disassemble" /\ Partial
  /\ Exits
  /\ UNCHANGED <<assembly, files, executed, history>>

ListBeyond ==
  /\ at = "disassemble" /\ Partial
  /\ IF "no-output" \in command THEN UNCHANGED <<sourceFile, listed>>
     ELSE sourceFile' \in Garbled /\ listed' = Nothing
  /\ IF "run" \in command THEN at' = "check" /\ UNCHANGED <<command, buff>> ELSE Exits
  /\ UNCHANGED <<assembly, binaryFile, executed, produced, origin, commands>>

DisassembleFails ==
  /\ at = "disassemble" /\ ~Partial
  /\ Dis!TooLong(buff)
  /\ Exits
  /\ UNCHANGED <<assembly, files, executed, history>>

Disassemble ==
  /\ at = "disassemble" /\ ~Partial
  /\ ~Dis!TooLong(buff)
  /\ IF "no-output" \in command THEN UNCHANGED <<sourceFile, listed>>
     ELSE sourceFile' = Dis!disassemble(buff) /\ listed' = buff
  /\ IF "run" \in command THEN at' = "check" /\ UNCHANGED <<command, buff>> ELSE Exits
  /\ UNCHANGED <<assembly, binaryFile, executed, produced, origin, commands>>

(* headerValidate() against the number of words read; but main() takes     *)
(* what was assembled or disassembled just now to be as long as it says.   *)
(* A part without a whole header is shorter than it says, too.             *)
(* Mutant: the length is not compared.                                     *)
LengthIgnored == Dis!FileLength(buff)
fileSize == IF command = {} THEN Len(buff) ELSE Dis!FileLength(buff)

headerValidate ==
  IF HasHeader THEN fileSize = Dis!FileLength(buff) /\ Dis!Entry(buff) >= HEADER_LEN
               ELSE command # {}

HeaderRefused ==
  /\ at = "check" /\ ~headerValidate
  /\ Exits
  /\ UNCHANGED <<assembly, files, executed, history>>

(* A part is run with what follows it in memory.                           *)
cortexVMExecBinary ==
  /\ at = "check" /\ headerValidate
  /\ executed' = buff
  /\ Exits
  /\ UNCHANGED <<assembly, files, history>>
-----------------------------------------------------------------------------
Next ==
  \/ StartAssemble \/ StartRead
  \/ AssembleStep \/ AssembleFails \/ AssembleDone \/ WriteCut \/ Killed
  \/ ReadFails \/ readFileWords
  \/ ReadBeyond \/ ListBeyond \/ DisassembleFails \/ Disassemble \/ HeaderRefused \/ cortexVMExecBinary

Spec == Init /\ [][Next]_vars
(* A process that is assembling is scheduled.                              *)
FairSpec == Spec /\ WF_vars(AssembleStep)
-----------------------------------------------------------------------------
(* Every variable has its type.                                            *)
TypeOK ==
  /\ phase \in {"idle", "code", "data", "patch", "done", "fatal"}
  /\ head \in 1 .. Len(sbuff) + 1
  /\ Len(list) <= MemoryWords
  /\ patched \in 0 .. Len(labelsPatches)
  /\ \A k \in DOMAIN labelsRegistry : labelsRegistry[k].pc \in HEADER_LEN .. Len(list)
  /\ extensions \subseteq {"M", "F"}
  /\ dataOffset \in {0} \cup HEADER_LEN .. Len(list)
  /\ binaryFile.size \in {"absent", "shabang", "uneven", "even"}
  /\ command \in Flags
  /\ at \in {"shell", "assemble", "read", "disassemble", "check"}

(* Until it is applied, a patch is for word 0, which is refused, or for an *)
(* instruction whose immediate is still zero, so that or-ing the address   *)
(* into it writes it; no two patches are for the same word.                *)
PatchesSound ==
  \A k \in patched + 1 .. Len(labelsPatches) :
    LET pc == labelsPatches[k].pc IN
      \/ pc = 0
      \/ /\ pc \in HEADER_LEN .. Len(list) - 1
         /\ "imm" \in DOMAIN list[pc + 1] /\ list[pc + 1].imm = 0
         /\ \A j \in k + 1 .. Len(labelsPatches) : labelsPatches[j].pc # pc

(* assemble() yields the binary laid out from the whole source, labels     *)
(* used before or after they stand somewhere, or refuses the source.       *)
Addressed(w, pc, target) ==
  [w EXCEPT !.imm = Wrap(IF w.op \in {"B", "FB"} THEN target - pc ELSE target - HEADER_LEN,
                         Width(w.op))]
Needs(it) == ExtensionsOf(it.mn)
Bits(v) == Wrap(getImm(v), WordBits)
A == INSTANCE Assembly WITH
       source <- sbuff,
       result <- CASE phase = "idle" -> [is |-> "idle"]
                   [] phase \in {"code", "data", "patch"} -> [is |-> "busy"]
                   [] phase = "fatal" -> [is |-> "refused"]
                   [] phase = "done" -> [is |-> "done", words |-> list],
       Patched <- Addressed
ImplementsAssembly == A!Spec

(* Whatever commands were killed while writing, a command that runs a file *)
(* or what it has just assembled runs a binary that some assembly finished *)
(* and never a part of one.  Of -d -r, whose run trusts the header of what *)
(* it read, this is not so: that is why it is left out.                    *)
RunsWhole ==
  [][executed' \notin {executed, Nothing} /\ "disassemble" \notin command
       => executed' \in produced]_vars

(* "assemble -> disassemble -> re-assemble produces a functionally         *)
(* equivalent binary" (CHANGELOG.md): the same code, entry point and       *)
(* extensions, and the same data, one zero longer; for binaries whose data *)
(* is below 2^63 and has no quotes in strings, whose float immediates are  *)
(* finite and whose entry point is in the code, if there is memory for one *)
(* word more.                                                              *)
Rebuilt(b) ==
  IF Dis!DataOffset(b) = 0 THEN b ELSE Append([b EXCEPT ![2] = Word(Len(b) + 1)], Word(0))

Reassemblable(b) ==
  /\ \A k \in HEADER_LEN + 1 .. Len(b) :
       IF k <= Dis!CodeEnd(b) THEN b[k].op = "FI" => b[k].imm \notin Infinite
                              ELSE b[k].word <= MaxSigned /\ b[k].word # QUOTE
  /\ Dis!Entry(b) < Dis!CodeEnd(b) \/ Dis!Entry(b) = HEADER_LEN
  /\ Len(Rebuilt(b)) <= MemoryWords

Reassembled == origin # Nothing /\ phase \in {"done", "fatal"}

RoundTrip ==
  Reassembled /\ Reassemblable(origin) => phase = "done" /\ list = Rebuilt(origin)

(* The same for every binary, as the documents have it.                    *)
SurvivesRoundTrip ==
  Reassembled => phase = "done" /\ list = Rebuilt(origin)

(* An assembly that is not killed ends.                                    *)
AssemblyEnds == (at = "assemble") ~> (phase \in {"idle", "done", "fatal"})
=============================================================================
