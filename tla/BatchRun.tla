------------------------------ MODULE BatchRun ------------------------------
(***************************************************************************)
(* A worker of src/server.c that handles /assemble, /run or /bytecode: it  *)
(* writes the source to a temporary file, and run_vm_argv() runs the VM on *)
(* it as a child with its three streams on pipes.  The input is written    *)
(* before the fork, the two outputs are read under select() until both     *)
(* end (drain_pipes()), the child is waited for, and the client is         *)
(* answered.  Both sides block on pipes that hold PipeSize chunks.         *)
(***************************************************************************)
EXTENDS Naturals, Sequences

CONSTANTS
  Programs,      \* what a child does, in order: "out", "err" write a chunk, "in" reads one
  StdinLengths,  \* chunks of input a request may carry
  PipeSize,      \* chunks a pipe holds
  Failures       \* which of "pipe", "fork", "alloc" and "disk" may fail

Streams == {"out", "err"}
Routes == {"assemble", "run", "bytecode"}

ASSUME BatchRunAssumption ==
  /\ Programs \subseteq Seq(Streams \cup {"in"})
  /\ StdinLengths \subseteq Nat
  /\ PipeSize \in Nat \ {0}
  /\ Failures \subseteq {"pipe", "fork", "alloc", "disk"}

VARIABLES
  route,   \* what the request asks for
  temps,   \* temporary files on disk
  binary,  \* what there is of the binary the child wrote: none, whole, or part,
           \* without its last blocks (disk full)
  ended,   \* how the child ended: main() returned zero or another value, fatal
           \* (exit() with a message) or signal
  answer,  \* what the client is told: none, ok or error
  sent,    \* the streams whose bytes the answer carries
  at,      \* request; run_vm_argv()'s pipes, prefill, select, read, wait; done,
           \* when it has returned; answered; dead, if the worker ends before;
           \* undefined, when the caller goes on with what was never assigned
  unsent,  \* chunks of input still to be written
  stdin,   \* chunks in the stdin pipe
  todo,    \* what the child has left to do
  child,   \* none, running, exited; failed, if there never was one
  pipe,    \* chunks in each output pipe
  written, \* chunks the child wrote to each
  got,     \* chunks read from each
  open,    \* the streams whose descriptor is still open
  ready,   \* those select() reported and that are not read yet
  cut      \* those closed before their end, for want of memory

request == <<route, temps, binary, ended, answer, sent>>
vars == <<request, at, unsent, stdin, todo, child, pipe, written, got, open, ready, cut>>

Empty == [s \in Streams |-> 0]

Init ==
  /\ at = "request"
  /\ route \in Routes
  /\ temps = {} /\ binary = "none" /\ ended = "none" /\ answer = "none" /\ sent = {}
  /\ unsent \in IF route = "run" THEN StdinLengths ELSE {0}
  /\ todo \in Programs
  /\ stdin = 0
  /\ child = "none"
  /\ pipe = Empty /\ written = Empty /\ got = Empty
  /\ open = Streams /\ ready = {} /\ cut = {}

(* A request without a source is answered at once.                         *)
MissingSource ==
  /\ at = "request"
  /\ answer' = "error" /\ at' = "answered"
  /\ UNCHANGED <<route, temps, binary, ended, sent, unsent, stdin, todo, child, pipe, written, got,
                 open, ready, cut>>

MakeTemps ==
  /\ at = "request"
  /\ temps' = IF route = "bytecode" THEN {"source", "binary"} ELSE {"source"}
  /\ at' = "pipes"
  /\ UNCHANGED <<route, binary, ended, answer, sent, unsent, stdin, todo, child, pipe, written, got,
                 open, ready, cut>>

MakePipes ==
  /\ at = "pipes"
  /\ at' = "prefill"
  /\ UNCHANGED <<request, unsent, stdin, todo, child, pipe, written, got, open, ready, cut>>

(* It returns 0 with *out, *err and *exit_code unassigned; the callers     *)
(* look at them all the same.                                              *)
PipesFail ==
  /\ at = "pipes"
  /\ "pipe" \in Failures
  /\ at' = "undefined"
  /\ UNCHANGED <<request, unsent, stdin, todo, child, pipe, written, got, open, ready, cut>>

(* The reading end is still open in this process: a full pipe blocks.      *)
Prefill ==
  /\ at = "prefill"
  /\ unsent > 0
  /\ stdin < PipeSize
  /\ stdin' = stdin + 1
  /\ unsent' = unsent - 1
  /\ UNCHANGED <<request, at, todo, child, pipe, written, got, open, ready, cut>>

Fork ==
  /\ at = "prefill"
  /\ unsent = 0
  /\ child' = "running"
  /\ at' = "select"
  /\ UNCHANGED <<request, unsent, stdin, todo, pipe, written, got, open, ready, cut>>

(* fork() returns -1 and the parent goes on as if it had a child: nobody   *)
(* has the writing ends any more.                                          *)
ForkFails ==
  /\ at = "prefill"
  /\ unsent = 0
  /\ "fork" \in Failures
  /\ child' = "failed"
  /\ at' = "select"
  /\ UNCHANGED <<request, unsent, stdin, todo, pipe, written, got, open, ready, cut>>
-----------------------------------------------------------------------------
(* drain_pipes().  The server handles no signal, so select() is not        *)
(* interrupted.                                                            *)

Gone == child \in {"exited", "failed"}
Ended(s) == pipe[s] = 0 /\ Gone

(* Mutant: while(fd_out >= 0 && fd_err >= 0).                              *)
BothOpen == open = Streams
Draining == open # {}

(* Mutants: a descriptor that was closed stays in the set; stdout is read  *)
(* to its end before stderr is looked at.                                  *)
StillSet == {s \in Streams : pipe[s] > 0 \/ Ended(s)}
OutFirst == {s \in open : (pipe[s] > 0 \/ Ended(s)) /\ ("out" \in open => s = "out")}
Readable == {s \in open : pipe[s] > 0 \/ Ended(s)}

Select ==
  /\ at = "select"
  /\ Draining
  /\ Readable # {}
  /\ ready' = Readable
  /\ at' = "read"
  /\ UNCHANGED <<request, unsent, stdin, todo, child, pipe, written, got, open, cut>>

(* The streams reported ready are served in turn, stdout first; the loop   *)
(* goes back to select() after the last of them.                           *)
Serve(s) ==
  /\ at = "read"
  /\ s \in ready
  /\ s = "err" => "out" \notin ready
  /\ ready' = ready \ {s}
  /\ at' = IF ready = {s} THEN "select" ELSE "read"
  /\ UNCHANGED <<request, unsent, stdin, todo, child, written>>

Read(s) ==
  /\ Serve(s)
  /\ pipe[s] > 0
  /\ pipe' = [pipe EXCEPT ![s] = @ - 1]
  /\ got' = [got EXCEPT ![s] = @ + 1]
  /\ UNCHANGED <<open, cut>>

ReadEnd(s) ==
  /\ Serve(s)
  /\ Ended(s)
  /\ open' = open \ {s}
  /\ UNCHANGED <<pipe, got, cut>>

(* The buffer cannot grow: the descriptor is closed, the rest is lost.     *)
Cut(s) ==
  /\ "alloc" \in Failures
  /\ Serve(s)
  /\ open' = open \ {s}
  /\ cut' = cut \cup {s}
  /\ UNCHANGED <<pipe, got>>

DrainEnds ==
  /\ at = "select"
  /\ ~Draining
  /\ at' = "wait"
  /\ UNCHANGED <<request, unsent, stdin, todo, child, pipe, written, got, open, ready, cut>>

(* With pid -1 it waits for any child, of which a worker has none: that    *)
(* fails at once, and leaves status 0.                                     *)
Waitpid ==
  /\ at = "wait"
  /\ Gone
  /\ at' = "done"
  /\ UNCHANGED <<request, unsent, stdin, todo, child, pipe, written, got, open, ready, cut>>
-----------------------------------------------------------------------------
(* The handlers, once run_vm_argv() has returned.                          *)

(* The captured bytes of the streams an answer does not carry are freed.   *)
Answers(a, carried, files) ==
  /\ answer' = a /\ sent' = carried /\ temps' = files
  /\ at' = "answered"
  /\ UNCHANGED <<route, binary, ended, unsent, stdin, todo, child, pipe, written, got, open, ready,
                 cut>>

(* *exit_code: what main() returned, 1 for a signal, and 0 without a child.*)
ExitZero == child = "failed" \/ ended = "zero"

(* parse_regs(): -D has the child print its registers on stderr when       *)
(* main() returns; in a stderr that was cut they may be missing.           *)
RegsFound == ended \in {"zero", "other"}
RegsMissed == child = "failed" \/ ~RegsFound \/ "err" \in cut

handle_assemble ==
  /\ at = "done" /\ route = "assemble"
  /\ IF ExitZero THEN Answers("ok", {}, temps \ {"source"})
                 ELSE Answers("error", {"err"}, temps \ {"source"})

(* A guest's exit code is no failure; the assembler's, and a fatal guest's,*)
(* are.                                                                    *)
(* Mutant: any exit code is.                                               *)
FailsOnCode(found) == ~ExitZero
RunFails(found) == ~found /\ ~ExitZero

handle_run ==
  /\ at = "done" /\ route = "run"
  /\ \E found \in BOOLEAN :
       /\ IF found THEN RegsFound ELSE RegsMissed
       /\ IF RunFails(found) THEN Answers("error", {"err"}, temps \ {"source"})
                            ELSE Answers("ok", Streams, temps \ {"source"})

(* assemble_to_file() unlinks the source, handle_bytecode() the binary.    *)
(* Mutant: not when the assembler refused the source.                      *)
LeftOnFailure == IF ExitZero THEN {} ELSE {"binary"}
LeftBehind == {}

(* Any binary that is there has a size readFileWords() accepts, as stdio   *)
(* writes blocks of whole words, and its header is not validated: of one   *)
(* that was cut the words the header counts are read beyond the buffer.    *)
(* Without a word in it the answer is "Failed to read binary".             *)
handle_bytecode ==
  /\ at = "done" /\ route = "bytecode"
  /\ IF ~ExitZero THEN Answers("error", {"err"}, LeftBehind)
     ELSE Answers(IF binary = "none" THEN "error" ELSE "ok", {}, LeftBehind)

(* Or reading beyond the buffer ends the worker.                           *)
BytecodeDies ==
  /\ at = "done" /\ route = "bytecode"
  /\ ExitZero /\ binary = "part"
  /\ temps' = LeftBehind
  /\ at' = "dead"
  /\ UNCHANGED <<route, binary, ended, answer, sent, unsent, stdin, todo, child, pipe, written, got,
                 open, ready, cut>>
-----------------------------------------------------------------------------
(* The child.  SIGPIPE is ignored, as the server left it: a write nobody   *)
(* can read fails and the program goes on.  At the end of its input a read *)
(* returns at once, and so does every write that finds room.               *)

ChildWrites ==
  /\ child = "running"
  /\ todo # <<>>
  /\ LET s == Head(todo)
     IN  /\ s \in Streams
         /\ \/ s \in open /\ pipe[s] < PipeSize /\ pipe' = [pipe EXCEPT ![s] = @ + 1]
            \/ s \notin open /\ UNCHANGED pipe
         /\ written' = [written EXCEPT ![s] = @ + 1]
  /\ todo' = Tail(todo)
  /\ UNCHANGED <<request, at, unsent, stdin, child, got, open, ready, cut>>

ChildReads ==
  /\ child = "running"
  /\ todo # <<>> /\ Head(todo) = "in"
  /\ stdin' = IF stdin > 0 THEN stdin - 1 ELSE 0
  /\ todo' = Tail(todo)
  /\ UNCHANGED <<request, at, unsent, child, pipe, written, got, open, ready, cut>>

(* The assembler writes the binary last, in blocks of stdio of which the   *)
(* flush at fclose() is unchecked; the first block holds the header.       *)
ChildExits ==
  /\ child = "running"
  /\ todo = <<>>
  /\ child' = "exited"
  /\ ended' \in IF route = "run" THEN {"zero", "other", "fatal", "signal"}
                                 ELSE {"zero", "fatal", "signal"}
  /\ binary' \in IF route # "bytecode" \/ ended' # "zero" THEN {"none"}
                 ELSE IF "disk" \in Failures THEN {"whole", "part", "none"} ELSE {"whole"}
  /\ UNCHANGED <<route, temps, answer, sent, at, unsent, stdin, todo, pipe, written, got, open, ready, cut>>
-----------------------------------------------------------------------------
Parent ==
  \/ MissingSource \/ MakeTemps
  \/ MakePipes \/ PipesFail \/ Prefill \/ Fork \/ ForkFails \/ Select
  \/ \E s \in Streams : Read(s) \/ ReadEnd(s) \/ Cut(s)
  \/ DrainEnds \/ Waitpid
  \/ handle_assemble \/ handle_run \/ handle_bytecode \/ BytecodeDies

Child == ChildWrites \/ ChildReads \/ ChildExits

Next == Parent \/ Child

Spec == Init /\ [][Next]_vars /\ WF_vars(Parent) /\ WF_vars(Child)
-----------------------------------------------------------------------------
(* Every variable has its type.                                            *)
TypeOK ==
  /\ route \in Routes /\ temps \subseteq {"source", "binary"}
  /\ binary \in {"none", "whole", "part"}
  /\ ended \in {"none", "zero", "other", "fatal", "signal"} /\ answer \in {"none", "ok", "error"}
  /\ sent \subseteq Streams
  /\ at \in {"request", "pipes", "prefill", "select", "read", "wait", "done", "answered", "dead",
             "undefined"}
  /\ unsent \in Nat
  /\ stdin \in 0 .. PipeSize
  /\ todo \in Seq(Streams \cup {"in"})
  /\ child \in {"none", "running", "exited", "failed"}
  /\ pipe \in [Streams -> 0 .. PipeSize]
  /\ written \in [Streams -> Nat] /\ got \in [Streams -> Nat]
  /\ open \subseteq Streams /\ ready \subseteq open /\ cut \subseteq Streams

(* What an answer carries of a stream is all the child wrote to it, unless *)
(* memory for it ran out: no end of one stream, and no exit of the child   *)
(* between two reads, makes the other be given up early.  A guest that     *)
(* came to its end is answered with both streams; of one that died, or of  *)
(* a source that was refused, only stderr is sent, and what it had printed *)
(* is dropped.                                                             *)
OutputComplete ==
  at = "answered" =>
    /\ \A s \in sent \ cut : got[s] = written[s]
    /\ child = "exited" /\ cut = {} =>
         /\ ended \in {"fatal", "signal"} => sent = {"err"}
         /\ ended \in {"zero", "other"} /\ route = "run" => sent = Streams

(* The client is told that its source was refused, its program died or no  *)
(* binary was written if that is so, and only then: a program's own exit   *)
(* code is not taken for a refusal, which has the same code.  Without a    *)
(* child, or with its output cut, there is no telling.  That a binary      *)
(* written in part is answered as if it were whole is true of the code.    *)
AnswerTrue ==
  answer # "none" /\ child = "exited" /\ cut = {}
    => (answer = "ok" <=> ended \in {"zero", "other"} /\ (route = "bytecode" => binary # "none"))

(* No temporary file is left once the client is answered or the worker is  *)
(* dead, whatever failed.                                                  *)
TempsRemoved == at \in {"answered", "dead"} => temps = {}

(* A run whose pipes were made is always answered, unless reading a binary *)
(* that was written in part ended the worker: the two processes never both *)
(* wait for room or for data, in whatever order the child uses its         *)
(* streams, nor does the one wait for a child that was never there.        *)
Answered == at = "prefill" ~> (at = "answered" \/ (at = "dead" /\ binary = "part"))

(* "write stdin data into a pipe before forking to avoid deadlock"         *)
(* (src/server.c, run_vm_argv()): the write itself does not block for ever *)
(* either.                                                                 *)
PrefillEnds == at = "prefill" ~> at # "prefill"
=============================================================================
