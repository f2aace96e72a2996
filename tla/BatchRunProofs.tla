--------------------------- MODULE BatchRunProofs ---------------------------
(***************************************************************************)
(* Proofs about BatchRun for any child, any input and any pipe size.       *)
(*                                                                         *)
(* Why nothing is lost: what the child wrote to a stream that was not cut  *)
(* is in its pipe or has been read (Conserved); such a stream is closed    *)
(* only when the child is gone and the pipe empty, and so it stays         *)
(* (ClosedAtEnd); and the loop ends when both are closed (ClosedAfter).    *)
(* Which streams the answer carries depends on how the child ended         *)
(* (Carried).                                                              *)
(***************************************************************************)
EXTENDS BatchRun, TLAPS

Conserved == \A s \in Streams \ cut : written[s] = got[s] + pipe[s]

ClosedAtEnd == \A s \in Streams \ (open \cup cut) : pipe[s] = 0 /\ Gone

(* Before the fork nothing has been read, and a request without a source   *)
(* gets no further.                                                        *)
BeforeFork ==
  /\ at \in {"request", "pipes", "prefill"} => child = "none"
  /\ at \in {"select", "read"} => child # "none"
Unasked == child = "none" => written = Empty /\ got = Empty

ClosedAfter ==
  /\ at \in {"wait", "done", "dead"} => open = {}
  /\ at = "answered" => open = {} \/ child = "none"

(* Files are the handler's own, and only a guest has an exit code.         *)
OwnTemps ==
  /\ at = "request" => temps = {}
  /\ route # "bytecode" => temps \subseteq {"source"}
OwnEnd == ended = "other" => route = "run"
Unanswered == at # "answered" => answer = "none" /\ sent = {}

(* What the answer carries of a child that ended and whose output was not  *)
(* cut.                                                                    *)
Carried ==
  at = "answered" /\ child = "exited" /\ cut = {} =>
    /\ ended \in {"fatal", "signal"} => sent = {"err"}
    /\ ended \in {"zero", "other"} /\ route = "run" => sent = Streams

IInv ==
  /\ TypeOK
  /\ Conserved /\ ClosedAtEnd
  /\ BeforeFork /\ Unasked /\ ClosedAfter
  /\ OwnTemps /\ OwnEnd /\ Unanswered
  /\ TempsRemoved /\ AnswerTrue /\ Carried

USE BatchRunAssumption

(* The initial state satisfies the invariant.                              *)
LEMMA InitIInv == Init => IInv
<1> SUFFICES ASSUME Init
             PROVE  IInv
  OBVIOUS
<1>1. TypeOK
  <2>1. Empty \in [Streams -> Nat] /\ Empty \in [Streams -> 0 .. PipeSize]
    BY DEF Empty
  <2>2. unsent \in Nat /\ todo \in Seq(Streams \cup {"in"})
    BY DEF Init
  <2> QED
    BY <2>1, <2>2 DEF Init, TypeOK
<1>2. Conserved /\ ClosedAtEnd /\ BeforeFork /\ Unasked /\ ClosedAfter
  BY DEF Init, Conserved, ClosedAtEnd, BeforeFork, Unasked, ClosedAfter, Empty
<1>3. OwnTemps /\ OwnEnd /\ Unanswered /\ TempsRemoved /\ AnswerTrue /\ Carried
  BY DEF Init, OwnTemps, OwnEnd, Unanswered, TempsRemoved, AnswerTrue, Carried
<1> QED
  BY <1>1, <1>2, <1>3 DEF IInv

(* A step of the parent's that reads and closes nothing.                   *)
LEMMA ParentMoves ==
  ASSUME IInv,
         UNCHANGED <<todo, written, pipe, got, open, cut>>,
         UNCHANGED <<route, temps, binary, ended, answer, sent>>,
         at # "answered", at' # "answered", at' # "request",
         at' \in {"pipes", "prefill", "select", "read", "wait", "done", "undefined"},
         unsent' \in Nat, stdin' \in 0 .. PipeSize,
         ready' \subseteq open,
         \/ child' = child
         \/ child = "none" /\ child' \in {"running", "failed"},
         at' \in {"pipes", "prefill"} => child' = "none",
         at' \in {"select", "read"} => child' # "none",
         at' \in {"wait", "done"} => open = {}
  PROVE  IInv'
<1>1. TypeOK'
  BY DEF IInv, TypeOK
<1>2. Conserved' /\ ClosedAtEnd' /\ BeforeFork' /\ Unasked' /\ ClosedAfter'
  BY DEF IInv, Conserved, ClosedAtEnd, BeforeFork, Unasked, ClosedAfter, Gone
<1>3. OwnTemps' /\ OwnEnd' /\ Unanswered' /\ TempsRemoved' /\ AnswerTrue' /\ Carried'
  BY DEF IInv, OwnTemps, OwnEnd, Unanswered, TempsRemoved, AnswerTrue, Carried
<1> QED
  BY <1>1, <1>2, <1>3 DEF IInv

(* A step that serves a stream keeps what is not about its bytes.          *)
LEMMA ServeKeeps ==
  ASSUME IInv, NEW s \in Streams, Serve(s)
  PROVE  /\ BeforeFork' /\ ClosedAfter' /\ OwnTemps' /\ OwnEnd' /\ Unanswered' /\ TempsRemoved'
         /\ AnswerTrue' /\ Carried'
         /\ child # "none" /\ s \in open
<1>1. at = "read" /\ at' \in {"select", "read"} /\ child' = child /\ UNCHANGED request
  BY DEF Serve
<1>2. child # "none" /\ s \in open
  BY <1>1 DEF Serve, IInv, TypeOK, BeforeFork
<1>3. BeforeFork' /\ ClosedAfter' /\ OwnTemps' /\ OwnEnd' /\ Unanswered' /\ TempsRemoved'
  BY <1>1, <1>2 DEF IInv, BeforeFork, ClosedAfter, OwnTemps, OwnEnd, Unanswered, TempsRemoved, request
<1>4. AnswerTrue' /\ Carried'
  BY <1>1 DEF IInv, Unanswered, AnswerTrue, Carried, request
<1> QED
  BY <1>2, <1>3, <1>4

(* A step of the child's keeps what is the parent's.                       *)
LEMMA ChildIInv == IInv /\ Child => IInv'
<1> SUFFICES ASSUME IInv, Child
             PROVE  IInv'
  OBVIOUS
<1>a. child = "running" /\ at' = at /\ got' = got /\ open' = open /\ ready' = ready /\ cut' = cut
      /\ route' = route /\ temps' = temps /\ answer' = answer /\ unsent' = unsent
      /\ sent' = sent
  BY DEF Child, ChildWrites, ChildReads, ChildExits, request
<1>b. child' # "none" /\ child' # "failed"
  BY DEF Child, ChildWrites, ChildReads, ChildExits
<1>1. BeforeFork' /\ ClosedAfter' /\ Unasked' /\ OwnTemps' /\ Unanswered' /\ TempsRemoved'
  BY <1>a, <1>b DEF IInv, BeforeFork, ClosedAfter, Unasked, OwnTemps, Unanswered, TempsRemoved
<1>c. at = "answered" => open = {} /\ \A s \in Streams : s \in cut
  BY <1>a DEF IInv, ClosedAfter, ClosedAtEnd, Gone
<1>2. AnswerTrue' /\ Carried'
  BY <1>a, <1>c DEF IInv, AnswerTrue, Carried, Unanswered, Streams
<1>3. CASE ChildWrites
  <2> DEFINE s == Head(todo)
  <2>1. todo # <<>> /\ s \in Streams /\ todo' = Tail(todo) /\ UNCHANGED <<stdin, child, request>>
    BY <1>3 DEF ChildWrites
  <2>2. written' = [written EXCEPT ![s] = @ + 1]
    BY <1>3 DEF ChildWrites
  <2>3. \/ s \in open /\ pipe[s] < PipeSize /\ pipe' = [pipe EXCEPT ![s] = @ + 1]
        \/ s \notin open /\ pipe' = pipe
    BY <1>3 DEF ChildWrites
  <2>4. s \notin open => s \in cut
    BY <1>a, <2>1 DEF IInv, ClosedAtEnd, Gone
  <2>t. /\ written \in [Streams -> Nat] /\ pipe \in [Streams -> 0 .. PipeSize]
        /\ got \in [Streams -> Nat]
    BY DEF IInv, TypeOK
  <2>5. TypeOK'
    <3>1. todo' \in Seq(Streams \cup {"in"})
      BY <2>1 DEF IInv, TypeOK
    <3>2. written' \in [Streams -> Nat]
      BY <2>t, <2>1, <2>2
    <3>3. pipe' \in [Streams -> 0 .. PipeSize]
      <4>1. ASSUME s \in open, pipe[s] < PipeSize
            PROVE  pipe[s] + 1 \in 0 .. PipeSize
        BY <2>t, <2>1, <4>1
      <4> QED
        BY <2>t, <2>3, <4>1
    <3> QED
      BY <1>a, <2>1, <3>1, <3>2, <3>3 DEF IInv, TypeOK, request
  <2>6. Conserved'
    <3> SUFFICES ASSUME NEW r \in Streams \ cut
                 PROVE  written'[r] = got[r] + pipe'[r]
      BY <1>a DEF Conserved
    <3>1. written[r] = got[r] + pipe[r]
      BY DEF IInv, Conserved
    <3>2. CASE r = s
      <4>1. pipe'[s] = pipe[s] + 1 /\ written'[s] = written[s] + 1
        BY <2>t, <2>1, <2>2, <2>3, <2>4, <3>2
      <4> QED
        BY <2>t, <3>1, <3>2, <4>1
    <3>3. CASE r # s
      BY <2>t, <2>1, <2>2, <2>3, <3>1, <3>3
    <3> QED
      BY <3>2, <3>3
  <2>7. ClosedAtEnd'
    BY <1>a, <2>1, <2>3, <2>4 DEF IInv, TypeOK, ClosedAtEnd, Gone
  <2>8. OwnEnd'
    BY <2>1 DEF IInv, OwnEnd, request
  <2> QED
    BY <1>1, <1>2, <2>5, <2>6, <2>7, <2>8 DEF IInv
<1>4. CASE ChildReads
  <2>1. /\ todo # <<>> /\ todo' = Tail(todo) /\ UNCHANGED <<child, pipe, written, request>>
        /\ stdin' = IF stdin > 0 THEN stdin - 1 ELSE 0
    BY <1>4 DEF ChildReads
  <2>2. TypeOK'
    <3>1. todo' \in Seq(Streams \cup {"in"}) /\ stdin' \in 0 .. PipeSize
      BY <2>1 DEF IInv, TypeOK
    <3> QED
      BY <1>a, <2>1, <3>1 DEF IInv, TypeOK, request
  <2>3. Conserved' /\ ClosedAtEnd' /\ OwnEnd'
    BY <1>a, <2>1 DEF IInv, Conserved, ClosedAtEnd, Gone, OwnEnd, request
  <2> QED
    BY <1>1, <1>2, <2>2, <2>3 DEF IInv
<1>5. CASE ChildExits
  <2>1. /\ child' = "exited" /\ UNCHANGED <<stdin, todo, pipe, written, route>>
        /\ binary' \in {"none", "whole", "part"}
        /\ ended' \in {"zero", "other", "fatal", "signal"}
        /\ ended' = "other" => route = "run"
    BY <1>5 DEF ChildExits
  <2>2. TypeOK'
    BY <1>a, <2>1 DEF IInv, TypeOK
  <2>3. Conserved' /\ ClosedAtEnd' /\ OwnEnd'
    BY <1>a, <2>1 DEF IInv, Conserved, ClosedAtEnd, Gone, OwnEnd
  <2> QED
    BY <1>1, <1>2, <2>2, <2>3 DEF IInv
<1> QED
  BY <1>3, <1>4, <1>5 DEF Child

(* Reading, and closing a stream at its end or for want of memory.         *)
LEMMA DrainIInv ==
  ASSUME IInv, NEW s \in Streams, Read(s) \/ ReadEnd(s) \/ Cut(s)
  PROVE  IInv'
<1>a. Serve(s)
  BY DEF Read, ReadEnd, Cut
<1>b. /\ ready' = ready \ {s} /\ at' \in {"select", "read"}
      /\ UNCHANGED <<unsent, stdin, todo, child, written, request>>
  BY <1>a DEF Serve
<1>c. child # "none" /\ s \in open
  BY <1>a, ServeKeeps
<1>t. /\ pipe \in [Streams -> 0 .. PipeSize] /\ got \in [Streams -> Nat]
      /\ written \in [Streams -> Nat] /\ ready \subseteq open /\ open \subseteq Streams
  BY DEF IInv, TypeOK
<1>1. OwnTemps' /\ OwnEnd' /\ BeforeFork' /\ ClosedAfter' /\ Unanswered' /\ TempsRemoved' /\ AnswerTrue'
      /\ Carried'
  BY <1>a, ServeKeeps
<1>2. Unasked'
  BY <1>b, <1>c DEF Unasked
<1>3. CASE Read(s)
  <2>1. /\ pipe[s] > 0 /\ pipe' = [pipe EXCEPT ![s] = @ - 1]
        /\ got' = [got EXCEPT ![s] = @ + 1] /\ UNCHANGED <<open, cut>>
    BY <1>3 DEF Read
  <2>2. pipe[s] - 1 \in 0 .. PipeSize /\ got[s] + 1 \in Nat
    BY <1>t, <2>1
  <2>3. TypeOK'
    <3>1. pipe' \in [Streams -> 0 .. PipeSize] /\ got' \in [Streams -> Nat]
      BY <1>t, <2>1, <2>2
    <3> QED
      BY <1>b, <2>1, <3>1 DEF IInv, TypeOK, request
  <2>4. Conserved'
    <3> SUFFICES ASSUME NEW r \in Streams \ cut
                 PROVE  written[r] = got'[r] + pipe'[r]
      BY <1>b, <2>1 DEF Conserved
    <3>1. written[r] = got[r] + pipe[r]
      BY DEF IInv, Conserved
    <3>2. CASE r = s
      BY <1>t, <2>1, <3>1, <3>2
    <3>3. CASE r # s
      BY <1>t, <2>1, <3>1, <3>3
    <3> QED
      BY <3>2, <3>3
  <2>5. ClosedAtEnd'
    BY <1>b, <1>c, <1>t, <2>1 DEF IInv, ClosedAtEnd, Gone
  <2> QED
    BY <1>1, <1>2, <2>3, <2>4, <2>5 DEF IInv
<1>4. CASE ReadEnd(s)
  <2>1. Ended(s) /\ open' = open \ {s} /\ UNCHANGED <<pipe, got, cut>>
    BY <1>4 DEF ReadEnd
  <2>2. TypeOK'
    BY <1>b, <2>1 DEF IInv, TypeOK, request
  <2>3. Conserved' /\ ClosedAtEnd'
    BY <1>b, <2>1 DEF IInv, Conserved, ClosedAtEnd, Ended, Gone
  <2> QED
    BY <1>1, <1>2, <2>2, <2>3 DEF IInv
<1>5. CASE Cut(s)
  <2>1. open' = open \ {s} /\ cut' = cut \cup {s} /\ UNCHANGED <<pipe, got>>
    BY <1>5 DEF Cut
  <2>2. TypeOK'
    BY <1>b, <2>1 DEF IInv, TypeOK, request
  <2>3. Conserved' /\ ClosedAtEnd'
    BY <1>b, <2>1 DEF IInv, Conserved, ClosedAtEnd, Gone
  <2> QED
    BY <1>1, <1>2, <2>2, <2>3 DEF IInv
<1> QED
  BY <1>3, <1>4, <1>5

(* The handlers' last steps.                                               *)
LEMMA AnswersIInv ==
  ASSUME IInv,
         \/ handle_assemble \/ handle_run \/ handle_bytecode \/ BytecodeDies \/ MissingSource
  PROVE  IInv'
<1>a. /\ UNCHANGED <<route, binary, ended, unsent, stdin, todo, child, pipe, written, got, open,
                     ready, cut>>
      /\ at \in {"request", "done"} /\ at' \in {"answered", "dead"}
  BY DEF handle_assemble, handle_run, handle_bytecode, BytecodeDies, MissingSource, Answers
<1>1. temps' \subseteq temps /\ answer' \in {"none", "ok", "error"} /\ sent' \subseteq Streams
  BY DEF handle_assemble, handle_run, handle_bytecode, BytecodeDies, MissingSource, Answers,
         LeftBehind, Streams, IInv, Unanswered
<1>2. TypeOK'
  BY <1>a, <1>1 DEF IInv, TypeOK
<1>3. Conserved' /\ ClosedAtEnd' /\ BeforeFork' /\ Unasked' /\ OwnEnd'
  BY <1>a DEF IInv, Conserved, ClosedAtEnd, Gone, BeforeFork, Unasked, OwnEnd
<1>4. OwnTemps'
  BY <1>a, <1>1 DEF IInv, OwnTemps
<1>5. CASE MissingSource
  <2>1. child = "none" /\ temps' = {} /\ at' = "answered"
    BY <1>5 DEF MissingSource, IInv, BeforeFork, OwnTemps
  <2>2. ClosedAfter' /\ Unanswered' /\ TempsRemoved' /\ AnswerTrue' /\ Carried'
    BY <1>a, <2>1 DEF ClosedAfter, Unanswered, TempsRemoved, AnswerTrue, Carried
  <2> QED
    BY <1>2, <1>3, <1>4, <2>2 DEF IInv
<1>6. CASE BytecodeDies
  <2>1. at = "done" /\ at' = "dead" /\ answer' = "none" /\ sent' = {} /\ temps' = {}
    BY <1>6 DEF BytecodeDies, LeftBehind, IInv, Unanswered
  <2>2. ClosedAfter' /\ Unanswered' /\ TempsRemoved' /\ AnswerTrue' /\ Carried'
    BY <1>a, <2>1 DEF IInv, ClosedAfter, Unanswered, TempsRemoved, AnswerTrue, Carried
  <2> QED
    BY <1>2, <1>3, <1>4, <2>2 DEF IInv
<1>7. CASE handle_assemble \/ handle_run \/ handle_bytecode
  <2>1. at = "done" /\ at' = "answered"
    BY <1>7 DEF handle_assemble, handle_run, handle_bytecode, Answers
  <2>2. ClosedAfter' /\ Unanswered'
    BY <1>a, <2>1 DEF IInv, ClosedAfter, Unanswered
  <2>3. TempsRemoved'
    BY <1>7 DEF handle_assemble, handle_run, handle_bytecode, Answers, LeftBehind, IInv, OwnTemps,
                TempsRemoved
  <2>4. AnswerTrue'
    <3> DEFINE usable == ended \in {"zero", "other"} /\ (route = "bytecode" => binary # "none")
    <3> SUFFICES ASSUME child = "exited", cut = {}
                 PROVE  answer' = "ok" <=> usable
      BY <1>a DEF AnswerTrue
    <3>2. CASE handle_assemble
      BY <3>2 DEF handle_assemble, Answers, IInv, OwnEnd, ExitZero
    <3>3. CASE handle_run
      <4>1. PICK found \in BOOLEAN :
              /\ IF found THEN RegsFound ELSE RegsMissed
              /\ answer' = IF RunFails(found) THEN "error" ELSE "ok"
        BY <3>3 DEF handle_run, Answers
      <4> QED
        BY <3>3, <4>1 DEF handle_run, RunFails, RegsFound, RegsMissed, ExitZero
    <3>4. CASE handle_bytecode
      BY <3>4 DEF handle_bytecode, Answers, IInv, OwnEnd, ExitZero
    <3> QED
      BY <1>7, <3>2, <3>3, <3>4
  <2>5. Carried'
    <3> SUFFICES ASSUME child = "exited", cut = {}
                 PROVE  /\ ended \in {"fatal", "signal"} => sent' = {"err"}
                        /\ ended \in {"zero", "other"} /\ route = "run" => sent' = Streams
      BY <1>a DEF Carried
    <3>1. CASE handle_assemble
      BY <3>1 DEF handle_assemble, Answers, ExitZero
    <3>2. CASE handle_run
      <4>1. PICK found \in BOOLEAN :
              /\ IF found THEN RegsFound ELSE RegsMissed
              /\ sent' = IF RunFails(found) THEN {"err"} ELSE Streams
        BY <3>2 DEF handle_run, Answers
      <4> QED
        BY <4>1 DEF RunFails, RegsFound, RegsMissed, ExitZero
    <3>3. CASE handle_bytecode
      BY <3>3 DEF handle_bytecode, Answers, ExitZero
    <3> QED
      BY <1>7, <3>1, <3>2, <3>3
  <2> QED
    BY <1>2, <1>3, <1>4, <2>2, <2>3, <2>4, <2>5 DEF IInv
<1> QED
  BY <1>5, <1>6, <1>7

(* Every step of the parent's keeps the invariant.                         *)
LEMMA ParentIInv == IInv /\ Parent => IInv'
<1> SUFFICES ASSUME IInv, Parent
             PROVE  IInv'
  OBVIOUS
<1>t. unsent \in Nat /\ stdin \in 0 .. PipeSize /\ ready \subseteq open
  BY DEF IInv, TypeOK
<1>1. CASE MissingSource \/ handle_assemble \/ handle_run \/ handle_bytecode \/ BytecodeDies
  BY <1>1, AnswersIInv
<1>2. CASE MakeTemps
  <2>1. /\ UNCHANGED <<route, binary, ended, answer, sent, unsent, stdin, todo, child, pipe, written, got,
                       open, ready, cut>>
        /\ at = "request" /\ at' = "pipes" /\ temps' \subseteq {"source", "binary"}
        /\ route # "bytecode" => temps' = {"source"}
    BY <1>2 DEF MakeTemps
  <2>2. TypeOK'
    BY <2>1 DEF IInv, TypeOK
  <2>3. Conserved' /\ ClosedAtEnd' /\ BeforeFork' /\ Unasked' /\ ClosedAfter'
    BY <2>1 DEF IInv, Conserved, ClosedAtEnd, Gone, BeforeFork, Unasked, ClosedAfter
  <2>4. OwnTemps' /\ OwnEnd' /\ Unanswered' /\ TempsRemoved' /\ AnswerTrue' /\ Carried'
    BY <2>1 DEF IInv, OwnTemps, OwnEnd, Unanswered, TempsRemoved, AnswerTrue, Carried
  <2> QED
    BY <2>2, <2>3, <2>4 DEF IInv
<1>3. CASE MakePipes \/ PipesFail
  <2>1. child = "none"
    BY <1>3 DEF MakePipes, PipesFail, IInv, BeforeFork
  <2> QED
    BY <1>3, <1>t, <2>1, ParentMoves DEF MakePipes, PipesFail, request
<1>4. CASE Prefill
  <2>1. unsent - 1 \in Nat /\ stdin + 1 \in 0 .. PipeSize /\ child = "none"
    BY <1>4, <1>t DEF Prefill, IInv, BeforeFork
  <2> QED
    BY <1>4, <1>t, <2>1, ParentMoves DEF Prefill, request
<1>5. CASE Fork \/ ForkFails
  <2>1. child = "none"
    BY <1>5 DEF Fork, ForkFails, IInv, BeforeFork
  <2> QED
    BY <1>5, <1>t, <2>1, ParentMoves DEF Fork, ForkFails, request
<1>6. CASE Select
  <2>1. child # "none" /\ Readable \subseteq open
    BY <1>6 DEF Select, IInv, BeforeFork, Readable
  <2> QED
    BY <1>6, <1>t, <2>1, ParentMoves DEF Select, request
<1>7. ASSUME NEW s \in Streams, Read(s) \/ ReadEnd(s) \/ Cut(s)
      PROVE  IInv'
  BY <1>7, DrainIInv
<1>8. CASE DrainEnds
  BY <1>8, <1>t, ParentMoves DEF DrainEnds, Draining, request
<1>9. CASE Waitpid
  <2>1. open = {}
    BY <1>9 DEF Waitpid, IInv, ClosedAfter
  <2> QED
    BY <1>9, <1>t, <2>1, ParentMoves DEF Waitpid, request
<1> QED
  BY <1>1, <1>2, <1>3, <1>4, <1>5, <1>6, <1>7, <1>8, <1>9 DEF Parent

(* Every step of the run keeps the invariant.                              *)
LEMMA NextIInv == IInv /\ [Next]_vars => IInv'
<1> SUFFICES ASSUME IInv, [Next]_vars
             PROVE  IInv'
  OBVIOUS
<1>1. CASE Parent
  BY <1>1, ParentIInv
<1>2. CASE Child
  BY <1>2, ChildIInv
<1>3. CASE UNCHANGED vars
  <2>1. TypeOK' /\ Conserved' /\ ClosedAtEnd' /\ BeforeFork' /\ Unasked' /\ ClosedAfter'
    BY <1>3 DEF IInv, vars, request, TypeOK, Conserved, ClosedAtEnd, Gone, BeforeFork, Unasked,
                ClosedAfter
  <2>2. OwnTemps' /\ OwnEnd' /\ Unanswered' /\ TempsRemoved' /\ AnswerTrue' /\ Carried'
    BY <1>3 DEF IInv, vars, request, OwnTemps, OwnEnd, Unanswered, TempsRemoved, AnswerTrue, Carried
  <2> QED
    BY <2>1, <2>2 DEF IInv
<1> QED
  BY <1>1, <1>2, <1>3 DEF Next

(* The invariant implies that what is sent is complete.                    *)
LEMMA IInvComplete == IInv => OutputComplete
<1> SUFFICES ASSUME IInv, at = "answered"
             PROVE  /\ \A s \in sent \ cut : got[s] = written[s]
                    /\ Carried
  BY DEF OutputComplete, Carried
<1>1. ASSUME NEW s \in sent \ cut
      PROVE  got[s] = written[s]
  <2>1. s \in Streams /\ written[s] = got[s] + pipe[s] /\ got[s] \in Nat
    BY DEF IInv, TypeOK, Conserved
  <2>2. CASE child = "none"
    BY <2>2 DEF IInv, Unasked
  <2>3. CASE open = {}
    BY <2>1, <2>3 DEF IInv, ClosedAtEnd
  <2> QED
    BY <2>2, <2>3 DEF IInv, ClosedAfter
<1> QED
  BY <1>1 DEF IInv

LEMMA InductiveInvariant == Spec => []IInv
BY InitIInv, NextIInv, PTL DEF Spec

(* Type correctness of a worker's run.                                     *)
THEOREM TypeCorrect == Spec => []TypeOK
BY InductiveInvariant, PTL DEF IInv

(* The answer carries both streams of a guest that came to its end, stderr *)
(* alone of one that did not, and all of each: drain_pipes() loses         *)
(* nothing, in whatever order the child writes its streams and ends.       *)
THEOREM NothingLost == Spec => []OutputComplete
BY InductiveInvariant, IInvComplete, PTL

(* A program's own exit code is not taken for a refusal, nor a refusal for *)
(* a program's exit code.                                                  *)
THEOREM AnswersTrue == Spec => []AnswerTrue
BY InductiveInvariant, PTL DEF IInv

(* A worker that answered or died has left no temporary file.              *)
THEOREM NoTempsLeft == Spec => []TempsRemoved
BY InductiveInvariant, PTL DEF IInv
=============================================================================
