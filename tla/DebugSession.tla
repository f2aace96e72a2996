---------------------------- MODULE DebugSession ----------------------------
(***************************************************************************)
(* The /debug session of the IDE server (src/server.c): the guest is       *)
(* stepped inside the server, whose standard input is then the reading end *)
(* of a pipe that /debug/input writes to.  Between the pipe and the guest  *)
(* is the buffer of stdio, which select() does not see and which outlives  *)
(* the session.  The server has one thread: while it reads from the pipe   *)
(* nobody writes to it, so a read that finds too little never returns.     *)
(*                                                                         *)
(* Input is a sequence of characters, of which only newlines are told from *)
(* text.  Of an instruction only what it takes from standard input and     *)
(* where it goes next is kept.                                             *)
(***************************************************************************)
EXTENDS Integers, Sequences, FiniteSetsExt

CONSTANTS
  Programs,    \* sequences of instruction kinds
  Prefills,    \* the `stdin` a start may come with
  LineTexts,   \* the lines /debug/input may come with
  PipeSize,    \* characters the pipe holds
  BufferSize,  \* characters of stdio's buffer
  StrLen,      \* characters SYS_READ_STR takes at most
  MAX_CONTINUE_STEPS,
  MaxBreakpoints,  \* addresses handle_debug_continue has room for
  MaxSent      \* bound: characters sent in one session

Reads == {"number", "char", "str"}
Kinds == Reads \cup {"break", "plain", "loop", "halt", "fatal"}
Char == {"text", "newline"}

ASSUME DebugSessionAssumption ==
  /\ Programs \subseteq Seq(Kinds) \ {<<>>}
  /\ Prefills \subseteq Seq(Char) /\ LineTexts \subseteq Seq({"text"})
  /\ PipeSize \in Nat /\ BufferSize \in Nat \ {0} /\ StrLen \in Nat \ {0}
  /\ MAX_CONTINUE_STEPS \in Nat \ {0}
  /\ MaxBreakpoints \in Nat \ {0}
  /\ MaxSent \in Nat

VARIABLES
  at,        \* accept, continue, blocked (in a read or write) or exited
  active, running, prog, pc,  \* g_debug
  writable,  \* stdin_wr >= 0
  pipe,      \* what the stdin pipe holds
  buffer,    \* what stdio holds of standard input
  steps, bps,  \* locals of handle_debug_continue
  reply,     \* the last answer: none, ok, error, state or waiting
  carried, sent, taken  \* history: what the buffer held when the session
             \* began, what the client sent since, what the guest took

(* A handler that blocks, or whose guest ends the server, sends nothing.   *)
Answer(message) == reply' = IF at' = "accept" THEN message ELSE reply

session == <<active, running, prog, pc, writable>>
input == <<pipe, buffer, carried, sent, taken>>
vars == <<at, session, input, steps, bps, reply>>

Init ==
  /\ at = "accept"
  /\ active = FALSE /\ running = FALSE /\ writable = FALSE
  /\ prog = <<>> /\ pc = 0
  /\ pipe = <<>> /\ buffer = <<>>
  /\ steps = 0 /\ bps = {}
  /\ reply = "none"
  /\ carried = <<>> /\ sent = <<>> /\ taken = <<>>
-----------------------------------------------------------------------------
(* step(): what it takes from standard input, and where it goes.           *)

Instr == prog[pc + 1]
Available == buffer \o pipe

(* How many characters a call may take: a number is read past the newlines *)
(* before it, a character may itself be a newline; after both the rest of  *)
(* the line is taken too.  A string is cut off at its length.              *)
Takes(kind) ==
  LET Newlines == {k \in DOMAIN Available : Available[k] = "newline"}
      FirstText == {k \in DOMAIN Available : Available[k] = "text"}
  IN  CASE kind = "number" -> {k \in Newlines : \E j \in FirstText : j < k}
        [] kind = "char"   -> Newlines \ {1}
        [] kind = "str"    -> Newlines \cup (DOMAIN Available \cap {StrLen})
        [] kind = "break"  -> DOMAIN Available
        [] OTHER           -> {0}

WouldBlock == Takes(Instr) = {}

(* stdio refills its buffer whenever it is empty, as far as it has room    *)
(* and the pipe has data.                                                  *)
Consume(n) ==
  LET more == n - Len(buffer)
      whole == ((more + BufferSize - 1) \div BufferSize) * BufferSize
      pulled == IF whole < Len(pipe) THEN whole ELSE Len(pipe)
  IN  /\ taken' = taken \o SubSeq(Available, 1, n)
      /\ IF more <= 0
         THEN buffer' = SubSeq(buffer, n + 1, Len(buffer)) /\ pipe' = pipe
         ELSE /\ buffer' = SubSeq(pipe, more + 1, pulled)
              /\ pipe' = SubSeq(pipe, pulled + 1, Len(pipe))
      /\ UNCHANGED <<carried, sent>>

NextPc == IF Instr = "loop" THEN 0 ELSE pc + 1

(* A call of step(); the server goes on at `then`.                         *)
StepThen(then) ==
  /\ IF WouldBlock
     THEN at' = "blocked" /\ UNCHANGED <<session, input>>
     ELSE IF Instr = "fatal"
     THEN at' = "exited" /\ UNCHANGED <<session, input>>
     ELSE /\ at' = then
          /\ Consume(Min(Takes(Instr)))
          /\ pc' = NextPc
          /\ running' = (Instr # "halt" /\ NextPc < Len(prog))
          /\ UNCHANGED <<active, prog, writable>>

is_waiting_for_input == pc < Len(prog) /\ Instr \in Reads /\ pipe = <<>>
-----------------------------------------------------------------------------
(* Starting and ending a session.  Closing the pipe loses what it holds;   *)
(* stdio's buffer is left alone.                                           *)

debug_teardown ==
  /\ active' = FALSE /\ running' = FALSE /\ writable' = FALSE
  /\ pipe' = IF active THEN <<>> ELSE pipe
  /\ UNCHANGED <<prog, pc>>
  /\ carried' = buffer /\ sent' = <<>> /\ taken' = <<>>

handle_debug_stop ==
  /\ at = "accept"
  /\ debug_teardown
  /\ reply' = "ok"
  /\ UNCHANGED <<at, buffer, steps, bps>>

(* The source does not assemble, or its binary is not there or has no      *)
(* words enough for a header.                                              *)
StartFails ==
  /\ at = "accept"
  /\ debug_teardown
  /\ reply' = "error"
  /\ UNCHANGED <<at, buffer, steps, bps>>

(* A binary that was cut while it was written: readFileWords, where its    *)
(* size is no number of words, or headerValidate exits, and the process is *)
(* the server.                                                             *)
StartDies ==
  /\ at = "accept"
  /\ debug_teardown
  /\ at' = "exited"
  /\ UNCHANGED <<buffer, steps, bps, reply>>

debug_load_binary(p) ==
  /\ active' = TRUE /\ running' = TRUE
  /\ prog' = p /\ pc' = 0

(* The prefill is written before anybody can read it.                      *)
handle_debug_start(p, stdin) ==
  /\ at = "accept"
  /\ debug_load_binary(p)
  /\ writable' = (Len(stdin) <= PipeSize)
  /\ at' = IF Len(stdin) <= PipeSize THEN "accept" ELSE "blocked"
  /\ pipe' = SubSeq(stdin, 1, IF Len(stdin) <= PipeSize THEN Len(stdin) ELSE PipeSize)
  /\ carried' = buffer /\ sent' = pipe' /\ taken' = <<>>
  /\ Answer("state")
  /\ UNCHANGED <<buffer, steps, bps>>

(* pipe() fails once the binary is loaded: there is a session, on the      *)
(* server's own standard input, at which nobody types.                     *)
StartUnpiped(p) ==
  /\ at = "accept"
  /\ debug_load_binary(p)
  /\ writable' = FALSE
  /\ pipe' = <<>>
  /\ carried' = buffer /\ sent' = <<>> /\ taken' = <<>>
  /\ reply' = "error"
  /\ UNCHANGED <<at, buffer, steps, bps>>

(* Mutant: the line is passed on without its newline.                      *)
LineBare(text) == text
Line(text) == Append(text, "newline")

handle_debug_input(text) ==
  /\ at = "accept" /\ active
  /\ IF ~writable THEN UNCHANGED <<at, pipe, sent>>
     ELSE IF Len(pipe) + Len(Line(text)) <= PipeSize
     THEN /\ Len(sent) + Len(text) < MaxSent
          /\ pipe' = pipe \o Line(text)
          /\ sent' = Append(sent \o text, "newline")
          /\ at' = at
     ELSE at' = "blocked" /\ UNCHANGED <<pipe, sent>>
  /\ Answer("ok")
  /\ UNCHANGED <<session, buffer, carried, taken, steps, bps>>
-----------------------------------------------------------------------------
NotActive ==
  /\ at = "accept" /\ ~active
  /\ reply' = "error"
  /\ UNCHANGED <<at, session, input, steps, bps>>

(* A start without a source leaves the session there is.                   *)
MissingSource ==
  /\ at = "accept"
  /\ reply' = "error"
  /\ UNCHANGED <<at, session, input, steps, bps>>

NotRunning ==
  /\ at = "accept" /\ active /\ ~running
  /\ reply' = "state"
  /\ UNCHANGED <<at, session, input, steps, bps>>

StepWaits ==
  /\ at = "accept" /\ active /\ running
  /\ is_waiting_for_input
  /\ reply' = "waiting"
  /\ UNCHANGED <<at, session, input, steps, bps>>

handle_debug_step ==
  /\ at = "accept" /\ active /\ running
  /\ ~is_waiting_for_input
  /\ StepThen("accept")
  /\ Answer("state")
  /\ UNCHANGED <<steps, bps>>

(* Of the addresses a request lists those there is room for are kept, the  *)
(* others dropped without a word.                                          *)
parse_breakpoints(listed) ==
  {listed[i] : i \in DOMAIN listed \cap 1 .. MaxBreakpoints}

handle_debug_continue(listed) ==
  /\ at = "accept" /\ active /\ running
  /\ at' = "continue"
  /\ steps' = 0
  /\ bps' = parse_breakpoints(listed)
  /\ UNCHANGED <<session, input, reply>>

(* Mutants: one step too many is allowed; steps are not counted.           *)
UnderCapOrAt == steps <= MAX_CONTINUE_STEPS
NotCounted == steps

(* The address is compared after a step, never before the first.           *)
AtBreakpoint == pc \in bps
UnderCap == steps < MAX_CONTINUE_STEPS
Counted == steps + 1
Goes == running /\ UnderCap /\ ~(steps > 0 /\ AtBreakpoint)

ContinueSteps ==
  /\ at = "continue"
  /\ Goes /\ ~is_waiting_for_input
  /\ StepThen("continue")
  /\ steps' = Counted
  /\ UNCHANGED <<bps, reply>>

ContinueEnds ==
  /\ at = "continue"
  /\ ~Goes \/ is_waiting_for_input
  /\ at' = "accept"
  /\ reply' = IF Goes THEN "waiting" ELSE "state"
  /\ steps' = 0 /\ bps' = {}
  /\ UNCHANGED <<session, input>>

Start == \E p \in Programs : StartUnpiped(p) \/ \E s \in Prefills : handle_debug_start(p, s)

(* Bound: requests list no more than one address too many.                 *)
Continue ==
  \E n \in 0 .. MaxBreakpoints + 1 :
    \E listed \in [1 .. n -> 0 .. Len(prog) - 1] : handle_debug_continue(listed)

Next ==
  \/ Start \/ MissingSource \/ StartFails \/ StartDies \/ handle_debug_stop
  \/ \E text \in LineTexts : handle_debug_input(text)
  \/ NotActive \/ NotRunning \/ StepWaits \/ handle_debug_step
  \/ Continue \/ ContinueSteps \/ ContinueEnds

Spec == Init /\ [][Next]_vars /\ WF_vars(ContinueSteps \/ ContinueEnds)
-----------------------------------------------------------------------------
(* Every variable has its type.                                            *)
TypeOK ==
  /\ at \in {"accept", "continue", "blocked", "exited"}
  /\ active \in BOOLEAN /\ running \in BOOLEAN /\ writable \in BOOLEAN
  /\ prog \in Seq(Kinds) /\ pc \in 0 .. Len(prog)
  /\ pipe \in Seq(Char) /\ Len(pipe) <= PipeSize
  /\ buffer \in Seq(Char) /\ Len(buffer) < BufferSize
  /\ steps \in 0 .. MAX_CONTINUE_STEPS
  /\ bps \subseteq Nat
  /\ reply \in {"none", "ok", "error", "state", "waiting"}
  /\ \A history \in {carried, sent, taken} : history \in Seq(Char)

(* Input reaches the guest in order and without loss: what it has taken,   *)
(* what stdio and the pipe still hold, is what was left from before the    *)
(* session followed by what the client sent.                               *)
InputConserved == active => carried \o sent = taken \o buffer \o pipe

(* "caps at 10M steps": a continue comes to an end whatever the program,   *)
(* unless a read holds it.                                                 *)
ContinueReturns == at = "continue" ~> at # "continue"

(* is_waiting_for_input "returns 1 if step() would block waiting for user  *)
(* input" (src/server.c): a read that would block is not entered.          *)
BlockingForeseen ==
  active /\ running /\ Instr \in Reads /\ WouldBlock => is_waiting_for_input
=============================================================================
