------------------------- MODULE DebugSessionProofs -------------------------
(***************************************************************************)
(* Proofs about DebugSession for any programs, any input, any sizes of     *)
(* pipe and buffer and any cap on a continue.                              *)
(*                                                                         *)
(* Why no input is lost or reordered: whatever a read takes and however    *)
(* far stdio reads ahead to serve it, what was taken, the buffer and the   *)
(* pipe, in this order, are the same sequence before and after (lemma      *)
(* ConsumeMovesInput); a session begins with nothing taken and counts what *)
(* an earlier one left in the buffer as carried over.                      *)
(***************************************************************************)
EXTENDS DebugSession, SequenceTheorems, NumberLemmas

(* step() is called while there is an instruction to fetch.                *)
RunsInProgram == running => pc < Len(prog)

IInv == TypeOK /\ RunsInProgram /\ InputConserved

USE DebugSessionAssumption
-----------------------------------------------------------------------------
(* The input as the session sees it.                                       *)
InputTyped ==
  /\ pipe \in Seq(Char) /\ Len(pipe) <= PipeSize
  /\ buffer \in Seq(Char) /\ Len(buffer) < BufferSize
  /\ carried \in Seq(Char) /\ sent \in Seq(Char) /\ taken \in Seq(Char)

LEMMA AvailableTyped ==
  ASSUME InputTyped
  PROVE  /\ Available \in Seq(Char)
         /\ Len(Available) = Len(buffer) + Len(pipe)
         /\ DOMAIN Available = 1 .. Len(Available)
<1>1. Available \in Seq(Char) /\ Len(Available) = Len(buffer) + Len(pipe)
  BY ConcatProperties DEF InputTyped, Available
<1> QED
  BY <1>1, LenProperties

(* Sequences of characters, put together and taken apart.                  *)
LEMMA Concatenations ==
  /\ \A s, t \in Seq(Char) : s \o t \in Seq(Char)
  /\ \A s, t, u \in Seq(Char) : (s \o t) \o u = s \o (t \o u)
<1>1. \A s, t \in Seq(Char) : s \o t \in Seq(Char)
  BY ConcatProperties
<1>2. ASSUME NEW s \in Seq(Char), NEW t \in Seq(Char), NEW u \in Seq(Char)
      PROVE  (s \o t) \o u = s \o (t \o u)
  BY ConcatAssociative
<1> QED
  BY <1>1, <1>2

LEMMA Pieces ==
  ASSUME NEW s \in Seq(Char), NEW k \in 0 .. Len(s), NEW n \in k .. Len(s)
  PROVE  /\ SubSeq(s, 1, k) \in Seq(Char) /\ Len(SubSeq(s, 1, k)) = k
         /\ SubSeq(s, k + 1, n) \in Seq(Char) /\ Len(SubSeq(s, k + 1, n)) = n - k
         /\ SubSeq(s, 1, k) \o SubSeq(s, k + 1, n) = SubSeq(s, 1, n)
<1>1. Len(s) \in Nat /\ k \in Nat /\ n \in Nat /\ k <= n /\ n <= Len(s)
  BY LenProperties
<1>2. \A i \in 1 .. Len(s) : s[i] \in Char
  BY ElementOfSeq
<1>3. SubSeq(s, 1, k) \in Seq(Char) /\ Len(SubSeq(s, 1, k)) = k
  <2>1. \A i \in 1 .. k : s[i] \in Char
    BY <1>1, <1>2
  <2> QED
    BY <1>1, <2>1, SubSeqProperties
<1>4. SubSeq(s, k + 1, n) \in Seq(Char) /\ Len(SubSeq(s, k + 1, n)) = n - k
  <2>1. \A i \in k + 1 .. n : s[i] \in Char
    BY <1>1, <1>2
  <2> QED
    BY <1>1, <2>1, SubSeqProperties
<1>5. SubSeq(s, 1, k) \o SubSeq(s, k + 1, n) = SubSeq(s, 1, n)
  BY <1>1, ConcatAdjacentSubSeq, k \in 1 - 1 .. Len(s), 1 \in 1 .. Len(s) + 1
<1> QED
  BY <1>3, <1>4, <1>5

(* A read that does not block takes no more than there is.                 *)
LEMMA TakesFromAvailable ==
  ASSUME InputTyped, ~WouldBlock
  PROVE  Min(Takes(Instr)) \in 0 .. Len(Available)
<1>1. Takes(Instr) \subseteq 0 .. Len(Available)
  BY AvailableTyped DEF Takes
<1>2. Takes(Instr) # {}
  BY DEF WouldBlock
<1>3. Takes(Instr) \subseteq Nat
  BY <1>1, AvailableTyped
<1> QED
  BY <1>1, <1>2, <1>3, MinIsElement

(* A read moves characters from the pipe to the buffer and on to the       *)
(* guest; none is dropped, added or passed by another.                     *)
LEMMA ConsumeMovesInput ==
  ASSUME InputTyped, NEW n \in 0 .. Len(Available), Consume(n)
  PROVE  InputTyped' /\ taken' \o buffer' \o pipe' = taken \o buffer \o pipe
<1> DEFINE more == n - Len(buffer)
           whole == ((more + BufferSize - 1) \div BufferSize) * BufferSize
           pulled == IF whole < Len(pipe) THEN whole ELSE Len(pipe)
<1>1. /\ Len(buffer) \in Nat /\ Len(pipe) \in Nat /\ n \in Nat
      /\ n <= Len(buffer) + Len(pipe)
  BY AvailableTyped, LenProperties DEF InputTyped
<1>2. taken \in Seq(Char) /\ buffer \in Seq(Char)
  BY DEF InputTyped
<1>3. CASE more <= 0
  <2>1. n \in 0 .. Len(buffer)
    BY <1>1, <1>3
  <2>2. buffer' = SubSeq(buffer, n + 1, Len(buffer)) /\ pipe' = pipe
    BY <1>3 DEF Consume
  <2>3. SubSeq(Available, 1, n) = SubSeq(buffer, 1, n)
    <3>1. CASE n = 0
      BY <3>1, SubSeqEmpty
    <3>2. CASE n > 0
      BY <1>1, <1>3, <3>2, SubSeqOfConcat1 DEF InputTyped, Available
    <3> QED
      BY <1>1, <3>1, <3>2
  <2>4. taken' = taken \o SubSeq(buffer, 1, n)
    BY <2>3 DEF Consume
  <2>5. /\ SubSeq(buffer, 1, n) \in Seq(Char) /\ buffer' \in Seq(Char)
        /\ Len(buffer') = Len(buffer) - n
        /\ SubSeq(buffer, 1, n) \o buffer' = SubSeq(buffer, 1, Len(buffer))
    <3>1. Len(buffer) \in n .. Len(buffer)
      BY <1>1, <2>1
    <3> QED
      BY <2>1, <2>2, <3>1, Pieces, ZenonT(40) DEF InputTyped
  <2>6. SubSeq(buffer, 1, n) \o buffer' = buffer
    BY <2>5, SubSeqFull DEF InputTyped
  <2>7. taken' \o buffer' = taken \o buffer
    <3>1. (taken \o SubSeq(buffer, 1, n)) \o buffer' = taken \o (SubSeq(buffer, 1, n) \o buffer')
      BY <1>2, <2>5, Concatenations, ZenonT(40)
    <3> QED
      BY <2>4, <2>6, <3>1
  <2>8. taken' \in Seq(Char) /\ Len(buffer') < BufferSize
    BY <1>1, <2>4, <2>5, Concatenations DEF InputTyped
  <2> QED
    BY <2>2, <2>5, <2>7, <2>8 DEF InputTyped, Consume
<1>4. CASE more > 0
  <2> DEFINE first == SubSeq(pipe, 1, more)
  <2>1. more \in Nat /\ whole \in Nat /\ more <= whole /\ whole < more + BufferSize
    <3>1. more \in Nat
      BY <1>1, <1>4
    <3> HIDE DEF more
    <3> QED
      BY <1>4, <3>1, RoundedUp
  <2>2. /\ more \in 0 .. Len(pipe) /\ pulled \in more .. Len(pipe) /\ pulled \in 0 .. Len(pipe)
        /\ pulled < more + BufferSize
    BY <1>1, <2>1
  <2>3. buffer' = SubSeq(pipe, more + 1, pulled) /\ pipe' = SubSeq(pipe, pulled + 1, Len(pipe))
    BY <1>1, <1>4 DEF Consume
  <2> HIDE DEF pulled, whole
  <2>4. SubSeq(Available, 1, n) = buffer \o first
    <3>1. \A i \in 1 .. n : SubSeq(Available, 1, n)[i] = (buffer \o first)[i]
      BY <1>1, <1>4, <2>1, <2>2 DEF InputTyped, Available
    <3>2. /\ SubSeq(Available, 1, n) \in Seq(Char) /\ buffer \o first \in Seq(Char)
          /\ Len(SubSeq(Available, 1, n)) = n /\ Len(buffer \o first) = n
      <4>1. SubSeq(Available, 1, n) \in Seq(Char) /\ Len(SubSeq(Available, 1, n)) = n
        BY <1>1, AvailableTyped DEF InputTyped
      <4>2. first \in Seq(Char) /\ Len(first) = n - Len(buffer)
        <5>1. pipe \in Seq(Char) /\ more \in 0 .. Len(pipe) /\ Len(pipe) \in more .. Len(pipe)
          BY <1>1, <2>2 DEF InputTyped
        <5> HIDE DEF more
        <5>2. first \in Seq(Char) /\ Len(first) = more
          BY <5>1, Pieces
        <5> QED
          BY <5>2 DEF more
      <4>3. buffer \o first \in Seq(Char) /\ Len(buffer \o first) = n
        BY <1>1, <4>2 DEF InputTyped
      <4> QED
        BY <4>1, <4>3
    <3> QED
      BY <3>1, <3>2, SeqEqual
  <2> HIDE DEF more
  <2>5. /\ first \in Seq(Char) /\ buffer' \in Seq(Char) /\ Len(buffer') = pulled - more
        /\ first \o buffer' = SubSeq(pipe, 1, pulled)
    BY <2>2, <2>3, Pieces DEF InputTyped
  <2>6. /\ pipe' \in Seq(Char) /\ Len(pipe') = Len(pipe) - pulled
        /\ SubSeq(pipe, 1, pulled) \o pipe' = SubSeq(pipe, 1, Len(pipe))
    <3>1. Len(pipe) \in pulled .. Len(pipe)
      BY <1>1, <2>2
    <3> QED
      BY <2>2, <2>3, <3>1, Pieces, ZenonT(40) DEF InputTyped
  <2> HIDE DEF first
  <2>7. (first \o buffer') \o pipe' = pipe
    BY <2>5, <2>6, SubSeqFull DEF InputTyped
  <2>8. taken' = (taken \o buffer) \o first
    <3>1. (taken \o buffer) \o first = taken \o (buffer \o first)
      BY <1>2, <2>5, Concatenations, ZenonT(40)
    <3> QED
      BY <2>4, <3>1 DEF Consume
  <2>9. (taken' \o buffer') \o pipe' = (taken \o buffer) \o ((first \o buffer') \o pipe')
    <3>1. taken \o buffer \in Seq(Char) /\ first \o buffer' \in Seq(Char)
      BY <2>5, Concatenations DEF InputTyped
    <3>2. taken' \o buffer' = (taken \o buffer) \o (first \o buffer')
      BY <2>5, <2>8, <3>1, Concatenations
    <3>3. ((taken \o buffer) \o (first \o buffer')) \o pipe'
            = (taken \o buffer) \o ((first \o buffer') \o pipe')
      BY <2>6, <3>1, Concatenations
    <3> QED
      BY <3>2, <3>3
  <2>10. InputTyped'
    <3>1. taken' \in Seq(Char)
      BY <2>5, <2>8, Concatenations DEF InputTyped
    <3>2. Len(buffer') < BufferSize /\ Len(pipe') <= PipeSize
      BY <1>1, <2>1, <2>2, <2>5, <2>6 DEF InputTyped
    <3> QED
      BY <2>5, <2>6, <3>1, <3>2 DEF InputTyped, Consume
  <2> QED
    BY <2>7, <2>9, <2>10
<1>5. more <= 0 \/ more > 0
  BY <1>1
<1> QED
  BY <1>3, <1>4, <1>5
-----------------------------------------------------------------------------
(* The typed input of IInv, and back.                                      *)
LEMMA InputOfType == TypeOK => InputTyped
  BY DEF TypeOK, InputTyped

(* The initial state satisfies the invariant.                              *)
LEMMA InitIInv == Init => IInv
<1> SUFFICES ASSUME Init
             PROVE  IInv
  OBVIOUS
<1>1. TypeOK
  <2>1. InputTyped
    BY EmptySeq DEF Init, InputTyped
  <2>2. prog \in Seq(Kinds) /\ pc \in 0 .. Len(prog)
    BY EmptySeq DEF Init
  <2>3. steps \in 0 .. MAX_CONTINUE_STEPS /\ bps \subseteq Nat
    BY DEF Init
  <2> QED
    BY <2>1, <2>2, <2>3 DEF Init, TypeOK, InputTyped
<1> QED
  BY <1>1 DEF Init, IInv, RunsInProgram, InputConserved

(* One call of step(), from the debugger's step or from a continue.        *)
LEMMA StepThenKeeps ==
  ASSUME IInv, running, NEW then \in {"accept", "continue"}, StepThen(then)
  PROVE  /\ InputTyped' /\ RunsInProgram' /\ InputConserved'
         /\ at' \in {"accept", "continue", "blocked", "exited"}
         /\ active' \in BOOLEAN /\ running' \in BOOLEAN /\ writable' \in BOOLEAN
         /\ prog' \in Seq(Kinds) /\ pc' \in 0 .. Len(prog')
<1>1. InputTyped /\ pc \in Nat /\ pc < Len(prog) /\ Len(prog) \in Nat /\ prog \in Seq(Kinds)
  BY InputOfType DEF IInv, TypeOK, RunsInProgram
<1>2. CASE UNCHANGED <<session, input>>
  BY <1>1, <1>2 DEF IInv, TypeOK, StepThen, session, input, InputTyped, RunsInProgram,
                    InputConserved
<1>3. CASE /\ ~WouldBlock /\ at' = then
           /\ Consume(Min(Takes(Instr)))
           /\ pc' = NextPc
           /\ running' = (Instr # "halt" /\ NextPc < Len(prog))
           /\ UNCHANGED <<active, prog, writable>>
  <2>1. Min(Takes(Instr)) \in 0 .. Len(Available)
    BY <1>1, <1>3, TakesFromAvailable
  <2>2. InputTyped' /\ taken' \o buffer' \o pipe' = taken \o buffer \o pipe
    BY <1>1, <1>3, <2>1, ConsumeMovesInput
  <2>3. InputConserved'
    BY <1>3, <2>2 DEF IInv, InputConserved, Consume
  <2>4. pc' \in 0 .. Len(prog')
    BY <1>1, <1>3 DEF NextPc
  <2>5. RunsInProgram'
    BY <1>3 DEF RunsInProgram
  <2> QED
    BY <1>1, <1>3, <2>2, <2>3, <2>4, <2>5 DEF IInv, TypeOK
<1> QED
  BY <1>2, <1>3 DEF StepThen

(* Every step keeps the invariant.                                         *)
LEMMA NextIInv == IInv /\ [Next]_vars => IInv'
<1> SUFFICES ASSUME IInv, [Next]_vars
             PROVE  IInv'
  OBVIOUS
<1> USE DEF IInv
<1>1. InputTyped
  BY InputOfType
<1>2. CASE UNCHANGED vars
  BY <1>2 DEF vars, session, input, TypeOK, RunsInProgram, InputConserved
<1>3. ASSUME NEW p \in Programs, NEW s \in Prefills, handle_debug_start(p, s)
      PROVE  IInv'
  <2>1. /\ p \in Seq(Kinds) /\ Len(p) \in Nat /\ Len(p) > 0
        /\ s \in Seq(Char) /\ Len(s) \in Nat
    BY EmptySeq, LenProperties
  <2>2. pipe' \in Seq(Char) /\ Len(pipe') <= PipeSize
    <3> DEFINE n == IF Len(s) <= PipeSize THEN Len(s) ELSE PipeSize
    <3>1. n \in 0 .. Len(s) /\ n <= PipeSize /\ pipe' = SubSeq(s, 1, n)
      BY <1>3, <2>1 DEF handle_debug_start
    <3> HIDE DEF n
    <3>2. Len(s) \in n .. Len(s)
      BY <2>1, <3>1
    <3> QED
      BY <2>1, <3>1, <3>2, Pieces
  <2>3. TypeOK'
    BY <1>3, <2>1, <2>2 DEF handle_debug_start, debug_load_binary, Answer, TypeOK
  <2>4. InputConserved'
    <3>1. carried' = buffer /\ sent' = pipe' /\ taken' = <<>> /\ buffer' = buffer
      BY <1>3 DEF handle_debug_start
    <3>2. <<>> \o buffer = buffer
      BY <1>1, ConcatEmptySeq DEF InputTyped
    <3> QED
      BY <3>1, <3>2 DEF InputConserved
  <2> QED
    BY <1>3, <2>1, <2>3, <2>4 DEF handle_debug_start, debug_load_binary, RunsInProgram
<1>4. ASSUME NEW p \in Programs, StartUnpiped(p)
      PROVE  IInv'
  <2>1. p \in Seq(Kinds) /\ Len(p) \in Nat /\ Len(p) > 0
    BY EmptySeq, LenProperties
  <2>2. TypeOK'
    <3>1. InputTyped'
      BY <1>1, <1>4, EmptySeq DEF StartUnpiped, InputTyped
    <3>2. prog' \in Seq(Kinds) /\ pc' \in 0 .. Len(prog')
      BY <1>4, <2>1 DEF StartUnpiped, debug_load_binary
    <3> QED
      BY <1>4, <3>1, <3>2 DEF StartUnpiped, debug_load_binary, TypeOK, InputTyped
  <2>3. InputConserved'
    <3>1. carried' = buffer /\ sent' = <<>> /\ taken' = <<>> /\ buffer' = buffer /\ pipe' = <<>>
      BY <1>4 DEF StartUnpiped
    <3>2. <<>> \o buffer = buffer /\ buffer \o <<>> = buffer
      BY <1>1, ConcatEmptySeq DEF InputTyped
    <3> QED
      BY <3>1, <3>2 DEF InputConserved
  <2> QED
    BY <1>4, <2>1, <2>2, <2>3 DEF StartUnpiped, debug_load_binary, RunsInProgram
<1>5. ASSUME debug_teardown, reply' \in {"ok", "error"}, UNCHANGED <<at, buffer, steps, bps>>
      PROVE  IInv'
  <2>1. InputTyped'
    BY <1>1, <1>5, EmptySeq DEF debug_teardown, InputTyped
  <2> QED
    BY <1>5, <2>1 DEF debug_teardown, TypeOK, InputTyped, RunsInProgram, InputConserved
<1>6. CASE StartDies
  <2>1. InputTyped'
    BY <1>1, <1>6, EmptySeq DEF StartDies, debug_teardown, InputTyped
  <2> QED
    BY <1>6, <2>1 DEF StartDies, debug_teardown, TypeOK, InputTyped, RunsInProgram, InputConserved
<1>7. ASSUME NEW text \in LineTexts, handle_debug_input(text)
      PROVE  IInv'
  <2>1. text \in Seq(Char) /\ "newline" \in Char
    <3>1. {"text"} \subseteq Char
      BY DEF Char
    <3> QED
      BY <3>1, SeqMonotonic DEF Char
  <2>2. Line(text) \in Seq(Char) /\ Line(text) = text \o <<"newline">> /\ <<"newline">> \in Seq(Char)
    BY <2>1, AppendProperties, AppendIsConcat DEF Line
  <2>3. CASE UNCHANGED <<pipe, sent>>
    BY <1>7, <2>3 DEF handle_debug_input, session, Answer, TypeOK, RunsInProgram, InputConserved
  <2>4. CASE /\ Len(pipe) + Len(Line(text)) <= PipeSize
             /\ pipe' = pipe \o Line(text)
             /\ sent' = Append(sent \o text, "newline")
             /\ at' = at
    <3>1. pipe' \in Seq(Char) /\ Len(pipe') <= PipeSize
      BY <1>1, <2>2, <2>4, ConcatProperties DEF InputTyped
    <3>2. sent \o text \in Seq(Char)
      BY <1>1, <2>1, Concatenations DEF InputTyped
    <3>3. sent' \in Seq(Char) /\ sent' = (sent \o text) \o <<"newline">>
      BY <2>1, <2>4, <3>2, AppendProperties, AppendIsConcat
    <3>4. sent' = sent \o Line(text)
      <4>1. sent \in Seq(Char) /\ text \in Seq(Char) /\ <<"newline">> \in Seq(Char)
        BY <1>1, <2>1, <2>2 DEF InputTyped
      <4>2. (sent \o text) \o <<"newline">> = sent \o (text \o <<"newline">>)
        BY <4>1, Concatenations
      <4> QED
        BY <2>2, <3>3, <4>2
    <3>5. TypeOK'
      BY <1>7, <2>4, <3>1, <3>3 DEF handle_debug_input, session, Answer, TypeOK
    <3>6. InputConserved'
      <4> DEFINE l == Line(text)
      <4> HIDE DEF l
      <4>1. /\ carried \in Seq(Char) /\ sent \in Seq(Char) /\ l \in Seq(Char)
            /\ taken \o buffer \in Seq(Char) /\ pipe \in Seq(Char)
        BY <1>1, <2>2, Concatenations DEF InputTyped, l
      <4>2. carried \o (sent \o l) = (carried \o sent) \o l
        BY <4>1, Concatenations, ZenonT(40)
      <4>3. (taken \o buffer) \o (pipe \o l) = ((taken \o buffer) \o pipe) \o l
        BY <4>1, Concatenations, ZenonT(40)
      <4> QED
        BY <1>7, <2>4, <3>4, <4>2, <4>3 DEF handle_debug_input, session, InputConserved, l
    <3> QED
      BY <1>7, <3>5, <3>6 DEF handle_debug_input, session, RunsInProgram
  <2> QED
    BY <1>7, <2>3, <2>4 DEF handle_debug_input
<1>8. ASSUME reply' \in {"none", "ok", "error", "state", "waiting"}, UNCHANGED <<at, session, input, steps, bps>>
      PROVE  IInv'
  BY <1>8 DEF session, input, TypeOK, RunsInProgram, InputConserved
<1>9. CASE handle_debug_step
  <2>1. running /\ StepThen("accept")
    BY <1>9 DEF handle_debug_step
  <2> QED
    BY <1>9, <2>1, StepThenKeeps DEF handle_debug_step, Answer, TypeOK, InputTyped
<1>10. CASE Continue
  <2>1. PICK n \in 0 .. MaxBreakpoints + 1 :
          \E l \in [1 .. n -> 0 .. Len(prog) - 1] : handle_debug_continue(l)
    BY <1>10 DEF Continue
  <2>2. PICK l \in [1 .. n -> 0 .. Len(prog) - 1] : handle_debug_continue(l)
    BY <2>1
  <2>3. bps' \subseteq Nat /\ 0 \in 0 .. MAX_CONTINUE_STEPS
    <3>1. \A i \in DOMAIN l : l[i] \in Nat
      OBVIOUS
    <3> QED
      BY <2>2, <3>1 DEF handle_debug_continue, parse_breakpoints
  <2> QED
    BY <2>2, <2>3 DEF handle_debug_continue, session, input, TypeOK, RunsInProgram, InputConserved
<1>11. CASE ContinueSteps
  <2>1. running /\ StepThen("continue") /\ steps' \in 0 .. MAX_CONTINUE_STEPS
    BY <1>11 DEF ContinueSteps, Goes, UnderCap, Counted, TypeOK
  <2> QED
    BY <1>11, <2>1, StepThenKeeps DEF ContinueSteps, TypeOK, InputTyped
<1>12. CASE ContinueEnds
  <2>1. 0 \in 0 .. MAX_CONTINUE_STEPS
    OBVIOUS
  <2> QED
    BY <1>12, <2>1 DEF ContinueEnds, session, input, TypeOK, RunsInProgram, InputConserved
<1> QED
  BY <1>2, <1>3, <1>4, <1>5, <1>6, <1>7, <1>8, <1>9, <1>10, <1>11, <1>12
     DEF Next, Start, StartFails, handle_debug_stop, MissingSource, NotActive, NotRunning, StepWaits, TypeOK

LEMMA Invariance == Spec => []IInv
  BY InitIInv, NextIInv, PTL DEF Spec
-----------------------------------------------------------------------------
(* TypeOK holds in every reachable state: in particular the pipe and       *)
(* stdio's buffer never hold more than they have room for, the program     *)
(* counter stays in the program and a continue stays under its cap.        *)
THEOREM TypeCorrect == Spec => []TypeOK
<1>1. IInv => TypeOK
  BY DEF IInv
<1> QED
  BY <1>1, Invariance, PTL

(* Input reaches the guest in order and without loss, whatever is sent     *)
(* when, however the guest reads it and however many sessions there are.   *)
THEOREM InputInOrder == Spec => []InputConserved
<1>1. IInv => InputConserved
  BY DEF IInv
<1> QED
  BY <1>1, Invariance, PTL
=============================================================================
