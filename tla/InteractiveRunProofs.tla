------------------------ MODULE InteractiveRunProofs ------------------------
(***************************************************************************)
(* Proofs about InteractiveRun for any number of process identifiers,      *)
(* any pipe size and any amount of output.                                 *)
(*                                                                         *)
(* Why nothing is lost: while a session is active each stream's output is, *)
(* as far as it is counted, in the pipe, in the handler's buffer or with   *)
(* the client (Conserved); the end of stdout is seen only once the guest   *)
(* is dead, so what stderr holds from then on is all it will ever hold     *)
(* (NothingAfterEof).                                                      *)
(***************************************************************************)
EXTENDS InteractiveRun, TLAPS

(* Inside a handler of the session there is a session.                     *)
InSession == at \in Streams \cup {"finish", "write"} => active

BufferEmpty == at \in {"sweep", "accept", "inside", "write"} => buf = Empty

Conserved ==
  active => \A s \in Streams : written[s] = Count(told[s] + buf[s] + pipe[s])

NothingAfterEof ==
  /\ at = "out" => ~eof
  /\ eof /\ at \in {"err", "finish"} => ~GuestAlive /\ pipe["out"] = 0
  /\ eof /\ at = "finish" => pipe["err"] = 0

BinaryOnDisk == active => files > 0

Reported == reply # NONE => ~active /\ told = written

IInv ==
  /\ TypeOK
  /\ NoOrphan
  /\ InSession
  /\ BufferEmpty
  /\ Conserved
  /\ NothingAfterEof
  /\ BinaryOnDisk
  /\ Reported

USE InteractiveRunAssumption

(* The initial state satisfies the invariant.                              *)
LEMMA InitIInv == Init => IInv
<1> SUFFICES ASSUME Init
             PROVE  IInv
  OBVIOUS
<1>1. TypeOK
  <2>1. Empty \in [Streams -> Nat]
    BY DEF Empty
  <2>2. role \in [Pids -> {"none", "guest", "worker"}] /\ exit \in [Pids -> ExitCodes \cup {0, ALIVE}]
    BY DEF Init
  <2>3. files \in Nat /\ leaked \in Nat /\ stdin \in Nat /\ stdin <= PipeSize
    BY DEF Init
  <2> QED
    BY <2>1, <2>2, <2>3 DEF Init, TypeOK
<1>2. NoOrphan /\ Reported
  BY DEF Init, NoOrphan, Reported
<1>3. InSession /\ BufferEmpty /\ Conserved /\ NothingAfterEof /\ BinaryOnDisk
  BY DEF Init, InSession, BufferEmpty, Conserved, NothingAfterEof, BinaryOnDisk, Streams
<1> QED
  BY <1>1, <1>2, <1>3 DEF IInv

(* irun_cleanup() leaves no guest running, and every other child alone.    *)
LEMMA CleanupLeavesNoGuest ==
  ASSUME IInv
  PROVE  /\ CleanedChildren \in [Pids -> {"none", "guest", "worker"}]
         /\ \A p \in Pids : CleanedChildren[p] = "guest" => exit[p] # ALIVE
BY DEF IInv, TypeOK, NoOrphan, CleanedChildren, Waited

(* irun_cleanup() unlinks a binary that is there.                          *)
LEMMA CleanupFiles ==
  ASSUME IInv
  PROVE  CleanedFiles \in Nat /\ CleanedFiles + 1 \in Nat /\ CleanedFiles + 1 > 0
BY DEF IInv, TypeOK, BinaryOnDisk, CleanedFiles

(* Every way a start or a stop ends keeps the invariant: a session is left *)
(* active only with its binary on disk, a guest only as the session's own. *)
LEMMA RestartIInv ==
  ASSUME IInv,
         at = "accept", at' = "sweep",
         role' \in [Pids -> {"none", "guest", "worker"}],
         exit' \in [Pids -> ExitCodes \cup {0, ALIVE}],
         files' \in Nat, leaked' \in Nat, active' \in BOOLEAN, pid' \in Pids \cup {NOBODY},
         active' => files' > 0,
         NoOrphan',
         ClosePipes, code' = NONE, reply' = NONE, UNCHANGED poll
  PROVE  IInv'
<1>1. TypeOK'
  <2>1. buf' \in [Streams -> Nat] /\ eof' \in BOOLEAN
    BY DEF IInv, TypeOK, poll
  <2>2. /\ pipe' \in [Streams -> Nat] /\ written' \in [Streams -> Nat]
        /\ told' \in [Streams -> Nat] /\ stdin' \in Nat /\ stdin' <= PipeSize
    BY DEF ClosePipes, Empty
  <2> QED
    BY <2>1, <2>2 DEF TypeOK
<1>2. InSession' /\ BufferEmpty' /\ NothingAfterEof'
  BY DEF IInv, InSession, BufferEmpty, NothingAfterEof, Streams, poll
<1>3. Conserved'
  <2>1. Count(0 + 0 + 0) = 0
    BY DEF Count
  <2> QED
    BY <2>1 DEF IInv, BufferEmpty, Conserved, ClosePipes, Streams, Empty, poll
<1>4. BinaryOnDisk' /\ Reported'
  BY DEF BinaryOnDisk, Reported
<1> QED
  BY <1>1, <1>2, <1>3, <1>4 DEF IInv

(* A step of a request keeps the invariant.                                *)
LEMMA RequestIInv == IInv /\ Request => IInv'
<1> SUFFICES ASSUME IInv, Request
             PROVE  IInv'
  OBVIOUS
<1>a. exit \in [Pids -> ExitCodes \cup {0, ALIVE}] /\ NOBODY \notin Pids
      /\ leaked \in Nat /\ leaked + 0 \in Nat /\ leaked + 1 \in Nat
  BY DEF IInv, TypeOK
<1>1. CASE StatelessRoute
  <2>1. PICK p \in Pids \cup {NOBODY} :
          \/ /\ p \in Pids /\ role[p] = "none"
             /\ role' = [role EXCEPT ![p] = "worker"]
             /\ exit' = [exit EXCEPT ![p] = ALIVE]
          \/ UNCHANGED children
    BY <1>1 DEF StatelessRoute
  <2>2. TypeOK'
    BY <1>1, <2>1 DEF StatelessRoute, IInv, TypeOK, session, streams, poll, children
  <2>3. \A q \in Pids : role'[q] = "guest" => role[q] = "guest" /\ exit'[q] = exit[q]
    BY <2>1 DEF IInv, TypeOK, children
  <2>4. NoOrphan'
    BY <1>1, <2>3 DEF StatelessRoute, IInv, NoOrphan, session
  <2>5. InSession' /\ BufferEmpty' /\ NothingAfterEof' /\ Conserved' /\ BinaryOnDisk' /\ Reported'
    BY <1>1 DEF StatelessRoute, IInv, InSession, BufferEmpty, NothingAfterEof, Conserved,
       BinaryOnDisk, Reported, session, streams, poll, Streams
  <2> QED
    BY <2>2, <2>4, <2>5 DEF IInv
<1>2. CASE handle_irun_stop
  <2>1. NoOrphan'
    BY <1>2, CleanupLeavesNoGuest DEF handle_irun_stop, NoOrphan
  <2> QED
    BY <1>2, <1>a, <2>1, CleanupLeavesNoGuest, CleanupFiles, RestartIInv DEF handle_irun_stop
<1>3. CASE StartForks
  <2>1. PICK p \in Pids :
          /\ CleanedChildren[p] = "none"
          /\ StartIn([CleanedChildren EXCEPT ![p] = "guest"], [exit EXCEPT ![p] = ALIVE],
                     CleanedFiles + 1, TRUE, p, 0)
    BY <1>3 DEF StartForks
  <2>2. /\ role' = [CleanedChildren EXCEPT ![p] = "guest"]
        /\ exit' = [exit EXCEPT ![p] = ALIVE]
        /\ files' = CleanedFiles + 1
        /\ active' = TRUE /\ pid' = p
    BY <2>1 DEF StartIn
  <2>3. role' \in [Pids -> {"none", "guest", "worker"}] /\ exit' \in [Pids -> ExitCodes \cup {0, ALIVE}]
    BY <1>a, <2>2, CleanupLeavesNoGuest
  <2>4. NoOrphan'
    BY <1>a, <2>2, CleanupLeavesNoGuest DEF NoOrphan
  <2> QED
    BY <1>a, <2>1, <2>2, <2>3, <2>4, CleanupFiles, RestartIInv DEF StartIn
<1>4. CASE AssemblyFails
  <2>1. NoOrphan'
    BY <1>4, CleanupLeavesNoGuest DEF AssemblyFails, StartIn, NoOrphan
  <2> QED
    BY <1>4, <1>a, <2>1, CleanupLeavesNoGuest, CleanupFiles, RestartIInv
       DEF AssemblyFails, BinaryUnlinked, StartIn
<1>5. CASE PipeFails
  <2>1. NoOrphan'
    BY <1>5, CleanupLeavesNoGuest DEF PipeFails, StartIn, NoOrphan
  <2> QED
    BY <1>5, <1>a, <2>1, CleanupLeavesNoGuest, CleanupFiles, RestartIInv DEF PipeFails, StartIn
<1>6. CASE ForkFails
  <2>1. NoOrphan'
    BY <1>6, CleanupLeavesNoGuest DEF ForkFails, StartIn, NoOrphan
  <2> QED
    BY <1>6, <1>a, <2>1, CleanupLeavesNoGuest, CleanupFiles, RestartIInv DEF ForkFails, StartIn
<1>7. CASE OtherRequest
  <2>1. TypeOK' /\ NoOrphan' /\ Reported' /\ Conserved' /\ BinaryOnDisk'
    BY <1>7 DEF OtherRequest, IInv, TypeOK, NoOrphan, Reported, Conserved, BinaryOnDisk,
       session, streams, poll, children
  <2>2. InSession' /\ BufferEmpty' /\ NothingAfterEof'
    BY <1>7 DEF OtherRequest, IInv, InSession, BufferEmpty, NothingAfterEof, Streams, session, poll
  <2> QED
    BY <2>1, <2>2 DEF IInv
<1>8. CASE Inside
  <2>1. TypeOK' /\ NoOrphan' /\ Reported' /\ Conserved' /\ BinaryOnDisk'
    BY <1>8 DEF Inside, IInv, TypeOK, NoOrphan, Reported, Conserved, BinaryOnDisk,
       session, streams, poll, children
  <2>2. InSession' /\ BufferEmpty' /\ NothingAfterEof'
    BY <1>8 DEF Inside, IInv, InSession, BufferEmpty, NothingAfterEof, Streams, session, poll
  <2> QED
    BY <2>1, <2>2 DEF IInv
<1>9. CASE InsideReturns
  <2>1. /\ role' \in [Pids -> {"none", "guest", "worker"}]
        /\ \A q \in Pids : role'[q] = "guest" => role[q] = "guest"
    BY <1>9 DEF InsideReturns, Waited, IInv, TypeOK
  <2>2. TypeOK' /\ NoOrphan'
    BY <1>9, <2>1 DEF InsideReturns, IInv, TypeOK, NoOrphan, session, streams, poll
  <2>3. InSession' /\ BufferEmpty' /\ NothingAfterEof' /\ Conserved' /\ BinaryOnDisk' /\ Reported'
    BY <1>9 DEF InsideReturns, IInv, InSession, BufferEmpty, NothingAfterEof, Conserved,
       BinaryOnDisk, Reported, Streams, session, streams, poll
  <2> QED
    BY <2>2, <2>3 DEF IInv
<1>10. CASE handle_irun_input
  <2>1. TypeOK'
    BY <1>10 DEF handle_irun_input, IInv, TypeOK, session, streams, poll, children
  <2>2. NoOrphan' /\ Reported' /\ Conserved' /\ BinaryOnDisk'
    BY <1>10 DEF handle_irun_input, IInv, NoOrphan, Reported, Conserved, BinaryOnDisk,
       session, streams, poll, children
  <2>3. InSession' /\ BufferEmpty' /\ NothingAfterEof'
    BY <1>10 DEF handle_irun_input, IInv, InSession, BufferEmpty, NothingAfterEof, Streams,
       session, poll
  <2> QED
    BY <2>1, <2>2, <2>3 DEF IInv
<1>11. CASE handle_irun_poll
  <2>1. TypeOK'
    <3>1. at' = "out" /\ eof' = FALSE /\ buf' \in [Streams -> Nat]
      BY <1>11 DEF handle_irun_poll, DrainOrder, Empty
    <3> QED
      BY <1>11, <3>1 DEF handle_irun_poll, IInv, TypeOK, Streams, session, streams, children
  <2>2. NoOrphan' /\ Reported' /\ BinaryOnDisk'
    BY <1>11 DEF handle_irun_poll, IInv, NoOrphan, Reported, BinaryOnDisk, session, streams, children
  <2>3. InSession' /\ BufferEmpty' /\ NothingAfterEof'
    BY <1>11 DEF handle_irun_poll, DrainOrder, IInv, InSession, BufferEmpty, NothingAfterEof,
       Streams, session
  <2>4. Conserved'
    BY <1>11 DEF handle_irun_poll, IInv, BufferEmpty, Conserved, session, streams
  <2> QED
    BY <2>1, <2>2, <2>3, <2>4 DEF IInv
<1> QED
  BY <1>1, <1>2, <1>3, <1>4, <1>5, <1>6, <1>7, <1>8, <1>9, <1>10, <1>11 DEF Request

(* A step of the server inside a handler, or of its sweep, keeps the       *)
(* invariant: the poll that reports an end has drained both streams after  *)
(* the guest was dead.                                                     *)
LEMMA HandleIInv == IInv /\ Handle => IInv'
<1> SUFFICES ASSUME IInv, Handle
             PROVE  IInv'
  OBVIOUS
<1>1. CASE Sweep
  <2>1. PICK p \in Zombies : role' = Waited(p)
    BY <1>1 DEF Sweep
  <2>2. TypeOK'
    BY <1>1, <2>1 DEF Sweep, Waited, IInv, TypeOK, session, streams, poll
  <2>3. NoOrphan'
    BY <1>1, <2>1 DEF Sweep, Waited, Zombies, IInv, NoOrphan, session
  <2>4. InSession' /\ BufferEmpty' /\ NothingAfterEof' /\ Conserved' /\ BinaryOnDisk' /\ Reported'
    BY <1>1 DEF Sweep, IInv, InSession, BufferEmpty, NothingAfterEof, Conserved, BinaryOnDisk,
       Reported, session, streams, poll, Streams
  <2> QED
    BY <2>2, <2>3, <2>4 DEF IInv
<1>2. CASE SweepEnds
  <2>1. TypeOK' /\ NoOrphan' /\ Conserved' /\ BinaryOnDisk' /\ Reported'
    BY <1>2 DEF SweepEnds, IInv, TypeOK, NoOrphan, Conserved, BinaryOnDisk, Reported,
       session, streams, poll, children
  <2>2. InSession' /\ BufferEmpty' /\ NothingAfterEof'
    BY <1>2 DEF SweepEnds, IInv, InSession, BufferEmpty, NothingAfterEof, Streams, session, poll
  <2> QED
    BY <2>1, <2>2 DEF IInv
<1>3. CASE write_all
  <2>1. stdin' \in Nat /\ stdin' <= PipeSize
    BY <1>3 DEF write_all, IInv, TypeOK
  <2>2. TypeOK'
    BY <1>3, <2>1 DEF write_all, IInv, TypeOK, session, poll, children
  <2>3. NoOrphan' /\ Conserved' /\ BinaryOnDisk' /\ Reported'
    BY <1>3 DEF write_all, IInv, NoOrphan, Conserved, BinaryOnDisk, Reported, session, poll, children
  <2>4. InSession' /\ BufferEmpty' /\ NothingAfterEof'
    BY <1>3 DEF write_all, IInv, InSession, BufferEmpty, NothingAfterEof, Streams, session, poll
  <2> QED
    BY <2>2, <2>3, <2>4 DEF IInv
<1>4. CASE Drain
  <2>1. active /\ at \in Streams /\ pipe[at] \in Nat /\ pipe[at] > 0 /\ pipe[at] - 1 \in Nat
    BY <1>4 DEF Drain, IInv, TypeOK, InSession
  <2>2. pipe' \in [Streams -> Nat] /\ buf' \in [Streams -> Nat]
    <3>1. Count(buf[at] + 1) \in Nat
      <4>1. buf[at] + 1 \in Nat
        BY <2>1 DEF IInv, TypeOK
      <4> QED
        BY <4>1 DEF Count
    <3> QED
      BY <1>4, <2>1, <3>1 DEF Drain, IInv, TypeOK
  <2>3. TypeOK'
    BY <1>4, <2>2 DEF Drain, IInv, TypeOK, session, children
  <2>4. Conserved'
    <3> SUFFICES ASSUME NEW s \in Streams
                 PROVE  written[s] = Count(told[s] + buf'[s] + pipe'[s])
      BY <1>4 DEF Drain, Conserved
    <3>1. told[s] \in Nat /\ buf[s] \in Nat /\ pipe[s] \in Nat
      BY DEF IInv, TypeOK
    <3>2. written[s] = Count(told[s] + buf[s] + pipe[s])
      BY <2>1 DEF IInv, Conserved
    <3>3. CASE s = at
      <4>1. buf'[s] = Count(buf[s] + 1) /\ pipe'[s] = pipe[s] - 1
        BY <1>4, <3>3 DEF Drain, IInv, TypeOK
      <4>2. pipe[s] > 0
        BY <2>1, <3>3
      <4> QED
        BY <3>1, <3>2, <4>1, <4>2 DEF Count
    <3>4. CASE s # at
      <4>1. buf'[s] = buf[s] /\ pipe'[s] = pipe[s]
        BY <1>4, <3>4 DEF Drain, IInv, TypeOK
      <4> QED
        BY <3>2, <4>1
    <3> QED
      BY <3>3, <3>4
  <2>5. NoOrphan' /\ InSession' /\ BinaryOnDisk' /\ Reported'
    BY <1>4, <2>1 DEF Drain, IInv, NoOrphan, InSession, BinaryOnDisk, Reported, session, children
  <2>6. BufferEmpty' /\ NothingAfterEof'
    BY <1>4, <2>1 DEF Drain, IInv, TypeOK, BufferEmpty, NothingAfterEof, GuestAlive, Streams, children
  <2> QED
    BY <2>3, <2>4, <2>5, <2>6 DEF IInv
<1>5. CASE DrainEnds
  <2>1. at \in Streams /\ pipe[at] = 0 /\ at' = IF at = "out" THEN "err" ELSE "finish"
    BY <1>5 DEF DrainEnds, DrainOrder
  <2>2. TypeOK'
    BY <1>5, <2>1 DEF DrainEnds, IInv, TypeOK, Streams, session, streams, children
  <2>3. NothingAfterEof'
    BY <1>5, <2>1 DEF DrainEnds, IInv, NothingAfterEof, GuestAlive, Streams, streams, children
  <2>4. InSession' /\ BufferEmpty'
    BY <1>5, <2>1 DEF DrainEnds, IInv, InSession, BufferEmpty, Streams, session
  <2>5. NoOrphan' /\ Conserved' /\ BinaryOnDisk' /\ Reported'
    BY <1>5 DEF DrainEnds, IInv, NoOrphan, Conserved, BinaryOnDisk, Reported, session, streams, children
  <2> QED
    BY <2>2, <2>3, <2>4, <2>5 DEF IInv
<1>6. CASE PollRunning
  <2>1. active /\ Delivered \in [Streams -> Nat] /\ Empty \in [Streams -> Nat]
    BY <1>6 DEF PollRunning, IInv, TypeOK, InSession, Delivered, Empty, Count
  <2>2. TypeOK'
    BY <1>6, <2>1 DEF PollRunning, IInv, TypeOK, session, children
  <2>3. Conserved'
    <3> SUFFICES ASSUME NEW s \in Streams
                 PROVE  written'[s] = Count(told'[s] + buf'[s] + pipe'[s])
      BY DEF Conserved
    <3>1. told[s] \in Nat /\ buf[s] \in Nat /\ pipe[s] \in Nat
      BY DEF IInv, TypeOK
    <3>2. written[s] = Count(told[s] + buf[s] + pipe[s])
      BY <2>1 DEF IInv, Conserved
    <3>3. /\ written' = written /\ pipe' = pipe
          /\ told'[s] = Count(told[s] + buf[s]) /\ buf'[s] = 0
      BY <1>6 DEF PollRunning, Delivered, Empty
    <3> QED
      BY <3>1, <3>2, <3>3 DEF Count
  <2>4. NoOrphan' /\ BinaryOnDisk' /\ Reported'
    BY <1>6, <2>1 DEF PollRunning, IInv, NoOrphan, BinaryOnDisk, Reported, session, children
  <2>5. InSession' /\ BufferEmpty' /\ NothingAfterEof'
    BY <1>6 DEF PollRunning, InSession, BufferEmpty, NothingAfterEof, Streams
  <2> QED
    BY <2>2, <2>3, <2>4, <2>5 DEF IInv
<1>7. CASE PollEnded
  <2>1. PICK p \in Pids \cup {NOBODY}, status \in ExitCodes \cup {0, 1} :
          /\ Reap(p, status)
          /\ role' = Waited(p)
          /\ reply' = status
    BY <1>7 DEF PollEnded
  <2>2. active /\ files > 0 /\ ~GuestAlive /\ pipe["out"] = 0 /\ pipe["err"] = 0
    BY <1>7 DEF PollEnded, IInv, InSession, NothingAfterEof, BinaryOnDisk
  <2>3. told' = written' /\ written' = written
    <3>1. \A s \in Streams : Delivered[s] = written[s]
      BY <2>2 DEF IInv, TypeOK, Conserved, Delivered, Streams, Count
    <3>2. Delivered = written
      BY <3>1 DEF IInv, TypeOK, Delivered
    <3> QED
      BY <1>7, <3>2 DEF PollEnded
  <2>4. role' \in [Pids -> {"none", "guest", "worker"}]
    BY <2>1 DEF Waited, IInv, TypeOK
  <2>5. TypeOK'
    <3>1. files' \in Nat /\ leaked' \in Nat /\ Empty \in [Streams -> Nat]
      BY <1>7, <2>2 DEF PollEnded, IInv, TypeOK, Empty
    <3>2. exit' \in [Pids -> ExitCodes \cup {0, ALIVE}] /\ code' \in ExitCodes \cup {NONE}
          /\ reply' \in ExitCodes \cup {0, 1, NONE}
      BY <1>7, <2>1 DEF PollEnded, IInv, TypeOK
    <3>3. /\ pipe' \in [Streams -> Nat] /\ written' \in [Streams -> Nat]
          /\ buf' \in [Streams -> Nat] /\ told' \in [Streams -> Nat]
          /\ stdin' \in Nat /\ stdin' <= PipeSize
      BY <1>7, <2>3, <3>1 DEF PollEnded, IInv, TypeOK
    <3>4. at' = "sweep" /\ active' = FALSE /\ pid' = NOBODY /\ eof' \in BOOLEAN
      BY <1>7 DEF PollEnded, IInv, TypeOK
    <3> QED
      BY <2>4, <3>1, <3>2, <3>3, <3>4 DEF TypeOK
  <2>6. NoOrphan'
    BY <1>7, <2>1, <2>2 DEF PollEnded, Waited, NoOrphan, GuestAlive
  <2>7. InSession' /\ BufferEmpty' /\ NothingAfterEof'
    BY <1>7 DEF PollEnded, InSession, BufferEmpty, NothingAfterEof, Streams
  <2>8. Conserved' /\ BinaryOnDisk' /\ Reported'
    BY <1>7, <2>3 DEF PollEnded, Conserved, BinaryOnDisk, Reported
  <2> QED
    BY <2>5, <2>6, <2>7, <2>8 DEF IInv
<1> QED
  BY <1>1, <1>2, <1>3, <1>4, <1>5, <1>6, <1>7 DEF Handle

(* A step of the guest or of a worker keeps the invariant: only a guest    *)
(* that is running writes, and then the session is active and not at eof.  *)
LEMMA ChildIInv == IInv /\ Child => IInv'
<1> SUFFICES ASSUME IInv, Child
             PROVE  IInv'
  OBVIOUS
<1>a. GuestAlive => active
  BY DEF IInv, NoOrphan, GuestAlive
<1>1. ASSUME NEW s \in Streams, GuestWrites(s)
      PROVE  IInv'
  <2>1. active /\ GuestAlive /\ reply = NONE
    BY <1>1, <1>a DEF GuestWrites, IInv, Reported
  <2>2. pipe' \in [Streams -> Nat] /\ written' \in [Streams -> Nat]
    BY <1>1 DEF GuestWrites, IInv, TypeOK, Count
  <2>3. TypeOK'
    BY <1>1, <2>2 DEF GuestWrites, IInv, TypeOK, session, poll, children
  <2>4. Conserved'
    <3> SUFFICES ASSUME NEW t \in Streams
                 PROVE  written'[t] = Count(told[t] + buf[t] + pipe'[t])
      BY <1>1 DEF GuestWrites, Conserved, poll
    <3>1. told[t] \in Nat /\ buf[t] \in Nat /\ pipe[t] \in Nat
      BY DEF IInv, TypeOK
    <3>2. written[t] = Count(told[t] + buf[t] + pipe[t])
      BY <2>1 DEF IInv, Conserved
    <3>3. CASE t = s
      <4>1. written'[t] = Count(written[t] + 1) /\ pipe'[t] = pipe[t] + 1
        BY <1>1, <3>3 DEF GuestWrites, IInv, TypeOK
      <4> QED
        BY <3>1, <3>2, <4>1 DEF Count
    <3>4. CASE t # s
      <4>1. written'[t] = written[t] /\ pipe'[t] = pipe[t]
        BY <1>1, <3>4 DEF GuestWrites, IInv, TypeOK
      <4> QED
        BY <3>2, <4>1
    <3> QED
      BY <3>3, <3>4
  <2>5. NoOrphan' /\ InSession' /\ BufferEmpty' /\ BinaryOnDisk'
    BY <1>1 DEF GuestWrites, IInv, NoOrphan, InSession, BufferEmpty, BinaryOnDisk, Streams,
       session, poll, children
  <2>6. NothingAfterEof' /\ Reported'
    BY <1>1, <2>1 DEF GuestWrites, IInv, NothingAfterEof, Reported, poll
  <2> QED
    BY <2>3, <2>4, <2>5, <2>6 DEF IInv
<1>2. CASE GuestReads
  <2>1. stdin' \in Nat /\ stdin' <= PipeSize
    BY <1>2 DEF GuestReads, IInv, TypeOK
  <2>2. TypeOK'
    BY <1>2, <2>1 DEF GuestReads, IInv, TypeOK, session, poll, children
  <2>3. NoOrphan' /\ InSession' /\ BufferEmpty' /\ NothingAfterEof' /\ Conserved' /\ BinaryOnDisk' /\ Reported'
    BY <1>2 DEF GuestReads, IInv, NoOrphan, InSession, BufferEmpty, NothingAfterEof, Conserved,
       BinaryOnDisk, Reported, GuestAlive, Streams, session, poll, children
  <2> QED
    BY <2>2, <2>3 DEF IInv
<1>3. ASSUME NEW p \in Pids, NEW c \in ExitCodes \cup {0},
             exit' = [exit EXCEPT ![p] = c], role' = role, exit[p] = ALIVE,
             code' \in ExitCodes \cup {NONE},
             UNCHANGED <<at, session, streams, poll, reply>>
      PROVE  IInv'
  <2>1. TypeOK'
    BY <1>3 DEF IInv, TypeOK, session, streams, poll
  <2>2. \A q \in Pids : exit'[q] = ALIVE => exit[q] = ALIVE
    BY <1>3 DEF IInv, TypeOK
  <2>3. NoOrphan'
    BY <1>3, <2>2 DEF IInv, NoOrphan, session
  <2>4. GuestAlive' => GuestAlive
    BY <1>3, <2>2 DEF GuestAlive
  <2>5. InSession' /\ BufferEmpty' /\ NothingAfterEof' /\ Conserved' /\ BinaryOnDisk' /\ Reported'
    BY <1>3, <2>4 DEF IInv, InSession, BufferEmpty, NothingAfterEof, Conserved, BinaryOnDisk,
       Reported, session, streams, poll, Streams
  <2> QED
    BY <2>1, <2>3, <2>5 DEF IInv
<1>4. CASE GuestExits
  BY <1>3, <1>4 DEF GuestExits
<1>5. CASE WorkerExits
  BY <1>3, <1>5 DEF WorkerExits, IInv, TypeOK
<1> QED
  BY <1>1, <1>2, <1>4, <1>5 DEF Child

(* The invariant is inductive.                                             *)
LEMMA InductiveInvariant == Spec => []IInv
<1>1. IInv /\ [Next]_vars => IInv'
  <2> SUFFICES ASSUME IInv, [Next]_vars
               PROVE  IInv'
    OBVIOUS
  <2>1. CASE UNCHANGED vars
    BY <2>1 DEF vars, session, children, streams, poll, IInv, TypeOK, NoOrphan, InSession,
       BufferEmpty, Conserved, NothingAfterEof, BinaryOnDisk, Reported, GuestAlive
  <2> QED
    BY <2>1, RequestIInv, HandleIInv, ChildIInv DEF Next
<1> QED
  BY <1>1, InitIInv, PTL DEF Spec
-----------------------------------------------------------------------------
(* Every variable keeps its type, whatever the sizes and however many      *)
(* processes.                                                              *)
THEOREM TypeCorrect == Spec => []TypeOK
BY InductiveInvariant, PTL DEF IInv

(* Nothing a program wrote is missing when the client is told it ended:    *)
(* the claim of the order in which handle_irun_poll() drains and reaps.    *)
THEOREM NothingLost == Spec => []OutputComplete
<1>1. IInv => OutputComplete
  BY DEF IInv, Reported, OutputComplete
<1> QED
  BY <1>1, InductiveInvariant, PTL

(* No guest is left running without its session: what every start and      *)
(* every stop rely on irun_cleanup() for.                                  *)
THEOREM NoGuestOrphaned == Spec => []NoOrphan
BY InductiveInvariant, PTL DEF IInv

(* The temporary binaries on disk are the active session's and the ones    *)
(* left by starts whose pipe() failed, however starts, stops and ends      *)
(* follow each other.                                                      *)
THEOREM BinariesAccounted == Spec => []BinariesOwned
<1>1. Init => BinariesOwned
  BY DEF Init, BinariesOwned
<1>2. IInv /\ BinariesOwned /\ [Next]_vars => BinariesOwned'
  <2> SUFFICES ASSUME IInv, BinariesOwned, [Next]_vars
               PROVE  BinariesOwned'
    OBVIOUS
  <2>1. CleanedFiles = leaked /\ leaked \in Nat
    BY DEF BinariesOwned, CleanedFiles, IInv, TypeOK
  <2>2. CASE handle_irun_stop \/ StartForks \/ AssemblyFails \/ PipeFails \/ ForkFails
    BY <2>1, <2>2 DEF handle_irun_stop, StartForks, AssemblyFails, PipeFails, ForkFails, StartIn,
       BinaryUnlinked, BinariesOwned
  <2>3. CASE PollEnded
    BY <2>1, <2>3 DEF PollEnded, BinariesOwned, IInv, InSession
  <2>4. CASE UNCHANGED session
    BY <2>4 DEF session, BinariesOwned
  <2>5. CASE UNCHANGED vars
    BY <2>5 DEF vars, session, BinariesOwned
  <2> QED
    BY <2>2, <2>3, <2>4, <2>5 DEF Next, Handle, Request, Child, Sweep, SweepEnds, write_all, Drain,
       DrainEnds, PollRunning, StatelessRoute, OtherRequest, Inside, InsideReturns, handle_irun_input, handle_irun_poll, GuestWrites,
       GuestReads, GuestExits, WorkerExits
<1> QED
  BY <1>1, <1>2, InductiveInvariant, PTL DEF Spec
=============================================================================
