--------------------------- MODULE InteractiveRun ---------------------------
(***************************************************************************)
(* The /irun session of the IDE server (src/server.c): a single-threaded   *)
(* accept loop that sweeps finished children, forks a worker for each      *)
(* stateless route and serves the session itself; the guest, a child with  *)
(* pipes for its three streams, runs all the while.  A request is handled  *)
(* to its end before the next one is accepted; what can happen in between  *)
(* (the guest writing, dying) is why the handlers are several steps.       *)
(*                                                                         *)
(* Data is counted in chunks: how many a stream's pipe holds, how many the *)
(* client has been given; a guest may print for ever, so the counts stop   *)
(* at MaxChunks.  A process identifier may be handed out again once its    *)
(* process has been waited for.                                            *)
(***************************************************************************)
EXTENDS Integers, FiniteSets

CONSTANTS
  Pids,       \* process identifiers
  ExitCodes,  \* what guests exit with
  PipeSize,   \* chunks a pipe holds
  MaxChunks,  \* bound: chunks of one stream that are counted
  MaxLeaks,   \* bound: binaries that starts without pipes leave on disk
  Failures,   \* which steps of a start may fail
  NOBODY,     \* g_irun.pid = -1
  ALIVE,      \* the exit status of a process that has none yet
  NONE

ASSUME InteractiveRunAssumption ==
  /\ ExitCodes \subseteq Nat
  /\ PipeSize \in Nat \ {0}
  /\ MaxChunks \in Nat /\ MaxLeaks \in Nat
  /\ NOBODY \notin Pids
  /\ ALIVE \notin Nat /\ NONE \notin Nat

VARIABLES
  at,       \* where the server is: sweep, accept, write, in a poll draining
            \* "out" or "err" or about to finish it, or inside a guest
  active, pid,  \* g_irun
  files,    \* temporary binaries on disk
  leaked,   \* how many of them starts without pipes left (history)
  role, exit,   \* the server's children, and the status each exited with
  stdin,    \* chunks in the guest's stdin pipe
  pipe,     \* chunks in its stdout and stderr pipes
  written,  \* chunks it has written to each
  buf, eof, \* out_buf and err_buf, stdout_eof
  told,     \* chunks the client has been given of each
  code,     \* what the session's guest exited with, or NONE
  reply     \* the exit code the client has been told, or NONE

session == <<active, pid, files, leaked>>
children == <<role, exit>>
streams == <<stdin, pipe, written, told>>
poll == <<buf, eof>>
vars == <<at, session, children, streams, poll, code, reply>>

Streams == {"out", "err"}
Empty == [s \in Streams |-> 0]

Count(n) == IF n < MaxChunks THEN n ELSE MaxChunks

Alive(p) == role[p] # "none" /\ exit[p] = ALIVE
Zombies == {p \in Pids : role[p] # "none" /\ exit[p] # ALIVE}
GuestAlive == \E p \in Pids : role[p] = "guest" /\ exit[p] = ALIVE

Init ==
  /\ at = "sweep"
  /\ active = FALSE /\ pid = NOBODY /\ files = 0 /\ leaked = 0
  /\ role = [p \in Pids |-> "none"] /\ exit = [p \in Pids |-> ALIVE]
  /\ stdin = 0 /\ pipe = Empty /\ written = Empty /\ told = Empty
  /\ buf = Empty /\ eof = FALSE
  /\ code = NONE /\ reply = NONE
-----------------------------------------------------------------------------
(* serverStart(): the sweep, waitpid(-1, NULL, WNOHANG) until nothing is   *)
(* left to reap, then the next request.                                    *)

Waited(p) == [q \in Pids |-> IF q = p THEN "none" ELSE role[q]]

Sweep ==
  /\ at = "sweep"
  /\ \E p \in Zombies : role' = Waited(p)
  /\ UNCHANGED <<at, session, exit, streams, poll, code, reply>>

SweepEnds ==
  /\ at = "sweep"
  /\ Zombies = {}
  /\ at' = "accept"
  /\ UNCHANGED <<session, children, streams, poll, code, reply>>

(* A stateless route: the parent forks a worker and moves on.              *)
StatelessRoute ==
  /\ at = "accept"
  /\ \E p \in Pids :
       /\ role[p] = "none"
       /\ role' = [role EXCEPT ![p] = "worker"]
       /\ exit' = [exit EXCEPT ![p] = ALIVE]
  /\ at' = "sweep"
  /\ UNCHANGED <<session, streams, poll, code, reply>>

(* Requests the parent answers without touching any of this: a connection  *)
(* that sends nothing, a start without a source, input or a poll with no   *)
(* session, the debugger's with none.                                      *)
OtherRequest ==
  /\ at = "accept"
  /\ at' = "sweep"
  /\ UNCHANGED <<session, children, streams, poll, code, reply>>

(* Requests that run a guest, or write to one, inside the server: the      *)
(* debugger's, and a stateless route when the fork fails.  They return     *)
(* when and if that guest lets them; run_vm_argv(), if its own fork fails  *)
(* too, waits for any child at all.                                        *)
Inside ==
  /\ at = "accept"
  /\ at' = "inside"
  /\ UNCHANGED <<session, children, streams, poll, code, reply>>

InsideReturns ==
  /\ at = "inside"
  /\ role' = role \/ \E p \in Zombies : role' = Waited(p)
  /\ at' = "sweep"
  /\ UNCHANGED <<session, exit, streams, poll, code, reply>>
-----------------------------------------------------------------------------
(* irun_cleanup(): whoever now has the identifier g_irun.pid is killed and *)
(* waited for; the pipes are closed and the binary is unlinked.            *)

(* Mutant: a new session does not clean up the one before it.              *)
GuestForgotten == role
CleanedChildren == IF active THEN Waited(pid) ELSE role
(* Mutant: it unlinks without looking whether a session is active.         *)
UnlinkedAnyway == files - 1
CleanedFiles == IF active THEN files - 1 ELSE files

ClosePipes == stdin' = 0 /\ pipe' = Empty /\ written' = Empty /\ told' = Empty

handle_irun_stop ==
  /\ at = "accept"
  /\ role' = CleanedChildren
  /\ files' = CleanedFiles
  /\ active' = FALSE
  /\ pid' = NOBODY
  /\ ClosePipes
  /\ code' = NONE /\ reply' = NONE
  /\ at' = "sweep"
  /\ UNCHANGED <<exit, poll, leaked>>

(* handle_irun_start(): cleanup, then the program is assembled to a new    *)
(* temporary file, then the pipes, then the fork.                          *)
StartIn(newRole, newExit, newFiles, isActive, newPid, leaks) ==
  /\ at = "accept"
  /\ role' = newRole /\ exit' = newExit
  /\ files' = newFiles /\ leaked' = leaked + leaks
  /\ active' = isActive /\ pid' = newPid
  /\ ClosePipes
  /\ code' = NONE /\ reply' = NONE
  /\ at' = "sweep"
  /\ UNCHANGED poll

StartForks ==
  \E p \in Pids :
    /\ CleanedChildren[p] = "none"
    /\ StartIn([CleanedChildren EXCEPT ![p] = "guest"], [exit EXCEPT ![p] = ALIVE],
               CleanedFiles + 1, TRUE, p, 0)

(* A program that does not assemble: its file is unlinked, no session.     *)
(* Mutant: it is not.                                                      *)
BinaryLeft == CleanedFiles + 1
BinaryUnlinked == CleanedFiles

AssemblyFails ==
  /\ "assemble" \in Failures
  /\ StartIn(CleanedChildren, exit, BinaryUnlinked, FALSE, NOBODY, 0)

(* No pipe: the handler returns at once, and leaves the file.              *)
PipeFails ==
  /\ "pipe" \in Failures
  /\ leaked < MaxLeaks
  /\ StartIn(CleanedChildren, exit, CleanedFiles + 1, FALSE, NOBODY, 1)

(* fork() returns -1, which is stored like any other pid.                  *)
ForkFails ==
  /\ "fork" \in Failures
  /\ StartIn(CleanedChildren, exit, CleanedFiles + 1, TRUE, NOBODY, 0)
-----------------------------------------------------------------------------
(* handle_irun_input(): write_all() blocks while the pipe is full, and     *)
(* gives up when there is no reader.                                       *)

handle_irun_input ==
  /\ at = "accept"
  /\ active
  /\ at' = "write"
  /\ UNCHANGED <<session, children, streams, poll, code, reply>>

(* Mutant: write_all() retries after every error, not only EINTR.          *)
WriteRetried ==
  /\ at = "write"
  /\ GuestAlive /\ stdin < PipeSize
  /\ stdin' = stdin + 1
  /\ at' = "sweep"
  /\ UNCHANGED <<session, children, pipe, written, told, poll, code, reply>>

write_all ==
  /\ at = "write"
  /\ \/ GuestAlive /\ stdin < PipeSize /\ stdin' = stdin + 1
     \/ ~GuestAlive /\ UNCHANGED stdin
  /\ at' = "sweep"
  /\ UNCHANGED <<session, children, pipe, written, told, poll, code, reply>>
-----------------------------------------------------------------------------
(* handle_irun_poll(): stdout is drained until it is empty or at its end,  *)
(* then stderr; at the end of stdout the guest is waited for.              *)

(* Mutant: stderr is drained before stdout.                                *)
ErrFirst == <<"err", "out">>
DrainOrder == <<"out", "err">>

handle_irun_poll ==
  /\ at = "accept"
  /\ active
  /\ at' = DrainOrder[1]
  /\ buf' = Empty /\ eof' = FALSE
  /\ UNCHANGED <<session, children, streams, code, reply>>

Drain ==
  /\ at \in Streams
  /\ pipe[at] > 0
  /\ pipe' = [pipe EXCEPT ![at] = @ - 1]
  /\ buf' = [buf EXCEPT ![at] = Count(@ + 1)]
  /\ UNCHANGED <<at, session, children, stdin, written, told, eof, code, reply>>

DrainEnds ==
  /\ at \in Streams
  /\ pipe[at] = 0
  /\ eof' = IF at = "out" THEN ~GuestAlive ELSE eof
  /\ at' = IF at = DrainOrder[1] THEN DrainOrder[2] ELSE "finish"
  /\ UNCHANGED <<session, children, streams, buf, code, reply>>

Delivered == [s \in Streams |-> Count(told[s] + buf[s])]

PollRunning ==
  /\ at = "finish"
  /\ ~eof
  /\ told' = Delivered
  /\ buf' = Empty
  /\ at' = "sweep"
  /\ UNCHANGED <<session, children, stdin, pipe, written, eof, code, reply>>

(* waitpid(g_irun.pid, &status, 0): blocks until that child has exited.    *)
(* With no such child it fails and leaves status 0; with -1 it waits for   *)
(* any child at all.                                                       *)
Reap(p, status) ==
  \/ p \in Zombies /\ (pid = p \/ pid = NOBODY) /\ status = exit[p]
  \/ p = NOBODY /\ status = 0
       /\ (pid \in Pids => role[pid] = "none")
       /\ (pid = NOBODY => \A q \in Pids : role[q] = "none")

PollEnded ==
  /\ at = "finish"
  /\ eof
  /\ \E p \in Pids \cup {NOBODY}, status \in ExitCodes \cup {0, 1} :
       /\ Reap(p, status)
       /\ role' = Waited(p)
       /\ reply' = status
  /\ active' = FALSE /\ pid' = NOBODY /\ files' = files - 1
  /\ told' = Delivered
  /\ buf' = Empty
  /\ stdin' = 0 /\ pipe' = Empty
  /\ at' = "sweep"
  /\ UNCHANGED <<leaked, exit, written, eof, code>>
-----------------------------------------------------------------------------
(* The children.                                                           *)

GuestWrites(s) ==
  /\ GuestAlive
  /\ pipe[s] < PipeSize
  /\ pipe' = [pipe EXCEPT ![s] = @ + 1]
  /\ written' = [written EXCEPT ![s] = Count(@ + 1)]
  /\ UNCHANGED <<at, session, children, stdin, told, poll, code, reply>>

GuestReads ==
  /\ GuestAlive
  /\ stdin > 0
  /\ stdin' = stdin - 1
  /\ UNCHANGED <<at, session, children, pipe, written, told, poll, code, reply>>

GuestExits ==
  /\ \E p \in Pids, c \in ExitCodes :
       /\ role[p] = "guest" /\ exit[p] = ALIVE
       /\ exit' = [exit EXCEPT ![p] = c]
       /\ code' = c
  /\ UNCHANGED <<at, session, role, streams, poll, reply>>

WorkerExits ==
  /\ \E p \in Pids :
       /\ role[p] = "worker" /\ exit[p] = ALIVE
       /\ exit' = [exit EXCEPT ![p] = 0]
  /\ UNCHANGED <<at, session, role, streams, poll, code, reply>>
-----------------------------------------------------------------------------
Handle ==
  \/ Sweep \/ SweepEnds
  \/ write_all \/ Drain \/ DrainEnds \/ PollRunning \/ PollEnded

Request ==
  \/ StatelessRoute \/ OtherRequest \/ Inside \/ InsideReturns
  \/ handle_irun_stop
  \/ StartForks \/ AssemblyFails \/ PipeFails \/ ForkFails
  \/ handle_irun_input \/ handle_irun_poll

Child ==
  \/ \E s \in Streams : GuestWrites(s)
  \/ GuestReads
  \/ GuestExits
  \/ WorkerExits

Next == Handle \/ Request \/ Child

(* The server runs whenever it is not waiting.  Nothing is assumed of the  *)
(* client, of guests, of workers or of what runs inside the server: none   *)
(* of them need ever read, write less, or exit.                            *)
Fairness == WF_vars(Handle)

Spec == Init /\ [][Next]_vars
FairSpec == Spec /\ Fairness
-----------------------------------------------------------------------------
(* Every variable has its type.                                            *)
TypeOK ==
  /\ at \in {"sweep", "accept", "inside", "write", "finish"} \cup Streams
  /\ active \in BOOLEAN /\ eof \in BOOLEAN
  /\ pid \in Pids \cup {NOBODY}
  /\ files \in Nat /\ leaked \in Nat
  /\ role \in [Pids -> {"none", "guest", "worker"}]
  /\ exit \in [Pids -> ExitCodes \cup {0, ALIVE}]
  /\ stdin \in Nat /\ stdin <= PipeSize
  /\ pipe \in [Streams -> Nat] /\ written \in [Streams -> Nat]
  /\ buf \in [Streams -> Nat] /\ told \in [Streams -> Nat]
  /\ code \in ExitCodes \cup {NONE}
  /\ reply \in ExitCodes \cup {0, 1, NONE}

(* When a poll tells the client that the program has ended, the client has *)
(* been given all of what it wrote, on stdout and on stderr, though it was *)
(* writing and exiting while the handler drained one and then the other.   *)
OutputComplete == reply # NONE => told = written

(* No guest outlives its session or is lost by it: one that is running is  *)
(* the one g_irun names, whatever starts, stops and failures came before.  *)
NoOrphan ==
  \A p \in Pids : role[p] = "guest" /\ exit[p] = ALIVE => active /\ pid = p

(* The temporary binaries on disk are the active session's and those that  *)
(* starts without pipes left: no other way a start, a stop or an end goes  *)
(* wrong leaves one, and none is unlinked twice.                           *)
BinariesOwned == files = leaked + IF active THEN 1 ELSE 0

(* Who can hold the server in a handler of the session: a running guest    *)
(* that does not read what it is given, or prints as fast as it is         *)
(* drained; a running worker, where waitpid() is given its identifier or   *)
(* none.                                                                   *)
HeldByChild ==
  \/ at = "write" /\ GuestAlive /\ stdin = PipeSize
  \/ at \in Streams /\ GuestAlive
  \/ at = "finish" /\ \E p \in Pids : role[p] = "worker" /\ Alive(p) /\ pid \in {p, NOBODY}

(* Unless a child that is running holds it for ever, or a guest inside it, *)
(* the server comes back to accept() again and again: a guest that has     *)
(* died never holds it, wherever in a write, a drain or a wait it died.    *)
KeepsServing ==
  []<>(at = "accept") \/ <>[]HeldByChild \/ <>[](at = "inside")

(* The sweep reaps "finished worker children", and the session's own       *)
(* waitpid the session's guest (src/server.c, serverStart()): so the exit  *)
(* code the client is told is the one its program exited with.             *)
ExitCodeReported == reply # NONE => reply = code
=============================================================================
