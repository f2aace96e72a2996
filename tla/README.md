# A verification development for cortex-vm

cortex-vm is a 64-bit register virtual machine in C: an assembler and a
disassembler, two execution engines for one instruction set, a library with
persistent contexts, and a browser IDE whose server runs and debugs programs.
This directory holds TLA+ modules of its core, the TLC configurations that
check them on small instances, and theorems that the TLA+ proof system checks
for every value of the constants. Paths are relative to the repository.

## 1. The system

| Component | State it keeps | Operations | What makes it correct |
|---|---|---|---|
| Context API, `src/cortex-vm.c` | registers, stack and code arena, heap of each context; decode cache and file table of the process | create, exec source/binary, destroy | the engine executes the binary just loaded; every live context owns its own arena; destroy frees everything |
| Engine `step()`, `src/core.c` | registers (r1 is the program counter), memory, running flag | one instruction | implements the instruction set of `SPEC.md`; r0 = 0; stack and code bounds |
| Engine `run()`, `src/core.c` | local program counter, `decoded[]` with a sentinel, registers, memory | dispatch loop | same instruction set; never leaves `decoded[]` |
| System calls, extensions, `src/core.c` | heap (`base`, `cap`, `used`), `fdTable` | 23 calls, M and F opcodes | granted heap words exist; heap grows; slots of open files |
| Header, `src/header.c` | none | parse, validate | only runnable binaries are accepted |
| IDE server, `src/server.c` | listening socket, forked workers | sweep, accept, route | comes back to accept; workers independent |
| `/irun` session | `g_irun`: child, three pipes, temporary binary | start, input, poll, stop | all output delivered, true exit code, nothing left behind |
| `/run`, `run_vm_argv` | three pipes, two buffers | prefill, fork, drain, wait | answers, with all the output |
| `/debug` session | `g_debug`: engine state, stdin pipe, saved stdin | start, step, continue, input, memory, stop | breakpoints, `waiting` is true, input conserved, server not blocked |
| Assembler, `src/assembler.c` | cursor, label list, patch list, word list | assemble | labels resolved to the right words, layout of code, data and header |
| Disassembler, `src/disassembler.c` | none | one line per word | inverse of the assembler |
| Lists, files, `src/list.c`, `src/utils.c` | arrays | append, get, read, write | growth keeps contents |
| Command line, `main.c` | none | dispatch of options | |
| Page, `ui/index.html` | editor, console, one poll at a time | calls the routes | |

How they interact. The command line, the library and the child of `/run` and
`/irun` call `run()`; the debugger calls `step()` inside the server. Both call
the system calls and the extension handler. The context API prepares the code
arena `run()` decodes from; the decode cache and the file table are shared by
all contexts of a process. The server is one process with an accept loop; a
stateless route is served by a forked worker, `/irun` and `/debug` routes by
the server itself, and a guest of `/irun` is a child that runs beside it all.

What is hard. Reuse of addresses under a cache keyed by address; two engines
written twice that must agree; arithmetic modulo 2^64 at bounds; handlers that
drain a live process stream by stream; children reaped from two places;
identifiers used after their process is gone; two processes that exchange data
over bounded pipes; starts that fail half way; an assembler that writes words
before it knows the addresses in them; two hand-written tables that must be
inverse to each other; binaries cut short on disk. `PROJECT.json` lists each
hazard at its line.

## 2. The modules

**VMContext** models the context API. `codeAt` is the allocator's view (which
binary an address holds), `codeBase` each context's arena, `cache` the decode
cache (`cached_cb`, `cached_len`, `decoded_cap`, and the binary it was built
from), `fdTable` the file slots, `running` the context whose guest runs. A load
frees the old arena before it takes a new one, so it may get any free address
including the one just freed. `ExecInvalid` and `GuestFatal` are `exit()`: they
end the process, which is why deadlock is not checked. A guest's effect on
this state is its file calls.

**Machine** (words, memory map, integer functions, `setWord`, `loadWord`) and
**Syscalls** (`handleSyscall`, `handleExtensionOpcode`) are the operators both
engines call. Words keep their width: all arithmetic is modulo `2^WordBits`. An
operator returns the set of outcomes; a call that reads the host (input, time,
random numbers, files, allocation) has several. "fatal" is
`exit(EXIT_FAILURE)`; "wild" is undefined behaviour of C (a division by zero,
an access outside an array), after which nothing is said. Floating point is a
pair of constant operators: no property is about its values. Instructions are
records; encoding and the sign extension of immediates are not modelled.

**StepEngine** and **RunEngine** are `step()` and `run()`, an action per group
of cases or labels. In the first the program counter is register 1 and the
checks come after the switch. In the second it is the local `pc`; register 1 is
written only by `Synced`, where the code writes it; `ClampToEnd` is the clamp
of jumps and integer branches, which the extension handler's branches do not
pass through; instruction `code_end` is the sentinel.

**Isa** is the abstract specification: a program counter that is a number in the
code or just past it, registers without r0 and r1, and one atomic instruction.
**Engines** lets a program be run by either engine and states the refinement
`ImplementsIsa`: with r1 or `pc` mapped to Isa's `pc`, the first state is Isa's and
every step is one of Isa's or a stutter, for programs that are `lawful`, which
`KeepsRules` decides when the run starts (see the bounds). Since the same Isa is
implemented by both, the engines agree. `StackFault` in Isa permits, but
does not demand, a fault on a stack pointer past the stack: only `step()` has
that check.

**InteractiveRun** models the accept loop and the `/irun` session. `at` is where
the server is; handlers that contain a system call another process can
interfere with are several steps (`Sweep`; `write_all`; `Drain` once per read of
each stream in `DrainOrder`; `PollRunning` or `PollEnded`), with `eof` and `buf`
the handler's locals. `active`, `pid`, `files` are `g_irun` and the temporary
binary; `role` and `exit` the kernel's process table (a process stays there
until it is waited for, then its identifier is free); `pipe`, `stdin` what the
pipes hold, `written` and `told` what a guest wrote and what the client has
been given, in chunks. `reply` is the exit code reported, `code` the true one.
`StartForks`, `AssemblyFails`, `PipeFails`, `ForkFails` are the ways
`handle_irun_start` ends. `fork()` failing is taken as the code takes it: it
records -1 and an active session. Guest and worker steps are the children's,
external to the source: a guest need not read, stop printing or end (`Count` stops
the counters at `MaxChunks`, the guest goes on). `Inside` stands for the requests that
run a guest in the server itself or write to one, those of the debugger and a
stateless route whose `fork` failed: they take as long as that guest does, for
ever if it pleases.

**BatchRun** models a worker that handles `/assemble`, `/run` or `/bytecode`: its
temporary files (`temps`), `run_vm_argv` with `drain_pipes` (the prefill of
standard input, the fork, the `select` loop with the streams in turn, a stream
cut off by a failing allocation, the final `waitpid`), and what the handler makes
of the child's end: `ended` is how it ended, `RegsFound` what `parse_regs` finds
of the registers `-D` prints, `answer` and `sent` what the client is told and the
streams whose bytes it is sent (`Answers`; the others are freed). The child is any
program of a few reads and writes; for `/bytecode` it leaves a binary that is whole,
or, if the disk is full, none or one without its last blocks. stdio writes blocks of
4096 bytes and the interpreter line has 24, so such a part is a whole number of words:
`handle_bytecode` takes it, as the code does, and reads on beyond it.
`Failures` says which of `pipe`, `fork`, allocation and the disk may fail.
With no child `waitpid(-1)` has nobody to wait for and the status stays 0. If
`pipe()` fails `run_vm_argv` returns with its results unassigned, and the model
ends there ("undefined").

**DebugSession** models the `/debug` routes. `active`, `running`, `prog`, `pc` and
`writable` are `g_debug`; `pipe` what the pipe on the server's standard input
holds and `buffer` what stdio has read ahead of it, which `debug_teardown` does
not empty. Of an instruction only its effect on these is kept: three kinds of
read (`Takes` says how far each reads; input is text and newlines), `BREAK` with
its `getchar`, a halt, a fatal error (it ends the server), and the rest. A start whose
binary was cut ends the server too, in `readFileWords` or `headerValidate`
(`StartDies`). `parse_breakpoints` keeps the addresses there is room for. `at` is
"continue" inside the loop of `handle_debug_continue`, one step of which is
`ContinueSteps`, and "blocked" when a read or write waits for the other end of
the pipe, which is the same thread: nothing is enabled from there. `carried`,
`sent` and `taken` are history.

The toolchain is five modules. A source is a sequence of items: instructions,
labels, data, comments, separators and line ends, the pieces the scanner tells
apart.

- **Mnemonics**: `getOpcodeFunct`, the assembler's tree of letters, as a function
  from mnemonics to opcode, function and flags, and `disOp`, the disassembler's
  switches, as functions back. They are written separately, each from its own
  source, so that a round trip compares them.
- **Assembler**: `assemble`, an action for each turn of its loops. `head` is the
  next item, `list` the words, `labelsRegistry` and `labelsPatches` the label
  lists, `phase` the loop it is in. The details of `.data` are kept because they
  decide which words there are: separators at the end of a line are skipped
  before `getData` is called, so the next thing it reads is the line end
  (`BlankLine`, `SpilledWords`); text that is no value is not consumed
  (`DataJunk`); a name is recorded as used by word 0 (`NameUser`).
- **Assembly**: what an assembly promises, from the whole source at once and with
  no pass, list or patch: `Address` counts the words before an item, `Target` is
  the first label of a name, `Binary` the header and the words.
- **Disassembler**: the items the listing of a binary is read as.
- **Toolchain**: `main` and the files: `sourceFile` and `binaryFile` on disk, one
  command at a time (`command` its flags, `at` where it is, `buff` the words it
  has). A command may be killed; a binary being written is then cut anywhere
  (`Cut`): inside its first line, inside a word, between words. Of a part the
  disassembler reads on behind the buffer: that ends the command (`ReadBeyond`), or
  passes for words (`ListBeyond`), with a listing that is any of `Garbled`; `-r` then
  runs it, as `fileSize` is what its own header says. `produced`,
  `listed`, `origin` and `executed` are history. `A == INSTANCE Assembly` states
  that the assembler implements its specification.

**EngineLoads** holds the programs and the small machine of the engine runs.
**MC...** modules give constants. **VMContextProofs**, **InteractiveRunProofs**,
**BatchRunProofs**, **DebugSessionProofs**, **EnginesProofs**, **ToolchainProofs**
(the assembler, the files, and that the assembler implements its specification)
and **RoundTripProofs** (the disassembler; it builds on ToolchainProofs) hold the
theorems, **NumberLemmas** facts of arithmetic they share.

In the modules, an operator introduced by "Mutant" is not part of the model: it
is the mutated form, a plausible mistake in the code, that shows that a
property can fail.

## 3. The runs

| Run | What it asks | Result |
|---|---|---|
| `vm_context` | `TypeOK`; `DecodeCacheCoherent`: the running guest's cache holds the binary of its own arena; `ArenasOwned`: allocated arenas = arenas of live contexts, one each | holds |
| `vm_context_files` | `FilesReleased`: an open slot belongs to a live context ("Free all resources owned by `vm`") | violated |
| `engines` | `TypeOK`; `ImplementsIsa`; `ZeroReadsZero`: r0 is zero whenever an instruction starts; `OnlyExtensionsOverrun`: only extension opcodes, branching or writing r1, take `run()` past the sentinel; `HeapBacked`: words in use exist; `HeapGrowsUnlessWrapped`: they become fewer only in a `SYS_HEAP_GROW` whose sum does not fit a word | holds |
| `float_branch` | `SentinelStops` on a float branch past the end | violated |
| `interactive_run` | `TypeOK`; `OutputComplete`: an ended session delivered all; `NoOrphan`; `BinariesOwned`: the binaries on disk are the session's and one for each failed `pipe()`; `KeepsServing`: the server is at accept again and again, unless a running child or a request inside the server holds it for ever | holds |
| `interactive_exit` | `ExitCodeReported`: the exit code told is the guest's | violated |
| `batch_run` | `TypeOK`; `OutputComplete`: a stream that is sent is sent whole, both of a guest that came to its end, stderr alone of one that died; `AnswerTrue`: the client is told of a refusal, a death or a missing binary exactly when there was one; `TempsRemoved`; `Answered`: the client is answered, unless a cut binary ended the worker | holds |
| `batch_stdin` | `PrefillEnds`: the prefill ends ("before forking to avoid deadlock") | violated |
| `debug_session` | `TypeOK`; `InputConserved`: what the guest took, then stdio's buffer, then the pipe, is what was carried over and then sent; `ContinueReturns` | holds |
| `debug_waiting` | `BlockingForeseen`: a read that would block is reported as waiting | violated |
| `toolchain` | `TypeOK`; `ImplementsAssembly`; `PatchesSound`: an address is or-ed only into an immediate that is zero, once; `RoundTrip`: a disassembled binary assembles to itself, for those `Reassemblable`; `RunsWhole`: what any command but `-d -r` runs is a binary some assembly finished; `AssemblyEnds` | holds |
| `toolchain_roundtrip` | `SurvivesRoundTrip`: the same for every binary | violated |

Bounds, and why they are enough.

- `vm_context`: two contexts, three addresses, two binaries of equal length, one
  longer, one invalid, three file slots. A stale cache needs one address, two
  binaries of one length and at most two contexts; ownership a third address.
- `engines`: words of 8 bits, a memory map at 0, 16 and 32, three stack words,
  an array of at most three heap words, two file slots, six registers (r0, r1,
  sp, a0, a1, a13). Programs: every sequence of at most three instructions from
  a set that has each kind of control transfer, forwards, backwards and out of
  the code; each function of each opcode alone, with both extensions on or off
  and register values at the signed and unsigned edges; one or two system calls
  for each call number and arguments at the edges; sequences of up to four heap
  calls and accesses. A disagreement between engines is about one instruction
  after an arbitrary state, and the state it needs (a register value, an
  earlier jump) is reached within three. Programs that name
  r1, enter past the code or whose float branches leave it are run too, for
  `ZeroReadsZero` and `OnlyExtensionsOverrun`, and are not `lawful` (see below).
  Sums of heap words wrap in some of the heap programs (growing by 255 words of 8
  bits); byte counts that wrap to a size the host would give do not occur.
- `interactive_run`: three process identifiers (guest, worker, one to reuse),
  pipes of one chunk, starts in which assembly, `pipe` or `fork` may fail. No
  symmetry, as one property is temporal. Chunks of a stream are counted up to
  `MaxChunks` = 2, one more than a pipe holds, so that what is lost between a pipe
  and a buffer shows; the guest may print for ever. `MaxLeaks` bounds the binaries
  left by failing `pipe()` calls. `interactive_exit` has two identifiers.
- `batch_run`: every child of at most five reads and writes, pipes of two
  chunks, at most two chunks of input: enough to fill a pipe on one stream
  while the parent is busy with the other; every way a child ends, every failure.
  `batch_stdin` has a pipe of one chunk and two of input.
- `debug_session`: five programs that between them read in each way before,
  after and without a break, loop and die; prefills that are empty, whole
  lines, cut lines and longer than the pipe; a pipe of four characters, a stdio
  buffer of three (smaller than the pipe, so that read-ahead stops in the middle
  of a line), strings of two, a cap of three steps (10 million in the code) that
  the loops reach, requests of up to three breakpoints with room for two
  (`MaxBreakpoints`; 256 in the code), and at most six characters sent
  (`MaxSent`). `debug_waiting` has prefills that fit.
- `toolchain`: words of 10 bits, immediates of 8 and 9, room for 16 words
  (`MemoryWords`). One command on every source of at most three items from
  thirteen kinds of code, and on every `.data` of at most three items from
  eleven, so that each kind of item meets each other before and after it, at the
  start and at the end of the file, with and without separators; sources that
  exhaust memory. Up to three commands (assemble, list, assemble again; assemble
  cut off, then run) on an instruction of every mnemonic and on programs with
  labels in code and data, strings with escapes, numbers at the signed edge,
  strings longer than the disassembler's line (`LineSize` 13 for 4096), data that
  looks like strings and is not. `toolchain_roundtrip` has one program.

Debug runs do not check deadlock, as the server may stop or block in them, and
engine, batch and toolchain runs do not check deadlock: programs and processes
end.

Fairness. `InteractiveRun` assumes weak fairness of the server's own steps alone
(`Handle`: one thread that is never blocked but by the guards), and nothing of
clients, guests or workers. So `KeepsServing` has to name who can hold the server
for ever: a guest that is alive and does not read a full pipe, since the server
writes with a blocking `write` and the `stop` that would kill the guest is not
accepted then; a guest that prints as fast as a poll drains it; a running worker,
when `g_irun.pid` has become its identifier, or is -1, and `waitpid` is called with
it (`HeldByChild`); and a request inside the server. What it says is that nothing
else does: a guest that has died, wherever in a write, a drain or a wait it died,
never holds the server. `BatchRun` assumes weak fairness of parent and child: a
child that neither ends nor writes keeps its worker, and nobody else, waiting.
`Toolchain` assumes it of the steps of a running assembly, and of no command, kill
or disk. `DebugSession`
assumes it of the loop of a continue alone, which is straight-line code of one
thread, and of no request. `ContinueReturns` says that the loop is left, be it
into an answer, a blocking read or a fatal error of the guest.

What the violated runs show:

- *Files outlive their context.* `cortexVMDestroy` does not close the files its
  guest opened; the slots of the process-wide table stay taken.
- *A float branch passes the sentinel.* `do_illegal` takes `pc` from r1
  unclamped, so a target past `code_end` indexes `decoded[]` out of bounds; the
  other branches and `jmp` clamp. Extension arithmetic that writes r1 does the
  same; `OnlyExtensionsOverrun` says that nothing else does.
- *Exit codes are lost.* The sweep at the top of the accept loop reaps any
  child. A guest that exits between two polls is reaped by it, the poll's
  `waitpid` fails and the client is told exit code 0.
- *The prefill deadlocks.* Input beyond the pipe's capacity blocks the parent,
  which itself is to fork the reader later.
- *A read can block the debugger for good.* `is_waiting_for_input` asks whether
  the pipe has any byte. An empty line before a number, or a prefill whose last
  line has no newline, makes it say no; `scanf` or the `getchar` loop after it
  then waits for input that only this thread could write.
- *Negative data does not survive a round trip.* The disassembler lists data
  words unsigned; the assembler's `strtoll` saturates at 2^63 - 1. The word -1,
  and any negative double, comes back as the largest signed integer.

Disagreements without a run. Building the models showed these too; each can be
reproduced by restating the property and choosing the workload.

- `STACKSIZE` is a byte count and is compared with word addresses
  (`src/core.c:1090`): `step()` reports a stack overflow only when sp is eight
  times the stack's length past its base, `run()` never. `Machine` has both
  units.
- `SYS_HEAP_GROW` adds and multiplies modulo 2^64 (`src/core.c:463-475`):
  growing by 2^64 - 1 words makes the heap one word shorter although it "grows
  monotonically" (`SPEC.md:248`), and a byte count that wraps is granted without
  memory. `HeapGrowsUnlessWrapped` says that the sum that wraps is the only way the
  heap shrinks; the engines run has such calls. `HeapBacked` is checked with sums
  that wrap but below byte counts that do, and proved for runs that keep below these.
- `headerValidate` checks the entry point from below only (`src/header.c:64`). One
  past the code makes `step()` fetch outside the arena (`StepEngine!WildFetch`);
  `run()` returns.
- r1 is stale in `run()` between the places that write it, while `step()` shows
  the current one, so the two differ for programs that name r1
  (`src/core.c:1251`, `SPEC.md:42`).
- After the sweep has reaped the guest, `g_irun.pid` may name a worker, which
  `irun_cleanup` then kills (`src/server.c:61`). `NoOrphan` is about guests only.
- The other half of `is_waiting_for_input`: stdio reads ahead, so the second of
  two lines sent together is in its buffer when the second read comes, the pipe
  is empty, and the session is reported as waiting although `step()` would not
  block (`src/server.c:707`). The line typed then is the one after next. What is
  left in the buffer is read by the next session (`carried`).
- `BREAK` calls `getchar()` and is not a read in the eyes of
  `is_waiting_for_input`: with no input it blocks the server (`src/core.c:1070`).
- A debug start whose `pipe()` fails answers with an error and leaves an active
  session on the server's own standard input (`src/server.c:1046`); a prefill or
  line larger than the pipe blocks the server (`src/server.c:1053`, 1273).
- A continue keeps 256 breakpoints and drops the others without a message, so the
  guest runs through them (`src/server.c:250`, 1134).
- A guest of `/irun` that does not read its input, or never stops printing, holds the
  server and every other client (`src/server.c:1373`, 1389-1428; `HeldByChild`).
- Of a guest that printed and then died, `/run` answers with stderr alone and frees
  what it had printed (`src/server.c:864-878`).
- When `pipe()` fails, `handle_irun_start` leaves its temporary binary
  (`src/server.c:1321`): `leaked` counts them, and `BinariesOwned` says that there
  are no others.
- When `fork` fails in a worker, `run_vm_argv` reports exit code 0 and no output
  (`src/server.c:531`): `/assemble` answers that the source is fine. In the server
  itself, which assembles for `/debug` and `/irun`, `waitpid(-1)` waits for any
  child, so for the guest of `/irun` if one is running. When `pipe()` fails, the
  callers read an exit code and free buffers that were never assigned (line 468).
- The assembler does not look whether its last flush succeeded, so on a full disk it
  may exit with 0 and leave a binary without its last blocks. `/bytecode`, "return
  each code word" (`src/server.c:902`), takes the length from its header, which it
  does not validate, and answers `ok:true` with what lies beyond the buffer
  (`src/server.c:938-983`), or ends there (`BytecodeDies`). `/debug/start` validates,
  which ends the server (`src/server.c:650`, 660; `StartDies`).
- Round trips (`Reassemblable` names the exceptions, and that the longer binary
  must fit in memory). A quote in a string is listed as
  `\"` (`src/disassembler.c:615`), an escape the assembler refuses
  (`src/assembler.c:1168`; `CHANGELOG.md:186` says it survives). An infinite float
  immediate is listed as `inf.0`, a name. An entry point in `.data` is lost. `.data`
  is one zero longer after each assembly, as `OP_DATA` itself appends a word
  (`src/assembler.c:1376`).
- Lines of `.data` that end in separators add a zero, or have the number on a
  later line read as an integer (`SpilledWords`); separators before the end of
  the file are fatal in code (`src/assembler.c:1241`); a stray character in `.data`
  appends zeros until memory is gone (`DataJunk`).
- A missing immediate is zero, register numbers are modulo 256 (`parseRegNum`),
  immediates are cut to their width, all without a message. -2^63 is read as
  one more, as the sign is taken off before `strtoll` saturates.
- `disassemble` compares the header's length with itself (`src/disassembler.c:505`)
  and so reads beyond a binary that was cut off; `headerParse` reads five words
  whatever there is. With `-d -r` the length is taken from that header again
  (`main.c:144`), and the part is run with what follows it in memory: `RunsWhole` is
  about the other commands. `-a -d` has the disassembler read the source as a binary
  (`main.c:114-123`).

## 4. What is proved

Each theorem is about `Spec` for every value of the constants that satisfies
the component's named assumptions. TLC evaluates each on the runs of its component.

| Assumption | What it says |
|---|---|
| `VMContextAssumption`, `InteractiveRunAssumption`, `BatchRunAssumption`, `DebugSessionAssumption` | special values are distinct from the others, sizes are natural numbers, a pipe holds something; a debugged program is not empty and its input is text and newlines |
| `MachineAssumption` | words have bits and bytes (so 2^n is positive for n up to the width: arithmetic the provers lack); heap, stack and the stack bound lie in order in the address space; the six registers the code names exist; the host supplies words |
| `FloatAssumption` | a float operation gives a word |
| `WorkloadsAssumption` | programs are sequences of decoded instructions below the heap's address, and start with words in the registers |
| `AssemblerAssumption` | memory has room for a header; the powers 2^IBits and 2^SBits are positive |
| `WidthsAssumption` | 2^n is twice 2^(n-1) for the widths of words and immediates, and immediates are narrower than words: arithmetic the provers lack |
| `SourcesAssumption` | sources are sequences of items with the fields the scanner gives them |

*VMContextProofs.* `TypeCorrect` (`TypeOK`), `CacheCoherence`
(`DecodeCacheCoherent`), `ArenaOwnership` (`ArenasOwned`). The three invariants are
inductive together. Coherence speaks of running guests only, so nothing is
assumed of what an earlier binary left in the cache: `runCacheReset` takes the
address out of it, so that every load decodes whatever address it was given
(lemma `ResetForcesDecode`), and while a guest runs neither its arena nor the
cache changes. Ownership says that an address is allocated exactly if it is the
arena of a live context, and of one only; it is what lets a load free the old
arena without freeing another context's.

*InteractiveRunProofs.* `TypeCorrect`, `NothingLost` (`OutputComplete`),
`NoGuestOrphaned` (`NoOrphan`), `BinariesAccounted` (`BinariesOwned`). `OutputComplete` says nothing until a session ends, so the
inductive invariant carries the bookkeeping: `Conserved`, while a session is
active what the guest wrote is what the client was told, plus what the handler
has read, plus what the pipe holds; `BufferEmpty`, between polls nothing is held
by a handler; `NothingAfterEof`, once a poll has seen the end of standard output
the guest is gone, so stdout is drained, and stderr once its drain ends. This is
where the order of the two drains matters: with stderr first, a guest could
write to it after its drain and exit before stdout's. `InSession` and
`BinaryOnDisk` tie handler positions to an active session. Lemmas
`CleanupLeavesNoGuest` and `CleanupFiles` say what `irun_cleanup` does and are
used by stop and by each way a start ends.

*BatchRunProofs.* `TypeCorrect`, `NothingLost` (`OutputComplete`), `AnswersTrue`
(`AnswerTrue`), `NoTempsLeft` (`TempsRemoved`), for any set of child programs and
any pipe size. The inductive invariant: `Conserved`, what was written to a stream
that was not cut is in its pipe or has been read; `ClosedAtEnd`, a stream that is
closed and was not cut has an empty pipe and nobody to write to it; `ClosedAfter`,
past the loop both are closed. `BeforeFork` and `Unasked` cover the runs that
never had a child, `OwnTemps` and `OwnEnd` tie files and exit codes to the route.
Each action of the parent that reads and closes nothing is an instance of one
lemma, `ParentMoves`.

*DebugSessionProofs.* `TypeCorrect`, `InputInOrder` (`InputConserved`). A read of
any kind takes some number of characters, and stdio fetches whole buffers of the pipe until it has them
(`RoundedUp`), or all there is. `ConsumeMovesInput` says that, however many, what the
guest took, then the buffer, then the pipe is the same sequence before and after.
The invariant adds to `TypeOK` and `InputConserved` that a running program's
counter is in the program, as the code checks before it calls `step()`.

*EnginesProofs.* `TypeCorrect`, `ZeroIsZero` (`ZeroReadsZero`),
`SentinelCatchesTheRest` (`OnlyExtensionsOverrun`), `HeapStaysBacked` (`HeapBacked`),
`HeapOnlyGrows` (`HeapGrowsUnlessWrapped`), `Refinement` (`ImplementsIsa`).

- Lemmas first: each integer function, load, store, system call and extension
  opcode takes words and well-formed memory to words and well-formed memory.
  Some need an argument of their own: `or` and `xor` are words because zero has no
  bits (`FromBitsIsWord`), a string in memory ends because everything above the
  stack reads as zero (`StringEnds`), the high word of a product is no larger than
  its factors (`HighWord`).
- `StepExecutes` and `RunExecutes` bring the two engines to one form: a step is an
  outcome of the instruction fetched (`Executes`), put into effect the way that
  engine does. Everything after them is said once for both.
- The inductive invariant is `TypeInv`, `ZeroReadsZero` and `Lawful`. `ZeroReadsZero` is
  inductive because both engines zero r0 after an instruction and not when it is
  written. `Lawful` says that a program that keeps the rules has neither engine
  outside the code.
- `HeapStaysBacked` has a hypothesis, `HeapAsked` in every state: the capacity a
  guest's request comes to (a sum that may wrap) is one it has already, one whose
  bytes a word can count, or one whose wrapped byte count the host refuses. Without it
  the property is false of the code (see the second disagreement above). Every state
  of the engines run satisfies it, requests at the signed and unsigned edges among
  them. `HeapOnlyGrows` has none: the exception it makes is in the property.
- The refinement: `InitRefines`, `StepRefines`, `RunRefines`. Isa sees the registers
  with r0 zero and the counter in r1 (`IsaSees`); for `run()`, whose r1 is stale, this
  takes that a lawful program does not name it. Leaving through the sentinel is a
  stutter (`RunAtEnd`), as Isa has stopped before it.

*ToolchainProofs.* `TypeCorrect`, `PatchesAreSound` (`PatchesSound`),
`OnlyWholeBinariesRun` (`RunsWhole`).

- The assembler's invariant `AssemblerInv` has the cursor in the source, labels
  at addresses in the list, patches at zero immediates and no word twice, and a
  finished list whose header has its length and where its data starts. That a
  word noted as a user of a name has no immediate yet is in `Lengthened`; that
  patching one leaves the others zero, in `PatchesKeep`.
- `FilesInv`: a binary on disk is one some assembly finished or is shorter than its
  header says, since a kill cuts it and the length is in the second word. Hence
  what passes `headerValidate` with the length that was read is whole
  (`WholeIsProduced`).
- A command may assemble what the disassembler wrote, so the listing of any
  finished binary must be a source (that of a part is, by assumption on `Garbled`). The listing is recursive over the words,
  forwards in the code and backwards in the data, where a string takes several. No
  induction theorem applies (see below), so `CodeLinesIsSource` and
  `DataLinesIsSource` show that the recursion has a solution, and that it is a source,
  by a least address at which it would fail (`LeastElement`).

- `AssemblyRefinement` (`ImplementsAssembly`): for every source, the pass with its
  lists of labels and patches delivers what Assembly says of the whole source at
  once, a refusal exactly when it refuses. `Address` and `Body` are folds over the
  source, so the first lemmas are about families of sequences joined: where a
  piece starts (`Start`), that no two words share a place (`FlatUnique`), that the
  join up to a piece is what one more turn of the loop appends to.
- Its invariant `AssemblyInv` says of an assembly at work (`Ready`) one of two
  things. As long as the whole source is acceptable it is `LaidOut`: the list is the
  header and the layout of what is before the cursor, the registry has the first
  label of each name with the address the specification gives it (`Known`), the
  patches are the uses of names before the cursor, once each (`Noted`), no number
  ahead is spoilt by separators already passed (`Settled`), and, while patching,
  the list is the layout with the first patches resolved (`Patched_`). If it is not,
  it is `Doomed`: an item ahead, or a patch still to come, has it refused. The second
  half is needed because the pass sees an unknown name only when it patches, long
  after the item; without it a bad source could be accepted. `Cursor` says at
  which separators the pass can arrive, as those after a label, a comment or an
  instruction without operands are taken with it.
- `AssemblerDelivers` has one lemma for each action of the assembler.

*RoundTripProofs.* `RoundTrips` (`RoundTrip`): whatever was assembled, listed and
assembled again, the second binary is the first one, with one zero more if there is
data, if it is `Reassemblable`.

- `WellBuilt` is all the disassembler needs to know of a binary: instructions some
  mnemonic stands for, then numbers, and a header with their length, start and
  extensions. `AssemblyIsWellBuilt` shows it of every finished binary.
- `TablesAgree`, `Spelling`: each of the assembler's mnemonics is the name the
  disassembler's tables give to its opcode, function and flags. `LineIs`: hence the
  line written for a word is one instruction that is encoded as this word.
- `CodeListed` and `DataListed`: the recursion over code (forwards) and over data
  (backwards; a string takes several words) gives items that lay down exactly the
  words listed, with the label `main` before the word at the entry point and no
  other, and a value after every separator. The induction is `Reached` and
  `ReachedBack`: a set with the first address, and with each its next, has all.
- `ListingLays`: of a source of this shape the specification's layout, with all
  its rules for separators, is item by item the words. With `AssemblyRefinement`
  what the assembler delivers is then known, without looking at it again.
- `HistoryInv`: what was listed is a `WellBuilt` binary, and the source that is
  assembled after it is its listing.

Only model-checked: the liveness properties (`KeepsServing`, `Answered`,
`ContinueReturns`, `AssemblyEnds`), which the prover's temporal backend does not
reach. Every other property of the passing runs is proved. The library's
induction theorems take an operator as a parameter, which no installed prover
can instantiate; where the argument is an induction over a source or a binary,
it is made over a set of natural numbers instead (`LeastElement`, `Reached`).
The refuted properties are refuted by TLC.

## 5. What is not modelled

Left out for good: text (formats of numbers, number bases, JSON escaping),
IEEE arithmetic, HTTP parsing and the real-time limits of `read_request`, `/save`
(one write to one file), the page, installation and benchmarks. Not in the
modelled parts: what a request does whose worker could not be forked, beyond that
the server is busy with it (`Inside`); `mkstemps` failing; `malloc` failing where the code does not look;
processes outside the server that are given a freed identifier; the values of
time and random numbers; disassembling a file that no assembly wrote; which words
lie beyond the end of a cut one; a client that does not read its answers; how long
the assembler of a start takes, which is one step; permissions of written files.

The status "partly" remains for the command line, of which the options that
choose the IDE or print text are left out, and for the HTTP front, whose state
is its connections.

## 6. Plan

1. The page as a client of `/irun`: overlapping polls, and a stop or a start that
   overtakes one, composed with InteractiveRun.
