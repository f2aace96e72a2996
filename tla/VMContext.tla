------------------------------ MODULE VMContext ------------------------------
(***************************************************************************)
(* The persistent-context API of src/cortex-vm.c: contexts are created,    *)
(* given one binary after another and destroyed, while the decoded-        *)
(* instruction cache and the file table of src/core.c are globals that all *)
(* of them share.  A context is used by one thread (LIBRARY.md), so a call *)
(* of cortexVMExecBinary is: the load, one step of this module; the guest  *)
(* running, with its file system calls as steps; and the return.           *)
(*                                                                         *)
(* Arenas are known by address only, and an address that was freed may be  *)
(* handed out again: that is what makes the cache's key unreliable.        *)
(***************************************************************************)
EXTENDS Naturals

CONSTANTS
  VMs,          \* the contexts a program may hold
  Addrs,        \* addresses the arena allocator hands out
  Binaries,     \* the binaries the program executes
  BadBinaries,  \* those headerValidate refuses
  Length(_),    \* code words of a binary, header excluded
  MAX_FDS,      \* slots of fdTable, the first three reserved
  NULL,         \* the null pointer
  EXITED        \* what `running` is after exit(EXIT_FAILURE)

ASSUME VMContextAssumption ==
  /\ BadBinaries \subseteq Binaries
  /\ \A b \in Binaries : Length(b) \in Nat
  /\ MAX_FDS \in Nat
  /\ NULL \notin VMs \cup Addrs \cup Binaries
  /\ EXITED \notin VMs \cup {NULL}

VARIABLES
  alive,    \* contexts created and not yet destroyed
  codeBase, \* the code arena of each context, or NULL
  codeAt,   \* the binary an allocated arena holds; NULL when the address is free
  cache,    \* decoded[], with decoded_cap, cached_cb and cached_len
  fdTable,  \* the context whose guest opened a slot, or NULL
  running   \* the context whose guest is running, NULL, or EXITED after exit()

vars == <<alive, codeBase, codeAt, cache, fdTable, running>>

Slots == 3 .. MAX_FDS - 1
Free == {a \in Addrs : codeAt[a] = NULL}
-----------------------------------------------------------------------------
(* The decoded-instruction cache: `code` is the binary decoded[] was built *)
(* from.                                                                   *)

EmptyCache == [cb |-> NULL, len |-> 0, cap |-> 0, code |-> NULL]

(* Mutant: the cache is kept from one binary to the next (release 1.2.1).  *)
ResetForgotten(c) == c
runCacheReset(c) == [c EXCEPT !.cb = NULL, !.len = 0]

FetchDecoded(c, cb, b) ==
  IF c.cb = cb /\ c.len = Length(b)
  THEN c
  ELSE [cb   |-> cb,
        len  |-> Length(b),
        cap  |-> IF c.cap < Length(b) + 1 THEN Length(b) + 1 ELSE c.cap,
        code |-> b]
-----------------------------------------------------------------------------
Init ==
  /\ alive = {}
  /\ codeBase = [v \in VMs |-> NULL]
  /\ codeAt = [a \in Addrs |-> NULL]
  /\ cache = EmptyCache
  /\ fdTable = [s \in Slots |-> NULL]
  /\ running = NULL

Idle == running = NULL

cortexVMCreate(v) ==
  /\ Idle
  /\ v \notin alive
  /\ alive' = alive \cup {v}
  /\ codeBase' = [codeBase EXCEPT ![v] = NULL]
  /\ UNCHANGED <<codeAt, cache, fdTable, running>>

(* Mutant: the arena of the previous binary is not destroyed.              *)
ArenaKept(v) == codeAt
(* The old arena is destroyed before the new one is made, so the new one   *)
(* may be given the address that has just been freed.                      *)
Unload(v) == [a \in Addrs |-> IF a = codeBase[v] THEN NULL ELSE codeAt[a]]

cortexVMExecBinary(v, b) ==
  /\ Idle
  /\ v \in alive
  /\ b \notin BadBinaries
  /\ \E a \in Free \cup ({codeBase[v]} \ {NULL}) :
       /\ codeAt' = [Unload(v) EXCEPT ![a] = b]
       /\ codeBase' = [codeBase EXCEPT ![v] = a]
       /\ cache' = FetchDecoded(runCacheReset(cache), a, b)
  /\ running' = v
  /\ UNCHANGED <<alive, fdTable>>

ExecInvalid(v, b) ==
  /\ Idle
  /\ v \in alive
  /\ b \in BadBinaries
  /\ running' = EXITED
  /\ UNCHANGED <<alive, codeBase, codeAt, cache, fdTable>>

(* The guest's file calls: the lowest free slot is taken, and a full table *)
(* or a failing fopen ends the process.                                    *)
LowestFree(s) == fdTable[s] = NULL /\ \A t \in Slots : t < s => fdTable[t] # NULL

FileOpen ==
  /\ running \in VMs
  /\ \E s \in Slots :
       /\ LowestFree(s)
       /\ fdTable' = [fdTable EXCEPT ![s] = running]
  /\ UNCHANGED <<alive, codeBase, codeAt, cache, running>>

FileClose ==
  /\ running \in VMs
  /\ \E s \in Slots :
       /\ fdTable[s] # NULL
       /\ fdTable' = [fdTable EXCEPT ![s] = NULL]
  /\ UNCHANGED <<alive, codeBase, codeAt, cache, running>>

GuestFatal ==
  /\ running \in VMs
  /\ running' = EXITED
  /\ UNCHANGED <<alive, codeBase, codeAt, cache, fdTable>>

(* run() returns: the guest halted, ran off the end or called SYS_EXIT.    *)
RunReturns ==
  /\ running \in VMs
  /\ running' = NULL
  /\ UNCHANGED <<alive, codeBase, codeAt, cache, fdTable>>

(* Mutant: a context is destroyed under the guest that runs in it.         *)
DestroyedInUse(v) ==
  /\ v \in alive
  /\ alive' = alive \ {v}
  /\ codeAt' = Unload(v)
  /\ codeBase' = [codeBase EXCEPT ![v] = NULL]
  /\ UNCHANGED <<cache, fdTable, running>>

cortexVMDestroy(v) ==
  /\ Idle
  /\ v \in alive
  /\ alive' = alive \ {v}
  /\ codeAt' = Unload(v)
  /\ codeBase' = [codeBase EXCEPT ![v] = NULL]
  /\ UNCHANGED <<cache, fdTable, running>>

Next ==
  \/ \E v \in VMs : cortexVMCreate(v) \/ cortexVMDestroy(v)
  \/ \E v \in VMs, b \in Binaries : cortexVMExecBinary(v, b) \/ ExecInvalid(v, b)
  \/ FileOpen
  \/ FileClose
  \/ GuestFatal
  \/ RunReturns

Spec == Init /\ [][Next]_vars
-----------------------------------------------------------------------------
(* Every variable has its type.                                            *)
TypeOK ==
  /\ alive \in SUBSET VMs
  /\ codeBase \in [VMs -> Addrs \cup {NULL}]
  /\ codeAt \in [Addrs -> Binaries \cup {NULL}]
  /\ cache \in [cb : Addrs \cup {NULL}, len : Nat, cap : Nat, code : Binaries \cup {NULL}]
  /\ fdTable \in [Slots -> VMs \cup {NULL}]
  /\ running \in alive \cup {NULL, EXITED}

(* While a guest runs, decoded[] was built from the very binary its        *)
(* context holds, however arenas were freed and addresses reused before,   *)
(* and the array has room for the code and for the sentinel after it.      *)
DecodeCacheCoherent ==
  running \in VMs =>
    /\ codeBase[running] # NULL
    /\ cache.cb = codeBase[running]
    /\ cache.code = codeAt[codeBase[running]]
    /\ cache.cap >= Length(cache.code) + 1

(* The arenas allocated are exactly those that live contexts point to, and *)
(* no two contexts share one: nothing is leaked when a context loads its   *)
(* next binary or is destroyed, and nothing in use is freed.               *)
ArenasOwned ==
  /\ \A v \in VMs : codeBase[v] # NULL => v \in alive /\ codeAt[codeBase[v]] # NULL
  /\ \A a \in Addrs : codeAt[a] # NULL => \E v \in alive : codeBase[v] = a
  /\ \A v, w \in VMs : codeBase[v] = codeBase[w] /\ codeBase[v] # NULL => v = w

(* "Free all resources owned by `vm`" (src/cortex-vm.c, cortexVMDestroy):  *)
(* a file a guest opened is not open any more once its context is gone.    *)
FilesReleased == \A s \in Slots : fdTable[s] # NULL => fdTable[s] \in alive
=============================================================================
