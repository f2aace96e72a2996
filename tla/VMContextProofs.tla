--------------------------- MODULE VMContextProofs ---------------------------
(***************************************************************************)
(* For every set of contexts, addresses and binaries: the decode cache is  *)
(* coherent whenever a guest runs, and arenas are owned by exactly one     *)
(* context.  The two conjuncts with TypeOK are inductive as they stand:    *)
(* coherence needs ownership only through the address the running context  *)
(* holds, which no step of a running guest changes.                        *)
(***************************************************************************)
EXTENDS VMContext, TLAPS

IInv == TypeOK /\ ArenasOwned /\ DecodeCacheCoherent

(* A reset cache is always rebuilt, so what run() finds in decoded[] is    *)
(* the binary just loaded, with room for the sentinel: the claim of the    *)
(* comment above runCacheReset() in cortexVMExecBinary.                    *)
LEMMA ResetForcesDecode ==
  ASSUME NEW a \in Addrs, NEW b \in Binaries,
         NEW c \in [cb : Addrs \cup {NULL}, len : Nat, cap : Nat, code : Binaries \cup {NULL}]
  PROVE  LET d == FetchDecoded(runCacheReset(c), a, b) IN
         /\ d \in [cb : Addrs \cup {NULL}, len : Nat, cap : Nat, code : Binaries \cup {NULL}]
         /\ d.cb = a
         /\ d.code = b
         /\ d.cap >= Length(b) + 1
<1>1. a # NULL /\ Length(b) \in Nat
  BY VMContextAssumption
<1>2. runCacheReset(c).cb = NULL /\ runCacheReset(c).cap \in Nat
  BY DEF runCacheReset
<1>3. FetchDecoded(runCacheReset(c), a, b) =
        [cb   |-> a, len |-> Length(b),
         cap  |-> IF runCacheReset(c).cap < Length(b) + 1 THEN Length(b) + 1
                                                          ELSE runCacheReset(c).cap,
         code |-> b]
  BY <1>1, <1>2 DEF FetchDecoded
<1>4. QED
  BY <1>1, <1>2, <1>3

LEMMA InitIInv == Init => IInv
BY VMContextAssumption DEF Init, IInv, TypeOK, ArenasOwned, DecodeCacheCoherent, EmptyCache

(* One step per action; the arena-moving ones are split by conjunct.       *)
LEMMA NextIInv == IInv /\ [Next]_vars => IInv'
<1> SUFFICES ASSUME IInv, [Next]_vars PROVE IInv'
  OBVIOUS
<1> USE VMContextAssumption DEF IInv, TypeOK
<1>1. ASSUME NEW v \in VMs, cortexVMCreate(v) PROVE IInv'
  <2>1. TypeOK' /\ DecodeCacheCoherent'
    BY <1>1 DEF cortexVMCreate, Idle, DecodeCacheCoherent
  <2>2. codeBase[v] = NULL
    BY <1>1 DEF cortexVMCreate, ArenasOwned
  <2>3. codeBase' = codeBase /\ codeAt' = codeAt /\ alive \subseteq alive'
    BY <1>1, <2>2 DEF cortexVMCreate
  <2>4. ArenasOwned'
    BY <2>3 DEF ArenasOwned
  <2> QED BY <2>1, <2>4
<1>2. ASSUME NEW v \in VMs, cortexVMDestroy(v) PROVE IInv'
  <2>1. TypeOK' /\ DecodeCacheCoherent'
    BY <1>2 DEF cortexVMDestroy, Idle, Unload, DecodeCacheCoherent
  <2>2. ArenasOwned'
    BY <1>2 DEF cortexVMDestroy, Unload, ArenasOwned
  <2> QED BY <2>1, <2>2
<1>3. ASSUME NEW v \in VMs, NEW b \in Binaries, cortexVMExecBinary(v, b) PROVE IInv'
  <2>1. PICK a \in Free \cup ({codeBase[v]} \ {NULL}) :
          /\ codeAt' = [Unload(v) EXCEPT ![a] = b]
          /\ codeBase' = [codeBase EXCEPT ![v] = a]
          /\ cache' = FetchDecoded(runCacheReset(cache), a, b)
    BY <1>3 DEF cortexVMExecBinary
  <2>2. a \in Addrs /\ \A w \in VMs \ {v} : codeBase[w] # a
    BY DEF Free, ArenasOwned
  <2>3. /\ cache' \in [cb : Addrs \cup {NULL}, len : Nat, cap : Nat, code : Binaries \cup {NULL}]
        /\ cache'.cb = a /\ cache'.code = b /\ cache'.cap >= Length(b) + 1
    BY <2>1, <2>2, ResetForcesDecode
  <2>4. codeAt' = [x \in Addrs |-> IF x = a THEN b
                                   ELSE IF x = codeBase[v] THEN NULL ELSE codeAt[x]]
    BY <2>1, <2>2 DEF Unload
  <2>5. TypeOK'
    <3>1. codeAt' \in [Addrs -> Binaries \cup {NULL}]
      BY <2>4
    <3>2. codeBase' \in [VMs -> Addrs \cup {NULL}]
      BY <2>1, <2>2
    <3>3. alive' = alive /\ fdTable' = fdTable /\ running' \in alive'
      BY <1>3 DEF cortexVMExecBinary
    <3> QED BY <2>3, <3>1, <3>2, <3>3
  <2>6. DecodeCacheCoherent'
    BY <1>3, <2>1, <2>2, <2>3, <2>4 DEF cortexVMExecBinary, DecodeCacheCoherent
  <2>7. ArenasOwned'
    BY <1>3, <2>1, <2>2, <2>4 DEF cortexVMExecBinary, ArenasOwned
  <2> QED BY <2>5, <2>6, <2>7
<1>4. ASSUME NEW v \in VMs, NEW b \in Binaries, ExecInvalid(v, b) PROVE IInv'
  BY <1>4 DEF ExecInvalid, ArenasOwned, DecodeCacheCoherent
<1>5. CASE FileOpen
  BY <1>5 DEF FileOpen, ArenasOwned, DecodeCacheCoherent
<1>6. CASE FileClose
  BY <1>6 DEF FileClose, ArenasOwned, DecodeCacheCoherent
<1>7. CASE GuestFatal
  BY <1>7 DEF GuestFatal, ArenasOwned, DecodeCacheCoherent
<1>8. CASE RunReturns
  BY <1>8 DEF RunReturns, ArenasOwned, DecodeCacheCoherent
<1>9. CASE UNCHANGED vars
  BY <1>9 DEF vars, ArenasOwned, DecodeCacheCoherent
<1>10. QED
  BY <1>1, <1>2, <1>3, <1>4, <1>5, <1>6, <1>7, <1>8, <1>9 DEF Next

LEMMA InductiveInvariant == Spec => []IInv
BY InitIInv, NextIInv, PTL DEF Spec

(* Type correctness of the persistent-context API.                         *)
THEOREM TypeCorrect == Spec => []TypeOK
BY InductiveInvariant, PTL DEF IInv

(* While a guest runs, decoded[] is the decoding of its own binary.        *)
THEOREM CacheCoherence == Spec => []DecodeCacheCoherent
BY InductiveInvariant, PTL DEF IInv

(* No code arena is leaked, shared, or freed while in use.                 *)
THEOREM ArenaOwnership == Spec => []ArenasOwned
BY InductiveInvariant, PTL DEF IInv
=============================================================================
