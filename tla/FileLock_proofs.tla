----------------------------- MODULE FileLock_proofs -----------------------------
(***************************************************************************)
(* The file lock is exclusive: for any processes and threads, whatever     *)
(* dies, gives up or leaves its lock file behind.  A holder is past the    *)
(* gate of its process, so it is the only one of its process, and the lock *)
(* file names its process, so no other process has one.                    *)
(***************************************************************************)
EXTENDS FileLock, TLAPS

\* The part of the types the argument needs.
Types ==
    /\ gate \in [Procs -> Threads \union {Nobody}]
    /\ lock \in [Threads -> LockStates]
    /\ file \in [proc : Procs \union {Nobody}, stale : BOOLEAN]

\* Who is past the gate is the one the gate is held by.
GateOfThread == \A t \in Threads : lock[t] \in PastGate => gate[ProcOf[t]] = t

\* A holder's lock file names its process and may not be taken over.
FileOfHolder == \A t \in Threads : Holds(t) => file = [proc |-> ProcOf[t], stale |-> FALSE]

IInv == Types /\ GateOfThread /\ FileOfHolder

LEMMA InitIInv == Init => IInv
BY ThreadsAssumption
   DEF Init, IInv, Types, GateOfThread, FileOfHolder, Holds, NoFile, PastGate, LockStates

\* Of the threads past the gate of a process there is one.
LEMMA OnePastGate ==
    ASSUME IInv, NEW t \in Threads, NEW u \in Threads,
           lock[t] \in PastGate, lock[u] \in PastGate, ProcOf[t] = ProcOf[u]
    PROVE  t = u
BY DEF IInv, GateOfThread

\* While a thread holds, no other of its process is past the gate, and the file is not stale.
LEMMA HolderExcludes ==
    ASSUME IInv, NEW u \in Threads, Holds(u)
    PROVE  /\ ~file.stale /\ file.proc = ProcOf[u]
           /\ \A t \in Threads : lock[t] \in PastGate /\ ProcOf[t] = file.proc => t = u
BY OnePastGate DEF IInv, FileOfHolder, Holds, PastGate

\* A thread that tries is past the gate and holds nothing.
LEMMA TryingIsPastGate ==
    ASSUME NEW t \in Threads, Trying(t)
    PROVE  lock[t] \in PastGate /\ ~Holds(t)
BY DEF Trying, PastGate, Holds

LEMMA NextIInv == IInv /\ [Next]_vars => IInv'
<1> SUFFICES ASSUME IInv, [Next]_vars PROVE IInv'
    OBVIOUS
<1> USE ThreadsAssumption
<1>1. ASSUME NEW t \in Threads, TakeTicket(t) PROVE IInv'
    BY <1>1 DEF TakeTicket, IInv, Types, GateOfThread, FileOfHolder, Holds, PastGate, LockStates
<1>2. ASSUME NEW t \in Threads, PassGate(t) PROVE IInv'
  <2>1. \A u \in Threads : lock[u] \in PastGate => ProcOf[u] # ProcOf[t]
    BY <1>2 DEF PassGate, IInv, GateOfThread
  <2>2. Types' /\ GateOfThread'
    BY <1>2, <2>1 DEF PassGate, IInv, Types, GateOfThread, PastGate, LockStates
  <2>3. FileOfHolder'
    BY <1>2 DEF PassGate, IInv, Types, FileOfHolder, Holds
  <2> QED BY <2>2, <2>3 DEF IInv
<1>3. ASSUME NEW t \in Threads, YieldToWaiter(t) \/ EndYield(t) \/ Poll(t) PROVE IInv'
  <2>1. gate' = gate /\ file' = file /\ lock[t] \in PastGate /\ ~Holds(t)
    BY <1>3 DEF YieldToWaiter, EndYield, Poll, Trying, PastGate, Holds
  <2>2. \E s \in {"yield", "try", "poll"} : lock' = [lock EXCEPT ![t] = s]
    BY <1>3 DEF YieldToWaiter, EndYield, Poll
  <2> QED BY <2>1, <2>2 DEF IInv, Types, GateOfThread, FileOfHolder, Holds, PastGate, LockStates
<1>4. ASSUME NEW t \in Threads, Acquire(t) PROVE IInv'
  <2>1. \A u \in Threads : ~Holds(u)
    BY <1>4, HolderExcludes DEF Acquire
  <2> QED
    BY <1>4, <2>1
       DEF Acquire, Trying, IInv, Types, GateOfThread, FileOfHolder, Holds, PastGate, LockStates
<1>5. ASSUME NEW t \in Threads, RemoveLeftover(t) PROVE IInv'
  <2>1. lock[t] \in PastGate /\ ~Holds(t)
    BY <1>5, TryingIsPastGate DEF RemoveLeftover
  <2>2. \A u \in Threads : ~Holds(u)
    BY <1>5, <2>1, HolderExcludes DEF RemoveLeftover, HeldByThisProcess
  <2>3. lock' = lock /\ gate' = gate /\ (file' = file \/ file' = NoFile)
    BY <1>5 DEF RemoveLeftover
  <2>4. Types'
    <3>1. NoFile \in [proc : Procs \union {Nobody}, stale : BOOLEAN]
      BY DEF NoFile
    <3> QED BY <2>3, <3>1 DEF IInv, Types
  <2>5. GateOfThread'
    BY <2>3 DEF IInv, GateOfThread
  <2>6. FileOfHolder'
    BY <2>2, <2>3 DEF FileOfHolder, Holds
  <2> QED BY <2>4, <2>5, <2>6 DEF IInv
<1>6. ASSUME NEW t \in Threads, GiveUp(t) PROVE IInv'
  <2>1. CASE lock[t] = "queued"
    BY <1>6, <2>1
       DEF GiveUp, IInv, Types, GateOfThread, FileOfHolder, Holds, PastGate, LockStates
  <2>2. CASE lock[t] # "queued"
    <3>1. Trying(t) /\ gate' = [gate EXCEPT ![ProcOf[t]] = Nobody] /\ file' = file
          /\ lock' = [lock EXCEPT ![t] = "out"]
      BY <1>6, <2>2 DEF GiveUp
    <3>2. \A u \in Threads : lock[u] \in PastGate /\ u # t => ProcOf[u] # ProcOf[t]
      BY <3>1, TryingIsPastGate, OnePastGate
    <3> QED
      BY <3>1, <3>2 DEF IInv, Types, GateOfThread, FileOfHolder, Holds, PastGate, LockStates
  <2> QED BY <2>1, <2>2
<1>7. ASSUME NEW t \in Threads, Unlock(t) PROVE IInv'
  <2>1. lock[t] \in PastGate
    BY <1>7 DEF Unlock, Holds, PastGate
  <2>2. \A u \in Threads : lock[u] \in PastGate /\ u # t => ProcOf[u] # ProcOf[t] /\ ~Holds(u)
    BY <1>7, <2>1, OnePastGate, HolderExcludes DEF Unlock
  <2>3. (file' = file \/ file' = NoFile) /\ gate' = [gate EXCEPT ![ProcOf[t]] = Nobody]
        /\ lock' = [lock EXCEPT ![t] = "out"]
    BY <1>7 DEF Unlock
  <2>4. Types'
    <3>1. NoFile \in [proc : Procs \union {Nobody}, stale : BOOLEAN]
      BY DEF NoFile
    <3>2. "out" \in LockStates
      BY DEF LockStates
    <3> QED BY <2>3, <3>1, <3>2 DEF IInv, Types
  <2>5. GateOfThread'
    BY <2>2, <2>3 DEF IInv, Types, GateOfThread, PastGate
  <2>6. FileOfHolder'
    BY <2>2, <2>3 DEF IInv, Types, FileOfHolder, Holds, PastGate
  <2> QED BY <2>4, <2>5, <2>6 DEF IInv
<1>8. ASSUME NEW p \in Procs, Die(p) PROVE IInv'
  <2>1. \A u \in Threads : Holds(u) => file.proc = ProcOf[u]
    BY HolderExcludes
  <2>2. /\ gate' = [gate EXCEPT ![p] = Nobody]
        /\ lock' = [t \in Threads |-> IF ProcOf[t] = p THEN "out" ELSE lock[t]]
        /\ file' = IF file.proc = p THEN [file EXCEPT !.stale = TRUE] ELSE file
    BY <1>8 DEF Die
  <2>3. Types'
    <3>0. "out" \in LockStates
      BY DEF LockStates
    <3>1. gate' \in [Procs -> Threads \union {Nobody}]
      BY <2>2 DEF IInv, Types
    <3>2. lock' \in [Threads -> LockStates]
      BY <2>2, <3>0 DEF IInv, Types
    <3>3. file' \in [proc : Procs \union {Nobody}, stale : BOOLEAN]
      <4>1. file \in [proc : Procs \union {Nobody}, stale : BOOLEAN]
        BY DEF IInv, Types
      <4>2. [file EXCEPT !.stale = TRUE] \in [proc : Procs \union {Nobody}, stale : BOOLEAN]
        BY <4>1
      <4> QED BY <2>2, <4>1, <4>2
    <3> QED BY <3>1, <3>2, <3>3 DEF Types
  <2>4. GateOfThread'
    BY <2>2 DEF IInv, Types, GateOfThread, PastGate
  <2>5. FileOfHolder'
    BY <2>1, <2>2 DEF IInv, FileOfHolder, Holds
  <2> QED BY <2>3, <2>4, <2>5 DEF IInv
<1>9. ASSUME NEW p \in Procs, Start(p) PROVE IInv'
    BY <1>9 DEF Start, IInv, Types, GateOfThread, FileOfHolder, Holds
<1>10. CASE Age
    BY <1>10 DEF Age, IInv, Types, GateOfThread, FileOfHolder, Holds
<1>11. CASE UNCHANGED vars
    BY <1>11 DEF vars, IInv, Types, GateOfThread, FileOfHolder, Holds
<1> QED
    BY <1>1, <1>2, <1>3, <1>4, <1>5, <1>6, <1>7, <1>8, <1>9, <1>10, <1>11 DEF Next, Step

\* The lock of a shared file has at most one holder among all threads of all processes.
THEOREM Exclusive == Spec => []OneHolder
<1>1. IInv => OneHolder
  <2> SUFFICES ASSUME IInv, NEW t \in Threads, NEW u \in Threads, Holds(t), Holds(u)
               PROVE  t = u
    BY DEF OneHolder
  <2>1. file.proc = ProcOf[t] /\ file.proc = ProcOf[u]
    BY HolderExcludes
  <2> QED BY <2>1, OnePastGate DEF Holds, PastGate
<1> QED BY <1>1, InitIInv, NextIInv, PTL DEF Spec
=============================================================================
