-------------------------------- MODULE FileLock --------------------------------
(***************************************************************************)
(* SharedFileLock: the lock of one shared JSON file.  Threads of a process *)
(* first queue at a gate of their process (FileGate, first come first      *)
(* served); the gate's holder then polls the lock file next to the data    *)
(* file (QLockFile), which names a process.  A lock file can outlive its   *)
(* holder: the process crashed, or the unlock could not delete it.  While  *)
(* it polls, a waiter leaves a marker, and a newcomer that finds one first *)
(* stands back for longer than a poll interval.                            *)
(*                                                                         *)
(* What the lock protects is a reread, a change and a write, which take    *)
(* milliseconds; here it is the time between Acquire and Unlock.           *)
(***************************************************************************)
EXTENDS Naturals, Sequences

CONSTANTS
    Threads,
    Procs,
    ProcOf,     \* the process of each thread
    MaxFaults   \* bound: deadlines, deletions that fail and processes that die

Nobody == "nobody"

ASSUME ThreadsAssumption ==
    /\ ProcOf \in [Threads -> Procs] /\ MaxFaults \in Nat
    /\ Nobody \notin Threads \union Procs

VARIABLES
    alive,      \* the processes that run
    queue,      \* FileGate::m_queue, the tickets of each process
    gate,       \* FileGate::m_held: the thread past the gate of its process
    lock,       \* where each thread is in the constructor
    file,       \* the lock file: the process it names, stale once QLockFile may take it over
    marker,     \* <file>.lock.waiting exists
    announced,  \* the threads that created it
    cleaned,    \* leftoverRemoved
    owed,       \* for a thread standing back: the waiters that have not polled since it began
    faults      \* how much went wrong so far

vars == <<alive, queue, gate, lock, file, marker, announced, cleaned, owed, faults>>

NoFile == [proc |-> Nobody, stale |-> TRUE]
PastGate == {"enter", "yield", "try", "poll", "holds"}
LockStates == PastGate \union {"out", "queued"}
Holds(t) == lock[t] = "holds"

Init ==
    /\ alive = Procs
    /\ queue = [p \in Procs |-> <<>>]
    /\ gate = [p \in Procs |-> Nobody]
    /\ lock = [t \in Threads |-> "out"]
    /\ file = NoFile /\ marker = FALSE
    /\ announced = {} /\ cleaned = {}
    /\ owed = [t \in Threads |-> {}]
    /\ faults = 0

Fault == faults < MaxFaults /\ faults' = faults + 1

\* The tickets of a queue without those of one thread.
Without(q, t) == SelectSeq(q, LAMBDA u : u # t)

\* Every other thread standing back has seen t poll, or leave.
Seen(t) == owed' = [u \in Threads |-> owed[u] \ {t}]

\* The constructor ends: the marker goes if this thread made it.
EndWait(t) ==
    /\ marker' = (marker /\ t \notin announced)
    /\ announced' = announced \ {t}
    /\ cleaned' = cleaned \ {t}
    /\ Seen(t)

----------------------------------------------------------------------------
\* A ticket at the gate of the thread's process.
TakeTicket(t) ==
    /\ lock[t] = "out" /\ ProcOf[t] \in alive
    /\ queue' = [queue EXCEPT ![ProcOf[t]] = Append(@, t)]
    /\ lock' = [lock EXCEPT ![t] = "queued"]
    /\ UNCHANGED <<alive, gate, file, marker, announced, cleaned, owed, faults>>

\* Mutant: every thread is past the gate at once, as if QLockFile served threads too.
PassUngated(t) ==
    /\ lock[t] = "queued"
    /\ queue' = [queue EXCEPT ![ProcOf[t]] = Without(@, t)]
    /\ gate' = [gate EXCEPT ![ProcOf[t]] = t]
    /\ lock' = [lock EXCEPT ![t] = "enter"]
    /\ UNCHANGED <<alive, file, marker, announced, cleaned, owed, faults>>

\* The oldest ticket passes when the gate is free.
PassGate(t) ==
    /\ lock[t] = "queued" /\ gate[ProcOf[t]] = Nobody
    /\ Head(queue[ProcOf[t]]) = t
    /\ queue' = [queue EXCEPT ![ProcOf[t]] = Tail(@)]
    /\ gate' = [gate EXCEPT ![ProcOf[t]] = t]
    /\ lock' = [lock EXCEPT ![t] = "enter"]
    /\ UNCHANGED <<alive, file, marker, announced, cleaned, owed, faults>>

\* Mutant: nobody stands back.
NeverYield(t) ==
    /\ lock[t] = "enter"
    /\ lock' = [lock EXCEPT ![t] = "try"]
    /\ UNCHANGED <<alive, queue, gate, file, marker, announced, cleaned, owed, faults>>

\* yieldToWaiter: a marker nobody owns any more is removed once it is old.
YieldToWaiter(t) ==
    /\ lock[t] = "enter"
    /\ \/ /\ marker
          /\ lock' = [lock EXCEPT ![t] = "yield"]
          /\ owed' = [owed EXCEPT ![t] = {u \in Threads : lock[u] = "poll"}]
          /\ UNCHANGED marker
       \/ /\ marker => announced = {}
          /\ marker' = FALSE
          /\ lock' = [lock EXCEPT ![t] = "try"] /\ UNCHANGED owed
    /\ UNCHANGED <<alive, queue, gate, file, announced, cleaned, faults>>

\* The stand-back outlasts a poll of every waiter.
EndYield(t) ==
    /\ lock[t] = "yield" /\ owed[t] = {}
    /\ lock' = [lock EXCEPT ![t] = "try"]
    /\ UNCHANGED <<alive, queue, gate, file, marker, announced, cleaned, owed, faults>>

Trying(t) == lock[t] \in {"try", "poll"}

\* tryLock(0) succeeds: there is no lock file, or a stale one.
Acquire(t) ==
    /\ Trying(t) /\ file.stale
    /\ file' = [proc |-> ProcOf[t], stale |-> FALSE]
    /\ lock' = [lock EXCEPT ![t] = "holds"]
    /\ EndWait(t)
    /\ UNCHANGED <<alive, queue, gate, faults>>

\* heldByThisProcess
HeldByThisProcess(t) == file.proc = ProcOf[t]

\* A leftover of the own process is removed, once per constructor.
RemoveLeftover(t) ==
    /\ Trying(t) /\ ~file.stale /\ HeldByThisProcess(t) /\ t \notin cleaned
    /\ cleaned' = cleaned \union {t}
    /\ \/ file' = NoFile /\ UNCHANGED faults
       \/ UNCHANGED file /\ Fault             \* the deletion fails again
    /\ UNCHANGED <<alive, queue, gate, lock, marker, announced, owed>>

\* Held by another: leave the marker if there is none, and sleep until the next poll.
Poll(t) ==
    /\ Trying(t) /\ ~file.stale
    /\ HeldByThisProcess(t) => t \in cleaned
    /\ lock' = [lock EXCEPT ![t] = "poll"]
    /\ marker' = TRUE
    /\ announced' = IF marker THEN announced ELSE announced \union {t}
    /\ Seen(t)
    /\ UNCHANGED <<alive, queue, gate, file, cleaned, faults>>

\* The deadline at the gate or at the file, or an error waiting does not help; locked() is FALSE.
GiveUp(t) ==
    /\ lock[t] = "queued" \/ Trying(t)
    /\ Fault
    /\ lock' = [lock EXCEPT ![t] = "out"]
    /\ IF lock[t] = "queued"
       THEN /\ queue' = [queue EXCEPT ![ProcOf[t]] = Without(@, t)]
            /\ UNCHANGED <<gate, marker, announced, cleaned, owed>>
       ELSE /\ gate' = [gate EXCEPT ![ProcOf[t]] = Nobody]
            /\ EndWait(t) /\ UNCHANGED queue
    /\ UNCHANGED <<alive, file>>

\* The destructor: the file, whose deletion can fail, then the gate.
Unlock(t) ==
    /\ Holds(t)
    /\ \/ file' = NoFile /\ UNCHANGED faults
       \/ UNCHANGED file /\ Fault
    /\ gate' = [gate EXCEPT ![ProcOf[t]] = Nobody]
    /\ lock' = [lock EXCEPT ![t] = "out"]
    /\ UNCHANGED <<alive, queue, marker, announced, cleaned, owed>>

\* A lock file nobody holds reaches the stale time.  (A holder never does: it holds for milliseconds.)
Age ==
    /\ ~file.stale /\ \A t \in Threads : ~Holds(t)
    /\ file' = [file EXCEPT !.stale = TRUE]
    /\ UNCHANGED <<alive, queue, gate, lock, marker, announced, cleaned, owed, faults>>

\* The process dies, anywhere: its lock file names a dead process.
Die(p) ==
    /\ p \in alive /\ alive' = alive \ {p} /\ Fault
    /\ queue' = [queue EXCEPT ![p] = <<>>]
    /\ gate' = [gate EXCEPT ![p] = Nobody]
    /\ lock' = [t \in Threads |-> IF ProcOf[t] = p THEN "out" ELSE lock[t]]
    /\ file' = IF file.proc = p THEN [file EXCEPT !.stale = TRUE] ELSE file
    /\ announced' = {t \in announced : ProcOf[t] # p}
    /\ cleaned' = {t \in cleaned : ProcOf[t] # p}
    /\ owed' = [t \in Threads |-> IF ProcOf[t] = p THEN {} ELSE {u \in owed[t] : ProcOf[u] # p}]
    /\ UNCHANGED marker

\* It starts again, under a new process id.
Start(p) ==
    /\ p \notin alive /\ alive' = alive \union {p}
    /\ UNCHANGED <<queue, gate, lock, file, marker, announced, cleaned, owed, faults>>

----------------------------------------------------------------------------
\* What a thread does once it has asked for the lock.
Step(t) ==
    \/ PassGate(t) \/ YieldToWaiter(t) \/ EndYield(t)
    \/ Acquire(t) \/ RemoveLeftover(t) \/ Poll(t) \/ Unlock(t)

Next ==
    \/ \E t \in Threads : TakeTicket(t) \/ Step(t) \/ GiveUp(t)
    \/ \E p \in Procs : Die(p) \/ Start(p)
    \/ Age

Spec == Init /\ [][Next]_vars

\* Every thread goes on, a holder unlocks, and time passes for a file left behind.  Nothing
\* forces a thread to ask, a deadline to pass or a process to die.
FairSpec ==
    /\ Spec
    /\ \A t \in Threads : WF_vars(Step(t))
    /\ WF_vars(Age)

----------------------------------------------------------------------------
\* At most one thread of all processes holds the lock, whatever crashed, gave up or was left over.
OneHolder == \A t, u \in Threads : Holds(t) /\ Holds(u) => t = u

\* A thread that waits gets the lock however often the others lock again, unless it gives up
\* or its process dies: the gate is first come first served, and who relocks stands back.
Waits(t) == lock[t] \notin {"out", "holds"}
WaiterServed == \A t \in Threads : Waits(t) ~> ~Waits(t)
=============================================================================
