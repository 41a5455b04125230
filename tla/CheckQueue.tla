----------------------------- MODULE CheckQueue -----------------------------
(***************************************************************************)
(* CCheckQueue and CCheckQueueControl of checkqueue.h, as ConnectBlock     *)
(* uses them: the thread that holds cs_main (the master) queues the script *)
(* checks of a block, worker threads run them, and the master joins in     *)
(* until none is left.  All shared state is guarded by one mutex; a thread *)
(* that has it is in pc "locked".  boost::thread::interrupt, with which    *)
(* the process shuts down, strikes a thread in condition_variable::wait.   *)
(***************************************************************************)
EXTENDS Integers, FiniteSets

CONSTANTS
    Workers,    \* the threads that run ThreadScriptCheck
    Master,     \* the thread that connects blocks
    Checks,     \* the CScriptCheck objects of the blocks
    Valid,      \* the ones that return true
    BatchSize   \* nBatchSize

ASSUME QueueAssumption ==
    /\ IsFiniteSet(Workers)
    /\ Master \notin Workers
    /\ IsFiniteSet(Checks)
    /\ Valid \subseteq Checks
    /\ BatchSize \in Nat \ {0}

Threads == Workers \cup {Master}

VARIABLES
    queue,      \* queue, as a set: the order of checks does not matter
    nIdle,
    nTotal,
    nTodo,
    fAllOk,
    pc,         \* where each thread is
    batch,      \* vChecks of each thread
    fOk,        \* fOk of each thread
    added,      \* the checks of the block that is, or was last, connected
    verdict,    \* what the last Wait() returned
    interrupted \* threads that have had their interruption

vars == <<queue, nIdle, nTotal, nTodo, fAllOk, pc, batch, fOk, added, verdict,
          interrupted>>

\* "off": not in Loop, and no CCheckQueueControl alive.  "adding": ConnectBlock
\* has a control.  "unwind": an exception on its way to ~CCheckQueueControl.
Places == {"off", "adding", "unwind", "locked", "work", "wait", "woken", "dead"}

MutexFree == \A t \in Threads : pc[t] # "locked"

\* The checks that have not completed yet.
Outstanding == queue \cup UNION {batch[t] : t \in Threads}

Init ==
    /\ queue = {}
    /\ nIdle = 0 /\ nTotal = 0 /\ nTodo = 0
    /\ fAllOk = TRUE
    /\ pc = [t \in Threads |-> "off"]
    /\ batch = [t \in Threads |-> {}]
    /\ fOk = [t \in Threads |-> TRUE]
    /\ added = {}
    /\ verdict = TRUE
    /\ interrupted = {}

-----------------------------------------------------------------------------
(* The master, outside Loop. *)

\* IsIdle
IsIdle == nTotal = nIdle /\ nTodo = 0 /\ fAllOk

\* CCheckQueueControl is constructed, at the beginning of ConnectBlock.
Begin ==
    /\ MutexFree
    /\ pc[Master] = "off"
    /\ pc' = [pc EXCEPT ![Master] = "adding"]
    /\ added' = {}
    /\ UNCHANGED <<queue, nIdle, nTotal, nTodo, fAllOk, batch, fOk, verdict, interrupted>>

WaitingWorkers == {w \in Workers : pc[w] = "wait"}

\* The sets of threads that condWorker.notify_one or notify_all may wake.
Notified(S) ==
    IF WaitingWorkers = {} \/ S = {} THEN {{}}
    ELSE IF Cardinality(S) = 1 THEN {{w} : w \in WaitingWorkers}
    ELSE {WaitingWorkers}

\* Add: the checks S of one transaction.
Add(S) ==
    /\ MutexFree
    /\ pc[Master] = "adding"
    /\ queue' = queue \cup S
    /\ nTodo' = nTodo + Cardinality(S)
    /\ added' = added \cup S
    /\ \E W \in Notified(S) :
          pc' = [t \in Threads |-> IF t \in W THEN "woken" ELSE pc[t]]
    /\ UNCHANGED <<nIdle, nTotal, fAllOk, batch, fOk, verdict, interrupted>>

-----------------------------------------------------------------------------
(* Loop, for a worker or for the master. *)

\* A worker thread starts, or the master calls Wait: explicitly, or in the
\* destructor of the control when ConnectBlock gives up or is interrupted.
Start(t) ==
    /\ MutexFree
    /\ pc[t] \in (IF t = Master THEN {"adding", "unwind"} ELSE {"off"})
    /\ nTotal' = nTotal + 1
    /\ pc' = [pc EXCEPT ![t] = "locked"]
    /\ UNCHANGED <<queue, nIdle, nTodo, fAllOk, batch, fOk, added, verdict, interrupted>>

\* Mutant: the result of the batch is not looked at.
MutBatchOkAlways(t) == fOk[t]

\* The checks of the batch, of which the first failure skips the rest.
BatchOk(t) == fOk[t] /\ batch[t] \subseteq Valid

\* Mutant: the worker that completes the last check does not tell the master.
MutNotifyNobody(t, todo) == {}

\* Who is woken once thread t has completed its batch and todo are left.
NotifyMaster(t, todo) ==
    IF t # Master /\ todo = 0 /\ pc[Master] = "wait" THEN {Master} ELSE {}

\* The batch is executed, and its result recorded under the mutex.
Finish(t) ==
    /\ MutexFree
    /\ pc[t] = "work"
    /\ fAllOk' = (fAllOk /\ BatchOk(t))
    /\ nTodo' = nTodo - Cardinality(batch[t])
    /\ batch' = [batch EXCEPT ![t] = {}]
    /\ pc' = [s \in Threads |-> IF s = t THEN "locked"
                                ELSE IF s \in NotifyMaster(t, nTodo') THEN "woken"
                                ELSE pc[s]]
    /\ UNCHANGED <<queue, nIdle, nTotal, fOk, added, verdict, interrupted>>

\* Mutant: the thread is taken off nIdle here as well as in Wake.
MutSpuriousWakeCounts(t) ==
    /\ pc[t] = "wait"
    /\ pc' = [pc EXCEPT ![t] = "woken"]
    /\ nIdle' = nIdle - 1
    /\ UNCHANGED <<queue, nTotal, nTodo, fAllOk, batch, fOk, added, verdict, interrupted>>

\* cond.wait returns without a notification, or because of one for somebody
\* else: it may, as far as boost promises.
SpuriousWake(t) ==
    /\ pc[t] = "wait"
    /\ pc' = [pc EXCEPT ![t] = "woken"]
    /\ UNCHANGED <<queue, nIdle, nTotal, nTodo, fAllOk, batch, fOk, added, verdict,
                   interrupted>>

\* cond.wait has the mutex again and returns.
Wake(t) ==
    /\ MutexFree
    /\ pc[t] = "woken"
    /\ nIdle' = nIdle - 1
    /\ pc' = [pc EXCEPT ![t] = "locked"]
    /\ UNCHANGED <<queue, nTotal, nTodo, fAllOk, batch, fOk, added, verdict, interrupted>>

\* Mutant: the master returns as soon as the queue is empty.
MutMayReturnEarly(t) == t = Master

\* Only the master returns, when nothing is queued or being executed: nobody
\* sets fQuit.
MayReturn(t) == t = Master /\ nTodo = 0

\* Mutant: fAllOk is not reset.
MutResetNot == fAllOk

\* fAllOk for the next block.
ResetOk == TRUE

Return(t) ==
    /\ pc[t] = "locked"
    /\ queue = {}
    /\ MayReturn(t)
    /\ nTotal' = nTotal - 1
    /\ verdict' = fAllOk
    /\ fAllOk' = ResetOk
    /\ pc' = [pc EXCEPT ![t] = "off"]
    /\ UNCHANGED <<queue, nIdle, nTodo, batch, fOk, added, interrupted>>

\* cond.wait releases the mutex.
Wait(t) ==
    /\ pc[t] = "locked"
    /\ queue = {}
    /\ ~MayReturn(t)
    /\ nIdle' = nIdle + 1
    /\ pc' = [pc EXCEPT ![t] = "wait"]
    /\ UNCHANGED <<queue, nTotal, nTodo, fAllOk, batch, fOk, added, verdict, interrupted>>

\* How many checks to take.
AtMost(a, b) == IF a < b THEN a ELSE b
AtLeast(a, b) == IF a > b THEN a ELSE b
Now == AtLeast(1, AtMost(BatchSize, Cardinality(queue) \div (nTotal + nIdle + 1)))

\* A batch moves from the queue to the thread.
Take(t) ==
    /\ pc[t] = "locked"
    /\ queue # {}
    /\ \E B \in SUBSET queue :
          /\ Cardinality(B) = Now
          /\ queue' = queue \ B
          /\ batch' = [batch EXCEPT ![t] = B]
    /\ fOk' = [fOk EXCEPT ![t] = fAllOk]
    /\ pc' = [pc EXCEPT ![t] = "work"]
    /\ UNCHANGED <<nIdle, nTotal, nTodo, fAllOk, added, verdict, interrupted>>

\* boost::thread_interrupted leaves cond.wait: the end of a worker, and the
\* way to the destructor of the control for the master.  nIdle and nTotal
\* keep counting the thread.
Interrupt(t) ==
    /\ pc[t] \in {"wait", "woken"}
    /\ t \notin interrupted
    /\ interrupted' = interrupted \cup {t}
    /\ pc' = [pc EXCEPT ![t] = IF t = Master THEN "unwind" ELSE "dead"]
    /\ UNCHANGED <<queue, nIdle, nTotal, nTodo, fAllOk, batch, fOk, added, verdict>>

-----------------------------------------------------------------------------
\* What a thread in Loop does when nothing holds it up.
Step(t) ==
    \/ Finish(t)
    \/ Wake(t)
    \/ Return(t)
    \/ Wait(t)
    \/ Take(t)

Next ==
    \/ Begin
    \/ \E S \in SUBSET (Checks \ added) : Add(S)
    \/ \E t \in Threads : Start(t) \/ Step(t) \/ SpuriousWake(t) \/ Interrupt(t)

\* A thread in Loop runs on, and gets the mutex that others hold only for a
\* moment; an exception reaches the destructor.  Workers need not start, and
\* the block need not end.
Fairness ==
    /\ \A t \in Threads : WF_vars(Step(t))
    /\ WF_vars(pc[Master] = "unwind" /\ Start(Master))

Spec == Init /\ [][Next]_vars /\ Fairness

-----------------------------------------------------------------------------
\* Every variable holds a value of its kind; the counters never wrap.
TypeOK ==
    /\ queue \subseteq Checks
    /\ nIdle \in Nat /\ nTotal \in Nat /\ nTodo \in Nat
    /\ fAllOk \in BOOLEAN
    /\ pc \in [Threads -> Places]
    /\ batch \in [Threads -> SUBSET Checks]
    /\ fOk \in [Threads -> BOOLEAN]
    /\ added \subseteq Checks
    /\ verdict \in BOOLEAN
    /\ interrupted \subseteq Threads

\* The mutex excludes; exactly the threads that work have a batch; workers
\* and master keep to their places.
Exclusion ==
    /\ \A s, t \in Threads : (pc[s] = "locked" /\ pc[t] = "locked") => s = t
    /\ \A t \in Threads : pc[t] = "work" <=> batch[t] # {}
    /\ \A w \in Workers : pc[w] \notin {"adding", "unwind"}
    /\ pc[Master] # "dead"

\* A check is in one place at most: no two threads execute it.
NoCheckTwice ==
    /\ \A t \in Threads : batch[t] \cap queue = {}
    /\ \A s, t \in Threads : s # t => batch[s] \cap batch[t] = {}

\* nTodo counts the checks that are queued or being executed.
TodoExact == nTodo = Cardinality(Outstanding)

\* The threads that p puts at one of the places P.
At(p, P) == {t \in Threads : p[t] \in P}

\* nTotal and nIdle, whatever they have come to by interruptions, differ by
\* the number of threads that are in Loop and not waiting, and nIdle counts
\* at least the waiting ones.
IdleAccounting ==
    /\ nTotal = nIdle + Cardinality(At(pc, {"locked", "work"}))
    /\ nIdle >= Cardinality(At(pc, {"wait", "woken"}))

\* The assert in the constructor of CCheckQueueControl cannot fail.
ConstructorAssertHolds == pc[Master] = "off" /\ MutexFree => IsIdle

\* When Wait has returned, no thread still has a check, which points into the
\* block and the coins of ConnectBlock.
NothingOutlivesControl == pc[Master] = "off" => Outstanding = {}

\* Wait returns true exactly if every check of the block does.
VerdictRight == pc[Master] = "off" => verdict = (added \subseteq Valid)

\* What is known of the checks of the block so far.
ProgressSound ==
    /\ Outstanding \subseteq added
    /\ (fAllOk /\ pc[Master] # "off") => added \ Outstanding \subseteq Valid
    /\ ~fAllOk => ~(added \subseteq Valid)
    /\ \A t \in Threads : (pc[t] = "work" /\ ~fOk[t]) => ~fAllOk

\* What Wait leaves for the next block.
LeftClean == pc[Master] = "off" => fAllOk /\ nTodo = 0

\* The inductive invariant.
Inv ==
    /\ TypeOK
    /\ Exclusion
    /\ NoCheckTwice
    /\ TodoExact
    /\ IdleAccounting
    /\ ProgressSound
    /\ VerdictRight
    /\ LeftClean

InLoop == pc[Master] \in {"locked", "work", "wait", "woken", "unwind"}
SpuriousWakesCease == <>[][\A t \in Threads : ~SpuriousWake(t)]_vars

\* Once called, Wait returns: no wakeup is lost, whichever workers started or
\* have been interrupted, unless condition variables wake threads for no
\* reason for ever.
WaitReturns == SpuriousWakesCease => (InLoop ~> pc[Master] = "off")
=============================================================================
