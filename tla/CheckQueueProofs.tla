--------------------------- MODULE CheckQueueProofs ---------------------------
(***************************************************************************)
(* Inv of CheckQueue is inductive, for any number of workers, any checks   *)
(* and any batch size.  The arithmetic of nTotal, nIdle and nTodo is all   *)
(* in the lemmas CountStep and OutstandingFinite.                          *)
(***************************************************************************)
EXTENDS CheckQueue, FiniteSetTheorems, TLAPS

\* There are finitely many threads, and finitely many of them anywhere.
LEMMA ThreadsFinite ==
    /\ IsFiniteSet(Threads)
    /\ \A p, P : IsFiniteSet(At(p, P)) /\ Cardinality(At(p, P)) \in Nat
<1>1. IsFiniteSet(Threads)
  BY QueueAssumption, FS_AddElement DEF Threads
<1>2. ASSUME NEW p, NEW P PROVE IsFiniteSet(At(p, P)) /\ Cardinality(At(p, P)) \in Nat
  <2>1. At(p, P) \in SUBSET Threads
    BY DEF At
  <2>2. IsFiniteSet(At(p, P))
    BY <2>1, <1>1, FS_Subset
  <2> QED
    BY <2>2, FS_CardinalityType
<1> QED
  BY <1>1, <1>2

\* When one thread t moves, the number of threads at P changes by what t
\* brings and takes.
LEMMA CountStep ==
    ASSUME NEW p, NEW q, NEW t \in Threads, NEW P,
           \A s \in Threads \ {t} : (q[s] \in P) <=> (p[s] \in P)
    PROVE  Cardinality(At(q, P)) = Cardinality(At(p, P))
                                      + (IF q[t] \in P THEN 1 ELSE 0)
                                      - (IF p[t] \in P THEN 1 ELSE 0)
<1>1. IsFiniteSet(At(p, P)) /\ Cardinality(At(p, P)) \in Nat
  BY ThreadsFinite
<1>2. CASE (q[t] \in P) <=> (p[t] \in P)
  <2>1. At(q, P) = At(p, P)
    BY <1>2 DEF At
  <2> QED
    BY <2>1, <1>1, <1>2
<1>3. CASE q[t] \in P /\ p[t] \notin P
  <2>1. At(q, P) = At(p, P) \cup {t} /\ t \notin At(p, P)
    BY <1>3 DEF At
  <2>2. Cardinality(At(p, P) \cup {t}) = Cardinality(At(p, P)) + 1
    BY <2>1, <1>1, FS_AddElement
  <2> QED
    BY <2>1, <2>2, <1>1, <1>3
<1>4. CASE q[t] \notin P /\ p[t] \in P
  <2>1. At(q, P) = At(p, P) \ {t} /\ t \in At(p, P)
    BY <1>4 DEF At
  <2>2. Cardinality(At(p, P) \ {t}) = Cardinality(At(p, P)) - 1
    BY <2>1, <1>1, FS_RemoveElement
  <2> QED
    BY <2>1, <2>2, <1>1, <1>4
<1> QED
  BY <1>2, <1>3, <1>4

\* The arithmetic of the next lemma: totals n, idle i, counts b and r.
LEMMA CountArithmetic ==
    ASSUME NEW n \in Int, NEW nn \in Int, NEW i \in Int, NEW ii \in Int,
           NEW b \in Int, NEW bb \in Int, NEW r \in Int, NEW rr \in Int,
           NEW db \in Int, NEW dr \in Int,
           nn - n = (ii - i) + db, ii - i >= dr, n = i + b, i >= r,
           bb = b + db, rr = r + dr
    PROVE  nn = ii + bb /\ ii >= rr
  OBVIOUS

\* The same for the two counts of IdleAccounting.
LEMMA AccountStep ==
    ASSUME TypeOK, IdleAccounting, NEW t \in Threads, pc' \in [Threads -> Places],
           \A s \in Threads \ {t} :
              pc'[s] = pc[s] \/ (pc[s] = "wait" /\ pc'[s] = "woken"),
           nTotal' - nTotal = nIdle' - nIdle
                                + (IF pc'[t] \in {"locked", "work"} THEN 1 ELSE 0)
                                - (IF pc[t] \in {"locked", "work"} THEN 1 ELSE 0),
           nIdle' - nIdle >= (IF pc'[t] \in {"wait", "woken"} THEN 1 ELSE 0)
                                - (IF pc[t] \in {"wait", "woken"} THEN 1 ELSE 0),
           nTotal' \in Int, nIdle' \in Int
    PROVE  IdleAccounting' /\ nTotal' \in Nat /\ nIdle' \in Nat
<1> DEFINE B == {"locked", "work"}
           R == {"wait", "woken"}
<1>1. Cardinality(At(pc', B)) = Cardinality(At(pc, B))
                                   + (IF pc'[t] \in B THEN 1 ELSE 0)
                                   - (IF pc[t] \in B THEN 1 ELSE 0)
  <2>1. \A s \in Threads \ {t} : (pc'[s] \in B) <=> (pc[s] \in B)
    OBVIOUS
  <2> HIDE DEF B
  <2> QED
    BY <2>1, CountStep
<1>2. Cardinality(At(pc', R)) = Cardinality(At(pc, R))
                                   + (IF pc'[t] \in R THEN 1 ELSE 0)
                                   - (IF pc[t] \in R THEN 1 ELSE 0)
  <2>1. \A s \in Threads \ {t} : (pc'[s] \in R) <=> (pc[s] \in R)
    OBVIOUS
  <2> HIDE DEF R
  <2> QED
    BY <2>1, CountStep
<1>3. /\ Cardinality(At(pc, B)) \in Nat /\ Cardinality(At(pc, R)) \in Nat
      /\ Cardinality(At(pc', B)) \in Nat /\ Cardinality(At(pc', R)) \in Nat
  BY ThreadsFinite
<1>4. /\ nTotal = nIdle + Cardinality(At(pc, B)) /\ nIdle >= Cardinality(At(pc, R))
      /\ nTotal \in Nat /\ nIdle \in Nat
  BY DEF IdleAccounting, TypeOK
<1>5. /\ nTotal' = nIdle' + Cardinality(At(pc', B))
      /\ nIdle' >= Cardinality(At(pc', R))
  <2> DEFINE cb == Cardinality(At(pc, B))
             cr == Cardinality(At(pc, R))
             db == Cardinality(At(pc', B))
             dr == Cardinality(At(pc', R))
             bi == IF pc'[t] \in B THEN 1 ELSE 0
             bo == IF pc[t] \in B THEN 1 ELSE 0
             ri == IF pc'[t] \in R THEN 1 ELSE 0
             ro == IF pc[t] \in R THEN 1 ELSE 0
  <2>1. bi \in Int /\ bo \in Int /\ ri \in Int /\ ro \in Int
    OBVIOUS
  <2>2. nTotal' - nTotal = nIdle' - nIdle + bi - bo /\ nIdle' - nIdle >= ri - ro
    OBVIOUS
  <2>3. /\ db = cb + bi - bo /\ dr = cr + ri - ro
        /\ nTotal = nIdle + cb /\ nIdle >= cr
        /\ cb \in Nat /\ cr \in Nat /\ db \in Nat /\ dr \in Nat
    BY <1>1, <1>2, <1>3, <1>4
  <2> HIDE DEF cb, cr, db, dr, bi, bo, ri, ro
  <2>4. /\ nTotal' - nTotal = (nIdle' - nIdle) + (bi - bo)
        /\ bi - bo \in Int /\ ri - ro \in Int
        /\ db = cb + (bi - bo) /\ dr = cr + (ri - ro)
    BY <2>1, <2>2, <2>3
  <2>5. nTotal' = nIdle' + db /\ nIdle' >= dr
    BY <2>2, <2>3, <2>4, <1>4, CountArithmetic
  <2> QED
    BY <2>5 DEF db, dr
<1> QED
  BY <1>3, <1>5 DEF IdleAccounting

\* Disjoint sets add up, and a part can be taken away.
LEMMA CardinalityParts ==
    ASSUME NEW A, NEW B, IsFiniteSet(A), IsFiniteSet(B)
    PROVE  /\ A \cap B = {} => Cardinality(A \cup B) = Cardinality(A) + Cardinality(B)
           /\ B \subseteq A => Cardinality(A \ B) = Cardinality(A) - Cardinality(B)
<1>1. Cardinality(A) \in Nat /\ Cardinality(B) \in Nat
  BY FS_CardinalityType
<1>2. Cardinality(A \cup B) = Cardinality(A) + Cardinality(B) - Cardinality(A \cap B)
  BY FS_Union
<1>3. Cardinality(A \ B) = Cardinality(A) - Cardinality(A \cap B)
  BY FS_Difference
<1>4. Cardinality({}) = 0
  BY FS_EmptySet
<1>5. ASSUME A \cap B = {} PROVE Cardinality(A \cup B) = Cardinality(A) + Cardinality(B)
  <2>1. Cardinality(A \cap B) = 0
    BY <1>4, <1>5
  <2> QED
    BY <2>1, <1>1, <1>2
<1>6. ASSUME B \subseteq A PROVE Cardinality(A \ B) = Cardinality(A) - Cardinality(B)
  <2>1. A \cap B = B
    BY <1>6
  <2> QED
    BY <2>1, <1>3
<1> QED
  BY <1>5, <1>6

\* nTodo counts a finite set.
LEMMA OutstandingFinite ==
    ASSUME TypeOK
    PROVE  /\ Outstanding \subseteq Checks
           /\ IsFiniteSet(Outstanding)
           /\ Cardinality(Outstanding) \in Nat
           /\ \A S \in SUBSET Checks : IsFiniteSet(S) /\ Cardinality(S) \in Nat
<1>1. Outstanding \subseteq Checks
  BY DEF TypeOK, Outstanding
<1>2. \A S \in SUBSET Checks : IsFiniteSet(S) /\ Cardinality(S) \in Nat
  BY QueueAssumption, FS_Subset, FS_CardinalityType
<1> QED
  BY <1>1, <1>2

\* When the master is out of Loop nothing is left, by the count.
LEMMA NothingLeft ==
    ASSUME TypeOK, TodoExact, nTodo = 0
    PROVE  Outstanding = {} /\ queue = {} /\ \A t \in Threads : batch[t] = {}
<1>1. Outstanding = {}
  BY OutstandingFinite, FS_EmptySet DEF TodoExact
<1> QED
  BY <1>1 DEF Outstanding

\* The state a new CCheckQueue is in.
LEMMA InitState ==
    ASSUME Init
    PROVE  Inv
<1>1. TypeOK /\ Exclusion /\ NoCheckTwice /\ LeftClean /\ VerdictRight
  BY QueueAssumption
  DEF Init, TypeOK, Exclusion, NoCheckTwice, LeftClean, VerdictRight, Places, Threads
<1>2. Outstanding = {}
  BY DEF Init, Outstanding
<1>3. TodoExact /\ ProgressSound
  BY <1>2, FS_EmptySet DEF Init, TodoExact, ProgressSound
<1>4. At(pc, {"locked", "work"}) = {} /\ At(pc, {"wait", "woken"}) = {}
  BY DEF Init, At
<1>5. IdleAccounting
  BY <1>4, FS_EmptySet DEF Init, IdleAccounting
<1> QED
  BY <1>1, <1>3, <1>5 DEF Inv

\* A new control finds the queue empty.
LEMMA BeginStep ==
    ASSUME Inv, Begin
    PROVE  Inv'
<1>1. /\ pc[Master] = "off" /\ pc' = [pc EXCEPT ![Master] = "adding"] /\ added' = {}
      /\ queue' = queue /\ nIdle' = nIdle /\ nTotal' = nTotal /\ nTodo' = nTodo
      /\ fAllOk' = fAllOk /\ batch' = batch /\ fOk' = fOk /\ verdict' = verdict
      /\ interrupted' = interrupted
  BY DEF Begin
<1>2. Master \in Threads /\ pc \in [Threads -> Places]
  BY DEF Threads, Inv, TypeOK
<1>3. Outstanding = {} /\ fAllOk
  BY <1>1, NothingLeft DEF Inv, LeftClean
<1>4. TypeOK'
  BY <1>1, <1>2 DEF Inv, TypeOK, Places
<1>5. Exclusion'
  BY <1>1, <1>2, QueueAssumption DEF Inv, Exclusion, Threads
<1>6. NoCheckTwice' /\ Outstanding' = Outstanding
  BY <1>1 DEF Inv, NoCheckTwice, Outstanding
<1>7. TodoExact'
  BY <1>1, <1>6 DEF Inv, TodoExact
<1>8. IdleAccounting'
  BY <1>1, <1>2, <1>4, AccountStep DEF Inv, TypeOK
<1>9. ProgressSound'
  BY <1>1, <1>2, <1>3, <1>6 DEF Inv, ProgressSound
<1>10. VerdictRight' /\ LeftClean'
  BY <1>1, <1>2 DEF VerdictRight, LeftClean
<1> QED
  BY <1>4, <1>5, <1>6, <1>7, <1>8, <1>9, <1>10 DEF Inv

\* Add queues new checks and wakes workers.
LEMMA AddStep ==
    ASSUME Inv, NEW S \in SUBSET (Checks \ added), Add(S)
    PROVE  Inv'
<1>1. /\ pc[Master] = "adding" /\ queue' = queue \cup S
      /\ nTodo' = nTodo + Cardinality(S) /\ added' = added \cup S
      /\ nIdle' = nIdle /\ nTotal' = nTotal /\ fAllOk' = fAllOk /\ batch' = batch
      /\ fOk' = fOk /\ verdict' = verdict /\ interrupted' = interrupted
  BY DEF Add
<1>2. /\ Master \in Threads /\ pc \in [Threads -> Places] /\ pc' \in [Threads -> Places]
      /\ pc'[Master] = "adding"
      /\ \A t \in Threads : pc'[t] = pc[t] \/ (pc[t] = "wait" /\ pc'[t] = "woken")
  <2>1. PICK W \in Notified(S) :
           pc' = [t \in Threads |-> IF t \in W THEN "woken" ELSE pc[t]]
    BY DEF Add
  <2>2. W \subseteq WaitingWorkers
    BY <2>1 DEF Notified
  <2>3. \A t \in W : t \in Threads /\ t # Master /\ pc[t] = "wait"
    BY <2>2, QueueAssumption DEF WaitingWorkers, Threads
  <2> QED
    BY <2>1, <2>3, <1>1 DEF Inv, TypeOK, Threads, Places
<1>3. Outstanding \subseteq added /\ Outstanding' = Outstanding \cup S
  BY <1>1 DEF Inv, ProgressSound, Outstanding
<1>4. TodoExact'
  <2>1. S \cap Outstanding = {} /\ S \in SUBSET Checks
    BY <1>3
  <2>2. /\ IsFiniteSet(S) /\ IsFiniteSet(Outstanding)
        /\ Cardinality(S) \in Nat /\ Cardinality(Outstanding) \in Nat
    BY <2>1, OutstandingFinite DEF Inv
  <2>3. Cardinality(Outstanding \cup S) = Cardinality(Outstanding) + Cardinality(S)
    BY <2>1, <2>2, CardinalityParts
  <2> QED
    BY <2>2, <2>3, <1>1, <1>3 DEF Inv, TodoExact
<1>5. TypeOK'
  <2>1. Cardinality(S) \in Nat
    BY OutstandingFinite DEF Inv
  <2> QED
    BY <2>1, <1>1, <1>2 DEF Inv, TypeOK
<1>6. Exclusion'
  BY <1>1, <1>2 DEF Inv, Exclusion, Threads
<1>7. NoCheckTwice'
  BY <1>1, <1>3 DEF Inv, NoCheckTwice, Outstanding
<1>8. IdleAccounting'
  BY <1>1, <1>2, <1>5, AccountStep DEF Inv, TypeOK
<1>9. ProgressSound'
  BY <1>1, <1>2, <1>3 DEF Inv, ProgressSound
<1>10. VerdictRight' /\ LeftClean'
  BY <1>1, <1>2 DEF VerdictRight, LeftClean
<1> QED
  BY <1>4, <1>5, <1>6, <1>7, <1>8, <1>9, <1>10 DEF Inv

\* A thread enters Loop.
LEMMA StartStep ==
    ASSUME Inv, NEW t \in Threads, Start(t)
    PROVE  Inv'
<1>1. /\ pc[t] \in {"adding", "unwind", "off"} /\ (pc[t] = "off" => t # Master)
      /\ MutexFree /\ pc' = [pc EXCEPT ![t] = "locked"] /\ nTotal' = nTotal + 1
      /\ queue' = queue /\ nIdle' = nIdle /\ nTodo' = nTodo /\ added' = added
      /\ fAllOk' = fAllOk /\ batch' = batch /\ fOk' = fOk /\ verdict' = verdict
      /\ interrupted' = interrupted
  BY DEF Start
<1>2. Master \in Threads /\ pc \in [Threads -> Places] /\ nTotal \in Nat /\ nIdle \in Nat
  BY DEF Threads, Inv, TypeOK
<1>3. TypeOK'
  BY <1>1, <1>2 DEF Inv, TypeOK, Places
<1>4. Exclusion'
  BY <1>1, <1>2, QueueAssumption DEF Inv, Exclusion, Threads, MutexFree
<1>5. NoCheckTwice' /\ Outstanding' = Outstanding
  BY <1>1 DEF Inv, NoCheckTwice, Outstanding
<1>6. TodoExact'
  BY <1>1, <1>5 DEF Inv, TodoExact
<1>7. IdleAccounting'
  BY <1>1, <1>2, <1>3, AccountStep DEF Inv, TypeOK
<1>8. ProgressSound'
  BY <1>1, <1>2, <1>5 DEF Inv, ProgressSound
<1>9. VerdictRight' /\ LeftClean'
  BY <1>1, <1>2 DEF Inv, VerdictRight, LeftClean
<1> QED
  BY <1>3, <1>4, <1>5, <1>6, <1>7, <1>8, <1>9 DEF Inv

\* A thread records the result of its batch.
LEMMA FinishStep ==
    ASSUME Inv, NEW t \in Threads, Finish(t)
    PROVE  Inv'
<1>1. /\ pc[t] = "work" /\ MutexFree /\ fAllOk' = (fAllOk /\ BatchOk(t))
      /\ nTodo' = nTodo - Cardinality(batch[t]) /\ batch' = [batch EXCEPT ![t] = {}]
      /\ queue' = queue /\ nIdle' = nIdle /\ nTotal' = nTotal /\ added' = added
      /\ fOk' = fOk /\ verdict' = verdict /\ interrupted' = interrupted
  BY DEF Finish
<1>2. /\ Master \in Threads /\ pc \in [Threads -> Places] /\ pc' \in [Threads -> Places]
      /\ pc'[t] = "locked" /\ nTotal \in Nat /\ nIdle \in Nat
      /\ \A s \in Threads \ {t} : pc'[s] = pc[s] \/ (pc[s] = "wait" /\ pc'[s] = "woken")
      /\ \A s \in Workers \ {t} : pc'[s] = pc[s]
  BY <1>1, QueueAssumption DEF Threads, Inv, TypeOK, Finish, NotifyMaster, Places
<1>3. Outstanding' = Outstanding \ batch[t] /\ batch[t] \subseteq Outstanding
  BY <1>1 DEF Inv, TypeOK, NoCheckTwice, Outstanding
<1>4. nTodo' = Cardinality(Outstanding') /\ nTodo' \in Nat
  <2>1. /\ IsFiniteSet(Outstanding) /\ IsFiniteSet(batch[t])
        /\ IsFiniteSet(Outstanding \ batch[t])
    BY <1>3, OutstandingFinite, FS_Difference DEF Inv, TypeOK
  <2>2. Cardinality(Outstanding \ batch[t]) = Cardinality(Outstanding) - Cardinality(batch[t])
    BY <2>1, <1>3, CardinalityParts
  <2>3. Cardinality(Outstanding \ batch[t]) \in Nat
    BY <2>1, FS_CardinalityType
  <2> QED
    BY <2>2, <2>3, <1>1, <1>3 DEF Inv, TodoExact
<1>5. TypeOK'
  BY <1>1, <1>2, <1>4 DEF Inv, TypeOK, BatchOk
<1>6. Exclusion'
  BY <1>1, <1>2 DEF Inv, TypeOK, Exclusion, Threads, MutexFree
<1>7. NoCheckTwice'
  BY <1>1 DEF Inv, TypeOK, NoCheckTwice
<1>8. IdleAccounting'
  <2>1. /\ pc[t] \in {"locked", "work"} /\ pc'[t] \in {"locked", "work"}
        /\ pc[t] \notin {"wait", "woken"} /\ pc'[t] \notin {"wait", "woken"}
        /\ nTotal' - nTotal = 0 /\ nIdle' - nIdle = 0
    BY <1>1, <1>2
  <2> QED
    BY <2>1, <1>1, <1>2, AccountStep DEF Inv
<1>9. pc[Master] # "off"
  <2>1. batch[t] # {}
    BY <1>1 DEF Inv, Exclusion
  <2> QED
    BY <2>1, NothingLeft DEF Inv, LeftClean
<1>10. pc'[Master] # "off"
  BY <1>2, <1>9
<1>11. ProgressSound'
  <2>1. /\ Outstanding \subseteq added
        /\ fAllOk => added \ Outstanding \subseteq Valid
        /\ ~fAllOk => ~(added \subseteq Valid)
        /\ ~fOk[t] => ~fAllOk
    BY <1>1, <1>9 DEF Inv, ProgressSound
  <2>2. Outstanding' \subseteq added'
    BY <1>1, <1>3, <2>1
  <2>3. fAllOk' => added' \ Outstanding' \subseteq Valid
    BY <1>1, <1>3, <2>1 DEF BatchOk
  <2>4. ~fAllOk' => ~(added' \subseteq Valid)
    BY <1>1, <1>3, <2>1 DEF BatchOk
  <2>5. ASSUME NEW s \in Threads, pc'[s] = "work", ~fOk'[s] PROVE ~fAllOk'
    <3>1. pc[s] = "work"
      BY <2>5, <1>2
    <3> QED
      BY <3>1, <2>5, <1>1 DEF Inv, ProgressSound
  <2> QED
    BY <2>2, <2>3, <2>4, <2>5 DEF ProgressSound
<1>12. VerdictRight' /\ LeftClean'
  BY <1>10 DEF VerdictRight, LeftClean
<1>13. TodoExact'
  BY <1>4 DEF TodoExact
<1> QED
  BY <1>5, <1>6, <1>7, <1>8, <1>11, <1>12, <1>13 DEF Inv

\* A step that moves one thread between waiting, locked and out of Loop, and
\* leaves the checks alone, keeps all that is said of the checks.
LEMMA MoveStep ==
    ASSUME Inv, NEW t \in Threads, NEW place \in Places,
           pc' = [pc EXCEPT ![t] = place], pc[t] # "work", place # "work",
           place = "locked" => MutexFree,
           t = Master => place # "dead",
           t \in Workers => place \notin {"adding", "unwind"},
           (t = Master /\ place = "off") => nTodo = 0,
           t = Master => pc[t] # "off",
           IF t = Master /\ place = "off" THEN verdict' = fAllOk /\ fAllOk' = TRUE
                                          ELSE verdict' = verdict /\ fAllOk' = fAllOk,
           nIdle' \in Nat, nTotal' \in Nat, IdleAccounting', interrupted' \subseteq Threads,
           queue' = queue, nTodo' = nTodo, batch' = batch, fOk' = fOk, added' = added
    PROVE  Inv'
<1>1. Master \in Threads /\ pc \in [Threads -> Places] /\ fAllOk \in BOOLEAN
  BY DEF Threads, Inv, TypeOK
<1>2. TypeOK'
  BY <1>1 DEF Inv, TypeOK
<1>3. Exclusion'
  BY <1>1, QueueAssumption DEF Inv, TypeOK, Exclusion, Threads, MutexFree
<1>4. NoCheckTwice' /\ Outstanding' = Outstanding
  BY DEF Inv, NoCheckTwice, Outstanding
<1>5. TodoExact'
  BY <1>4 DEF Inv, TodoExact
<1>6. CASE t = Master /\ place = "off"
  <2>1. Outstanding = {}
    BY <1>6, NothingLeft DEF Inv
  <2>2. verdict' = (added \subseteq Valid)
    BY <2>1, <1>1, <1>6 DEF Inv, ProgressSound
  <2>3. VerdictRight'
    BY <2>2 DEF VerdictRight
  <2>4. \A s \in Threads : pc'[s] # "work"
    BY <1>6, <1>1, NothingLeft DEF Inv, Exclusion
  <2>5. ProgressSound' /\ LeftClean'
    BY <2>1, <2>4, <1>1, <1>4, <1>6 DEF ProgressSound, LeftClean
  <2> QED
    BY <2>3, <2>5, <1>2, <1>3, <1>4, <1>5 DEF Inv
<1>7. CASE ~(t = Master /\ place = "off")
  <2>1. pc'[Master] = "off" <=> pc[Master] = "off"
    BY <1>1, <1>7
  <2>2. \A s \in Threads : pc'[s] = "work" => pc[s] = "work"
    BY <1>1
  <2>3. ProgressSound'
    BY <2>1, <2>2, <1>4, <1>7 DEF Inv, ProgressSound
  <2>4. VerdictRight' /\ LeftClean'
    BY <2>1, <1>7 DEF Inv, VerdictRight, LeftClean
  <2> QED
    BY <2>3, <2>4, <1>2, <1>3, <1>4, <1>5 DEF Inv
<1> QED
  BY <1>6, <1>7

\* A thread returns from cond.wait with the mutex.
LEMMA WakeStep ==
    ASSUME Inv, NEW t \in Threads, Wake(t)
    PROVE  Inv'
<1>1. /\ pc[t] = "woken" /\ MutexFree /\ pc' = [pc EXCEPT ![t] = "locked"]
      /\ nIdle' = nIdle - 1 /\ nTotal' = nTotal
      /\ verdict' = verdict /\ fAllOk' = fAllOk /\ interrupted' = interrupted
      /\ queue' = queue /\ nTodo' = nTodo /\ batch' = batch /\ fOk' = fOk /\ added' = added
  BY DEF Wake
<1>2. /\ pc' \in [Threads -> Places] /\ pc'[t] = "locked" /\ "locked" \in Places
      /\ nIdle' \in Int /\ nTotal' \in Int /\ nIdle \in Nat /\ nTotal \in Nat
      /\ \A s \in Threads \ {t} : pc'[s] = pc[s]
  BY <1>1 DEF Inv, TypeOK, Places
<1>3. IdleAccounting' /\ nTotal' \in Nat /\ nIdle' \in Nat
  BY <1>1, <1>2, AccountStep DEF Inv
<1>4. interrupted' \subseteq Threads
  BY <1>1 DEF Inv, TypeOK
<1> QED
  BY <1>1, <1>2, <1>3, <1>4, MoveStep, QueueAssumption DEF Inv, Exclusion

\* A thread is woken for no reason.
LEMMA SpuriousWakeStep ==
    ASSUME Inv, NEW t \in Threads, SpuriousWake(t)
    PROVE  Inv'
<1>1. /\ pc[t] = "wait" /\ pc' = [pc EXCEPT ![t] = "woken"]
      /\ nIdle' = nIdle /\ nTotal' = nTotal
      /\ verdict' = verdict /\ fAllOk' = fAllOk /\ interrupted' = interrupted
      /\ queue' = queue /\ nTodo' = nTodo /\ batch' = batch /\ fOk' = fOk /\ added' = added
  BY DEF SpuriousWake
<1>2. /\ pc' \in [Threads -> Places] /\ pc'[t] = "woken" /\ "woken" \in Places
      /\ nIdle' \in Int /\ nTotal' \in Int /\ nIdle \in Nat /\ nTotal \in Nat
      /\ \A s \in Threads \ {t} : pc'[s] = pc[s]
  BY <1>1 DEF Inv, TypeOK, Places
<1>3. IdleAccounting' /\ nTotal' \in Nat /\ nIdle' \in Nat
  BY <1>1, <1>2, AccountStep DEF Inv
<1>4. interrupted' \subseteq Threads
  BY <1>1 DEF Inv, TypeOK
<1> QED
  BY <1>1, <1>2, <1>3, <1>4, MoveStep, QueueAssumption DEF Inv, Exclusion

\* A thread releases the mutex in cond.wait.
LEMMA WaitStep ==
    ASSUME Inv, NEW t \in Threads, Wait(t)
    PROVE  Inv'
<1>1. /\ pc[t] = "locked" /\ pc' = [pc EXCEPT ![t] = "wait"]
      /\ nIdle' = nIdle + 1 /\ nTotal' = nTotal
      /\ verdict' = verdict /\ fAllOk' = fAllOk /\ interrupted' = interrupted
      /\ queue' = queue /\ nTodo' = nTodo /\ batch' = batch /\ fOk' = fOk /\ added' = added
  BY DEF Wait
<1>2. /\ pc' \in [Threads -> Places] /\ pc'[t] = "wait" /\ "wait" \in Places
      /\ nIdle' \in Int /\ nTotal' \in Int /\ nIdle \in Nat /\ nTotal \in Nat
      /\ \A s \in Threads \ {t} : pc'[s] = pc[s]
  BY <1>1 DEF Inv, TypeOK, Places
<1>3. IdleAccounting' /\ nTotal' \in Nat /\ nIdle' \in Nat
  BY <1>1, <1>2, AccountStep DEF Inv
<1>4. interrupted' \subseteq Threads
  BY <1>1 DEF Inv, TypeOK
<1> QED
  BY <1>1, <1>2, <1>3, <1>4, MoveStep, QueueAssumption DEF Inv, Exclusion

\* The master returns from Wait.
LEMMA ReturnStep ==
    ASSUME Inv, NEW t \in Threads, Return(t)
    PROVE  Inv'
<1>1. /\ pc[t] = "locked" /\ t = Master /\ nTodo = 0 /\ pc' = [pc EXCEPT ![t] = "off"]
      /\ nIdle' = nIdle /\ nTotal' = nTotal - 1
      /\ verdict' = fAllOk /\ fAllOk' = TRUE /\ interrupted' = interrupted
      /\ queue' = queue /\ nTodo' = nTodo /\ batch' = batch /\ fOk' = fOk /\ added' = added
  BY DEF Return, MayReturn, ResetOk
<1>2. /\ pc' \in [Threads -> Places] /\ pc'[t] = "off" /\ "off" \in Places
      /\ nIdle' \in Int /\ nTotal' \in Int /\ nIdle \in Nat /\ nTotal \in Nat
      /\ \A s \in Threads \ {t} : pc'[s] = pc[s]
  BY <1>1 DEF Inv, TypeOK, Places
<1>3. IdleAccounting' /\ nTotal' \in Nat /\ nIdle' \in Nat
  BY <1>1, <1>2, AccountStep DEF Inv
<1>4. interrupted' \subseteq Threads
  BY <1>1 DEF Inv, TypeOK
<1> QED
  BY <1>1, <1>2, <1>3, <1>4, MoveStep, QueueAssumption DEF Inv, Exclusion

\* A thread leaves cond.wait with an exception.
LEMMA InterruptStep ==
    ASSUME Inv, NEW t \in Threads, Interrupt(t)
    PROVE  Inv'
<1> DEFINE place == IF t = Master THEN "unwind" ELSE "dead"
<1>1. /\ pc[t] \in {"wait", "woken"} /\ pc' = [pc EXCEPT ![t] = place]
      /\ nIdle' = nIdle /\ nTotal' = nTotal
      /\ verdict' = verdict /\ fAllOk' = fAllOk /\ interrupted' = interrupted \cup {t}
      /\ queue' = queue /\ nTodo' = nTodo /\ batch' = batch /\ fOk' = fOk /\ added' = added
  BY DEF Interrupt
<1>2. /\ pc' \in [Threads -> Places] /\ pc'[t] = place /\ place \in Places
      /\ nIdle' \in Int /\ nTotal' \in Int /\ nIdle \in Nat /\ nTotal \in Nat
      /\ \A s \in Threads \ {t} : pc'[s] = pc[s]
  BY <1>1 DEF Inv, TypeOK, Places
<1>3. IdleAccounting' /\ nTotal' \in Nat /\ nIdle' \in Nat
  <2>1. pc'[t] \notin {"locked", "work", "wait", "woken"}
    BY <1>2
  <2> QED
    BY <2>1, <1>1, <1>2, AccountStep DEF Inv
<1>4. interrupted' \subseteq Threads
  BY <1>1 DEF Inv, TypeOK
<1>5. /\ place # "work" /\ place # "locked" /\ place # "off"
      /\ t = Master => place # "dead"
      /\ t \in Workers => place \notin {"adding", "unwind"}
  BY QueueAssumption
<1> HIDE DEF place
<1> QED
  BY <1>1, <1>2, <1>3, <1>4, <1>5, MoveStep

\* A batch is never empty.
LEMMA NowPositive ==
    ASSUME TypeOK
    PROVE  Now \in Nat \ {0}
<1>1. /\ Cardinality(queue) \in Nat /\ nTotal + nIdle + 1 \in Nat \ {0}
      /\ BatchSize \in Nat \ {0}
  BY OutstandingFinite, QueueAssumption DEF TypeOK
<1>2. Cardinality(queue) \div (nTotal + nIdle + 1) \in Int
  BY <1>1
<1>3. AtMost(BatchSize, Cardinality(queue) \div (nTotal + nIdle + 1)) \in Int
  BY <1>1, <1>2 DEF AtMost
<1> QED
  BY <1>3 DEF Now, AtLeast

\* A batch moves from the queue to a thread.
LEMMA TakeStep ==
    ASSUME Inv, NEW t \in Threads, Take(t)
    PROVE  Inv'
<1>1. /\ pc[t] = "locked" /\ pc' = [pc EXCEPT ![t] = "work"]
      /\ fOk' = [fOk EXCEPT ![t] = fAllOk]
      /\ nIdle' = nIdle /\ nTotal' = nTotal /\ nTodo' = nTodo /\ fAllOk' = fAllOk
      /\ added' = added /\ verdict' = verdict /\ interrupted' = interrupted
  BY DEF Take
<1>2. PICK B \in SUBSET queue : /\ Cardinality(B) = Now
                                /\ queue' = queue \ B
                                /\ batch' = [batch EXCEPT ![t] = B]
  BY DEF Take
<1>3. B # {}
  BY <1>2, NowPositive, FS_EmptySet DEF Inv
<1>4. /\ Master \in Threads /\ pc \in [Threads -> Places] /\ nTotal \in Nat /\ nIdle \in Nat
      /\ queue \subseteq Checks /\ batch \in [Threads -> SUBSET Checks] /\ batch[t] = {}
      /\ fOk \in [Threads -> BOOLEAN]
  BY <1>1 DEF Threads, Inv, TypeOK, Exclusion
<1>5. TypeOK'
  BY <1>1, <1>2, <1>4 DEF Inv, TypeOK, Places
<1>6. Exclusion'
  BY <1>1, <1>2, <1>3, <1>4 DEF Inv, Exclusion, Threads
<1>7. NoCheckTwice'
  BY <1>2, <1>4 DEF Inv, NoCheckTwice
<1>8. Outstanding' = Outstanding
  <2>1. ASSUME NEW c \in Outstanding PROVE c \in Outstanding'
    <3>1. CASE c \in queue
      BY <3>1, <1>2, <1>4 DEF Outstanding
    <3>2. ASSUME NEW s \in Threads, c \in batch[s] PROVE c \in Outstanding'
      BY <3>2, <1>2, <1>4 DEF Outstanding
    <3> QED
      BY <3>1, <3>2 DEF Outstanding
  <2>2. ASSUME NEW c \in Outstanding' PROVE c \in Outstanding
    <3>1. CASE c \in queue'
      BY <3>1, <1>2 DEF Outstanding
    <3>2. ASSUME NEW s \in Threads, c \in batch'[s] PROVE c \in Outstanding
      BY <3>2, <1>2, <1>4 DEF Outstanding
    <3> QED
      BY <3>1, <3>2 DEF Outstanding
  <2> QED
    BY <2>1, <2>2
<1>9. TodoExact'
  BY <1>1, <1>8 DEF Inv, TodoExact
<1>10. IdleAccounting'
  <2>1. /\ pc[t] \in {"locked", "work"} /\ pc'[t] \in {"locked", "work"}
        /\ pc[t] \notin {"wait", "woken"} /\ pc'[t] \notin {"wait", "woken"}
        /\ nTotal' - nTotal = 0 /\ nIdle' - nIdle = 0
        /\ \A s \in Threads \ {t} : pc'[s] = pc[s]
    BY <1>1, <1>4
  <2> QED
    BY <2>1, <1>1, <1>4, <1>5, AccountStep DEF Inv, TypeOK
<1>11. pc[Master] # "off"
  BY <1>2, <1>3, NothingLeft DEF Inv, LeftClean
<1>12. pc'[Master] # "off"
  BY <1>1, <1>4, <1>11
<1>13. ProgressSound'
  BY <1>1, <1>4, <1>8, <1>11, <1>12 DEF Inv, ProgressSound
<1>14. VerdictRight' /\ LeftClean'
  BY <1>12 DEF VerdictRight, LeftClean
<1> QED
  BY <1>5, <1>6, <1>7, <1>9, <1>10, <1>13, <1>14 DEF Inv

\* Inv is inductive.
LEMMA InvStep ==
    ASSUME Inv, [Next]_vars
    PROVE  Inv'
<1>1. CASE Begin
  BY <1>1, BeginStep
<1>2. ASSUME NEW S \in SUBSET (Checks \ added), Add(S) PROVE Inv'
  BY <1>2, AddStep
<1>3. ASSUME NEW t \in Threads, Start(t) PROVE Inv'
  BY <1>3, StartStep
<1>4. ASSUME NEW t \in Threads, Finish(t) PROVE Inv'
  BY <1>4, FinishStep
<1>5. ASSUME NEW t \in Threads, Wake(t) PROVE Inv'
  BY <1>5, WakeStep
<1>6. ASSUME NEW t \in Threads, Return(t) PROVE Inv'
  BY <1>6, ReturnStep
<1>7. ASSUME NEW t \in Threads, Wait(t) PROVE Inv'
  BY <1>7, WaitStep
<1>8. ASSUME NEW t \in Threads, Take(t) PROVE Inv'
  BY <1>8, TakeStep
<1>9. ASSUME NEW t \in Threads, SpuriousWake(t) PROVE Inv'
  BY <1>9, SpuriousWakeStep
<1>10. ASSUME NEW t \in Threads, Interrupt(t) PROVE Inv'
  BY <1>10, InterruptStep
<1>11. CASE UNCHANGED vars
  BY <1>11
  DEF vars, Inv, TypeOK, Exclusion, NoCheckTwice, TodoExact, IdleAccounting,
      ProgressSound, VerdictRight, LeftClean, Outstanding, At
<1> QED
  BY <1>1, <1>2, <1>3, <1>4, <1>5, <1>6, <1>7, <1>8, <1>9, <1>10, <1>11
  DEF Next, Step

-----------------------------------------------------------------------------
\* The counters and vectors of CCheckQueue keep their types: no unsigned
\* counter wraps.
THEOREM TypeCorrect == Spec => []TypeOK
<1>1. Init => Inv
  BY InitState
<1>2. Inv /\ [Next]_vars => Inv'
  BY InvStep
<1>3. Inv => TypeOK
  BY DEF Inv
<1> QED
  BY <1>1, <1>2, <1>3, PTL DEF Spec

\* CCheckQueueControl::Wait returns true exactly if every check that was added
\* to the block passes, however workers, batches and interruptions interleave.
THEOREM WaitIsRight == Spec => []VerdictRight
<1>1. Init => Inv
  BY InitState
<1>2. Inv /\ [Next]_vars => Inv'
  BY InvStep
<1>3. Inv => VerdictRight
  BY DEF Inv
<1> QED
  BY <1>1, <1>2, <1>3, PTL DEF Spec

\* No check is executed by two threads, and none outlives the ConnectBlock
\* whose block and coins it points into.
THEOREM ChecksContained == Spec => [](NoCheckTwice /\ NothingOutlivesControl)
<1>1. Init => Inv
  BY InitState
<1>2. Inv /\ [Next]_vars => Inv'
  BY InvStep
<1>3. Inv => NoCheckTwice /\ NothingOutlivesControl
  BY NothingLeft DEF Inv, LeftClean, NothingOutlivesControl
<1> QED
  BY <1>1, <1>2, <1>3, PTL DEF Spec

\* The assert(isIdle) of the next CCheckQueueControl never fires, also after
\* interruptions have left their threads counted in nTotal and nIdle.
THEOREM ConstructorSafe == Spec => []ConstructorAssertHolds
<1>1. Init => Inv
  BY InitState
<1>2. Inv /\ [Next]_vars => Inv'
  BY InvStep
<1>3. Inv => ConstructorAssertHolds
  <2> SUFFICES ASSUME Inv, pc[Master] = "off", MutexFree PROVE IsIdle
    BY DEF ConstructorAssertHolds
  <2>1. nTodo = 0 /\ fAllOk /\ \A t \in Threads : batch[t] = {}
    BY NothingLeft DEF Inv, LeftClean
  <2>2. At(pc, {"locked", "work"}) = {}
    BY <2>1 DEF At, MutexFree, Inv, Exclusion
  <2>3. Cardinality(At(pc, {"locked", "work"})) = 0
    BY <2>2, FS_EmptySet
  <2>4. nTotal = nIdle
    BY <2>3 DEF Inv, IdleAccounting, TypeOK
  <2> QED
    BY <2>1, <2>4 DEF IsIdle
<1> QED
  BY <1>1, <1>2, <1>3, PTL DEF Spec
=============================================================================
