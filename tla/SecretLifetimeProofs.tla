------------------------ MODULE SecretLifetimeProofs ------------------------
(***************************************************************************)
(* Proofs about SecretLifetime for any policies, any length of a day, any  *)
(* time limit of a pending key and any range of the clock.                 *)
(***************************************************************************)
EXTENDS SecretLifetime, TLAPS

\* The deadline of a pending key is at most PendingTtl after its delivery.
PendingDeadline == pending # "none" => expires <= pending_at + PendingTtl

\* The time of the last housekeeping is in the past.
SeenIsPast == seen <= now

IndInv ==
    /\ TypeOK
    /\ SeenIsPast
    /\ SessionOrigin
    /\ UnlockedWithinLifetime
    /\ PendingDeadline
    /\ PendingKeyInTime

-----------------------------------------------------------------------------
(* Arithmetic of the two deadlines                                         *)

\* arm_pending_deadline stays in the range of the clock and within the limit.
LEMMA DeadlineBound ==
    ASSUME NEW t \in Times PROVE Deadline(t) \in Times /\ Deadline(t) <= t + PendingTtl
  BY LifetimeAssumption DEF Deadline, Times

\* The constants' ranges, without the arithmetic.
LEMMA Ranges ==
    /\ MaxTime \in Nat /\ 0 \in Times /\ Times \subseteq Nat /\ PendingTtl \in Nat
    /\ Never \in Policies
  BY LifetimeAssumption DEF Times, Policies

\* A policy's lifetime is positive.
LEMMA LifetimePositive ==
    ASSUME NEW p \in Days PROVE p * DayLength \in Nat /\ p * DayLength > 0
  BY LifetimeAssumption

\* When the lock is not due at t under a policy of p days, t is within p days of
\* the unlock.
LEMMA NotDue ==
    ASSUME NEW p \in Days, NEW t \in Times, NEW s \in Times,
           ~AutomaticLockDue("unlocked", p, s, TRUE, t)
    PROVE  t < s + p * DayLength
<1>1. p # Never /\ p * DayLength \in Nat
  BY LifetimeAssumption, LifetimePositive
<1> DEFINE len == p * DayLength
<1>2. len \in Nat
  BY <1>1
<1>3. ~(t >= s /\ t - s >= len)
  BY <1>1 DEF AutomaticLockDue
<1> HIDE DEF len
<1>4. t < s + len
  BY <1>2, <1>3 DEF Times
<1> QED BY <1>4 DEF len

-----------------------------------------------------------------------------
(* The initial state                                                       *)

\* At power-on nothing is unlocked and no key is pending.
LEMMA InitInd == Init => IndInv
<1> SUFFICES ASSUME Init PROVE IndInv
  OBVIOUS
<1>1. TypeOK
  BY Ranges DEF Init, TypeOK, Sessions
<1>2. state # "unlocked" /\ pending = "none" /\ active = FALSE
  BY DEF Init
<1> QED BY <1>1, <1>2
    DEF Init, IndInv, SeenIsPast, SessionOrigin, UnlockedWithinLifetime,
        PendingDeadline, PendingKeyInTime

-----------------------------------------------------------------------------
(* Every action preserves the invariant                                    *)

\* Time passes; nothing the two properties mention reads it directly.
LEMMA TickStep == ASSUME IndInv, Tick PROVE IndInv'
<1> USE DEF Tick, runtime, waiting, history
<1>1. now' \in Times
  BY Ranges DEF IndInv, TypeOK, Times
<1>6. TypeOK'
  BY <1>1 DEF IndInv, TypeOK
<1>0. SeenIsPast'
  BY Ranges DEF IndInv, TypeOK, SeenIsPast
<1>2. SessionOrigin'
  BY DEF IndInv, TypeOK, SessionOrigin
<1>3. UnlockedWithinLifetime'
  BY DEF IndInv, TypeOK, SessionOrigin, UnlockedWithinLifetime
<1>4. PendingDeadline'
  BY Ranges DEF IndInv, TypeOK, PendingDeadline
<1>5. PendingKeyInTime'
  BY Ranges DEF IndInv, TypeOK, PendingDeadline, PendingKeyInTime
<1> QED BY <1>0, <1>6, <1>2, <1>3, <1>4, <1>5 DEF IndInv

\* Housekeeping locks when the lifetime is over and drops a late pending key.
LEMMA HousekeepingStep ==
    ASSUME IndInv, NEW next \in {"read", "dispatch"}, Housekeeping(next) PROVE IndInv'
<1> USE DEF Housekeeping, BeginLock, ExpirePending, runtime, waiting, history
<1>1. TypeOK'
  BY Ranges DEF IndInv, TypeOK, Sessions
<1>0. SeenIsPast'
  BY Ranges DEF IndInv, TypeOK, SeenIsPast
<1>2. SessionOrigin'
  BY DEF IndInv, TypeOK, SessionOrigin
<1>3. UnlockedWithinLifetime'
  <2> SUFFICES ASSUME pc' # "locking", state' = "unlocked", vault' \in Days
               PROVE  seen' < unlocked_at' + vault' * DayLength
    BY DEF UnlockedWithinLifetime
  <2>1. ~DueAt(now) /\ state = "unlocked" /\ vault \in Days
    OBVIOUS
  <2>2. active = TRUE /\ since = unlocked_at /\ policy = vault
    BY <2>1 DEF IndInv, TypeOK, SessionOrigin
  <2>3. ~AutomaticLockDue("unlocked", vault, since, TRUE, now)
    BY <2>1, <2>2 DEF DueAt
  <2>4. now < since + vault * DayLength
    BY <2>1, <2>3, NotDue DEF IndInv, TypeOK
  <2> QED BY <2>2, <2>4
<1>4. PendingDeadline'
  BY Ranges DEF IndInv, TypeOK, PendingDeadline
<1>5. PendingKeyInTime'
  <2>1. CASE pending' = "none"
    BY <2>1 DEF PendingKeyInTime
  <2>2. CASE pending' # "none"
    <3>1. ~DueAt(now) /\ pending # "none" /\ now < expires /\ pc' # "locking"
      BY <2>2, Ranges DEF IndInv, TypeOK
    <3>2. expires <= pending_at + PendingTtl
      BY <3>1 DEF IndInv, PendingDeadline
    <3>3. now < pending_at + PendingTtl
      BY <3>1, <3>2, Ranges DEF IndInv, TypeOK
    <3> QED BY <3>1, <3>3 DEF PendingKeyInTime
  <2> QED BY <2>1, <2>2
<1> QED BY <1>0, <1>1, <1>2, <1>3, <1>4, <1>5 DEF IndInv

\* No request: the task keeps what it has.
LEMMA NoLineStep == ASSUME IndInv, NoLine PROVE IndInv'
<1> USE DEF NoLine, runtime, waiting, history
<1>1. TypeOK'
  BY Ranges DEF IndInv, TypeOK, Sessions
<1>0. SeenIsPast'
  BY Ranges DEF IndInv, TypeOK, SeenIsPast
<1>2. SessionOrigin'
  BY DEF IndInv, TypeOK, SessionOrigin
<1>3. UnlockedWithinLifetime'
  BY DEF IndInv, TypeOK, SessionOrigin, UnlockedWithinLifetime
<1>4. PendingDeadline'
  BY Ranges DEF IndInv, TypeOK, PendingDeadline
<1>5. PendingKeyInTime'
  BY Ranges DEF IndInv, TypeOK, PendingDeadline, PendingKeyInTime
<1> QED BY <1>0, <1>1, <1>2, <1>3, <1>4, <1>5 DEF IndInv

\* The lock boundary ends the automatic-lock session.
LEMMA LockBoundaryStep == ASSUME IndInv, LockBoundary PROVE IndInv'
<1> USE DEF LockBoundary, LockRuntime, ClearUnlockSession, runtime, waiting, history
<1>1. TypeOK'
  BY Ranges DEF IndInv, TypeOK, Sessions
<1>0. SeenIsPast'
  BY Ranges DEF IndInv, TypeOK, SeenIsPast
<1>2. SessionOrigin'
  BY DEF IndInv, TypeOK, SessionOrigin
<1>3. UnlockedWithinLifetime'
  BY DEF IndInv, TypeOK, SessionOrigin, UnlockedWithinLifetime
<1>4. PendingDeadline'
  BY Ranges DEF IndInv, TypeOK, PendingDeadline
<1>5. PendingKeyInTime'
  BY Ranges DEF IndInv, TypeOK, PendingDeadline, PendingKeyInTime
<1> QED BY <1>0, <1>1, <1>2, <1>3, <1>4, <1>5 DEF IndInv

\* A session never unlocks; a re-key keeps the session of the unlock.
LEMMA SessionBeginStep ==
    ASSUME IndInv, NEW op \in Sessions \ {"none"}, SessionBegin(op) PROVE IndInv'
<1> USE DEF SessionBegin, LockRuntime, ClearUnlockSession, Dispatching, Answer,
            NoPending, KeepHistory, runtime, waiting, history
<1>1. TypeOK'
  BY Ranges DEF IndInv, TypeOK, Sessions
<1>0. SeenIsPast'
  BY Ranges DEF IndInv, TypeOK, SeenIsPast
<1>7. \/ UNCHANGED runtime
      \/ active' = FALSE /\ state' # "unlocked"
      \/ /\ state = "unlocked" /\ active /\ state' = "locked"
         /\ UNCHANGED <<vault, policy, since, active>>
  <2>1. CASE op = "install" BY <2>1
  <2>2. CASE op = "unlock" BY <2>2
  <2>3. CASE op = "replace" BY <2>3
  <2>4. CASE op = "rekey" BY <2>4
  <2> QED BY <2>1, <2>2, <2>3, <2>4 DEF Sessions
<1> HIDE DEF SessionBegin
<1>8. UNCHANGED <<unlocked_at, seen>> /\ pc = "dispatch"
  BY DEF SessionBegin
<1>2. SessionOrigin'
  BY <1>7, <1>8 DEF IndInv, TypeOK, SessionOrigin
<1>3. UnlockedWithinLifetime'
  BY <1>7, <1>8 DEF IndInv, UnlockedWithinLifetime
<1>4. PendingDeadline'
  BY Ranges DEF SessionBegin, IndInv, TypeOK, PendingDeadline
<1>5. PendingKeyInTime'
  BY Ranges DEF SessionBegin, IndInv, TypeOK, PendingDeadline, PendingKeyInTime
<1> QED BY <1>0, <1>1, <1>2, <1>3, <1>4, <1>5 DEF IndInv

\* Ending a session drops the pending key.
LEMMA SessionEndsStep == ASSUME IndInv, SessionEnds PROVE IndInv'
<1> USE DEF SessionEnds, Dispatching, Answer, NoPending, KeepHistory, runtime,
            waiting, history
<1>1. TypeOK'
  BY Ranges DEF IndInv, TypeOK, Sessions
<1>0. SeenIsPast'
  BY Ranges DEF IndInv, TypeOK, SeenIsPast
<1>2. SessionOrigin'
  BY DEF IndInv, TypeOK, SessionOrigin
<1>3. UnlockedWithinLifetime'
  BY DEF IndInv, TypeOK, SessionOrigin, UnlockedWithinLifetime
<1>4. PendingDeadline'
  BY Ranges DEF IndInv, TypeOK, PendingDeadline
<1>5. PendingKeyInTime'
  BY Ranges DEF IndInv, TypeOK, PendingDeadline, PendingKeyInTime
<1> QED BY <1>0, <1>1, <1>2, <1>3, <1>4, <1>5 DEF IndInv

\* An unlock counts from the clock, which is not before the time seen.
LEMMA CompleteUnlockStep == ASSUME IndInv, CompleteUnlock PROVE IndInv'
<1> USE DEF CompleteUnlock, UnlockRuntime, Dispatching, Answer, NoPending,
            KeepHistory, runtime, waiting, history
<1>1. TypeOK'
  BY Ranges DEF IndInv, TypeOK, Sessions
<1>0. SeenIsPast'
  BY Ranges DEF IndInv, TypeOK, SeenIsPast
<1>2. SessionOrigin'
  BY DEF IndInv, TypeOK, SessionOrigin
<1>3. UnlockedWithinLifetime'
  <2> SUFFICES ASSUME vault \in Days PROVE seen < now + vault * DayLength
    BY DEF UnlockedWithinLifetime
  <2> DEFINE len == vault * DayLength
  <2>1. len \in Nat /\ len > 0
    BY LifetimePositive
  <2> HIDE DEF len
  <2>2. seen < now + len
    BY <2>1, Ranges DEF IndInv, TypeOK, SeenIsPast
  <2> QED BY <2>2 DEF len
<1>4. PendingDeadline'
  BY Ranges DEF IndInv, TypeOK, PendingDeadline
<1>5. PendingKeyInTime'
  BY Ranges DEF IndInv, TypeOK, PendingDeadline, PendingKeyInTime
<1> QED BY <1>0, <1>1, <1>2, <1>3, <1>4, <1>5 DEF IndInv

\* A failed replacement locks again.
LEMMA CompleteUndoneStep == ASSUME IndInv, CompleteUndone PROVE IndInv'
<1> USE DEF CompleteUndone, LockRuntime, ClearUnlockSession, Dispatching, Answer,
            NoPending, KeepHistory, runtime, waiting, history
<1>1. TypeOK'
  BY Ranges DEF IndInv, TypeOK, Sessions
<1>0. SeenIsPast'
  BY Ranges DEF IndInv, TypeOK, SeenIsPast
<1>2. SessionOrigin'
  BY DEF IndInv, TypeOK, SessionOrigin
<1>3. UnlockedWithinLifetime'
  BY DEF IndInv, TypeOK, SessionOrigin, UnlockedWithinLifetime
<1>4. PendingDeadline'
  BY Ranges DEF IndInv, TypeOK, PendingDeadline
<1>5. PendingKeyInTime'
  BY Ranges DEF IndInv, TypeOK, PendingDeadline, PendingKeyInTime
<1> QED BY <1>0, <1>1, <1>2, <1>3, <1>4, <1>5 DEF IndInv

\* A delivered key gets its deadline.
LEMMA CompletePendingStep == ASSUME IndInv, CompletePending PROVE IndInv'
<1> USE DEF CompletePending, Dispatching, Answer, NoPending, KeepHistory, runtime,
            waiting, history
<1>1. TypeOK'
  BY Ranges, DeadlineBound DEF IndInv, TypeOK, Sessions
<1>0. SeenIsPast'
  BY Ranges DEF IndInv, TypeOK, SeenIsPast
<1>2. SessionOrigin'
  BY DEF IndInv, TypeOK, SessionOrigin
<1>3. UnlockedWithinLifetime'
  BY DEF IndInv, TypeOK, SessionOrigin, UnlockedWithinLifetime
<1>4. PendingDeadline'
  BY DeadlineBound DEF IndInv, TypeOK, PendingDeadline, Times
<1>5. PendingKeyInTime'
  BY Ranges DEF IndInv, TypeOK, PendingDeadline, PendingKeyInTime
<1> QED BY <1>0, <1>1, <1>2, <1>3, <1>4, <1>5 DEF IndInv

\* An installation unlocks with the time of its request, or fails.
LEMMA VaultInstallStep == ASSUME IndInv, NEW p \in Policies, VaultInstall(p) PROVE IndInv'
<1> USE DEF VaultInstall, UnlockRuntime, EraseRuntime, FailRuntime,
            ClearUnlockSession, Dispatching, Answer, NoPending, KeepHistory, runtime,
            waiting, history
<1>1. TypeOK'
  BY Ranges DEF IndInv, TypeOK, Sessions
<1>0. SeenIsPast'
  BY Ranges DEF IndInv, TypeOK, SeenIsPast
<1>2. SessionOrigin'
  BY DEF IndInv, TypeOK, SessionOrigin
<1>3. UnlockedWithinLifetime'
  <2> SUFFICES ASSUME state' = "unlocked", vault' \in Days, p \in Days, UnlockRuntime(p, seen)
               PROVE  seen < seen + p * DayLength
    BY DEF UnlockedWithinLifetime
  <2> DEFINE len == p * DayLength
  <2>1. len \in Nat /\ len > 0
    BY LifetimePositive
  <2> HIDE DEF len
  <2>2. seen < seen + len
    BY <2>1, Ranges DEF IndInv, TypeOK
  <2> QED BY <2>2 DEF len
<1>4. PendingDeadline'
  BY Ranges DEF IndInv, TypeOK, PendingDeadline
<1>5. PendingKeyInTime'
  BY Ranges DEF IndInv, TypeOK, PendingDeadline, PendingKeyInTime
<1> QED BY <1>0, <1>1, <1>2, <1>3, <1>4, <1>5 DEF IndInv

\* A committed policy that is already over locks in the same request.
LEMMA VaultUpdateStep == ASSUME IndInv, NEW p \in Policies, VaultUpdate(p) PROVE IndInv'
<1> USE DEF VaultUpdate, CommitPolicy, FailRuntime, ClearUnlockSession, BeginLock,
            Dispatching, Answer, NoPending, KeepHistory, runtime, waiting, history
<1>1. TypeOK'
  BY Ranges DEF IndInv, TypeOK, Sessions
<1>0. SeenIsPast'
  BY Ranges DEF IndInv, TypeOK, SeenIsPast
<1>2. SessionOrigin'
  BY DEF IndInv, TypeOK, SessionOrigin
<1>3. UnlockedWithinLifetime'
  <2> SUFFICES ASSUME pc' # "locking", state' = "unlocked", vault' \in Days
               PROVE  seen' < unlocked_at' + vault' * DayLength
    BY DEF UnlockedWithinLifetime
  <2>1. CASE CommitPolicy(p) /\ ~AutomaticLockDue("unlocked", p, since, active, seen)
    <3>1. p \in Days /\ active = TRUE /\ since = unlocked_at /\ vault' = p
      BY <2>1 DEF IndInv, TypeOK, SessionOrigin
    <3>2. ~AutomaticLockDue("unlocked", p, since, TRUE, seen)
      BY <2>1, <3>1
    <3>3. seen < since + p * DayLength
      BY <3>1, <3>2, NotDue DEF IndInv, TypeOK
    <3> QED BY <3>1, <3>3
  <2>2. CASE UNCHANGED runtime
    BY <2>2 DEF IndInv, UnlockedWithinLifetime
  <2>3. CASE FailRuntime
    BY <2>3
  <2> QED BY <2>1, <2>2, <2>3
<1>4. PendingDeadline'
  BY Ranges DEF IndInv, TypeOK, PendingDeadline
<1>5. PendingKeyInTime'
  BY Ranges DEF IndInv, TypeOK, PendingDeadline, PendingKeyInTime
<1> QED BY <1>0, <1>1, <1>2, <1>3, <1>4, <1>5 DEF IndInv

\* A re-key resumes the session of the unlock, or locks.
LEMMA VaultRekeyStep == ASSUME IndInv, NEW p \in Policies, VaultRekey(p) PROVE IndInv'
<1> USE DEF VaultRekey, LockIfDue, CommitPolicy, FailRuntime, ClearUnlockSession,
            BeginLock, Dispatching, Answer, NoPending, KeepHistory, runtime, waiting,
            history
<1>1. TypeOK'
  BY Ranges DEF IndInv, TypeOK, Sessions
<1>0. SeenIsPast'
  BY Ranges DEF IndInv, TypeOK, SeenIsPast
<1>2. SessionOrigin'
  BY DEF IndInv, TypeOK, SessionOrigin
<1>3. UnlockedWithinLifetime'
  <2> SUFFICES ASSUME pc' # "locking", state' = "unlocked", vault' \in Days
               PROVE  seen' < unlocked_at' + vault' * DayLength
    BY DEF UnlockedWithinLifetime
  <2>1. CASE CommitPolicy(p) /\ ~AutomaticLockDue("unlocked", p, since, active, seen)
    <3>1. p \in Days /\ active = TRUE /\ since = unlocked_at /\ vault' = p
      BY <2>1 DEF IndInv, TypeOK, SessionOrigin
    <3>2. ~AutomaticLockDue("unlocked", p, since, TRUE, seen)
      BY <2>1, <3>1
    <3>3. seen < since + p * DayLength
      BY <3>1, <3>2, NotDue DEF IndInv, TypeOK
    <3> QED BY <3>1, <3>3
  <2>2. CASE UNCHANGED runtime
    BY <2>2 DEF IndInv, UnlockedWithinLifetime
  <2>3. CASE FailRuntime
    BY <2>3
  <2> QED BY <2>1, <2>2, <2>3
<1>4. PendingDeadline'
  BY Ranges DEF IndInv, TypeOK, PendingDeadline
<1>5. PendingKeyInTime'
  BY Ranges DEF IndInv, TypeOK, PendingDeadline, PendingKeyInTime
<1> QED BY <1>0, <1>1, <1>2, <1>3, <1>4, <1>5 DEF IndInv

\* device.lock drops the pending key before the boundary.
LEMMA DeviceLockStep == ASSUME IndInv, DeviceLock PROVE IndInv'
<1> USE DEF DeviceLock, BeginLock, Dispatching, Answer, NoPending, KeepHistory,
            runtime, waiting, history
<1>1. TypeOK'
  BY Ranges DEF IndInv, TypeOK, Sessions
<1>0. SeenIsPast'
  BY Ranges DEF IndInv, TypeOK, SeenIsPast
<1>2. SessionOrigin'
  BY DEF IndInv, TypeOK, SessionOrigin
<1>3. UnlockedWithinLifetime'
  BY DEF IndInv, TypeOK, SessionOrigin, UnlockedWithinLifetime
<1>4. PendingDeadline'
  BY Ranges DEF IndInv, TypeOK, PendingDeadline
<1>5. PendingKeyInTime'
  BY Ranges DEF IndInv, TypeOK, PendingDeadline, PendingKeyInTime
<1> QED BY <1>0, <1>1, <1>2, <1>3, <1>4, <1>5 DEF IndInv

\* A reset leaves nothing unlocked.
LEMMA FactoryResetStep == ASSUME IndInv, FactoryReset PROVE IndInv'
<1> USE DEF FactoryReset, EraseRuntime, FailRuntime, ClearUnlockSession, Dispatching,
            Answer, NoPending, KeepHistory, runtime, waiting, history
<1>1. TypeOK'
  BY Ranges DEF IndInv, TypeOK, Sessions
<1>0. SeenIsPast'
  BY Ranges DEF IndInv, TypeOK, SeenIsPast
<1>2. SessionOrigin'
  BY DEF IndInv, TypeOK, SessionOrigin
<1>3. UnlockedWithinLifetime'
  BY DEF IndInv, TypeOK, SessionOrigin, UnlockedWithinLifetime
<1>4. PendingDeadline'
  BY Ranges DEF IndInv, TypeOK, PendingDeadline
<1>5. PendingKeyInTime'
  BY Ranges DEF IndInv, TypeOK, PendingDeadline, PendingKeyInTime
<1> QED BY <1>0, <1>1, <1>2, <1>3, <1>4, <1>5 DEF IndInv

\* Other requests only answer.
LEMMA OtherRequestStep == ASSUME IndInv, OtherRequest PROVE IndInv'
<1> USE DEF OtherRequest, Dispatching, Answer, NoPending, KeepHistory, runtime,
            waiting, history
<1>1. TypeOK'
  BY Ranges DEF IndInv, TypeOK, Sessions
<1>0. SeenIsPast'
  BY Ranges DEF IndInv, TypeOK, SeenIsPast
<1>2. SessionOrigin'
  BY DEF IndInv, TypeOK, SessionOrigin
<1>3. UnlockedWithinLifetime'
  BY DEF IndInv, TypeOK, SessionOrigin, UnlockedWithinLifetime
<1>4. PendingDeadline'
  BY Ranges DEF IndInv, TypeOK, PendingDeadline
<1>5. PendingKeyInTime'
  BY Ranges DEF IndInv, TypeOK, PendingDeadline, PendingKeyInTime
<1> QED BY <1>0, <1>1, <1>2, <1>3, <1>4, <1>5 DEF IndInv

\* A fatal error leaves nothing unlocked.
LEMMA FatalReadStep == ASSUME IndInv, FatalRead PROVE IndInv'
<1> USE DEF FatalRead, FailRuntime, ClearUnlockSession, runtime, waiting, history
<1>1. TypeOK'
  BY Ranges DEF IndInv, TypeOK, Sessions
<1>0. SeenIsPast'
  BY Ranges DEF IndInv, TypeOK, SeenIsPast
<1>2. SessionOrigin'
  BY DEF IndInv, TypeOK, SessionOrigin
<1>3. UnlockedWithinLifetime'
  BY DEF IndInv, TypeOK, SessionOrigin, UnlockedWithinLifetime
<1>4. PendingDeadline'
  BY Ranges DEF IndInv, TypeOK, PendingDeadline
<1>5. PendingKeyInTime'
  BY Ranges DEF IndInv, TypeOK, PendingDeadline, PendingKeyInTime
<1> QED BY <1>0, <1>1, <1>2, <1>3, <1>4, <1>5 DEF IndInv

\* A reboot leaves nothing unlocked and nothing pending.
LEMMA RebootStep == ASSUME IndInv, Reboot PROVE IndInv'
<1> USE DEF Reboot, ClearUnlockSession, NoPending, runtime, waiting, history
<1>1. TypeOK'
  BY Ranges DEF IndInv, TypeOK, Sessions
<1>0. SeenIsPast'
  BY Ranges DEF IndInv, TypeOK, SeenIsPast
<1>2. SessionOrigin'
  BY DEF IndInv, TypeOK, SessionOrigin
<1>3. UnlockedWithinLifetime'
  BY DEF IndInv, TypeOK, SessionOrigin, UnlockedWithinLifetime
<1>4. PendingDeadline'
  BY Ranges DEF IndInv, TypeOK, PendingDeadline
<1>5. PendingKeyInTime'
  BY Ranges DEF IndInv, TypeOK, PendingDeadline, PendingKeyInTime
<1> QED BY <1>0, <1>1, <1>2, <1>3, <1>4, <1>5 DEF IndInv

\* Stuttering.
LEMMA StutterStep == ASSUME IndInv, UNCHANGED vars PROVE IndInv'
  BY DEF vars, IndInv, TypeOK, SeenIsPast, SessionOrigin, UnlockedWithinLifetime,
         PendingDeadline, PendingKeyInTime

\* Any request of the protocol task.
LEMMA RequestsStep == ASSUME IndInv, Requests PROVE IndInv'
  BY SessionBeginStep, SessionEndsStep, CompleteUnlockStep, CompleteUndoneStep,
     CompletePendingStep, VaultInstallStep, VaultUpdateStep, VaultRekeyStep, DeviceLockStep,
     FactoryResetStep, OtherRequestStep
  DEF Requests

\* Every step of the specification.
LEMMA NextInd == ASSUME IndInv, [Next]_vars PROVE IndInv'
<1>1. CASE Poll \/ ReceiveLine
  BY <1>1, HousekeepingStep DEF Poll, ReceiveLine
<1>2. CASE Tick \/ NoLine \/ LockBoundary \/ FatalRead \/ Reboot
  BY <1>2, TickStep, NoLineStep, LockBoundaryStep, FatalReadStep, RebootStep
<1>3. CASE Requests
  BY <1>3, RequestsStep
<1>4. CASE UNCHANGED vars
  BY <1>4, StutterStep
<1> QED BY <1>1, <1>2, <1>3, <1>4 DEF Next, ProtocolTask

-----------------------------------------------------------------------------
(* Theorems                                                                *)

\* The inductive invariant holds in every reachable state.
\* About: the main loop, the protocol requests and the Runtime's unlock session.
THEOREM Inductive == Spec => []IndInv
  BY InitInd, NextInd, PTL DEF Spec

\* No variable ever leaves its range; in particular the deadline armed for a
\* pending key does not overflow.  About: arm_pending_deadline.
THEOREM TypeCorrect == Spec => []TypeOK
<1>1. IndInv => TypeOK
  BY DEF IndInv
<1> QED BY <1>1, Inductive, PTL

\* For any policies and any length of a day, a Device that is UNLOCKED after
\* its housekeeping was unlocked by a person less than the committed policy ago,
\* across policy changes, re-keys and failed commits.
\* About: housekeeping, automatic_lock_due, update_encrypted_vault,
\* rekey_encrypted_vault.
THEOREM Lifetime == Spec => []UnlockedWithinLifetime
<1>1. IndInv => UnlockedWithinLifetime
  BY DEF IndInv
<1> QED BY <1>1, Inductive, PTL

\* For any limit, a VMK that waits for its Vault request is younger than the
\* limit whenever a line is read or dispatched, and none survives a lock.
\* About: arm_pending_deadline, expire_pending, lock_security_boundary.
THEOREM PendingKeys == Spec => []PendingKeyInTime
<1>1. IndInv => PendingKeyInTime
  BY DEF IndInv
<1> QED BY <1>1, Inductive, PTL

=============================================================================
