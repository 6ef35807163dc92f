-------------------------- MODULE SolarMutexProofs --------------------------
(***************************************************************************)
(* Theorems about SolarMutex, for any set of threads and any bounds: mutual*)
(* exclusion, and that what SalYieldMutex records agrees with its mutex.   *)
(* They hold until a thread enters the signal handler, if one ever does;   *)
(* the types, and that the handler never blocks, hold after that as well.  *)
(***************************************************************************)
EXTENDS SolarMutex, TLAPS

\* TypeOK in two parts: the flags, and what SMT reasons about.
FlagsType ==
    /\ maReacquireThreadCondition \in BOOLEAN /\ maMainThreadCondition \in BOOLEAN
    /\ maMainThreadWaitingCondition \in BOOLEAN /\ isShutDown \in BOOLEAN
RecordsType ==
    /\ owner \in Threads \cup {NoThread} /\ depth \in Nat
    /\ mnThreadId \in Threads \cup {NoThread} /\ mnCount \in Nat
    /\ mnReacquireThreadId \in Threads \cup {NoThread}
    /\ signalled \in Threads \cup {NoThread}
    /\ nInNativeDragPrint \in Nat /\ posted \subseteq Threads
ThreadsType ==
    /\ pc \in [Threads -> PCs] /\ op \in [Threads -> Calls]
    /\ held \in [Threads -> Nat] /\ saved \in [Threads -> Nat]
    /\ todo \in [Threads -> Nat] /\ ops \in Nat

NoSignal ==
    /\ signalled = NoThread
    /\ \A t \in Threads : op[t] # "signal" /\ pc[t] # "sigTry"

Unowned == owner = NoThread => depth = 0 /\ mnCount = 0 /\ mnThreadId = NoThread

\* The thread that owns maMutex: the record is behind only between a change of
\* the mutex and a change of the record.
OwnerOK(t) == owner = t =>
    /\ depth > 0 /\ depth = held[t] + InHand(t)
    /\ mnCount = depth - (IF pc[t] \in {"own", "unlock", "unlockNotify"} THEN 1 ELSE 0)
    /\ mnThreadId = IF mnCount = 0 THEN NoThread ELSE t
    /\ pc[t] \notin {"loop", "poll", "try"}
    /\ pc[t] = "unlockNotify" => mnCount = 0

\* A thread that does not: only the main thread, after the shutdown, may have
\* come back from acquire all the same.
OtherOK(t) == owner # t =>
    /\ pc[t] # "own" /\ (t = Main => pc[t] # "lock")
    /\ t # Main \/ ~isShutDown =>
           held[t] = 0 /\ pc[t] \notin {"leave", "ret", "rel", "unlock", "unlockNotify"}

PlaceOK(t) ==
    /\ pc[t] = "rel" => held[t] > 0
    /\ pc[t] \in {"loop", "poll", "try", "leave"} => t = Main
    /\ op[t] = "dragLock" => t = Main

\* A thread between ReleaseYieldMutex and AcquireYieldMutex.
SavedOK(t) == saved[t] > 0 =>
    \/ pc[t] = "idle" /\ owner # t /\ held[t] = 0
    \/ op[t] = "releaseAll" /\ pc[t] \in {"rel", "unlock", "unlockNotify"} /\ owner = t
    \/ op[t] = "releaseAll" /\ pc[t] = "notify" /\ owner # t /\ held[t] = 0

ThreadOK(t) == OwnerOK(t) /\ OtherOK(t) /\ PlaceOK(t) /\ SavedOK(t)

\* The inductive invariant, apart from the flags.
Core == RecordsType /\ ThreadsType /\ NoSignal /\ Unowned /\ \A t \in Threads : ThreadOK(t)

\* The drag locks are among the acquires of the main thread, which does not
\* release everything while it has one.
DragOK == nInNativeDragPrint > 0 =>
    /\ owner = Main /\ op[Main] # "releaseAll"
    /\ held[Main] >= nInNativeDragPrint + (IF pc[Main] = "rel" THEN 1 ELSE 0)

\* The thread with priority is on its way out of the lock, or back into it and
\* not yet recorded as its owner.
PriorityOK == mnReacquireThreadId # NoThread =>
    /\ mnReacquireThreadId # Main
    /\ \/ saved[mnReacquireThreadId] > 0
       \/ /\ op[mnReacquireThreadId] = "acquireAll"
          /\ pc[mnReacquireThreadId] \in {"enter", "lock", "own"}

IInv == FlagsType /\ Core /\ DragOK /\ PriorityOK

-----------------------------------------------------------------------------

(* The thread mnThreadId says has the lock does own maMutex. *)
LEMMA RecordIsTrue ==
    ASSUME Core, NEW t \in Threads, mnThreadId = t
    PROVE  owner = t /\ mnCount > 0
  BY ThreadAssumption DEF Core, RecordsType, Unowned, ThreadOK, OwnerOK

(* What a step must leave to a thread that does not make it. *)
LEMMA OtherThread ==
    ASSUME NEW u \in Threads, ThreadOK(u), isShutDown => isShutDown',
           pc'[u] = pc[u], op'[u] = op[u], held'[u] = held[u], saved'[u] = saved[u],
           owner' = u <=> owner = u,
           owner = u => depth' = depth /\ mnCount' = mnCount /\ mnThreadId' = mnThreadId
    PROVE  ThreadOK(u)'
  BY DEF ThreadOK, OwnerOK, OtherOK, PlaceOK, SavedOK, InHand

(* A thread that owns the mutex goes straight to it; the others own nothing. *)
LEMMA EnterStep ==
    ASSUME Core, NEW t \in Threads, Enter(t)
    PROVE  Core'
<1> USE ThreadAssumption DEF Core, RecordsType, ThreadsType, Goto, At,
        osMutex, record, mainWait, environment, client
<1>1. ThreadOK(t)'
  <2>1. (mnThreadId # t => owner # t) /\ signalled = NoThread
    BY RecordIsTrue DEF Enter, ThreadOK, OwnerOK, OtherOK, PlaceOK, InHand,
         Unowned, NoSignal
  <2>2. held' = held /\ saved' = saved /\ mnCount' = mnCount /\ mnThreadId' = mnThreadId /\ owner' = owner /\ depth' = depth
    BY <2>1 DEF Enter
  <2>3. OwnerOK(t)'
    BY <2>1, <2>2, RecordIsTrue DEF Enter, ThreadOK, OwnerOK, OtherOK, PlaceOK,
         InHand, Unowned
  <2>4. OtherOK(t)' /\ PlaceOK(t)'
    BY <2>1, <2>2, RecordIsTrue DEF Enter, ThreadOK, OwnerOK, OtherOK, PlaceOK, InHand
  <2>5. SavedOK(t)'
    BY <2>1, <2>2, RecordIsTrue DEF Enter, ThreadOK, OwnerOK, SavedOK
  <2> QED
    BY <2>3, <2>4, <2>5 DEF ThreadOK
<1>2. ASSUME NEW u \in Threads, u # t PROVE ThreadOK(u)'
  BY <1>2, RecordIsTrue, OtherThread DEF Enter
<1>3. RecordsType' /\ ThreadsType'
  BY RecordIsTrue DEF Enter, ThreadOK, OwnerOK, PlaceOK, PCs, Calls
<1>4. NoSignal' /\ Unowned'
  BY RecordIsTrue DEF Enter, NoSignal, Unowned, ThreadOK, OwnerOK
<1> QED
  BY <1>1, <1>2, <1>3, <1>4

(* The mutex is taken before it is recorded. *)
LEMMA LockStep ==
    ASSUME Core, NEW t \in Threads, Lock(t)
    PROVE  Core'
<1> USE ThreadAssumption DEF Core, RecordsType, ThreadsType, Goto, At,
        osMutex, record, mainWait, environment, client
<1>1. ThreadOK(t)'
  <2>1. /\ owner \in {t, NoThread} /\ depth = held[t] /\ mnCount = depth
        /\ mnThreadId = (IF mnCount = 0 THEN NoThread ELSE t)
    BY RecordIsTrue DEF Lock, ThreadOK, OwnerOK, OtherOK, PlaceOK, InHand,
         Unowned, TakeOsMutex
  <2>2. owner' = t /\ depth' = depth + 1 /\ pc'[t] = "own" /\ held' = held /\ saved' = saved /\ mnCount' = mnCount /\ mnThreadId' = mnThreadId
    BY <2>1 DEF Lock, TakeOsMutex
  <2>3. OwnerOK(t)'
    BY <2>1, <2>2, RecordIsTrue DEF Lock, ThreadOK, OwnerOK, OtherOK, PlaceOK,
         InHand, Unowned, TakeOsMutex
  <2>4. OtherOK(t)' /\ PlaceOK(t)'
    BY <2>1, <2>2, RecordIsTrue DEF Lock, ThreadOK, OwnerOK, OtherOK, PlaceOK,
         InHand, TakeOsMutex
  <2>5. SavedOK(t)'
    BY <2>1, <2>2, RecordIsTrue DEF Lock, ThreadOK, OwnerOK, SavedOK, TakeOsMutex
  <2> QED
    BY <2>3, <2>4, <2>5 DEF ThreadOK
<1>2. ASSUME NEW u \in Threads, u # t PROVE ThreadOK(u)'
  BY <1>2, RecordIsTrue, OtherThread DEF Lock, TakeOsMutex
<1>3. RecordsType' /\ ThreadsType'
  BY RecordIsTrue DEF Lock, ThreadOK, OwnerOK, PlaceOK, PCs, Calls, TakeOsMutex
<1>4. NoSignal' /\ Unowned'
  BY RecordIsTrue DEF Lock, NoSignal, Unowned, ThreadOK, OwnerOK, TakeOsMutex
<1> QED
  BY <1>1, <1>2, <1>3, <1>4

(* Recording it. *)
LEMMA OwnStep ==
    ASSUME Core, NEW t \in Threads, Own(t)
    PROVE  Core'
<1> USE ThreadAssumption DEF Core, RecordsType, ThreadsType, Goto, At,
        osMutex, record, mainWait, environment, client
<1>0. owner = t
  BY DEF Own, At, ThreadOK, OtherOK
<1>1. ThreadOK(t)'
  BY RecordIsTrue DEF Own, ThreadOK, OwnerOK, OtherOK, PlaceOK, SavedOK, InHand, RecordOwner
<1>2. ASSUME NEW u \in Threads, u # t PROVE ThreadOK(u)'
  BY <1>0, <1>2, RecordIsTrue, OtherThread DEF Own, RecordOwner
<1>3. RecordsType' /\ ThreadsType'
  BY RecordIsTrue DEF Own, ThreadOK, OwnerOK, PlaceOK, PCs, Calls, RecordOwner
<1>4. NoSignal' /\ Unowned'
  BY <1>0, RecordIsTrue DEF Own, NoSignal, Unowned, ThreadOK, OwnerOK, RecordOwner
<1> QED
  BY <1>1, <1>2, <1>3, <1>4

(* The main thread's wait, where it owns nothing. *)
LEMMA LoopStep ==
    ASSUME Core, NEW t \in Threads, Loop(t)
    PROVE  Core'
<1> USE ThreadAssumption DEF Core, RecordsType, ThreadsType, Goto, At,
        osMutex, record, mainWait, environment, client
<1>1. ThreadOK(t)'
  <2>1. owner # t /\ t = Main
    BY RecordIsTrue DEF Loop, ThreadOK, OwnerOK, OtherOK, PlaceOK, InHand, Unowned
  <2>2. held' = held /\ saved' = saved /\ owner' = owner
    BY <2>1 DEF Loop
  <2>3. OwnerOK(t)'
    BY <2>1, <2>2, RecordIsTrue DEF Loop, ThreadOK, OwnerOK, OtherOK, PlaceOK,
         InHand, Unowned
  <2>4. OtherOK(t)'
    <3>1. /\ pc'[t] \in {"leave", "poll"} /\ (pc'[t] = "leave" => isShutDown) /\ (isShutDown => isShutDown')
          /\ ~isShutDown => held[t] = 0
      BY <2>1, <2>2 DEF ThreadOK, OtherOK, Loop
    <3> QED
      BY <2>1, <2>2, <3>1 DEF OtherOK
  <2>5. PlaceOK(t)'
    BY <2>1, <2>2 DEF ThreadOK, PlaceOK, Loop
  <2>6. SavedOK(t)'
    BY <2>1, <2>2, RecordIsTrue DEF Loop, ThreadOK, OwnerOK, SavedOK
  <2> QED
    BY <2>3, <2>4, <2>5, <2>6 DEF ThreadOK
<1>2. ASSUME NEW u \in Threads, u # t PROVE ThreadOK(u)'
  BY <1>2, RecordIsTrue, OtherThread DEF Loop
<1>3. RecordsType' /\ ThreadsType'
  BY RecordIsTrue DEF Loop, ThreadOK, OwnerOK, PlaceOK, PCs, Calls
<1>4. NoSignal' /\ Unowned'
  BY RecordIsTrue DEF Loop, NoSignal, Unowned, ThreadOK, OwnerOK
<1> QED
  BY <1>1, <1>2, <1>3, <1>4

(* The run loop does not touch the lock. *)
LEMMA PollStep ==
    ASSUME Core, NEW t \in Threads, Poll(t)
    PROVE  Core'
<1> USE ThreadAssumption DEF Core, RecordsType, ThreadsType, Goto, At,
        osMutex, record, mainWait, environment, client
<1>1. ThreadOK(t)'
  BY RecordIsTrue DEF Poll, ThreadOK, OwnerOK, OtherOK, PlaceOK, SavedOK, InHand, RunLoop
<1>2. ASSUME NEW u \in Threads, u # t PROVE ThreadOK(u)'
  BY <1>2, RecordIsTrue, OtherThread DEF Poll, RunLoop
<1>3. RecordsType' /\ ThreadsType'
  BY RecordIsTrue DEF Poll, ThreadOK, OwnerOK, PlaceOK, PCs, Calls, RunLoop
<1>4. NoSignal' /\ Unowned'
  BY RecordIsTrue DEF Poll, NoSignal, Unowned, ThreadOK, OwnerOK, RunLoop
<1> QED
  BY <1>1, <1>2, <1>3, <1>4

(* Taking the mutex from the wait, or giving up after the shutdown. *)
LEMMA TryStep ==
    ASSUME Core, NEW t \in Threads, Try(t)
    PROVE  Core'
<1> USE ThreadAssumption DEF Core, RecordsType, ThreadsType, Goto, At,
        osMutex, record, mainWait, environment, client
<1>1. ThreadOK(t)'
  <2>1. owner # t /\ t = Main /\ (~isShutDown => held[t] = 0 /\ saved[t] = 0)
    BY RecordIsTrue DEF Try, ThreadOK, OwnerOK, OtherOK, SavedOK, PlaceOK,
         InHand, Unowned, TakeOsMutex
  <2>2. held' = held /\ saved' = saved /\ mnCount' = mnCount /\ mnThreadId' = mnThreadId /\ isShutDown' = isShutDown
    BY <2>1 DEF Try, TakeOsMutex
  <2>3. OwnerOK(t)'
    BY <2>1, <2>2, RecordIsTrue DEF Try, ThreadOK, OwnerOK, OtherOK, PlaceOK,
         InHand, Unowned, TakeOsMutex
  <2>4. OtherOK(t)'
    <3>1. /\ pc'[t] \in {"leave", "own", "loop"} /\ (pc'[t] = "leave" => isShutDown) /\ (isShutDown => isShutDown')
          /\ (pc'[t] = "own" => owner' = t)
          /\ ~isShutDown => held[t] = 0
      BY <2>1, <2>2 DEF ThreadOK, OtherOK, Try, TakeOsMutex
    <3> QED
      BY <2>1, <2>2, <3>1 DEF OtherOK
  <2>5. PlaceOK(t)'
    BY <2>1, <2>2 DEF ThreadOK, PlaceOK, Try, TakeOsMutex
  <2>6. SavedOK(t)'
    BY <2>1, <2>2, RecordIsTrue DEF Try, ThreadOK, OwnerOK, SavedOK, TakeOsMutex
  <2> QED
    BY <2>3, <2>4, <2>5, <2>6 DEF ThreadOK
<1>2. ASSUME NEW u \in Threads, u # t PROVE ThreadOK(u)'
  BY <1>2, RecordIsTrue, OtherThread DEF Try, TakeOsMutex
<1>3. RecordsType' /\ ThreadsType'
  BY RecordIsTrue DEF Try, ThreadOK, OwnerOK, PlaceOK, PCs, Calls, TakeOsMutex
<1>4. NoSignal' /\ Unowned'
  BY RecordIsTrue DEF Try, NoSignal, Unowned, ThreadOK, OwnerOK, TakeOsMutex
<1> QED
  BY <1>1, <1>2, <1>3, <1>4

(* The end of the wait. *)
LEMMA LeaveStep ==
    ASSUME Core, NEW t \in Threads, Leave(t)
    PROVE  Core'
<1> USE ThreadAssumption DEF Core, RecordsType, ThreadsType, Goto, At,
        osMutex, record, mainWait, environment, client
<1>1. ThreadOK(t)'
  BY RecordIsTrue DEF Leave, ThreadOK, OwnerOK, OtherOK, PlaceOK, SavedOK, InHand
<1>2. ASSUME NEW u \in Threads, u # t PROVE ThreadOK(u)'
  BY <1>2, RecordIsTrue, OtherThread DEF Leave
<1>3. RecordsType' /\ ThreadsType'
  BY RecordIsTrue DEF Leave, ThreadOK, OwnerOK, PlaceOK, PCs, Calls
<1>4. NoSignal' /\ Unowned'
  BY RecordIsTrue DEF Leave, NoSignal, Unowned, ThreadOK, OwnerOK
<1> QED
  BY <1>1, <1>2, <1>3, <1>4

(* From now on the client knows. *)
LEMMA ReturnStep ==
    ASSUME Core, NEW t \in Threads, Return(t)
    PROVE  Core'
<1> USE ThreadAssumption DEF Core, RecordsType, ThreadsType, Goto, At,
        osMutex, record, mainWait, environment, client
<1>1. ThreadOK(t)'
  BY RecordIsTrue DEF Return, ThreadOK, OwnerOK, OtherOK, PlaceOK, SavedOK,
       InHand, GivesBack
<1>2. ASSUME NEW u \in Threads, u # t PROVE ThreadOK(u)'
  BY <1>2, RecordIsTrue, OtherThread DEF Return, GivesBack
<1>3. RecordsType' /\ ThreadsType'
  BY RecordIsTrue DEF Return, ThreadOK, OwnerOK, PlaceOK, PCs, Calls, GivesBack
<1>4. NoSignal' /\ Unowned'
  BY RecordIsTrue DEF Return, NoSignal, Unowned, ThreadOK, OwnerOK, GivesBack
<1> QED
  BY <1>1, <1>2, <1>3, <1>4

(* The record goes first ... *)
LEMMA ReleaseStep ==
    ASSUME Core, NEW t \in Threads, Release(t)
    PROVE  Core'
<1> USE ThreadAssumption DEF Core, RecordsType, ThreadsType, Goto, At,
        osMutex, record, mainWait, environment, client
<1>1. ThreadOK(t)'
  BY RecordIsTrue DEF Release, ThreadOK, OwnerOK, OtherOK, PlaceOK, SavedOK, InHand
<1>2. ASSUME NEW u \in Threads, u # t PROVE ThreadOK(u)'
  BY <1>2, RecordIsTrue, OtherThread DEF Release
<1>3. RecordsType' /\ ThreadsType'
  BY RecordIsTrue DEF Release, ThreadOK, OwnerOK, PlaceOK, PCs, Calls
<1>4. NoSignal' /\ Unowned'
  BY RecordIsTrue DEF Release, NoSignal, Unowned, ThreadOK, OwnerOK
<1> QED
  BY <1>1, <1>2, <1>3, <1>4

(* ... and the mutex follows; releasing everything goes on as long as it is held. *)
LEMMA UnlockStep ==
    ASSUME Core, NEW t \in Threads, Unlock(t)
    PROVE  Core'
<1> USE ThreadAssumption DEF Core, RecordsType, ThreadsType, Goto, At,
        osMutex, record, mainWait, environment, client
<1>1. ThreadOK(t)'
  BY RecordIsTrue DEF Unlock, ThreadOK, OwnerOK, OtherOK, PlaceOK, SavedOK,
       InHand, Finish, AfterRelease
<1>2. ASSUME NEW u \in Threads, u # t PROVE ThreadOK(u)'
  BY <1>2, RecordIsTrue, OtherThread DEF Unlock, Finish, AfterRelease
<1>3. RecordsType' /\ ThreadsType'
  BY RecordIsTrue DEF Unlock, ThreadOK, OwnerOK, PlaceOK, PCs, Calls, Finish, AfterRelease
<1>4. NoSignal' /\ Unowned'
  BY RecordIsTrue DEF Unlock, NoSignal, Unowned, ThreadOK, OwnerOK, Finish, AfterRelease
<1> QED
  BY <1>1, <1>2, <1>3, <1>4

(* Waking the main thread. *)
LEMMA NotifyStep ==
    ASSUME Core, NEW t \in Threads, Notify(t)
    PROVE  Core'
<1> USE ThreadAssumption DEF Core, RecordsType, ThreadsType, Goto, At,
        osMutex, record, mainWait, environment, client
<1>1. ThreadOK(t)'
  BY RecordIsTrue DEF Notify, ThreadOK, OwnerOK, OtherOK, PlaceOK, SavedOK,
       InHand, Finish, AfterRelease
<1>2. ASSUME NEW u \in Threads, u # t PROVE ThreadOK(u)'
  BY <1>2, RecordIsTrue, OtherThread DEF Notify, Finish, AfterRelease
<1>3. RecordsType' /\ ThreadsType'
  BY RecordIsTrue DEF Notify, ThreadOK, OwnerOK, PlaceOK, PCs, Calls, Finish, AfterRelease
<1>4. NoSignal' /\ Unowned'
  BY RecordIsTrue DEF Notify, NoSignal, Unowned, ThreadOK, OwnerOK, Finish, AfterRelease
<1> QED
  BY <1>1, <1>2, <1>3, <1>4

(* A call of acquire changes nothing yet. *)
LEMMA CallAcquireStep ==
    ASSUME Core, NEW t \in Threads, CallAcquire(t)
    PROVE  Core'
<1> USE ThreadAssumption DEF Core, RecordsType, ThreadsType, Goto, At,
        osMutex, record, mainWait, environment, client
<1>1. ThreadOK(t)'
  BY RecordIsTrue DEF CallAcquire, ThreadOK, OwnerOK, OtherOK, PlaceOK, SavedOK,
       InHand, MayCall, CountOp
<1>2. ASSUME NEW u \in Threads, u # t PROVE ThreadOK(u)'
  BY <1>2, RecordIsTrue, OtherThread DEF CallAcquire, MayCall, CountOp
<1>3. RecordsType' /\ ThreadsType'
  BY RecordIsTrue DEF CallAcquire, ThreadOK, OwnerOK, PlaceOK, PCs, Calls, MayCall, CountOp
<1>4. NoSignal' /\ Unowned'
  BY RecordIsTrue DEF CallAcquire, NoSignal, Unowned, ThreadOK, OwnerOK, MayCall, CountOp
<1> QED
  BY <1>1, <1>2, <1>3, <1>4

(* The whole of tryToAcquire. *)
LEMMA TryToAcquireStep ==
    ASSUME Core, NEW t \in Threads, TryToAcquire(t)
    PROVE  Core'
<1> USE ThreadAssumption DEF Core, RecordsType, ThreadsType, Goto, At,
        osMutex, record, mainWait, environment, client
<1>1. ThreadOK(t)'
  <2>1. pc[t] = "idle" /\ saved[t] = 0 /\ held[t] = 0 /\ owner # t /\ pc' = pc
    BY RecordIsTrue DEF TryToAcquire, ThreadOK, OwnerOK, OtherOK, PlaceOK,
         InHand, Unowned, MayCall, CountOp, TakeOsMutex, RecordOwner
  <2>2. saved' = saved /\ op' = op
    BY <2>1 DEF TryToAcquire, MayCall, CountOp, TakeOsMutex, RecordOwner
  <2>3. OwnerOK(t)'
    BY <2>1, <2>2, RecordIsTrue DEF TryToAcquire, ThreadOK, OwnerOK, OtherOK,
         PlaceOK, InHand, Unowned, MayCall, CountOp, TakeOsMutex, RecordOwner
  <2>4. OtherOK(t)' /\ PlaceOK(t)'
    BY <2>1, <2>2, RecordIsTrue DEF TryToAcquire, ThreadOK, OwnerOK, OtherOK,
         PlaceOK, InHand, MayCall, CountOp, TakeOsMutex, RecordOwner
  <2>5. SavedOK(t)'
    BY <2>1, <2>2, RecordIsTrue DEF TryToAcquire, ThreadOK, OwnerOK, SavedOK,
         MayCall, CountOp, TakeOsMutex, RecordOwner
  <2> QED
    BY <2>3, <2>4, <2>5 DEF ThreadOK
<1>2. ASSUME NEW u \in Threads, u # t PROVE ThreadOK(u)'
  BY <1>2, RecordIsTrue, OtherThread DEF TryToAcquire, MayCall, CountOp,
       TakeOsMutex, RecordOwner
<1>3. RecordsType' /\ ThreadsType'
  BY RecordIsTrue DEF TryToAcquire, ThreadOK, OwnerOK, PlaceOK, PCs, Calls,
       MayCall, CountOp, TakeOsMutex, RecordOwner
<1>4. NoSignal' /\ Unowned'
  BY RecordIsTrue DEF TryToAcquire, NoSignal, Unowned, ThreadOK, OwnerOK,
       MayCall, CountOp, TakeOsMutex, RecordOwner
<1> QED
  BY <1>1, <1>2, <1>3, <1>4

(* A call of release is made by a client that has not released. *)
LEMMA CallReleaseStep ==
    ASSUME Core, NEW t \in Threads, CallRelease(t)
    PROVE  Core'
<1> USE ThreadAssumption DEF Core, RecordsType, ThreadsType, Goto, At,
        osMutex, record, mainWait, environment, client
<1>1. ThreadOK(t)'
  <2>1. held[t] > 0 /\ pc[t] = "idle"
    BY RecordIsTrue DEF CallRelease, ThreadOK, OwnerOK, OtherOK, PlaceOK,
         InHand, Unowned, MayCall
  <2>2. pc'[t] = "rel" /\ op'[t] = "release" /\ held' = held /\ saved' = saved /\ owner' = owner
    BY <2>1 DEF CallRelease, MayCall
  <2>3. OwnerOK(t)'
    BY <2>1, <2>2, RecordIsTrue DEF CallRelease, ThreadOK, OwnerOK, OtherOK,
         PlaceOK, InHand, Unowned, MayCall
  <2>4. OtherOK(t)'
    <3>1. /\ (isShutDown => isShutDown')
          /\ owner # t => t = Main /\ isShutDown
      BY <2>1, <2>2 DEF ThreadOK, OtherOK, CallRelease, MayCall
    <3> QED
      BY <2>1, <2>2, <3>1 DEF OtherOK
  <2>5. PlaceOK(t)'
    BY <2>1, <2>2 DEF ThreadOK, PlaceOK, CallRelease, MayCall
  <2>6. SavedOK(t)'
    BY <2>1, <2>2, RecordIsTrue DEF CallRelease, ThreadOK, OwnerOK, SavedOK, MayCall
  <2> QED
    BY <2>3, <2>4, <2>5, <2>6 DEF ThreadOK
<1>2. ASSUME NEW u \in Threads, u # t PROVE ThreadOK(u)'
  BY <1>2, RecordIsTrue, OtherThread DEF CallRelease, MayCall
<1>3. RecordsType' /\ ThreadsType'
  BY RecordIsTrue DEF CallRelease, ThreadOK, OwnerOK, PlaceOK, PCs, Calls, MayCall
<1>4. NoSignal' /\ Unowned'
  BY RecordIsTrue DEF CallRelease, NoSignal, Unowned, ThreadOK, OwnerOK, MayCall
<1> QED
  BY <1>1, <1>2, <1>3, <1>4

(* ReleaseYieldMutex is for the owner. *)
LEMMA CallReleaseAllStep ==
    ASSUME Core, NEW t \in Threads, CallReleaseAll(t)
    PROVE  Core'
<1> USE ThreadAssumption DEF Core, RecordsType, ThreadsType, Goto, At,
        osMutex, record, mainWait, environment, client
<1>1. ThreadOK(t)'
  BY RecordIsTrue DEF CallReleaseAll, ThreadOK, OwnerOK, OtherOK, PlaceOK,
       SavedOK, InHand, MayCall, CountOp, MayReleaseAll
<1>2. ASSUME NEW u \in Threads, u # t PROVE ThreadOK(u)'
  BY <1>2, RecordIsTrue, OtherThread DEF CallReleaseAll, MayCall, CountOp, MayReleaseAll
<1>3. RecordsType' /\ ThreadsType'
  BY RecordIsTrue DEF CallReleaseAll, ThreadOK, OwnerOK, PlaceOK, PCs, Calls,
       MayCall, CountOp, MayReleaseAll
<1>4. NoSignal' /\ Unowned'
  BY RecordIsTrue DEF CallReleaseAll, NoSignal, Unowned, ThreadOK, OwnerOK,
       MayCall, CountOp, MayReleaseAll
<1> QED
  BY <1>1, <1>2, <1>3, <1>4

(* AcquireYieldMutex begins with nothing in hand. *)
LEMMA CallAcquireAllStep ==
    ASSUME Core, NEW t \in Threads, CallAcquireAll(t)
    PROVE  Core'
<1> USE ThreadAssumption DEF Core, RecordsType, ThreadsType, Goto, At,
        osMutex, record, mainWait, environment, client
<1>1. ThreadOK(t)'
  BY RecordIsTrue DEF CallAcquireAll, ThreadOK, OwnerOK, OtherOK, PlaceOK,
       SavedOK, InHand, MayCall
<1>2. ASSUME NEW u \in Threads, u # t PROVE ThreadOK(u)'
  BY <1>2, RecordIsTrue, OtherThread DEF CallAcquireAll, MayCall
<1>3. RecordsType' /\ ThreadsType'
  BY RecordIsTrue DEF CallAcquireAll, ThreadOK, OwnerOK, PlaceOK, PCs, Calls, MayCall
<1>4. NoSignal' /\ Unowned'
  BY RecordIsTrue DEF CallAcquireAll, NoSignal, Unowned, ThreadOK, OwnerOK, MayCall
<1> QED
  BY <1>1, <1>2, <1>3, <1>4

(* A thread may wait with or without the lock. *)
LEMMA CallSelectorStep ==
    ASSUME Core, NEW t \in Threads, CallSelector(t)
    PROVE  Core'
<1> USE ThreadAssumption DEF Core, RecordsType, ThreadsType, Goto, At,
        osMutex, record, mainWait, environment, client
<1>1. ThreadOK(t)'
  BY RecordIsTrue DEF CallSelector, ThreadOK, OwnerOK, OtherOK, PlaceOK, SavedOK,
       InHand, MayCall, CountOp
<1>2. ASSUME NEW u \in Threads, u # t PROVE ThreadOK(u)'
  BY <1>2, RecordIsTrue, OtherThread DEF CallSelector, MayCall, CountOp
<1>3. RecordsType' /\ ThreadsType'
  BY RecordIsTrue DEF CallSelector, ThreadOK, OwnerOK, PlaceOK, PCs, Calls, MayCall, CountOp
<1>4. NoSignal' /\ Unowned'
  BY RecordIsTrue DEF CallSelector, NoSignal, Unowned, ThreadOK, OwnerOK, MayCall, CountOp
<1> QED
  BY <1>1, <1>2, <1>3, <1>4

(* The steps that belong to no thread's call. *)
LEMMA RestStep ==
    ASSUME Core, MainRunLoop \/ ShutDown \/ UNCHANGED vars
    PROVE  Core'
<1> USE DEF MainRunLoop, ShutDown, vars, RunLoop, At, osMutex, record, mainWait,
     environment, client
<1>1. ASSUME NEW t \in Threads PROVE ThreadOK(t)'
  <2>1. /\ ThreadOK(t) /\ pc' = pc /\ op' = op /\ held' = held /\ saved' = saved
        /\ owner' = owner /\ depth' = depth /\ mnCount' = mnCount /\ mnThreadId' = mnThreadId
    BY DEF Core
  <2>2. isShutDown => isShutDown'
    OBVIOUS
  <2> QED
    BY <2>1, <2>2, OtherThread
<1>2. RecordsType' /\ ThreadsType'
  BY DEF Core, RecordsType, ThreadsType
<1>3. NoSignal' /\ Unowned'
  BY DEF Core, NoSignal, Unowned
<1> QED
  BY <1>1, <1>2, <1>3 DEF Core

(* Until the signal comes no step of the handler is enabled. *)
LEMMA NoSignalStep ==
    ASSUME signalled' = NoThread, Core, NEW t \in Threads
    PROVE  ~SignalBegin(t) /\ ~SignalTry(t)
  BY ThreadAssumption DEF Core, NoSignal, SignalBegin, SignalTry, At

(* The kinds of steps there are when no handler runs. *)
LEMMA NextCases ==
    ASSUME signalled' = NoThread, Core, [Next]_vars
    PROVE  \/ \E t \in Threads :
                 \/ Enter(t) \/ Lock(t) \/ Own(t) \/ Loop(t) \/ Poll(t) \/ Try(t) \/ Leave(t)
                 \/ Return(t) \/ Release(t) \/ Unlock(t) \/ Notify(t)
                 \/ CallAcquire(t) \/ TryToAcquire(t) \/ CallRelease(t) \/ CallReleaseAll(t)
                 \/ CallAcquireAll(t) \/ CallSelector(t)
           \/ MainRunLoop \/ ShutDown \/ UNCHANGED vars
  BY NoSignalStep DEF Next, Step, Call, Done

LEMMA CoreStep ==
    ASSUME signalled' = NoThread, Core, [Next]_vars
    PROVE  Core'
  BY NextCases, RestStep, EnterStep, LockStep, OwnStep, LoopStep, PollStep,
       TryStep, LeaveStep, ReturnStep, ReleaseStep, UnlockStep, NotifyStep,
       CallAcquireStep, TryToAcquireStep, CallReleaseStep, CallReleaseAllStep,
       CallAcquireAllStep, CallSelectorStep

(* The flags stay Boolean. *)
LEMMA FlagsStep ==
    ASSUME signalled' = NoThread, Core, FlagsType, [Next]_vars
    PROVE  FlagsType'
<1> USE DEF FlagsType, osMutex, record, mainWait, environment, client
<1>1. ASSUME NEW t \in Threads, Enter(t) \/ Lock(t) \/ Own(t) \/ Loop(t) \/ Poll(t) \/ Try(t) \/ Leave(t)
      PROVE  FlagsType'
  BY <1>1 DEF Enter, Lock, Own, RecordOwner, Loop, Poll, Try, Leave
<1>2. ASSUME NEW t \in Threads, Return(t) \/ Release(t) \/ Unlock(t) \/ Notify(t)
      PROVE  FlagsType'
  BY <1>2 DEF Return, Release, Unlock, Notify
<1>3. ASSUME NEW t \in Threads, CallAcquire(t) \/ TryToAcquire(t) \/ CallRelease(t) \/ CallReleaseAll(t)
                                \/ CallAcquireAll(t) \/ CallSelector(t)
      PROVE  FlagsType'
  BY <1>3 DEF CallAcquire, TryToAcquire, RecordOwner, CallRelease,
       CallReleaseAll, CallAcquireAll, CallSelector
<1>4. CASE MainRunLoop \/ ShutDown \/ UNCHANGED vars
  BY <1>4 DEF MainRunLoop, ShutDown, vars
<1> QED
  BY <1>1, <1>2, <1>3, <1>4, NextCases

(* The main thread's drag locks stay below what it holds. *)
LEMMA DragStep ==
    ASSUME signalled' = NoThread, Core, DragOK, [Next]_vars
    PROVE  DragOK'
<1> USE ThreadAssumption DEF DragOK, Goto, At, osMutex, record, client
<1>0. /\ ThreadOK(Main) /\ nInNativeDragPrint \in Nat /\ held \in [Threads -> Nat]
      /\ pc \in [Threads -> PCs] /\ op \in [Threads -> Calls]
  BY DEF Core, RecordsType, ThreadsType
<1>1. ASSUME NEW t \in Threads, Enter(t) PROVE DragOK'
  BY <1>0, <1>1 DEF Enter
<1>2. ASSUME NEW t \in Threads, Lock(t) PROVE DragOK'
  BY <1>0, <1>2 DEF Lock, TakeOsMutex
<1>3. ASSUME NEW t \in Threads, Own(t) PROVE DragOK'
  BY <1>0, <1>3 DEF Own, RecordOwner
<1>4. ASSUME NEW t \in Threads, Loop(t) PROVE DragOK'
  BY <1>0, <1>4 DEF Loop
<1>5. ASSUME NEW t \in Threads, Poll(t) PROVE DragOK'
  BY <1>0, <1>5 DEF Poll
<1>6. ASSUME NEW t \in Threads, Try(t) PROVE DragOK'
  BY <1>0, <1>6 DEF Try, TakeOsMutex
<1>7. ASSUME NEW t \in Threads, Leave(t) PROVE DragOK'
  BY <1>0, <1>7 DEF Leave
<1>8. ASSUME NEW t \in Threads, Return(t) PROVE DragOK'
  <2>1. (op[t] = "dragLock" => t = Main) /\ (pc[Main] = "ret" /\ ~isShutDown => owner = Main)
    BY <1>8 DEF Core, ThreadOK, PlaceOK, OtherOK
  <2> QED
    BY <1>0, <1>8, <2>1 DEF GivesBack, Return
<1>9. ASSUME NEW t \in Threads, Release(t) PROVE DragOK'
  BY <1>0, <1>9 DEF Release
<1>10. ASSUME NEW t \in Threads, Unlock(t) PROVE DragOK'
  BY <1>0, <1>10 DEF ThreadOK, OwnerOK, InHand, Unlock, Finish, AfterRelease
<1>11. ASSUME NEW t \in Threads, Notify(t) PROVE DragOK'
  BY <1>0, <1>11 DEF Notify, Finish, AfterRelease
<1>12. ASSUME NEW t \in Threads, CallAcquire(t) PROVE DragOK'
  BY <1>0, <1>12 DEF CallAcquire, MayCall
<1>13. ASSUME NEW t \in Threads, TryToAcquire(t) PROVE DragOK'
  BY <1>0, <1>13 DEF TryToAcquire, TakeOsMutex, RecordOwner
<1>14. ASSUME NEW t \in Threads, CallRelease(t) PROVE DragOK'
  BY <1>0, <1>14 DEF CallRelease, MayCall
<1>15. ASSUME NEW t \in Threads, CallReleaseAll(t) PROVE DragOK'
  BY <1>0, <1>15 DEF CallReleaseAll, MayCall, MayReleaseAll
<1>16. ASSUME NEW t \in Threads, CallAcquireAll(t) PROVE DragOK'
  BY <1>0, <1>16 DEF CallAcquireAll, MayCall
<1>17. ASSUME NEW t \in Threads, CallSelector(t) PROVE DragOK'
  BY <1>0, <1>17 DEF CallSelector, MayCall
<1>18. CASE MainRunLoop \/ ShutDown \/ UNCHANGED vars
  BY <1>18 DEF MainRunLoop, ShutDown, vars, osMutex, record, client
<1> QED
  BY NextCases, <1>1, <1>2, <1>3, <1>4, <1>5, <1>6, <1>7, <1>8, <1>9, <1>10,
       <1>11, <1>12, <1>13, <1>14, <1>15, <1>16, <1>17, <1>18

(* Priority is taken with ReleaseYieldMutex and given up with the first acquire
   that follows. *)
LEMMA PriorityStep ==
    ASSUME signalled' = NoThread, Core, PriorityOK, [Next]_vars
    PROVE  PriorityOK'
<1> USE ThreadAssumption DEF PriorityOK, Goto, At, osMutex, record, client
<1>0. /\ mnReacquireThreadId \in Threads \cup {NoThread} /\ saved \in [Threads -> Nat]
      /\ pc \in [Threads -> PCs] /\ op \in [Threads -> Calls] /\ mnCount \in Nat
      /\ signalled = NoThread
  BY DEF Core, NoSignal, RecordsType, ThreadsType
<1>1. ASSUME NEW t \in Threads, Enter(t) PROVE PriorityOK'
  BY <1>0, <1>1 DEF Enter
<1>2. ASSUME NEW t \in Threads, Lock(t) PROVE PriorityOK'
  BY <1>0, <1>2 DEF Lock, TakeOsMutex
<1>3. ASSUME NEW t \in Threads, Own(t) PROVE PriorityOK'
  BY <1>0, <1>3 DEF Own, RecordOwner
<1>4. ASSUME NEW t \in Threads, Loop(t) PROVE PriorityOK'
  BY <1>0, <1>4 DEF Loop
<1>5. ASSUME NEW t \in Threads, Poll(t) PROVE PriorityOK'
  BY <1>0, <1>5 DEF Poll
<1>6. ASSUME NEW t \in Threads, Try(t) PROVE PriorityOK'
  BY <1>0, <1>6 DEF Try, TakeOsMutex
<1>7. ASSUME NEW t \in Threads, Leave(t) PROVE PriorityOK'
  BY <1>0, <1>7 DEF Leave
<1>8. ASSUME NEW t \in Threads, Return(t) PROVE PriorityOK'
  BY <1>0, <1>8 DEF Return
<1>9. ASSUME NEW t \in Threads, Release(t) PROVE PriorityOK'
  BY <1>0, <1>9 DEF Release
<1>10. ASSUME NEW t \in Threads, Unlock(t) PROVE PriorityOK'
  BY <1>0, <1>10 DEF Unlock, Finish, AfterRelease
<1>11. ASSUME NEW t \in Threads, Notify(t) PROVE PriorityOK'
  BY <1>0, <1>11 DEF Notify, Finish, AfterRelease
<1>12. ASSUME NEW t \in Threads, CallAcquire(t) PROVE PriorityOK'
  BY <1>0, <1>12 DEF CallAcquire, MayCall
<1>13. ASSUME NEW t \in Threads, TryToAcquire(t) PROVE PriorityOK'
  BY <1>0, <1>13 DEF TryToAcquire, TakeOsMutex, RecordOwner
<1>14. ASSUME NEW t \in Threads, CallRelease(t) PROVE PriorityOK'
  BY <1>0, <1>14 DEF CallRelease, MayCall
<1>15. ASSUME NEW t \in Threads, CallReleaseAll(t) PROVE PriorityOK'
  BY <1>0, <1>15 DEF CallReleaseAll, MayCall, MayReleaseAll
<1>16. ASSUME NEW t \in Threads, CallAcquireAll(t) PROVE PriorityOK'
  BY <1>0, <1>16 DEF CallAcquireAll, MayCall
<1>17. ASSUME NEW t \in Threads, CallSelector(t) PROVE PriorityOK'
  BY <1>0, <1>17 DEF CallSelector, MayCall
<1>18. CASE MainRunLoop \/ ShutDown \/ UNCHANGED vars
  BY <1>18 DEF MainRunLoop, ShutDown, vars, osMutex, record, client
<1> QED
  BY NextCases, <1>1, <1>2, <1>3, <1>4, <1>5, <1>6, <1>7, <1>8, <1>9, <1>10,
       <1>11, <1>12, <1>13, <1>14, <1>15, <1>16, <1>17, <1>18

-----------------------------------------------------------------------------

LEMMA InitIInv == Init => IInv
<1> SUFFICES ASSUME Init PROVE IInv
  OBVIOUS
<1>1. FlagsType
  BY DEF Init, FlagsType
<1>2. RecordsType /\ ThreadsType
  BY DEF Init, RecordsType, ThreadsType, PCs, Calls
<1>3. NoSignal /\ Unowned /\ DragOK /\ PriorityOK
  BY DEF Init, NoSignal, Unowned, DragOK, PriorityOK
<1>4. ASSUME NEW t \in Threads PROVE ThreadOK(t)
  BY ThreadAssumption DEF Init, ThreadOK, OwnerOK, OtherOK, PlaceOK, SavedOK
<1> QED
  BY <1>1, <1>2, <1>3, <1>4 DEF IInv, Core

(* The handler is entered once and not left. *)
LEMMA SignalStays ==
    ASSUME [Next]_vars
    PROVE  /\ signalled' = NoThread => signalled = NoThread
           /\ ~MaySignal => signalled' = signalled
<1> USE DEF environment
<1>1. ASSUME NEW t \in Threads, Step(t) PROVE signalled' = signalled
  BY <1>1 DEF Step, Enter, SignalTry, Lock, Own, Loop, Poll, Try, Leave, Return,
       Release, Unlock, Notify
<1>2. ASSUME NEW t \in Threads, Call(t), ~SignalBegin(t) PROVE signalled' = signalled
  BY <1>2 DEF Call, CallAcquire, TryToAcquire, CallRelease, CallReleaseAll,
       CallAcquireAll, CallSelector
<1>3. ASSUME NEW t \in Threads, SignalBegin(t) PROVE signalled = NoThread /\ MaySignal
  BY <1>3 DEF SignalBegin
<1>4. CASE MainRunLoop \/ ShutDown \/ Done \/ UNCHANGED vars
  BY <1>4 DEF MainRunLoop, ShutDown, Done, vars
<1> QED
  BY <1>1, <1>2, <1>3, <1>4 DEF Next

(* Until the signal comes, the invariant holds. *)
LEMMA IInvHolds == Spec => [](signalled = NoThread => IInv)
<1>1. (signalled = NoThread => IInv) /\ [Next]_vars => (signalled = NoThread => IInv)'
  BY SignalStays, CoreStep, FlagsStep, DragStep, PriorityStep DEF IInv
<1> QED
  BY <1>1, InitIInv, PTL DEF Spec

-----------------------------------------------------------------------------

(* What remains of the invariant when a thread has stopped in the signal
   handler: the counts are those of somebody, ... *)
Counted ==
    /\ owner # NoThread => depth > 0
    /\ mnThreadId # NoThread => mnCount > 0

(* ... and the handler goes to the mutex only when it has it already, from the
   call it interrupted or because its own try succeeded. *)
HandlerOK(t) == op[t] = "signal" =>
    /\ t = signalled /\ todo[t] = 1
    /\ pc[t] \in {"enter", "sigTry", "lock", "own", "loop", "poll", "try", "leave", "ret"}
    /\ pc[t] \in {"lock", "own", "loop", "poll", "try"} => owner = t
    /\ pc[t] = "enter" /\ mnThreadId = t => owner = t

AnyTime == TypeOK /\ Counted /\ \A t \in Threads : HandlerOK(t)

LEMMA InitAnyTime == Init => AnyTime
<1> SUFFICES ASSUME Init PROVE AnyTime
  OBVIOUS
<1>1. TypeOK
  BY DEF Init, TypeOK, PCs, Calls
<1>2. Counted /\ \A t \in Threads : HandlerOK(t)
  BY DEF Init, Counted, HandlerOK
<1> QED
  BY <1>1, <1>2 DEF AnyTime

(* A client that releases has something to release, as far as it knows. *)
LEMMA ReleaseHolds ==
    ASSUME signalled = NoThread => IInv, NEW t \in Threads, Release(t)
    PROVE  signalled = NoThread => held[t] > 0
  BY DEF IInv, Core, ThreadOK, PlaceOK, Release, At

(* Recording an owner, whoever it is. *)
LEMMA Recorded ==
    ASSUME TypeOK, NEW t \in Threads, RecordOwner(t)
    PROVE  /\ mnThreadId' = t /\ mnCount' \in Nat /\ mnCount' > 0
           /\ mnReacquireThreadId' \in Threads \cup {NoThread}
           /\ maReacquireThreadCondition' \in BOOLEAN
<1>1. mnThreadId' = t /\ mnCount' \in Nat /\ mnCount' > 0
  BY DEF TypeOK, RecordOwner
<1>2. mnReacquireThreadId' \in Threads \cup {NoThread}
  BY DEF TypeOK, RecordOwner
<1>3. maReacquireThreadCondition' \in BOOLEAN
  BY Zenon DEF TypeOK, RecordOwner
<1> QED
  BY <1>1, <1>2, <1>3

(* Taking maMutex. *)
LEMMA Taken ==
    ASSUME TypeOK, NEW t \in Threads, TakeOsMutex(t)
    PROVE  owner' = t /\ depth' \in Nat /\ depth' > 0
  BY DEF TypeOK, TakeOsMutex

(* Every step keeps the types and the counts, whoever has stopped where. *)
LEMMA AnyTimeType ==
    ASSUME AnyTime, signalled = NoThread => IInv, [Next]_vars
    PROVE  TypeOK' /\ Counted'
<1> USE ThreadAssumption DEF AnyTime, Counted, TypeOK, Goto, At, osMutex, record, mainWait,
     environment, client
<1>1. ASSUME NEW t \in Threads, Enter(t) PROVE TypeOK' /\ Counted'
  BY <1>1 DEF Enter, PCs
<1>2. ASSUME NEW t \in Threads, SignalTry(t) PROVE TypeOK' /\ Counted'
  <2>1. /\ owner' \in Threads \cup {NoThread} /\ depth' \in Nat
        /\ mnThreadId' \in Threads \cup {NoThread} /\ mnCount' \in Nat
        /\ mnReacquireThreadId' \in Threads \cup {NoThread} /\ Counted'
    BY <1>2, Recorded, Taken DEF SignalTry
  <2>2. maReacquireThreadCondition' \in BOOLEAN
    BY <1>2, Recorded, Zenon DEF SignalTry
  <2>3. maMainThreadWaitingCondition' \in BOOLEAN
    BY <1>2, Zenon DEF SignalTry
  <2>4. pc' \in [Threads -> PCs]
    BY <1>2 DEF SignalTry, PCs
  <2> QED
    BY <1>2, <2>1, <2>2, <2>3, <2>4 DEF SignalTry
<1>3. ASSUME NEW t \in Threads, Lock(t) PROVE TypeOK' /\ Counted'
  BY <1>3 DEF Lock, TakeOsMutex, PCs
<1>4. ASSUME NEW t \in Threads, Own(t) PROVE TypeOK' /\ Counted'
  <2>1. pc' \in [Threads -> PCs]
    BY <1>4 DEF Own, PCs
  <2> QED
    BY <1>4, <2>1, Recorded DEF Own
<1>5. ASSUME NEW t \in Threads, Loop(t) PROVE TypeOK' /\ Counted'
  BY <1>5 DEF Loop, PCs
<1>6. ASSUME NEW t \in Threads, Poll(t) PROVE TypeOK' /\ Counted'
  BY <1>6 DEF Poll, RunLoop, PCs
<1>7. ASSUME NEW t \in Threads, Try(t) PROVE TypeOK' /\ Counted'
  BY <1>7 DEF Try, TakeOsMutex, PCs
<1>8. ASSUME NEW t \in Threads, Leave(t) PROVE TypeOK' /\ Counted'
  BY <1>8 DEF Leave, PCs
<1>9. ASSUME NEW t \in Threads, Return(t) PROVE TypeOK' /\ Counted'
  BY <1>9 DEF Return, GivesBack, PCs, Calls
<1>10. ASSUME NEW t \in Threads, Release(t) PROVE TypeOK' /\ Counted'
  <2>1. held' \in [Threads -> Nat]
    <3>1. held[t] \in Nat /\ (held[t] = 0 => signalled # NoThread)
      BY <1>10, ReleaseHolds
    <3>2. (IF held[t] = 0 /\ signalled # NoThread THEN 0 ELSE held[t] - 1) \in Nat
      BY <3>1
    <3> QED
      BY <1>10, <3>2 DEF Release
  <2>2. mnCount' \in Nat /\ mnThreadId' \in Threads \cup {NoThread} /\ Counted'
    BY <1>10 DEF Release
  <2> QED
    BY <1>10, <2>1, <2>2 DEF Release, PCs
<1>11. ASSUME NEW t \in Threads, Unlock(t) PROVE TypeOK' /\ Counted'
  BY <1>11 DEF Unlock, Finish, AfterRelease, PCs, Calls
<1>12. ASSUME NEW t \in Threads, Notify(t) PROVE TypeOK' /\ Counted'
  BY <1>12 DEF Notify, Finish, AfterRelease, PCs, Calls
<1>13. ASSUME NEW t \in Threads, CallAcquire(t) PROVE TypeOK' /\ Counted'
  BY <1>13, BoundAssumption DEF CallAcquire, CountOp, PCs, Calls
<1>14. ASSUME NEW t \in Threads, TryToAcquire(t) PROVE TypeOK' /\ Counted'
  <2>1. ops' \in Nat /\ held' \in [Threads -> Nat]
    BY <1>14, BoundAssumption DEF TryToAcquire, CountOp
  <2>2. CASE TakeOsMutex(t) /\ RecordOwner(t)
    BY <1>14, <2>1, <2>2, Recorded, Taken DEF TryToAcquire
  <2>3. CASE UNCHANGED <<osMutex, record, held>>
    BY <1>14, <2>1, <2>3 DEF TryToAcquire
  <2> QED
    BY <1>14, <2>2, <2>3 DEF TryToAcquire
<1>15. ASSUME NEW t \in Threads, CallRelease(t) PROVE TypeOK' /\ Counted'
  BY <1>15 DEF CallRelease, PCs, Calls
<1>16. ASSUME NEW t \in Threads, CallReleaseAll(t) PROVE TypeOK' /\ Counted'
  <2>1. ops' \in Nat /\ saved' \in [Threads -> Nat]
    BY <1>16, BoundAssumption DEF CallReleaseAll, CountOp
  <2>2. mnReacquireThreadId' \in Threads \cup {NoThread}
    BY <1>16 DEF CallReleaseAll
  <2>3. maReacquireThreadCondition' \in BOOLEAN
    BY <1>16, Zenon DEF CallReleaseAll
  <2>4. pc' \in [Threads -> PCs] /\ op' \in [Threads -> Calls]
    BY <1>16 DEF CallReleaseAll, PCs, Calls
  <2> QED
    BY <1>16, <2>1, <2>2, <2>3, <2>4 DEF CallReleaseAll
<1>17. ASSUME NEW t \in Threads, CallAcquireAll(t) PROVE TypeOK' /\ Counted'
  BY <1>17 DEF CallAcquireAll, PCs, Calls
<1>18. ASSUME NEW t \in Threads, CallSelector(t) PROVE TypeOK' /\ Counted'
  BY <1>18, BoundAssumption DEF CallSelector, CountOp
<1>19. ASSUME NEW t \in Threads, SignalBegin(t) PROVE TypeOK' /\ Counted'
  BY <1>19, BoundAssumption DEF SignalBegin, CountOp, PCs, Calls
<1>20. CASE MainRunLoop \/ ShutDown \/ Done \/ UNCHANGED vars
  BY <1>20 DEF MainRunLoop, RunLoop, ShutDown, Done, vars
<1> QED
  BY <1>1, <1>2, <1>3, <1>4, <1>5, <1>6, <1>7, <1>8, <1>9, <1>10, <1>11, <1>12, <1>13,
     <1>14, <1>15, <1>16, <1>17, <1>18, <1>19, <1>20 DEF Next, Step, Call

(* No step takes the mutex from the thread that has it, or makes another thread
   the recorded one without that thread. *)
LEMMA OthersLeaveIt ==
    ASSUME AnyTime, NEW t \in Threads, NEW u \in Threads, u # t, Step(u) \/ Call(u)
    PROVE  /\ pc'[t] = pc[t] /\ op'[t] = op[t] /\ todo'[t] = todo[t]
           /\ owner = t => owner' = t
           /\ mnThreadId' = t => mnThreadId = t
<1> USE ThreadAssumption DEF AnyTime, TypeOK, Goto, At, osMutex, record, client
<1>1. CASE Enter(u) \/ SignalTry(u) \/ Lock(u) \/ Own(u)
  BY <1>1 DEF Enter, SignalTry, TakeOsMutex, RecordOwner, Lock, Own
<1>2. CASE Loop(u) \/ Poll(u) \/ Try(u) \/ Leave(u)
  BY <1>2 DEF Loop, Poll, RunLoop, Try, TakeOsMutex, Leave
<1>3. CASE Return(u)
  BY <1>3 DEF Return
<1>4. CASE Release(u) \/ Unlock(u) \/ Notify(u)
  BY <1>4 DEF Release, Unlock, Notify, Finish
<1>5. CASE Call(u)
  BY <1>5 DEF Call, CallAcquire, TryToAcquire, TakeOsMutex, RecordOwner, CallRelease,
       CallReleaseAll, CallAcquireAll, CallSelector, SignalBegin
<1> QED
  BY <1>1, <1>2, <1>3, <1>4, <1>5 DEF Step

(* The handler's own steps. *)
LEMMA HandlerStep ==
    ASSUME AnyTime, signalled = NoThread => IInv, NEW t \in Threads, Step(t) \/ Call(t)
    PROVE  HandlerOK(t)'
<1> USE ThreadAssumption DEF AnyTime, TypeOK, HandlerOK, Goto, At, osMutex, record, mainWait,
     environment, client
<1>1. CASE Enter(t) \/ SignalTry(t) \/ Lock(t) \/ Own(t)
  BY <1>1 DEF Enter, SignalTry, TakeOsMutex, RecordOwner, Lock, Own
<1>2. CASE Loop(t) \/ Poll(t) \/ Try(t) \/ Leave(t) \/ Return(t)
  BY <1>2 DEF Loop, Poll, RunLoop, Try, TakeOsMutex, Leave, Return, GivesBack
<1>3. CASE Release(t) \/ Unlock(t) \/ Notify(t)
  BY <1>3 DEF Release, Unlock, Notify, Finish
<1>4. CASE Call(t) /\ ~SignalBegin(t)
  BY <1>4 DEF Call, CallAcquire, TryToAcquire, TakeOsMutex, RecordOwner, CallRelease,
       CallReleaseAll, CallAcquireAll, CallSelector, MayCall
<1>5. CASE SignalBegin(t)
  <2>1. mnThreadId = t => owner = t
    BY <1>5, RecordIsTrue DEF SignalBegin, IInv
  <2> QED
    BY <1>5, <2>1 DEF SignalBegin
<1> QED
  BY <1>1, <1>2, <1>3, <1>4, <1>5 DEF Step

LEMMA AnyTimeStep ==
    ASSUME AnyTime, signalled = NoThread => IInv, [Next]_vars
    PROVE  AnyTime'
<1>1. TypeOK' /\ Counted'
  BY AnyTimeType
<1>2. ASSUME NEW t \in Threads PROVE HandlerOK(t)'
  <2>1. op[t] = "signal" => signalled' = signalled
    BY ThreadAssumption, SignalStays DEF AnyTime, HandlerOK, Next, Step, Call, SignalBegin,
       Enter, SignalTry, Lock, Own, Loop, Poll, Try, Leave, Return, Release, Unlock, Notify,
       CallAcquire, TryToAcquire, CallRelease, CallReleaseAll, CallAcquireAll, CallSelector,
       MainRunLoop, ShutDown, Done, vars, environment
  <2>2. CASE Step(t) \/ Call(t)
    BY <2>2, HandlerStep
  <2>3. ASSUME NEW u \in Threads, u # t, Step(u) \/ Call(u) PROVE HandlerOK(t)'
    BY <2>1, <2>3, OthersLeaveIt DEF AnyTime, HandlerOK
  <2>4. CASE MainRunLoop \/ ShutDown \/ Done \/ UNCHANGED vars
    BY <2>4 DEF AnyTime, HandlerOK, MainRunLoop, ShutDown, Done, vars, osMutex, record,
         environment, client
  <2> QED
    BY <2>2, <2>3, <2>4 DEF Next
<1> QED
  BY <1>1, <1>2 DEF AnyTime

LEMMA AnyTimeHolds == Spec => []AnyTime
  BY IInvHolds, InitAnyTime, AnyTimeStep, PTL DEF Spec

(* Type correctness, before and after a signal; in particular neither a count of
   SalYieldMutex nor one of its clients ever becomes negative. *)
THEOREM TypeCorrect == Spec => []TypeOK
  BY AnyTimeHolds, PTL DEF AnyTime

(* The signal handler gets the lock only where nobody has to give it up first:
   past its tryToAcquire it owns maMutex, so neither maMutex.acquire nor the main
   thread's wait can keep Desktop::Exception from saving the documents. *)
THEOREM HandlerGoesOn == Spec => []HandlerNeverBlocks
<1>1. AnyTime => HandlerNeverBlocks
  BY DEF AnyTime, HandlerOK, HandlerNeverBlocks
<1> QED
  BY <1>1, AnyTimeHolds, PTL

(* SalYieldMutex excludes: a client that has come back from acquire, however it
   got the lock (blocking, polling, trying, reacquiring), owns maMutex, unless
   it is the main thread after the shutdown or a signal handler runs; and
   ReleaseYieldMutex gives the mutex back in whatever depth it was held. *)
THEOREM MutualExclusion == Spec => []OwnedIffHeld
<1>1. (signalled = NoThread => IInv) => OwnedIffHeld
  <2>1. ASSUME NEW t \in Threads, held[t] > 0, ~GaveUp(t), signalled = NoThread => IInv
        PROVE  owner = t
    BY <2>1 DEF IInv, Core, ThreadOK, OtherOK, GaveUp
  <2>2. ASSUME NEW t \in Threads, saved[t] > 0, At(t, "idle"), signalled = NoThread,
               signalled = NoThread => IInv
        PROVE  owner # t /\ held[t] = 0
    BY <2>2 DEF IInv, Core, ThreadOK, SavedOK, At
  <2> QED
    BY <2>1, <2>2 DEF OwnedIffHeld
<1> QED
  BY <1>1, IInvHolds, PTL

(* mnThreadId and mnCount, by which acquire and ReleaseAcquireCount decide,
   agree with the mutex. *)
THEOREM RecordAgrees == Spec => []CountsAgree
<1>1. (signalled = NoThread => IInv) => CountsAgree
  BY DEF IInv, Core, Unowned, ThreadOK, OwnerOK, CountsAgree
<1> QED
  BY <1>1, IInvHolds, PTL

(* The thread for which every other one steps back does want the lock. *)
THEOREM PriorityWanted == Spec => []PriorityIsWanted
<1>1. (signalled = NoThread => IInv) => PriorityIsWanted
  BY DEF IInv, PriorityOK, PriorityIsWanted
<1> QED
  BY <1>1, IInvHolds, PTL

(* During a native drag or print the main thread never lets go of the lock. *)
THEOREM DragKeeps == Spec => []DragKeepsLock
<1>1. (signalled = NoThread => IInv) => DragKeepsLock
  <2> SUFFICES ASSUME IInv, nInNativeDragPrint > 0 PROVE owner = Main /\ depth >= nInNativeDragPrint
    BY DEF DragKeepsLock
  <2>1. /\ owner = Main /\ held[Main] >= nInNativeDragPrint /\ held[Main] \in Nat /\ nInNativeDragPrint \in Nat
    BY ThreadAssumption DEF IInv, DragOK, Core, RecordsType, ThreadsType
  <2>2. depth >= held[Main]
    BY <2>1, ThreadAssumption DEF IInv, Core, ThreadOK, OwnerOK, InHand
  <2> QED
    BY <2>1, <2>2 DEF IInv, Core, RecordsType
<1> QED
  BY <1>1, IInvHolds, PTL

=============================================================================
