---------------------------- MODULE SolarMutex ----------------------------
(***************************************************************************)
(* The application lock of NeoOffice: class SalYieldMutex of               *)
(* vcl/java/source/app/salinst.mm and the functions through which the rest *)
(* of the office uses it.  Three kinds of threads meet here: the macOS main*)
(* thread, which must go on running its run loop while it waits for the    *)
(* lock, the other threads, which may block in                             *)
(* performSelectorOnMainThread while they hold the lock, and a thread that *)
(* has stopped in a signal handler.                                        *)
(*                                                                         *)
(* Every timed wait of the code (10 microseconds) may return at any moment,*)
(* so it is not a step of its own: the thread just takes its next step     *)
(* later.  The conditions it waits on are kept as state.                   *)
(***************************************************************************)
EXTENDS Naturals, FiniteSets

CONSTANTS Threads,     \* every thread of the process
          Main,        \* the macOS main thread
          NoThread,    \* the thread identifier 0
          MaxOps,      \* bound: outermost operations all threads make together
          MaxDepth,    \* bound: nested acquires a client makes
          MayShutDown, \* whether Application::Quit may happen
          MaySignal    \* whether a thread may enter the signal handler

ASSUME ThreadAssumption == /\ Main \in Threads
                           /\ NoThread \notin Threads
ASSUME BoundAssumption == MaxOps \in Nat /\ MaxDepth \in Nat

VARIABLES owner, depth,          \* maMutex, a recursive osl::Mutex
          mnThreadId, mnCount,   \* what SalYieldMutex records about it
          mnReacquireThreadId,
          maReacquireThreadCondition,
          maMainThreadCondition,
          maMainThreadWaitingCondition,
          isShutDown,            \* Application::IsShutDown()
          signalled,             \* the thread in the handler; mbInSignalHandler
          nInNativeDragPrint,
          posted,                \* threads blocked in performSelectorOnMainThread
          pc, op,                \* where each thread is, and in which call
          held,                  \* acquires its client has made and not released
          saved,                 \* what ReleaseYieldMutex returned to it
          todo,                  \* acquires AcquireYieldMutex has still to make
          ops

osMutex == <<owner, depth>>
record == <<mnThreadId, mnCount, mnReacquireThreadId, maReacquireThreadCondition>>
mainWait == <<maMainThreadCondition, maMainThreadWaitingCondition>>
environment == <<isShutDown, signalled>>
client == <<held, saved, todo, ops, nInNativeDragPrint, posted>>
vars == <<osMutex, record, mainWait, environment, client, pc, op>>

Calls == {"none", "acquire", "release", "releaseAll", "acquireAll", "dragLock",
          "signal"}
PCs == {"idle", "enter", "sigTry", "lock", "own", "loop", "poll", "try",
        "leave", "ret", "rel", "unlock", "unlockNotify", "notify"}

TypeOK ==
    /\ owner \in Threads \cup {NoThread} /\ depth \in Nat
    /\ mnThreadId \in Threads \cup {NoThread} /\ mnCount \in Nat
    /\ mnReacquireThreadId \in Threads \cup {NoThread}
    /\ maReacquireThreadCondition \in BOOLEAN
    /\ maMainThreadCondition \in BOOLEAN
    /\ maMainThreadWaitingCondition \in BOOLEAN
    /\ isShutDown \in BOOLEAN
    /\ signalled \in Threads \cup {NoThread}
    /\ nInNativeDragPrint \in Nat
    /\ posted \subseteq Threads
    /\ pc \in [Threads -> PCs] /\ op \in [Threads -> Calls]
    /\ held \in [Threads -> Nat] /\ saved \in [Threads -> Nat]
    /\ todo \in [Threads -> Nat] /\ ops \in Nat

Init ==
    /\ owner = NoThread /\ depth = 0
    /\ mnThreadId = NoThread /\ mnCount = 0 /\ mnReacquireThreadId = NoThread
    /\ maReacquireThreadCondition = TRUE
    /\ maMainThreadCondition = TRUE /\ maMainThreadWaitingCondition = TRUE
    /\ isShutDown = FALSE /\ signalled = NoThread
    /\ nInNativeDragPrint = 0 /\ posted = {}
    /\ pc = [t \in Threads |-> "idle"] /\ op = [t \in Threads |-> "none"]
    /\ held = [t \in Threads |-> 0] /\ saved = [t \in Threads |-> 0]
    /\ todo = [t \in Threads |-> 0] /\ ops = 0

Goto(t, label) == pc' = [pc EXCEPT ![t] = label]
At(t, label) == pc[t] = label

(***************************************************************************)
(* SalYieldMutex::acquire                                                  *)
(***************************************************************************)

\* The tests at its top.  A thread that already owns the lock goes straight
\* to maMutex; in a signal handler a thread only tries; the main thread
\* polls; every other thread blocks.
Enter(t) ==
    /\ At(t, "enter")
    /\ \/ /\ mnThreadId = t
          /\ Goto(t, "lock")
          /\ UNCHANGED maMainThreadWaitingCondition
       \/ /\ mnThreadId # t /\ signalled # NoThread
          /\ Goto(t, "sigTry")
          /\ UNCHANGED maMainThreadWaitingCondition
       \/ /\ mnThreadId # t /\ signalled = NoThread
          /\ Goto(t, IF t = Main THEN "loop" ELSE "lock")
          /\ maMainThreadWaitingCondition' =
                 IF t = Main THEN FALSE ELSE maMainThreadWaitingCondition
    /\ UNCHANGED <<osMutex, record, maMainThreadCondition, environment, client, op>>

TakeOsMutex(t) ==
    /\ owner \in {t, NoThread}
    /\ owner' = t /\ depth' = depth + 1

\* A slip the runs must notice: a nested acquire is not counted.
RecordFirstOnly(t) ==
    /\ mnThreadId' = t /\ mnCount' = IF mnThreadId = t THEN mnCount ELSE mnCount + 1
    /\ UNCHANGED <<mnReacquireThreadId, maReacquireThreadCondition>>

\* A slip: the thread with priority stays recorded once it has the lock.
RecordKeepsPriority(t) ==
    /\ mnThreadId' = t /\ mnCount' = mnCount + 1
    /\ UNCHANGED <<mnReacquireThreadId, maReacquireThreadCondition>>

\* What both acquire and tryToAcquire record once they have maMutex.
RecordOwner(t) ==
    /\ mnThreadId' = t /\ mnCount' = mnCount + 1
    /\ IF mnReacquireThreadId = t
         THEN mnReacquireThreadId' = NoThread /\ maReacquireThreadCondition' = TRUE
         ELSE UNCHANGED <<mnReacquireThreadId, maReacquireThreadCondition>>

\* A slip: the result of tryToAcquire is not looked at in the handler.
SignalIgnoresTry(t) ==
    /\ At(t, "sigTry")
    /\ Goto(t, IF t = Main THEN "loop" ELSE "lock")
    /\ maMainThreadWaitingCondition' =
           IF t = Main THEN FALSE ELSE maMainThreadWaitingCondition
    /\ UNCHANGED <<osMutex, record, maMainThreadCondition, environment, client, op>>

\* In a signal handler: give up when the lock is taken; when it is free,
\* take it and fall through to the ordinary path, which takes it once more.
SignalTry(t) ==
    /\ At(t, "sigTry")
    /\ \/ /\ TakeOsMutex(t) /\ RecordOwner(t)
          /\ Goto(t, IF t = Main THEN "loop" ELSE "lock")
          /\ maMainThreadWaitingCondition' =
                 IF t = Main THEN FALSE ELSE maMainThreadWaitingCondition
       \/ /\ owner \notin {t, NoThread}
          /\ Goto(t, "ret")
          /\ UNCHANGED <<osMutex, record, maMainThreadWaitingCondition>>
    /\ UNCHANGED <<maMainThreadCondition, environment, client, op>>

\* WaitForReacquireThread, a timed wait that may end at any moment, and
\* maMutex.acquire.
Lock(t) ==
    /\ At(t, "lock") /\ TakeOsMutex(t)
    /\ Goto(t, "own")
    /\ UNCHANGED <<record, mainWait, environment, client, op>>

Own(t) ==
    /\ At(t, "own") /\ RecordOwner(t)
    /\ Goto(t, IF t = Main /\ ~maMainThreadWaitingCondition THEN "leave" ELSE "ret")
    /\ UNCHANGED <<osMutex, mainWait, environment, client, op>>

\* The main thread's polling loop: the condition is reset, a wake-up event
\* posted to the event thread, and a timed wait follows.
Loop(t) ==
    /\ At(t, "loop")
    /\ IF isShutDown
         THEN Goto(t, "leave") /\ UNCHANGED maMainThreadCondition
         ELSE Goto(t, "poll") /\ maMainThreadCondition' = FALSE
    /\ UNCHANGED <<osMutex, record, maMainThreadWaitingCondition, environment, client, op>>

\* CFRunLoopRunInMode: the main thread performs every selector that waits.
\* The thread that waits is past it as soon as it has left posted.
RunLoop == posted' = {}

\* A slip: the main thread waits without CFRunLoopRunInMode.
PollWithoutRunLoop(t) ==
    /\ At(t, "poll")
    /\ maMainThreadCondition' = TRUE
    /\ Goto(t, "try")
    /\ UNCHANGED <<osMutex, record, maMainThreadWaitingCondition, environment, client, op>>

Poll(t) ==
    /\ At(t, "poll")
    /\ maMainThreadCondition' = TRUE
    /\ RunLoop
    /\ Goto(t, "try")
    /\ UNCHANGED <<osMutex, record, maMainThreadWaitingCondition, environment, op,
                   held, saved, todo, ops, nInNativeDragPrint>>

Try(t) ==
    /\ At(t, "try")
    /\ \/ isShutDown /\ Goto(t, "leave") /\ UNCHANGED osMutex
       \/ ~isShutDown /\ TakeOsMutex(t) /\ Goto(t, "own")
       \/ ~isShutDown /\ owner \notin {t, NoThread} /\ Goto(t, "loop") /\ UNCHANGED osMutex
    /\ UNCHANGED <<record, mainWait, environment, client, op>>

Leave(t) ==
    /\ At(t, "leave")
    /\ maMainThreadWaitingCondition' = TRUE
    /\ Goto(t, "ret")
    /\ UNCHANGED <<osMutex, record, maMainThreadCondition, environment, client, op>>

\* VCLInstance_setDragPrintLock gives the lock back after a shutdown.
GivesBack(t) == op[t] = "dragLock" /\ isShutDown

\* acquire returns to AcquireYieldMutex, to setDragPrintLock, to the signal
\* handler or to the client.
Return(t) ==
    /\ At(t, "ret")
    /\ held' = [held EXCEPT ![t] = @ + 1]
    /\ todo' = [todo EXCEPT ![t] = @ - 1]
    /\ \/ todo[t] > 1 /\ Goto(t, "enter") /\ UNCHANGED <<op, nInNativeDragPrint>>
       \/ /\ todo[t] = 1 /\ GivesBack(t)
          /\ Goto(t, "rel") /\ op' = [op EXCEPT ![t] = "release"]
          /\ UNCHANGED nInNativeDragPrint
       \/ /\ todo[t] = 1 /\ ~GivesBack(t)
          /\ Goto(t, "idle") /\ op' = [op EXCEPT ![t] = "none"]
          /\ nInNativeDragPrint' = nInNativeDragPrint + (IF op[t] = "dragLock" THEN 1 ELSE 0)
    /\ UNCHANGED <<osMutex, record, mainWait, environment, saved, ops, posted>>

(***************************************************************************)
(* SalYieldMutex::release                                                  *)
(***************************************************************************)

\* The client of an acquire that was doubled during a signal does not know of
\* the second.
Release(t) ==
    /\ At(t, "rel")
    /\ held' = [held EXCEPT ![t] = IF @ = 0 /\ signalled # NoThread THEN 0 ELSE @ - 1]
    /\ IF mnThreadId = t
         THEN /\ mnThreadId' = IF mnCount = 1 THEN NoThread ELSE t
              /\ mnCount' = mnCount - 1
              /\ Goto(t, IF mnCount = 1 /\ t # Main THEN "unlockNotify" ELSE "unlock")
         ELSE UNCHANGED <<mnThreadId, mnCount>> /\ Goto(t, "unlock")
    /\ UNCHANGED <<osMutex, mnReacquireThreadId, maReacquireThreadCondition, mainWait,
                   environment, op, saved, todo, ops, nInNativeDragPrint, posted>>

\* Slips: ReleaseAcquireCount releases once; or as long as anybody has mnCount.
AfterOneRelease(t) == "idle"
AfterAnyRelease(t) == IF op[t] = "releaseAll" /\ mnCount > 0 THEN "rel" ELSE "idle"

\* Back in the loop of ReleaseAcquireCount, or done.
AfterRelease(t) == IF op[t] = "releaseAll" /\ mnThreadId = t THEN "rel" ELSE "idle"

Finish(t, label) ==
    /\ Goto(t, label)
    /\ op' = IF label = "idle" THEN [op EXCEPT ![t] = "none"] ELSE op

\* osl_releaseMutex does nothing for a thread that does not own the mutex.
Unlock(t) ==
    /\ pc[t] \in {"unlock", "unlockNotify"}
    /\ IF owner = t
         THEN depth' = depth - 1 /\ owner' = IF depth = 1 THEN NoThread ELSE t
         ELSE UNCHANGED osMutex
    /\ IF At(t, "unlockNotify") THEN Goto(t, "notify") /\ UNCHANGED op
                                ELSE Finish(t, AfterRelease(t))
    /\ UNCHANGED <<record, mainWait, environment, client>>

Notify(t) ==
    /\ At(t, "notify")
    /\ maMainThreadCondition' = (maMainThreadCondition \/ ~maMainThreadWaitingCondition)
    /\ Finish(t, AfterRelease(t))
    /\ UNCHANGED <<osMutex, record, maMainThreadWaitingCondition, environment, client>>

(***************************************************************************)
(* The calls a client makes                                                *)
(***************************************************************************)

MayCall(t) == At(t, "idle") /\ t \notin posted /\ t # signalled
CountOp == ops < MaxOps /\ ops' = ops + 1

\* Every client of the lock pairs its calls (SolarMutexGuard,
\* SolarMutexReleaser): between releaseAll and acquireAll it makes no other.
CallAcquire(t) ==
    /\ MayCall(t) /\ saved[t] = 0
    /\ held[t] < MaxDepth
    /\ CountOp
    /\ todo' = [todo EXCEPT ![t] = 1]
    /\ Goto(t, "enter")
    /\ \/ op' = [op EXCEPT ![t] = "acquire"]
       \/ t = Main /\ ~isShutDown /\ op' = [op EXCEPT ![t] = "dragLock"]
    /\ UNCHANGED <<osMutex, record, mainWait, environment, held, saved,
                   nInNativeDragPrint, posted>>

TryToAcquire(t) ==
    /\ MayCall(t) /\ saved[t] = 0 /\ held[t] = 0 /\ CountOp
    /\ IF owner \in {t, NoThread}
         THEN TakeOsMutex(t) /\ RecordOwner(t) /\ held' = [held EXCEPT ![t] = @ + 1]
         ELSE UNCHANGED <<osMutex, record, held>>
    /\ UNCHANGED <<mainWait, environment, saved, todo, nInNativeDragPrint, posted, pc, op>>

\* The release of a plain acquire, or VCLInstance_setDragPrintLock( false ).
CallRelease(t) ==
    /\ MayCall(t) /\ held[t] > 0
    /\ \/ UNCHANGED nInNativeDragPrint /\ held[t] > (IF t = Main THEN nInNativeDragPrint ELSE 0)
       \/ t = Main /\ nInNativeDragPrint > 0 /\ nInNativeDragPrint' = nInNativeDragPrint - 1
    /\ Goto(t, "rel") /\ op' = [op EXCEPT ![t] = "release"]
    /\ UNCHANGED <<osMutex, record, mainWait, environment, held, saved, todo, ops, posted>>

\* A slip: ReleaseAcquireCount forgets nInNativeDragPrint.
MayAlwaysReleaseAll(t) == TRUE

\* The test at the top of ReleaseAcquireCount.  bAllowReleaseYieldMutex and
\* bInUnitTest have no other effect, so either value is allowed.
MayReleaseAll(t) == t = Main => nInNativeDragPrint = 0

\* ReleaseAcquireCount, when it does not return 0.
CallReleaseAll(t) ==
    /\ MayCall(t) /\ MayReleaseAll(t)
    /\ mnThreadId = t /\ mnCount > 0 /\ CountOp
    /\ saved' = [saved EXCEPT ![t] = mnCount]
    /\ IF t # Main
         THEN mnReacquireThreadId' = t /\ maReacquireThreadCondition' = FALSE
         ELSE UNCHANGED <<mnReacquireThreadId, maReacquireThreadCondition>>
    /\ Goto(t, "rel") /\ op' = [op EXCEPT ![t] = "releaseAll"]
    /\ UNCHANGED <<osMutex, mnThreadId, mnCount, mainWait, environment, held, todo,
                   nInNativeDragPrint, posted>>

\* AcquireYieldMutex with the count ReleaseYieldMutex returned.
CallAcquireAll(t) ==
    /\ MayCall(t) /\ saved[t] > 0
    /\ todo' = [todo EXCEPT ![t] = saved[t]]
    /\ saved' = [saved EXCEPT ![t] = 0]
    /\ Goto(t, "enter") /\ op' = [op EXCEPT ![t] = "acquireAll"]
    /\ UNCHANGED <<osMutex, record, mainWait, environment, held, ops,
                   nInNativeDragPrint, posted>>

\* [NSObject performSelectorOnMainThread: ... waitUntilDone:YES], with or
\* without the lock.
CallSelector(t) ==
    /\ MayCall(t) /\ t # Main
    /\ CountOp
    /\ posted' = posted \cup {t}
    /\ UNCHANGED <<osMutex, record, mainWait, environment, held, saved, todo,
                   nInNativeDragPrint, pc, op>>

\* The main thread in its own event loop, outside the code of the office.
MainRunLoop ==
    /\ At(Main, "idle") /\ held[Main] = 0 /\ saved[Main] = 0
    /\ posted # {} /\ RunLoop
    /\ UNCHANGED <<osMutex, record, mainWait, environment, held, saved, todo, ops,
                   nInNativeDragPrint, pc, op>>

(***************************************************************************)
(* The rest of the process                                                 *)
(***************************************************************************)

\* Application::Quit and the event it posts, as what they lead to.
ShutDown ==
    /\ MayShutDown /\ ~isShutDown
    /\ isShutDown' = TRUE
    /\ UNCHANGED <<osMutex, record, mainWait, signalled, client, pc, op>>

\* VCLExceptionSignal_impl sets mbInSignalHandler in the thread that got the
\* signal, takes the lock and calls Desktop::Exception, which does not return:
\* it saves the documents, while the other threads go on, and ends the process.
\* The thread is in its own code here, with the lock or without it, and not
\* inside a call of the lock.
SignalBegin(t) ==
    /\ MaySignal /\ signalled = NoThread /\ MayCall(t) /\ CountOp
    /\ signalled' = t
    /\ todo' = [todo EXCEPT ![t] = 1]
    /\ Goto(t, "enter") /\ op' = [op EXCEPT ![t] = "signal"]
    /\ UNCHANGED <<osMutex, record, mainWait, isShutDown, held, saved,
                   nInNativeDragPrint, posted>>

Finished == ops = MaxOps /\ \A t \in Threads : MayCall(t) /\ held[t] = 0 /\ saved[t] = 0

Step(t) ==
    \/ Enter(t) \/ SignalTry(t) \/ Lock(t) \/ Own(t) \/ Loop(t) \/ Poll(t) \/ Try(t)
    \/ Leave(t) \/ Return(t) \/ Release(t) \/ Unlock(t) \/ Notify(t)

Call(t) ==
    \/ CallAcquire(t) \/ TryToAcquire(t) \/ CallRelease(t) \/ CallReleaseAll(t)
    \/ CallAcquireAll(t) \/ CallSelector(t) \/ SignalBegin(t)

\* The bound on operations ends every run in Finished, a signal ends it at any
\* moment.
Done == (Finished \/ signalled # NoThread) /\ UNCHANGED vars

Next ==
    \/ \E t \in Threads : Step(t) \/ Call(t)
    \/ MainRunLoop \/ ShutDown \/ Done

Spec == Init /\ [][Next]_vars

\* A thread inside the lock's code goes on, a client releases what it has
\* acquired (the guards are scoped objects), and the main thread comes back to
\* its run loop.  Nothing is assumed of who gets the mutex.
FairSpec ==
    /\ Spec
    /\ \A t \in Threads : WF_vars(Step(t) \/ CallRelease(t) \/ CallAcquireAll(t))
    /\ WF_vars(MainRunLoop)

(***************************************************************************)
(* Properties                                                              *)
(***************************************************************************)

\* The one way a client holds the lock without owning maMutex: the main
\* thread's acquire gave up because the application is shutting down, or some
\* thread is in the signal handler, when nobody waits.
GaveUp(t) == signalled # NoThread \/ (t = Main /\ isShutDown)

\* A client that has come back from acquire and not yet released owns the
\* mutex, so no two threads run the office's code at the same time; and between
\* ReleaseYieldMutex and AcquireYieldMutex a thread owns nothing, in whatever
\* depth it owned it, so that others can run.
OwnedIffHeld == \A t \in Threads :
    /\ held[t] > 0 /\ ~GaveUp(t) => owner = t
    /\ saved[t] > 0 /\ At(t, "idle") /\ signalled = NoThread => owner # t /\ held[t] = 0

\* Acquires that t has made in maMutex and its client does not know of yet,
\* and those it has given up and maMutex still has.
InHand(t) == IF pc[t] \in {"own", "leave", "ret", "unlock", "unlockNotify"} THEN 1 ELSE 0

\* mnThreadId and mnCount, which every other thread reads without a lock,
\* agree with the mutex and with the clients' pairs of calls whenever nobody
\* is between a change of one and the change of the other.
CountsAgree == signalled = NoThread =>
    /\ owner = NoThread => depth = 0 /\ mnCount = 0 /\ mnThreadId = NoThread
    /\ \A t \in Threads : owner = t =>
          /\ depth = held[t] + InHand(t)
          /\ mnCount = depth - (IF pc[t] \in {"own", "unlock", "unlockNotify"} THEN 1 ELSE 0)
          /\ mnThreadId = IF mnCount = 0 THEN NoThread ELSE t

\* The lock is never left to a thread that does not want it any more: the
\* thread with priority has released and not yet reacquired it.
PriorityIsWanted ==
    signalled = NoThread /\ mnReacquireThreadId # NoThread =>
        \/ saved[mnReacquireThreadId] > 0
        \/ op[mnReacquireThreadId] = "acquireAll"

\* "Never release the mutex in the main thread as it can cause crashing when
\* dragging": during a native drag or print the main thread keeps the lock,
\* through shutdown and nested calls, until the last drag lock is gone.
DragKeepsLock ==
    nInNativeDragPrint > 0 /\ signalled = NoThread => owner = Main /\ depth >= nInNativeDragPrint

\* A thread in the signal handler never blocks for the lock: the thread that
\* has it may be waiting for this one.
HandlerNeverBlocks ==
    \A t \in Threads : t = signalled /\ op[t] = "signal" /\ pc[t] \in {"lock", "loop", "poll", "try"}
        => owner = t

\* No call blocks for ever: every acquire, release and reacquire returns once
\* the other threads make a bounded number of calls.  And whatever the main
\* thread waits for, it still performs the selectors other threads wait for,
\* even those of the thread that has the lock.
CallsReturn ==
    \A t \in Threads : pc[t] # "idle" \/ t \in posted
                         ~> (pc[t] = "idle" /\ t \notin posted) \/ signalled # NoThread
=============================================================================
