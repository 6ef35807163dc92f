----------------------------- MODULE JobQueue -----------------------------
(***************************************************************************)
(* cppu_threadpool::JobQueue, cppu/source/threadpool/jobqueue.cxx: the     *)
(* queue through which the UNO runtime hands requests and replies to one   *)
(* thread.  The thread enters the queue to wait for the reply to a call it *)
(* made, or to run requests until there is none; a request it runs may call*)
(* out and enter the queue again, so its calls nest.  NeoOffice releases   *)
(* the application's lock around the wait.  Every MutexGuard scope of the  *)
(* code is one action.                                                     *)
(***************************************************************************)
EXTENDS Integers, Sequences

CONSTANTS Ids,       \* the nDisposeIds of the bridges that use the thread
          MaxRequests, \* bound: requests other threads add
          MaxEnters, \* bound: calls of enter
          MaxDepth,  \* bound: nested calls of enter
          MaxSolar   \* bound: depth in which the thread holds the solar mutex

ASSUME IdAssumption == 0 \notin Ids
ASSUME BoundAssumption == MaxRequests \in Nat /\ MaxEnters \in Nat /\ MaxDepth \in Nat /\ MaxSolar \in Nat

VARIABLES m_lstJob, m_lstCallstack, m_nToDo, m_bSuspended,
          m_cndWait,
          callers,        \* the bridges through which the thread makes calls
          disposedIds,    \* what DisposedCallerAdmin knows
          frames,         \* the thread's calls of enter, innermost first
          pc,             \* where the innermost call is
          solar,          \* the thread's depth in the application's lock
          nCount,         \* its depth before the wait
          requests, entered   \* how often the bounded calls were made

queue == <<m_lstJob, m_lstCallstack, m_nToDo, m_bSuspended, m_cndWait>>
thread == <<frames, pc, solar, nCount>>
bridges == <<callers, disposedIds>>
vars == <<queue, bridges, thread, requests, entered>>

\* A request has a function to run; a reply has none and ends a call.
Kinds == {"request", "reply"}
Frame == [whenNoJob : BOOLEAN, depth : 0..MaxSolar]

TypeOK ==
    /\ m_lstJob \in Seq(Kinds) /\ m_lstCallstack \in Seq(Ids \cup {0})
    /\ m_nToDo \in Int
    /\ m_bSuspended \in BOOLEAN /\ m_cndWait \in BOOLEAN
    /\ callers \subseteq Ids /\ disposedIds \subseteq Ids
    /\ frames \in Seq(Frame) /\ Len(frames) = Len(m_lstCallstack)
    /\ pc \in {"out", "loop", "wait", "take", "run", "reply", "pop"}
    /\ (pc = "out") <=> (frames = <<>>)
    /\ solar \in 0..MaxSolar /\ nCount \in 0..MaxSolar
    /\ requests \in 0..MaxRequests /\ entered \in 0..MaxEnters

Init ==
    /\ m_lstJob = <<>> /\ m_lstCallstack = <<>> /\ m_nToDo = 0
    /\ m_bSuspended = FALSE /\ m_cndWait = FALSE
    /\ callers \in SUBSET Ids /\ disposedIds = {}
    /\ frames = <<>> /\ pc = "out" /\ solar \in 0..MaxSolar /\ nCount = 0
    /\ requests = 0 /\ entered = 0

(***************************************************************************)
(* The thread that enters                                                  *)
(***************************************************************************)

\* enter( nDisposeId, bReturnWhenNoJob ), from outside or from a request that
\* is being run.  For a disposed id it returns at once and nothing changes.
Enter(id, whenNoJob) ==
    /\ pc \in {"out", "run"} /\ Len(frames) < MaxDepth
    /\ entered < MaxEnters /\ entered' = entered + 1
    /\ id \in callers \ disposedIds
    /\ m_lstCallstack' = <<id>> \o m_lstCallstack
    /\ frames' = <<[whenNoJob |-> whenNoJob, depth |-> solar]>> \o frames
    /\ pc' = "loop"
    /\ UNCHANGED <<m_lstJob, m_nToDo, m_bSuspended, m_cndWait, bridges, solar, nCount,
                   requests>>

\* A slip the runs must notice: the wait keeps the application's lock.
LoopKeepsSolar ==
    /\ pc = "loop"
    /\ IF Head(frames).whenNoJob /\ m_lstJob = <<>>
         THEN pc' = "pop" /\ UNCHANGED <<nCount, solar>>
         ELSE pc' = "wait" /\ nCount' = 0 /\ UNCHANGED solar
    /\ UNCHANGED <<queue, bridges, frames, requests, entered>>

\* The test of bReturnWhenNoJob, and Application_releaseAllSolarMutex.
Loop ==
    /\ pc = "loop"
    /\ IF Head(frames).whenNoJob /\ m_lstJob = <<>>
         THEN pc' = "pop" /\ UNCHANGED <<nCount, solar>>
         ELSE pc' = "wait" /\ nCount' = solar /\ solar' = 0
    /\ UNCHANGED <<queue, bridges, frames, requests, entered>>

\* A slip: the lock comes back in depth one.
WakeTakesOnce ==
    /\ pc = "wait" /\ m_cndWait
    /\ solar' = IF nCount > 0 THEN 1 ELSE 0
    /\ pc' = "take"
    /\ UNCHANGED <<queue, bridges, frames, nCount, requests, entered>>

\* osl_waitCondition returns; Application_acquireAllSolarMutex( nCount ).
Wake ==
    /\ pc = "wait" /\ m_cndWait
    /\ solar' = IF nCount > 0 THEN nCount ELSE solar
    /\ pc' = "take"
    /\ UNCHANGED <<queue, bridges, frames, nCount, requests, entered>>

Front == Head(m_lstCallstack)

\* A slip: a disposed call resets the condition.
ConditionIgnoresFront(rest) == IF rest = <<>> THEN FALSE ELSE m_cndWait

\* The condition after a look at the queue that leaves the jobs rest.
ConditionAfter(rest) == IF rest = <<>> /\ Front # 0 THEN FALSE ELSE m_cndWait

\* The thread has been let go by dispose ...
TakeDisposed ==
    /\ pc = "take" /\ Front = 0
    /\ m_cndWait' = ConditionAfter(m_lstJob)
    /\ pc' = "pop"
    /\ UNCHANGED <<m_lstJob, m_lstCallstack, m_nToDo, m_bSuspended, bridges, frames, solar,
                   nCount, requests, entered>>

\* ... or takes the first job, if there is one: without one, the job is {0,0}
\* and looks like a reply.
TakeJob ==
    /\ pc = "take" /\ Front # 0
    /\ m_lstJob' = IF m_lstJob = <<>> THEN <<>> ELSE Tail(m_lstJob)
    /\ m_cndWait' = ConditionAfter(m_lstJob')
    /\ pc' = IF m_lstJob # <<>> /\ Head(m_lstJob) = "request" THEN "run" ELSE "reply"
    /\ UNCHANGED <<m_lstCallstack, m_nToDo, m_bSuspended, bridges, frames, solar, nCount,
                   requests, entered>>

\* doRequest has returned.
FinishRequest ==
    /\ pc = "run"
    /\ m_nToDo' = m_nToDo - 1
    /\ pc' = "loop"
    /\ UNCHANGED <<m_lstJob, m_lstCallstack, m_bSuspended, m_cndWait, bridges, frames, solar,
                   nCount, requests, entered>>

FinishReply ==
    /\ pc = "reply"
    /\ m_nToDo' = m_nToDo - 1
    /\ pc' = "pop"
    /\ UNCHANGED <<m_lstJob, m_lstCallstack, m_bSuspended, m_cndWait, bridges, frames, solar,
                   nCount, requests, entered>>

\* The thread pool deletes a queue that is empty when the outermost call has
\* returned, and makes a new one for the next call.
Revoke == m_nToDo' = 0 /\ m_bSuspended' = FALSE /\ m_cndWait' = FALSE

\* A slip: the entry that dispose has cleared stays on m_lstCallstack.
ReturnKeepsCleared ==
    /\ pc = "pop"
    /\ m_lstCallstack' = IF Front = 0 THEN m_lstCallstack ELSE Tail(m_lstCallstack)
    /\ frames' = Tail(frames)
    /\ pc' = IF Tail(frames) = <<>> THEN "out" ELSE "run"
    /\ UNCHANGED <<m_nToDo, m_bSuspended, m_cndWait, m_lstJob, bridges, solar, nCount,
                   requests, entered>>

\* enter returns; in a nested call the request that made it goes on.
Return ==
    /\ pc = "pop"
    /\ m_lstCallstack' = Tail(m_lstCallstack)
    /\ frames' = Tail(frames)
    /\ pc' = IF Tail(frames) = <<>> THEN "out" ELSE "run"
    /\ IF Tail(frames) = <<>> /\ m_lstJob = <<>>
         THEN Revoke
         ELSE UNCHANGED <<m_nToDo, m_bSuspended, m_cndWait>>
    /\ UNCHANGED <<m_lstJob, bridges, solar, nCount, requests, entered>>

Thread ==
    \/ Loop \/ Wake \/ TakeDisposed \/ TakeJob \/ FinishRequest \/ FinishReply \/ Return

(***************************************************************************)
(* The other threads                                                       *)
(***************************************************************************)

Add(kind) ==
    /\ m_lstJob' = Append(m_lstJob, kind)
    /\ m_cndWait' = (m_cndWait \/ ~m_bSuspended)
    /\ m_nToDo' = m_nToDo + 1
    /\ UNCHANGED <<m_lstCallstack, m_bSuspended, bridges, thread, entered>>

\* The other side answers the call the thread waits for, unless a reply is
\* already there; its code needs the application's lock.
AddReply ==
    /\ pc = "wait" /\ ~Head(frames).whenNoJob /\ solar = 0
    /\ \A i \in DOMAIN m_lstJob : m_lstJob[i] # "reply"
    /\ Add("reply") /\ UNCHANGED requests

AddRequest ==
    /\ requests < MaxRequests /\ requests' = requests + 1
    /\ Add("request")

\* ThreadPool::dispose tells the admin first and then the queue.
AdminDispose(id) ==
    /\ disposedIds' = disposedIds \cup {id}
    /\ UNCHANGED <<queue, callers, thread, requests, entered>>

Dispose(id) ==
    /\ id \in disposedIds
    /\ m_lstCallstack' = [i \in DOMAIN m_lstCallstack |->
                            IF m_lstCallstack[i] = id THEN 0 ELSE m_lstCallstack[i]]
    /\ m_cndWait' = (m_cndWait \/ (m_lstCallstack # <<>> /\ m_lstCallstack'[1] = 0))
    /\ UNCHANGED <<m_lstJob, m_nToDo, m_bSuspended, bridges, thread, requests, entered>>

Suspend ==
    /\ m_bSuspended' = TRUE
    /\ UNCHANGED <<m_lstJob, m_lstCallstack, m_nToDo, m_cndWait, bridges, thread, requests, entered>>

\* A slip: resume does not look at the jobs that came meanwhile.
ResumeQuietly ==
    /\ m_bSuspended' = FALSE
    /\ UNCHANGED <<m_lstJob, m_lstCallstack, m_nToDo, m_cndWait, bridges, thread, requests, entered>>

Resume ==
    /\ m_bSuspended' = FALSE
    /\ m_cndWait' = (m_cndWait \/ m_lstJob # <<>>)
    /\ UNCHANGED <<m_lstJob, m_lstCallstack, m_nToDo, bridges, thread, requests, entered>>

Next ==
    \/ Thread
    \/ \E id \in Ids : \/ \E b \in BOOLEAN : Enter(id, b)
                       \/ AdminDispose(id) \/ Dispose(id)
    \/ AddReply \/ AddRequest \/ Suspend \/ Resume

Spec == Init /\ [][Next]_vars

\* The thread runs, the other side answers, who suspends also resumes, and
\* ThreadPool::dispose goes on from the admin to the queue.
FairSpec ==
    /\ Spec
    /\ WF_vars(Thread) /\ WF_vars(AddReply) /\ WF_vars(m_bSuspended /\ Resume)
    /\ \A id \in Ids : WF_vars(Dispose(id))

(***************************************************************************)
(* Properties                                                              *)
(***************************************************************************)

\* A job that may be run wakes the thread: between the look at the queue and
\* the wait no add, suspend or resume gets lost.
JobsWake == m_lstJob # <<>> /\ ~m_bSuspended => m_cndWait

\* The calls of two bridges can nest in one thread, and then the queue does not
\* keep what CallsAreRight promises: see ConditionMeansJob.
OneCaller == \A id, other \in callers : id = other

\* What a call is told is true.  "The thread is waiting for a disposed pCallerId,
\* let it go": a call whose caller has been disposed does not wait; a thread that
\* was woken and has not been disposed finds a job; and m_nToDo, from which isBusy
\* answers, counts the jobs in the queue and those that are being run, in every
\* nested call.
Running == Len(frames) - (IF pc \in {"out", "run", "reply"} THEN 0 ELSE 1)
CallsAreRight ==
    OneCaller => /\ pc = "wait" /\ Front = 0 => m_cndWait
                 /\ pc = "take" /\ Front # 0 => m_lstJob # <<>>
                 /\ m_nToDo = Len(m_lstJob) + Running

\* OSL_ASSERT( ! m_lstJob.empty() ): the same, whichever bridges nest.
ConditionMeansJob == pc = "take" /\ Front # 0 => m_lstJob # <<>>

\* The code of a request or of the caller finds the application's lock as deep
\* as it left it, however often the thread waited.
SolarRestored == pc \notin {"out", "wait"} => solar = Head(frames).depth

\* Every call of enter ends: with its reply, with its last job, or because its
\* caller was disposed.
WaitsEnd == OneCaller /\ pc = "wait" ~> pc # "wait"
=============================================================================
