--------------------------- MODULE JobQueueProofs ---------------------------
(***************************************************************************)
(* Theorems about JobQueue, for any bridges and any bounds.                *)
(***************************************************************************)
EXTENDS JobQueue, TLAPS

\* Every nested call of enter was made with the lock as deep as the outermost
\* one, and a thread that waits has put that depth into nCount.
DepthsAgree ==
    /\ \A i, j \in DOMAIN frames : frames[i].depth = frames[j].depth
    /\ pc = "wait" => solar = 0 /\ nCount = frames[1].depth
    /\ pc \notin {"out", "wait"} => solar = frames[1].depth

IInv == TypeOK /\ DepthsAgree

\* TypeOK without the flags, in two parts.
StacksType ==
    /\ m_lstCallstack \in Seq(Ids \cup {0}) /\ frames \in Seq(Frame)
    /\ Len(frames) = Len(m_lstCallstack)
    /\ pc \in {"out", "loop", "wait", "take", "run", "reply", "pop"}
    /\ (pc = "out") <=> (frames = <<>>)
NumbersType ==
    /\ m_lstJob \in Seq(Kinds) /\ m_nToDo \in Int /\ callers \subseteq Ids /\ disposedIds \subseteq Ids
    /\ solar \in 0..MaxSolar /\ nCount \in 0..MaxSolar
    /\ requests \in 0..MaxRequests /\ entered \in 0..MaxEnters
Types == StacksType /\ NumbersType /\ DepthsAgree

-----------------------------------------------------------------------------

(* Tail of a sequence that is not empty. *)
LEMMA TailFacts ==
    ASSUME NEW S, NEW s \in Seq(S), s # <<>>
    PROVE  /\ Tail(s) \in Seq(S) /\ Len(Tail(s)) = Len(s) - 1 /\ Len(s) \in Nat \ {0}
           /\ \A i \in DOMAIN Tail(s) : i + 1 \in DOMAIN s /\ Tail(s)[i] = s[i + 1]
           /\ Head(s) \in S /\ Head(s) = s[1] /\ 1 \in DOMAIN s
  OBVIOUS

(* Cons, as enter does it on both stacks. *)
LEMMA ConsFacts ==
    ASSUME NEW S, NEW s \in Seq(S), NEW x \in S
    PROVE  /\ <<x>> \o s \in Seq(S) /\ Len(<<x>> \o s) = Len(s) + 1 /\ Len(s) \in Nat
           /\ (<<x>> \o s)[1] = x /\ <<x>> \o s # <<>>
           /\ \A i \in DOMAIN (<<x>> \o s) : i = 1 \/ (i - 1 \in DOMAIN s /\ (<<x>> \o s)[i] = s[i - 1])
  OBVIOUS

(* The invariant holds initially: no call of enter has been made. *)
LEMMA InitIInv == Init => IInv
<1> SUFFICES ASSUME Init PROVE IInv
  OBVIOUS
<1>1. m_lstJob \in Seq(Kinds) /\ m_lstCallstack \in Seq(Ids \cup {0}) /\ frames \in Seq(Frame)
  BY DEF Init
<1>2. Len(frames) = Len(m_lstCallstack) /\ (pc = "out" <=> frames = <<>>)
  BY DEF Init
<1>3. m_bSuspended \in BOOLEAN /\ m_cndWait \in BOOLEAN
  BY DEF Init
<1>4. /\ m_nToDo \in Int /\ callers \subseteq Ids /\ disposedIds \subseteq Ids
      /\ pc \in {"out", "loop", "wait", "take", "run", "reply", "pop"}
      /\ solar \in 0..MaxSolar /\ nCount \in 0..MaxSolar
      /\ requests \in 0..MaxRequests /\ entered \in 0..MaxEnters
  BY BoundAssumption DEF Init
<1>5. DepthsAgree
  BY DEF Init, DepthsAgree
<1> QED
  BY <1>1, <1>2, <1>3, <1>4, <1>5 DEF IInv, TypeOK

(* The two flags stay Boolean.  Apart from the rest of TypeOK, because SMT does
   arithmetic and Zenon propositional logic. *)
LEMMA FlagsType ==
    ASSUME m_bSuspended \in BOOLEAN, m_cndWait \in BOOLEAN, [Next]_vars
    PROVE  m_bSuspended' \in BOOLEAN /\ m_cndWait' \in BOOLEAN
<1>1. ASSUME NEW rest PROVE ConditionAfter(rest) \in BOOLEAN
  BY DEF ConditionAfter
<1>2. CASE Thread
  BY <1>1, <1>2 DEF Thread, Loop, Wake, TakeDisposed, TakeJob, FinishRequest, FinishReply, Return, Revoke, queue
<1>3. CASE AddReply \/ AddRequest \/ Suspend \/ Resume
  BY <1>3 DEF AddReply, AddRequest, Add, Suspend, Resume
<1>4. ASSUME NEW id \in Ids, AdminDispose(id) \/ Dispose(id) \/ \E b \in BOOLEAN : Enter(id, b)
      PROVE  m_bSuspended' \in BOOLEAN /\ m_cndWait' \in BOOLEAN
  BY <1>4 DEF AdminDispose, Dispose, Enter, queue
<1>5. CASE UNCHANGED vars
  BY <1>5 DEF vars, queue
<1> QED
  BY <1>2, <1>3, <1>4, <1>5 DEF Next

(* A step of the thread that leaves its stack of calls alone. *)
LEMMA ThreadStep ==
    ASSUME Types, Loop \/ Wake \/ TakeDisposed \/ TakeJob \/ FinishRequest \/ FinishReply
    PROVE  Types'
<1> USE DEF Types, StacksType, NumbersType, DepthsAgree, Frame, queue, bridges
<1>1. frames # <<>> /\ 1 \in DOMAIN frames /\ Head(frames) = frames[1]
  BY DEF Loop, Wake, TakeDisposed, TakeJob, FinishRequest, FinishReply
<1>2. CASE Loop
  BY <1>1, <1>2, BoundAssumption, SMTT(30) DEF Loop
<1>3. CASE Wake
  BY <1>1, <1>3 DEF Wake
<1>4. CASE TakeDisposed
  BY <1>1, <1>4 DEF TakeDisposed
<1>5. CASE TakeJob
  <2>1. m_lstJob' \in Seq(Kinds)
    BY <1>5 DEF TakeJob
  <2> QED
    BY <1>1, <1>5, <2>1 DEF TakeJob
<1>6. CASE FinishRequest
  BY <1>1, <1>6 DEF FinishRequest
<1>7. CASE FinishReply
  BY <1>1, <1>7 DEF FinishReply
<1> QED
  BY <1>2, <1>3, <1>4, <1>5, <1>6, <1>7

(* A nested call of enter is made from a request, which holds the lock as deep
   as the call that runs it. *)
LEMMA EnterStep ==
    ASSUME Types, NEW id \in Ids, NEW b \in BOOLEAN, Enter(id, b)
    PROVE  Types'
<1> DEFINE f == [whenNoJob |-> b, depth |-> solar]
<1>1. f \in Frame /\ frames \in Seq(Frame) /\ f.depth = solar
  BY DEF Types, NumbersType, StacksType, Frame
<1>2. frames' = <<f>> \o frames /\ m_lstCallstack' = <<id>> \o m_lstCallstack /\ pc' = "loop"
  BY DEF Enter
<1> HIDE DEF f
<1>3. StacksType'
  BY <1>1, <1>2, ConsFacts DEF Types, StacksType
<1>4. NumbersType'
  BY BoundAssumption DEF Types, NumbersType, Enter, bridges
<1>5. \A i \in DOMAIN frames : frames[i].depth = solar
  <2>1. CASE pc = "out"
    BY <2>1 DEF Types, StacksType
  <2>2. CASE pc = "run"
    BY <2>2 DEF Types, StacksType, DepthsAgree
  <2> QED
    BY <2>1, <2>2 DEF Enter
<1>6. \A i \in DOMAIN frames' : frames'[i].depth = solar
  BY <1>1, <1>2, <1>5, ConsFacts
<1>7. frames'[1].depth = solar /\ solar' = solar
  BY <1>1, <1>2, ConsFacts DEF Enter
<1>8. DepthsAgree'
  BY <1>2, <1>6, <1>7 DEF DepthsAgree
<1> QED
  BY <1>3, <1>4, <1>8 DEF Types

(* When enter returns, the call under it has the same depth. *)
LEMMA ReturnStep ==
    ASSUME Types, Return
    PROVE  Types'
<1>1. /\ frames # <<>> /\ frames \in Seq(Frame) /\ m_lstCallstack \in Seq(Ids \cup {0})
      /\ Len(frames) = Len(m_lstCallstack) /\ pc = "pop"
  BY DEF Types, StacksType, Return
<1>2. m_lstCallstack # <<>>
  BY <1>1
<1>3. /\ frames' = Tail(frames) /\ m_lstCallstack' = Tail(m_lstCallstack)
      /\ pc' = IF Tail(frames) = <<>> THEN "out" ELSE "run"
  BY DEF Return
<1>4. StacksType'
  BY <1>1, <1>2, <1>3, TailFacts DEF StacksType
<1>5. NumbersType'
  BY DEF Types, NumbersType, Return, Revoke, bridges
<1>6. DepthsAgree'
  <2>1. solar' = solar /\ solar = frames[1].depth
    BY <1>1 DEF Types, DepthsAgree, Return
  <2>2. \A i \in DOMAIN frames' : frames'[i].depth = solar
    BY <1>1, <1>3, <2>1, TailFacts DEF Types, DepthsAgree
  <2>3. frames' # <<>> => 1 \in DOMAIN frames'
    BY <1>4 DEF StacksType
  <2> QED
    BY <1>3, <2>1, <2>2, <2>3 DEF DepthsAgree
<1> QED
  BY <1>4, <1>5, <1>6 DEF Types

(* The other threads leave the thread's calls alone; dispose clears entries of
   m_lstCallstack. *)
LEMMA OthersStep ==
    ASSUME Types,
           \/ AddReply \/ AddRequest \/ Suspend \/ Resume \/ UNCHANGED vars
           \/ \E id \in Ids : AdminDispose(id) \/ Dispose(id)
    PROVE  Types'
<1> USE DEF Types, StacksType, NumbersType, DepthsAgree, thread, queue, bridges
<1>1. CASE AddReply \/ AddRequest
  <2>1. PICK kind \in Kinds : Add(kind)
    BY <1>1 DEF AddReply, AddRequest, Kinds
  <2>2. m_lstJob' \in Seq(Kinds)
    BY <2>1 DEF Add
  <2>3. m_nToDo' \in Int
    BY <2>1 DEF Add
  <2>4. requests' \in 0..MaxRequests
    BY <1>1, BoundAssumption DEF AddReply, AddRequest
  <2> QED
    BY <2>1, <2>2, <2>3, <2>4 DEF Add
<1>2. CASE Suspend \/ Resume \/ UNCHANGED vars
  BY <1>2 DEF Suspend, Resume, vars
<1>3. ASSUME NEW id \in Ids, AdminDispose(id) PROVE Types'
  BY <1>3 DEF AdminDispose
<1>4. ASSUME NEW id \in Ids, Dispose(id) PROVE Types'
  <2>1. m_lstCallstack' \in Seq(Ids \cup {0}) /\ Len(m_lstCallstack') = Len(m_lstCallstack)
    BY <1>4 DEF Dispose
  <2> QED
    BY <1>4, <2>1 DEF Dispose
<1> QED
  BY <1>1, <1>2, <1>3, <1>4

(* Every step preserves the invariant. *)
LEMMA NextIInv == IInv /\ [Next]_vars => IInv'
<1> SUFFICES ASSUME IInv, [Next]_vars PROVE IInv'
  OBVIOUS
<1>1. Types /\ m_bSuspended \in BOOLEAN /\ m_cndWait \in BOOLEAN
  BY DEF IInv, TypeOK, Types, StacksType, NumbersType
<1>2. m_bSuspended' \in BOOLEAN /\ m_cndWait' \in BOOLEAN
  BY <1>1, FlagsType
<1>3. Types'
  <2>1. CASE Thread
    BY <1>1, <2>1, ThreadStep, ReturnStep DEF Thread
  <2>2. ASSUME NEW id \in Ids, NEW b \in BOOLEAN, Enter(id, b) PROVE Types'
    BY <1>1, <2>2, EnterStep
  <2> QED
    BY <1>1, <2>1, <2>2, OthersStep DEF Next
<1> QED
  BY <1>2, <1>3 DEF IInv, TypeOK, Types, StacksType, NumbersType

-----------------------------------------------------------------------------

(* The invariant holds in every reachable state. *)
LEMMA IInvHolds == Spec => []IInv
  BY InitIInv, NextIInv, PTL DEF Spec

(* Type correctness: whatever order the threads call in, the stack that
   m_lstCallstack is stays as deep as the nesting of enter. *)
THEOREM TypeCorrect == Spec => []TypeOK
<1>1. IInv => TypeOK
  BY DEF IInv
<1> QED
  BY <1>1, IInvHolds, PTL

(* The Application_releaseAllSolarMutex that enter does before it waits and the
   acquireAllSolarMutex after it always pair: the code of a request, and the
   caller after enter, has the lock as deep as it had it. *)
THEOREM LockRestored == Spec => []SolarRestored
<1>1. IInv => SolarRestored
  <2> SUFFICES ASSUME IInv, pc \notin {"out", "wait"} PROVE solar = Head(frames).depth
    BY DEF SolarRestored
  <2>1. frames # <<>> /\ frames \in Seq(Frame)
    BY DEF IInv, TypeOK
  <2>2. Head(frames) = frames[1]
    BY <2>1
  <2> QED
    BY <2>2 DEF IInv, DepthsAgree
<1> QED
  BY <1>1, IInvHolds, PTL

(* No wake-up is lost in jobqueue.cxx: while the queue has a job and is not
   suspended, the condition its thread waits for is set. *)
THEOREM NoLostWakeup == Spec => []JobsWake
<1>1. Init => JobsWake
  BY DEF Init, JobsWake
<1>2. JobsWake /\ [Next]_vars => JobsWake'
  <2> SUFFICES ASSUME JobsWake, [Next]_vars PROVE JobsWake'
    OBVIOUS
  <2>1. CASE TakeDisposed \/ TakeJob
    <3>1. m_lstJob = <<>> => m_lstJob' = <<>>
      BY <2>1 DEF TakeDisposed, TakeJob
    <3> QED
      BY <2>1, <3>1 DEF JobsWake, TakeDisposed, TakeJob, ConditionAfter
  <2>2. CASE Loop \/ Wake \/ FinishRequest \/ FinishReply \/ Return
    BY <2>2 DEF JobsWake, Loop, Wake, FinishRequest, FinishReply, Return, Revoke, queue
  <2>3. CASE AddReply \/ AddRequest \/ Suspend \/ Resume
    BY <2>3 DEF JobsWake, AddReply, AddRequest, Add, Suspend, Resume
  <2>4. ASSUME NEW id \in Ids, AdminDispose(id) \/ Dispose(id) \/ \E b \in BOOLEAN : Enter(id, b)
        PROVE  JobsWake'
    BY <2>4 DEF JobsWake, AdminDispose, Dispose, Enter, queue
  <2>5. CASE UNCHANGED vars
    BY <2>5 DEF JobsWake, vars, queue
  <2> QED
    BY <2>1, <2>2, <2>3, <2>4, <2>5 DEF Next, Thread
<1> QED
  BY <1>1, <1>2, PTL DEF Spec

-----------------------------------------------------------------------------

\* While the calls of one bridge nest, m_lstCallstack is all of that bridge or,
\* once it has been disposed, all cleared: enter turns a disposed bridge away.
AllSame ==
    /\ \A i \in DOMAIN m_lstCallstack : m_lstCallstack[i] \in callers \cup {0}
    /\ \A i, j \in DOMAIN m_lstCallstack : m_lstCallstack[i] = m_lstCallstack[j]
    /\ \A i \in DOMAIN m_lstCallstack : m_lstCallstack[i] = 0 => callers \subseteq disposedIds

LetGo == m_lstCallstack # <<>> /\ m_lstCallstack[1] = 0

\* The condition is set for a job or for a disposed call, and only for these.
ConditionTrue ==
    /\ LetGo => m_cndWait
    /\ m_cndWait => m_lstJob # <<>> \/ LetGo
    /\ pc = "take" => m_cndWait

CountTrue == m_nToDo = Len(m_lstJob) + Running

CallsInv == AllSame /\ ConditionTrue /\ CountTrue

LEMMA InitCalls == Init => CallsInv
<1> SUFFICES ASSUME Init PROVE CallsInv
  OBVIOUS
<1>1. AllSame /\ ConditionTrue
  BY DEF Init, AllSame, ConditionTrue, LetGo
<1>2. CountTrue
  BY DEF Init, CountTrue, Running
<1> QED
  BY <1>1, <1>2 DEF CallsInv

(* The entries of m_lstCallstack stay of one kind. *)
LEMMA AllSameStep ==
    ASSUME OneCaller, TypeOK, AllSame, [Next]_vars
    PROVE  AllSame'
<1>1. CASE Loop \/ Wake \/ TakeDisposed \/ TakeJob \/ FinishRequest \/ FinishReply
           \/ AddReply \/ AddRequest \/ Suspend \/ Resume \/ UNCHANGED vars
  <2>1. UNCHANGED <<m_lstCallstack, callers, disposedIds>>
    BY <1>1 DEF Loop, Wake, TakeDisposed, TakeJob, FinishRequest, FinishReply, AddReply,
         AddRequest, Add, Suspend, Resume, vars, queue, bridges
  <2> QED
    BY <2>1 DEF AllSame
<1>2. CASE Return
  <2>1. m_lstCallstack \in Seq(Ids \cup {0}) /\ m_lstCallstack # <<>>
    BY <1>2 DEF TypeOK, Return
  <2>2. m_lstCallstack' = Tail(m_lstCallstack) /\ UNCHANGED <<callers, disposedIds>>
    BY <1>2 DEF Return, bridges
  <2> QED
    BY <2>1, <2>2, TailFacts DEF AllSame
<1>3. ASSUME NEW id \in Ids, NEW b \in BOOLEAN, Enter(id, b) PROVE AllSame'
  <2>1. /\ m_lstCallstack' = <<id>> \o m_lstCallstack /\ UNCHANGED <<callers, disposedIds>>
        /\ id \in callers /\ id \notin disposedIds
    BY <1>3 DEF Enter, bridges
  <2>2. m_lstCallstack \in Seq(Ids \cup {0}) /\ id \in Ids \cup {0}
    BY <1>3 DEF TypeOK
  <2>3. \A i \in DOMAIN m_lstCallstack : m_lstCallstack[i] = id
    BY <2>1 DEF OneCaller, AllSame
  <2>4. \A i \in DOMAIN m_lstCallstack' : m_lstCallstack'[i] = id
    BY <2>1, <2>2, <2>3, ConsFacts
  <2>5. id # 0
    BY IdAssumption
  <2> QED
    BY <2>1, <2>4, <2>5 DEF AllSame
<1>4. ASSUME NEW id \in Ids, AdminDispose(id) PROVE AllSame'
  BY <1>4 DEF AdminDispose, AllSame, queue
<1>5. ASSUME NEW id \in Ids, Dispose(id) PROVE AllSame'
  <2>1. /\ m_lstCallstack' = [i \in DOMAIN m_lstCallstack |->
                               IF m_lstCallstack[i] = id THEN 0 ELSE m_lstCallstack[i]]
        /\ UNCHANGED <<callers, disposedIds>> /\ id \in disposedIds
    BY <1>5 DEF Dispose, bridges
  <2>2. \A i \in DOMAIN m_lstCallstack : m_lstCallstack[i] = id => callers \subseteq disposedIds
    BY <2>1, IdAssumption DEF OneCaller, AllSame
  <2> QED
    BY <2>1, <2>2 DEF AllSame
<1> QED
  BY <1>1, <1>2, <1>3, <1>4, <1>5 DEF Next, Thread

(* What the condition means. *)
LEMMA ConditionStep ==
    ASSUME OneCaller, TypeOK, AllSame, ConditionTrue, [Next]_vars
    PROVE  ConditionTrue'
<1>0. /\ m_lstCallstack \in Seq(Ids \cup {0}) /\ m_lstJob \in Seq(Kinds)
      /\ Len(frames) = Len(m_lstCallstack) /\ frames \in Seq(Frame) /\ (pc = "out" <=> frames = <<>>)
  BY DEF TypeOK
<1>1. CASE Loop \/ Wake \/ FinishRequest \/ FinishReply \/ Suspend \/ UNCHANGED vars
  <2>1. /\ UNCHANGED <<m_lstCallstack, m_lstJob, m_cndWait>>
        /\ pc' = "take" => m_cndWait
    BY <1>1 DEF Loop, Wake, FinishRequest, FinishReply, AdminDispose, Suspend, vars, queue,
         thread, ConditionTrue
  <2> QED
    BY <2>1 DEF ConditionTrue, LetGo
<1>2. CASE TakeDisposed \/ TakeJob
  <2>1. frames # <<>> /\ m_lstCallstack # <<>> /\ Front = m_lstCallstack[1]
    BY <1>0, <1>2, TailFacts DEF TakeDisposed, TakeJob, Front
  <2>2. UNCHANGED m_lstCallstack /\ pc' # "take" /\ m_cndWait' = ConditionAfter(m_lstJob')
    BY <1>2 DEF TakeDisposed, TakeJob
  <2> QED
    BY <2>1, <2>2 DEF ConditionTrue, LetGo, ConditionAfter, TakeDisposed, TakeJob
<1>3. CASE Return
  <2>1. m_lstCallstack # <<>> /\ frames # <<>>
    BY <1>0, <1>3 DEF Return
  <2>2. m_lstCallstack' = Tail(m_lstCallstack) /\ pc' # "take" /\ m_lstJob' = m_lstJob
    BY <1>3 DEF Return
  <2>3. CASE Tail(frames) = <<>>
    <3>1. m_lstCallstack' = <<>>
      BY <1>0, <2>1, <2>2, <2>3, TailFacts
    <3>2. m_lstJob = <<>> => ~m_cndWait'
      BY <1>3, <2>3 DEF Return, Revoke
    <3> QED
      BY <2>2, <3>1, <3>2 DEF ConditionTrue, LetGo
  <2>4. CASE Tail(frames) # <<>>
    <3>1. m_lstCallstack' # <<>> /\ 1 \in DOMAIN m_lstCallstack'
      BY <1>0, <2>1, <2>2, <2>4, TailFacts
    <3>2. m_lstCallstack'[1] = m_lstCallstack[1]
      BY <1>0, <2>1, <2>2, <3>1, TailFacts DEF AllSame
    <3>3. m_cndWait' = m_cndWait
      BY <1>3, <2>4 DEF Return
    <3> QED
      BY <2>1, <2>2, <3>1, <3>2, <3>3 DEF ConditionTrue, LetGo
  <2> QED
    BY <2>3, <2>4
<1>4. ASSUME NEW id \in Ids, NEW b \in BOOLEAN, Enter(id, b) PROVE ConditionTrue'
  <2>1. /\ m_lstCallstack' = <<id>> \o m_lstCallstack /\ UNCHANGED <<m_lstJob, m_cndWait>>
        /\ id \in callers /\ id \notin disposedIds /\ pc' = "loop"
    BY <1>4 DEF Enter
  <2>2. ~LetGo
    BY <1>0, <2>1 DEF AllSame, LetGo
  <2>3. m_lstCallstack'[1] = id /\ id # 0
    BY <1>0, <2>1, ConsFacts, IdAssumption
  <2> QED
    BY <2>1, <2>2, <2>3 DEF ConditionTrue, LetGo
<1>5. ASSUME NEW id \in Ids, AdminDispose(id) PROVE ConditionTrue'
  BY <1>5 DEF AdminDispose, ConditionTrue, LetGo, queue, thread
<1>6. ASSUME NEW id \in Ids, Dispose(id) PROVE ConditionTrue'
  <2>1. /\ UNCHANGED <<m_lstJob, pc>>
        /\ m_cndWait' = (m_cndWait \/ (m_lstCallstack # <<>> /\ m_lstCallstack'[1] = 0))
    BY <1>6 DEF Dispose, thread
  <2>2. /\ m_lstCallstack' # <<>> <=> m_lstCallstack # <<>>
        /\ LetGo => m_lstCallstack'[1] = 0
    BY <1>0, <1>6, IdAssumption DEF Dispose, LetGo
  <2> QED
    BY <2>1, <2>2 DEF ConditionTrue, LetGo
<1>7. CASE AddReply \/ AddRequest
  <2>1. PICK kind \in Kinds : Add(kind)
    BY <1>7 DEF AddReply, AddRequest, Kinds
  <2>2. m_lstJob' # <<>>
    BY <1>0, <2>1 DEF Add
  <2> QED
    BY <2>1, <2>2 DEF Add, ConditionTrue, LetGo, thread
<1>8. CASE Resume
  BY <1>8 DEF Resume, ConditionTrue, LetGo, thread
<1> QED
  BY <1>1, <1>2, <1>3, <1>4, <1>5, <1>6, <1>7, <1>8 DEF Next, Thread

(* m_nToDo counts the jobs that wait and those that run.  Taking a job moves one
   from the first to the second, so there must be one. *)
LEMMA CountStep ==
    ASSUME TypeOK, ConditionTrue, CountTrue, [Next]_vars
    PROVE  CountTrue'
<1>0. /\ m_lstJob \in Seq(Kinds) /\ m_nToDo \in Int /\ Len(m_lstJob) \in Nat /\ Len(frames) \in Nat
      /\ Len(frames) = Len(m_lstCallstack) /\ frames \in Seq(Frame) /\ (pc = "out" <=> frames = <<>>)
      /\ m_lstCallstack \in Seq(Ids \cup {0})
  BY DEF TypeOK
<1>1. CASE Loop \/ Wake \/ TakeDisposed
  BY <1>0, <1>1 DEF Loop, Wake, TakeDisposed, CountTrue, Running, queue
<1>2. CASE TakeJob
  <2>1. m_lstCallstack # <<>> /\ Front = m_lstCallstack[1]
    BY <1>0, <1>2, TailFacts DEF TakeJob, Front
  <2>2. m_lstJob # <<>>
    BY <1>2, <2>1 DEF TakeJob, ConditionTrue, LetGo
  <2>3. m_lstJob' = Tail(m_lstJob) /\ Len(Tail(m_lstJob)) = Len(m_lstJob) - 1
    BY <1>0, <1>2, <2>2, TailFacts DEF TakeJob
  <2>4. UNCHANGED <<m_nToDo, frames>> /\ pc' \in {"run", "reply"} /\ pc = "take"
    BY <1>2 DEF TakeJob
  <2>5. Running = Len(frames) - 1 /\ Running' = Len(frames)
    BY <2>4 DEF Running
  <2>6. Len(m_lstJob') = Len(m_lstJob) - 1
    BY <2>3
  <2> QED
    BY <1>0, <2>4, <2>5, <2>6 DEF CountTrue
<1>3. CASE FinishRequest \/ FinishReply
  BY <1>0, <1>3 DEF FinishRequest, FinishReply, CountTrue, Running
<1>4. CASE Return
  <2>1. frames # <<>> /\ pc = "pop" /\ frames' = Tail(frames) /\ m_lstJob' = m_lstJob
        /\ pc' = IF Tail(frames) = <<>> THEN "out" ELSE "run"
    BY <1>0, <1>4 DEF Return
  <2>2. Len(frames') = Len(frames) - 1
    BY <1>0, <2>1, TailFacts
  <2>3. Running' = Len(frames) - 1 /\ Running = Len(frames) - 1
    BY <2>1, <2>2 DEF Running
  <2>4. CASE Tail(frames) = <<>> /\ m_lstJob = <<>>
    <3>1. m_nToDo' = 0 /\ m_lstJob' = <<>> /\ frames' = <<>>
      BY <1>4, <2>1, <2>4 DEF Return, Revoke
    <3>2. Len(m_lstJob') = 0 /\ Len(frames') = 0
      BY <3>1
    <3> QED
      BY <1>0, <2>2, <2>3, <3>1, <3>2 DEF CountTrue
  <2>5. CASE ~(Tail(frames) = <<>> /\ m_lstJob = <<>>)
    BY <1>4, <2>1, <2>3, <2>5 DEF Return, CountTrue
  <2> QED
    BY <2>4, <2>5
<1>5. ASSUME NEW id \in Ids, NEW b \in BOOLEAN, Enter(id, b) PROVE CountTrue'
  <2> DEFINE f == [whenNoJob |-> b, depth |-> solar]
  <2>1. frames' = <<f>> \o frames /\ pc \in {"out", "run"} /\ pc' = "loop" /\ UNCHANGED <<m_nToDo, m_lstJob>>
    BY <1>5 DEF Enter
  <2>2. f \in Frame
    BY DEF TypeOK, Frame
  <2> HIDE DEF f
  <2>3. Len(frames') = Len(frames) + 1
    BY <1>0, <2>1, <2>2, ConsFacts
  <2>4. Running = Len(frames) /\ Running' = Len(frames)
    BY <1>0, <2>1, <2>3 DEF Running
  <2> QED
    BY <1>0, <2>1, <2>4 DEF CountTrue
<1>6. CASE AddReply \/ AddRequest
  <2>1. PICK kind \in Kinds : Add(kind)
    BY <1>6 DEF AddReply, AddRequest, Kinds
  <2>2. Len(m_lstJob') = Len(m_lstJob) + 1
    BY <1>0, <2>1 DEF Add
  <2> QED
    BY <1>0, <2>1, <2>2 DEF Add, CountTrue, Running, thread
<1>7. CASE Suspend \/ Resume \/ UNCHANGED vars \/ \E id \in Ids : AdminDispose(id) \/ Dispose(id)
  BY <1>7 DEF Suspend, Resume, AdminDispose, Dispose, CountTrue, Running, vars, queue, thread
<1> QED
  BY <1>1, <1>2, <1>3, <1>4, <1>5, <1>6, <1>7 DEF Next, Thread

(* How many bridges call through the thread does not change. *)
LEMMA OneCallerStays ==
    ASSUME [Next]_vars
    PROVE  OneCaller' = OneCaller
<1>1. callers' = callers
  BY DEF Next, Thread, Loop, Wake, TakeDisposed, TakeJob, FinishRequest, FinishReply, Return,
       Enter, AddReply, AddRequest, Add, AdminDispose, Dispose, Suspend, Resume, vars, bridges
<1> QED
  BY <1>1 DEF OneCaller

(* A call that is let go does not wait, one that is woken finds a job or has been
   disposed, and isBusy tells the truth: as long as one bridge makes the calls,
   however deep they nest and whenever it is disposed. *)
THEOREM CallsRight == Spec => []CallsAreRight
<1>1. IInv /\ (OneCaller => CallsInv) /\ [Next]_vars => (OneCaller => CallsInv)'
  BY OneCallerStays, AllSameStep, ConditionStep, CountStep DEF CallsInv, IInv
<1>2. IInv /\ (OneCaller => CallsInv) => CallsAreRight
  <2> SUFFICES ASSUME IInv, OneCaller, CallsInv PROVE CallsAreRight
    BY DEF CallsAreRight
  <2>1. pc \in {"wait", "take"} => m_lstCallstack # <<>> /\ Front = m_lstCallstack[1]
    <3>1. /\ m_lstCallstack \in Seq(Ids \cup {0}) /\ Len(frames) = Len(m_lstCallstack)
          /\ frames \in Seq(Frame) /\ (pc = "out" <=> frames = <<>>)
      BY DEF IInv, TypeOK
    <3> QED
      BY <3>1, TailFacts DEF Front
  <2> QED
    BY <2>1 DEF CallsInv, ConditionTrue, LetGo, CountTrue, CallsAreRight
<1> QED
  BY <1>1, <1>2, IInvHolds, InitCalls, PTL DEF Spec


=============================================================================
