-------------------------- MODULE OfficeIPCProofs ---------------------------
(***************************************************************************)
(* What holds of OfficeIPC for any number of clients, any requests and any *)
(* depth of nested executions: the types, that the count of pending        *)
(* requests is exact, and that nobody is told that a request was processed *)
(* which was not.                                                          *)
(***************************************************************************)
EXTENDS OfficeIPC, SequenceTheorems, FiniteSetTheorems, TLAPS

-----------------------------------------------------------------------------
(* Stacks                                                                  *)

(* A stack, innermost element first: what pushing leaves ... *)
LEMMA PushFacts ==
    ASSUME NEW S, NEW s \in Seq(S), NEW x \in S
    PROVE  /\ <<x>> \o s \in Seq(S) /\ <<x>> \o s # <<>> /\ Len(<<x>> \o s) = Len(s) + 1
           /\ (<<x>> \o s)[1] = x
           /\ \A i \in 1..Len(s) + 1 : i # 1 => i - 1 \in 1..Len(s) /\ (<<x>> \o s)[i] = s[i - 1]
<1>1. <<x>> \in Seq(S) /\ Len(<<x>>) = 1 /\ <<x>>[1] = x /\ Len(s) \in Nat
  BY LenProperties
<1>2. /\ <<x>> \o s \in Seq(S) /\ Len(<<x>> \o s) = 1 + Len(s)
      /\ \A i \in 1..1 + Len(s) : (<<x>> \o s)[i] = IF i <= 1 THEN <<x>>[i] ELSE s[i - 1]
  BY <1>1, ConcatProperties
<1>3. <<x>> \o s # <<>>
  BY <1>1, <1>2, EmptySeq
<1> QED
  BY <1>1, <1>2, <1>3

(* ... and popping, ... *)
LEMMA PopFacts ==
    ASSUME NEW S, NEW s \in Seq(S), s # <<>>
    PROVE  /\ Len(s) \in Nat /\ Len(s) >= 1 /\ Head(s) = s[1] /\ s[1] \in S
           /\ Tail(s) \in Seq(S) /\ Len(Tail(s)) = Len(s) - 1
           /\ \A i \in 1..Len(s) - 1 : i + 1 \in 1..Len(s) /\ Tail(s)[i] = s[i + 1]
<1>1. Len(s) \in Nat /\ Len(s) >= 1
  BY EmptySeq, LenProperties
<1>2. s[1] \in S
  BY <1>1, ElementOfSeq
<1>3. Head(s) = s[1]
  OBVIOUS
<1> QED
  BY <1>1, <1>2, <1>3, HeadTailProperties

(* ... and replacing its top. *)
LEMMA SwapFacts ==
    ASSUME NEW S, NEW s \in Seq(S), s # <<>>, NEW x \in S
    PROVE  /\ <<x>> \o Tail(s) \in Seq(S) /\ <<x>> \o Tail(s) # <<>> /\ Len(<<x>> \o Tail(s)) = Len(s)
           /\ (<<x>> \o Tail(s))[1] = x
           /\ \A i \in 1..Len(s) : i # 1 => (<<x>> \o Tail(s))[i] = s[i]
<1>1. /\ Len(s) \in Nat /\ Len(s) >= 1 /\ Tail(s) \in Seq(S) /\ Len(Tail(s)) = Len(s) - 1
      /\ \A i \in 1..Len(s) - 1 : Tail(s)[i] = s[i + 1]
  BY PopFacts
<1> DEFINE t == Tail(s)
           u == <<x>> \o t
<1>2. /\ u \in Seq(S) /\ u # <<>> /\ Len(u) = Len(t) + 1 /\ u[1] = x
      /\ \A i \in 1..Len(t) + 1 : i # 1 => i - 1 \in 1..Len(t) /\ u[i] = t[i - 1]
  BY <1>1, PushFacts
<1> HIDE DEF t, u
<1>3. Len(u) = Len(s)
  BY <1>1, <1>2 DEF t
<1>4. ASSUME NEW i \in 1..Len(s), i # 1 PROVE u[i] = s[i]
  <2>1. u[i] = t[i - 1] /\ i - 1 \in 1..Len(s) - 1
    BY <1>1, <1>2, <1>4 DEF t
  <2>2. t[i - 1] = s[i - 1 + 1]
    BY <1>1, <2>1 DEF t
  <2> QED BY <2>1, <2>2
<1> QED
  BY <1>2, <1>3, <1>4 DEF u, t

(* What is in a stack then. *)
LEMMA StackRange ==
    ASSUME NEW S, NEW s \in Seq(S), NEW x \in S
    PROVE  /\ Range(<<x>> \o s) \subseteq {x} \cup Range(s)
           /\ s # <<>> => /\ Head(s) \in Range(s) /\ Range(Tail(s)) \subseteq Range(s)
                         /\ Range(<<x>> \o Tail(s)) \subseteq {x} \cup Range(s)
<1>1. Range(<<x>> \o s) \subseteq {x} \cup Range(s)
  <2> DEFINE t == <<x>> \o s
  <2>1. /\ t \in Seq(S) /\ Len(t) = Len(s) + 1 /\ t[1] = x
        /\ \A i \in 1..Len(s) + 1 : i # 1 => i - 1 \in 1..Len(s) /\ t[i] = s[i - 1]
    BY PushFacts
  <2> HIDE DEF t
  <2>2. DOMAIN t = 1..Len(s) + 1 /\ DOMAIN s = 1..Len(s)
    BY <2>1, LenProperties
  <2>3. \A i \in DOMAIN t : t[i] = x \/ \E j \in DOMAIN s : t[i] = s[j]
    BY <2>1, <2>2
  <2>4. Range(t) \subseteq {x} \cup Range(s)
    BY <2>3 DEF Range
  <2> QED BY <2>4 DEF t
<1>2. ASSUME s # <<>>
      PROVE  /\ Head(s) \in Range(s) /\ Range(Tail(s)) \subseteq Range(s)
             /\ Range(<<x>> \o Tail(s)) \subseteq {x} \cup Range(s)
  <2> DEFINE t == Tail(s)
             u == <<x>> \o t
  <2>1. /\ Len(s) \in Nat /\ Len(s) >= 1 /\ Head(s) = s[1]
        /\ t \in Seq(S) /\ Len(t) = Len(s) - 1 /\ \A i \in 1..Len(s) - 1 : i + 1 \in 1..Len(s) /\ t[i] = s[i + 1]
    BY <1>2, PopFacts
  <2>2. /\ u \in Seq(S) /\ Len(u) = Len(s) /\ u[1] = x /\ \A i \in 1..Len(s) : i # 1 => u[i] = s[i]
    BY <1>2, SwapFacts
  <2>3. DOMAIN s = 1..Len(s) /\ DOMAIN t = 1..Len(s) - 1 /\ DOMAIN u = 1..Len(s)
    BY <2>1, <2>2, LenProperties
  <2> HIDE DEF t, u
  <2>4. Head(s) \in Range(s)
    <3>1. 1 \in DOMAIN s
      BY <2>1, <2>3
    <3> QED BY <2>1, <3>1 DEF Range
  <2>5. Range(t) \subseteq Range(s)
    <3>1. \A i \in DOMAIN t : i + 1 \in DOMAIN s /\ t[i] = s[i + 1]
      BY <2>1, <2>3
    <3> QED BY <3>1 DEF Range
  <2>6. Range(u) \subseteq {x} \cup Range(s)
    BY <2>2, <2>3 DEF Range
  <2> QED BY <2>4, <2>5, <2>6 DEF t, u
<1> QED
  BY <1>1, <1>2

(* A sequence whose elements all are in T. *)
LEMMA SeqWithin ==
    ASSUME NEW S, NEW s \in Seq(S), NEW T, Range(s) \subseteq T
    PROVE  s \in Seq(T)
<1>1. Len(s) \in Nat /\ s \in [1..Len(s) -> S] /\ DOMAIN s = 1..Len(s)
  BY LenProperties
<1>2. \A i \in 1..Len(s) : s[i] \in T
  BY <1>1 DEF Range
<1>3. s \in [1..Len(s) -> T]
  BY <1>1, <1>2
<1> QED
  BY <1>1, <1>3, SeqDef

-----------------------------------------------------------------------------
(* Types                                                                   *)

Stages == {"taken", "begun", "tried"}

(* An execution stays one, whichever of its parts changes. *)
LEMMA FrameParts ==
    ASSUME NEW f \in Frame
    PROVE  /\ f.work \in Seq(Kinds) /\ f.loading \in BOOLEAN /\ f.dispatches \in Seq(Kinds)
           /\ f.answer \in Clients \cup {Nobody} /\ f.stage \in Stages
  BY DEF Frame, Stages

LEMMA FrameStaged ==
    ASSUME NEW f \in Frame, NEW s \in Stages
    PROVE  /\ [f EXCEPT !.stage = s] \in Frame
           /\ [f EXCEPT !.stage = s].stage = s /\ [f EXCEPT !.stage = s].work = f.work
           /\ [f EXCEPT !.stage = s].loading = f.loading /\ [f EXCEPT !.stage = s].dispatches = f.dispatches
           /\ [f EXCEPT !.stage = s].answer = f.answer /\ [f EXCEPT !.stage = s].caller = f.caller
  BY DEF Frame, Stages

LEMMA FrameLoading ==
    ASSUME NEW f \in Frame
    PROVE  /\ [f EXCEPT !.loading = TRUE] \in Frame
           /\ [f EXCEPT !.loading = TRUE].work = f.work
           /\ [f EXCEPT !.loading = TRUE].dispatches = f.dispatches
           /\ [f EXCEPT !.loading = TRUE].answer = f.answer /\ [f EXCEPT !.loading = TRUE].caller = f.caller
  BY DEF Frame

\* f without the first of the requests not yet looked at, ...
Looked(f) == [f EXCEPT !.work = Tail(@)]
LEMMA FrameLooked ==
    ASSUME NEW f \in Frame, f.work # <<>>
    PROVE  /\ Looked(f) \in Frame /\ Looked(f).work = Tail(f.work) /\ Looked(f).loading = f.loading
           /\ Looked(f).dispatches = f.dispatches
           /\ Looked(f).answer = f.answer /\ Looked(f).caller = f.caller
<1> DEFINE w == Tail(f.work)
<1>1. w \in Seq(Kinds)
  BY FrameParts, PopFacts
<1>2. Looked(f) = [f EXCEPT !.work = w]
  BY DEF Looked
<1> HIDE DEF w
<1>3. [f EXCEPT !.work = w] \in Frame /\ [f EXCEPT !.work = w].work = w
      /\ [f EXCEPT !.work = w].loading = f.loading /\ [f EXCEPT !.work = w].dispatches = f.dispatches
      /\ [f EXCEPT !.work = w].answer = f.answer /\ [f EXCEPT !.work = w].caller = f.caller
  BY <1>1 DEF Frame
<1> QED
  BY <1>2, <1>3 DEF w

\* ... after a document was loaded ...
LoadedOf(f) == [f EXCEPT !.loading = FALSE, !.work = Tail(@)]
LEMMA FrameLoaded ==
    ASSUME NEW f \in Frame, f.work # <<>>
    PROVE  /\ LoadedOf(f) \in Frame /\ LoadedOf(f).work = Tail(f.work) /\ LoadedOf(f).loading = FALSE
           /\ LoadedOf(f).dispatches = f.dispatches
           /\ LoadedOf(f).answer = f.answer /\ LoadedOf(f).caller = f.caller
<1> DEFINE w == Tail(f.work)
           g == [f EXCEPT !.loading = FALSE]
<1>1. w \in Seq(Kinds)
  BY FrameParts, PopFacts
<1>2. g \in Frame /\ g.loading = FALSE /\ g.work = f.work /\ g.dispatches = f.dispatches
      /\ g.answer = f.answer /\ g.caller = f.caller
  BY DEF Frame
<1>3. LoadedOf(f) = [g EXCEPT !.work = w]
  BY DEF LoadedOf, Frame
<1> HIDE DEF w, g
<1>4. [g EXCEPT !.work = w] \in Frame /\ [g EXCEPT !.work = w].work = w
      /\ [g EXCEPT !.work = w].loading = g.loading /\ [g EXCEPT !.work = w].dispatches = g.dispatches
      /\ [g EXCEPT !.work = w].answer = g.answer /\ [g EXCEPT !.work = w].caller = g.caller
  BY <1>1, <1>2 DEF Frame
<1> QED
  BY <1>2, <1>3, <1>4 DEF w

\* ... or with a dispatch that is put off, and without the first of those.
PutOff(f, kind) == [Looked(f) EXCEPT !.dispatches = Append(@, kind)]
LEMMA FramePutOff ==
    ASSUME NEW f \in Frame, f.work # <<>>, NEW kind \in Kinds
    PROVE  /\ PutOff(f, kind) \in Frame /\ PutOff(f, kind).work = Tail(f.work)
           /\ PutOff(f, kind).loading = f.loading
           /\ PutOff(f, kind).dispatches = Append(f.dispatches, kind)
           /\ PutOff(f, kind).answer = f.answer /\ PutOff(f, kind).caller = f.caller
<1> DEFINE g == Looked(f)
           d == Append(f.dispatches, kind)
<1>1. /\ g \in Frame /\ g.work = Tail(f.work) /\ g.loading = f.loading /\ g.dispatches = f.dispatches
      /\ g.answer = f.answer /\ g.caller = f.caller
  BY FrameLooked
<1>2. d \in Seq(Kinds)
  BY FrameParts, AppendProperties
<1>3. PutOff(f, kind) = [g EXCEPT !.dispatches = d]
  BY <1>1 DEF PutOff
<1> HIDE DEF g, d
<1>4. /\ [g EXCEPT !.dispatches = d] \in Frame /\ [g EXCEPT !.dispatches = d].work = g.work
      /\ [g EXCEPT !.dispatches = d].loading = g.loading /\ [g EXCEPT !.dispatches = d].dispatches = d
      /\ [g EXCEPT !.dispatches = d].answer = g.answer /\ [g EXCEPT !.dispatches = d].caller = g.caller
  BY <1>1, <1>2 DEF Frame
<1> QED
  BY <1>1, <1>3, <1>4 DEF d

Dispatched(f) == [f EXCEPT !.dispatches = Tail(@)]
LEMMA FrameDispatched ==
    ASSUME NEW f \in Frame, f.dispatches # <<>>
    PROVE  /\ Dispatched(f) \in Frame /\ Dispatched(f).work = f.work /\ Dispatched(f).loading = f.loading
           /\ Dispatched(f).dispatches = Tail(f.dispatches)
           /\ Dispatched(f).answer = f.answer /\ Dispatched(f).caller = f.caller
<1> DEFINE d == Tail(f.dispatches)
<1>1. d \in Seq(Kinds)
  BY FrameParts, PopFacts
<1>2. Dispatched(f) = [f EXCEPT !.dispatches = d]
  BY DEF Dispatched
<1> HIDE DEF d
<1>3. /\ [f EXCEPT !.dispatches = d] \in Frame /\ [f EXCEPT !.dispatches = d].work = f.work
      /\ [f EXCEPT !.dispatches = d].loading = f.loading /\ [f EXCEPT !.dispatches = d].dispatches = d
      /\ [f EXCEPT !.dispatches = d].answer = f.answer /\ [f EXCEPT !.dispatches = d].caller = f.caller
  BY <1>1 DEF Frame
<1> QED
  BY <1>2, <1>3 DEF d

\* The requests that are taken together, and their execution.
All(requests) == aDispatchList \o requests
Fresh(requests, answer, caller) ==
    [work |-> All(requests), loading |-> FALSE, dispatches |-> <<>>, answer |-> answer,
     caller |-> caller, stage |-> "taken"]
Callers == {"event", "enable", "open"}

LEMMA FreshFrame ==
    ASSUME TypeOK, NEW requests \in Seq(Kinds), NEW answer \in Clients \cup {Nobody}, NEW caller \in Callers
    PROVE  /\ All(requests) \in Seq(Kinds) /\ Fresh(requests, answer, caller) \in Frame
<1>1. All(requests) \in Seq(Kinds)
  BY ConcatProperties DEF TypeOK, All
<1>2. <<>> \in Seq(Kinds)
  BY EmptySeq
<1> QED
  BY <1>1, <1>2 DEF Fresh, Frame, Callers

(* What ExecuteCmdLineRequests does: it takes everything that waits, or lets *)
(* it all wait.                                                              *)
LEMMA Executes ==
    ASSUME NEW requests, NEW answer, NEW caller, NEW enabled, Execute(requests, answer, caller, enabled)
    PROVE  \/ /\ pGlobalOfficeIPCThread /\ enabled /\ aDispatchList' = <<>>
              /\ mnPendingRequests' = mnPendingRequests + Len(All(requests))
              /\ frames' = <<Fresh(requests, answer, caller)>> \o frames
           \/ /\ ~(pGlobalOfficeIPCThread /\ enabled)
              /\ aDispatchList' = All(requests) /\ mnPendingRequests' = mnPendingRequests /\ frames' = frames
<1>1. CASE pGlobalOfficeIPCThread /\ enabled
  BY <1>1 DEF Execute, All, Fresh
<1>2. CASE ~(pGlobalOfficeIPCThread /\ enabled)
  BY <1>2 DEF Execute, All, Fresh
<1> QED
  BY <1>1, <1>2

LEMMA ExecuteTypes ==
    ASSUME TypeOK, NEW requests \in Seq(Kinds), NEW answer \in Clients \cup {Nobody}, NEW caller \in Callers,
           NEW enabled, Execute(requests, answer, caller, enabled)
    PROVE  mnPendingRequests' \in Int /\ aDispatchList' \in Seq(Kinds) /\ frames' \in Seq(Frame)
<1>1. All(requests) \in Seq(Kinds) /\ Fresh(requests, answer, caller) \in Frame
  BY FreshFrame
<1>2. /\ mnPendingRequests \in Int /\ frames \in Seq(Frame)
      /\ mnPendingRequests + Len(All(requests)) \in Int /\ <<>> \in Seq(Kinds)
  BY <1>1, LenProperties, EmptySeq DEF TypeOK
<1>3. <<Fresh(requests, answer, caller)>> \o frames \in Seq(Frame)
  BY <1>1, <1>2, PushFacts
<1> DEFINE all == All(requests)
           frame == Fresh(requests, answer, caller)
<1>4. \/ /\ pGlobalOfficeIPCThread /\ enabled /\ aDispatchList' = <<>>
         /\ mnPendingRequests' = mnPendingRequests + Len(all) /\ frames' = <<frame>> \o frames
      \/ /\ ~(pGlobalOfficeIPCThread /\ enabled)
         /\ aDispatchList' = all /\ mnPendingRequests' = mnPendingRequests /\ frames' = frames
  BY Executes
<1> HIDE DEF all, frame
<1> QED
  BY <1>1, <1>2, <1>3, <1>4 DEF all, frame

LEMMA Sent ==
    ASSUME TypeOK
    PROVE  /\ \A l \in scenario.lists : l \in Seq(Kinds)
           /\ \A c \in Clients : list[c] \in scenario.lists /\ list[c] \in Seq(Kinds)
           /\ <<>> \in Seq(Kinds) /\ <<"doc">> \in Seq(Kinds) /\ <<"doc">> \in Seq({"doc"})
<1>1. scenario.lists \subseteq Seq(Kinds)
  BY ScenarioAssumption DEF TypeOK
<1>2. \A c \in Clients : list[c] \in scenario.lists
  BY DEF TypeOK
<1>3. <<"doc">> \in Seq(Kinds) /\ <<"doc">> \in Seq({"doc"})
  BY DEF Kinds
<1> QED
  BY <1>1, <1>2, <1>3, EmptySeq

(* The flags are flags. *)
Flags == /\ {pGlobalOfficeIPCThread, mbDowning, mbRequestsEnabled, cReady, cProcessed, maPipe} \subseteq BOOLEAN
         /\ {exits, quit, crashed} \subseteq BOOLEAN
Numbers == /\ mnPendingRequests \in Int /\ m_nRequestCount \in Int /\ running \in Nat /\ opens \in 0..MaxOpens
Executions == aDispatchList \in Seq(Kinds) /\ frames \in Seq(Frame)
Peer == /\ ipc \in {"accept", "ready", "lock", "read", "wait", "reply", "ended"}
        /\ serving \in Clients \cup {Nobody}
        /\ (serving = Nobody) <=> (ipc \in {"accept", "ended"})
        /\ client \in [Clients -> {"out", "connected", "asked", "sent", "ok", "failed", "first", "dead"}]
        /\ list \in [Clients -> scenario.lists] /\ scenario \in Scenarios
        /\ events \in Seq(Clients) /\ executed \subseteq Clients
Places == /\ mutex \in {"free", "ipc", "main"} /\ startup \in {"start", "enabled", "opened", "ready"}
          /\ quitting \in {"no", "query", "downing", "disable", "join", "down"}

LEMMA TypeParts ==
    TypeOK <=> Flags /\ Numbers /\ Executions /\ Peer /\ Places
  BY DEF TypeOK, Flags, Numbers, Executions, Peer, Places
LEMMA TypePartsNext ==
    TypeOK' <=> Flags' /\ Numbers' /\ Executions' /\ Peer' /\ Places'
  BY DEF TypeOK, Flags, Numbers, Executions, Peer, Places

(* A step of a client. *)
LEMMA ClientTypes ==
    ASSUME TypeOK, NEW c \in Clients, Client(c)
    PROVE  TypeOK'
<1>1. /\ UNCHANGED <<thread, conditions, counts, mutex, ipc, serving, list, events, main>>
      /\ \E to \in {"connected", "sent", "dead", "first", "failed"} : client' = [client EXCEPT ![c] = to]
  BY DEF Client, Connect, Send, Die, TakeOver, Fail, Become
<1> HIDE DEF Client
<1>2. Flags' /\ Numbers' /\ Executions' /\ Places'
  BY <1>1, TypeParts DEF Flags, Numbers, Executions, Places, thread, conditions, counts, main
<1>3. Peer'
  BY <1>1, TypeParts DEF Peer, thread, main
<1> QED
  BY <1>2, <1>3, TypePartsNext

(* A step of the listening thread. *)
LEMMA ListenerTypes ==
    ASSUME TypeOK, Listener
    PROVE  TypeOK'
<1> USE NobodyAssumption
<1>1. ASSUME NEW c \in Clients, Accept(c) PROVE TypeOK'
  <2>1. Flags' /\ Numbers' /\ Executions' /\ Places'
    BY <1>1, TypeParts DEF Accept, Go, Flags, Numbers, Executions, Places, thread, conditions, counts, main
  <2>2. Peer'
    BY <1>1, TypeParts DEF Accept, Go, Peer, thread, main
  <2> QED BY <2>1, <2>2, TypePartsNext
<1>2. ASSUME AcceptFails PROVE TypeOK'
  <2>1. Flags' /\ Numbers' /\ Executions' /\ Places'
    BY <1>2, TypeParts DEF AcceptFails, Go, Flags, Numbers, Executions, Places, thread, conditions, counts, main
  <2>2. Peer'
    BY <1>2, TypeParts DEF AcceptFails, Go, Peer, thread, main
  <2> QED BY <2>1, <2>2, TypePartsNext
<1>3. ASSUME Ready PROVE TypeOK'
  <2>1. Flags' /\ Numbers' /\ Executions' /\ Places'
    BY <1>3, TypeParts DEF Ready, Go, Flags, Numbers, Executions, Places, thread, conditions, counts, main
  <2>2. Peer'
    BY <1>3, TypeParts DEF Ready, Go, Peer, thread, main
  <2> QED BY <2>1, <2>2, TypePartsNext
<1>4. ASSUME Ask PROVE TypeOK'
  <2>1. Flags' /\ Numbers' /\ Executions' /\ Places'
    BY <1>4, TypeParts DEF Ask, Flags, Numbers, Executions, Places, thread, conditions, counts, main
  <2>2. Peer'
    BY <1>4, TypeParts DEF Ask, Peer, thread, main
  <2> QED BY <2>1, <2>2, TypePartsNext
<1>5. ASSUME LockDowning PROVE TypeOK'
  <2>1. Flags' /\ Numbers' /\ Executions' /\ Places'
    BY <1>5, TypeParts DEF LockDowning, Go, Flags, Numbers, Executions, Places, thread, conditions, counts, main
  <2>2. Peer'
    BY <1>5, TypeParts DEF LockDowning, Go, Peer, thread, main
  <2> QED BY <2>1, <2>2, TypePartsNext
<1>6. ASSUME Post PROVE TypeOK'
  <2>1. Flags' /\ Numbers' /\ Executions' /\ Places'
    <3>1. cProcessed' = cProcessed \/ cProcessed' = FALSE
      BY <1>6 DEF Post
    <3>2. Flags'
      BY <1>6, <3>1, TypeParts DEF Post, Flags, thread, main
    <3> QED
      BY <1>6, <3>2, TypeParts DEF Post, Numbers, Executions, Places, thread, counts, main
  <2>2. serving \in Clients
    <3>1. ipc = "read" /\ Peer
      BY <1>6, TypeParts DEF Post
    <3>2. serving \in Clients \cup {Nobody} /\ serving # Nobody
      BY <3>1 DEF Peer
    <3> QED BY <3>2
  <2>3. events' \in Seq(Clients)
    <3>1. Append(events, serving) \in Seq(Clients)
      BY <2>2, AppendProperties, TypeParts DEF Peer
    <3> QED BY <1>6, <3>1, TypeParts DEF Post, Peer
  <2>4. Peer'
    BY <1>6, <2>3, TypeParts DEF Post, Peer, thread, main
  <2> QED BY <2>1, <2>4, TypePartsNext
<1>7. ASSUME ReadNothing PROVE TypeOK'
  <2>1. Flags' /\ Numbers' /\ Executions' /\ Places'
    BY <1>7, TypeParts DEF ReadNothing, Flags, Numbers, Executions, Places, thread, conditions, counts, main
  <2>2. Peer'
    BY <1>7, TypeParts DEF ReadNothing, Peer, thread, main
  <2> QED BY <2>1, <2>2, TypePartsNext
<1>8. ASSUME Wait PROVE TypeOK'
  <2>1. Flags' /\ Numbers' /\ Executions' /\ Places'
    BY <1>8, TypeParts DEF Wait, Go, Flags, Numbers, Executions, Places, thread, conditions, counts, main
  <2>2. Peer'
    BY <1>8, TypeParts DEF Wait, Go, Peer, thread, main
  <2> QED BY <2>1, <2>2, TypePartsNext
<1>9. ASSUME Reply PROVE TypeOK'
  <2>1. Flags' /\ Numbers' /\ Executions' /\ Places'
    BY <1>9, TypeParts DEF Reply, Go, Flags, Numbers, Executions, Places, thread, conditions, counts, main
  <2>2. Peer'
    BY <1>9, TypeParts DEF Reply, Go, Peer, thread, main
  <2> QED BY <2>1, <2>2, TypePartsNext
<1> QED
  BY <1>1, <1>2, <1>3, <1>4, <1>5, <1>6, <1>7, <1>8, <1>9 DEF Listener, Listen, Serve

(* What a step of an execution does to it: its frame is replaced, or popped. *)
Replaced == /\ frames \in Seq(Frame) /\ frames # <<>>
            /\ \E g \in Frame : frames' = <<g>> \o Tail(frames)
Popped == /\ frames \in Seq(Frame) /\ frames # <<>> /\ frames' = Tail(frames)

LEMMA TopFrame ==
    ASSUME TypeOK, frames # <<>>
    PROVE  /\ frames \in Seq(Frame) /\ Top \in Frame /\ Top = frames[1] /\ Top \in Range(frames) /\ Len(frames) \in Nat /\ Len(frames) >= 1
           /\ Tail(frames) \in Seq(Frame) /\ Range(Tail(frames)) \subseteq Range(frames)
<1>1. frames \in Seq(Frame)
  BY DEF TypeOK
<1>2. /\ Len(frames) \in Nat /\ Len(frames) >= 1 /\ Top = frames[1] /\ Top \in Frame
      /\ Tail(frames) \in Seq(Frame)
  BY <1>1, PopFacts DEF Top
<1>3. Top \in Range(frames) /\ Range(Tail(frames)) \subseteq Range(frames)
  BY <1>1, <1>2, StackRange DEF Top
<1> QED
  BY <1>1, <1>2, <1>3

LEMMA FramesTyped ==
    ASSUME TypeOK, Replaced \/ Popped
    PROVE  frames' \in Seq(Frame)
<1>1. CASE Replaced
  <2>1. PICK g \in Frame : frames' = <<g>> \o Tail(frames)
    BY <1>1 DEF Replaced
  <2>2. <<g>> \o Tail(frames) \in Seq(Frame)
    BY <1>1, SwapFacts DEF Replaced
  <2> QED BY <2>1, <2>2
<1>2. CASE Popped
  <2>1. Tail(frames) \in Seq(Frame)
    BY <1>2, PopFacts DEF Popped
  <2> QED BY <1>2, <2>1 DEF Popped
<1> QED
  BY <1>1, <1>2

(* An execution only ever loads a document that is still to be looked at. *)
LoadInv == \A f \in Range(frames) : f.loading => f.work # <<>>

\* What the steps of an execution make of its frame.
LEMMA WorkFrames ==
    ASSUME TypeOK, LoadInv, Work
    PROVE  /\ frames \in Seq(Frame) /\ frames # <<>> /\ Top \in Frame
           /\ \/ CallWatcher /\ frames' = <<[Top EXCEPT !.stage = "begun"]>> \o Tail(frames)
              \/ /\ Request /\ Top.work # <<>> /\ ~Top.loading
                 /\ \/ Head(Top.work) = "doc" /\ frames' = <<[Top EXCEPT !.loading = TRUE]>> \o Tail(frames)
                    \/ Head(Top.work) \in {"filter", "none", "service"} /\ frames' = <<Looked(Top)>> \o Tail(frames)
                    \/ /\ Head(Top.work) \in {"async", "plain"}
                       /\ frames' = <<PutOff(Top, Head(Top.work))>> \o Tail(frames)
              \/ Loaded /\ Top.loading /\ Top.work # <<>> /\ frames' = <<LoadedOf(Top)>> \o Tail(frames)
              \/ /\ Dispatch /\ Top.work = <<>> /\ Top.dispatches # <<>>
                 /\ frames' = <<Dispatched(Top)>> \o Tail(frames)
              \/ /\ TryTerminate /\ Top.work = <<>> /\ Top.dispatches = <<>>
                 /\ frames' = <<[Top EXCEPT !.stage = "tried"]>> \o Tail(frames)
              \/ Finish /\ Top.work = <<>> /\ Top.dispatches = <<>> /\ frames' = Tail(frames)
<1>1. frames # <<>>
  BY DEF Work, CallWatcher, Request, Loaded, Dispatch, TryTerminate, Finish, Finishing, Busy
<1>2. frames \in Seq(Frame) /\ Top \in Frame /\ Top \in Range(frames)
  BY <1>1, TopFrame
<1>3. CASE CallWatcher
  BY <1>1, <1>2, <1>3 DEF CallWatcher, Replace
<1>4. CASE Request
  <2> DEFINE kind == Head(Top.work)
             rest == [Top EXCEPT !.work = Tail(@)]
  <2>1. \/ kind = "doc" /\ Replace([Top EXCEPT !.loading = TRUE])
        \/ kind = "filter" /\ Replace(rest)
        \/ kind \in {"async", "plain"} /\ Replace([rest EXCEPT !.dispatches = Append(@, kind)])
        \/ kind = "none" /\ Replace(rest)
        \/ kind = "service" /\ Replace(rest)
    BY <1>4 DEF Request
  <2>2. rest = Looked(Top) /\ [rest EXCEPT !.dispatches = Append(@, kind)] = PutOff(Top, kind)
    BY DEF Looked, PutOff
  <2>3. Top.work # <<>> /\ ~Top.loading
    BY <1>4 DEF Request
  <2> HIDE DEF kind, rest
  <2>4. \/ kind = "doc" /\ frames' = <<[Top EXCEPT !.loading = TRUE]>> \o Tail(frames)
        \/ kind \in {"filter", "none", "service"} /\ frames' = <<Looked(Top)>> \o Tail(frames)
        \/ kind \in {"async", "plain"} /\ frames' = <<PutOff(Top, kind)>> \o Tail(frames)
    BY <2>1, <2>2 DEF Replace
  <2> QED BY <1>1, <1>2, <1>4, <2>3, <2>4 DEF kind
<1>5. CASE Loaded
  <2>1. Top.loading /\ Top.work # <<>>
    BY <1>2, <1>5 DEF Loaded, LoadInv
  <2> QED BY <1>1, <1>2, <1>5, <2>1 DEF Loaded, Replace, LoadedOf
<1>6. CASE Dispatch
  BY <1>1, <1>2, <1>6 DEF Dispatch, Replace, Dispatched
<1>7. CASE TryTerminate
  BY <1>1, <1>2, <1>7 DEF TryTerminate, Finishing, Replace
<1>8. CASE Finish
  BY <1>1, <1>2, <1>8 DEF Finish, Finishing
<1> QED
  BY <1>3, <1>4, <1>5, <1>6, <1>7, <1>8 DEF Work

LEMMA WorkKeepsFrames ==
    ASSUME TypeOK, LoadInv, Work
    PROVE  Replaced \/ Popped
<1>1. /\ frames \in Seq(Frame) /\ frames # <<>> /\ Top \in Frame
      /\ Top.work # <<>> => Head(Top.work) \in Kinds
  BY WorkFrames, FrameParts, PopFacts
<1>2. CASE CallWatcher
  BY <1>1, <1>2, FrameStaged DEF Replaced, CallWatcher, Replace, Stages
<1>3. CASE Request
  <2>1. Top.work # <<>>
    BY <1>3 DEF Request
  <2>2. [Top EXCEPT !.loading = TRUE] \in Frame /\ Looked(Top) \in Frame /\ PutOff(Top, Head(Top.work)) \in Frame
    BY <1>1, <2>1, FrameLoading, FrameLooked, FramePutOff
  <2>3. \/ Replace([Top EXCEPT !.loading = TRUE]) \/ Replace(Looked(Top)) \/ Replace(PutOff(Top, Head(Top.work)))
    BY <1>3 DEF Request, Looked, PutOff
  <2> QED BY <1>1, <2>2, <2>3 DEF Replaced, Replace
<1>4. CASE Loaded
  <2>1. Top \in Range(frames) /\ Top.loading
    BY <1>1, <1>4, TopFrame DEF Loaded
  <2>2. LoadedOf(Top) \in Frame
    BY <1>1, <2>1, FrameLoaded DEF LoadInv
  <2> QED BY <1>1, <1>4, <2>2 DEF Replaced, Loaded, Replace, LoadedOf
<1>5. CASE Dispatch
  <2>1. Dispatched(Top) \in Frame
    BY <1>1, <1>5, FrameDispatched DEF Dispatch
  <2> QED BY <1>1, <1>5, <2>1 DEF Replaced, Dispatch, Replace, Dispatched
<1>6. CASE TryTerminate
  BY <1>1, <1>6, FrameStaged DEF Replaced, TryTerminate, Replace, Stages
<1>7. CASE Finish
  BY <1>1, <1>7 DEF Popped, Finish
<1> QED
  BY <1>2, <1>3, <1>4, <1>5, <1>6, <1>7 DEF Work

(* The rest that the steps of an execution change. *)
LEMMA WorkTypes ==
    ASSUME TypeOK, LoadInv, Work
    PROVE  TypeOK'
<1>0. Flags /\ Numbers /\ Executions /\ Peer /\ Places
  BY TypeParts
<1>1. frames # <<>> /\ frames' \in Seq(Frame)
  BY WorkFrames, WorkKeepsFrames, FramesTyped
<1>2. aDispatchList' = aDispatchList
  BY DEF Work, CallWatcher, Request, Loaded, Dispatch, TryTerminate, Finish, OnlyCounts
<1>3. Executions'
  BY <1>0, <1>1, <1>2 DEF Executions
<1>4. Top.answer \in Clients \cup {Nobody}
  BY <1>1, TopFrame, FrameParts
<1>5. CASE CallWatcher
  <2>1. Numbers' /\ Peer' /\ Places'
    BY <1>0, <1>5 DEF CallWatcher, OnlyCounts, Numbers, Peer, Places, thread, peer, counts
  <2>2. Flags'
    BY <1>0, <1>5 DEF CallWatcher, OnlyCounts, Flags, thread, conditions
  <2> QED BY <1>3, <2>1, <2>2, TypePartsNext
<1>6. CASE Request
  <2>1. Flags' /\ Peer' /\ Places' /\ opens' = opens
    BY <1>0, <1>6 DEF Request, OnlyCounts, Flags, Peer, Places, thread, conditions, peer
  <2>2. mnPendingRequests' = mnPendingRequests - 1 \/ mnPendingRequests' = mnPendingRequests
    BY <1>6 DEF Request, Complete, counts
  <2>3. /\ m_nRequestCount' = m_nRequestCount + 1 \/ m_nRequestCount' = m_nRequestCount
        /\ running' = running + 1 \/ running' = running
    BY <1>6 DEF Request, counts
  <2>4. Numbers'
    BY <1>0, <2>1, <2>2, <2>3 DEF Numbers
  <2> QED BY <1>3, <2>1, <2>4, TypePartsNext
<1>7. CASE Loaded
  <2>1. Flags' /\ Peer' /\ Places' /\ UNCHANGED <<opens, m_nRequestCount, running>>
    BY <1>0, <1>7 DEF Loaded, OnlyCounts, Flags, Peer, Places, thread, conditions, peer
  <2>2. mnPendingRequests' = mnPendingRequests - 1 \/ mnPendingRequests' = mnPendingRequests
    BY <1>7 DEF Loaded, Complete
  <2>3. Numbers'
    BY <1>0, <2>1, <2>2 DEF Numbers
  <2> QED BY <1>3, <2>1, <2>3, TypePartsNext
<1>8. CASE Dispatch
  <2>1. Flags' /\ Peer' /\ Places' /\ UNCHANGED <<opens, mnPendingRequests>>
    BY <1>0, <1>8 DEF Dispatch, OnlyCounts, Flags, Peer, Places, thread, conditions, peer
  <2>2. /\ m_nRequestCount' = m_nRequestCount - 1 \/ m_nRequestCount' = m_nRequestCount
        /\ running' = running + 1 \/ running' = running
    BY <1>8 DEF Dispatch
  <2>3. Numbers'
    BY <1>0, <2>1, <2>2 DEF Numbers
  <2> QED BY <1>3, <2>1, <2>3, TypePartsNext
<1>9. CASE TryTerminate
  <2>1. Numbers' /\ Peer' /\ Places'
    BY <1>0, <1>9 DEF TryTerminate, Numbers, Peer, Places, thread, peer, counts
  <2>2. Flags'
    BY <1>0, <1>9 DEF TryTerminate, Flags, thread, conditions
  <2> QED BY <1>3, <2>1, <2>2, TypePartsNext
<1>10. CASE Finish
  <2>1. Numbers' /\ UNCHANGED <<thread, ipc, serving, client, list, events, startup, quitting>>
    BY <1>0, <1>10 DEF Finish, Numbers, peer, counts
  <2>2. executed' \subseteq Clients
    BY <1>0, <1>4, <1>10 DEF Finish, Peer
  <2>3. Peer'
    BY <1>0, <2>1, <2>2 DEF Peer, thread
  <2>4. mutex' \in {"free", mutex}
    BY <1>10 DEF Finish
  <2>5. Places'
    BY <1>0, <2>1, <2>4 DEF Places
  <2>6. cProcessed' \in BOOLEAN
    BY <1>10 DEF Finish
  <2>7. Flags'
    BY <1>0, <1>10, <2>6 DEF Finish, Flags, thread
  <2> QED BY <1>3, <2>1, <2>3, <2>5, <2>7, TypePartsNext
<1> QED
  BY <1>5, <1>6, <1>7, <1>8, <1>9, <1>10 DEF Work

(* A step of the main thread that executes requests, or begins to. *)
LEMMA MainTypes ==
    ASSUME TypeOK, LoadInv, Open \/ HandleEvent \/ OpenDocument \/ Work \/ DispatchFinished
    PROVE  TypeOK'
<1>0. Flags /\ Numbers /\ Executions /\ Peer /\ Places
  BY TypeParts
<1>1. ASSUME EnableRequests PROVE TypeOK'
  <2>1. Peer' /\ UNCHANGED <<m_nRequestCount, running, opens>>
    BY <1>0, <1>1 DEF EnableRequests, Peer, peer
  <2>2. Executions' /\ mnPendingRequests' \in Int
    <3>1. CASE pGlobalOfficeIPCThread
      <4>1. Execute(<<>>, Nobody, "enable", TRUE)
        BY <1>1, <3>1 DEF EnableRequests, Trigger
      <4> QED BY <4>1, Sent, ExecuteTypes DEF Callers, Executions
    <3>2. CASE ~pGlobalOfficeIPCThread
      BY <1>0, <1>1, <3>2 DEF EnableRequests, Executions, Numbers
    <3> QED BY <3>1, <3>2
  <2>3. Numbers'
    BY <1>0, <2>1, <2>2 DEF Numbers
  <2>4. mutex' \in {"main", mutex} /\ startup' = "enabled" /\ quitting' = quitting
    BY <1>1 DEF EnableRequests
  <2>5. Places'
    BY <1>0, <2>4 DEF Places
  <2>6. mbRequestsEnabled' = TRUE \/ mbRequestsEnabled' = mbRequestsEnabled
    BY <1>1 DEF EnableRequests
  <2>7. Flags'
    BY <1>0, <1>1, <2>6 DEF EnableRequests, Flags, conditions
  <2> QED BY <2>1, <2>2, <2>3, <2>5, <2>7, TypePartsNext
<1>2. ASSUME OpenArguments PROVE TypeOK'
  <2>1. Flags' /\ Peer' /\ UNCHANGED <<m_nRequestCount, running, opens>>
    BY <1>0, <1>2 DEF OpenArguments, Flags, Peer, thread, conditions, peer
  <2>2. Executions' /\ mnPendingRequests' \in Int
    <3>1. PICK requests \in scenario.lists :
             IF requests = <<>> THEN UNCHANGED <<mnPendingRequests, aDispatchList, frames>>
                                ELSE Execute(requests, Nobody, "open", mbRequestsEnabled)
      BY <1>2 DEF OpenArguments
    <3>2. CASE requests = <<>>
      BY <1>0, <3>1, <3>2 DEF Executions, Numbers
    <3>3. CASE requests # <<>>
      <4>1. Execute(requests, Nobody, "open", mbRequestsEnabled)
        BY <3>1, <3>3
      <4> QED BY <4>1, Sent, ExecuteTypes DEF Callers, Executions
    <3> QED BY <3>2, <3>3
  <2>3. Numbers' /\ Places'
    BY <1>0, <1>2, <2>1, <2>2 DEF OpenArguments, Numbers, Places
  <2> QED BY <2>1, <2>2, <2>3, TypePartsNext
<1>3. ASSUME SetReady PROVE TypeOK'
  <2>1. Numbers' /\ Executions' /\ Peer' /\ Places'
    BY <1>0, <1>3 DEF SetReady, Numbers, Executions, Peer, Places, thread, counts, peer
  <2>2. Flags'
    BY <1>0, <1>3 DEF SetReady, Flags, thread
  <2> QED BY <2>1, <2>2, TypePartsNext
<1>4. ASSUME HandleEvent PROVE TypeOK'
  <2>1. Flags' /\ Places' /\ UNCHANGED <<m_nRequestCount, running, opens>>
    BY <1>0, <1>4 DEF HandleEvent, Flags, Places, thread, conditions
  <2>2. events \in Seq(Clients) /\ events # <<>>
    BY <1>0, <1>4 DEF HandleEvent, Peer
  <2>3. Tail(events) \in Seq(Clients) /\ Head(events) \in Clients
    BY <2>2, HeadTailProperties
  <2>4. Peer'
    BY <1>0, <1>4, <2>3 DEF HandleEvent, Peer, thread
  <2>5. Executions' /\ mnPendingRequests' \in Int
    <3>1. Execute(list[Head(events)], Head(events), "event", mbRequestsEnabled)
      BY <1>4 DEF HandleEvent
    <3>2. list[Head(events)] \in Seq(Kinds) /\ Head(events) \in Clients \cup {Nobody} /\ "event" \in Callers
      BY <2>3, Sent DEF Callers
    <3> QED BY <3>1, <3>2, ExecuteTypes DEF Executions
  <2>6. Numbers'
    BY <1>0, <2>1, <2>5 DEF Numbers
  <2> QED BY <2>1, <2>4, <2>5, <2>6, TypePartsNext
<1>5. ASSUME OpenDocument PROVE TypeOK'
  <2>1. Flags' /\ Places' /\ Peer' /\ UNCHANGED <<m_nRequestCount, running>>
    BY <1>0, <1>5 DEF OpenDocument, Flags, Places, Peer, thread, conditions, peer
  <2>2. Executions' /\ mnPendingRequests' \in Int
    <3>1. Execute(<<"doc">>, Nobody, "event", mbRequestsEnabled)
      BY <1>5 DEF OpenDocument
    <3> QED BY <3>1, Sent, ExecuteTypes DEF Callers, Executions
  <2>3. opens' \in 0..MaxOpens
    BY <1>0, <1>5, BoundAssumption DEF OpenDocument, Numbers
  <2>4. Numbers'
    BY <1>0, <2>1, <2>2, <2>3 DEF Numbers
  <2> QED BY <2>1, <2>2, <2>4, TypePartsNext
<1>6. ASSUME Work PROVE TypeOK'
  BY <1>6, WorkTypes
<1>7. ASSUME DispatchFinished PROVE TypeOK'
  <2>1. Flags' /\ Executions' /\ Peer'
    <3>1. Executions' /\ Peer'
      BY <1>0, <1>7 DEF DispatchFinished, Executions, Peer, thread, peer
    <3>2. Flags'
      BY <1>0, <1>7 DEF DispatchFinished, Flags, thread, conditions
    <3> QED BY <3>1, <3>2
  <2>2. quitting' \in {"no", "query"} /\ UNCHANGED <<mutex, startup>>
    BY <1>7 DEF DispatchFinished
  <2>3. Places'
    BY <1>0, <2>2 DEF Places
  <2>4. mnPendingRequests' = mnPendingRequests - 1 \/ mnPendingRequests' = mnPendingRequests
    BY <1>7 DEF DispatchFinished, Complete
  <2>5. running' = running - 1 /\ running > 0 /\ m_nRequestCount' = m_nRequestCount - 1 /\ opens' = opens
    BY <1>7 DEF DispatchFinished
  <2>6. Numbers'
    BY <1>0, <2>4, <2>5 DEF Numbers
  <2> QED BY <2>1, <2>3, <2>6, TypePartsNext
<1> QED
  BY <1>1, <1>2, <1>3, <1>4, <1>5, <1>6, <1>7 DEF Open

(* A step towards the end of the office. *)
LEMMA ShutTypes ==
    ASSUME TypeOK, QueryExit \/ Shut \/ Signal \/ Done \/ UNCHANGED vars
    PROVE  TypeOK'
<1>0. Flags /\ Numbers /\ Executions /\ Peer /\ Places
  BY TypeParts
<1>1. /\ UNCHANGED <<counts, mutex, peer, aDispatchList, frames, startup, opens, executed, cProcessed, crashed>>
      /\ UNCHANGED <<scenario, mbRequestsEnabled>>
      /\ quitting' \in {"no", "query", "downing", "disable", "join", "down", quitting}
  BY DEF QueryExit, Shut, QueryTermination, SetDowning, MainLoopEnds, DisableOfficeIPCThread, Join, Signal, Done,
         Shutting, Close, vars, thread, conditions, main
<1>2. Numbers' /\ Executions' /\ Peer' /\ Places'
  BY <1>0, <1>1 DEF Numbers, Executions, Peer, Places, peer, counts
<1>3. Flags'
  <2>1. CASE QueryExit
    BY <1>0, <1>1, <2>1 DEF Flags, QueryExit, thread
  <2>2. CASE QueryTermination \/ MainLoopEnds \/ Join
    BY <1>0, <1>1, <2>2 DEF Flags, QueryTermination, MainLoopEnds, Join, thread
  <2>3. CASE SetDowning
    <3>1. mbDowning' \in BOOLEAN
      BY <2>3 DEF SetDowning
    <3> QED BY <1>0, <1>1, <2>3, <3>1 DEF Flags, SetDowning
  <2>4. CASE DisableOfficeIPCThread
    BY <1>0, <1>1, <2>4 DEF Flags, DisableOfficeIPCThread, Close, thread
  <2>5. CASE Signal
    BY <1>0, <1>1, <2>5 DEF Flags, Signal, Close, main
  <2>6. CASE Done \/ UNCHANGED vars
    BY <1>0, <1>1, <2>6 DEF Flags, Done, vars, thread, conditions, main
  <2> QED
    BY <2>1, <2>2, <2>3, <2>4, <2>5, <2>6 DEF Shut
<1> QED
  BY <1>2, <1>3, TypePartsNext

(* What each step does to the executions: at most one is begun, goes on or ends. *)
LEMMA FramesStep ==
    ASSUME TypeOK, LoadInv, [Next]_vars
    PROVE  \/ frames' = frames
           \/ /\ Open \/ HandleEvent \/ OpenDocument
              /\ \E requests \in Seq(Kinds), answer \in Clients \cup {Nobody}, caller \in Callers :
                    frames' = <<Fresh(requests, answer, caller)>> \o frames
           \/ Work /\ (Replaced \/ Popped)
<1>1. CASE Work
  BY <1>1, WorkKeepsFrames
<1>2. CASE \E c \in Clients : Client(c)
  BY <1>2 DEF Client, Connect, Send, Die, TakeOver, Fail, Become, main
<1>3. CASE Listener
  BY <1>3 DEF Listener, Listen, Serve, Accept, AcceptFails, Ready, Ask, LockDowning, Post, ReadNothing, Wait,
              Reply, main
<1>4. CASE Open
  <2>1. CASE EnableRequests
    <3>1. frames' = frames \/ Execute(<<>>, Nobody, "enable", TRUE)
      BY <2>1 DEF EnableRequests, Trigger
    <3> QED BY <1>4, <3>1, Executes, Sent DEF Callers
  <2>2. CASE OpenArguments
    <3>1. PICK requests \in scenario.lists : frames' = frames \/ Execute(requests, Nobody, "open", mbRequestsEnabled)
      BY <2>2 DEF OpenArguments
    <3> QED BY <1>4, <3>1, Executes, Sent DEF Callers
  <2>3. CASE SetReady
    BY <2>3 DEF SetReady
  <2> QED BY <1>4, <2>1, <2>2, <2>3 DEF Open
<1>5. CASE HandleEvent
  <2>1. events \in Seq(Clients) /\ events # <<>>
    BY <1>5 DEF HandleEvent, TypeOK
  <2>2. Head(events) \in Clients
    BY <2>1, HeadTailProperties
  <2>3. Execute(list[Head(events)], Head(events), "event", mbRequestsEnabled)
    BY <1>5 DEF HandleEvent
  <2> QED BY <1>5, <2>2, <2>3, Executes, Sent DEF Callers
<1>6. CASE OpenDocument
  <2>1. Execute(<<"doc">>, Nobody, "event", mbRequestsEnabled)
    BY <1>6 DEF OpenDocument
  <2> QED BY <1>6, <2>1, Executes, Sent DEF Callers
<1>7. CASE DispatchFinished \/ QueryExit \/ Shut \/ Signal \/ Done \/ UNCHANGED vars
  BY <1>7 DEF DispatchFinished, QueryExit, Shut, QueryTermination, SetDowning, MainLoopEnds,
         DisableOfficeIPCThread, Join, Signal, Done, Shutting, vars, main
<1> QED
  BY <1>1, <1>2, <1>3, <1>4, <1>5, <1>6, <1>7 DEF Next

LEMMA LoadStep ==
    ASSUME TypeOK, LoadInv, [Next]_vars
    PROVE  LoadInv'
<1>1. CASE frames' = frames
  BY <1>1 DEF LoadInv
<1>2. ASSUME NEW requests \in Seq(Kinds), NEW answer \in Clients \cup {Nobody}, NEW caller \in Callers,
             frames' = <<Fresh(requests, answer, caller)>> \o frames
      PROVE  LoadInv'
  <2> DEFINE f == Fresh(requests, answer, caller)
  <2>1. f \in Frame /\ frames \in Seq(Frame)
    BY FreshFrame DEF TypeOK
  <2>2. f.loading = FALSE
    BY DEF Fresh
  <2> HIDE DEF f
  <2>3. Range(<<f>> \o frames) \subseteq {f} \cup Range(frames)
    BY <2>1, StackRange
  <2>4. Range(frames') \subseteq {f} \cup Range(frames)
    BY <1>2, <2>3 DEF f
  <2> QED BY <2>2, <2>4 DEF LoadInv
<1>3. CASE Work
  <2>1. frames \in Seq(Frame) /\ frames # <<>> /\ Top \in Frame /\ Top \in Range(frames)
    BY <1>3, WorkFrames, TopFrame
  <2>2. Range(Tail(frames)) \subseteq Range(frames)
    BY <2>1, TopFrame
  <2>3. CASE frames' = Tail(frames)
    BY <2>2, <2>3 DEF LoadInv
  <2>4. ASSUME NEW g \in Frame, g.loading => g.work # <<>>, frames' = <<g>> \o Tail(frames)
        PROVE  LoadInv'
    <3>1. Range(frames') \subseteq {g} \cup Range(frames)
      BY <2>1, <2>4, StackRange
    <3> QED BY <2>4, <3>1 DEF LoadInv
  <2>5. Top.loading => Top.work # <<>>
    BY <2>1 DEF LoadInv
  <2>6. CASE CallWatcher
    BY <2>1, <2>4, <2>5, <2>6, FrameStaged DEF CallWatcher, Replace, Stages
  <2>7. CASE Request
    <3>1. Top.work # <<>> /\ ~Top.loading /\ Head(Top.work) \in Kinds
      BY <2>1, <2>7, FrameParts, PopFacts DEF Request
    <3>2. \/ frames' = <<[Top EXCEPT !.loading = TRUE]>> \o Tail(frames)
          \/ frames' = <<Looked(Top)>> \o Tail(frames)
          \/ frames' = <<PutOff(Top, Head(Top.work))>> \o Tail(frames)
      BY <2>7 DEF Request, Looked, PutOff, Replace
    <3>3. CASE frames' = <<[Top EXCEPT !.loading = TRUE]>> \o Tail(frames)
      BY <2>1, <2>4, <3>1, <3>3, FrameLoading
    <3>4. CASE frames' = <<Looked(Top)>> \o Tail(frames)
      BY <2>1, <2>4, <3>1, <3>4, FrameLooked
    <3>5. CASE frames' = <<PutOff(Top, Head(Top.work))>> \o Tail(frames)
      BY <2>1, <2>4, <3>1, <3>5, FramePutOff
    <3> QED BY <3>2, <3>3, <3>4, <3>5
  <2>8. CASE Loaded
    <3>1. Top.work # <<>> /\ frames' = <<LoadedOf(Top)>> \o Tail(frames)
      BY <2>5, <2>8 DEF Loaded, Replace, LoadedOf
    <3> QED BY <2>1, <2>4, <3>1, FrameLoaded
  <2>9. CASE Dispatch
    <3>1. Top.dispatches # <<>> /\ frames' = <<Dispatched(Top)>> \o Tail(frames)
      BY <2>9 DEF Dispatch, Replace, Dispatched
    <3>2. /\ Dispatched(Top) \in Frame
          /\ Dispatched(Top).loading => Dispatched(Top).work # <<>>
      BY <2>1, <2>5, <3>1, FrameDispatched
    <3> QED BY <2>4, <3>1, <3>2
  <2>10. CASE TryTerminate
    BY <2>1, <2>4, <2>5, <2>10, FrameStaged DEF TryTerminate, Replace, Stages
  <2>11. CASE Finish
    BY <2>3, <2>11 DEF Finish
  <2> QED
    BY <1>3, <2>6, <2>7, <2>8, <2>9, <2>10, <2>11 DEF Work
<1> QED
  BY <1>1, <1>2, <1>3, FramesStep

(* OfficeIPCThread and DispatchWatcher keep their types, and an execution *)
(* only ever loads a document that it still has to look at.               *)
THEOREM TypeCorrect == Spec => [](TypeOK /\ LoadInv)
<1>1. Init => TypeOK /\ LoadInv
  <2>1. ASSUME Init PROVE Flags
    BY <2>1 DEF Init, Flags
  <2>2. ASSUME Init PROVE Numbers
    BY <2>2, BoundAssumption DEF Init, Numbers
  <2>3. ASSUME Init PROVE Executions /\ LoadInv
    <3>1. <<>> \in Seq(Kinds) /\ <<>> \in Seq(Frame) /\ Range(<<>>) = {}
      BY EmptySeq DEF Range
    <3> QED BY <2>3, <3>1 DEF Init, Executions, LoadInv
  <2>4. ASSUME Init PROVE Peer
    <3>1. <<>> \in Seq(Clients)
      BY EmptySeq
    <3> QED BY <2>4, <3>1 DEF Init, Peer
  <2>5. ASSUME Init PROVE Places
    BY <2>5 DEF Init, Places
  <2> QED BY <2>1, <2>2, <2>3, <2>4, <2>5, TypeParts
<1>2. TypeOK /\ LoadInv /\ [Next]_vars => (TypeOK /\ LoadInv)'
  <2> SUFFICES ASSUME TypeOK, LoadInv, [Next]_vars PROVE TypeOK' /\ LoadInv'
    OBVIOUS
  <2>1. TypeOK'
    BY ClientTypes, ListenerTypes, MainTypes, ShutTypes DEF Next
  <2>2. LoadInv'
    BY LoadStep
  <2> QED BY <2>1, <2>2
<1> QED
  BY <1>1, <1>2, PTL DEF Spec

-----------------------------------------------------------------------------
(* Answers                                                                 *)

\* The listening thread waits until what it has posted was processed.
Awaited == ipc = "wait" /\ ~cProcessed

(* Why the answers are true: the request that is waited for is in one place *)
(* at most, the posted event or one execution, and if it is in none and the *)
(* condition is set, it was executed.                                       *)
PostedInv == events # <<>> => /\ Awaited /\ events = <<serving>>
                              /\ \A i \in 1..Len(frames) : frames[i].answer = Nobody
AnsweringInv ==
    \A i \in 1..Len(frames) :
        frames[i].answer # Nobody => /\ Awaited /\ frames[i].answer = serving
                                     /\ \A j \in 1..Len(frames) : frames[j].answer # Nobody => j = i
AnsweredInv == /\ ipc = "wait" /\ cProcessed => serving \in executed
               /\ ipc = "reply" /\ list[serving] # <<>> => serving \in executed
AnswerInv == PostedInv /\ AnsweringInv /\ AnsweredInv /\ RepliesAreTrue

\* The variables it speaks of.
answering == <<ipc, serving, client, list, events, cProcessed, executed>>

LEMMA NotAwaited ==
    ASSUME AnswerInv, ~Awaited
    PROVE  events = <<>> /\ \A i \in 1..Len(frames) : frames[i].answer = Nobody
  BY DEF AnswerInv, PostedInv, AnsweringInv

(* Nothing but the shape of the executions changes. *)
LEMMA AnswersUnchanged ==
    ASSUME AnswerInv, UNCHANGED answering, Len(frames') = Len(frames),
           \A i \in 1..Len(frames) : frames'[i].answer = frames[i].answer
    PROVE  AnswerInv'
<1>1. PostedInv'
  BY DEF AnswerInv, PostedInv, Awaited, answering
<1>2. AnsweringInv'
  BY DEF AnswerInv, AnsweringInv, Awaited, answering
<1>3. AnsweredInv' /\ RepliesAreTrue'
  BY DEF AnswerInv, AnsweredInv, RepliesAreTrue, answering
<1> QED
  BY <1>1, <1>2, <1>3 DEF AnswerInv

(* Nobody waits, before and after: there is nothing to be answered. *)
LEMMA AnswersIdle ==
    ASSUME AnswerInv, ~Awaited, ~Awaited', UNCHANGED <<events, frames>>, AnsweredInv', RepliesAreTrue'
    PROVE  AnswerInv'
<1>1. PostedInv'
  BY NotAwaited DEF PostedInv
<1>2. \A i \in 1..Len(frames') : frames'[i].answer = Nobody
  BY NotAwaited
<1>3. AnsweringInv'
  BY <1>2 DEF AnsweringInv
<1> QED
  BY <1>1, <1>3 DEF AnswerInv

LEMMA ListenerAnswers ==
    ASSUME TypeOK, AnswerInv, Listener
    PROVE  AnswerInv'
<1>0. RepliesAreTrue /\ AnsweredInv
  BY DEF AnswerInv
<1>1. CASE \/ \E c \in Clients : Accept(c)
           \/ AcceptFails \/ Ready \/ Ask \/ LockDowning \/ ReadNothing
  <2>1. /\ ~Awaited /\ ~Awaited' /\ UNCHANGED <<events, frames, executed, list>>
        /\ ipc' \notin {"wait", "reply"}
    BY <1>1 DEF Accept, AcceptFails, Ready, Ask, LockDowning, ReadNothing, Go, Awaited, main
  <2>2. \A c \in Clients : client'[c] = "ok" => client[c] = "ok"
    BY <1>1 DEF Accept, AcceptFails, Ready, Ask, LockDowning, ReadNothing, TypeOK
  <2>3. AnsweredInv' /\ RepliesAreTrue'
    BY <1>0, <2>1, <2>2 DEF AnsweredInv, RepliesAreTrue
  <2> QED BY <2>1, <2>3, AnswersIdle
<1>2. CASE Post
  <2>1. ~Awaited /\ serving \in Clients /\ events = <<>> /\ \A i \in 1..Len(frames) : frames[i].answer = Nobody
    <3>1. ipc = "read" /\ ~Awaited
      BY <1>2 DEF Post, Awaited
    <3> QED BY <3>1, NotAwaited DEF TypeOK
  <2>2. UNCHANGED <<serving, client, list, frames, executed>>
    BY <1>2 DEF Post, main
  <2>3. RepliesAreTrue'
    BY <1>0, <2>2 DEF RepliesAreTrue
  <2>4. CASE list[serving] = <<>>
    <3>1. ipc' = "reply" /\ events' = events
      BY <1>2, <2>4 DEF Post
    <3>2. ~Awaited' /\ AnsweredInv'
      BY <2>2, <2>4, <3>1 DEF Awaited, AnsweredInv
    <3> QED BY <2>1, <2>2, <2>3, <3>1, <3>2, AnswersIdle
  <2>5. CASE list[serving] # <<>>
    <3>1. ipc' = "wait" /\ events' = Append(events, serving) /\ cProcessed' = FALSE
      BY <1>2, <2>5 DEF Post
    <3>2. events' = <<serving>>
      BY <2>1, <3>1
    <3>3. PostedInv'
      BY <2>1, <2>2, <3>1, <3>2 DEF PostedInv, Awaited
    <3>4. AnsweringInv' /\ AnsweredInv'
      BY <2>1, <2>2, <3>1 DEF AnsweringInv, AnsweredInv
    <3> QED BY <2>3, <3>3, <3>4 DEF AnswerInv
  <2> QED BY <2>4, <2>5
<1>3. CASE Wait
  <2>1. /\ ipc = "wait" /\ cProcessed /\ ipc' = "reply"
        /\ UNCHANGED <<serving, client, list, events, frames, executed>>
    BY <1>3 DEF Wait, Go, main
  <2>2. ~Awaited /\ ~Awaited' /\ AnsweredInv' /\ RepliesAreTrue'
    BY <1>0, <2>1 DEF Awaited, AnsweredInv, RepliesAreTrue
  <2> QED BY <2>1, <2>2, AnswersIdle
<1>4. CASE Reply
  <2>1. /\ ipc = "reply" /\ ipc' = "accept"
        /\ client' = IF client[serving] = "sent" THEN [client EXCEPT ![serving] = "ok"] ELSE client
        /\ UNCHANGED <<list, events, frames, executed>>
    BY <1>4 DEF Reply, Go, main
  <2>2. ~Awaited /\ ~Awaited' /\ AnsweredInv'
    BY <2>1 DEF Awaited, AnsweredInv
  <2>3. \A c \in Clients : client'[c] = "ok" => client[c] = "ok" \/ c = serving
    BY <2>1 DEF TypeOK
  <2>4. list[serving] # <<>> => serving \in executed
    BY <1>0, <2>1 DEF AnsweredInv
  <2>5. RepliesAreTrue'
    BY <1>0, <2>1, <2>3, <2>4 DEF RepliesAreTrue
  <2> QED BY <2>1, <2>2, <2>5, AnswersIdle
<1> QED
  BY <1>1, <1>2, <1>3, <1>4 DEF Listener, Listen, Serve

(* Something is executed for nobody, or for the one who waits. *)
LEMMA BeginAnswers ==
    ASSUME TypeOK, AnswerInv, Open \/ HandleEvent \/ OpenDocument
    PROVE  AnswerInv'
<1>0. frames \in Seq(Frame) /\ Nobody \in Clients \cup {Nobody}
  BY DEF TypeOK
<1>1. ASSUME UNCHANGED answering, NEW requests \in Seq(Kinds), NEW caller \in Callers, NEW enabled,
             Execute(requests, Nobody, caller, enabled)
      PROVE  AnswerInv'
  <2>1. CASE frames' = frames
    BY <1>1, <2>1, AnswersUnchanged
  <2>2. CASE frames' = <<Fresh(requests, Nobody, caller)>> \o frames
    <3> DEFINE f == Fresh(requests, Nobody, caller)
    <3>1. f \in Frame /\ f.answer = Nobody /\ frames' = <<f>> \o frames
      BY <1>0, <2>2, FreshFrame DEF Fresh
    <3> HIDE DEF f
    <3>2. /\ Len(frames') = Len(frames) + 1 /\ frames'[1].answer = Nobody
          /\ \A i \in 1..Len(frames) + 1 : i # 1 => i - 1 \in 1..Len(frames) /\ frames'[i] = frames[i - 1]
      BY <1>0, <3>1, PushFacts
    <3>3. Len(frames) \in Nat
      BY <1>0, LenProperties
    <3>4. PostedInv'
      BY <1>1, <3>2, <3>3 DEF AnswerInv, PostedInv, Awaited, answering
    <3>5. AnsweringInv'
      <4>1. ASSUME NEW i \in 1..Len(frames'), frames'[i].answer # Nobody
            PROVE  /\ Awaited' /\ frames'[i].answer = serving'
                   /\ \A j \in 1..Len(frames') : frames'[j].answer # Nobody => j = i
        <5>1. i # 1 /\ i - 1 \in 1..Len(frames) /\ frames[i - 1].answer # Nobody
          BY <3>2, <4>1
        <5>2. /\ Awaited /\ frames[i - 1].answer = serving
              /\ \A j \in 1..Len(frames) : frames[j].answer # Nobody => j = i - 1
          BY <5>1 DEF AnswerInv, AnsweringInv
        <5>3. ASSUME NEW j \in 1..Len(frames'), frames'[j].answer # Nobody PROVE j = i
          <6>1. j # 1 /\ j - 1 \in 1..Len(frames) /\ frames[j - 1].answer # Nobody
            BY <3>2, <5>3
          <6>2. j - 1 = i - 1
            BY <5>2, <6>1
          <6>3. i \in Int /\ j \in Int
            BY <3>2, <3>3
          <6> QED BY <6>2, <6>3
        <5> QED BY <1>1, <3>2, <5>1, <5>2, <5>3 DEF Awaited, answering
      <4> QED BY <4>1 DEF AnsweringInv
    <3>6. AnsweredInv' /\ RepliesAreTrue'
      BY <1>1 DEF AnswerInv, AnsweredInv, RepliesAreTrue, answering
    <3> QED BY <3>4, <3>5, <3>6 DEF AnswerInv
  <2> QED BY <1>1, <2>1, <2>2, Executes
<1>2. CASE Open
  <2>1. UNCHANGED answering
    BY <1>2 DEF Open, EnableRequests, OpenArguments, SetReady, answering, peer, conditions
  <2>2. CASE frames' = frames
    BY <2>1, <2>2, AnswersUnchanged
  <2>3. CASE EnableRequests
    <3>1. frames' = frames \/ Execute(<<>>, Nobody, "enable", TRUE)
      BY <2>3 DEF EnableRequests, Trigger
    <3> QED BY <1>1, <2>1, <2>2, <3>1, Sent DEF Callers
  <2>4. CASE OpenArguments
    <3>1. PICK requests \in scenario.lists : frames' = frames \/ Execute(requests, Nobody, "open", mbRequestsEnabled)
      BY <2>4 DEF OpenArguments
    <3> QED BY <1>1, <2>1, <2>2, <3>1, Sent DEF Callers
  <2> QED BY <1>2, <2>2, <2>3, <2>4 DEF Open, SetReady
<1>3. CASE OpenDocument
  <2>1. UNCHANGED answering /\ Execute(<<"doc">>, Nobody, "event", mbRequestsEnabled)
    BY <1>3 DEF OpenDocument, answering, peer, conditions
  <2> QED BY <1>1, <2>1, Sent DEF Callers
<1>4. CASE HandleEvent
  <2>1. /\ events # <<>> /\ events' = Tail(events) /\ UNCHANGED <<ipc, serving, client, list, cProcessed, executed>>
        /\ Execute(list[Head(events)], Head(events), "event", mbRequestsEnabled)
    BY <1>4 DEF HandleEvent, conditions
  <2>2. Awaited /\ events = <<serving>> /\ \A i \in 1..Len(frames) : frames[i].answer = Nobody
    BY <2>1 DEF AnswerInv, PostedInv
  <2>3. Head(events) = serving /\ events' = <<>>
    BY <2>1, <2>2
  <2>4. serving \in Clients
    BY <2>2 DEF TypeOK, Awaited
  <2>5. PostedInv'
    BY <2>3 DEF PostedInv
  <2>6. AnsweredInv' /\ RepliesAreTrue'
    BY <2>1 DEF AnswerInv, AnsweredInv, RepliesAreTrue
  <2>7. AnsweringInv'
    <3>1. CASE frames' = frames
      BY <2>2, <3>1 DEF AnsweringInv
    <3>2. CASE frames' = <<Fresh(list[serving], serving, "event")>> \o frames
      <4> DEFINE f == Fresh(list[serving], serving, "event")
      <4>1. f \in Frame /\ f.answer = serving /\ frames' = <<f>> \o frames
        BY <2>4, <3>2, FreshFrame, Sent DEF Fresh, Callers
      <4> HIDE DEF f
      <4>2. /\ Len(frames') = Len(frames) + 1 /\ frames'[1].answer = serving
            /\ \A i \in 1..Len(frames) + 1 : i # 1 => i - 1 \in 1..Len(frames) /\ frames'[i] = frames[i - 1]
        BY <1>0, <4>1, PushFacts
      <4>3. \A i \in 1..Len(frames') : i # 1 => frames'[i].answer = Nobody
        BY <2>2, <4>2
      <4> QED BY <2>1, <2>2, <4>2, <4>3 DEF AnsweringInv, Awaited
    <3> QED BY <2>1, <2>3, <3>1, <3>2, Executes
  <2> QED BY <2>5, <2>6, <2>7 DEF AnswerInv
<1> QED
  BY <1>2, <1>3, <1>4

(* An execution goes on, or tells the one who waits that it is done. *)
LEMMA WorkAnswers ==
    ASSUME TypeOK, LoadInv, AnswerInv, Work
    PROVE  AnswerInv'
<1>1. frames \in Seq(Frame) /\ frames # <<>> /\ Top \in Frame /\ Top = frames[1] /\ Len(frames) \in Nat /\ Len(frames) >= 1
  BY WorkFrames, TopFrame
<1>2. CASE ~Finish
  <2>1. UNCHANGED answering
    BY <1>2 DEF Work, CallWatcher, Request, Loaded, Dispatch, TryTerminate, OnlyCounts, answering, conditions, peer
  <2>2. ASSUME NEW g \in Frame, g.answer = Top.answer, frames' = <<g>> \o Tail(frames)
        PROVE  AnswerInv'
    <3>1. /\ Len(frames') = Len(frames) /\ frames'[1] = g
          /\ \A i \in 1..Len(frames) : i # 1 => frames'[i] = frames[i]
      BY <1>1, <2>2, SwapFacts
    <3>2. \A i \in 1..Len(frames) : frames'[i].answer = frames[i].answer
      BY <1>1, <2>2, <3>1
    <3> QED BY <2>1, <3>1, <3>2, AnswersUnchanged
  <2>3. CASE CallWatcher
    BY <1>1, <2>2, <2>3, FrameStaged DEF CallWatcher, Replace, Stages
  <2>4. CASE Request
    <3>1. Top.work # <<>> /\ Head(Top.work) \in Kinds
      BY <1>1, <2>4, FrameParts, PopFacts DEF Request
    <3>2. \/ frames' = <<[Top EXCEPT !.loading = TRUE]>> \o Tail(frames)
          \/ frames' = <<Looked(Top)>> \o Tail(frames)
          \/ frames' = <<PutOff(Top, Head(Top.work))>> \o Tail(frames)
      BY <2>4 DEF Request, Looked, PutOff, Replace
    <3>3. CASE frames' = <<[Top EXCEPT !.loading = TRUE]>> \o Tail(frames)
      BY <1>1, <2>2, <3>3, FrameLoading
    <3>4. CASE frames' = <<Looked(Top)>> \o Tail(frames)
      BY <1>1, <2>2, <3>1, <3>4, FrameLooked
    <3>5. CASE frames' = <<PutOff(Top, Head(Top.work))>> \o Tail(frames)
      BY <1>1, <2>2, <3>1, <3>5, FramePutOff
    <3> QED BY <3>2, <3>3, <3>4, <3>5
  <2>5. CASE Loaded
    <3>1. Top.work # <<>> /\ frames' = <<LoadedOf(Top)>> \o Tail(frames)
      BY <1>1, <2>5, TopFrame DEF Loaded, Replace, LoadedOf, LoadInv
    <3> QED BY <1>1, <2>2, <3>1, FrameLoaded
  <2>6. CASE Dispatch
    <3>1. Top.dispatches # <<>> /\ frames' = <<Dispatched(Top)>> \o Tail(frames)
      BY <2>6 DEF Dispatch, Replace, Dispatched
    <3> QED BY <1>1, <2>2, <3>1, FrameDispatched
  <2>7. CASE TryTerminate
    BY <1>1, <2>2, <2>7, FrameStaged DEF TryTerminate, Replace, Stages
  <2> QED BY <1>2, <2>3, <2>4, <2>5, <2>6, <2>7 DEF Work
<1>3. CASE Finish
  <2>1. /\ frames' = Tail(frames) /\ UNCHANGED <<ipc, serving, client, list, events>>
        /\ executed' = executed \cup ({Top.answer} \ {Nobody})
        /\ cProcessed' = (cProcessed \/ Top.answer # Nobody)
    BY <1>3 DEF Finish, peer, Tells
  <2>2. /\ Len(frames') = Len(frames) - 1
        /\ \A i \in 1..Len(frames) - 1 : i + 1 \in 1..Len(frames) /\ frames'[i] = frames[i + 1]
    BY <1>1, <2>1, PopFacts
  <2>3. AnsweredInv /\ PostedInv /\ AnsweringInv /\ RepliesAreTrue
    BY DEF AnswerInv
  <2>4. RepliesAreTrue'
    BY <2>1, <2>3 DEF RepliesAreTrue
  <2>5. CASE Top.answer = Nobody
    <3>1. executed' = executed /\ (cProcessed' <=> cProcessed)
      BY <2>1, <2>5
    <3>2. Awaited' <=> Awaited
      BY <2>1, <3>1 DEF Awaited
    <3>3. AnsweredInv'
      BY <2>1, <2>3, <3>1 DEF AnsweredInv
    <3>4. PostedInv'
      BY <1>1, <2>1, <2>2, <2>3, <3>2 DEF PostedInv
    <3>5. AnsweringInv'
      <4>1. ASSUME NEW i \in 1..Len(frames'), frames'[i].answer # Nobody
            PROVE  /\ Awaited' /\ frames'[i].answer = serving'
                   /\ \A j \in 1..Len(frames') : frames'[j].answer # Nobody => j = i
        <5>1. i + 1 \in 1..Len(frames) /\ frames'[i] = frames[i + 1]
          BY <2>2, <4>1
        <5>2. /\ Awaited /\ frames[i + 1].answer = serving
              /\ \A j \in 1..Len(frames) : frames[j].answer # Nobody => j = i + 1
          BY <2>3, <4>1, <5>1 DEF AnsweringInv
        <5>3. ASSUME NEW j \in 1..Len(frames'), frames'[j].answer # Nobody PROVE j = i
          <6>1. j + 1 \in 1..Len(frames) /\ frames[j + 1].answer # Nobody
            BY <2>2, <5>3
          <6>2. j + 1 = i + 1
            BY <5>2, <6>1
          <6>3. i \in Int /\ j \in Int
            BY <1>1, <2>2
          <6> QED BY <6>2, <6>3
        <5> QED BY <2>1, <3>2, <5>1, <5>2, <5>3
      <4> QED BY <4>1 DEF AnsweringInv
    <3> QED BY <2>4, <3>3, <3>4, <3>5 DEF AnswerInv
  <2>6. CASE Top.answer # Nobody
    <3>1. 1 \in 1..Len(frames) /\ frames[1].answer # Nobody
      BY <1>1, <2>6
    <3>2. /\ Awaited /\ Top.answer = serving
          /\ \A j \in 1..Len(frames) : frames[j].answer # Nobody => j = 1
      BY <1>1, <2>3, <3>1 DEF AnsweringInv
    <3>3. events = <<>>
      BY <2>3, <3>1 DEF PostedInv
    <3>4. serving \in executed'
      BY <2>1, <2>6, <3>2
    <3>5. \A i \in 1..Len(frames') : frames'[i].answer = Nobody
      <4>1. ASSUME NEW i \in 1..Len(frames') PROVE frames'[i].answer = Nobody
        <5>1. i + 1 \in 1..Len(frames) /\ frames'[i] = frames[i + 1] /\ i \in Nat /\ i > 0
          BY <1>1, <2>2, <4>1
        <5>2. i + 1 # 1
          BY <5>1
        <5> QED BY <3>2, <5>1, <5>2
      <4> QED BY <4>1
    <3>6. PostedInv' /\ AnsweringInv'
      BY <2>1, <3>3, <3>5 DEF PostedInv, AnsweringInv
    <3>7. AnsweredInv'
      BY <2>1, <3>2, <3>4 DEF AnsweredInv, Awaited
    <3> QED BY <2>4, <3>6, <3>7 DEF AnswerInv
  <2> QED BY <2>5, <2>6
<1> QED
  BY <1>2, <1>3

(* A second office is told that its request was processed only when it was. *)
THEOREM RepliesTrue == Spec => []RepliesAreTrue
<1>1. Init => AnswerInv
  <2>1. ASSUME Init PROVE Len(frames) = 0 /\ events = <<>> /\ ipc = "accept" /\ client = [c \in Clients |-> "out"]
    BY <2>1, EmptySeq DEF Init
  <2> QED
    BY <2>1 DEF AnswerInv, PostedInv, AnsweringInv, AnsweredInv, RepliesAreTrue
<1>2. TypeOK /\ LoadInv /\ AnswerInv /\ [Next]_vars => AnswerInv'
  <2> SUFFICES ASSUME TypeOK, LoadInv, AnswerInv, [Next]_vars PROVE AnswerInv'
    OBVIOUS
  <2>1. ASSUME NEW c \in Clients, Client(c) PROVE AnswerInv'
    <3>1. /\ UNCHANGED <<ipc, serving, list, events, frames, cProcessed, executed>>
          /\ \E to \in {"connected", "sent", "dead", "first", "failed"} : client' = [client EXCEPT ![c] = to]
      BY <2>1 DEF Client, Connect, Send, Die, TakeOver, Fail, Become, conditions, main
    <3>2. \A b \in Clients : client'[b] = "ok" => client[b] = "ok"
      BY <3>1 DEF TypeOK
    <3>3. RepliesAreTrue'
      BY <3>1, <3>2 DEF AnswerInv, RepliesAreTrue
    <3>4. PostedInv' /\ AnsweringInv' /\ AnsweredInv'
      BY <3>1 DEF AnswerInv, PostedInv, AnsweringInv, AnsweredInv, Awaited
    <3> QED BY <3>3, <3>4 DEF AnswerInv
  <2>2. CASE DispatchFinished \/ QueryExit \/ Shut \/ Signal \/ Done \/ UNCHANGED vars
    <3>1. UNCHANGED answering /\ frames' = frames
      BY <2>2 DEF DispatchFinished, QueryExit, Shut, QueryTermination, SetDowning, MainLoopEnds, DisableOfficeIPCThread,
         Join, Signal, Done, Shutting, vars, main, peer, conditions, answering
    <3> QED BY <3>1, AnswersUnchanged
  <2> QED
    BY <2>1, <2>2, ListenerAnswers, BeginAnswers, WorkAnswers DEF Next
<1>3. AnswerInv => RepliesAreTrue
  BY DEF AnswerInv
<1> QED
  BY <1>1, <1>2, <1>3, TypeCorrect, PTL DEF Spec

-----------------------------------------------------------------------------
(* What is pending                                                         *)

\* Those of the i-th execution from the outermost.
PendingIn(fs, i) == {i} \X (1..Unfinished(fs[Len(fs) + 1 - i]))
PendingOf(fs) == UNION {PendingIn(fs, i) : i \in 1..Len(fs)}
Total(fs) == Cardinality(PendingOf(fs))

LEMMA UnfinishedNat ==
    ASSUME NEW f \in Frame
    PROVE  /\ Unfinished(f) \in Nat /\ Len(f.work) \in Nat /\ Len(f.dispatches) \in Nat
           /\ Unfinished(f) = 0 <=> f.work = <<>> /\ f.dispatches = <<>>
<1>1. f.work \in Seq(Kinds) /\ f.dispatches \in Seq(Kinds)
  BY FrameParts
<1>2. /\ Len(f.work) \in Nat /\ (f.work = <<>> <=> Len(f.work) = 0)
      /\ Len(f.dispatches) \in Nat /\ (f.dispatches = <<>> <=> Len(f.dispatches) = 0)
  BY <1>1, EmptySeq
<1>3. PICK w \in Nat, d \in Nat : w = Len(f.work) /\ d = Len(f.dispatches)
  BY <1>2
<1>4. Unfinished(f) = w + d
  BY <1>3 DEF Unfinished
<1>5. w + d \in Nat /\ (w + d = 0 <=> w = 0 /\ d = 0)
  OBVIOUS
<1> QED
  BY <1>2, <1>3, <1>4, <1>5

LEMMA PendingFinite ==
    ASSUME NEW fs \in Seq(Frame)
    PROVE  /\ IsFiniteSet(PendingOf(fs)) /\ Total(fs) \in Nat
           /\ \A i \in 1..Len(fs) : Len(fs) + 1 - i \in 1..Len(fs) /\ fs[Len(fs) + 1 - i] \in Frame
<1> DEFINE n == Len(fs)
           rows == {PendingIn(fs, i) : i \in 1..n}
           row == [i \in 1..n |-> PendingIn(fs, i)]
<1>1. n \in Nat
  BY LenProperties
<1>2. ASSUME NEW i \in 1..n PROVE n + 1 - i \in 1..n /\ fs[n + 1 - i] \in Frame
  <2>1. n + 1 - i \in 1..n
    BY <1>1
  <2> QED BY <2>1, ElementOfSeq
<1>3. ASSUME NEW i \in 1..n PROVE IsFiniteSet(PendingIn(fs, i))
  <2>1. Unfinished(fs[n + 1 - i]) \in Nat
    BY <1>2, UnfinishedNat
  <2>2. IsFiniteSet({i}) /\ IsFiniteSet(1..Unfinished(fs[n + 1 - i]))
    <3>1. PICK k \in Nat : k = Unfinished(fs[n + 1 - i])
      BY <2>1
    <3>2. IsFiniteSet(1..k)
      BY FS_Interval
    <3> QED BY <3>1, <3>2, FS_Singleton
  <2> QED BY <2>2, FS_Product DEF PendingIn
<1>4. IsFiniteSet(rows)
  <2>1. row \in Surjection(1..n, rows)
    BY DEF Surjection
  <2>2. IsFiniteSet(1..n)
    BY <1>1, FS_Interval
  <2> HIDE DEF row, rows
  <2> QED BY <2>1, <2>2, FS_Surjection
<1>5. IsFiniteSet(UNION rows)
  <2>1. \A r \in rows : IsFiniteSet(r)
    BY <1>3
  <2> HIDE DEF rows
  <2> QED BY <1>4, <2>1, FS_UNION
<1> QED
  BY <1>2, <1>5, FS_CardinalityType DEF PendingOf, Total

(* An execution that begins adds its own to the total, ... *)
LEMMA TotalPush ==
    ASSUME NEW fs \in Seq(Frame), NEW f \in Frame
    PROVE  Total(<<f>> \o fs) = Total(fs) + Unfinished(f) /\ Total(fs) \in Nat
<1> DEFINE gs == <<f>> \o fs
           n == Len(fs)
           top == {n + 1} \X (1..Unfinished(f))
<1>1. /\ n \in Nat /\ Len(gs) = n + 1 /\ gs[1] = f
      /\ \A i \in 1..n + 1 : i # 1 => i - 1 \in 1..n /\ gs[i] = fs[i - 1]
  BY PushFacts, LenProperties
<1>2. Unfinished(f) \in Nat /\ IsFiniteSet(PendingOf(fs)) /\ Total(fs) \in Nat
  BY PendingFinite, UnfinishedNat
<1> HIDE DEF gs, n
<1>3. PendingIn(gs, n + 1) = top
  <2>1. Len(gs) + 1 - (n + 1) = 1
    BY <1>1
  <2> QED BY <1>1, <2>1 DEF PendingIn
<1>4. \A i \in 1..n : PendingIn(gs, i) = PendingIn(fs, i)
  <2> TAKE i \in 1..n
  <2>1. n + 2 - i \in 1..n + 1 /\ n + 2 - i # 1 /\ n + 2 - i - 1 = n + 1 - i /\ Len(gs) + 1 - i = n + 2 - i
    BY <1>1
  <2>2. gs[Len(gs) + 1 - i] = fs[n + 1 - i]
    BY <1>1, <2>1
  <2> QED BY <2>2 DEF PendingIn, n
<1>5. PendingOf(gs) = PendingOf(fs) \cup top
  <2>1. 1..n + 1 = (1..n) \cup {n + 1}
    BY <1>1
  <2>2. PendingOf(gs) = UNION {PendingIn(gs, i) : i \in (1..n) \cup {n + 1}}
    BY <1>1, <2>1 DEF PendingOf
  <2>3. PendingOf(fs) = UNION {PendingIn(fs, i) : i \in 1..n}
    BY DEF PendingOf, n
  <2> HIDE DEF top
  <2> QED BY <1>3, <1>4, <2>2, <2>3
<1>6. PendingOf(fs) \cap top = {}
  <2>1. ASSUME NEW x \in PendingOf(fs), x \in top PROVE FALSE
    <3>1. PICK i \in 1..n : x \in PendingIn(fs, i)
      BY DEF PendingOf, n
    <3>2. x[1] = i /\ x[1] = n + 1
      BY <2>1, <3>1 DEF PendingIn
    <3> QED BY <1>1, <3>2
  <2> QED BY <2>1
<1>7. IsFiniteSet(top) /\ Cardinality(top) = Unfinished(f)
  <2>1. IsFiniteSet({n + 1}) /\ Cardinality({n + 1}) = 1
    BY FS_Singleton
  <2>2. IsFiniteSet(1..Unfinished(f)) /\ Cardinality(1..Unfinished(f)) = Unfinished(f)
    BY <1>2, FS_Interval
  <2>3. IsFiniteSet(top) /\ Cardinality(top) = Cardinality({n + 1}) * Cardinality(1..Unfinished(f))
    BY <2>1, <2>2, FS_Product
  <2> QED BY <1>2, <2>1, <2>2, <2>3
<1>8. Cardinality(PendingOf(gs)) = Cardinality(PendingOf(fs)) + Unfinished(f)
  <2> HIDE DEF top
  <2>1. Cardinality(PendingOf(fs) \cup top) =
            Cardinality(PendingOf(fs)) + Cardinality(top) - Cardinality(PendingOf(fs) \cap top)
    BY <1>2, <1>7, FS_Union
  <2>2. Cardinality(PendingOf(fs) \cap top) = 0
    BY <1>6, FS_EmptySet
  <2> QED BY <1>2, <1>5, <1>7, <2>1, <2>2 DEF Total
<1> QED
  BY <1>2, <1>8 DEF Total, gs

(* ... one that goes on changes the total by what it changes of its own, ... *)
LEMMA TotalTop ==
    ASSUME NEW fs \in Seq(Frame), fs # <<>>, NEW g \in Frame
    PROVE  /\ Total(Tail(fs)) \in Nat /\ Total(fs) = Total(Tail(fs)) + Unfinished(fs[1])
           /\ Total(<<g>> \o Tail(fs)) = Total(Tail(fs)) + Unfinished(g)
<1>1. Tail(fs) \in Seq(Frame) /\ fs[1] \in Frame
  BY PopFacts
<1>2. <<fs[1]>> \o Tail(fs) = fs
  <2> DEFINE gs == <<fs[1]>> \o Tail(fs)
  <2>1. /\ gs \in Seq(Frame) /\ Len(gs) = Len(fs) /\ gs[1] = fs[1]
        /\ \A i \in 1..Len(fs) : i # 1 => gs[i] = fs[i]
    BY <1>1, SwapFacts
  <2> HIDE DEF gs
  <2>2. gs = fs
    BY <2>1, SeqEqual
  <2> QED BY <2>2 DEF gs
<1> QED
  BY <1>1, <1>2, TotalPush

(* ... and if the total is none, nothing is left in any execution. *)
LEMMA TotalNone ==
    ASSUME NEW fs \in Seq(Frame)
    PROVE  /\ Total(fs) \in Nat
           /\ Total(fs) = 0 => \A f \in Range(fs) : f.work = <<>> /\ f.dispatches = <<>>
<1> DEFINE n == Len(fs)
<1>1. n \in Nat /\ DOMAIN fs = 1..n /\ \A i \in 1..n : fs[i] \in Frame
  BY LenProperties, ElementOfSeq
<1>2. ASSUME Total(fs) = 0, NEW f \in Range(fs) PROVE f.work = <<>> /\ f.dispatches = <<>>
  <2>1. PICK j \in 1..n : f = fs[j]
    BY <1>1 DEF Range
  <2>2. n + 1 - j \in 1..n /\ n + 1 - (n + 1 - j) = j
    BY <1>1
  <2>3. PendingOf(fs) = {}
    BY <1>2, PendingFinite, FS_EmptySet DEF Total
  <2>4. PendingIn(fs, n + 1 - j) = {}
    BY <2>2, <2>3 DEF PendingOf
  <2>5. 1..Unfinished(f) = {}
    <3>1. ASSUME NEW k \in 1..Unfinished(f) PROVE <<n + 1 - j, k>> \in PendingIn(fs, n + 1 - j)
      BY <2>1, <2>2 DEF PendingIn
    <3> QED BY <2>4, <3>1
  <2>6. f \in Frame /\ Unfinished(f) \in Nat
    BY <1>1, <2>1, UnfinishedNat
  <2>7. Unfinished(f) = 0
    <3>1. PICK k \in Nat : k = Unfinished(f)
      BY <2>6
    <3>2. 1..k = {}
      BY <2>5, <3>1
    <3>3. k = 0
      BY <3>2
    <3> QED BY <3>1, <3>3
  <2> QED BY <2>6, <2>7, UnfinishedNat
<1> QED
  BY <1>2, PendingFinite

\* Requests arrive through the pipe, and the count matters, as long as the
\* thread object is there.
P == pGlobalOfficeIPCThread
Early == startup \in {"start", "enabled"}

(* Until OpenClients executes the office's own arguments, all there is are   *)
(* documents that the OS asks to open, which wait, or are executed within    *)
(* EnableRequests; the listening thread waits, too; and only QueryExit can   *)
(* end the office.                                                           *)
OrderInv == /\ startup = "start" => frames = <<>> /\ ~mbRequestsEnabled
            /\ startup = "enabled" /\ frames # <<>> => frames[Len(frames)].caller = "enable"
ReadyInv == P => /\ maPipe
                 /\ startup # "ready" => ~cReady
                 /\ ~cReady => ipc \in {"accept", "ready"} /\ events = <<>>
EarlyInv == P /\ Early => /\ running = 0 /\ aDispatchList \in Seq({"doc"})
                          /\ \A f \in Range(frames) : f.work \in Seq({"doc"}) /\ f.dispatches = <<>>
                          /\ quitting \in {"query", "downing"} => exits
StartInv == OrderInv /\ ReadyInv /\ EarlyInv

(* If only requests are sent whose end the code hears of, there are no others. *)
KindInv ==
    Counted => /\ aDispatchList \in Seq(Heard)
               /\ \A f \in Range(frames) : f.work \in Seq(Heard) /\ f.dispatches \in Seq({"async"})

(* Once the veto was asked nothing is begun until the office is going down, *)
(* and then the main loop does not run again.                               *)
DownInv == /\ P /\ Counted /\ quitting = "downing" => mnPendingRequests = 0
           /\ P /\ mbDowning => quit /\ (quitting = "no" => ~Early)
           /\ quitting \in {"query", "downing"} => ~quit

(* PendingIsExact, over the executions as a stack. *)
CountInv ==
    P /\ Counted => /\ mnPendingRequests = running + Total(frames)
                    /\ mbDowning => \A f \in Range(frames) : f.work = <<>> /\ f.dispatches = <<>>

PendingInv == StartInv /\ KindInv /\ DownInv /\ CountInv

LEMMA CountIsPending ==
    ASSUME TypeOK
    PROVE  CountInv <=> PendingIsExact
<1>1. frames \in Seq(Frame) /\ DOMAIN frames = 1..Len(frames)
  BY LenProperties DEF TypeOK
<1>2. Total(frames) = Cardinality(Pending)
  BY DEF Total, PendingOf, PendingIn, Pending
<1>3. (\A f \in Range(frames) : f.work = <<>> /\ f.dispatches = <<>>)
         <=> \A i \in DOMAIN frames : frames[i].work = <<>> /\ frames[i].dispatches = <<>>
  BY DEF Range
<1> QED
  BY <1>2, <1>3 DEF CountInv, PendingIsExact, P

(* What the main thread does in between leaves alone what these speak of. *)
pending == <<scenario, pGlobalOfficeIPCThread, mbDowning, mbRequestsEnabled, mnPendingRequests, running,
             aDispatchList, frames, startup, quitting, exits, quit>>

LEMMA PendingUnchanged ==
    ASSUME PendingInv, UNCHANGED pending, ReadyInv'
    PROVE  PendingInv'
<1>1. OrderInv' /\ KindInv'
  BY DEF PendingInv, StartInv, OrderInv, KindInv, Counted, pending
<1>2. EarlyInv'
  BY DEF PendingInv, StartInv, EarlyInv, Early, P, pending
<1>3. DownInv' /\ CountInv'
  BY DEF PendingInv, DownInv, CountInv, Counted, Early, P, pending
<1> QED
  BY <1>1, <1>2, <1>3 DEF PendingInv, StartInv

LEMMA ClientPending ==
    ASSUME PendingInv, NEW c \in Clients, Client(c)
    PROVE  PendingInv'
<1>1. UNCHANGED pending /\ UNCHANGED <<maPipe, cReady, ipc, events>>
  BY DEF Client, Connect, Send, Die, TakeOver, Fail, Become, thread, conditions, counts, main, pending
<1>2. ReadyInv'
  BY <1>1 DEF PendingInv, StartInv, ReadyInv, P, pending
<1> QED
  BY <1>1, <1>2, PendingUnchanged

LEMMA ListenerPending ==
    ASSUME PendingInv, Listener
    PROVE  PendingInv'
<1>1. UNCHANGED pending /\ UNCHANGED <<maPipe, cReady>>
  BY DEF Listener, Listen, Serve, Accept, AcceptFails, Ready, Ask, LockDowning, Post, ReadNothing, Wait, Reply,
         thread, conditions, counts, main, pending
<1>2. ~cReady /\ ipc \in {"accept", "ready"} => (ipc' \in {"accept", "ready"} /\ events' = events) \/ AcceptFails
  BY DEF Listener, Listen, Serve, Accept, Ready, Ask, LockDowning, Post, ReadNothing, Wait, Reply, Go
<1>3. AcceptFails /\ P => FALSE
  BY DEF AcceptFails, PendingInv, StartInv, ReadyInv
<1>4. ReadyInv'
  BY <1>1, <1>2, <1>3 DEF PendingInv, StartInv, ReadyInv, P, pending
<1> QED
  BY <1>1, <1>4, PendingUnchanged

(* Whatever kinds of requests there are, executing more of them adds no other. *)
LEMMA ExecuteKinds ==
    ASSUME TypeOK, NEW requests \in Seq(Kinds), NEW answer \in Clients \cup {Nobody}, NEW caller \in Callers,
           NEW enabled, Execute(requests, answer, caller, enabled),
           NEW S, aDispatchList \in Seq(S), requests \in Seq(S), \A f \in Range(frames) : f.work \in Seq(S)
    PROVE  /\ aDispatchList' \in Seq(S)
           /\ \A f \in Range(frames') : f.work \in Seq(S) /\ (f \in Range(frames) \/ f.dispatches = <<>>)
<1>1. All(requests) \in Seq(S) /\ <<>> \in Seq(S)
  BY ConcatProperties, EmptySeq DEF All
<1>2. CASE frames' = frames /\ aDispatchList' = All(requests)
  BY <1>1, <1>2
<1>3. CASE frames' = <<Fresh(requests, answer, caller)>> \o frames /\ aDispatchList' = <<>>
  <2> DEFINE f == Fresh(requests, answer, caller)
  <2>1. f \in Frame /\ frames \in Seq(Frame)
    BY FreshFrame DEF TypeOK
  <2>2. f.work = All(requests) /\ f.dispatches = <<>>
    BY DEF Fresh
  <2>3. frames' = <<f>> \o frames
    BY <1>3
  <2> HIDE DEF f
  <2>4. Range(frames') \subseteq {f} \cup Range(frames)
    BY <2>1, <2>3, StackRange
  <2> QED BY <1>1, <1>3, <2>2, <2>4
<1> QED
  BY <1>2, <1>3, Executes

(* Everything that is taken is counted. *)
LEMMA ExecuteCounts ==
    ASSUME TypeOK, NEW requests \in Seq(Kinds), NEW answer \in Clients \cup {Nobody}, NEW caller \in Callers,
           NEW enabled, Execute(requests, answer, caller, enabled), running' = running,
           mnPendingRequests = running + Total(frames)
    PROVE  mnPendingRequests' = running' + Total(frames')
<1>1. CASE frames' = frames /\ mnPendingRequests' = mnPendingRequests
  BY <1>1
<1>2. CASE frames' = <<Fresh(requests, answer, caller)>> \o frames
           /\ mnPendingRequests' = mnPendingRequests + Len(All(requests))
  <2> DEFINE f == Fresh(requests, answer, caller)
  <2>1. f \in Frame /\ frames \in Seq(Frame) /\ running \in Nat
    BY FreshFrame DEF TypeOK
  <2>2. PICK n \in Nat : n = Len(All(requests))
    BY FreshFrame, LenProperties
  <2>3. f.work = All(requests) /\ f.dispatches = <<>>
    BY DEF Fresh
  <2>4. frames' = <<f>> \o frames
    BY <1>2
  <2> HIDE DEF f
  <2>5. Unfinished(f) = n
    BY <2>2, <2>3, EmptySeq DEF Unfinished
  <2>6. Total(frames') = Total(frames) + n /\ Total(frames) \in Nat
    BY <2>1, <2>4, <2>5, TotalPush
  <2>7. mnPendingRequests' = running + Total(frames) + n
    BY <1>2, <2>2
  <2> QED BY <2>1, <2>6, <2>7
<1> QED
  BY <1>1, <1>2, Executes

\* What waits, and what is asked for, when only requests are sent whose end
\* the code hears of.
LEMMA SentKinds ==
    ASSUME TypeOK, Counted
    PROVE  /\ \A l \in scenario.lists : l \in Seq(Heard)
           /\ \A c \in Clients : list[c] \in Seq(Heard)
           /\ <<>> \in Seq(Heard) /\ <<"doc">> \in Seq(Heard)
<1>1. \A l \in scenario.lists : l \in Seq(Heard)
  BY Sent, SeqWithin DEF Counted
<1>2. <<"doc">> \in Seq(Heard)
  BY DEF Heard
<1> QED
  BY <1>1, <1>2, Sent, EmptySeq

(* Executions that begin keep the kinds and the count. *)
LEMMA BeginCounts ==
    ASSUME TypeOK, PendingInv, NEW requests \in Seq(Kinds), NEW answer \in Clients \cup {Nobody},
           NEW caller \in Callers, NEW enabled, Execute(requests, answer, caller, enabled),
           UNCHANGED <<scenario, pGlobalOfficeIPCThread, running>>, Counted => requests \in Seq(Heard)
    PROVE  /\ KindInv'
           /\ P /\ Counted => mnPendingRequests' = running' + Total(frames')
<1>1. KindInv'
  <2>1. Counted' <=> Counted
    BY DEF Counted
  <2> SUFFICES ASSUME Counted
               PROVE  /\ aDispatchList' \in Seq(Heard)
                      /\ \A f \in Range(frames') : f.work \in Seq(Heard) /\ f.dispatches \in Seq({"async"})
    BY <2>1 DEF KindInv
  <2>2. /\ aDispatchList \in Seq(Heard)
        /\ \A f \in Range(frames) : f.work \in Seq(Heard) /\ f.dispatches \in Seq({"async"})
    BY DEF PendingInv, KindInv
  <2>3. <<>> \in Seq({"async"})
    BY EmptySeq
  <2>4. /\ aDispatchList' \in Seq(Heard)
        /\ \A f \in Range(frames') : f.work \in Seq(Heard) /\ (f \in Range(frames) \/ f.dispatches = <<>>)
    BY <2>2, ExecuteKinds
  <2> QED BY <2>2, <2>3, <2>4
<1>2. ASSUME P, Counted PROVE mnPendingRequests' = running' + Total(frames')
  BY <1>2, ExecuteCounts DEF PendingInv, CountInv
<1> QED
  BY <1>1, <1>2

(* Nothing begins once the office is going down. *)
LEMMA DownBeginsNothing ==
    ASSUME TypeOK, LoadInv, PendingInv, P, Counted, mbDowning, Open \/ HandleEvent \/ OpenDocument
    PROVE  frames' = frames
<1>1. quitting = "no" /\ quit /\ ~Early
  BY DEF Open, EnableRequests, OpenArguments, SetReady, HandleEvent, OpenDocument, Yields, Runs,
         PendingInv, DownInv
<1>2. ~EnableRequests /\ ~OpenArguments
  BY <1>1 DEF EnableRequests, OpenArguments, Early
<1>3. ~Yields
  <2>1. CASE frames = <<>>
    BY <1>1, <2>1 DEF Yields
  <2>2. CASE frames # <<>>
    <3>1. Top \in Range(frames)
      BY <2>2, TopFrame
    <3>2. ~Top.loading
      BY <3>1 DEF PendingInv, CountInv, LoadInv
    <3> QED BY <2>2, <3>2 DEF Yields, Top
  <2> QED BY <2>1, <2>2
<1> QED
  BY <1>2, <1>3 DEF Open, SetReady, HandleEvent, OpenDocument

\* What the steps that begin an execution, or may, have in common.
LEMMA BeginOthers ==
    ASSUME TypeOK, LoadInv, PendingInv, Open \/ HandleEvent \/ OpenDocument,
           P /\ Counted => mnPendingRequests' = running' + Total(frames')
    PROVE  /\ UNCHANGED <<scenario, pGlobalOfficeIPCThread, mbDowning, running, quit, exits, maPipe, ipc>>
           /\ quitting = "no" /\ quitting' = "no"
           /\ CountInv' /\ (Early' => Early)
           /\ DownInv'
<1>1. /\ UNCHANGED <<scenario, pGlobalOfficeIPCThread, mbDowning, running, quit, exits, maPipe, ipc>>
      /\ quitting = "no" /\ quitting' = "no" /\ (Early' => Early)
  BY DEF Open, EnableRequests, OpenArguments, SetReady, HandleEvent, OpenDocument, Yields, Runs, thread, conditions,
         counts, peer, Early
<1>2. CountInv'
  BY <1>1, DownBeginsNothing DEF PendingInv, CountInv, Counted, P
<1>3. DownInv'
  BY <1>1 DEF PendingInv, DownInv, P
<1> QED
  BY <1>1, <1>2, <1>3

(* The documents that wait are executed, in an execution of their own. *)
LEMMA EnablePending ==
    ASSUME TypeOK, LoadInv, PendingInv, EnableRequests
    PROVE  PendingInv'
<1>0. /\ startup = "start" /\ frames = <<>> /\ startup' = "enabled" /\ Open
      /\ UNCHANGED <<scenario, pGlobalOfficeIPCThread, running, cReady, events>>
  BY DEF EnableRequests, Open, peer, conditions
<1>1. CASE P
  <2>1. Execute(<<>>, Nobody, "enable", TRUE)
    BY <1>1 DEF EnableRequests, Trigger, P
  <2>2. <<>> \in Seq(Kinds) /\ <<>> \in Seq(Heard) /\ <<>> \in Seq({"doc"}) /\ "enable" \in Callers
        /\ Nobody \in Clients \cup {Nobody}
    BY EmptySeq DEF Callers
  <2>3. KindInv' /\ (P /\ Counted => mnPendingRequests' = running' + Total(frames'))
    BY <1>0, <2>1, <2>2, BeginCounts
  <2>4. DownInv' /\ CountInv' /\ maPipe' = maPipe /\ ipc' = ipc /\ quitting' = "no"
    BY <1>0, <2>3, BeginOthers
  <2>5. ReadyInv'
    BY <1>0, <2>4 DEF PendingInv, StartInv, ReadyInv, P
  <2>6. running = 0 /\ aDispatchList \in Seq({"doc"}) /\ \A f \in Range(frames) : f.work \in Seq({"doc"}) /\ f.dispatches = <<>>
    BY <1>0, <1>1 DEF PendingInv, StartInv, EarlyInv, Early
  <2>7. /\ aDispatchList' \in Seq({"doc"})
        /\ \A f \in Range(frames') : f.work \in Seq({"doc"}) /\ (f \in Range(frames) \/ f.dispatches = <<>>)
    BY <2>1, <2>2, <2>6, ExecuteKinds
  <2>8. EarlyInv'
    BY <1>0, <2>4, <2>6, <2>7 DEF EarlyInv
  <2>9. OrderInv'
    <3> DEFINE f == Fresh(<<>>, Nobody, "enable")
    <3>1. f \in Frame /\ f.caller = "enable"
      BY <2>2, FreshFrame DEF Fresh
    <3>2. frames' = <<f>> \o <<>>
      BY <1>0, <1>1, <2>1, Executes DEF P
    <3> HIDE DEF f
    <3>3. <<>> \in Seq(Frame) /\ Len(<<>>) = 0
      BY EmptySeq
    <3>4. Len(frames') = 1 /\ frames'[1] = f
      BY <3>1, <3>2, <3>3, PushFacts
    <3> QED BY <1>0, <3>1, <3>4 DEF OrderInv
  <2> QED BY <2>3, <2>4, <2>5, <2>8, <2>9 DEF PendingInv, StartInv
<1>2. CASE ~P
  <2>1. UNCHANGED <<mnPendingRequests, aDispatchList, frames, mbRequestsEnabled>>
    BY <1>2 DEF EnableRequests, P
  <2>2. P /\ Counted => mnPendingRequests' = running' + Total(frames')
    BY <1>2
  <2>3. DownInv' /\ CountInv'
    BY <1>0, <2>2, BeginOthers
  <2>4. KindInv'
    BY <1>0, <2>1 DEF PendingInv, KindInv, Counted
  <2>5. OrderInv' /\ ReadyInv' /\ EarlyInv'
    BY <1>0, <1>2, <2>1 DEF OrderInv, ReadyInv, EarlyInv, P
  <2> QED BY <2>3, <2>4, <2>5 DEF PendingInv, StartInv
<1> QED
  BY <1>1, <1>2

(* From then on the office is not early any more. *)
LEMMA OpenedPending ==
    ASSUME TypeOK, LoadInv, PendingInv, OpenArguments \/ SetReady
    PROVE  PendingInv'
<1>0. /\ startup' \in {"opened", "ready"} /\ Open /\ (startup' # "ready" => startup # "ready" /\ cReady' = cReady)
      /\ (cReady => cReady')
      /\ UNCHANGED <<scenario, pGlobalOfficeIPCThread, running, events>>
  <2>1. CASE OpenArguments
    BY <2>1 DEF OpenArguments, Open, peer, conditions, thread
  <2>2. CASE SetReady
    <3>1. cReady => cReady'
      BY <2>2 DEF SetReady
    <3> QED BY <2>2, <3>1 DEF SetReady, Open, peer, thread, counts
  <2> QED BY <2>1, <2>2
<1>1. KindInv' /\ (P /\ Counted => mnPendingRequests' = running' + Total(frames'))
  <2>1. CASE UNCHANGED <<mnPendingRequests, aDispatchList, frames>>
    BY <1>0, <2>1 DEF PendingInv, KindInv, CountInv, Counted
  <2>2. ASSUME NEW requests \in scenario.lists, Execute(requests, Nobody, "open", mbRequestsEnabled)
        PROVE  KindInv' /\ (P /\ Counted => mnPendingRequests' = running' + Total(frames'))
    <3>1. requests \in Seq(Kinds) /\ (Counted => requests \in Seq(Heard)) /\ "open" \in Callers
          /\ Nobody \in Clients \cup {Nobody}
      BY Sent, SentKinds DEF Callers
    <3> QED BY <1>0, <2>2, <3>1, BeginCounts
  <2> QED BY <2>1, <2>2 DEF OpenArguments, SetReady, counts
<1>2. DownInv' /\ CountInv' /\ maPipe' = maPipe /\ ipc' = ipc
  BY <1>0, <1>1, BeginOthers
<1>3. ReadyInv'
  BY <1>0, <1>2 DEF PendingInv, StartInv, ReadyInv, P
<1>4. OrderInv' /\ EarlyInv'
  BY <1>0 DEF OrderInv, EarlyInv, Early
<1> QED
  BY <1>1, <1>2, <1>3, <1>4 DEF PendingInv, StartInv

(* A request of a client, or of the OS. *)
LEMMA EventPending ==
    ASSUME TypeOK, LoadInv, PendingInv, HandleEvent \/ OpenDocument
    PROVE  PendingInv'
<1>0. /\ Yields /\ UNCHANGED <<scenario, pGlobalOfficeIPCThread, mbRequestsEnabled, running, startup, cReady>>
      /\ frames \in Seq(Frame)
  BY DEF HandleEvent, OpenDocument, thread, conditions, TypeOK
<1>1. \E requests \in Seq(Kinds), answer \in Clients \cup {Nobody} :
        /\ Execute(requests, answer, "event", mbRequestsEnabled)
        /\ Counted => requests \in Seq(Heard)
        /\ OpenDocument => requests = <<"doc">>
  <2>1. CASE HandleEvent /\ ~OpenDocument
    <3>1. Head(events) \in Clients
      <4>1. events \in Seq(Clients) /\ events # <<>>
        BY <2>1 DEF HandleEvent, TypeOK
      <4> QED BY <4>1, HeadTailProperties
    <3>2. Execute(list[Head(events)], Head(events), "event", mbRequestsEnabled)
      BY <2>1 DEF HandleEvent
    <3> QED BY <2>1, <3>1, <3>2, Sent, SentKinds
  <2>2. CASE OpenDocument
    BY <2>2, Sent, SentKinds DEF OpenDocument
  <2> QED BY <2>1, <2>2
<1>2. PICK requests \in Seq(Kinds), answer \in Clients \cup {Nobody} :
        /\ Execute(requests, answer, "event", mbRequestsEnabled)
        /\ Counted => requests \in Seq(Heard)
        /\ OpenDocument => requests = <<"doc">>
  BY <1>1
<1>3. KindInv' /\ (P /\ Counted => mnPendingRequests' = running' + Total(frames'))
  BY <1>0, <1>2, BeginCounts DEF Callers
<1>4. DownInv' /\ CountInv' /\ UNCHANGED <<maPipe, ipc, exits>> /\ quitting' = "no"
  BY <1>3, BeginOthers
<1>5. OpenDocument => events' = events
  BY DEF OpenDocument, peer
<1>6. P /\ ~cReady => ~HandleEvent
  BY DEF PendingInv, StartInv, ReadyInv, HandleEvent
<1>7. ReadyInv'
  BY <1>0, <1>4, <1>5, <1>6 DEF PendingInv, StartInv, ReadyInv, P
<1>8. EarlyInv'
  <2> SUFFICES ASSUME P, Early
               PROVE  /\ running' = 0 /\ aDispatchList' \in Seq({"doc"})
                      /\ \A f \in Range(frames') : f.work \in Seq({"doc"}) /\ f.dispatches = <<>>
    BY <1>0, <1>4 DEF EarlyInv, P, Early
  <2>1. /\ running = 0 /\ aDispatchList \in Seq({"doc"})
        /\ \A f \in Range(frames) : f.work \in Seq({"doc"}) /\ f.dispatches = <<>>
    BY DEF PendingInv, StartInv, EarlyInv
  <2>2. requests \in Seq({"doc"})
    <3>1. startup # "ready"
      BY DEF Early
    <3>2. ~HandleEvent
      BY <1>6, <3>1 DEF PendingInv, StartInv, ReadyInv
    <3> QED BY <1>2, <3>2, Sent
  <2>3. /\ aDispatchList' \in Seq({"doc"})
        /\ \A f \in Range(frames') : f.work \in Seq({"doc"}) /\ (f \in Range(frames) \/ f.dispatches = <<>>)
    BY <1>2, <2>1, <2>2, ExecuteKinds DEF Callers
  <2> QED BY <1>0, <2>1, <2>3
<1>9. OrderInv'
  <2>1. CASE frames' = frames
    BY <1>0, <2>1 DEF PendingInv, StartInv, OrderInv
  <2>2. CASE mbRequestsEnabled /\ frames' = <<Fresh(requests, answer, "event")>> \o frames
    <3>1. startup # "start"
      BY <2>2 DEF PendingInv, StartInv, OrderInv
    <3>2. ASSUME startup = "enabled" PROVE frames'[Len(frames')].caller = "enable"
      <4>1. frames # <<>> /\ frames[Len(frames)].caller = "enable"
        BY <1>0, <3>2 DEF PendingInv, StartInv, OrderInv, Yields
      <4> DEFINE f == Fresh(requests, answer, "event")
                 n == Len(frames)
      <4>2. f \in Frame /\ frames' = <<f>> \o frames
        BY <2>2, FreshFrame DEF Callers
      <4>3. n \in Nat /\ n >= 1
        BY <1>0, <4>1, PopFacts
      <4> HIDE DEF f
      <4>4. Len(frames') = n + 1 /\ \A i \in 1..n + 1 : i # 1 => frames'[i] = frames[i - 1]
        BY <1>0, <4>2, PushFacts
      <4> HIDE DEF n
      <4>5. PICK m \in 1..n + 1 : m = n + 1 /\ m # 1 /\ m - 1 = n
        BY <4>3
      <4>6. frames'[m] = frames[n]
        BY <4>4, <4>5
      <4> QED BY <4>1, <4>4, <4>5, <4>6 DEF n
    <3> QED BY <1>0, <3>1, <3>2 DEF OrderInv
  <2> QED BY <1>2, <2>1, <2>2, Executes
<1> QED
  BY <1>3, <1>4, <1>7, <1>8, <1>9 DEF PendingInv, StartInv

(* What the steps of an execution, but its end, make of its requests. *)
OnTop(g) ==
    \/ (CallWatcher \/ TryTerminate) /\ g.work = Top.work /\ g.dispatches = Top.dispatches
    \/ /\ Request /\ Top.work # <<>> /\ Head(Top.work) = "doc"
       /\ g.work = Top.work /\ g.dispatches = Top.dispatches
    \/ /\ Request /\ Top.work # <<>> /\ Head(Top.work) \in {"filter", "none", "service"}
       /\ g.work = Tail(Top.work) /\ g.dispatches = Top.dispatches
    \/ /\ Request /\ Top.work # <<>> /\ Head(Top.work) \in {"async", "plain"}
       /\ g.work = Tail(Top.work) /\ g.dispatches = Append(Top.dispatches, Head(Top.work))
    \/ Loaded /\ Top.work # <<>> /\ g.work = Tail(Top.work) /\ g.dispatches = Top.dispatches
    \/ Dispatch /\ Top.dispatches # <<>> /\ g.work = Top.work /\ g.dispatches = Tail(Top.dispatches)

LEMMA WorkOnTop ==
    ASSUME TypeOK, LoadInv, Work, ~Finish
    PROVE  \E g \in Frame : frames' = <<g>> \o Tail(frames) /\ g.caller = Top.caller /\ OnTop(g)
<1>1. Top \in Frame
  BY WorkFrames
<1>2. CASE CallWatcher /\ frames' = <<[Top EXCEPT !.stage = "begun"]>> \o Tail(frames)
  BY <1>1, <1>2, FrameStaged DEF OnTop, Stages
<1>3. CASE /\ TryTerminate /\ frames' = <<[Top EXCEPT !.stage = "tried"]>> \o Tail(frames)
  BY <1>1, <1>3, FrameStaged DEF OnTop, Stages
<1>4. CASE Request /\ Top.work # <<>>
  <2>1. CASE Head(Top.work) = "doc" /\ frames' = <<[Top EXCEPT !.loading = TRUE]>> \o Tail(frames)
    BY <1>1, <1>4, <2>1, FrameLoading DEF OnTop
  <2>2. CASE Head(Top.work) \in {"filter", "none", "service"} /\ frames' = <<Looked(Top)>> \o Tail(frames)
    BY <1>1, <1>4, <2>2, FrameLooked DEF OnTop
  <2>3. CASE Head(Top.work) \in {"async", "plain"} /\ frames' = <<PutOff(Top, Head(Top.work))>> \o Tail(frames)
    <3> DEFINE kind == Head(Top.work)
    <3>1. kind \in Kinds /\ kind \in {"async", "plain"}
      BY <2>3 DEF Kinds
    <3> HIDE DEF kind
    <3>2. /\ PutOff(Top, kind) \in Frame /\ PutOff(Top, kind).work = Tail(Top.work)
          /\ PutOff(Top, kind).dispatches = Append(Top.dispatches, kind) /\ PutOff(Top, kind).caller = Top.caller
      BY <1>1, <1>4, <3>1, FramePutOff
    <3> QED BY <1>4, <2>3, <3>1, <3>2 DEF OnTop, kind
  <2>4. \/ Head(Top.work) = "doc" /\ frames' = <<[Top EXCEPT !.loading = TRUE]>> \o Tail(frames)
        \/ Head(Top.work) \in {"filter", "none", "service"} /\ frames' = <<Looked(Top)>> \o Tail(frames)
        \/ Head(Top.work) \in {"async", "plain"} /\ frames' = <<PutOff(Top, Head(Top.work))>> \o Tail(frames)
    BY <1>4 DEF Request, Replace, Looked, PutOff
  <2> QED BY <2>1, <2>2, <2>3, <2>4
<1>5. CASE Loaded /\ Top.work # <<>> /\ frames' = <<LoadedOf(Top)>> \o Tail(frames)
  BY <1>1, <1>5, FrameLoaded DEF OnTop
<1>6. CASE Dispatch /\ Top.dispatches # <<>> /\ frames' = <<Dispatched(Top)>> \o Tail(frames)
  BY <1>1, <1>6, FrameDispatched DEF OnTop
<1> QED
  BY <1>2, <1>3, <1>4, <1>5, <1>6, WorkFrames

(* An execution puts off only what it was asked for. *)
LEMMA WorkKinds ==
    ASSUME TypeOK, LoadInv, Work, NEW S, NEW D, S \cap {"async", "plain"} \subseteq D,
           \A f \in Range(frames) : f.work \in Seq(S) /\ f.dispatches \in Seq(D)
    PROVE  \A f \in Range(frames') : f.work \in Seq(S) /\ f.dispatches \in Seq(D)
<1>1. frames \in Seq(Frame) /\ frames # <<>> /\ Top \in Range(frames) /\ Range(Tail(frames)) \subseteq Range(frames)
  BY WorkFrames, TopFrame
<1>2. CASE Finish
  BY <1>1, <1>2 DEF Finish
<1>3. CASE ~Finish
  <2>1. PICK g \in Frame : frames' = <<g>> \o Tail(frames) /\ OnTop(g)
    BY <1>3, WorkOnTop
  <2>2. Range(frames') \subseteq {g} \cup Range(frames)
    BY <1>1, <2>1, StackRange
  <2>3. Top.work \in Seq(S) /\ Top.dispatches \in Seq(D)
    BY <1>1
  <2>4. Top.work # <<>> => Tail(Top.work) \in Seq(S) /\ Head(Top.work) \in S
    BY <2>3, HeadTailProperties
  <2>5. Top.dispatches # <<>> => Tail(Top.dispatches) \in Seq(D)
    BY <2>3, HeadTailProperties
  <2>6. \A kind \in D : Append(Top.dispatches, kind) \in Seq(D)
    BY <2>3, AppendProperties
  <2>7. g.work \in Seq(S) /\ g.dispatches \in Seq(D)
    BY <2>1, <2>3, <2>4, <2>5, <2>6 DEF OnTop
  <2> QED BY <2>2, <2>7
<1> QED
  BY <1>2, <1>3

(* Every request that is done is counted off, and a dispatch counts until it *)
(* has finished.                                                             *)
LEMMA WorkCounts ==
    ASSUME TypeOK, LoadInv, PendingInv, P, Counted, Work
    PROVE  mnPendingRequests' = running' + Total(frames')
<1>1. /\ frames \in Seq(Frame) /\ frames # <<>> /\ Top \in Range(frames) /\ Top \in Frame
      /\ Tail(frames) \in Seq(Frame) /\ Top = frames[1]
  BY WorkFrames, TopFrame
<1>2. PICK t \in Nat : t = Total(Tail(frames))
  BY <1>1, TotalTop
<1>3. PICK u \in Nat : u = Unfinished(Top)
  BY <1>1, UnfinishedNat
<1>4. Total(frames) = t + u
  BY <1>1, <1>2, <1>3, TotalTop
<1>5. PICK r \in Nat, n \in Int : r = running /\ n = mnPendingRequests
  BY DEF TypeOK
<1>6. n = r + (t + u)
  BY <1>4, <1>5 DEF PendingInv, CountInv
<1>7. CASE Finish
  <2>1. Top.work = <<>> /\ Top.dispatches = <<>> /\ frames' = Tail(frames)
        /\ running' = running /\ mnPendingRequests' = mnPendingRequests
    BY <1>7 DEF Finish, Finishing, counts
  <2>2. u = 0
    BY <1>1, <1>3, <2>1, UnfinishedNat
  <2>3. Total(frames') = t /\ running' = r /\ mnPendingRequests' = n
    BY <1>2, <1>5, <2>1
  <2>4. n = r + t
    BY <1>6, <2>2
  <2> QED BY <2>3, <2>4
<1>8. CASE ~Finish
  <2>1. PICK g \in Frame : frames' = <<g>> \o Tail(frames) /\ OnTop(g)
    BY <1>8, WorkOnTop
  <2>2. PICK v \in Nat : v = Unfinished(g)
    BY UnfinishedNat
  <2>3. Total(frames') = t + v
    BY <1>1, <1>2, <2>1, <2>2, TotalTop
  <2>4. /\ Top.work \in Seq(Heard) /\ Top.dispatches \in Seq({"async"})
    BY <1>1 DEF PendingInv, KindInv
  <2>5. /\ Len(Top.work) \in Nat /\ Len(Top.dispatches) \in Nat
        /\ Top.work # <<>> => Len(Top.work) >= 1 /\ Len(Tail(Top.work)) = Len(Top.work) - 1 /\ Head(Top.work) \in Heard
        /\ Top.dispatches # <<>> => /\ Len(Top.dispatches) >= 1 /\ Len(Tail(Top.dispatches)) = Len(Top.dispatches) - 1
                                    /\ Head(Top.dispatches) = "async"
    BY <2>4, LenProperties, EmptySeq, HeadTailProperties
  <2>6. \A kind : kind = "async" => Len(Append(Top.dispatches, kind)) = Len(Top.dispatches) + 1
    BY <2>4, AppendProperties
  <2>7. PICK w \in Nat, d \in Nat : w = Len(Top.work) /\ d = Len(Top.dispatches)
    BY <2>5
  <2>8. u = w + d
    BY <1>3, <2>7 DEF Unfinished
  <2>9. ASSUME g.work = Top.work, g.dispatches = Top.dispatches PROVE v = u
    BY <1>3, <2>2, <2>9 DEF Unfinished
  <2>10. ASSUME Top.work # <<>>, g.work = Tail(Top.work), g.dispatches = Top.dispatches PROVE v = u - 1 /\ u >= 1
    <3>1. Len(g.work) = w - 1 /\ Len(g.dispatches) = d /\ w >= 1
      BY <2>5, <2>7, <2>10
    <3>2. v = w - 1 + d
      BY <2>2, <3>1 DEF Unfinished
    <3> QED BY <2>8, <3>1, <3>2
  <2>11. ASSUME Complete, u >= 1 PROVE mnPendingRequests' = n - 1
    <3>1. n > 0
      BY <1>6, <2>11
    <3> QED BY <1>5, <2>11, <3>1 DEF Complete, P
  \* Nothing is done, something is done, or a dispatch is on its way.
  <2>12. CASE v = u /\ running' = r /\ mnPendingRequests' = n
    <3>1. n = r + (t + v)
      BY <1>6, <2>12
    <3> QED BY <2>3, <2>12, <3>1
  <2>13. CASE v = u - 1 /\ running' = r /\ mnPendingRequests' = n - 1
    <3>1. n - 1 = r + (t + v)
      BY <1>6, <2>13
    <3> QED BY <2>3, <2>13, <3>1
  <2>14. CASE v = u - 1 /\ running' = r + 1 /\ mnPendingRequests' = n
    <3>1. n = r + 1 + (t + v)
      BY <1>6, <2>14
    <3> QED BY <2>3, <2>14, <3>1
  <2>15. CASE (CallWatcher \/ TryTerminate) /\ g.work = Top.work /\ g.dispatches = Top.dispatches
    <3>1. running' = r /\ mnPendingRequests' = n
      BY <1>5, <2>15 DEF CallWatcher, TryTerminate, counts
    <3> QED BY <2>9, <2>12, <2>15, <3>1
  <2>16. CASE /\ Request /\ Top.work # <<>> /\ Head(Top.work) = "doc"
              /\ g.work = Top.work /\ g.dispatches = Top.dispatches
    <3>1. running' = r /\ mnPendingRequests' = n
      BY <1>5, <2>16 DEF Request, counts
    <3> QED BY <2>9, <2>12, <2>16, <3>1
  <2>17. CASE /\ Request /\ Top.work # <<>> /\ Head(Top.work) \in {"filter", "none", "service"}
              /\ g.work = Tail(Top.work) /\ g.dispatches = Top.dispatches
    <3>1. Head(Top.work) = "filter"
      BY <2>5, <2>17 DEF Heard
    <3>2. Complete /\ running' = r
      BY <1>5, <2>17, <3>1 DEF Request
    <3> QED BY <2>10, <2>11, <2>13, <2>17, <3>2
  <2>18. CASE /\ Request /\ Top.work # <<>> /\ Head(Top.work) \in {"async", "plain"}
              /\ g.work = Tail(Top.work) /\ g.dispatches = Append(Top.dispatches, Head(Top.work))
    <3>1. Head(Top.work) = "async"
      BY <2>5, <2>18 DEF Heard
    <3>2. running' = r /\ mnPendingRequests' = n
      BY <1>5, <2>18, <3>1 DEF Request
    <3>3. Len(g.work) = w - 1 /\ Len(g.dispatches) = d + 1
      BY <2>5, <2>6, <2>7, <2>18, <3>1
    <3>4. v = w - 1 + (d + 1)
      BY <2>2, <3>3 DEF Unfinished
    <3>5. v = u
      BY <2>8, <3>4
    <3> QED BY <2>12, <3>2, <3>5
  <2>19. CASE Loaded /\ Top.work # <<>> /\ g.work = Tail(Top.work) /\ g.dispatches = Top.dispatches
    <3>1. Complete /\ running' = r
      BY <1>5, <2>19 DEF Loaded
    <3> QED BY <2>10, <2>11, <2>13, <2>19, <3>1
  <2>20. CASE Dispatch /\ Top.dispatches # <<>> /\ g.work = Top.work /\ g.dispatches = Tail(Top.dispatches)
    <3>1. Head(Top.dispatches) = "async"
      BY <2>5, <2>20
    <3>2. running' = r + 1 /\ mnPendingRequests' = n
      BY <1>5, <2>20, <3>1 DEF Dispatch
    <3>3. Len(g.work) = w /\ Len(g.dispatches) = d - 1
      BY <2>5, <2>7, <2>20
    <3>4. v = w + (d - 1)
      BY <2>2, <3>3 DEF Unfinished
    <3>5. v = u - 1
      BY <2>8, <3>4
    <3> QED BY <2>14, <3>2, <3>5
  <2> QED
    BY <2>1, <2>15, <2>16, <2>17, <2>18, <2>19, <2>20 DEF OnTop
<1> QED
  BY <1>7, <1>8

LEMMA WorkPending ==
    ASSUME TypeOK, LoadInv, PendingInv, Work
    PROVE  PendingInv'
<1>0. /\ frames \in Seq(Frame) /\ frames # <<>> /\ Top \in Frame /\ Top \in Range(frames) /\ Top = frames[1]
      /\ Len(frames) \in Nat /\ Len(frames) >= 1 /\ Range(Tail(frames)) \subseteq Range(frames)
  BY WorkFrames, TopFrame
<1>1. /\ UNCHANGED <<scenario, pGlobalOfficeIPCThread, mbDowning, mbRequestsEnabled, startup, cReady, ipc, events, maPipe,
                     aDispatchList, quit>>
      /\ quitting = "no" /\ (quitting' = "no" \/ (TryTerminate /\ quitting' = "query"))
  BY DEF Work, CallWatcher, Request, Loaded, Dispatch, TryTerminate, Finish, OnlyCounts, Finishing, Busy, Runs,
         thread, conditions, peer
<1>2. KindInv'
  <2>1. Counted' <=> Counted
    BY <1>1 DEF Counted
  <2>2. Heard \cap {"async", "plain"} \subseteq {"async"}
    BY DEF Heard
  <2>3. ASSUME Counted PROVE \A f \in Range(frames') : f.work \in Seq(Heard) /\ f.dispatches \in Seq({"async"})
    BY <2>2, <2>3, WorkKinds DEF PendingInv, KindInv
  <2> QED BY <1>1, <2>1, <2>3 DEF PendingInv, KindInv
<1>3. ReadyInv'
  BY <1>1 DEF PendingInv, StartInv, ReadyInv, P
<1>4. OrderInv'
  <2>1. startup # "start"
    BY <1>0 DEF PendingInv, StartInv, OrderInv
  <2> SUFFICES ASSUME startup = "enabled", frames' # <<>> PROVE frames'[Len(frames')].caller = "enable"
    BY <1>1, <2>1 DEF OrderInv
  <2>2. frames[Len(frames)].caller = "enable"
    BY <1>0 DEF PendingInv, StartInv, OrderInv
  <2>3. PICK n \in Nat : n = Len(frames) /\ n >= 1
    BY <1>0
  <2>4. CASE Finish
    <3>1. frames' = Tail(frames)
      BY <2>4 DEF Finish
    <3>2. /\ frames' \in Seq(Frame) /\ Len(frames') = n - 1
          /\ \A i \in 1..n - 1 : frames'[i] = frames[i + 1]
      BY <1>0, <2>3, <3>1, PopFacts
    <3>3. PICK m \in Nat : m = n - 1 /\ m >= 1 /\ m = Len(frames')
      BY <3>2, EmptySeq
    <3>4. frames'[m] = frames[m + 1] /\ m + 1 = n
      BY <2>3, <3>2, <3>3
    <3> QED BY <2>2, <2>3, <3>3, <3>4
  <2>5. CASE ~Finish
    <3>1. PICK g \in Frame : frames' = <<g>> \o Tail(frames) /\ g.caller = Top.caller
      BY <2>5, WorkOnTop
    <3>2. Len(frames') = n /\ frames'[1] = g /\ \A i \in 1..n : i # 1 => frames'[i] = frames[i]
      BY <1>0, <2>3, <3>1, SwapFacts
    <3>3. CASE n = 1
      BY <1>0, <2>2, <2>3, <3>1, <3>2, <3>3
    <3>4. CASE n # 1
      BY <2>2, <2>3, <3>2, <3>4
    <3> QED BY <3>3, <3>4
  <2> QED BY <2>4, <2>5
<1>5. EarlyInv'
  <2> SUFFICES ASSUME P, Early
               PROVE  /\ running' = 0 /\ aDispatchList' \in Seq({"doc"})
                      /\ \A f \in Range(frames') : f.work \in Seq({"doc"}) /\ f.dispatches = <<>>
                      /\ quitting' \notin {"query", "downing"}
    BY <1>1 DEF EarlyInv, P, Early
  <2>1. /\ running = 0 /\ aDispatchList \in Seq({"doc"})
        /\ \A f \in Range(frames) : f.work \in Seq({"doc"}) /\ f.dispatches = <<>>
    BY DEF PendingInv, StartInv, EarlyInv
  <2>2. \A d : d \in Seq({}) <=> d = <<>>
    <3>1. ASSUME NEW d \in Seq({}) PROVE d = <<>>
      BY <3>1, HeadTailProperties
    <3>2. <<>> \in Seq({})
      BY EmptySeq
    <3> QED BY <3>1, <3>2
  <2>3. \A f \in Range(frames') : f.work \in Seq({"doc"}) /\ f.dispatches \in Seq({})
    <3>1. {"doc"} \cap {"async", "plain"} \subseteq {}
      OBVIOUS
    <3>2. \A f \in Range(frames) : f.work \in Seq({"doc"}) /\ f.dispatches \in Seq({})
      BY <2>1, <2>2
    <3> QED BY <3>1, <3>2, WorkKinds
  <2>4. running' = 0
    <3>1. Top.work # <<>> => Head(Top.work) = "doc"
      BY <1>0, <2>1, HeadTailProperties
    <3>2. Top.dispatches = <<>>
      BY <1>0, <2>1
    <3>3. ~Dispatch
      BY <3>2 DEF Dispatch
    <3>4. Request => running' = running
      BY <3>1 DEF Request, counts
    <3> QED BY <2>1, <3>3, <3>4 DEF Work, CallWatcher, Loaded, TryTerminate, Finish, counts
  <2>5. ~TryTerminate
    <3>1. InEnableRequests
      <4>1. startup # "start"
        BY <1>0 DEF PendingInv, StartInv, OrderInv
      <4>2. frames[Len(frames)].caller = "enable"
        BY <1>0, <4>1 DEF PendingInv, StartInv, OrderInv, Early
      <4>3. Len(frames) \in DOMAIN frames
        BY <1>0, LenProperties
      <4> QED BY <4>2, <4>3 DEF InEnableRequests
    <3> QED BY <3>1 DEF TryTerminate
  <2> QED BY <1>1, <2>1, <2>2, <2>3, <2>4, <2>5
<1>6. DownInv'
  <2>1. TryTerminate => ~quit
    BY DEF TryTerminate
  <2>2. P' /\ mbDowning' => quit' /\ ~Early'
    BY <1>1 DEF PendingInv, DownInv, P, Early
  <2> QED BY <1>1, <2>1, <2>2 DEF DownInv
<1>7. CountInv'
  <2> SUFFICES ASSUME P, Counted
               PROVE  /\ mnPendingRequests' = running' + Total(frames')
                      /\ mbDowning => \A f \in Range(frames') : f.work = <<>> /\ f.dispatches = <<>>
    BY <1>1 DEF CountInv, P, Counted
  <2>1. mnPendingRequests' = running' + Total(frames')
    BY WorkCounts
  <2>2. ASSUME mbDowning PROVE \A f \in Range(frames') : f.work = <<>> /\ f.dispatches = <<>>
    <3>1. \A f \in Range(frames) : f.work = <<>> /\ f.dispatches = <<>>
      BY <2>2 DEF PendingInv, CountInv
    <3>2. CASE Finish
      BY <1>0, <3>1, <3>2 DEF Finish
    <3>3. CASE ~Finish
      <4>1. PICK g \in Frame : frames' = <<g>> \o Tail(frames) /\ OnTop(g)
        BY <3>3, WorkOnTop
      <4>2. Range(frames') \subseteq {g} \cup Range(frames)
        BY <1>0, <4>1, StackRange
      <4>3. g.work = <<>> /\ g.dispatches = <<>>
        BY <1>0, <3>1, <4>1 DEF OnTop
      <4> QED BY <3>1, <4>2, <4>3
    <3> QED BY <3>2, <3>3
  <2> QED BY <2>1, <2>2
<1> QED
  BY <1>2, <1>3, <1>4, <1>5, <1>6, <1>7 DEF PendingInv, StartInv

(* A dispatch that has finished was counted. *)
LEMMA DispatchPending ==
    ASSUME TypeOK, PendingInv, DispatchFinished
    PROVE  PendingInv'
<1>1. /\ UNCHANGED <<scenario, pGlobalOfficeIPCThread, mbDowning, mbRequestsEnabled, maPipe, cReady, ipc, events,
                     aDispatchList, frames, startup, quit>>
      /\ running > 0 /\ running' = running - 1 /\ Complete /\ quitting = "no"
      /\ quitting' = "no" \/ (quitting' = "query" /\ ~quit)
  BY DEF DispatchFinished, Runs, thread, conditions, peer
<1>2. PICK r \in Nat, n \in Int, t \in Nat : r = running /\ n = mnPendingRequests /\ t = Total(frames)
  BY TotalNone DEF TypeOK
<1>3. OrderInv' /\ ReadyInv' /\ KindInv'
  BY <1>1 DEF PendingInv, StartInv, OrderInv, ReadyInv, KindInv, Counted, P
<1>4. P => ~Early
  BY <1>1 DEF PendingInv, StartInv, EarlyInv
<1>5. EarlyInv' /\ DownInv'
  BY <1>1, <1>4 DEF PendingInv, EarlyInv, DownInv, Early, P
<1>6. CountInv'
  <2> SUFFICES ASSUME P, Counted
               PROVE  /\ mnPendingRequests' = running' + t
                      /\ mbDowning => \A f \in Range(frames) : f.work = <<>> /\ f.dispatches = <<>>
    BY <1>1, <1>2 DEF CountInv, P, Counted
  <2>1. n = r + t /\ r > 0 /\ n > 0
    BY <1>1, <1>2 DEF PendingInv, CountInv
  <2>2. mnPendingRequests' = n - 1 /\ running' = r - 1
    BY <1>1, <1>2, <2>1 DEF Complete, P
  <2>3. n - 1 = r - 1 + t
    BY <2>1
  <2> QED BY <2>2, <2>3 DEF PendingInv, CountInv
<1> QED
  BY <1>3, <1>5, <1>6 DEF PendingInv, StartInv

(* The veto of queryTermination, SetDowning and what follows. *)
LEMMA ShutPending ==
    ASSUME TypeOK, PendingInv, QueryExit \/ Shut \/ Signal \/ Done \/ UNCHANGED vars
    PROVE  PendingInv'
<1>1. /\ UNCHANGED <<scenario, mbRequestsEnabled, mnPendingRequests, running, ipc, events, aDispatchList, frames, startup>>
      /\ P' => P
  BY DEF QueryExit, Shut, QueryTermination, SetDowning, MainLoopEnds, DisableOfficeIPCThread, Join, Signal, Done,
         Shutting, Close, vars, thread, conditions, counts, peer, main, P
<1>2. OrderInv' /\ KindInv'
  BY <1>1 DEF PendingInv, StartInv, OrderInv, KindInv, Counted
\* Once the thread object is gone nothing is claimed.
<1>3. CASE ~P' /\ ~(QueryExit \/ QueryTermination \/ SetDowning \/ MainLoopEnds)
  <2>1. ReadyInv' /\ EarlyInv' /\ CountInv'
    BY <1>3 DEF ReadyInv, EarlyInv, CountInv
  <2>2. quitting' \in {"query", "downing"} => quitting' = quitting /\ quit' = quit
    BY <1>3 DEF Shut, DisableOfficeIPCThread, Join, Signal, Done, Shutting, vars, main
  <2>3. DownInv'
    BY <1>3, <2>2 DEF PendingInv, DownInv
  <2> QED BY <1>2, <2>1, <2>3 DEF PendingInv, StartInv
<1>4. CASE P' /\ (DisableOfficeIPCThread \/ Signal)
  <2>1. FALSE
    BY <1>4 DEF DisableOfficeIPCThread, Signal, Close, P, thread
  <2> QED BY <2>1
<1>5. CASE UNCHANGED vars \/ Done
  <2>1. UNCHANGED pending /\ UNCHANGED <<cReady, maPipe>>
    BY <1>5 DEF Done, vars, thread, conditions, counts, main, pending
  <2>2. ReadyInv'
    BY <1>1, <2>1 DEF PendingInv, StartInv, ReadyInv, P
  <2> QED BY <2>1, <2>2, PendingUnchanged
<1>6. CASE QueryExit \/ QueryTermination \/ SetDowning \/ MainLoopEnds \/ Join
  <2>1. UNCHANGED <<pGlobalOfficeIPCThread, cReady, maPipe>>
    BY <1>6 DEF QueryExit, QueryTermination, SetDowning, MainLoopEnds, Join, thread
  <2>2. ReadyInv'
    BY <1>1, <2>1 DEF PendingInv, StartInv, ReadyInv, P
  <2>3. EarlyInv'
    <3>1. quitting' \in {"query", "downing"} =>
             exits' = TRUE \/ (quitting \in {"query", "downing"} /\ exits' = exits)
      <4>1. CASE QueryExit
        <5>1. exits' = TRUE
          BY <4>1 DEF QueryExit
        <5> QED BY <5>1
      <4>2. CASE QueryTermination
        BY <4>2 DEF QueryTermination, Shutting
      <4>3. CASE SetDowning
        BY <4>3 DEF SetDowning, Shutting
      <4>4. CASE MainLoopEnds \/ Join
        BY <4>4 DEF MainLoopEnds, Join, Shutting
      <4> QED BY <1>6, <4>1, <4>2, <4>3, <4>4
    <3> QED BY <1>1, <2>1, <3>1 DEF PendingInv, StartInv, EarlyInv, Early, P
  <2>4. CASE ~SetDowning
    <3>1. mbDowning' = mbDowning /\ quit' = quit
      BY <1>6, <2>4 DEF QueryExit, QueryTermination, MainLoopEnds, Join, thread
    <3>2. CountInv'
      BY <1>1, <2>1, <3>1 DEF PendingInv, CountInv, Counted, P
    <3>3. quitting' \in {"query", "downing"} => ~quit
      BY <1>6, <2>4 DEF QueryExit, QueryTermination, MainLoopEnds, Join, Shutting, PendingInv, DownInv
    <3>4. P /\ Counted /\ quitting' = "downing" => mnPendingRequests = 0
      <4> SUFFICES ASSUME P, Counted, quitting' = "downing" PROVE mnPendingRequests = 0
        OBVIOUS
      <4>1. QueryTermination /\ ~(mnPendingRequests > 0)
        BY <1>6, <2>4 DEF QueryExit, QueryTermination, MainLoopEnds, Join, Shutting, P
      <4>2. PICK n \in Nat : n = mnPendingRequests
        <5>1. mnPendingRequests = running + Total(frames) /\ running \in Nat /\ Total(frames) \in Nat
          BY TotalNone DEF PendingInv, CountInv, TypeOK
        <5> QED BY <5>1
      <4> QED BY <4>1, <4>2
    <3>5. P /\ mbDowning => quit /\ (quitting' = "no" => ~Early)
      <4> SUFFICES ASSUME P, mbDowning PROVE quit /\ (quitting' = "no" => ~Early)
        OBVIOUS
      <4>1. quit
        BY DEF PendingInv, DownInv
      <4>2. quitting' # "no"
        BY <1>6, <2>4, <4>1 DEF QueryExit, QueryTermination, MainLoopEnds, Join, Shutting, PendingInv, DownInv
      <4> QED BY <4>1, <4>2
    <3>6. DownInv'
      BY <1>1, <2>1, <3>1, <3>3, <3>4, <3>5 DEF DownInv, Counted, Early, P
    <3> QED BY <1>2, <2>2, <2>3, <3>2, <3>6 DEF PendingInv, StartInv
  <2>5. CASE SetDowning
    <3>1. quitting = "downing" /\ quitting' = (IF exits THEN "disable" ELSE "no") /\ quit' = TRUE
      BY <2>5 DEF SetDowning, Shutting
    <3>2. P /\ Early => exits
      BY <3>1 DEF PendingInv, StartInv, EarlyInv
    <3>3. DownInv'
      BY <1>1, <2>1, <3>1, <3>2 DEF DownInv, Early, P
    <3>4. CountInv'
      <4> SUFFICES ASSUME P, Counted
                   PROVE  /\ mnPendingRequests = running + Total(frames)
                          /\ \A f \in Range(frames) : f.work = <<>> /\ f.dispatches = <<>>
        BY <1>1, <2>1 DEF CountInv, Counted, P
      <4>1. mnPendingRequests = running + Total(frames) /\ mnPendingRequests = 0
        BY <3>1 DEF PendingInv, CountInv, DownInv
      <4>2. frames \in Seq(Frame) /\ running \in Nat /\ Total(frames) \in Nat
        BY TotalNone DEF TypeOK
      <4>3. Total(frames) = 0
        BY <4>1, <4>2
      <4> QED BY <4>1, <4>2, <4>3, TotalNone
    <3> QED BY <1>2, <2>2, <2>3, <3>3, <3>4 DEF PendingInv, StartInv
  <2> QED BY <2>4, <2>5
<1> QED
  BY <1>3, <1>4, <1>5, <1>6 DEF Shut

(* The count that decides whether the office may end is the number of      *)
(* requests that were taken and are not done, over all executions and the  *)
(* dispatches outstanding, if their ends can be heard of; and once the     *)
(* office is going down on its own there is none.                          *)
THEOREM PendingExact == Spec => []PendingIsExact
<1>1. Init => PendingInv
  <2>1. ASSUME Init PROVE Total(frames) = 0 /\ Range(frames) = {}
    <3>1. frames = <<>> /\ Len(<<>>) = 0 /\ DOMAIN <<>> = {}
      BY <2>1, EmptySeq DEF Init
    <3>2. PendingOf(frames) = {}
      BY <3>1 DEF PendingOf
    <3> QED BY <3>1, <3>2, FS_EmptySet DEF Total, Range
  <2>2. <<>> \in Seq({"doc"}) /\ <<>> \in Seq(Heard)
    BY EmptySeq
  <2>3. ASSUME Init PROVE StartInv
    BY <2>1, <2>2, <2>3 DEF Init, StartInv, OrderInv, ReadyInv, EarlyInv
  <2>4. ASSUME Init PROVE KindInv /\ DownInv
    BY <2>1, <2>2, <2>4 DEF Init, KindInv, DownInv
  <2>5. ASSUME Init PROVE CountInv
    <3>1. mnPendingRequests = 0 /\ running = 0 /\ mbDowning = FALSE
      BY <2>5 DEF Init
    <3>2. Total(frames) = 0
      BY <2>1, <2>5
    <3> QED BY <3>1, <3>2 DEF CountInv
  <2> QED BY <2>3, <2>4, <2>5 DEF PendingInv
<1>2. TypeOK /\ LoadInv /\ PendingInv /\ [Next]_vars => PendingInv'
  <2> SUFFICES ASSUME TypeOK, LoadInv, PendingInv, [Next]_vars PROVE PendingInv'
    OBVIOUS
  <2>1. CASE Open
    BY <2>1, EnablePending, OpenedPending DEF Open
  <2> QED
    BY <2>1, ClientPending, ListenerPending, EventPending, WorkPending, DispatchPending, ShutPending DEF Next
<1>3. TypeOK /\ PendingInv => PendingIsExact
  BY CountIsPending DEF PendingInv
<1> QED
  BY <1>1, <1>2, <1>3, TypeCorrect, PTL DEF Spec

=============================================================================
