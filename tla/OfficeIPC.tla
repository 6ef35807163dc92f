----------------------------- MODULE OfficeIPC ------------------------------
(***************************************************************************)
(* OfficeIPCThread (desktop/source/app/officeipcthread.cxx) and            *)
(* DispatchWatcher (dispatchwatcher.cxx): the first office listens on a    *)
(* pipe; an office started later sends it its arguments and waits until    *)
(* they have been processed.  The listening thread posts the requests to   *)
(* the main thread as user events; the main thread executes them, counts   *)
(* those that are not done, and lets the office end only if there is none. *)
(*                                                                         *)
(* A request list is a sequence of kinds of requests:                      *)
(*   "doc"      a document to open or print,                               *)
(*   "filter"   an input filter for the documents that follow,             *)
(*   "async"    a .uno: or macro: URL, dispatched with notification,       *)
(*   "plain"    one whose dispatcher cannot notify,                        *)
(*   "none"     one that has no dispatcher,                                *)
(*   "service"  a service: URL.                                            *)
(***************************************************************************)
EXTENDS Integers, Sequences, FiniteSets, Functions

CONSTANTS Clients,     \* the offices started later
          Nobody,
          Scenarios,   \* what is sent, and what else happens, see below
          MaxOpens,    \* bound: documents the OS asks to open
          MaxDepth     \* bound: nested executions on the main thread

Kinds == {"doc", "filter", "async", "plain", "none", "service"}

\* The request lists that are sent, whether the office may be quit or have no
\* window open, and whether the process gets SIGTERM.
ASSUME ScenarioAssumption == \A s \in Scenarios :
    s.lists \subseteq Seq(Kinds) /\ s.mayQuit \in BOOLEAN /\ s.mayKill \in BOOLEAN
ASSUME NobodyAssumption == Nobody \notin Clients
ASSUME BoundAssumption == MaxOpens \in Nat /\ MaxDepth \in Nat \ {0}

VARIABLES scenario,
          pGlobalOfficeIPCThread, mbDowning, mbRequestsEnabled, mnPendingRequests,
          cReady, cProcessed, maPipe,   \* two conditions, and whether the pipe is open
          mutex,          \* who holds GetMutex() from one step to the next
          aDispatchList, m_nRequestCount,
          ipc, serving,   \* where the listening thread is, and with whom
          client, list,   \* the clients' states and what they send
          events,         \* user events posted: the clients whose requests they carry
          frames,         \* executions of ExecuteCmdLineRequests, innermost first
          startup,        \* how far Desktop::OpenClients is
          quitting,       \* where the main thread is in shutting down
          exits, quit,    \* whether QueryExit shuts down; whether the main loop shall end
          running,        \* dispatches that have not called dispatchFinished
          opens, executed, crashed

thread == <<scenario, pGlobalOfficeIPCThread, mbDowning, mbRequestsEnabled, maPipe>>
conditions == <<cReady, cProcessed>>
counts == <<mnPendingRequests, m_nRequestCount, running>>
peer == <<ipc, serving, client, list, events>>
main == <<aDispatchList, frames, startup, quitting, exits, quit, opens, executed, crashed>>
vars == <<thread, conditions, counts, mutex, peer, main>>

\* An execution: the requests not yet looked at, whether a document is being
\* loaded, the dispatches put off, whom to tell, who called, and whether the
\* dispatch watcher has been called, or has tried to end the office.
Frame == [work : Seq(Kinds), loading : BOOLEAN, dispatches : Seq(Kinds), answer : Clients \cup {Nobody},
          caller : {"event", "enable", "open"}, stage : {"taken", "begun", "tried"}]

TypeOK ==
    /\ {pGlobalOfficeIPCThread, mbDowning, mbRequestsEnabled, cReady, cProcessed, maPipe} \subseteq BOOLEAN
    /\ mnPendingRequests \in Int /\ m_nRequestCount \in Int /\ running \in Nat
    /\ mutex \in {"free", "ipc", "main"}
    /\ ipc \in {"accept", "ready", "lock", "read", "wait", "reply", "ended"}
    /\ serving \in Clients \cup {Nobody}
    /\ (serving = Nobody) <=> (ipc \in {"accept", "ended"})
    /\ client \in [Clients -> {"out", "connected", "asked", "sent", "ok", "failed", "first", "dead"}]
    /\ list \in [Clients -> scenario.lists] /\ scenario \in Scenarios
    /\ events \in Seq(Clients)
    /\ aDispatchList \in Seq(Kinds) /\ frames \in Seq(Frame)
    /\ startup \in {"start", "enabled", "opened", "ready"}
    /\ quitting \in {"no", "query", "downing", "disable", "join", "down"}
    /\ {exits, quit, crashed} \subseteq BOOLEAN
    /\ opens \in 0..MaxOpens /\ executed \subseteq Clients

\* EnableOfficeIPCThread has created the pipe and launched the thread.
Init ==
    /\ scenario \in Scenarios
    /\ pGlobalOfficeIPCThread = TRUE /\ mbDowning = FALSE /\ mbRequestsEnabled = FALSE
    /\ mnPendingRequests = 0 /\ cReady = FALSE /\ cProcessed = FALSE /\ maPipe = TRUE
    /\ mutex = "free" /\ aDispatchList = <<>> /\ m_nRequestCount = 0
    /\ ipc = "accept" /\ serving = Nobody
    /\ client = [c \in Clients |-> "out"] /\ list \in [Clients -> scenario.lists]
    /\ events = <<>> /\ frames = <<>> /\ startup = "start"
    /\ quitting = "no" /\ exits = FALSE /\ quit = FALSE /\ running = 0
    /\ opens = 0 /\ executed = {} /\ crashed = FALSE

Free(who) == mutex \in {"free", who}

(***************************************************************************)
(* A client: EnableOfficeIPCThread in an office started later              *)
(***************************************************************************)

Become(c, from, to) ==
    /\ client[c] \in from /\ client' = [client EXCEPT ![c] = to]
    /\ UNCHANGED <<thread, conditions, counts, mutex, ipc, serving, list, events, main>>

Connect(c) == maPipe /\ Become(c, {"out"}, "connected")
Send(c) == Become(c, {"asked"}, "sent")
Die(c) == Become(c, {"connected", "asked", "sent"}, "dead")

\* The first office lets go of the connection, or has crashed.  Before it has
\* asked for the arguments the client tries again, and once the pipe is gone
\* creates it and becomes the first office; after that it fails.
Dropped(c) == crashed \/ (serving # c /\ (~maPipe \/ client[c] # "connected"))
TakeOver(c) == ~maPipe /\ (client[c] = "connected" => Dropped(c)) /\ Become(c, {"out", "connected"}, "first")
Fail(c) == Dropped(c) /\ Become(c, {"asked", "sent"}, "failed")

Client(c) == Connect(c) \/ Send(c) \/ Die(c) \/ TakeOver(c) \/ Fail(c)

(***************************************************************************)
(* The listening thread: OfficeIPCThread::execute                          *)
(***************************************************************************)

Go(from, to) == ipc = from /\ ipc' = to

\* maPipe.accept.
Accept(c) ==
    /\ Go("accept", "ready") /\ maPipe /\ client[c] = "connected"
    /\ serving' = c
    /\ UNCHANGED <<thread, conditions, counts, mutex, client, list, events, main>>

\* accept fails once the pipe is closed.
AcceptFails ==
    /\ ~maPipe /\ mbDowning /\ Free("ipc") /\ Go("accept", "ended")
    /\ UNCHANGED <<thread, conditions, counts, mutex, serving, client, list, events, main>>

Ready ==
    /\ cReady /\ Go("ready", IF pGlobalOfficeIPCThread THEN "lock" ELSE "ended")
    /\ serving' = IF pGlobalOfficeIPCThread THEN serving ELSE Nobody
    /\ UNCHANGED <<thread, conditions, counts, mutex, client, list, events, main>>

\* Lock the mutex, and ask the client for its arguments ...
Ask ==
    /\ ipc = "lock" /\ ~mbDowning /\ Free("ipc")
    /\ IF client[serving] = "dead"
         THEN /\ ipc' = "accept" /\ serving' = Nobody
              /\ UNCHANGED <<mutex, client>>
         ELSE /\ ipc' = "read" /\ mutex' = "ipc"
              /\ client' = [client EXCEPT ![serving] = "asked"]
              /\ UNCHANGED serving
    /\ UNCHANGED <<thread, conditions, counts, list, events, main>>

\* ... unless the office is going down.
LockDowning ==
    /\ mbDowning /\ Free("ipc") /\ Go("lock", "ended") /\ serving' = Nobody
    /\ UNCHANGED <<thread, conditions, counts, mutex, client, list, events, main>>

\* A slip: cProcessed keeps the last answer.
PostKeepsProcessed ==
    /\ ipc = "read" /\ client[serving] = "sent" /\ mutex' = "free"
    /\ IF list[serving] = <<>>
         THEN ipc' = "reply" /\ UNCHANGED <<events, cProcessed>>
         ELSE ipc' = "wait" /\ events' = Append(events, serving) /\ UNCHANGED cProcessed
    /\ UNCHANGED <<thread, cReady, counts, serving, client, list, main>>

\* The arguments arrive.  Those with documents become a user event; others
\* (not modelled further) only post application events.
Post ==
    /\ ipc = "read" /\ client[serving] = "sent" /\ mutex' = "free"
    /\ IF list[serving] = <<>>
         THEN ipc' = "reply" /\ UNCHANGED <<events, cProcessed>>
         ELSE ipc' = "wait" /\ events' = Append(events, serving) /\ cProcessed' = FALSE
    /\ UNCHANGED <<thread, cReady, counts, serving, client, list, main>>

\* The client went away before it sent anything.
ReadNothing ==
    /\ ipc = "read" /\ client[serving] = "dead" /\ ipc' = "accept" /\ mutex' = "free" /\ serving' = Nobody
    /\ UNCHANGED <<thread, conditions, counts, client, list, events, main>>

Wait ==
    /\ cProcessed /\ Go("wait", "reply")
    /\ UNCHANGED <<thread, conditions, counts, mutex, serving, client, list, events, main>>

\* A slip: the connection is not let go of.
ReplyKeepsServing ==
    /\ Go("reply", "accept") /\ UNCHANGED serving
    /\ client' = IF client[serving] = "sent" THEN [client EXCEPT ![serving] = "ok"] ELSE client
    /\ UNCHANGED <<thread, conditions, counts, mutex, list, events, main>>

\* Write PROCESSING_DONE, and listen again.
Reply ==
    /\ Go("reply", "accept") /\ serving' = Nobody
    /\ client' = IF client[serving] = "sent" THEN [client EXCEPT ![serving] = "ok"] ELSE client
    /\ UNCHANGED <<thread, conditions, counts, mutex, list, events, main>>

Listen == (\E c \in Clients : Accept(c)) \/ AcceptFails \/ Ready \/ Ask \/ LockDowning
Serve == Post \/ ReadNothing \/ Wait \/ Reply
Listener == ~crashed /\ (Listen \/ Serve)

(***************************************************************************)
(* The main thread: executing requests                                     *)
(***************************************************************************)

Runs == quitting = "no" /\ ~crashed

\* The main loop runs, or a dialog's or a loading document's.
Yields ==
    /\ Runs
    /\ IF frames = <<>> THEN ~quit /\ startup \in {"start", "ready"} ELSE Head(frames).loading

\* ExecuteCmdLineRequests: the requests wait in aDispatchList until requests
\* are enabled; then all that wait are counted and taken.
Execute(requests, answer, caller, enabled) ==
    LET all == aDispatchList \o requests
        frame == [work |-> all, loading |-> FALSE, dispatches |-> <<>>, answer |-> answer,
                  caller |-> caller, stage |-> "taken"]
    IN  /\ Free("main")
        /\ IF pGlobalOfficeIPCThread /\ enabled
             THEN /\ mnPendingRequests' = mnPendingRequests + Len(all)
                  /\ aDispatchList' = <<>> /\ frames' = <<frame>> \o frames
             ELSE aDispatchList' = all /\ UNCHANGED <<mnPendingRequests, frames>>

\* EnableRequests triggers what waits once requests are enabled.
Trigger == Execute(<<>>, Nobody, "enable", TRUE)

\* EnableRequests keeps the mutex while what waited is executed.
EnableRequests ==
    /\ Yields /\ startup = "start" /\ frames = <<>> /\ startup' = "enabled"
    /\ IF pGlobalOfficeIPCThread
         THEN /\ Trigger
              /\ mbRequestsEnabled' = TRUE /\ mutex' = "main"
         ELSE Free("main") /\ UNCHANGED <<mbRequestsEnabled, mutex, mnPendingRequests, aDispatchList, frames>>
    /\ UNCHANGED <<scenario, pGlobalOfficeIPCThread, mbDowning, maPipe, conditions, m_nRequestCount, running, peer,
                   quitting, exits, quit, opens, executed, crashed>>

\* The rest of OpenClients: this office's own arguments ...
OpenArguments ==
    /\ Runs /\ startup = "enabled" /\ frames = <<>> /\ startup' = "opened"
    /\ \E requests \in scenario.lists :
          IF requests = <<>> THEN UNCHANGED <<mnPendingRequests, aDispatchList, frames>>
                             ELSE Execute(requests, Nobody, "open", mbRequestsEnabled)
    /\ UNCHANGED <<thread, conditions, m_nRequestCount, running, mutex, peer, quitting, exits, quit, opens,
                   executed, crashed>>

\* ... and OpenClients_Impl lets the listening thread go on.
SetReady ==
    /\ Runs /\ startup = "opened" /\ frames = <<>> /\ startup' = "ready"
    /\ cReady' = (cReady \/ pGlobalOfficeIPCThread)
    /\ UNCHANGED <<thread, cProcessed, counts, mutex, peer, aDispatchList, frames, quitting, exits, quit,
                   opens, executed, crashed>>

\* The user event of a client's request.
HandleEvent ==
    /\ Yields /\ Len(frames) < MaxDepth /\ events # <<>> /\ events' = Tail(events)
    /\ Execute(list[Head(events)], Head(events), "event", mbRequestsEnabled)
    /\ UNCHANGED <<thread, conditions, m_nRequestCount, running, mutex, ipc, serving, client, list, startup,
                   quitting, exits, quit, opens, executed, crashed>>

\* HandleAppEvent: the OS asks to open a document.
OpenDocument ==
    /\ Yields /\ Len(frames) < MaxDepth /\ opens < MaxOpens /\ opens' = opens + 1
    /\ Execute(<<"doc">>, Nobody, "event", mbRequestsEnabled)
    /\ UNCHANGED <<thread, conditions, m_nRequestCount, running, mutex, peer, startup, quitting, exits, quit,
                   executed, crashed>>

Top == Head(frames)
Replace(f) == frames' = <<f>> \o Tail(frames)
Busy == Runs /\ frames # <<>>
OnlyCounts == UNCHANGED <<thread, conditions, mutex, peer, aDispatchList, startup, quitting, exits, quit,
                          opens, executed>>

\* pGlobalOfficeIPCThread->mpDispatchWatcher, after the mutex was unlocked.
CallWatcher ==
    /\ Busy /\ Top.stage = "taken"
    /\ Replace([Top EXCEPT !.stage = "begun"]) /\ crashed' = ~pGlobalOfficeIPCThread
    /\ OnlyCounts /\ UNCHANGED counts

\* A slip the runs must notice: what is done still counts.
CompleteUncounted == Free("main") /\ UNCHANGED mnPendingRequests

\* RequestsCompleted( 1 ).
Complete ==
    /\ Free("main")
    /\ mnPendingRequests' = IF pGlobalOfficeIPCThread /\ mnPendingRequests > 0 THEN mnPendingRequests - 1
                                                                           ELSE mnPendingRequests

\* The loop of executeDispatchRequests, by the kind of request.
Request ==
    /\ Busy /\ Top.stage = "begun" /\ ~Top.loading /\ Top.work # <<>>
    /\ LET kind == Head(Top.work)
           rest == [Top EXCEPT !.work = Tail(@)]
       IN  \/ /\ kind = "doc" /\ Replace([Top EXCEPT !.loading = TRUE])
              /\ UNCHANGED counts
           \/ /\ kind = "filter" /\ Replace(rest) /\ Complete
              /\ UNCHANGED <<m_nRequestCount, running>>
           \/ /\ kind \in {"async", "plain"} /\ Replace([rest EXCEPT !.dispatches = Append(@, kind)])
              /\ m_nRequestCount' = m_nRequestCount + 1
              /\ UNCHANGED <<mnPendingRequests, running>>
           \/ /\ kind = "none" /\ Replace(rest) /\ UNCHANGED counts
           \/ /\ kind = "service" /\ Replace(rest)
              /\ running' = running + 1
              /\ UNCHANGED <<mnPendingRequests, m_nRequestCount>>
    /\ OnlyCounts /\ UNCHANGED crashed

\* The document has been loaded, and printed and closed if that was asked.
Loaded ==
    /\ Busy /\ Top.loading
    /\ Replace([Top EXCEPT !.loading = FALSE, !.work = Tail(@)]) /\ Complete
    /\ OnlyCounts /\ UNCHANGED <<m_nRequestCount, running, crashed>>

\* The dispatches that were put off; one without notification is over.
Dispatch ==
    /\ Busy /\ Top.stage = "begun" /\ Top.work = <<>> /\ Top.dispatches # <<>>
    /\ Replace([Top EXCEPT !.dispatches = Tail(@)])
    /\ IF Head(Top.dispatches) = "async"
         THEN running' = running + 1 /\ UNCHANGED m_nRequestCount
         ELSE m_nRequestCount' = m_nRequestCount - 1 /\ UNCHANGED running
    /\ OnlyCounts /\ UNCHANGED <<mnPendingRequests, crashed>>

\* dispatchFinished; if nothing is left and no window open, it calls
\* Desktop::terminate.
DispatchFinished ==
    /\ Runs /\ running > 0 /\ (frames = <<>> => ~quit)
    /\ running' = running - 1 /\ m_nRequestCount' = m_nRequestCount - 1 /\ Complete
    /\ quitting' \in IF m_nRequestCount' = 0 /\ mnPendingRequests' = 0 /\ scenario.mayQuit /\ ~quit
                       THEN {"no", "query"} ELSE {"no"}
    /\ exits' = FALSE
    /\ UNCHANGED <<thread, conditions, mutex, peer, aDispatchList, frames, startup, quit, opens, executed,
                   crashed>>

Finishing == Busy /\ Top.stage # "taken" /\ ~Top.loading /\ Top.work = <<>> /\ Top.dispatches = <<>>
InEnableRequests == \E i \in DOMAIN frames : frames[i].caller = "enable"

\* No dispatch is outstanding and no window open: Desktop::terminate.
TryTerminate ==
    /\ Finishing /\ Top.stage = "begun" /\ Replace([Top EXCEPT !.stage = "tried"])
    /\ scenario.mayQuit /\ ~quit /\ m_nRequestCount = 0 /\ ~InEnableRequests
    /\ quitting' = "query" /\ exits' = FALSE
    /\ UNCHANGED <<thread, conditions, counts, mutex, peer, aDispatchList, startup, quit, opens, executed,
                   crashed>>

\* Whether the one who asked is told; a slip is to forget it.
TellsNobody(f) == FALSE
Tells(f) == f.answer # Nobody

\* The end of ExecuteCmdLineRequests, and of EnableRequests.
Finish ==
    /\ Finishing /\ frames' = Tail(frames)
    /\ executed' = executed \cup ({Top.answer} \ {Nobody})
    /\ cProcessed' = (cProcessed \/ Tells(Top))
    /\ mutex' = IF Top.caller = "enable" THEN "free" ELSE mutex
    /\ UNCHANGED <<thread, cReady, counts, peer, aDispatchList, startup, quitting, exits, quit, opens,
                   crashed>>

(***************************************************************************)
(* The main thread: shutting down                                          *)
(***************************************************************************)

Shutting(from, to) ==
    /\ quitting = from /\ quitting' = to
    /\ UNCHANGED <<counts, cProcessed, mutex, peer, aDispatchList, frames, startup, opens, executed, crashed>>

\* Desktop::QueryExit calls Desktop::terminate.
QueryExit ==
    /\ scenario.mayQuit /\ Yields /\ ~quit /\ Shutting("no", "query") /\ exits' = TRUE
    /\ UNCHANGED <<thread, cReady, quit>>

\* queryTermination: AreRequestsPending vetoes (as other listeners may) ...
QueryTermination ==
    /\ Free("main")
    /\ \/ Shutting("query", "no")
       \/ ~(pGlobalOfficeIPCThread /\ mnPendingRequests > 0) /\ Shutting("query", "downing")
    /\ UNCHANGED <<thread, cReady, exits, quit>>

\* ... or SetDowning.  QueryExit goes on with DisableOfficeIPCThread; the
\* others leave it to DeInit, when the main loop has ended.
SetDowning ==
    /\ Free("main") /\ Shutting("downing", IF exits THEN "disable" ELSE "no")
    /\ mbDowning' = (mbDowning \/ pGlobalOfficeIPCThread) /\ quit' = TRUE
    /\ UNCHANGED <<scenario, pGlobalOfficeIPCThread, mbRequestsEnabled, maPipe, cReady, exits>>

MainLoopEnds ==
    /\ quit /\ frames = <<>> /\ startup = "ready" /\ ~crashed /\ Shutting("no", "disable")
    /\ UNCHANGED <<thread, cReady, exits, quit>>

\* The effect of DisableOfficeIPCThread before it joins.
Close ==
    /\ pGlobalOfficeIPCThread' = FALSE /\ mbDowning' = TRUE /\ maPipe' = FALSE /\ cReady' = TRUE
    /\ UNCHANGED <<scenario, mbRequestsEnabled>>

DisableOfficeIPCThread ==
    /\ Free("main")
    /\ IF pGlobalOfficeIPCThread THEN Shutting("disable", "join") /\ Close
                                 ELSE Shutting("disable", "down") /\ UNCHANGED <<thread, cReady>>
    /\ UNCHANGED <<exits, quit>>

Join ==
    /\ ipc = "ended" /\ Shutting("join", "down")
    /\ UNCHANGED <<thread, cReady, exits, quit>>

\* SalMainPipeExchangeSignal_impl, on the thread that gets the signal.
Signal ==
    /\ scenario.mayKill /\ pGlobalOfficeIPCThread /\ mutex = "free" /\ quitting # "down" /\ Close
    /\ UNCHANGED <<cProcessed, counts, mutex, peer, main>>

\* Nothing more happens.
Done ==
    /\ crashed \/ quitting = "down" \/ (startup = "ready" /\ frames = <<>> /\ events = <<>> /\ running = 0)
    /\ crashed \/ ipc \in {"accept", "ended"}
    /\ \A c \in Clients : client[c] \in {"out", "ok", "failed", "first", "dead"}
    /\ UNCHANGED vars

Open == EnableRequests \/ OpenArguments \/ SetReady
Work == CallWatcher \/ Request \/ Loaded \/ Dispatch \/ TryTerminate \/ Finish
Shut == QueryTermination \/ SetDowning \/ MainLoopEnds \/ DisableOfficeIPCThread \/ Join
Next == (\E c \in Clients : Client(c)) \/ Listener \/ Open \/ HandleEvent \/ OpenDocument
        \/ Work \/ DispatchFinished \/ QueryExit \/ Shut \/ Signal \/ Done

Spec == Init /\ [][Next]_vars
\* The listening thread runs, the main thread comes back to its work however
\* often it is interrupted to quit, what is dispatched finishes, and a client
\* that was asked for its arguments sends them or goes away.
FairSpec ==
    /\ Spec /\ WF_vars(Listener) /\ SF_vars(Open \/ HandleEvent \/ Work \/ DispatchFinished) /\ WF_vars(Shut)
    /\ \A c \in Clients : WF_vars(client[c] = "asked" /\ (Send(c) \/ Die(c)))

(***************************************************************************)
(* Properties                                                              *)
(***************************************************************************)

Unfinished(f) == Len(f.work) + Len(f.dispatches)
\* What is unfinished in the executions: pairs of an execution, counted from the
\* outermost, and a number among its unfinished requests.
Pending == UNION {{i} \X (1..Unfinished(frames[Len(frames) + 1 - i])) : i \in 1..Len(frames)}

\* Only requests whose end the code hears of are sent.
Heard == {"doc", "filter", "async"}
Counted == \A l \in scenario.lists : Range(l) \subseteq Heard

\* "a bookkeeper for all pending requests": the count that decides whether the
\* office may end is the number of requests that were taken and are not done,
\* over all nested executions and outstanding dispatches.  And once the office
\* has decided to go down on its own there is none: the veto was asked in time.
PendingIsExact ==
    pGlobalOfficeIPCThread /\ Counted =>
        /\ mnPendingRequests = running + Cardinality(Pending)
        /\ mbDowning => \A i \in DOMAIN frames : frames[i].work = <<>> /\ frames[i].dispatches = <<>>

\* A second office is told that its request was processed only when it was:
\* the condition the threads share never answers for an earlier request.
RepliesAreTrue == \A c \in Clients : client[c] = "ok" /\ list[c] # <<>> => c \in executed

\* "exit gracefully and join": DisableOfficeIPCThread returns.
JoinEnds == quitting = "join" ~> quitting = "down"

\* Unless the office goes down, requests that arrive before requests are enabled
\* are executed later, and a second office that has sent its arguments gets its
\* answer, however often somebody tries to quit meanwhile.
GoesDown == mbDowning \/ crashed
RequestsAreServed ==
    /\ aDispatchList # <<>> ~> aDispatchList = <<>> \/ GoesDown
    /\ \A c \in Clients : client[c] = "sent" ~> client[c] \in {"ok", "dead"} \/ GoesDown
=============================================================================
