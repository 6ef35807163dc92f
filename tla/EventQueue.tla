----------------------------- MODULE EventQueue -----------------------------
(***************************************************************************)
(* JavaSalEventQueue, vcl/java/source/app/salinst.mm: the queues through   *)
(* which Cocoa's event handlers and other threads hand events to           *)
(* JavaSalInstance::Yield.  Native events (of a frame) and the others have *)
(* a queue each.  Posting coalesces: the new event replaces events that    *)
(* wait, which stay in the list, marked, until they are at its front.      *)
(* Quitting goes through the queue too: HandleTerminationRequest of        *)
(* VCLApplicationDelegate_cocoa.mm posts an event and waits for its fate.  *)
(*                                                                         *)
(* Items are numbered in the order they are posted.  maMutex makes every   *)
(* operation one action; only getNextCachedEvent lets go of it to wait.    *)
(***************************************************************************)
EXTENDS Integers, Sequences, FiniteSetsExt, Functions, Sums

CONSTANTS Scenarios,   \* what happens around the queues, see below
          Frames,      \* the frames removeCachedEvents is called for
          NoFrame,     \* the frame of an event that has none
          Width        \* the screen's size in cells

NativeIDs == {"CLOSE", "EXTTEXTINPUT", "KEYINPUT", "KEYUP", "MOUSEMOVE", "MOUSEBUTTONDOWN",
              "WHEELMOUSE", "MOVERESIZE", "PAINT"}
IDs == NativeIDs \cup {"WAKEUP", "SHUTDOWN"}
Queues == {"native", "nonNative"}

\* What a handler posts: the data that coalescing looks at, and none otherwise.
IsEvent(e) ==
    /\ e = [id |-> e.id, frame |-> e.frame, data |-> e.data]
    /\ e.id \in IDs /\ e.frame \in Frames \cup {NoFrame}
    /\ e.id = "EXTTEXTINPUT" => e.data \in [text : BOOLEAN]
    /\ e.id = "KEYINPUT" => e.data \in [key : {e.data.key}, char : BOOLEAN, repeat : Nat]
    /\ e.id = "WHEELMOUSE" => e.data \in [delta : Int, horz : BOOLEAN, page : BOOLEAN, zoom : BOOLEAN]
    /\ e.id = "PAINT" => e.data \in [area : SUBSET (0..Width)]

\* The events handlers post, and bounds: how many, how often removeCachedEvents
\* is called, whether a thread other than the main one yields and the user
\* quits, with what disables quitting.
ASSUME WidthAssumption == Width \in Nat
ASSUME ScenarioAssumption == \A s \in Scenarios :
    /\ \A e \in s.events : IsEvent(e)
    /\ s.maxPosts \in Nat /\ s.maxRemoves \in Nat /\ s.mayQuit \in BOOLEAN

VARIABLES scenario,
          queue,          \* maNativeEventQueue and maNonNativeEventQueue
          event,          \* what each item's event says, after coalescing
          removed,        \* the items with mbRemove
          mpKeyInputItem, mpMoveResizeItem, mpPaintItem,   \* 0 for NULL
          maCondition,
          waiter,         \* where the call of getNextCachedEvent with a timeout is
          mbShutdownDisabled,
          loading,        \* whether the native fonts are loaded: no, now, done
          asked,          \* the event for which QueryExit runs, or 0
          bInQueryExit,
          cancelled,      \* the events with mbShutdownCancelled
          terminating,    \* the SHUTDOWN events handlers wait for, innermost first
          mbInTermination,
          isShutDown,     \* Application::IsShutDown
          posted,         \* history: the events as they were posted
          fate,           \* history: what became of an item, and when
          dropped,        \* history: the SHUTDOWN events dropped while QueryExit ran
          removes

pointers == <<mpKeyInputItem, mpMoveResizeItem, mpPaintItem>>
items == <<queue, event, removed, pointers, posted, fate>>
handler == <<terminating, mbInTermination>>
query == <<asked, bInQueryExit, dropped, isShutDown>>
shutdown == <<mbShutdownDisabled, loading, cancelled, handler, query>>
vars == <<scenario, items, maCondition, waiter, shutdown, removes>>

Numbers == DOMAIN event

TypeOK ==
    /\ queue \in [Queues -> Seq(Numbers)]
    /\ event \in Seq([id : IDs, frame : Frames \cup {NoFrame}, data : {event[i].data : i \in Numbers}])
    /\ Len(posted) = Len(event) /\ Len(fate) = Len(event)
    /\ \A i \in Numbers : fate[i].how \in {"queued", "given", "cleared", "superseded"}
                          /\ fate[i].at \in 0..scenario.maxPosts
    /\ removed \subseteq Numbers /\ cancelled \subseteq Numbers
    /\ {mpKeyInputItem, mpMoveResizeItem, mpPaintItem} \subseteq Numbers \cup {0}
    /\ waiter \in {"out", "reset", "check", "wait", "set", "get"}
    /\ terminating \in Seq(Numbers) /\ dropped \subseteq Numbers
    /\ {maCondition, mbShutdownDisabled, mbInTermination, bInQueryExit, isShutDown} \subseteq BOOLEAN
    /\ loading \in {"no", "now", "done"} /\ asked \in Numbers \cup {0}
    /\ scenario \in Scenarios /\ removes \in 0..scenario.maxRemoves

Init ==
    /\ scenario \in Scenarios
    /\ queue = [k \in Queues |-> <<>>] /\ event = <<>> /\ removed = {}
    /\ mpKeyInputItem = 0 /\ mpMoveResizeItem = 0 /\ mpPaintItem = 0
    /\ maCondition = FALSE /\ waiter = "out"
    /\ mbShutdownDisabled = TRUE /\ loading = "no"
    /\ cancelled = {} /\ terminating = <<>> /\ mbInTermination = FALSE
    /\ asked = 0 /\ bInQueryExit = FALSE /\ isShutDown = FALSE
    /\ posted = <<>> /\ fate = <<>> /\ dropped = {} /\ removes = 0

(***************************************************************************)
(* Coalescing                                                              *)
(***************************************************************************)

QueueOf(id) == IF id \in NativeIDs THEN "native" ELSE "nonNative"
Waiting(k) == Range(queue[k])
Back(k) == IF queue[k] = <<>> THEN {} ELSE {queue[k][Len(queue[k])]}

\* A slip the runs must notice: items that are marked count too.
LikeOrRemoved(S, e) == {i \in S \ {0} : event[i].id = e.id /\ event[i].frame = e.frame}

\* The items of S that wait with an event like e.
Like(S, e) == {i \in S \ (removed \cup {0}) : event[i].id = e.id /\ event[i].frame = e.frame}

\* The items a new event e takes the place of.
Superseded(e) ==
    LET k == QueueOf(e.id) IN
    CASE e.id = "EXTTEXTINPUT" -> {i \in Like(Back(k), e) : ~event[i].data.text}
      [] e.id = "MOUSEMOVE"    -> Like(Back(k), e)
      [] e.id = "KEYINPUT"     -> {i \in Like({mpKeyInputItem}, e) :
                                      e.data.char /\ event[i].data.char /\ event[i].data.key = e.data.key}
      [] e.id = "WHEELMOUSE"   -> {i \in Like(Waiting(k), e) :
                                      ~event[i].data.page /\ event[i].data.horz = e.data.horz}
      [] e.id = "MOVERESIZE"   -> Like({mpMoveResizeItem}, e)
      [] e.id = "PAINT"        -> Like({mpPaintItem}, e)
      [] OTHER                 -> {}

\* A second request to close a frame, or to wake up, is dropped.
Repeated(e) == e.id \in {"CLOSE", "WAKEUP"} /\ Like(Waiting(QueueOf(e.id)), e) # {}

\* The rectangle around cells: GetUnion; an empty one adds nothing.
Around(cells) == IF cells = {} THEN {} ELSE Min(cells)..Max(cells)

\* What the wheel turned in those of the events s that have their numbers in S.
RotationOf(S, s) ==
    SumTo([i \in DOMAIN s |-> IF i \in S THEN s[i].data.delta ELSE 0], Len(s))

\* What e says once it stands for the events of the items S too:
\* addRepeatCount, addWheelRotationAndScrollLines and addUpdateRect.
Coalesced(e, S) ==
    IF S = {} THEN e ELSE
    CASE e.id = "KEYINPUT"   -> [e EXCEPT !.data = [e.data EXCEPT !.repeat = e.data.repeat + 1]]
      [] e.id = "WHEELMOUSE" -> [e EXCEPT !.data =
             [e.data EXCEPT !.page = FALSE,
                            !.delta = e.data.delta + IF e.data.zoom THEN 0 ELSE RotationOf(S, event)]]
      [] e.id = "PAINT"      -> [e EXCEPT !.data =
             [area |-> Around(e.data.area \cup UNION {event[i].data.area : i \in S})]]
      [] OTHER               -> e

\* Slips: one item is purged, not all; the last item stays.
PurgedOnce(s, gone) == IF s # <<>> /\ Head(s) \in gone THEN Tail(s) ELSE s
PurgedButLast(s, gone) ==
    LET kept == {j \in 1..Len(s) : s[j] \notin gone \/ j = Len(s)}
    IN  IF kept = {} THEN <<>> ELSE SubSeq(s, Min(kept), Len(s))

\* purgeRemovedEventsFromFront: the rest of s from the first item not in gone.
Purged(s, gone) ==
    LET kept == {j \in 1..Len(s) : s[j] \notin gone}
    IN  IF kept = {} THEN <<>> ELSE SubSeq(s, Min(kept), Len(s))

\* A slip: the pointer is to the next item.
KeptAtNext(p, before, after) == IF p \in Range(before) \ Range(after) THEN p + 1 ELSE p

\* A pointer after items were deleted: NULL if it was to one of them.
Kept(p, before, after) == IF p \in Range(before) \ Range(after) THEN 0 ELSE p

(***************************************************************************)
(* The operations                                                          *)
(***************************************************************************)

\* Remove the items S (for the reason why) from the queues ks, and delete the
\* removed items at the fronts.
Remove(S, why, ks) ==
    /\ removed' = removed \cup S
    /\ queue' = [k \in Queues |-> IF k \in ks THEN Purged(queue[k], removed') ELSE queue[k]]
    /\ fate' = [i \in Numbers |-> IF i \in S /\ fate[i].how = "queued"
                                    THEN [how |-> why, at |-> Len(event)] ELSE fate[i]]
    /\ mpKeyInputItem' = Kept(mpKeyInputItem, queue["native"], queue'["native"])
    /\ mpMoveResizeItem' = Kept(mpMoveResizeItem, queue["native"], queue'["native"])
    /\ mpPaintItem' = Kept(mpPaintItem, queue["native"], queue'["native"])
    /\ UNCHANGED <<scenario, event, posted>>

LastKeyEver(e, n) == IF e.id = "KEYINPUT" THEN n ELSE mpKeyInputItem

\* The press that a repeated one may replace: none once a key went up.
LastKey(e, n) == CASE e.id = "KEYINPUT" -> n
                   [] e.id = "KEYUP"    -> 0
                   [] OTHER             -> mpKeyInputItem

\* postCachedEvent.
PostCachedEvent(e) ==
    LET n == Len(event) + 1
        k == QueueOf(e.id)
        old == Superseded(e)
        gone == removed \cup old \cup (IF Repeated(e) THEN {n} ELSE {})
        s == Append(queue[k], n)
        Ended(i) == IF i \in gone /\ fate[i].how = "queued"
                      THEN [how |-> "superseded", at |-> n] ELSE fate[i]
        Pointer(p, ids) == IF e.id \in ids THEN n ELSE p
    IN  /\ n <= scenario.maxPosts /\ UNCHANGED scenario
        /\ event' = Append(event, Coalesced(e, old))
        /\ posted' = Append(posted, e)
        /\ removed' = gone
        /\ queue' = [queue EXCEPT ![k] = Purged(s, gone)]
        /\ fate' = Append([i \in Numbers |-> Ended(i)],
                          [how |-> IF Repeated(e) THEN "superseded" ELSE "queued", at |-> n])
        /\ mpKeyInputItem' = Kept(LastKey(e, n), s, queue'[k])
        /\ mpMoveResizeItem' = Kept(Pointer(mpMoveResizeItem, {"MOVERESIZE"}), s, queue'[k])
        /\ mpPaintItem' = Kept(Pointer(mpPaintItem, {"PAINT"}), s, queue'[k])
        /\ maCondition' = TRUE

\* Cocoa's event handlers and other threads.
Post == \E e \in scenario.events :
    /\ PostCachedEvent(e)
    /\ UNCHANGED <<waiter, shutdown, removes>>

\* The part of getNextCachedEvent that takes the front, whatever it is.
TakeFront(k) ==
    /\ queue[k] # <<>>
    /\ Remove({Head(queue[k])}, "given", {k})

\* The main event loop takes a native event; it never waits for one.
GetNative ==
    /\ ~isShutDown /\ TakeFront("native")
    /\ UNCHANGED <<maCondition, waiter, shutdown, removes>>

\* removeCachedEvents.
RemoveCachedEvents(f) ==
    /\ removes < scenario.maxRemoves /\ removes' = removes + 1
    /\ Remove({i \in Waiting("native") \cup Waiting("nonNative") : event[i].frame = f},
              "cleared", Queues)
    /\ UNCHANGED <<maCondition, waiter, shutdown>>

(***************************************************************************)
(* getNextCachedEvent with a timeout, on a thread other than the main one  *)
(***************************************************************************)

Queued == \E k \in Queues : queue[k] # <<>>
At(from, to) == waiter = from /\ waiter' = to /\ UNCHANGED <<scenario, items, shutdown, removes>>

\* No event in either queue: unlock maMutex.
Call ==
    /\ scenario.mayQuit /\ ~isShutDown
    /\ At("out", IF Queued THEN "get" ELSE "reset")
    /\ UNCHANGED maCondition

Reset == At("reset", "check") /\ maCondition' = FALSE
Check == At("check", IF maCondition THEN "set" ELSE "wait") /\ UNCHANGED maCondition
\* The condition is set, or the time has passed.
Wake == At("wait", "set") /\ UNCHANGED maCondition
Set == At("set", "get") /\ maCondition' = TRUE

\* The recursive call with timeout zero.
Get ==
    /\ waiter = "get" /\ waiter' = "out"
    /\ IF queue["native"] = <<>> THEN UNCHANGED <<scenario, items>> ELSE TakeFront("native")
    /\ UNCHANGED <<maCondition, shutdown, removes>>

(***************************************************************************)
(* Quitting                                                                *)
(***************************************************************************)

IsSHUTDOWN(i) == event[i].id = "SHUTDOWN"

\* A slip: no event is cancelled.
SetOnlyDisabled(b, alsoCancelled) ==
    /\ mbInTermination' = FALSE /\ mbShutdownDisabled' = b /\ UNCHANGED cancelled

\* setShutdownDisabled, after VCLEventQueue_cancelTermination.
SetShutdownDisabled(b, alsoCancelled) ==
    /\ mbInTermination' = FALSE
    /\ mbShutdownDisabled' = b
    /\ cancelled' = cancelled \cup alsoCancelled \cup
           (IF b THEN {i \in Waiting("native") \cup Waiting("nonNative") : IsSHUTDOWN(i)} ELSE {})

\* GetDevFontList disables quitting while it loads the native fonts, once.
\* It holds the application's lock, so nothing is dispatched meanwhile.
BeginLoading ==
    /\ scenario.mayQuit /\ loading = "no" /\ ~isShutDown /\ loading' = "now"
    /\ SetShutdownDisabled(TRUE, {})
    /\ UNCHANGED <<scenario, items, maCondition, waiter, terminating, query, removes>>

EndLoading ==
    /\ loading = "now" /\ loading' = "done"
    /\ SetShutdownDisabled(FALSE, {})
    /\ UNCHANGED <<scenario, items, maCondition, waiter, terminating, query, removes>>

\* The end of a print job (JavaSalPrinter::StartJob) enables quitting too.
EndPrinting ==
    /\ scenario.mayQuit /\ loading # "now" /\ ~isShutDown
    /\ mbShutdownDisabled \/ mbInTermination
    /\ SetShutdownDisabled(FALSE, {})
    /\ UNCHANGED <<scenario, items, maCondition, waiter, loading, terminating, query, removes>>

\* Yield takes a non-native event and dispatches it.
GetNonNative ==
    /\ ~isShutDown /\ loading # "now" /\ TakeFront("nonNative")
    /\ ~IsSHUTDOWN(Head(queue["nonNative"]))
    /\ UNCHANGED <<maCondition, waiter, shutdown, removes>>

\* A SHUTDOWN event that was cancelled, or with a dialog or popup open.
RefuseSHUTDOWN ==
    /\ ~isShutDown /\ loading # "now" /\ TakeFront("nonNative")
    /\ IsSHUTDOWN(Head(queue["nonNative"]))
    /\ SetShutdownDisabled(FALSE, {Head(queue["nonNative"])})
    /\ UNCHANGED <<maCondition, waiter, loading, terminating, query, removes>>

\* The frame's callback: it asks QueryExit; while that runs, and lets events be
\* dispatched, nothing else happens to a SHUTDOWN event.
DispatchSHUTDOWN ==
    /\ ~isShutDown /\ loading # "now" /\ TakeFront("nonNative")
    /\ LET i == Head(queue["nonNative"]) IN
       /\ IsSHUTDOWN(i) /\ i \notin cancelled
       /\ bInQueryExit' = TRUE
       /\ asked' = IF bInQueryExit THEN asked ELSE i
       /\ dropped' = IF bInQueryExit THEN dropped \cup {i} ELSE dropped
    /\ UNCHANGED <<maCondition, waiter, mbShutdownDisabled, loading, cancelled, handler, isShutDown,
                   removes>>

\* QueryExit was refused ...
Veto ==
    /\ asked # 0 /\ loading # "now"
    /\ asked' = 0 /\ bInQueryExit' = FALSE
    /\ SetShutdownDisabled(FALSE, {asked})
    /\ UNCHANGED <<scenario, items, maCondition, waiter, loading, terminating, dropped, isShutDown, removes>>

\* ... or not: Application::Quit posts a user event, after whose dispatch the main
\* loop ends; here it ends at once.
ShutDown ==
    /\ asked # 0 /\ loading # "now"
    /\ asked' = 0 /\ isShutDown' = TRUE
    /\ UNCHANGED <<scenario, items, maCondition, waiter, mbShutdownDisabled, loading, cancelled, handler,
                   bInQueryExit, dropped, removes>>

\* applicationShouldTerminate and HandleTerminationRequest, which posts ...
BeginTermination ==
    /\ scenario.mayQuit /\ ~mbInTermination /\ ~isShutDown
    /\ PostCachedEvent([id |-> "SHUTDOWN", frame |-> NoFrame, data |-> [none |-> 0]])
    /\ mbInTermination' = TRUE
    /\ terminating' = <<Len(event')>> \o terminating
    /\ UNCHANGED <<waiter, mbShutdownDisabled, loading, cancelled, query, removes>>

\* ... and runs the main run loop, where the application may be asked to quit
\* again, until the event is cancelled, quitting is disabled or the
\* application has shut down.
EndTermination ==
    /\ terminating # <<>>
    /\ Head(terminating) \in cancelled \/ mbShutdownDisabled \/ isShutDown
    /\ terminating' = Tail(terminating)
    /\ mbInTermination' = FALSE
    /\ UNCHANGED <<scenario, items, maCondition, waiter, mbShutdownDisabled, loading, cancelled, query, removes>>

\* The application has shut down, or the bounded users have stopped.
Done ==
    /\ waiter = "out" /\ terminating = <<>> /\ asked = 0
    /\ isShutDown \/ ~Queued
    /\ UNCHANGED vars

Yield == GetNative \/ GetNonNative \/ Call \/ Reset \/ Check \/ Wake \/ Set \/ Get
Dispatch == RefuseSHUTDOWN \/ DispatchSHUTDOWN
Answer == Veto \/ ShutDown
Termination == BeginTermination \/ EndTermination
Loading == BeginLoading \/ EndLoading \/ EndPrinting
Next == Post \/ (\E f \in Frames : RemoveCachedEvents(f)) \/ Yield \/ Dispatch \/ Answer
             \/ Termination \/ Loading \/ Done

Spec == Init /\ [][Next]_vars
\* Yield is called again and again, QueryExit and the font loading end, and
\* the handler tests its loop's condition again and again: the main thread
\* goes on with one or the other.
FairSpec == Spec /\ WF_vars(GetNative \/ GetNonNative \/ Dispatch \/ Answer \/ EndLoading \/ EndTermination)

(***************************************************************************)
(* Properties                                                              *)
(***************************************************************************)

\* getNextCachedEvent hands out the front item without looking at its
\* isRemove(): it relies on every operation purging the front.  Coalescing goes
\* through the pointers without looking for the item: it relies on purging, the
\* only place that deletes items, to clear them.
ItemsAreLive ==
    /\ \A k \in Queues : queue[k] # <<>> => Head(queue[k]) \notin removed
    /\ {mpKeyInputItem, mpMoveResizeItem, mpPaintItem} \subseteq Waiting("native") \cup {0}

Stands(i) == fate[i].how # "superseded"
Same(i, j, id) == posted[i].id = id /\ posted[j].id = id /\ posted[i].frame = posted[j].frame

\* Coalescing keeps the order a user can see.  A key that goes down before a key
\* goes up is not delivered after it: its press is not replaced by a press posted
\* after the KEYUP.  A button goes down where the mouse was moved to before: a
\* MOUSEMOVE is not replaced by one posted after the MOUSEBUTTONDOWN.
InputKeepsOrder ==
    \A later \in Numbers : \A i \in 1..(later - 1) :
        /\ posted[later].id = "KEYUP" /\ posted[i].id = "KEYINPUT" =>
               \E j \in i..(later - 1) : /\ Same(i, j, "KEYINPUT") /\ Stands(j)
                                         /\ posted[j].data.key = posted[i].data.key
        /\ posted[later].id = "MOUSEBUTTONDOWN" /\ posted[i].id = "MOUSEMOVE" =>
               \E j \in i..(later - 1) : Same(i, j, "MOUSEMOVE") /\ Stands(j)

\* However paint events replace one another, what one of them asked to paint
\* is in a paint event of that frame posted then or later and not replaced.
PaintIsCovered ==
    \A i \in Numbers : posted[i].id = "PAINT" =>
        \E j \in i..Len(event) : /\ Same(i, j, "PAINT") /\ Stands(j)
                                 /\ posted[i].data.area \subseteq event[j].data.area

\* A CLOSE or WAKEUP is dropped only if one like it is still to be taken.
WakeupsAreNotLost ==
    \A i \in Numbers : posted[i].id \in {"CLOSE", "WAKEUP"} /\ ~Stands(i) =>
        \E j \in 1..(i - 1) : /\ Same(i, j, posted[i].id) /\ Stands(j)
                              /\ fate[j].how = "queued" \/ fate[j].at >= i

WheelsFrom(z, f, h) == {i \in z..Len(event) : posted[i].id = "WHEELMOUSE" /\ posted[i].frame = f
                                              /\ posted[i].data.horz = h}
\* From a magnifying event on, no rotation is lost or counted twice by
\* coalescing: for each frame and direction, the events that were not
\* replaced have the rotation that was posted.
RotationIsConserved ==
    \A z \in Numbers : posted[z].id = "WHEELMOUSE" =>
        LET f == posted[z].frame
            h == posted[z].data.horz
            W == WheelsFrom(z, f, h)
        IN  /\ \A i \in W : posted[i].data.zoom => i = z
            /\ posted[z].data.zoom \/ WheelsFrom(1, f, h) = W
            => RotationOf(W, posted) = RotationOf({i \in W : Stands(i)}, event)

\* Coalescing loses nothing of what was posted: no area to paint, no request to
\* close or to wake up, no rotation.
NothingIsLost == PaintIsCovered /\ WakeupsAreNotLost /\ RotationIsConserved

\* The events that were posted leave their queues, unless the application
\* shuts down: purging never leaves one behind.
EventsLeave == Queued ~> ~Queued \/ isShutDown

\* HandleTerminationRequest, which keeps the main thread, returns, unless its
\* event was dropped: then nobody cancels it.
TerminationEnds ==
    terminating # <<>> ~> terminating = <<>> \/ Head(terminating) \in dropped
=============================================================================
