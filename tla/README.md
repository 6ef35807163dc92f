# NeoOffice: models and proofs of its concurrent core

NeoOffice is LibreOffice 4.4 with its own macOS layer (`vcl/java`), and keeps in
this repository only the LibreOffice files it changes. Most of the two million
lines are document models, layout, painting and file filters: large sequential
code. What is hard to test is underneath: the one lock of the application and
the macOS main thread that must never just block for it, the queue through
which Cocoa's events reach the office, the timer thread, the UNO thread pool's
queues, the pipe through which a second office hands its work to the first, the
lock file that keeps two offices from editing one document, the backups that
bring documents back after a crash, and the one page of buffer between every
read and write and the file. The modules here model that core.

## 1. The system

### 1.1 Components that are modelled

| component | code | state | operations |
|---|---|---|---|
| application lock | `vcl/java/source/app/salinst.mm` (`SalYieldMutex`, `VCLInstance_setDragPrintLock`), `vcl/source/app/svmain.cxx` | `maMutex`, `mnThreadId`, `mnCount`, the thread with priority, three conditions, drag locks | acquire, release, tryToAcquire, `ReleaseYieldMutex`/`AcquireYieldMutex`, set and release the drag lock, the signal handler |
| event queue, quitting | `salinst.mm` (`JavaSalEventQueue`, `JavaSalEvent`, parts of `Yield`), `VCLApplicationDelegate_cocoa.mm`, `vcl/source/window/winproc.cxx` | two lists of items, their remove marks, three pointers into them, a condition, whether quitting is disabled | post (which coalesces), take, remove those of a frame, wait, set disabled, dispatch of SHUTDOWN, the termination handler |
| timer manager | `salhelper/source/timer.cxx` | a linked list of timers, the expiry times, `m_notEmpty`, reference counts | start, stop, set times, drop; the thread's delay, wait, check, handler, re-registration |
| job queue | `cppu/source/threadpool/jobqueue.cxx` | jobs, the call stack of dispose ids, count, suspended, condition | add, enter (nested), dispose, suspend, resume, isBusy |
| office IPC | `desktop/source/app/officeipcthread.cxx`, `dispatchwatcher.cxx`, `app.cxx` | the pipe, two conditions, pending and dispatch counts, lists of requests | connect, accept, read, post, execute (nested), complete, enable, veto, go down, join, SIGTERM |
| document lock | `sfx2/source/doc/docfile.cxx` (`SfxMedium`), `svl/source/misc/documentlockfile.cxx`, callers in `objstor.cxx`, `objmisc.cxx`, `viewfrm.cxx`, `autorecovery.cxx` | the lock file, the system's lock, per office the document and `m_bLocked` | load, save, save as, edit, set read only, close; create, read, overwrite and remove the lock file, the dialogs, crash, emergency save |
| auto recovery | `framework/source/services/autorecovery.cxx` | `m_lDocCache`, the state flags of each entry, the timer, the configuration's items, temporary files | the events of documents, the timer, an auto-save pass document by document, the emergency save, the recovery at the next start |
| buffered file | `sal/osl/unx/file.cxx` (`FileHandle_Impl`, `osl_readFile` ... `osl_closeFile`) | one page of buffer, its place and fill, whether it is modified, size and position | read, write, read a line, seek, resize, sync, close, open |

How they interact:

* Every one of them runs with or around the **application lock**. The main
  thread waits for it by polling: it runs its run loop in between, because the
  thread that owns the lock may be blocked in `performSelectorOnMainThread`.
  The timer thread takes it for each handler; `JobQueue::enter` gives it up in
  full depth while it waits and takes it again in that depth.
* **Cocoa's handlers** post to the event queue, and the event dispatch thread
  takes from it in `Yield`. Posting wakes a `Yield` that waits.
* **Quitting** comes from Cocoa as an event in that queue; the handler keeps the
  main thread in a loop until the event is cancelled. The dispatch asks
  `Desktop::QueryExit`, which asks the IPC thread's terminate listener.
* The **listening thread** posts requests as user events; the main thread
  executes them, loading a document runs the event loop again, so executions
  nest. A condition tells the listening thread when one is done.

* **Auto recovery** runs on the main thread from a timer; storing a document
  dispatches events, so the user's calls come in the middle of a pass. What it
  knows survives a crash only in the configuration and the temporary files.
* **The buffered file** is below all of them; a call holds its mutex throughout.
* **Offices on several machines** meet only in the lock file beside the document
  and in the system's lock on it. Nothing is atomic over two accesses to the
  file: each office creates it only if there is none, reads who is named in it,
  asks its user, overwrites it, or compares and removes it. Saving gives the
  lock up and takes it again; a crash leaves the file behind.

What makes it hard: locks that are released in the middle of a call, timed waits
used as a way out of deadlocks, records read without a lock, callbacks that run
an event loop inside a call, counters kept up by calls that nest, threads that
are joined, signalled and asked to stop at any moment, copies of a record that
are worked on while the record changes, and I/O that fails half-way.

What makes each correct is stated in section 4, property by property.

### 1.2 Components that are not modelled (yet)

`PROJECT.json` lists them with the reason. In short: the run
loop as a whole, the update check, the close dispatcher, package storages,
compound file streams, `sal`'s pipes and threads, and item pools have state worth
modelling and are planned (section 3); document models, layout, painting, filters and the
native user interface are sequential code over large data; the rest is data and
build files.

## 2. Modules

* `SolarMutex` — the application lock. One action per step of `acquire` and
  `release` between which another thread may run; `Call...` actions are the
  calls of clients. `SolarMutexProofs` has its theorems.
* `TimerManager`, `MCTimerManager` — the timers, the manager thread and one client
  thread. One lock scope is one action. The list is `m_pHead` and `m_pNext`, so a
  cycle can arise as in the code; `Walk` follows it. Times are the code's
  `TTimeValue`s, with its comparison, normalization and sums. `wanted` (the timers
  started and not stopped since) and `carried` (a time was stored that is not
  normalized) are history. `TimerManagerProofs` has its theorems.
* `JobQueue` — one queue, the thread that enters it and the threads that use it.
  `frames` is the thread's own stack of `enter` calls next to the queue's
  `m_lstCallstack`. `JobQueueProofs` has its theorems.
* `EventQueue`, `MCEventQueue` — the two event lists and quitting. Items are
  numbered in the order they are posted; `event[i]` is what item `i` says after
  coalescing, `posted[i]` what it said at first and `fate[i]` what became of it.
  The last two are history the code does not keep, for the properties.
  `MCEventQueue` gives the events that are posted. `EventQueueProofs` has its
  theorems.
* `OfficeIPC`, `MCOfficeIPC` — the first office's two threads, later offices as
  clients, and the request lists. `frames` is the main thread's stack of
  `ExecuteCmdLineRequests` calls. `executed` is history. `OfficeIPCProofs` has its
  theorems.
* `DocumentLock`, `MCDocumentLock` — offices of several users and one document.
  `file` is the lock file: none, blank, or the office its entry names; `pc` is
  where in `LockOrigFileOnDemand` or `UnlockFile` an office is, `op` for which
  operation, which decides what it does with the lock or without. Each access to
  the lock file is an action. `mishaps` is history: what happened that the lock
  does not promise to protect from; so is `bare`: the offices that removed the
  lock file of a lock they kept. `DocumentLockProofs` has its theorems.
* `AutoRecovery`, `MCAutoRecovery` — the service, the documents it knows and the
  user, over crashes and restarts. `job` is what runs: nothing, an auto-save
  pass, the emergency save, the recovery; `at` and `phase` are the place in the
  loop over the cache, `copy` is the copy of an entry that `implts_saveOneDoc`
  works on. `config` and `files` are what a crash leaves; contents are version
  numbers. `due` and `skipped` are history: what was to be brought back of each
  document when the office ended last (`Owed`, what recovery tries of its item),
  and what an interrupted pass had handled or the application refused to save.
  `AutoRecoveryProofs` has its theorems.
* `BufferedFile`, `MCBufferedFile` — one open file and its buffer, one action per
  turn of a call's loop; `call` holds the locals of the call in progress.
* `PlainFile` — what an open file promises: one array of bytes, a position, and
  calls that read, write, move and cut it, with no buffer. A call is asked for and
  answered: `pending` is what was asked, and the answer of a call that succeeds is
  determined by it. `BufferedFile` is
  shown to implement it: `Contents`, `Size` and `Pending` are the refinement
  mapping. It is an abstract specification and has no lines of code of its own.
* `BufferedFileProofs` — the theorems about the buffered file: its invariant, and
  that it implements `PlainFile`.
* `Sums` — sums as a recursive function, for the rotation of wheels in
  `EventQueue`. It has no lines of code of its own.

Definitions keep the code's names; `PROJECT.json` maps each to its lines.
Definitions whose comment says "a slip" are variants with a plausible mistake.
They are not part of any specification: they are there to show that a property
notices the mistake, and the list `mutants` says which one notices which.

### Abstractions

* **Timed waits** of 10 microseconds in the lock may end at any moment, so they
  constrain nothing; their conditions are kept as state because they are read.
* **Mutex-guarded operations** are one action. Where the code lets go of the
  mutex in the middle (`getNextCachedEvent`, `Timer::start`, `checkForTimeout`,
  `enter`, `queryTermination`, `ExecuteCmdLineRequests`) the operation is cut
  there.
* **Data**: an event is its kind, its frame and what coalescing looks at (a key
  and a count, a rotation, a rectangle as an interval); a request is its kind; a
  time is its seconds and nanoseconds, of which a second has few; documents have no
  content, except in `AutoRecovery`, where it is a version number; a file's bytes are kept, because a page is a
  position among them.
* **Not in this repository** and modelled from their use: `osl::Mutex`, the run
  loop, `ThreadPool`, `DisposedCallerAdmin`, the bridge that replies. A bridge
  adds a reply only for a call that waits, once. Of the document lock: the
  insertion of a file that must not exist and the stream that truncates it
  (`ucb`), the system's lock on an open file, and a process's end, which gives
  that lock back.
* **Documents**: one office has a document open once (the loader looks for it
  first), and all offices have the same settings. Locking is used, the document
  is writable and its protocol suits lock files; without these the code returns
  before it looks at any lock.

## 3. Plan

Done in this order: application lock; timers; job queue; event queue and
quitting; office IPC; document lock; the proofs of the application lock, of the
job queue and of the document lock; the buffered file, the plain file it
implements, and the proof of that refinement; auto recovery; the proofs of the
event queue, of office IPC, of the timers and of auto recovery.

Next, in order:

1. `YieldLoop`: `JavaSalInstance::Yield` and `SalTimer` composed with an abstract
   lock, and `SolarMutex` shown to implement that abstract lock (owner, depth).
2. `AutoRecovery` with `CloseDispatcher`, and session save and restore.
3. `UpdateCheck`, the nested transactions of `xstorage`, and the FAT chains of
   `stgstrms` as pure functions.

The list of runs is kept short: each run has a question of its own, and a new
property should replace one that says less. Where one module serves different
situations (what is posted, what is sent) they are `Scenarios`, chosen in `Init`,
rather than runs of their own.

## 4. Runs

Bounds are named constants. "Slips" in `PROJECT.json` show for each property
that these bounds reach the case in which it could fail.

### Application lock

`solar_mutex` (main thread and two others, four operations between them, two
nested acquires, a shutdown at any moment, and a signal to a thread that is
outside the calls of the lock):

* `OwnedIffHeld` — a client between acquire and release owns the mutex, except
  the main thread once the application shuts down, whose acquire gives up; and
  between `ReleaseYieldMutex` and `AcquireYieldMutex` a thread owns no level of
  the lock.
* `CountsAgree` — the record read without a lock agrees with the mutex and the
  clients' calls, but for the step between the two changes.
* `PriorityIsWanted` — the lock is only kept for a thread that gave it up and
  has not taken it again.
* `DragKeepsLock` — during a native drag or print the main thread owns the lock,
  at least as deep as its drag locks.
* `HandlerNeverBlocks` — a thread in the signal handler does not wait for the
  lock.
* `CallsReturn` — every call of the lock returns, and the main thread performs
  the selectors other threads wait for, even those of the thread that has the
  lock, as long as no thread is in the signal handler.

Two other threads are enough for one that has the lock, one that has priority
and the main thread that polls; four operations for a nested acquire, a full
release, the reacquire and a rival.

`Desktop::Exception`, which the signal handler calls, saves the documents and
ends the process, so the handler is not left. Meanwhile every acquire of a free
lock takes it twice (`salinst.mm:1134` falls through after `tryToAcquire`), which
is why the other properties end with the signal.

### Timers

`timer_manager` (two timers, three calls, a second of three nanoseconds, a period
of two, and a clock that goes from the last nanosecond of one second to the second
of the next; deadlock not checked because a client with no calls left and a clock
at its bound stop):

* `SortedQueue` — the linked list ends, and is in the order of the expiry times
  as the code compares them.
* `NeverOversleeps` — a registration while the manager computes its delay, or
  waits, ends the wait if it has to, and the order of the list agrees with the
  delay that is computed for its front. Excepted: a time that is not normalized
  (below).
* `NoUseAfterFree` — the manager acquires and fires no timer that is being
  destroyed, and the list has none that is gone. Excepted: the lost race below.
* `DueTimersLeave` — a timer that is due leaves the list.
* `ClientCallsReturn` — a client that holds the application lock is never stuck
  behind the manager, which wants that lock for a handler.

They hold for a client (`Careful`) that does not set the time of a timer in the
queue, does not start a repeating timer while its handler runs, and stops a timer
that it has started before it drops it, unless the timer does not repeat and has
left the queue. Nothing in `timer.cxx` enforces that; with `Careful = FALSE` TLC
finds the queue out of order (`setRemainingTime` changes the key of a timer where
it is), the list a cycle, and a timer used after its end. Two timers make every
position in the list and the cycle; the interesting calls fall between two steps
of the manager, and three reach start, stop and drop around an expiry, or the
start of both timers and one call more.

What the two exceptions hide was seen with TLC by leaving each out:

* The time of a timer that is put back is the sum of the fields of the present
  time and the period (`timer.cxx:437`), which may have more nanoseconds than a
  second has. `expiresBefore` compares the fields, so such a timer comes before one
  of the next second that is due earlier, while `getRemainingTime` computes the
  delay with a borrow, and `isExpired`, which also compares the fields, finds the
  timer expired as soon as the next second begins, before that delay is over. So the
  manager may wake up late for the other timer; `NeverOversleeps` says that this is
  all, and that it wakes up in the second in which the other is due. With three
  nanoseconds to a second, a start in the last of them and a period of two, the
  first repetition is such a time.
* A careful client stops a repeating timer while its handler runs, the manager puts
  it back after the handler whatever was done to it (431-444), and the client drops
  it. `~Timer` takes it out of the queue, but has to wait for `m_Lock`; when the
  manager finds it expired before that, it acquires and fires a timer that is being
  destroyed. `NoUseAfterFree` excepts a repeating timer that was stopped before
  it was dropped (`dropped \ wanted`) and no other. The program has no defined
  behaviour from there, and the model stops the manager (`Gone`).

### Job queue

`job_queue` (two bridges, two requests, four calls of `enter`, nesting three,
lock depth two):

* `JobsWake` — no job that may be run lies there with the thread asleep.
* `SolarRestored` — every call finds the lock as deep as it left it.
* `CallsAreRight`, `WaitsEnd` — a disposed call does not wait, a woken thread
  finds a job, the count behind `isBusy` is that of the jobs waiting and running,
  and every wait ends. These are promised when the thread's own calls go through
  one bridge (`OneCaller`; both bridges still add, suspend and dispose).

When the thread calls through two bridges both fail, in every part. `job_queue_assert`
shows the one that the code asserts (section 6). The others: a disposed outer
call whose entry is cleared while an inner call of the other bridge is at the
front waits later, although its caller is gone; and after a wake-up without a
job the count is one too low.

### Event queue and quitting

`event_queue` has seven scenarios, because only events of the same kind coalesce:
four posts and one removal of keys, of text and mouse, of paint and move and
wake-up, of paint and close, and twice of wheels; and three posts with quitting,
against a thread that waits, font loading, the end of print jobs, vetoes and
nested termination requests.

* `ItemsAreLive` — the front item, which is handed out without
  a look at its mark, is not removed; the three pointers are to items that exist.
* `InputKeepsOrder` — coalescing does not carry a key press past a key release,
  or a mouse move past a button press.
* `NothingIsLost` — what was asked to be painted is in some paint event; a close
  or wake-up is dropped only for one yet to come; no rotation is lost or doubled
  (counted from a magnifying event on, since such an event drops what rolled
  before it on purpose).
* `EventsLeave` — posted events leave their queue unless the office shuts down.
* `TerminationEnds` — the termination handler, which keeps the main thread in a
  loop, returns.

Coalescing looks at one or at all waiting events of the same kind; four posts
give two to merge, one between them and one after.

Quitting is at once in the model where the code posts a user event whose dispatch
sets `mbAppQuit` (`svapp.cxx:395-404`): the handler waits until then, which is
bounded by the next turn of the loop, as fair as the dispatch itself.

The handler whose event is dispatched, and dropped, while `QueryExit`
runs for another is excepted: it waits until quitting is disabled or the office
ends. The handler also returns, against the comment at
`VCLApplicationDelegate_cocoa.mm:503`, without its event being cancelled, as soon
as quitting is disabled, which it is from the start; its event may then still be
dispatched. And an event posted between the unlock and the reset of the condition
(`salinst.mm:3056`) is slept over until the next one or the timeout: no property
promises otherwise, so this is a hazard without one.

### Office IPC

`office_ipc` (two later offices, one document opened by the OS, executions
nested twice; in one scenario lists of requests whose end the code hears of, with
quitting and SIGTERM at any moment, in the other the remaining kinds and an
office that is not shut down):

* `PendingIsExact` — the count that vetoes quitting is the number of requests
  taken and not done, and the office decides to go down only with all done.
* `RepliesAreTrue` — nobody is told that a request was processed which was not,
  although one condition answers for all.
* `RequestsAreServed` — requests that come before requests are enabled are
  executed later, and a client that has sent its arguments gets its answer.

Two clients are needed because one condition answers all; nesting two because a
document's load runs the event loop in which the next request is executed.
Deadlock is not checked: the office may be killed, quit or stay behind a client
that connects and says nothing, and threads then really stop.

`PendingIsExact` is about lists of requests whose end the code hears of. Others
are never completed (`dispatchwatcher.cxx:740` and the requests without a
dispatcher): the count stays above zero and vetoes quitting from then on. Neither
does the code keep a request that is posted, but not yet taken, from being lost
when the office goes down, nor the reference at `officeipcthread.cxx:1066` from
being cleared by SIGTERM after the mutex was unlocked; the model has both.

`office_ipc_join`: section 6.

### Document lock

`document_lock` (two machines of one user and one of a colleague, four
operations between them, every document and setting, any access to the lock file
may fail, a save may fail before it asked for the lock and after it got it, a crash
or an emergency save at any moment):

* `Exclusive` — at most one office has the lock, over the gap in every save, a
  blank file that somebody is about to fill, entries a crash left and accesses
  that fail. Excused: a user who takes a lock of his own over, a user who edits
  without a lock when asked, a save under the system's lock, which does not
  look at that lock, and an office whose failed save removed its own lock file
  (below), until it gives its lock up.
* `StrangersKeepOut` — an entry of another user is neither overwritten nor
  removed by any step. Excused: a takeover, after which the file may be another
  one than the dialog was about.
* `LeavesNothing` — when all have closed the document there is no lock file,
  however their saves ended. Excused: a crash and a failed access, and system locking (below).

Three offices are one that has the lock, one of the same user that may take it
over and one that may not; four operations reach load, save, a second office's
load in between and a close. Deadlock is not checked: offices at the bound stop.

What the excuses hide was seen with TLC by leaving each out:

* The answer to the dialog is about an entry that was read before it. Meanwhile
  the owner may have closed the document and a colleague locked it, whose lock
  is then overwritten (`docfile.cxx:1176`).
* `RemoveFile` compares the owner and then deletes, "the removing is not
  atomic" (`documentlockfile.cxx:219`): after a takeover in between it deletes
  the other's lock.
* A save that fails with the lock in hand (`objstor.cxx:2776`) asks for the lock
  again for the document's old medium, `DoSaveCompleted(0)`, which finds the
  office's own entry and takes that for its lock; only then is the medium that
  stored deleted (2796), which removes the lock file. The document stays locked
  with no file, and another office locks it too. A failed "save as" deletes the
  medium with the new file's lock only, and nothing is wrong.
* `UnlockFile` leaves the lock file when system locking is set
  (`docfile.cxx:2688`), but it was created if the document is not local: the
  file stays after an ordinary close.

### Auto recovery

`auto_recovery` (an untitled document and one that has a file, one modification
of each, three names of temporary files per document; in one scenario a
store or load fails and the office goes down twice, in the other nothing fails, it
goes down once, and the user turns auto-save off and on and has the documents' own
files stored too; the user acts until the first time it goes down):

* `EmergencySavesAll` — when the emergency save has come to its end, the next start
  will bring back every open document as it is, also those that were being saved,
  the postponed and the never registered. Excepted: documents that an interrupted
  pass had handled or that the application refuses to save; those whose backup is
  marked as incomplete, also by a store that failed in this very save; an entry that
  does not know its document's name (below); and new documents that were never
  changed. An emergency save that ends with an exception is not spoken of.
* `BackupsSurvive` — what recovery could bring back of a document never becomes
  older: an old backup goes only once a newer one, or the document itself, is
  written down. Excused: a store that failed, and an emergency save that breaks
  into the moment before the cache learns of the new backup.
* `RecoveryBringsBack` — a recovery that ends has opened each document with nothing
  older than what was to be brought back when the office ended last (`Owed`): the
  backup that its item names, or the document's own file if there is none. Nothing
  is promised of an item marked as handled or damaged, and of one whose backup is
  marked as incomplete, or was being loaded when a recovery crashed, only the
  document's own file. A load that fails leaves the same, or nothing if it was the
  last that could be tried. And one with unsaved changes is open as modified.
* `HandledInTime` — a modified document is handled by a pass, however often the
  pass waits for the user or for a save and whatever opens and closes meanwhile,
  as long as auto-save is on and no exception has stopped the timer.

A pass visits the documents in turn and can be interrupted only while it stores
one, so two documents give one that is being stored and one before or after it;
a file and an untitled document have different recoveries. Going down twice gives a
recovery that crashes, and an emergency save of documents that were recovered, or
not; with the one failure an emergency save that a store breaks off, or a load that
fails before the crash. Three names are the old
backup, the new one and the one that the configuration still names after the entry
has left it: `TempAssumption` says that there is always a name besides two others,
because the code makes them up as it needs them. A kill without an emergency save
(`MayKill`), the two scenarios in one, and a user who goes on between the two crashes
were checked together with one document at a time, without an error; the theorems
hold for all of these.

What the excuses hide was seen with TLC by leaving each out:

* A backup that cannot be stored replaces the good one, which is removed
  (`autorecovery.cxx:3221`), and its mark is never taken back.
* `implts_markDocumentAsSaved` changes a copy of the entry: an untitled document
  that was saved keeps an entry without a URL, and the next flush writes that.
* The cache is not changed while a pass iterates it: a document that closes then
  leaves a dead entry at which every later pass ends with an exception, with the
  timer stopped; a document opened then is not registered, and if the crash comes
  in that pass the emergency save cannot register it either.
* Before it saves anything the emergency save writes down the views of all
  documents, and `implts_collectActiveViewNames` throws at an entry without a
  document (2028), which a load that failed leaves, and at one whose document is
  closed (2037): the whole emergency save is given up (`EmergencyBreaks`).
* `HANDLED` is in the configuration from the moment a document is saved until the
  pass ends. A crash in between, or an exception out of the emergency save, makes
  recovery pass the document over, though its backup is there.

`auto_recovery_handled`: section 6.

### Buffered file

`buffered_file` (files of up to three bytes of three kinds, pages of two bytes,
reads of one to three bytes, four texts to write, I/O that fails at any place
and writes that store a part):

* `IsPlainFile` — the refinement: every call that succeeds answers exactly what was
  asked of it and changes what it would in `PlainFile`, a file without a buffer: a
  read has all the bytes the file has of those requested. One that fails changes
  nothing, except that a write may have stored some of its bytes.
* `SizeIsTold` — the size from which a seek from the end is computed is that of
  what was written, buffered or not.

Three bytes in pages of two give a full and a partial page; texts of one, two and
three bytes give a write within a page, one that starts a page and one that goes
past the buffer. The bytes are a line feed, a carriage return and another, which
are all the code distinguishes. Deadlock is checked.

`PlainFile` does not promise the bytes between the old end of a file and a write
beyond it: in the code these are what the buffer held before (`file.cxx:567`).
It does not promise how a line that contains a carriage return is cut: the code
counts the bytes before one at the end of a page twice. And a close that fails
promises nothing. `SizeIsTold` excepts a page beyond the end, which reading there
makes the buffered one.

The run reads lines only from a page that is not modified. `buffered_file_lines`
reads them also from a modified one: section 6.

## 5. Fairness

Only what the code's threads do by themselves is fair, and weakly:

* a thread inside the lock's code goes on or its client releases what it acquired
  (they are scoped guards), and the main thread returns to its run loop (an
  `NSApplication`);
* time passes, the timer manager goes on, and so does a client of it that is inside
  a call or has the application's lock;
* the thread in `enter` and the bridge that owes it a reply go on, whoever
  suspends a job queue resumes it, and `ThreadPool::dispose` goes on from its
  list to the queue;
* `Yield` is called again and again, `QueryExit` ends, and the termination
  handler looks at its condition again: one of these goes on, since they share
  the main thread;
* the IPC's listening thread goes on; a later office that was asked for its
  arguments sends them or goes away; and the main thread comes back to its
  requests however often it is asked to quit meanwhile, which is the one strong
  fairness: a question to quit interrupts the loop and returns to it;
* the timer event of auto recovery is handled once the user pauses, and a pass
  goes on.

No client is ever made to start a call, and no mutex is handed out fairly: the
liveness properties hold since the others make a bounded number of calls.

## 6. What the code does against its own comments

Each is a run that expects a violation, and an entry of `findings`:

* `job_queue_assert` — `OSL_ASSERT( ! m_lstJob.empty() )`: the condition is left
  set over an empty list when a call is disposed, and the next one wakes.
* `office_ipc_join` — "exit gracefully and join": the listening thread may wait
  for a request only the joining thread could execute.
* `buffered_file_lines` — `osl_readLine` "Reads a line from a file": `readLineAt`
  flushes the buffered page before the first page it loads and not before the
  next ones, so a line that goes on in the next page overwrites bytes that were
  written and not yet in the file, and the page that took their place is later
  written as if it were modified.
* `auto_recovery_handled` — "following recovery session must be started without
  any handle state": a second document's store throws and breaks off the emergency
  save before it takes the state back of the first, which was saved, and the
  recovery skips it.

Smaller disagreements are described with the runs in section 4 and under
`hazards`.

## 7. Proofs

All proofs are of the modules the runs check, for every set of threads, bridges,
offices, clients or events, every finite set of timers or documents, every size of
page, every set of bytes and every bound. The assumptions are those the modules state of their constants,
which the runs evaluate, and the three hypotheses named below: one bridge calls,
clients of timers are careful, no line is read over a modified page. Each of the
three is one under which TLC finds the properties to hold and without which it
finds them violated.

**`SolarMutexProofs`** proves `TypeOK`, `HandlerNeverBlocks`, `OwnedIffHeld`,
`CountsAgree`, `PriorityIsWanted` and `DragKeepsLock`. The last four are claimed
until a signal comes (`signalled = NoThread`), from when the lock may be taken
twice (section 4), and so is their invariant; `SignalStays` says that the handler
is not left again. None of them is inductive: that a thread's clients and the
mutex agree after `release` depends on what the record said before it. `IInv` has
four parts: the types of the flags; `Core`, which says of the owner that `depth`
is what its clients hold, plus one while it is inside a step (`OwnerOK`), of every
other thread that it holds nothing unless it gave up (`OtherOK`), of each place in
the code what its call is (`PlaceOK`), and of a saved count that its thread is out
of the lock (`SavedOK`); `DragOK`; and `PriorityOK`. The proof has one lemma per
action or group of actions that change the same part, each broken down by thread:
the one that moves and the others. `AnyTime` is what remains after the signal, and
enough for `TypeOK` and `HandlerNeverBlocks`: the counts are those of somebody
(`Counted`), and the handler goes to the mutex only when it has it already, from
the call it interrupted or because its own try succeeded (`HandlerOK`).

**`JobQueueProofs`** proves `TypeOK` (with `DepthsAgree`: what `enter` remembers
of the lock is what each frame found) and from it `SolarRestored`. `DepthsAgree`
is needed because a nested call returns to a request that runs in the frame below:
all frames were entered at the same depth, since the lock is only given up and
taken again inside a wait. `JobsWake` is inductive by itself: each action that
adds a job or ends a suspension sets the condition, and only a look at the empty
list resets it. `CallsAreRight`, when one bridge calls, needs that the call stack
is then all of that bridge or, once it is disposed, all cleared (`AllSame`), and
that the condition is set for a job or a disposed call and only for these
(`ConditionTrue`): with two bridges the stack may be cleared below its front, and
just that breaks it.

**`DocumentLockProofs`** proves `TypeOK`, `Exclusive`, `StrangersKeepOut` and
`LeavesNothing`. `Exclusive` is not inductive: nothing in it says where the
next office would see that the document is locked. `HoldersAreNamed` does: who
has the lock is named in the lock file, or has the system's lock. It is kept by
a removal only because an office that is about to delete a file deletes its own
(`OwnFile`, which also says that without a takeover nobody overwrites) and does
not count on the lock any more, or is `bare` from then on because its save failed
(`Released`), and because with the system's lock
the lock file is not asked for (`SystemPath`). `StrangersKeepOut` follows from
`OwnFile`, action by action. `LeavesNothing` looks the other way: somebody is
going to remove each file that is there. `Accounted` says who: an empty file is
about to be written, and the office that an entry names has the lock, is looking
whether the entry is its own, or is being overwritten.

**`BufferedFileProofs`** proves `TypeOK`, `SizeIsTold` and `LinesChangeNothing`
under `~MayReadDirtyLines`: no line is read while the buffered page is modified,
the case in which the code loses bytes (section 6). `IInv` adds two parts to
`TypeOK`. `CallOK` types the locals of each call and bounds what a write reaches.
`Coherent` relates the buffer to the file: a page that is not modified is what the
file has there, a modified one reaches at least as far as the file does, and
`m_size` is the file's size. Without the first a page could be served that the
file has long changed, without the second a flush would not be enough to bring a
caller's bytes to the file.

It also proves that every behaviour of `BufferedFile` is one of
`PlainFile` (`IsPlainFile`), under the same assumptions. A flush and the loading
of a page must change nothing of what the caller sees (`FlushShows`, `BufferShows`);
a call in several turns answers one step of `PlainFile` at its end, so what it has
gathered must be still true then: `ReadGood` and `LineGood` say that the bytes
gathered are those the caller sees at those places; of a read, that they and what
is still wanted make up what was asked, or that the file ends with them; and of a
line, that no line feed is among them. The end of a line is the least place of a line feed, which `PlainFile` picks
with `CHOOSE` from the whole file and the code finds page by page. Each action of
`BufferedFile` has a lemma that names the step of `PlainFile` it is.

**`EventQueueProofs`** proves `TypeOK`, `ItemsAreLive`, `InputKeepsOrder` and
`NothingIsLost`. `ItemsInv`, the base of the others, says that a list is in the
order of posting, holds everything of its kind posted since its oldest item, and
that its front is not marked (`QueueOK`): so a purge removes from the front
exactly the marked items before the first one that is not. `EventOK` says what
coalescing leaves of an event as it was posted, `FateOK` ties the history to the
lists, `PointersOK` says that the pointers are to items in the list and that no
key went up since the press that `mpKeyInputItem` is to. `InputKeepsOrder` is
proved in the stronger `OrderInv`, that it would also hold of a release posted
now: this is what makes a press or move that takes an earlier one's place harmless.
The rotation in `NothingIsLost` is a sum over all events of a wheel; a new event
takes the rotation of those it replaces, so two sums over the same events have to
agree. `WheelInv` is needed beside it: once a magnifying event came, what turned
before it and still waits turned by the page, and is not added to another. The
screen's width, which rectangles are bounded by, is the constant `Width`, so that
this holds of any screen.

**`OfficeIPCProofs`** proves `TypeOK`, `RepliesAreTrue` and `PendingIsExact`.
`LoadInv` (an execution that loads a document still has that request before it)
goes with the types. Replies are true because the request that is waited for is in
one place at most, the posted event (`PostedInv`) or one execution
(`AnsweringInv`), and when the condition is set it was executed (`AnsweredInv`):
one condition for all clients is enough only because the thread serves one at a
time. The count is the number of requests that the nested executions have left
(`CountInv`, over the stack of executions; `CountIsPending` says that it is the
property), and it changes at the innermost one only. That it is zero when the
office goes down on its own (`DownInv`) rests on nothing being begun between the
question and the answer, and that in turn on the order of the start: before
requests are enabled there are only documents from the OS, the listening thread
waits, and nobody but `QueryExit` can end the office (`StartInv`). `KindInv`
carries the premise, that only requests are sent whose end the code hears of,
into the executions.

**`TimerManagerProofs`** proves `TypeOK`, `SortedQueue`, `NeverOversleeps` and
`NoUseAfterFree` for careful clients (section 4). The linked list is described by
a sequence `q` of different timers that the pointers link (`Chain`) and whose
times ascend (`Sorted`). `Walk`, which follows the pointers, is a recursive
function; by induction it visits `q` and then `Null` (`ChainWalk`), and `q` is no
longer than there are timers (`ChainShort`), so the walk ends. The stores of
`registerTimer` and `unregisterTimer` turn the pointers of `q` into those of `q`
with a timer more or less (`ChainWith`, `ChainWithout`), in order because
`registerTimer` stops at the first timer that expires later (`PositionFacts`).
That holds only when the timer is not in the list already, the point of the rest
of `TimerInv`: a timer that the manager will put back is nowhere else
(`FiringInv`), nor is one that a client has looked up to start it
(`StartingInv`); one that was released is there only if it repeats and had been
stopped (`StoppedInv`, `DroppedInv`), which is the exception of `NoUseAfterFree`;
and the references of a
timer are those of the client and of the manager (`RefsInv`). For `NeverOversleeps` the manager must sleep no longer than to a time that the front
does not expire before (`SleepInv`), and the order of the list must say something
about delays: a timer that the code does not order before another is due no earlier
either, or it is due in the second in which the other's delay ends and the other's
time is not normalized (`OrderAndDelay`). A finite set of timers is assumed, since a walk through infinitely many would not end.

**`AutoRecoveryProofs`** proves `TypeOK`, `EmergencySavesAll`, `BackupsSurvive`
and `RecoveryBringsBack`, all that the run checks but the liveness property, for
any finite set of documents, any number of modifications, failures and crashes,
and for kills without an emergency save too. None of the properties is inductive:
what the next start can bring back of a document depends on an entry, a copy of it
that a pass is working on, an item of the configuration and two or three files,
which agree with each other only up to the step between two writes. `IInv` says
how far, in parts of which each is about one of these pairs:

* `CacheInv` — the list names a document once, an entry of another document is
  empty, and an open document that is listed has an entry that knows it.
* `PlaceInv`, `CopyInv` — where a pass is, and that the copy differs from the
  entry in what `implts_saveOneDoc` has done so far: up to the store its old file
  is the entry's, after it the new file holds the document as it is, or the copy
  is `INCOMPLETE`.
* `ReadInv` — in a recovery only a handled entry has a document, and the marks of
  an entry say which of its two sources is being tried.
* `FilesInv` — a document has the entry's file, the one being removed and, in an
  emergency save, one that the interrupted pass has left; so `NewTemp` finds a
  name that nothing refers to (`NewTempExists`), and a store overwrites no backup.
* `ConfigInv` — the configuration names the file of the copy while the old one is
  being removed, and otherwise that of the entry, or none when the document was
  saved since, whose file is then gone.
* `KeptInv` — what has nothing unsaved is in the backup or in its own file, but
  for the exceptions the property names.
* `EmergencyInv` — every document before the place at which an emergency save is
  has been handled, has nothing to save, comes again among the dangerous ones, or
  there will be another turn.
* `ModifiedInv` — contents that are not in the document's own file are marked as
  modified in the document, its entry and its item.
* `DueInv` — what a recovery owes (`Owed`, when the office ended last) is open, or
  is what the marks of the entry will still make it try.

The steps are of nine kinds (`Kinds`): of the user, of a pass before and while it
stores, of loading, turns and ends of a pass, the process going down (also by an
emergency save that is given up), the emergency save, the restart. The first four concern one document, and `Unmoved` says that
every other is left alone, so what is said of each document by itself (`DocInv`)
is proved for that one document and each kind of step (`...Keeps`). For every
action a lemma (`...Effect`) says first what it does to entry, item and files.
`EmergencySavesAll` is then proved at the end of an emergency save: the place is
past the list and the dangerous documents, so each open document was seen
(`SavedAtEnd`). `BackupsSurvive` is proved step by step: each leaves what can be
recovered as it is or makes it the present contents, but the excused ones
(`...Survives`). That a recovery misses nothing follows from `DueInv` at its end.

Induction in these modules is by the least counterexample in
a set of numbers (`LeastExists`, from the library's theorem that `<` on the
naturals is well-founded), because the library's induction rules take an operator
that the installed provers cannot instantiate. In this way facts about sums
(`SumStep`, `SumSame`, `SumPlus`, `SumNat`) and about `Walk` are proved for every
length.

**Only model-checked:** the liveness properties, which need fairness and ENABLED
that the prover does not handle: `CallsReturn`, `DueTimersLeave`,
`ClientCallsReturn`, `WaitsEnd`, `EventsLeave`, `TerminationEnds`,
`RequestsAreServed` and `HandledInTime`. Every invariant, action property and
refinement that a passing run checks is also a theorem. Outside the three
hypotheses nothing is claimed: TLC shows what goes wrong there.

**Not modelled** of the components above: the kinds of recovery that save and
restore a session, the backup of an entry on demand, asynchronous dispatch, the
view names and the listening to modifications one by one; a configuration that
cannot be written (`config` is durable at each flush), and the auto-save setting
changed while a pass runs. Of the buffered file: pipes, memory files, handles
without a buffer, the modes and file locks of opening, and `osl_setFileSize`,
which takes no mutex, on two threads at once.

## 8. Running

    tlc -config SolarMutex.cfg SolarMutex.tla
    tlapm SolarMutexProofs.tla

`PROJECT.json` names the module and configuration of every run.
