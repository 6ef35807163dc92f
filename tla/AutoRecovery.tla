----------------------------- MODULE AutoRecovery -----------------------------
(***************************************************************************)
(* Auto-save and recovery (framework/source/services/autorecovery.cxx): a  *)
(* timer saves the modified documents to temporary files that the          *)
(* configuration names; after a crash the next office opens the documents  *)
(* from there.  The service keeps a list of the documents, m_lDocCache,    *)
(* and writes each change of an entry to the configuration.                *)
(*                                                                         *)
(* Everything runs on the main thread.  Other handlers come between the    *)
(* steps of a pass only where a document is being stored, because its      *)
(* progress bar dispatches events; a crash comes between any two steps.    *)
(* A file that no entry names any more is never read again and is left     *)
(* out, though it stays on the disk when a pass is broken off.             *)
(***************************************************************************)
EXTENDS Integers, Sequences, FiniteSets

CONSTANTS
    Docs,         \* the documents
    NoDoc,        \* no document
    Untitled,     \* those that are created, the others have a file
    MaxVersion,   \* bound: modifications of a document
    Temps, NoTemp,  \* names of temporary files, and none; each document has its own
    Scenarios,    \* bounds: what fails and what is set, see below
    MayKill       \* whether a crash may come without the emergency save

ASSUME DocAssumption == IsFiniteSet(Docs) /\ Untitled \subseteq Docs /\ NoDoc \notin Docs
ASSUME BoundAssumption == MaxVersion \in Nat
\* How many stores and loads fail, how often the office crashes, after which crash
\* the user changes nothing more, and whether the user turns auto-save off and on
\* and may have user auto-save, which stores the document's own file too.
ASSUME ScenarioAssumption ==
    \A s \in Scenarios : /\ s.maxFailures \in Nat /\ s.maxCrashes \in Nat
                         /\ s.turns \in Nat /\ s.maySet \in BOOLEAN
\* The names are made up as they are needed, so there is always another one.
ASSUME TempAssumption ==
    NoTemp \notin Temps /\ \A s, t \in Temps \union {NoTemp} : Temps \ {s, t} # {}
ASSUME KillAssumption == MayKill \in BOOLEAN

VARIABLES
    \* the documents
    open, modified, unsaved,  \* unsaved: wasModifiedSinceLastSave
    saving,                   \* the user is saving them
    version, original,        \* the contents, and those of the document's own file
    \* the service
    m_lDocCache, entry, enabled, m_eTimerType,
    timer,  \* on, off, or lost: an exception left its handler
    \* a pass over the cache: a job, the place in the cache, a copy of an entry
    job, at, phase, copy, suggested, dangerous,
    \* what a crash leaves
    config, files,
    \* what is asked of it, and how much may still go wrong
    due, skipped, scenario, failures, crashes

docVars == <<open, modified, unsaved, saving, version, original>>
timerVars == <<enabled, m_eTimerType, timer>>
passVars == <<job, at, phase, copy, suggested, dangerous>>
duty == <<due, skipped>>
limits == <<scenario, failures, crashes>>
vars == <<docVars, m_lDocCache, entry, timerVars, passVars, config, files, duty, limits>>

\* TRY_SAVE and SUCCEDED are shown by the recovery dialog, and read nowhere here.
Flags == {"MODIFIED", "POSTPONED", "HANDLED", "TRY_LOAD_BACKUP", "TRY_LOAD_ORIGINAL",
          "DAMAGED", "INCOMPLETE"}
None == -1
NoEntry == [state |-> {}, used |-> FALSE, old |-> NoTemp, org |-> FALSE, loaded |-> FALSE]
NoItem == [present |-> FALSE, state |-> {}, temp |-> NoTemp, org |-> FALSE]
NoCopy == [doc |-> NoDoc, info |-> NoEntry, new |-> NoTemp]

Cached == {m_lDocCache[i] : i \in 1..Len(m_lDocCache)}
Locked == job # "none"                         \* m_nDocCacheLock > 0
Listening == job \in {"none", "pass"}
\* Events are handled between two passes, and while one stores a document.
UserTurn ==
    /\ job = "none" \/ (job = "pass" /\ phase = "store")
    /\ crashes < scenario.turns
Base(d) == IF original[d] = None THEN 0 ELSE original[d]
Titled(d) == original[d] # None
-----------------------------------------------------------------------------
\* implts_flushConfigItem
Item(info) == [present |-> TRUE, state |-> info.state, temp |-> info.old, org |-> info.org]
Flush(d, info) == config' = [config EXCEPT ![d] = Item(info)]
FlushRemove(d) == config' = [config EXCEPT ![d] = NoItem]

\* st_impl_removeFile
Removed(f, d, t) == IF t = NoTemp THEN f ELSE [f EXCEPT ![d][t] = None]

\* A name for a new temporary file of d: one that nothing refers to;
\* which one makes no difference.
NewTemp(d) ==
    CHOOSE t \in Temps : files[d][t] = None /\ t # entry[d].old /\ t # config[d].temp

\* A slip: no timer for the polls.
StartNormalTimer(type) == timer' = IF enabled /\ type = "normal" THEN "on" ELSE "off"

\* implts_updateTimer
StartTimer(type) == timer' = IF enabled /\ type # "dont" THEN "on" ELSE "off"

\* implts_updateModifiedState, for an event that reaches the service.
WithModified(e, d, is) ==
    IF d \in Cached /\ Listening
    THEN [e EXCEPT ![d].state = IF is THEN @ \union {"MODIFIED"} ELSE @ \ {"MODIFIED"}]
    ELSE e
-----------------------------------------------------------------------------
\* The list s, in which d occurs once, without d.
Without(s, d) ==
    LET place == CHOOSE i \in 1..Len(s) : s[i] = d
    IN  [i \in 1..Len(s) - 1 |-> IF i < place THEN s[i] ELSE s[i + 1]]

NewEntry(d) == [NoEntry EXCEPT !.org = Titled(d), !.loaded = TRUE,
                               !.state = IF d \in modified THEN {"MODIFIED"} ELSE {}]

\* A document is created or loaded; implts_registerDocument refuses a new one
\* while the cache is iterated.
Open(d) ==
    /\ UserTurn
    /\ d \notin open \union Cached
    /\ open' = open \union {d}
    /\ IF Locked
       THEN UNCHANGED <<m_lDocCache, entry, config>>
       ELSE /\ m_lDocCache' = Append(m_lDocCache, d)
            /\ entry' = [entry EXCEPT ![d] = NewEntry(d)]
            /\ Flush(d, NewEntry(d))
    /\ UNCHANGED <<modified, unsaved, saving, version, original, timerVars, passVars,
                   files, duty, limits>>

\* The frames of a document are locked while it is stored.
Modify(d) ==
    /\ UserTurn
    /\ d \in open \ saving /\ d # copy.doc
    /\ version[d] < MaxVersion
    /\ version' = [version EXCEPT ![d] = @ + 1]
    /\ modified' = modified \union {d}
    /\ unsaved' = unsaved \union {d}
    /\ entry' = WithModified(entry, d, TRUE)
    /\ UNCHANGED <<open, saving, original, m_lDocCache, timerVars, passVars, config,
                   files, duty, limits>>

\* OnSave, OnSaveAs, OnSaveTo.
SaveBegins(d) ==
    /\ job = "none" /\ UserTurn
    /\ d \in open \ saving
    /\ saving' = saving \union {d}
    /\ entry' = IF d \in Cached THEN [entry EXCEPT ![d].used = TRUE] ELSE entry
    /\ UNCHANGED <<open, modified, unsaved, version, original, m_lDocCache, timerVars,
                   passVars, config, files, duty, limits>>

\* implts_markDocumentAsSaved writes what it has changed in a copy of the entry
\* to the configuration, and not back to the cache.
SavedEntry(d) == [entry[d] EXCEPT !.state = {}, !.org = TRUE, !.old = NoTemp, !.used = FALSE]
MarkAsSaved(d) ==
    /\ Flush(d, SavedEntry(d))
    /\ files' = [files EXCEPT ![d] = Removed(files, d, entry[d].old)[d]]

\* The document's file has its contents, the document is not modified any more.
Stored(d) ==
    /\ original' = [original EXCEPT ![d] = version[d]]
    /\ modified' = modified \ {d}

\* OnSaveDone, OnSaveAsDone after the modified state was reset.  A save that
\* begins in a pass also ends there.
SaveEnds(d) ==
    /\ UserTurn
    /\ IF job = "none" THEN d \in saving ELSE d \in open \ saving /\ d # copy.doc
    /\ Stored(d)
    /\ unsaved' = unsaved \ {d}
    /\ saving' = saving \ {d}
    /\ IF d \in Cached
       THEN /\ entry' = [WithModified(entry, d, FALSE) EXCEPT ![d].used = FALSE]
            /\ MarkAsSaved(d)
       ELSE UNCHANGED <<entry, config, files>>
    /\ UNCHANGED <<open, version, m_lDocCache, timerVars, passVars, duty, limits>>

\* A slip: a copy that was saved counts as the document.
SaveFailsAsSaved(d) ==
    /\ job = "none"
    /\ d \in saving
    /\ saving' = saving \ {d}
    /\ entry' = IF d \in Cached THEN [entry EXCEPT ![d].used = FALSE] ELSE entry
    /\ IF d \in Cached THEN MarkAsSaved(d) ELSE UNCHANGED <<config, files>>
    /\ UNCHANGED <<open, modified, unsaved, version, original, m_lDocCache, timerVars,
                   passVars, duty, limits>>

\* OnSaveFailed, and OnSaveToDone after a copy was saved.
SaveFails(d) ==
    /\ job = "none"
    /\ d \in saving
    /\ saving' = saving \ {d}
    /\ entry' = IF d \in Cached THEN [entry EXCEPT ![d].used = FALSE] ELSE entry
    /\ UNCHANGED <<open, modified, unsaved, version, original, m_lDocCache, timerVars,
                   passVars, config, files, duty, limits>>

\* A slip: they stay in the sets of the modified ones.
ClosedKeepsFlags(ds) ==
    /\ open' = open \ ds
    /\ saving' = saving \ ds
    /\ version' = [d \in Docs |-> IF d \in ds THEN Base(d) ELSE version[d]]
    /\ UNCHANGED <<modified, unsaved, original>>

\* What closing the documents ds leaves of them.
Closed(ds) ==
    /\ open' = open \ ds
    /\ modified' = modified \ ds
    /\ unsaved' = unsaved \ ds
    /\ saving' = saving \ ds
    /\ version' = [d \in Docs |-> IF d \in ds THEN Base(d) ELSE version[d]]
    /\ UNCHANGED original

\* OnUnload: implts_deregisterDocument, refused while the cache is iterated.
\* A document that is being stored does not close.
Close(d) ==
    /\ UserTurn
    /\ d \in open \ saving /\ d # copy.doc
    /\ Closed({d})
    /\ IF d \in Cached /\ ~Locked
       THEN /\ m_lDocCache' = Without(m_lDocCache, d)
            /\ entry' = [entry EXCEPT ![d] = NoEntry]
            /\ files' = Removed(files, d, entry[d].old)
            /\ FlushRemove(d)
       ELSE UNCHANGED <<m_lDocCache, entry, files, config>>
    /\ UNCHANGED <<timerVars, passVars, duty, limits>>

\* implts_cleanUpWorkingEntry, for an entry whose document was not recovered.
CleanUpEntry(d) ==
    /\ job = "none"
    /\ d \in Cached /\ ~entry[d].loaded
    /\ m_lDocCache' = Without(m_lDocCache, d)
    /\ entry' = [entry EXCEPT ![d] = NoEntry]
    /\ files' = Removed(files, d, entry[d].old)
    /\ FlushRemove(d)
    /\ UNCHANGED <<docVars, timerVars, passVars, duty, limits>>

\* changesOccurred: the user turns auto-save on or off.
ChangeAutoSave(on) ==
    /\ job = "none" /\ scenario.maySet
    /\ enabled' = on
    /\ m_eTimerType' = IF on THEN "normal" ELSE "dont"
    /\ timer' = IF on THEN "on" ELSE "off"
    /\ UNCHANGED <<docVars, m_lDocCache, entry, passVars, config, files,
                   duty, limits>>
-----------------------------------------------------------------------------
StartPass(j) ==
    /\ job' = j /\ at' = 1 /\ phase' = "visit" /\ copy' = NoCopy
    /\ suggested' = IF j = "recovery" THEN "dont" ELSE "normal"
    /\ dangerous' = <<>>
EndPass(j) ==
    /\ job' = j /\ at' = 0 /\ phase' = "visit" /\ copy' = NoCopy
    /\ suggested' = "normal" /\ dangerous' = <<>>

\* implts_timerExpired
TimerExpires(captured, idle) ==
    /\ job = "none" /\ timer = "on"
    /\ IF captured \/ (m_eTimerType = "idle" /\ ~idle)
       THEN /\ m_eTimerType' = IF captured THEN "allowed" ELSE m_eTimerType
            /\ StartTimer(m_eTimerType')
            /\ UNCHANGED passVars
       ELSE /\ timer' = "off"
            /\ UNCHANGED m_eTimerType
            /\ StartPass("pass")
    /\ UNCHANGED <<docVars, m_lDocCache, entry, enabled, config, files,
                   duty, limits>>

\* A slip: the dangerous documents are forgotten.
OrderWithoutDangerous == m_lDocCache

\* A step of a pass at the document d; the dangerous ones come last.
Order == m_lDocCache \o dangerous
Visits(jobs, d) ==
    /\ job \in jobs /\ phase = "visit"
    /\ at \in 1..Len(Order)
    /\ d = Order[at]
Going(d) == /\ d \in open  \* else Document is disposed: DisposedException
            /\ entry[d].loaded

\* implts_saveDocs: nothing is to be saved of this document, or not now.
Passes(d, isActive) ==
    /\ entry[d].loaded => d \in open
    /\ at <= Len(m_lDocCache)
    /\ \/ ~entry[d].loaded \/ "HANDLED" \in entry[d].state \/ d \notin unsaved
       \/ entry[d].used
       \/ isActive /\ "POSTPONED" \notin entry[d].state
    /\ LET looked == entry[d].loaded /\ "HANDLED" \notin entry[d].state /\ d \in unsaved
           used == looked /\ entry[d].used
           postponed == looked /\ ~entry[d].used
       IN  /\ dangerous' = IF used /\ job = "emergency" THEN Append(dangerous, d) ELSE dangerous
           /\ suggested' = CASE used /\ job = "pass" -> "allowed"
                             [] postponed -> IF job = "pass" THEN "idle" ELSE "again"
                             [] OTHER -> suggested
           /\ entry' = IF postponed THEN [entry EXCEPT ![d].state = @ \union {"POSTPONED"}]
                                    ELSE entry

Skip(d, isActive) ==
    /\ Visits({"pass", "emergency"}, d)
    /\ Passes(d, isActive)
    /\ at' = at + 1
    /\ UNCHANGED <<docVars, m_lDocCache, timerVars, job, phase, copy, config,
                   files, duty, limits>>

Saves(d, isActive) ==
    /\ Going(d)
    /\ \/ at > Len(m_lDocCache)
       \/ /\ "HANDLED" \notin entry[d].state /\ d \in unsaved /\ ~entry[d].used
          /\ isActive => "POSTPONED" \in entry[d].state

\* implts_saveOneDoc: a name for the new file, and the attempt is written down.
BeginSave(d, isActive, userAutoSave) ==
    /\ Visits({"pass", "emergency"}, d)
    /\ Saves(d, isActive)
    /\ userAutoSave => scenario.maySet /\ job = "pass" /\ entry[d].org
    /\ copy' = [doc |-> d, info |-> entry[d], new |-> NewTemp(d)]
    /\ Flush(d, entry[d])
    /\ phase' = IF userAutoSave THEN "original" ELSE "store"
    /\ UNCHANGED <<docVars, m_lDocCache, entry, timerVars, job, at, suggested, dangerous,
                   files, duty, limits>>

\* Application_canSave refuses: the document counts as saved.
RefusesToSave(d) ==
    /\ Visits({"pass", "emergency"}, d)
    /\ \E isActive \in BOOLEAN : Saves(d, isActive)
    /\ failures < scenario.maxFailures /\ failures' = failures + 1
    /\ entry' = [entry EXCEPT ![d].state = @ \union {"HANDLED"}]
    /\ at' = at + 1
    /\ skipped' = IF job = "emergency" THEN skipped \union {d} ELSE skipped
    /\ UNCHANGED <<docVars, m_lDocCache, timerVars, job, phase, copy, suggested, dangerous,
                   config, files, due, scenario, crashes>>

\* With user auto-save the document's own file is stored first, which the
\* service learns by the events of a save; a failure is ignored.
StoreOriginal ==
    /\ phase = "original"
    /\ LET d == copy.doc
       IN  \/ /\ Stored(d)
              /\ unsaved' = unsaved \ {d}
              /\ entry' = [WithModified(entry, d, FALSE) EXCEPT ![d].used = FALSE]
              /\ MarkAsSaved(d)
           \/ UNCHANGED <<original, modified, unsaved, entry, config, files>>
    /\ phase' = "store"
    /\ UNCHANGED <<open, saving, version, m_lDocCache, timerVars, job, at, copy, suggested,
                   dangerous, duty, limits>>

\* The entry after the attempt: HANDLED, and INCOMPLETE if there is no backup.
StoredInfo(new) ==
    [copy.info EXCEPT !.old = new,
        !.state = @ \union {"HANDLED"} \union (IF new = NoTemp THEN {"INCOMPLETE"} ELSE {})]

\* storeToRecoveryFile: the backup is there and written down; on a full disk
\* there is none.
StoreRecovery ==
    /\ phase = "store"
    /\ LET d == copy.doc
       IN  \/ /\ files' = [files EXCEPT ![d][copy.new] = version[d]]
              /\ unsaved' = unsaved \ {d}
              /\ copy' = [copy EXCEPT !.info = StoredInfo(copy.new), !.new = copy.info.old]
              /\ Flush(d, StoredInfo(copy.new))
              /\ UNCHANGED failures
           \/ /\ failures < scenario.maxFailures /\ failures' = failures + 1
              /\ copy' = [copy EXCEPT !.info = StoredInfo(NoTemp), !.new = copy.info.old]
              /\ Flush(d, StoredInfo(NoTemp))
              /\ UNCHANGED <<files, unsaved>>
    /\ phase' = "remove"
    /\ UNCHANGED <<open, modified, saving, version, original, m_lDocCache, entry, timerVars,
                   job, at, suggested, dangerous, duty, scenario, crashes>>

\* The old file is removed, the copy becomes the entry.
RemoveOld ==
    /\ phase = "remove"
    /\ entry' = [entry EXCEPT ![copy.doc] = copy.info]
    /\ files' = Removed(files, copy.doc, copy.new)
    /\ copy' = NoCopy /\ phase' = "visit" /\ at' = at + 1
    /\ UNCHANGED <<docVars, m_lDocCache, timerVars, job, suggested, dangerous,
                   config, duty, limits>>
-----------------------------------------------------------------------------
\* implts_resetHandleStates
ResetEntries ==
    [d \in Docs |-> IF d \in Cached
                    THEN [entry[d] EXCEPT !.state = @ \ {"HANDLED", "POSTPONED"}]
                    ELSE entry[d]]
ResetHandleStates ==
    /\ entry' = ResetEntries
    /\ config' = [d \in Docs |-> IF d \in Cached THEN Item(ResetEntries[d]) ELSE config[d]]

AtEnd(j) == job = j /\ phase = "visit" /\ at > Len(Order)

\* implts_timerExpired after implts_saveDocs.
PassEnds ==
    /\ AtEnd("pass")
    /\ IF suggested = "normal" THEN ResetHandleStates ELSE UNCHANGED <<entry, config>>
    /\ m_eTimerType' = suggested
    /\ StartTimer(suggested)
    /\ EndPass("none")
    /\ UNCHANGED <<docVars, m_lDocCache, enabled, files, duty, limits>>

\* What recovery can bring back of d: what its configuration item names.
Backup(d) == IF config[d].temp = NoTemp THEN None ELSE files[d][config[d].temp]
Recoverable(d) ==
    IF ~config[d].present THEN None
    ELSE IF Backup(d) # None THEN Backup(d)
    ELSE IF config[d].org THEN original[d] ELSE None

\* What it will try to bring back: nothing of an item that is marked as handled or
\* damaged, and no backup that is marked as tried or as incomplete.
Owed(d) ==
    LET state == config[d].state
        backupWasTried == state \intersect {"TRY_LOAD_BACKUP", "INCOMPLETE"} # {}
    IN  IF state \intersect {"HANDLED", "DAMAGED"} # {} THEN None
        ELSE IF ~backupWasTried THEN Recoverable(d)
        ELSE IF "TRY_LOAD_ORIGINAL" \notin state /\ config[d].org THEN original[d]
        ELSE None

\* The process is gone.
GoesDown ==
    /\ Closed(open)
    /\ m_lDocCache' = <<>>
    /\ entry' = [d \in Docs |-> NoEntry]
    /\ timer' = "off" /\ m_eTimerType' = "dont"
    /\ EndPass("down")
    /\ UNCHANGED enabled

\* An exception leaves implts_saveDocs: a document cannot be stored, or an entry
\* has a document that is closed.  The timer stays stopped, the states stay as
\* they are; the emergency save ends there.
Breaks ==
    /\ \/ phase = "store" /\ failures < scenario.maxFailures /\ failures' = failures + 1
       \/ /\ UNCHANGED failures
          /\ \E d \in Docs : /\ Visits({"pass", "emergency"}, d)
                             /\ entry[d].loaded /\ d \notin open
    /\ IF job = "emergency"
       THEN GoesDown /\ due' = [d \in Docs |-> Owed(d)]
       ELSE /\ EndPass("none") /\ timer' = "lost"
            /\ UNCHANGED <<docVars, m_lDocCache, entry, enabled, m_eTimerType, due>>
    /\ UNCHANGED <<config, files, skipped, scenario, crashes>>

\* A crash that is caught: all visible documents are registered, which is
\* refused while the cache is iterated, and the entries are written down one by
\* one with the views of their documents (implts_prepareEmergencySave,
\* implts_persistAllActiveViewNames).  An entry whose document was not recovered,
\* or is closed, throws there, and the emergency save is given up.
Unknown == open \ Cached
CrashIsCaught ==
    /\ job \in {"none", "pass"}
    /\ crashes < scenario.maxCrashes /\ crashes' = crashes + 1
    /\ Unknown # {} => ~Locked
Throws(d) == ~entry[d].loaded \/ d \notin open
Registered(d) == IF d \in Unknown THEN NewEntry(d) ELSE entry[d]
Persisted(ds) == [d \in Docs |-> IF d \in ds \union Unknown THEN Item(Registered(d)) ELSE config[d]]

EmergencySave ==
    /\ CrashIsCaught
    /\ \A d \in Cached : ~Throws(d)
    /\ \E seq \in [1..Cardinality(Unknown) -> Unknown] :
         /\ {seq[i] : i \in 1..Cardinality(Unknown)} = Unknown
         /\ m_lDocCache' = m_lDocCache \o seq
    /\ entry' = [d \in Docs |-> Registered(d)]
    /\ config' = Persisted(Cached)
    /\ skipped' = {d \in Docs : "HANDLED" \in entry[d].state}
                     \union IF phase = "remove" THEN {copy.doc} ELSE {}
    /\ timer' = "off" /\ m_eTimerType' = "dont"   \* bAllowAutoSaveReactivation = false
    /\ StartPass("emergency")
    /\ UNCHANGED <<docVars, enabled, files, due, scenario, failures>>

\* The entries before the first that throws are written down.
EmergencyBreaks ==
    /\ CrashIsCaught
    /\ \E n \in 1..Len(m_lDocCache) :
         /\ Throws(m_lDocCache[n])
         /\ \A i \in 1..n - 1 : ~Throws(m_lDocCache[i])
         /\ config' = Persisted({m_lDocCache[i] : i \in 1..n - 1})
    /\ GoesDown
    /\ UNCHANGED <<files, skipped, scenario, failures>>
    /\ due' = [d \in Docs |-> Owed(d)']

\* implts_doEmergencySave: once more for those postponed, then the end.
EmergencyTurns ==
    /\ AtEnd("emergency") /\ suggested = "again"
    /\ StartPass("emergency")
    /\ UNCHANGED <<docVars, m_lDocCache, entry, timerVars, config, files, duty, limits>>

EmergencyEnds ==
    /\ AtEnd("emergency") /\ suggested # "again"
    /\ ResetHandleStates
    /\ EndPass("saved")
    /\ UNCHANGED <<docVars, m_lDocCache, timerVars, files, duty, limits>>

\* The office ends after an emergency save, or is killed, or the emergency save
\* cannot even begin.
Crash ==
    /\ \/ job = "saved" /\ UNCHANGED crashes
       \/ /\ crashes < scenario.maxCrashes /\ crashes' = crashes + 1
          /\ job # "down"
          /\ MayKill \/ (job = "pass" /\ Unknown # {}) \/ job = "recovery"
    /\ GoesDown
    /\ due' = [d \in Docs |-> Owed(d)]
    /\ skipped' = {}
    /\ UNCHANGED <<config, files, scenario, failures>>

\* The next start: implts_readConfig, and recovery is dispatched.
Restart ==
    /\ job = "down"
    /\ LET items == {d \in Docs : config[d].present}
       IN  /\ \E seq \in [1..Cardinality(items) -> items] :
                /\ {seq[i] : i \in 1..Cardinality(items)} = items
                /\ m_lDocCache' = seq
           /\ entry' = [d \in Docs |->
                           IF d \in items
                           THEN [NoEntry EXCEPT !.state = config[d].state,
                                    !.old = config[d].temp, !.org = config[d].org]
                           ELSE NoEntry]
           /\ files' = [d \in Docs |-> [t \in Temps |->
                           IF t = config[d].temp THEN files[d][t] ELSE None]]
    /\ m_eTimerType' = IF enabled THEN "normal" ELSE "dont"
    /\ StartPass("recovery")
    /\ UNCHANGED <<docVars, enabled, timer, config, duty, limits>>
-----------------------------------------------------------------------------
BackupWasTried(d) ==
    entry[d].state \intersect {"TRY_LOAD_BACKUP", "INCOMPLETE"} # {}
\* A slip: after a backup that did not load, nothing is left to be tried.
OriginalOrBackupWasTried(d) ==
    entry[d].state \intersect {"TRY_LOAD_ORIGINAL", "INCOMPLETE"} # {}

OriginalWasTried(d) == "TRY_LOAD_ORIGINAL" \in entry[d].state

\* implts_openDocs: this entry is done with.
SkipEntry(d) ==
    /\ Visits({"recovery"}, d)
    /\ \/ /\ entry[d].state \intersect {"HANDLED", "DAMAGED"} # {}
          /\ UNCHANGED entry
       \/ /\ entry[d].state \intersect {"HANDLED", "DAMAGED"} = {}
          /\ BackupWasTried(d) /\ OriginalWasTried(d)
          /\ entry' = [entry EXCEPT ![d].state = @ \union {"DAMAGED"}]
    /\ at' = at + 1
    /\ UNCHANGED <<docVars, m_lDocCache, timerVars, job, phase, copy, suggested, dangerous,
                   config, files, duty, limits>>

\* The backup is tried first, then the document's own file, or for an untitled
\* one an empty document.
BeginLoad(d) ==
    /\ Visits({"recovery"}, d)
    /\ entry[d].state \intersect {"HANDLED", "DAMAGED"} = {}
    /\ ~(BackupWasTried(d) /\ OriginalWasTried(d))
    /\ LET fromBackup == ~BackupWasTried(d) /\ entry[d].old # NoTemp
           info == [entry[d] EXCEPT !.state = @
                       \union (IF BackupWasTried(d) THEN {"INCOMPLETE"} ELSE {})
                       \union {IF fromBackup THEN "TRY_LOAD_BACKUP" ELSE "TRY_LOAD_ORIGINAL"}]
       IN  /\ entry' = [entry EXCEPT ![d] = info]
           /\ Flush(d, info)
           /\ phase' = IF fromBackup THEN "backup" ELSE "load"
    /\ UNCHANGED <<docVars, m_lDocCache, timerVars, job, at, copy, suggested, dangerous,
                   files, duty, limits>>

Loading == Order[at]
Content(d) ==
    IF phase = "backup" THEN files[d][entry[d].old]
    ELSE IF entry[d].org THEN original[d]
    ELSE IF "MODIFIED" \in entry[d].state THEN None ELSE 0

\* implts_openOneDoc succeeds.
Loads ==
    /\ phase \in {"backup", "load"}
    /\ LET d == Loading
           info == [entry[d] EXCEPT !.loaded = TRUE,
                       !.state = (@ \ {"TRY_LOAD_BACKUP", "TRY_LOAD_ORIGINAL"})
                                    \union {"HANDLED"}]
           mark == IF "MODIFIED" \in entry[d].state THEN {d} ELSE {}
       IN  /\ Content(d) # None
           /\ open' = open \union {d}
           /\ version' = [version EXCEPT ![d] = Content(d)]
           /\ modified' = modified \union mark
           /\ unsaved' = unsaved \union mark
           /\ entry' = [entry EXCEPT ![d] = info]
           /\ Flush(d, info)
    /\ phase' = "visit" /\ at' = at + 1
    /\ UNCHANGED <<saving, original, m_lDocCache, timerVars, job, copy, suggested, dangerous,
                   files, duty, limits>>

\* It fails: the item leaves the configuration, the backup is not tried again.
FailsToLoad ==
    /\ phase \in {"backup", "load"}
    /\ LET d == Loading
           state == entry[d].state \ {"TRY_LOAD_BACKUP", "TRY_LOAD_ORIGINAL"}
       IN  /\ \/ Content(d) = None /\ UNCHANGED <<failures, due>>
              \/ /\ Content(d) # None
                 /\ failures < scenario.maxFailures /\ failures' = failures + 1
                 /\ due' = [due EXCEPT ![d] =
                               IF phase = "backup" /\ entry[d].org THEN original[d] ELSE None]
           /\ entry' = [entry EXCEPT ![d].state = state \union
                           IF phase = "backup" THEN {"INCOMPLETE"} ELSE {"HANDLED", "DAMAGED"}]
           /\ suggested' = IF phase = "backup" THEN "again" ELSE suggested
           /\ FlushRemove(d)
    /\ phase' = "visit" /\ at' = at + 1
    /\ UNCHANGED <<docVars, m_lDocCache, timerVars, job, copy, dangerous, files,
                   skipped, scenario, crashes>>

RecoveryTurns ==
    /\ AtEnd("recovery") /\ suggested = "again"
    /\ StartPass("recovery")
    /\ UNCHANGED <<docVars, m_lDocCache, entry, timerVars, config, files, duty, limits>>

\* implts_doRecovery after the loop, and the end of implts_dispatch.
RecoveryEnds ==
    /\ AtEnd("recovery") /\ suggested # "again"
    /\ ResetHandleStates
    /\ EndPass("none")
    /\ StartTimer(m_eTimerType)
    /\ due' = [d \in Docs |-> None]
    /\ UNCHANGED <<docVars, m_lDocCache, enabled, m_eTimerType, files, skipped,
                   limits>>
-----------------------------------------------------------------------------
Init ==
    /\ open = {} /\ modified = {} /\ unsaved = {} /\ saving = {}
    /\ version = [d \in Docs |-> 0]
    /\ original = [d \in Docs |-> IF d \in Untitled THEN None ELSE 0]
    /\ m_lDocCache = <<>> /\ entry = [d \in Docs |-> NoEntry]
    /\ enabled = TRUE
    /\ m_eTimerType = "normal" /\ timer = "on"
    /\ job = "none" /\ at = 0 /\ phase = "visit" /\ copy = NoCopy
    /\ suggested = "normal" /\ dangerous = <<>>
    /\ config = [d \in Docs |-> NoItem]
    /\ files = [d \in Docs |-> [t \in Temps |-> None]]
    /\ due = [d \in Docs |-> None] /\ skipped = {}
    /\ scenario \in Scenarios /\ failures = 0 /\ crashes = 0

User ==
    \/ \E d \in Docs : \/ Open(d) \/ Modify(d) \/ SaveBegins(d) \/ SaveEnds(d)
                       \/ SaveFails(d) \/ Close(d) \/ CleanUpEntry(d)
    \/ \E on \in BOOLEAN : ChangeAutoSave(on)

Steps ==
    \/ \E d \in Docs : SkipEntry(d) \/ BeginLoad(d)
    \/ \E d \in Docs, isActive \in BOOLEAN :
          \/ Skip(d, isActive)
          \/ \E userAutoSave \in BOOLEAN : BeginSave(d, isActive, userAutoSave)
    \/ StoreOriginal \/ StoreRecovery \/ RemoveOld \/ PassEnds
    \/ EmergencyTurns \/ EmergencyEnds
    \/ Loads \/ FailsToLoad \/ RecoveryTurns \/ RecoveryEnds

Faults ==
    \/ \E d \in Docs : RefusesToSave(d)
    \/ Breaks \/ EmergencySave \/ EmergencyBreaks \/ Crash \/ Restart

\* The bounded user has stopped and nothing is left to do.
Done ==
    /\ job = "none" /\ timer # "on" /\ crashes = scenario.maxCrashes
    /\ UNCHANGED vars

Next ==
    \/ User
    \/ \E captured, idle \in BOOLEAN : TimerExpires(captured, idle)
    \/ Steps
    \/ Faults
    \/ Done

Spec == Init /\ [][Next]_vars

\* The main loop goes on: the timer's event is handled once the user pauses, and
\* a pass is not left in the middle.  Each of these steps moves the pass on.
Fairness == WF_passVars(TimerExpires(FALSE, TRUE) \/ Steps \/ Breaks)

LiveSpec == Spec /\ Fairness
-----------------------------------------------------------------------------
Versions == None..MaxVersion
TypeOK ==
    /\ open \subseteq Docs /\ modified \subseteq open /\ unsaved \subseteq open
    /\ saving \subseteq open
    /\ version \in [Docs -> 0..MaxVersion] /\ original \in [Docs -> Versions]
    /\ Cached \subseteq Docs /\ Cardinality(Cached) = Len(m_lDocCache)
    /\ entry \in [Docs -> [state : SUBSET Flags, used : BOOLEAN, old : Temps \union {NoTemp},
                           org : BOOLEAN, loaded : BOOLEAN]]
    /\ enabled \in BOOLEAN /\ timer \in {"on", "off", "lost"}
    /\ m_eTimerType \in {"dont", "normal", "idle", "allowed"}
    /\ job \in {"none", "pass", "emergency", "recovery", "saved", "down"}
    /\ at \in 0..Len(Order) + 1
    /\ phase \in {"visit", "original", "store", "remove", "backup", "load"}
    /\ suggested \in {"dont", "normal", "idle", "allowed", "again"}
    /\ copy.doc \in Docs \union {NoDoc} /\ copy.new \in Temps \union {NoTemp}
    /\ config \in [Docs -> [present : BOOLEAN, state : SUBSET Flags, temp : Temps \union {NoTemp},
                            org : BOOLEAN]]
    /\ files \in [Docs -> [Temps -> Versions]]
    /\ due \in [Docs -> Versions] /\ skipped \subseteq Docs
    /\ scenario \in Scenarios /\ failures \in 0..scenario.maxFailures /\ crashes \in 0..scenario.maxCrashes
    /\ \A d \in Cached : entry[d].loaded /\ d \in open => config[d].present

\* What a crash would leave of a document never becomes older, but by a save
\* that found the disk full, or by the emergency save that interrupts a pass where
\* a new backup is written down but not yet in the cache: an old backup goes only
\* when a newer one, or the document's own file, is written down.  A document that
\* was saved under its first name is excepted, since its entry does not learn the
\* name (implts_saveOneDoc, implts_markDocumentAsSaved, implts_resetHandleStates).
Safe(d) == d \in open /\ config[d].present /\ d \in Cached /\ entry[d].org = Titled(d)
BackupsSurvive ==
    [][\A d \in Docs : Safe(d) /\ Safe(d)'
                         /\ Recoverable(d)' < Recoverable(d) /\ Recoverable(d)' < version[d]
                         => /\ copy.doc = d
                            /\ \/ phase = "store" /\ "INCOMPLETE" \in config'[d].state
                               \/ phase = "remove" /\ job' = "emergency"]_vars

\* A recovery opens each document with nothing older than what was to be brought
\* back when the office ended last (Owed, implts_openDocs, implts_doRecovery): the
\* backup that its item names, or the document's own file when there is none.
\* Nothing is promised of an item marked as handled or damaged, which a recovery
\* passes over, and no backup that is marked as incomplete or was being loaded
\* when a recovery crashed: only the document's own file.  A load that fails
\* during the recovery leaves the same, or nothing if it was the last that could
\* be tried (FailsToLoad).  And a document with unsaved changes is open as
\* modified, so that closing it asks.
RecoveryBringsBack ==
    /\ [][RecoveryEnds => \A d \in Docs : due[d] # None => d \in open /\ version[d] >= due[d]]_vars
    /\ [](\A d \in open : version[d] > Base(d) => d \in modified)

\* When the emergency save has come to its end, the next start will bring back
\* every open document as it is now: also those the user was saving, the active
\* one that was postponed and those that were never registered
\* (implts_doEmergencySave).  Excepted are the documents that an interrupted pass
\* had handled or that the application refuses to save; those whose backup is
\* marked as incomplete, also by a store that failed in this very emergency save;
\* those saved under their first name, whose entry does not know the file; and
\* new ones that were never changed.  Nothing is said of an emergency save that an
\* exception ends before (EmergencyBreaks, Breaks).
EmergencySavesAll ==
    job = "saved" =>
        \A d \in open : \/ Owed(d) = version[d]
                         \/ d \in skipped \/ "INCOMPLETE" \in entry[d].state
                         \/ entry[d].org # Titled(d)
                         \/ (~entry[d].org /\ version[d] = 0)

\* A modified document is handled by a pass or saved, or the user begins to save
\* it, as long as auto-save is on and no exception has stopped the timer, however
\* often a pass is postponed for the user or for a save, and whatever documents
\* come and go (implts_timerExpired, implts_saveDocs).
HandledInTime ==
    \A d \in Docs :
        d \in unsaved /\ d \in Cached
            ~> \/ "HANDLED" \in entry[d].state \/ d \notin unsaved \/ d \in saving
               \/ ~enabled \/ timer = "lost" \/ job \in {"emergency", "recovery", "saved", "down"}

\* An emergency save leaves no document marked as handled, whether it ends or is
\* given up, for the next recovery would not bring that one back: "Of course
\* following recovery session must be started without any handle state"
\* (implts_doEmergencySave, implts_openDocs).
StartsUnhandled ==
    [][(job = "emergency" \/ job = "saved") /\ job' = "down"
          => \A d \in Docs : "HANDLED" \notin config'[d].state]_vars
=============================================================================
