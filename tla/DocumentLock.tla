---------------------------- MODULE DocumentLock ----------------------------
(***************************************************************************)
(* The lock on one document between offices: SfxMedium in                  *)
(* sfx2/source/doc/docfile.cxx, which asks for it and gives it up, the lock*)
(* file beside the document, svl/source/misc/documentlockfile.cxx, and the *)
(* operations of a document that need it.  An office is a process with a   *)
(* user installation of its own; it has the document open once, because    *)
(* LoadEnv::impl_searchAlreadyLoaded finds it.  One access to the lock file*)
(* is one action: between two of them any other office may act.            *)
(***************************************************************************)
EXTENDS Naturals

CONSTANTS Offices,
          UserOf,     \* the system user name of each office
          NoFile,     \* there is no lock file; no entry could be read
          Blank,      \* a lock file without a whole entry
          Configs,    \* settings to check
          MayFail,    \* whether an access to the lock file may throw
          MaxOps      \* bound: operations all offices start

ASSUME OfficesAssumption ==
    /\ NoFile \notin Offices /\ Blank \notin Offices /\ NoFile # Blank
    /\ Configs \subseteq [local : BOOLEAN, system : BOOLEAN, lockFiles : BOOLEAN]
    /\ MayFail \in BOOLEAN /\ MaxOps \in Nat

VARIABLES
    config,   \* local: the document is; system, lockFiles: UseDocumentSystemFileLocking,
              \* UseDocumentOOoLockFile
    file,     \* the lock file: NoFile, Blank, or the office its entry names
    writers,  \* the offices that have this very lock file open for writing
    osLock,   \* the office that has the system's lock on the document, or NoFile
    doc,      \* the document in each office
    locked,   \* m_bLocked of its medium
    op,       \* the operation each office last started
    pc,       \* where in it the office is
    data,     \* aData, the entry each office shows in its dialog
    bare,     \* history: the offices that removed the lock file of a lock they kept
    mishaps,  \* history: what happened that the lock does not protect from
    ops       \* operations started

medium == <<doc, locked>>
vars == <<config, file, writers, osLock, medium, op, pc, data, bare, mishaps, ops>>

UseSystemLock == config.local /\ config.system
Loading(o) == op[o] \in {"load", "resume", "undo"}
SameUser(o) == data[o] # NoFile /\ UserOf[data[o]] = UserOf[o]
Mishap(m) == mishaps' = mishaps \cup {m}
Goto(o, place) == pc' = [pc EXCEPT ![o] = place]
SetDoc(o, state) == doc' = [doc EXCEPT ![o] = state]
\* Where an office goes from a loading that is done: after "undo" the medium that
\* stored is deleted, and closing it removes its lock file.
Loaded(o) == Goto(o, IF op[o] = "undo" /\ ~config.system THEN "check" ELSE "idle")

TypeOK ==
    /\ config \in Configs
    /\ file \in Offices \cup {NoFile, Blank} /\ writers \subseteq Offices
    /\ osLock \in Offices \cup {NoFile}
    /\ doc \in [Offices -> {"none", "editing", "readonly"}] /\ locked \in [Offices -> BOOLEAN]
    /\ op \in [Offices -> {"none", "load", "saveAs", "save", "resume", "undo", "edit", "freeze",
                           "close", "emergency"}]
    /\ pc \in [Offices -> {"idle", "unlock", "check", "delete", "start", "create", "ask", "read",
                           "dialog", "take", "takeWrite", "claim", "claimWrite", "stored"}]
    /\ data \in [Offices -> Offices \cup {NoFile}]
    /\ bare \subseteq Offices
    /\ mishaps \subseteq {"crash", "failed", "ignored", "takeover", "unchecked"}
    /\ ops \in 0..MaxOps

Init ==
    /\ config \in Configs
    /\ file = NoFile /\ writers = {} /\ osLock = NoFile
    /\ doc = [o \in Offices |-> "none"] /\ locked = [o \in Offices |-> FALSE]
    /\ op = [o \in Offices |-> "none"] /\ pc = [o \in Offices |-> "idle"]
    /\ data = [o \in Offices |-> NoFile]
    /\ bare = {} /\ mishaps = {} /\ ops = 0

(***************************************************************************)
(* Operations of a document                                                *)
(***************************************************************************)

Begin(o, operation, place) ==
    /\ pc[o] = "idle" /\ ops < MaxOps
    /\ ops' = ops + 1 /\ op' = [op EXCEPT ![o] = operation] /\ Goto(o, place)
    /\ UNCHANGED <<config, file, writers, osLock, medium, data, bare, mishaps>>

\* LoadFile ends in LockOrigFileOnDemand(true, false).  A document opened as a
\* copy or for reading asks for no lock.
Load(o) == doc[o] = "none" /\ Begin(o, "load", "start")
\* SaveTo_Impl with another document's file as its target.
SaveAs(o) == doc[o] = "none" /\ Begin(o, "saveAs", "start")
\* SaveTo_Impl into the document's own file: its medium is closed, which gives
\* the lock up, before the medium that stores asks for it.
Save(o) == doc[o] = "editing" /\ Begin(o, "save", "unlock")
\* "Edit file" without a reload.
Edit(o) == doc[o] = "readonly" /\ Begin(o, "edit", "unlock")
SetReadOnly(o) == doc[o] = "editing" /\ Begin(o, "freeze", "unlock")
Close(o) == doc[o] # "none" /\ Begin(o, "close", "unlock")

(***************************************************************************)
(* How LockOrigFileOnDemand ends, and what its caller does then            *)
(***************************************************************************)

Granted(o) ==
    /\ locked' = [locked EXCEPT ![o] = TRUE] /\ SetDoc(o, "editing")
    /\ IF Loading(o) THEN Loaded(o) ELSE Goto(o, "stored")
    /\ UNCHANGED op

\* An error of the medium: the load or the storing fails.  After a failed save
\* DoSaveCompleted(0) asks for the lock of the old medium, as loading does.
Failed(o) ==
    /\ op' = [op EXCEPT ![o] = IF @ = "save" THEN "resume" ELSE @]
    /\ IF op[o] = "save" THEN Goto(o, "start") ELSE Loaded(o)
    /\ UNCHANGED medium

\* No lock: a loaded document is read only; to store is an error, and to load
\* when "the document has been opened for editing explicitly".
Refused(o) ==
    \/ Loading(o) /\ SetDoc(o, "readonly") /\ Loaded(o) /\ UNCHANGED <<locked, op>>
    \/ Failed(o)

\* SID_TEMPLATE: what is loaded is a copy, and a document that is open already
\* has become read only.
Copied(o) ==
    /\ SetDoc(o, IF op[o] = "load" THEN "none" ELSE "readonly") /\ Loaded(o)
    /\ UNCHANGED <<locked, op>>

Proceed(o, place) == Goto(o, place) /\ UNCHANGED <<medium, op>>

(***************************************************************************)
(* SfxMedium::LockOrigFileOnDemand                                         *)
(***************************************************************************)

\* GetLockingStream_Impl opens a local document for writing, with the system's
\* lock when that is used.  "This implementation does not allow to detect the
\* system lock on saving".
Start(o) ==
    /\ pc[o] = "start"
    /\ IF ~UseSystemLock THEN Proceed(o, "create") /\ UNCHANGED <<osLock, mishaps>>
       ELSE \/ /\ ~Loading(o) /\ Granted(o) /\ Mishap("unchecked") /\ UNCHANGED osLock
            \/ /\ Loading(o) /\ osLock \in {NoFile, o} /\ osLock' = o
               /\ Granted(o) /\ UNCHANGED mishaps
            \/ /\ Loading(o) /\ osLock \notin {NoFile, o} /\ Refused(o)
               /\ UNCHANGED <<osLock, mishaps>>
    /\ UNCHANGED <<config, file, writers, data, bare, ops>>

\* A slip: the insertion replaces an existing file.
CreateReplacing(o) ==
    /\ pc[o] = "create" /\ file' = o /\ Granted(o)
    /\ UNCHANGED <<config, writers, osLock, data, mishaps, bare, ops>>

\* CreateOwnLockFile: the file is inserted unless there is one.  An error is
\* ignored when lock files are not used, and one of its kinds is asked about.
CreateOwnLockFile(o) ==
    /\ pc[o] = "create"
    /\ \/ file = NoFile /\ file' = o /\ Granted(o) /\ UNCHANGED mishaps
       \/ /\ file # NoFile /\ Proceed(o, IF config.lockFiles THEN "read" ELSE "take")
          /\ UNCHANGED <<file, mishaps>>
       \/ /\ MayFail /\ Mishap("failed") /\ UNCHANGED file
          /\ \/ config.lockFiles /\ \E place \in {"read", "ask"} : Proceed(o, place)
             \/ ~config.lockFiles /\ Proceed(o, "take")
    /\ UNCHANGED <<config, writers, osLock, data, bare, ops>>

\* LockFileIgnoreRequest: edit without any lock?
AnswerIgnore(o) ==
    /\ pc[o] = "ask"
    /\ \/ Granted(o) /\ Mishap("ignored")
       \/ Proceed(o, "read") /\ UNCHANGED mishaps
    /\ UNCHANGED <<config, file, writers, osLock, data, bare, ops>>

\* A slip: a lock file without a whole entry is shown all the same.
ReadBlank(o) ==
    /\ pc[o] = "read" /\ Proceed(o, "dialog") /\ data' = [data EXCEPT ![o] = file]
    /\ UNCHANGED <<config, file, writers, osLock, mishaps, bare, ops>>

\* GetLockData; an entry of this installation "could remain because of crash".
\* A toggle to edit mode shows no dialog.
ReadLockData(o) ==
    /\ pc[o] = "read"
    /\ \E entry \in {NoFile, file} \ {Blank} :
         /\ \/ entry = file /\ UNCHANGED mishaps
            \/ entry = NoFile /\ file = Blank /\ UNCHANGED mishaps
            \/ entry = NoFile /\ MayFail /\ Mishap("failed")
         /\ \/ entry = o /\ Granted(o) /\ UNCHANGED data
            \/ entry # o /\ op[o] = "edit" /\ Refused(o) /\ UNCHANGED data
            \/ entry # o /\ op[o] # "edit" /\ Proceed(o, "dialog") /\ data' = [data EXCEPT ![o] = entry]
    /\ UNCHANGED <<config, file, writers, osLock, bare, ops>>

\* ShowLockedDocumentDialog, without and with somebody to answer it.
AnswerLocked(o) ==
    /\ pc[o] = "dialog"
    /\ \/ Refused(o) /\ UNCHANGED mishaps
       \/ /\ Loading(o) \/ SameUser(o)
          /\ \/ Failed(o)
             \/ ~SameUser(o) /\ Copied(o)
             \/ ~Loading(o) /\ Proceed(o, "create")
          /\ UNCHANGED mishaps
       \/ SameUser(o) /\ Proceed(o, "claim") /\ Mishap("takeover")
    /\ data' = [data EXCEPT ![o] = NoFile]
    /\ UNCHANGED <<config, file, writers, osLock, bare, ops>>

\* OverwriteOwnLockFile cannot write: it returns false, which matters only if
\* the user had to be asked.
NotOverwritten(o) == IF pc[o] \in {"take", "takeWrite"} THEN Granted(o) ELSE Refused(o)

\* OverwriteOwnLockFile opens and truncates what is there ...
Truncate(o) ==
    /\ pc[o] \in {"take", "claim"}
    /\ \/ /\ file # NoFile /\ file' = Blank /\ writers' = writers \cup {o}
          /\ Proceed(o, IF pc[o] = "take" THEN "takeWrite" ELSE "claimWrite")
          /\ UNCHANGED mishaps
       \/ file = NoFile /\ NotOverwritten(o) /\ UNCHANGED <<file, writers, mishaps>>
       \/ MayFail /\ NotOverwritten(o) /\ Mishap("failed") /\ UNCHANGED <<file, writers>>
    /\ UNCHANGED <<config, osLock, data, bare, ops>>

\* ... and then writes, which changes nothing any more if the file was deleted.
WriteEntry(o) ==
    /\ pc[o] \in {"takeWrite", "claimWrite"}
    /\ writers' = writers \ {o}
    /\ \/ /\ file' = IF o \in writers THEN o ELSE file
          /\ Granted(o) /\ UNCHANGED mishaps
       \/ MayFail /\ NotOverwritten(o) /\ Mishap("failed") /\ UNCHANGED file
    /\ UNCHANGED <<config, osLock, data, bare, ops>>

\* The document is stored; DoSaveCompleted opens the locking stream again.
SaveCompleted(o) ==
    /\ pc[o] = "stored" /\ Proceed(o, "idle")
    /\ osLock' = IF UseSystemLock /\ osLock = NoFile THEN o ELSE osLock
    /\ UNCHANGED <<config, file, writers, data, mishaps, bare, ops>>

\* Storing fails.  Before the lock was asked for that is as if it was refused.
\* After, the medium that stored still has the lock when DoSaveCompleted(0) asks
\* for it again for the old medium, and only then is it deleted; the medium of a
\* document's new file is deleted with nothing but its own lock.
SaveFails(o) ==
    /\ op[o] \in {"save", "saveAs"}
    /\ \/ pc[o] = "start" /\ Failed(o)
       \/ /\ pc[o] = "stored" /\ op[o] = "save"
          /\ op' = [op EXCEPT ![o] = "undo"] /\ Goto(o, "start")
          /\ locked' = [locked EXCEPT ![o] = FALSE] /\ UNCHANGED doc
       \/ /\ pc[o] = "stored" /\ op[o] = "saveAs"
          /\ op' = [op EXCEPT ![o] = "close"] /\ Goto(o, "unlock") /\ UNCHANGED medium
    /\ UNCHANGED <<config, file, writers, osLock, data, mishaps, bare, ops>>

(***************************************************************************)
(* SfxMedium::UnlockFile and DocumentLockFile::RemoveFile                  *)
(***************************************************************************)

\* What the operation does without the lock.
Unlocked(o) ==
    \/ op[o] \in {"save", "edit"} /\ Goto(o, "start") /\ UNCHANGED doc
    \/ op[o] = "freeze" /\ Goto(o, "idle") /\ SetDoc(o, "readonly")
    \/ op[o] = "undo" /\ Goto(o, "idle") /\ UNCHANGED doc
    \/ op[o] \in {"close", "emergency"} /\ Goto(o, "idle") /\ SetDoc(o, "none")

\* The lock file is left alone where system locking is set, also if it was
\* created because the document is not local.
UnlockFile(o) ==
    /\ pc[o] = "unlock"
    /\ osLock' = IF osLock = o THEN NoFile ELSE osLock
    /\ locked' = [locked EXCEPT ![o] = FALSE]
    /\ IF locked[o] /\ ~config.system THEN Goto(o, "check") /\ UNCHANGED doc ELSE Unlocked(o)
    /\ bare' = bare \ {o}
    /\ UNCHANGED <<config, file, writers, op, data, mishaps, ops>>

\* A slip: the owner is not compared.
CheckNobody(o) ==
    /\ pc[o] = "check" /\ Goto(o, "delete")
    /\ UNCHANGED <<config, file, writers, osLock, medium, op, data, mishaps, bare, ops>>

\* "not the owner, access denied": RemoveFile throws, and UnlockFile goes on.
CheckOwner(o) ==
    /\ pc[o] = "check"
    /\ \/ file = o /\ Goto(o, "delete") /\ UNCHANGED <<doc, mishaps>>
       \/ file # o /\ Unlocked(o) /\ UNCHANGED mishaps
       \/ MayFail /\ Unlocked(o) /\ Mishap("failed")
    /\ UNCHANGED <<config, file, writers, osLock, locked, op, data, bare, ops>>

\* "the removing is not atomic": whatever the file holds by now is deleted.
DeleteFile(o) ==
    /\ pc[o] = "delete"
    /\ \/ file' = NoFile /\ writers' = {} /\ UNCHANGED mishaps
       \/ MayFail /\ Mishap("failed") /\ UNCHANGED <<file, writers>>
    /\ Unlocked(o)
    /\ bare' = IF locked[o] THEN bare \cup {o} ELSE bare
    /\ UNCHANGED <<config, osLock, locked, op, data, ops>>

(***************************************************************************)
(* The end of an office                                                    *)
(***************************************************************************)

Ends(o) ==
    /\ locked' = [locked EXCEPT ![o] = FALSE]
    /\ osLock' = IF osLock = o THEN NoFile ELSE osLock
    /\ writers' = writers \ {o} /\ bare' = bare \ {o}
    /\ data' = [data EXCEPT ![o] = NoFile]
    /\ UNCHANGED <<config, file, ops>>

Crash(o) ==
    /\ doc[o] # "none" \/ pc[o] # "idle"
    /\ Ends(o) /\ SetDoc(o, "none") /\ Goto(o, "idle") /\ Mishap("crash") /\ UNCHANGED op

\* A slip: the office ends and leaves its lock file.
EmergencyEnd(o) ==
    /\ doc[o] # "none" /\ op[o] # "emergency"
    /\ Ends(o) /\ op' = [op EXCEPT ![o] = "emergency"] /\ Goto(o, "idle") /\ SetDoc(o, "none")
    /\ IF pc[o] = "idle" THEN UNCHANGED mishaps ELSE Mishap("crash")

\* "Currently the document is not closed in case of crash, so the lock file
\* must be removed explicitly": the office saves its documents and ends.
EmergencySave(o) ==
    /\ doc[o] # "none" /\ op[o] # "emergency"
    /\ Ends(o) /\ op' = [op EXCEPT ![o] = "emergency"] /\ Goto(o, "check") /\ UNCHANGED doc
    /\ IF pc[o] = "idle" THEN UNCHANGED mishaps ELSE Mishap("crash")

Operation(o) == Load(o) \/ SaveAs(o) \/ Save(o) \/ Edit(o) \/ SetReadOnly(o) \/ Close(o)
LockStep(o) == Start(o) \/ CreateOwnLockFile(o) \/ AnswerIgnore(o) \/ ReadLockData(o)
               \/ AnswerLocked(o) \/ Truncate(o) \/ WriteEntry(o) \/ SaveCompleted(o)
               \/ SaveFails(o)
UnlockStep(o) == UnlockFile(o) \/ CheckOwner(o) \/ DeleteFile(o)

Next == \E o \in Offices : Operation(o) \/ LockStep(o) \/ UnlockStep(o) \/ Crash(o)
                           \/ EmergencySave(o)

Spec == Init /\ [][Next]_vars

(***************************************************************************)
(* Properties                                                              *)
(***************************************************************************)

Without(excuses) == mishaps \cap excuses = {}

\* The document is locked by one office at a time, over every save that gives
\* the lock up or fails, every crash and every entry that remains, unless a user
\* takes a lock of his own over or edits without one, or the system's lock was
\* not looked at.  What else breaks it is only the failing save: an office whose
\* save failed with the lock in hand removes the lock file and keeps the lock,
\* until it gives that up.
Exclusive ==
    (config.lockFiles \/ UseSystemLock) /\ Without({"takeover", "ignored", "unchecked"})
        => \A o, p \in Offices \ bare : locked[o] /\ locked[p] => o = p

\* "not the owner, access denied": the entry of another user, also one that a
\* crash left behind, is neither overwritten nor removed; only after a
\* takeover may the file be another one than was looked at.
StrangersKeepOut ==
    [][\A o, p \in Offices :
         /\ file = o /\ file' # o /\ pc'[p] # pc[p]
         /\ config.lockFiles /\ Without({"takeover"})
         => UserOf[p] = UserOf[o]]_vars

\* When every office has closed the document no lock file is left, whoever
\* overwrote or removed it meanwhile and however the saves ended.
LeavesNothing ==
    (\A o \in Offices : doc[o] = "none" /\ pc[o] = "idle")
    /\ ~config.system /\ Without({"crash", "failed"}) => file = NoFile
=============================================================================
