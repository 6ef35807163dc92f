------------------------- MODULE DocumentLockProofs -------------------------
(***************************************************************************)
(* Theorems about DocumentLock, for every set of offices and users, every  *)
(* choice of settings and every bound.                                     *)
(***************************************************************************)
EXTENDS DocumentLock, TLAPS

Overwriting == {"take", "takeWrite", "claim", "claimWrite"}

\* Without a takeover nobody overwrites a lock file that counts, and who is
\* about to delete one deletes its own.
OwnFile ==
    config.lockFiles /\ Without({"takeover"}) =>
        /\ writers = {}
        /\ \A o \in Offices : /\ pc[o] \notin Overwriting
                              /\ pc[o] = "delete" => file = o

\* An office that removes its lock file does not count on the lock any more,
\* unless it undoes a save.
Released == \A o \in Offices : pc[o] \in {"check", "delete"} => ~locked[o] \/ op[o] = "undo"

\* With the system's lock no lock file is asked for.
SystemPath ==
    UseSystemLock => \A o \in Offices :
        pc[o] \in {"idle", "unlock", "check", "delete", "start", "stored"}

\* Who has the lock is named where the next office looks, until it has removed
\* the lock file itself.
HoldersAreNamed ==
    Without({"takeover", "ignored", "unchecked"}) =>
        \A o \in Offices \ bare :
            locked[o] => /\ UseSystemLock => osLock = o
                         /\ config.lockFiles /\ ~UseSystemLock => file = o

IInv == TypeOK /\ OwnFile /\ Released /\ SystemPath /\ HoldersAreNamed

LEMMA InitHolds == Init => IInv
BY OfficesAssumption
   DEF Init, IInv, TypeOK, OwnFile, Released, SystemPath, HoldersAreNamed, Overwriting, Without,
       medium

\* The types of where the offices are, and of the rest.
FlowTypes ==
    /\ doc \in [Offices -> {"none", "editing", "readonly"}] /\ locked \in [Offices -> BOOLEAN]
    /\ op \in [Offices -> {"none", "load", "saveAs", "save", "resume", "undo", "edit", "freeze",
                           "close", "emergency"}]
    /\ pc \in [Offices -> {"idle", "unlock", "check", "delete", "start", "create", "ask", "read",
                           "dialog", "take", "takeWrite", "claim", "claimWrite", "stored"}]
OtherTypes ==
    /\ config \in Configs
    /\ file \in Offices \cup {NoFile, Blank} /\ writers \subseteq Offices
    /\ osLock \in Offices \cup {NoFile}
    /\ data \in [Offices -> Offices \cup {NoFile}]
    /\ bare \subseteq Offices
    /\ mishaps \subseteq {"crash", "failed", "ignored", "takeover", "unchecked"}
    /\ ops \in 0..MaxOps

LEMMA TypesSplit == TypeOK <=> FlowTypes /\ OtherTypes
BY DEF TypeOK, FlowTypes, OtherTypes

\* Every step keeps the types.
LEMMA TypeKept == TypeOK /\ [Next]_vars => TypeOK'
<1> SUFFICES ASSUME TypeOK, [Next]_vars PROVE TypeOK'
  OBVIOUS
<1> USE OfficesAssumption
<1>0. FlowTypes /\ OtherTypes
  BY TypesSplit
<1>1. ASSUME NEW o \in Offices, Operation(o) PROVE TypeOK'
  <2>1. \E operation \in {"load", "saveAs", "save", "edit", "freeze", "close"},
           place \in {"start", "unlock"} : Begin(o, operation, place)
    BY <1>1 DEF Operation, Load, SaveAs, Save, Edit, SetReadOnly, Close
  <2> QED BY <2>1 DEF Begin, TypeOK, Goto, medium
<1>2. ASSUME NEW o \in Offices, Start(o) PROVE TypeOK'
  <2>1. FlowTypes'
    BY <1>0, <1>2 DEF Start, Granted, Refused, Failed, Proceed, Loading, Loaded, Goto, SetDoc, FlowTypes,
                      medium
  <2>2. OtherTypes'
    BY <1>0, <1>2 DEF Start, OtherTypes, Mishap
  <2> QED BY <2>1, <2>2 DEF TypeOK, FlowTypes, OtherTypes
<1>3. ASSUME NEW o \in Offices, CreateOwnLockFile(o) PROVE TypeOK'
  <2>1. FlowTypes'
    BY <1>0, <1>3, ZenonT(40) DEF CreateOwnLockFile, Granted, Proceed, Loading, Loaded, Goto, SetDoc, FlowTypes, medium
  <2>2. OtherTypes'
    BY <1>0, <1>3 DEF CreateOwnLockFile, OtherTypes, Mishap
  <2> QED BY <2>1, <2>2 DEF TypeOK, FlowTypes, OtherTypes
<1>4. ASSUME NEW o \in Offices, AnswerIgnore(o) PROVE TypeOK'
  <2>1. FlowTypes'
    BY <1>0, <1>4 DEF AnswerIgnore, Granted, Proceed, Loading, Loaded, Goto, SetDoc, FlowTypes, medium
  <2>2. OtherTypes'
    BY <1>0, <1>4 DEF AnswerIgnore, OtherTypes, Mishap
  <2> QED BY <2>1, <2>2 DEF TypeOK, FlowTypes, OtherTypes
<1>5. ASSUME NEW o \in Offices, ReadLockData(o) PROVE TypeOK'
  <2>1. FlowTypes'
    BY <1>0, <1>5 DEF ReadLockData, Granted, Refused, Failed, Proceed, Loading, Loaded, Goto, SetDoc,
                      FlowTypes, medium
  <2>2. PICK entry \in {NoFile, file} \ {Blank} :
           /\ mishaps' \in {mishaps, mishaps \cup {"failed"}}
           /\ data' \in {data, [data EXCEPT ![o] = entry]}
    BY <1>5 DEF ReadLockData, Mishap
  <2>3. data' \in [Offices -> Offices \cup {NoFile}]
    BY <1>0, <2>2 DEF OtherTypes
  <2>4. OtherTypes'
    BY <1>0, <1>5, <2>2, <2>3 DEF ReadLockData, OtherTypes
  <2> QED BY <2>1, <2>4 DEF TypeOK, FlowTypes, OtherTypes
<1>6. ASSUME NEW o \in Offices, AnswerLocked(o) PROVE TypeOK'
  <2>1. FlowTypes'
    BY <1>0, <1>6 DEF AnswerLocked, Refused, Failed, Copied, Proceed, Loading, Loaded, Goto, SetDoc, FlowTypes, medium
  <2>2. OtherTypes'
    BY <1>0, <1>6 DEF AnswerLocked, OtherTypes, Mishap
  <2> QED BY <2>1, <2>2 DEF TypeOK, FlowTypes, OtherTypes
<1>7. ASSUME NEW o \in Offices, Truncate(o) PROVE TypeOK'
  <2>1. FlowTypes'
    BY <1>0, <1>7 DEF Truncate, NotOverwritten, Granted, Refused, Failed, Proceed, Loading, Loaded, Goto, SetDoc, FlowTypes, medium
  <2>2. OtherTypes'
    BY <1>0, <1>7 DEF Truncate, OtherTypes, Mishap
  <2> QED BY <2>1, <2>2 DEF TypeOK, FlowTypes, OtherTypes
<1>8. ASSUME NEW o \in Offices, WriteEntry(o) PROVE TypeOK'
  <2>1. FlowTypes'
    BY <1>0, <1>8 DEF WriteEntry, NotOverwritten, Granted, Refused, Failed, Loading, Loaded, Goto, SetDoc, FlowTypes, medium
  <2>2. OtherTypes'
    BY <1>0, <1>8 DEF WriteEntry, OtherTypes, Mishap
  <2> QED BY <2>1, <2>2 DEF TypeOK, FlowTypes, OtherTypes
<1>9. ASSUME NEW o \in Offices, SaveCompleted(o) PROVE TypeOK'
  BY <1>9 DEF SaveCompleted, Proceed, Goto, UseSystemLock, TypeOK, medium
<1>10. ASSUME NEW o \in Offices, UnlockFile(o) PROVE TypeOK'
  <2>1. FlowTypes'
    BY <1>0, <1>10 DEF UnlockFile, Unlocked, Goto, SetDoc, FlowTypes, medium
  <2>2. OtherTypes'
    BY <1>0, <1>10 DEF UnlockFile, OtherTypes, Mishap
  <2> QED BY <2>1, <2>2 DEF TypeOK, FlowTypes, OtherTypes
<1>11. ASSUME NEW o \in Offices, CheckOwner(o) PROVE TypeOK'
  <2>1. FlowTypes'
    BY <1>0, <1>11 DEF CheckOwner, Unlocked, Goto, SetDoc, FlowTypes, medium
  <2>2. OtherTypes'
    BY <1>0, <1>11 DEF CheckOwner, OtherTypes, Mishap
  <2> QED BY <2>1, <2>2 DEF TypeOK, FlowTypes, OtherTypes
<1>12. ASSUME NEW o \in Offices, DeleteFile(o) PROVE TypeOK'
  <2>1. FlowTypes'
    BY <1>0, <1>12 DEF DeleteFile, Unlocked, Goto, SetDoc, FlowTypes
  <2>2. OtherTypes'
    BY <1>0, <1>12 DEF DeleteFile, OtherTypes, Mishap
  <2> QED BY <2>1, <2>2 DEF TypeOK, FlowTypes, OtherTypes
<1>13. ASSUME NEW o \in Offices, Crash(o) PROVE TypeOK'
  <2>1. FlowTypes'
    BY <1>0, <1>13 DEF Crash, Ends, Goto, SetDoc, FlowTypes, medium
  <2>2. OtherTypes'
    BY <1>0, <1>13 DEF Crash, Ends, OtherTypes, Mishap
  <2> QED BY <2>1, <2>2 DEF TypeOK, FlowTypes, OtherTypes
<1>14. ASSUME NEW o \in Offices, EmergencySave(o) PROVE TypeOK'
  <2>1. FlowTypes'
    BY <1>0, <1>14 DEF EmergencySave, Ends, Goto, FlowTypes, medium
  <2>2. OtherTypes'
    BY <1>0, <1>14 DEF EmergencySave, Ends, OtherTypes, Mishap
  <2> QED BY <2>1, <2>2 DEF TypeOK, FlowTypes, OtherTypes
<1>15. ASSUME NEW o \in Offices, SaveFails(o) PROVE TypeOK'
  <2>1. FlowTypes'
    BY <1>0, <1>15 DEF SaveFails, Failed, Loaded, Goto, FlowTypes, medium
  <2>2. OtherTypes'
    BY <1>0, <1>15 DEF SaveFails, OtherTypes
  <2> QED BY <2>1, <2>2 DEF TypeOK, FlowTypes, OtherTypes
<1>16. CASE UNCHANGED vars
  BY <1>16 DEF TypeOK, vars, medium
<1> QED
  BY <1>1, <1>2, <1>3, <1>4, <1>5, <1>6, <1>7, <1>8, <1>9, <1>10, <1>11, <1>12, <1>13, <1>14, <1>15, <1>16 DEF Next, LockStep, UnlockStep

\* Every step keeps what the four parts say.
LEMMA PartsKept ==
    ASSUME IInv, [Next]_vars
    PROVE  OwnFile' /\ Released' /\ SystemPath' /\ HoldersAreNamed'
<1> USE OfficesAssumption
<1> DEFINE Parts == OwnFile /\ Released /\ SystemPath /\ HoldersAreNamed
<1>1. ASSUME NEW o \in Offices, Operation(o) PROVE Parts'
  <2>1. \E operation \in {"load", "saveAs", "save", "edit", "freeze", "close"},
           place \in {"start", "unlock"} : Begin(o, operation, place)
    BY <1>1 DEF Operation, Load, SaveAs, Save, Edit, SetReadOnly, Close
  <2>2. OwnFile' /\ Released'
    BY <2>1 DEF Begin, IInv, TypeOK, OwnFile, Released, Overwriting, Without, Goto, medium
  <2>3. SystemPath' /\ HoldersAreNamed'
    BY <2>1 DEF Begin, IInv, TypeOK, SystemPath, HoldersAreNamed, UseSystemLock, Without, Goto,
                medium
  <2> QED BY <2>2, <2>3
<1>2. ASSUME NEW o \in Offices, Start(o) PROVE Parts'
  <2>1. OwnFile'
    BY <1>2 DEF Start, Granted, Refused, Failed, Proceed, Loading, Loaded, Mishap, Goto, SetDoc, IInv, TypeOK, OwnFile, Overwriting, Without, medium
  <2>2. Released'
    BY <1>2 DEF Start, Granted, Refused, Failed, Proceed, Loading, Loaded, Mishap, Goto, SetDoc, IInv, TypeOK, Released, medium
  <2>3. SystemPath'
    BY <1>2 DEF Start, Granted, Refused, Failed, Proceed, Loading, Loaded, Mishap, Goto, SetDoc, IInv, TypeOK, SystemPath, UseSystemLock, medium
  <2>4. HoldersAreNamed'
    BY <1>2 DEF Start, Granted, Refused, Failed, Proceed, Loading, Loaded, Mishap, Goto, SetDoc, IInv, TypeOK, HoldersAreNamed, UseSystemLock, Without, OwnFile, Released, SystemPath, Overwriting, medium
  <2> QED BY <2>1, <2>2, <2>3, <2>4
<1>3. ASSUME NEW o \in Offices, CreateOwnLockFile(o) PROVE Parts'
  <2>1. OwnFile'
    BY <1>3 DEF CreateOwnLockFile, Granted, Proceed, Loading, Loaded, Mishap, Goto, SetDoc, IInv, TypeOK, OwnFile, Overwriting, Without, medium
  <2>2. Released'
    BY <1>3 DEF CreateOwnLockFile, Granted, Proceed, Loading, Loaded, Mishap, Goto, SetDoc, IInv, TypeOK, Released, medium
  <2>3. SystemPath'
    BY <1>3 DEF CreateOwnLockFile, Granted, Proceed, Loading, Loaded, Mishap, Goto, SetDoc, IInv, TypeOK, SystemPath, UseSystemLock, medium
  <2>4. HoldersAreNamed'
    BY <1>3 DEF CreateOwnLockFile, Granted, Proceed, Loading, Loaded, Mishap, Goto, SetDoc, IInv, TypeOK, HoldersAreNamed, UseSystemLock, Without, OwnFile, Released, SystemPath, Overwriting, medium
  <2> QED BY <2>1, <2>2, <2>3, <2>4
<1>4. ASSUME NEW o \in Offices, AnswerIgnore(o) PROVE Parts'
  <2>1. OwnFile'
    BY <1>4 DEF AnswerIgnore, Granted, Proceed, Loading, Loaded, Mishap, Goto, SetDoc, IInv, TypeOK, OwnFile, Overwriting, Without, medium
  <2>2. Released'
    BY <1>4 DEF AnswerIgnore, Granted, Proceed, Loading, Loaded, Mishap, Goto, SetDoc, IInv, TypeOK, Released, medium
  <2>3. SystemPath'
    BY <1>4 DEF AnswerIgnore, Granted, Proceed, Loading, Loaded, Mishap, Goto, SetDoc, IInv, TypeOK, SystemPath, UseSystemLock, medium
  <2>4. HoldersAreNamed'
    BY <1>4 DEF AnswerIgnore, Granted, Proceed, Loading, Loaded, Mishap, Goto, SetDoc, IInv, TypeOK, HoldersAreNamed, UseSystemLock, Without, OwnFile, Released, SystemPath, Overwriting, medium
  <2> QED BY <2>1, <2>2, <2>3, <2>4
<1>5. ASSUME NEW o \in Offices, ReadLockData(o) PROVE Parts'
  <2>1. OwnFile'
    BY <1>5 DEF ReadLockData, Granted, Refused, Failed, Proceed, Loading, Loaded, Mishap, Goto, SetDoc, IInv, TypeOK, OwnFile, Overwriting, Without, medium
  <2>2. Released'
    BY <1>5 DEF ReadLockData, Granted, Refused, Failed, Proceed, Loading, Loaded, Mishap, Goto, SetDoc, IInv, TypeOK, Released, medium
  <2>3. SystemPath'
    BY <1>5 DEF ReadLockData, Granted, Refused, Failed, Proceed, Loading, Loaded, Mishap, Goto, SetDoc, IInv, TypeOK, SystemPath, UseSystemLock, medium
  <2>4. HoldersAreNamed'
    BY <1>5 DEF ReadLockData, Granted, Refused, Failed, Proceed, Loading, Loaded, Mishap, Goto, SetDoc, IInv, TypeOK, HoldersAreNamed, UseSystemLock, Without, OwnFile, Released, SystemPath, Overwriting, medium
  <2> QED BY <2>1, <2>2, <2>3, <2>4
<1>6. ASSUME NEW o \in Offices, AnswerLocked(o) PROVE Parts'
  <2>1. OwnFile'
    BY <1>6 DEF AnswerLocked, Refused, Failed, Copied, Proceed, Loading, Loaded, Mishap, Goto, SetDoc, IInv, TypeOK, OwnFile, Overwriting, Without, medium
  <2>2. Released'
    BY <1>6 DEF AnswerLocked, Refused, Failed, Copied, Proceed, Loading, Loaded, Mishap, Goto, SetDoc, IInv, TypeOK, Released, medium
  <2>3. SystemPath'
    BY <1>6 DEF AnswerLocked, Refused, Failed, Copied, Proceed, Loading, Loaded, Mishap, Goto, SetDoc, IInv, TypeOK, SystemPath, UseSystemLock, medium
  <2>4. HoldersAreNamed'
    BY <1>6 DEF AnswerLocked, Refused, Failed, Copied, Proceed, Loading, Loaded, Mishap, Goto, SetDoc, IInv, TypeOK, HoldersAreNamed, UseSystemLock, Without, OwnFile, Released, SystemPath, Overwriting, medium
  <2> QED BY <2>1, <2>2, <2>3, <2>4
<1>7. ASSUME NEW o \in Offices, Truncate(o) PROVE Parts'
  <2>1. OwnFile'
    BY <1>7 DEF Truncate, NotOverwritten, Granted, Refused, Failed, Proceed, Loading, Loaded, Mishap, Goto, SetDoc, IInv, TypeOK, OwnFile, Overwriting, Without, medium
  <2>2. Released'
    BY <1>7 DEF Truncate, NotOverwritten, Granted, Refused, Failed, Proceed, Loading, Loaded, Mishap, Goto, SetDoc, IInv, TypeOK, Released, medium
  <2>3. SystemPath'
    BY <1>7 DEF Truncate, NotOverwritten, Granted, Refused, Failed, Proceed, Loading, Loaded, Mishap, Goto, SetDoc, IInv, TypeOK, SystemPath, UseSystemLock, medium
  <2>4. HoldersAreNamed'
    BY <1>7 DEF Truncate, NotOverwritten, Granted, Refused, Failed, Proceed, Loading, Loaded, Mishap, Goto, SetDoc, IInv, TypeOK, HoldersAreNamed, UseSystemLock, Without, OwnFile, Released, SystemPath, Overwriting, medium
  <2> QED BY <2>1, <2>2, <2>3, <2>4
<1>8. ASSUME NEW o \in Offices, WriteEntry(o) PROVE Parts'
  <2>1. OwnFile'
    BY <1>8 DEF WriteEntry, NotOverwritten, Granted, Refused, Failed, Loading, Loaded, Mishap, Goto, SetDoc, IInv, TypeOK, OwnFile, Overwriting, Without, medium
  <2>2. Released'
    BY <1>8 DEF WriteEntry, NotOverwritten, Granted, Refused, Failed, Loading, Loaded, Mishap, Goto, SetDoc, IInv, TypeOK, Released, medium
  <2>3. SystemPath'
    BY <1>8 DEF WriteEntry, NotOverwritten, Granted, Refused, Failed, Loading, Loaded, Mishap, Goto, SetDoc, IInv, TypeOK, SystemPath, UseSystemLock, medium
  <2>4. HoldersAreNamed'
    BY <1>8 DEF WriteEntry, NotOverwritten, Granted, Refused, Failed, Loading, Loaded, Mishap, Goto, SetDoc, IInv, TypeOK, HoldersAreNamed, UseSystemLock, Without, OwnFile, Released, SystemPath, Overwriting, medium
  <2> QED BY <2>1, <2>2, <2>3, <2>4
<1>9. ASSUME NEW o \in Offices, SaveCompleted(o) PROVE Parts'
  <2>1. OwnFile'
    BY <1>9 DEF SaveCompleted, Proceed, Goto, IInv, TypeOK, OwnFile, Overwriting, Without, medium
  <2>2. Released'
    BY <1>9 DEF SaveCompleted, Proceed, Goto, IInv, TypeOK, Released, medium
  <2>3. SystemPath'
    BY <1>9 DEF SaveCompleted, Proceed, Goto, IInv, TypeOK, SystemPath, UseSystemLock, medium
  <2>4. HoldersAreNamed'
    BY <1>9 DEF SaveCompleted, Proceed, Goto, IInv, TypeOK, HoldersAreNamed, UseSystemLock, Without, OwnFile, Released, SystemPath, Overwriting, medium
  <2> QED BY <2>1, <2>2, <2>3, <2>4
<1>10. ASSUME NEW o \in Offices, UnlockFile(o) PROVE Parts'
  <2>1. OwnFile'
    BY <1>10 DEF UnlockFile, Unlocked, Goto, SetDoc, IInv, TypeOK, OwnFile, Overwriting, Without, medium
  <2>2. Released'
    BY <1>10 DEF UnlockFile, Unlocked, Goto, SetDoc, IInv, TypeOK, Released, medium
  <2>3. SystemPath'
    BY <1>10 DEF UnlockFile, Unlocked, Goto, SetDoc, IInv, TypeOK, SystemPath, UseSystemLock, medium
  <2>4. HoldersAreNamed'
    BY <1>10 DEF UnlockFile, Unlocked, Goto, SetDoc, IInv, TypeOK, HoldersAreNamed, UseSystemLock, Without, OwnFile, Released, SystemPath, Overwriting, medium
  <2> QED BY <2>1, <2>2, <2>3, <2>4
<1>11. ASSUME NEW o \in Offices, CheckOwner(o) PROVE Parts'
  <2>1. OwnFile'
    BY <1>11 DEF CheckOwner, Unlocked, Mishap, Goto, SetDoc, IInv, TypeOK, OwnFile, Overwriting, Without, medium
  <2>2. Released'
    BY <1>11 DEF CheckOwner, Unlocked, Mishap, Goto, SetDoc, IInv, TypeOK, Released, medium
  <2>3. SystemPath'
    BY <1>11 DEF CheckOwner, Unlocked, Mishap, Goto, SetDoc, IInv, TypeOK, SystemPath, UseSystemLock, medium
  <2>4. HoldersAreNamed'
    BY <1>11 DEF CheckOwner, Unlocked, Mishap, Goto, SetDoc, IInv, TypeOK, HoldersAreNamed, UseSystemLock, Without, OwnFile, Released, SystemPath, Overwriting, medium
  <2> QED BY <2>1, <2>2, <2>3, <2>4
<1>12. ASSUME NEW o \in Offices, DeleteFile(o) PROVE Parts'
  <2>1. OwnFile'
    BY <1>12 DEF DeleteFile, Unlocked, Mishap, Goto, SetDoc, IInv, TypeOK, OwnFile, Overwriting, Without, medium
  <2>2. Released'
    BY <1>12 DEF DeleteFile, Unlocked, Mishap, Goto, SetDoc, IInv, TypeOK, Released, medium
  <2>3. SystemPath'
    BY <1>12 DEF DeleteFile, Unlocked, Mishap, Goto, SetDoc, IInv, TypeOK, SystemPath, UseSystemLock, medium
  <2>4. HoldersAreNamed'
    BY <1>12 DEF DeleteFile, Unlocked, Mishap, Goto, SetDoc, IInv, TypeOK, HoldersAreNamed, UseSystemLock, Without, OwnFile, Released, SystemPath, Overwriting, medium
  <2> QED BY <2>1, <2>2, <2>3, <2>4
<1>13. ASSUME NEW o \in Offices, Crash(o) PROVE Parts'
  <2>1. OwnFile'
    BY <1>13 DEF Crash, Ends, Mishap, Goto, SetDoc, IInv, TypeOK, OwnFile, Overwriting, Without, medium
  <2>2. Released'
    BY <1>13 DEF Crash, Ends, Mishap, Goto, SetDoc, IInv, TypeOK, Released, medium
  <2>3. SystemPath'
    BY <1>13 DEF Crash, Ends, Mishap, Goto, SetDoc, IInv, TypeOK, SystemPath, UseSystemLock, medium
  <2>4. HoldersAreNamed'
    BY <1>13 DEF Crash, Ends, Mishap, Goto, SetDoc, IInv, TypeOK, HoldersAreNamed, UseSystemLock, Without, OwnFile, Released, SystemPath, Overwriting, medium
  <2> QED BY <2>1, <2>2, <2>3, <2>4
<1>14. ASSUME NEW o \in Offices, EmergencySave(o) PROVE Parts'
  <2>1. OwnFile'
    BY <1>14 DEF EmergencySave, Ends, Mishap, Goto, IInv, TypeOK, OwnFile, Overwriting, Without, medium
  <2>2. Released'
    BY <1>14 DEF EmergencySave, Ends, Mishap, Goto, IInv, TypeOK, Released, medium
  <2>3. SystemPath'
    BY <1>14 DEF EmergencySave, Ends, Mishap, Goto, IInv, TypeOK, SystemPath, UseSystemLock, medium
  <2>4. HoldersAreNamed'
    BY <1>14 DEF EmergencySave, Ends, Mishap, Goto, IInv, TypeOK, HoldersAreNamed, UseSystemLock, Without, OwnFile, Released, SystemPath, Overwriting, medium
  <2> QED BY <2>1, <2>2, <2>3, <2>4
<1>15. ASSUME NEW o \in Offices, SaveFails(o) PROVE Parts'
  <2>1. OwnFile'
    BY <1>15 DEF SaveFails, Failed, Loaded, Goto, IInv, TypeOK, OwnFile, Overwriting, Without, medium
  <2>2. Released'
    BY <1>15 DEF SaveFails, Failed, Loaded, Goto, IInv, TypeOK, Released, medium
  <2>3. SystemPath'
    BY <1>15 DEF SaveFails, Failed, Loaded, Goto, IInv, TypeOK, SystemPath, UseSystemLock, medium
  <2>4. HoldersAreNamed'
    BY <1>15 DEF SaveFails, Failed, Loaded, Goto, IInv, TypeOK, HoldersAreNamed, UseSystemLock, Without, medium
  <2> QED BY <2>1, <2>2, <2>3, <2>4
<1>16. CASE UNCHANGED vars
  BY <1>16 DEF IInv, OwnFile, Released, SystemPath, HoldersAreNamed, Without, UseSystemLock, vars,
              medium
<1> QED
  BY <1>1, <1>2, <1>3, <1>4, <1>5, <1>6, <1>7, <1>8, <1>9, <1>10, <1>11, <1>12, <1>13, <1>14, <1>15, <1>16 DEF Next, LockStep, UnlockStep

LEMMA Inductive == IInv /\ [Next]_vars => IInv'
BY TypeKept, PartsKept DEF IInv

\* The invariant holds throughout.
LEMMA IInvHolds == Spec => []IInv
BY InitHolds, Inductive, PTL DEF Spec

\* The state has its type.
THEOREM TypeCorrect == Spec => []TypeOK
<1>1. IInv => TypeOK
  BY DEF IInv
<1> QED BY <1>1, IInvHolds, PTL

\* The lock excludes: two offices have the lock on a document at the same time
\* only after a user took a lock over or went without one, after a save under
\* the system's lock, or while one of them holds on to a lock whose file it
\* removed itself when its save failed, whatever else happens and however often.
THEOREM LockExcludes == Spec => []Exclusive
<1>1. IInv => Exclusive
  BY OfficesAssumption
     DEF IInv, TypeOK, HoldersAreNamed, Exclusive, Without, UseSystemLock
<1> QED BY <1>1, IInvHolds, PTL

\* The entry of a user is overwritten or removed only by an office of that
\* user, until a takeover.
THEOREM StrangersCannot == Spec => StrangersKeepOut
<1> DEFINE Kept == \A o, p \in Offices :
                     /\ file = o /\ file' # o /\ pc'[p] # pc[p]
                     /\ config.lockFiles /\ Without({"takeover"})
                     => UserOf[p] = UserOf[o]
<1>1. IInv /\ [Next]_vars => [Kept]_vars
  <2> SUFFICES ASSUME IInv, Next PROVE Kept
    OBVIOUS
  <2> SUFFICES ASSUME NEW o \in Offices, NEW p \in Offices, file = o, file' # o, pc'[p] # pc[p],
                      config.lockFiles, Without({"takeover"})
               PROVE  UserOf[p] = UserOf[o]
    BY DEF Kept
  <2>1. o # NoFile /\ o # Blank
    BY OfficesAssumption
  <2>2. PICK q \in Offices : \/ Operation(q) \/ LockStep(q) \/ UnlockStep(q) \/ Crash(q)
                             \/ EmergencySave(q)
    BY DEF Next
  <2>3. CASE DeleteFile(q)
    <3>1. file = q /\ q = o
      BY <2>3 DEF IInv, OwnFile, DeleteFile
    <3>2. p = q
      BY <2>3 DEF DeleteFile, Unlocked, Goto, IInv, TypeOK
    <3> QED BY <3>1, <3>2
  <2>4. CASE CreateOwnLockFile(q)
    BY <2>1, <2>4 DEF CreateOwnLockFile
  <2>5. CASE Truncate(q) \/ WriteEntry(q)
    BY <2>5 DEF Truncate, WriteEntry, IInv, OwnFile, Overwriting
  <2>6. CASE Operation(q)
    BY <2>6 DEF Operation, Load, SaveAs, Save, Edit, SetReadOnly, Close, Begin
  <2>7. CASE Start(q) \/ AnswerIgnore(q) \/ ReadLockData(q) \/ AnswerLocked(q) \/ SaveCompleted(q)
             \/ SaveFails(q)
    BY <2>7 DEF Start, AnswerIgnore, ReadLockData, AnswerLocked, SaveCompleted, SaveFails
  <2>8. CASE UnlockFile(q) \/ CheckOwner(q) \/ Crash(q) \/ EmergencySave(q)
    BY <2>8 DEF UnlockFile, CheckOwner, Crash, EmergencySave, Ends
  <2> QED
    BY <2>2, <2>3, <2>4, <2>5, <2>6, <2>7, <2>8 DEF LockStep, UnlockStep
<1> QED BY <1>1, IInvHolds, PTL DEF Spec, StrangersKeepOut
-----------------------------------------------------------------------------

\* An office that has the lock has the document open for editing, and is in no
\* call that asks for the lock or gives it up, but for the end of an undone save.
HoldersEdit ==
    \A o \in Offices :
        /\ locked[o] =>
              /\ doc[o] = "editing"
              /\ \/ pc[o] \in {"idle", "unlock", "stored"}
                 \/ op[o] = "undo" /\ pc[o] \in {"check", "delete"}
        /\ op[o] = "undo" => pc[o] \notin {"unlock", "stored"}

\* An office whose save failed still has the medium that stored.
Undoing(o) == op[o] = "undo" /\ pc[o] # "idle"

\* Only an office that is about to write its entry has the lock file open.
WritersWrite == \A o \in writers : pc[o] \in {"takeWrite", "claimWrite"}

\* As long as no office crashes and no file operation fails, somebody is going
\* to remove the lock file that is there: an empty one is about to be written,
\* and the office an entry names has the lock, is looking whether the entry is
\* its own, undoes a save, or is overwritten just now.
Accounted ==
    ~config.system /\ Without({"crash", "failed"}) =>
        /\ file = Blank => writers # {}
        /\ file \in Offices =>
               locked[file] \/ pc[file] \in {"check", "delete"} \/ Undoing(file)
               \/ writers # {}

RemoveInv == TypeOK /\ HoldersEdit /\ WritersWrite /\ Accounted

LEMMA InitRemove == Init => RemoveInv
BY InitHolds, OfficesAssumption
   DEF Init, IInv, RemoveInv, HoldersEdit, WritersWrite, Accounted, medium

\* Every step keeps it, one action after the other.
LEMMA RemoveKept ==
    ASSUME RemoveInv, [Next]_vars
    PROVE  HoldersEdit' /\ WritersWrite' /\ Accounted'
<1> USE OfficesAssumption
<1> DEFINE Parts == HoldersEdit /\ WritersWrite /\ Accounted
<1>0. FlowTypes /\ OtherTypes /\ HoldersEdit /\ WritersWrite /\ Accounted
  BY TypesSplit DEF RemoveInv
<1>1. ASSUME NEW o \in Offices, Operation(o) PROVE Parts'
  <2>1. \E operation \in {"load", "saveAs", "save", "edit", "freeze", "close"},
           place \in {"start", "unlock"} :
             Begin(o, operation, place) /\ (place = "start" => doc[o] = "none")
    BY <1>1 DEF Operation, Load, SaveAs, Save, Edit, SetReadOnly, Close
  <2>2. HoldersEdit'
    BY <1>0, <2>1 DEF Begin, HoldersEdit, FlowTypes, Goto, medium
  <2>3. WritersWrite' /\ Accounted'
    BY <1>0, <2>1 DEF Begin, WritersWrite, Accounted, Undoing, Without, FlowTypes, OtherTypes, Goto, medium
  <2> QED BY <2>2, <2>3
<1>2. ASSUME NEW o \in Offices, Start(o) PROVE Parts'
  <2>1. HoldersEdit'
    BY <1>0, <1>2 DEF Start, Granted, Refused, Failed, Proceed, Loading, Loaded, Mishap, Goto, SetDoc, UseSystemLock, FlowTypes, HoldersEdit, medium
  <2>2. WritersWrite'
    BY <1>0, <1>2 DEF Start, Granted, Refused, Failed, Proceed, Loading, Loaded, Mishap, Goto, SetDoc, UseSystemLock, FlowTypes, OtherTypes, WritersWrite, medium
  <2>3. Accounted'
    BY <1>0, <1>2 DEF Start, Granted, Refused, Failed, Proceed, Loading, Loaded, Mishap, Goto, SetDoc, UseSystemLock, FlowTypes, OtherTypes, HoldersEdit, WritersWrite, Accounted, Undoing, Without, medium
  <2> QED BY <2>1, <2>2, <2>3
<1>3. ASSUME NEW o \in Offices, CreateOwnLockFile(o) PROVE Parts'
  <2>1. HoldersEdit'
    BY <1>0, <1>3 DEF CreateOwnLockFile, Granted, Proceed, Loading, Loaded, Mishap, Goto, SetDoc, FlowTypes, HoldersEdit, medium
  <2>2. WritersWrite'
    BY <1>0, <1>3 DEF CreateOwnLockFile, Granted, Proceed, Loading, Loaded, Mishap, Goto, SetDoc, FlowTypes, OtherTypes, WritersWrite, medium
  <2>3. Accounted'
    BY <1>0, <1>3 DEF CreateOwnLockFile, Granted, Proceed, Loading, Loaded, Mishap, Goto, SetDoc, FlowTypes, OtherTypes, HoldersEdit, WritersWrite, Accounted, Undoing, Without, medium
  <2> QED BY <2>1, <2>2, <2>3
<1>4. ASSUME NEW o \in Offices, AnswerIgnore(o) PROVE Parts'
  <2>1. HoldersEdit'
    BY <1>0, <1>4 DEF AnswerIgnore, Granted, Proceed, Loading, Loaded, Mishap, Goto, SetDoc, FlowTypes, HoldersEdit, medium
  <2>2. WritersWrite'
    BY <1>0, <1>4 DEF AnswerIgnore, Granted, Proceed, Loading, Loaded, Mishap, Goto, SetDoc, FlowTypes, OtherTypes, WritersWrite, medium
  <2>3. Accounted'
    BY <1>0, <1>4 DEF AnswerIgnore, Granted, Proceed, Loading, Loaded, Mishap, Goto, SetDoc, FlowTypes, OtherTypes, HoldersEdit, WritersWrite, Accounted, Undoing, Without, medium
  <2> QED BY <2>1, <2>2, <2>3
<1>5. ASSUME NEW o \in Offices, ReadLockData(o) PROVE Parts'
  <2>1. HoldersEdit'
    BY <1>0, <1>5 DEF ReadLockData, Granted, Refused, Failed, Proceed, Loading, Loaded, Mishap, Goto, SetDoc, FlowTypes, HoldersEdit, medium
  <2>2. WritersWrite'
    BY <1>0, <1>5 DEF ReadLockData, Granted, Refused, Failed, Proceed, Loading, Loaded, Mishap, Goto, SetDoc, FlowTypes, OtherTypes, WritersWrite, medium
  <2>3. Accounted'
    BY <1>0, <1>5 DEF ReadLockData, Granted, Refused, Failed, Proceed, Loading, Loaded, Mishap, Goto, SetDoc, FlowTypes, OtherTypes, HoldersEdit, WritersWrite, Accounted, Undoing, Without, medium
  <2> QED BY <2>1, <2>2, <2>3
<1>6. ASSUME NEW o \in Offices, AnswerLocked(o) PROVE Parts'
  <2>1. HoldersEdit'
    BY <1>0, <1>6 DEF AnswerLocked, Refused, Failed, Copied, Proceed, Loading, Loaded, Mishap, Goto, SetDoc, FlowTypes, HoldersEdit, medium
  <2>2. WritersWrite'
    BY <1>0, <1>6 DEF AnswerLocked, Refused, Failed, Copied, Proceed, Loading, Loaded, Mishap, Goto, SetDoc, FlowTypes, OtherTypes, WritersWrite, medium
  <2>3. Accounted'
    BY <1>0, <1>6 DEF AnswerLocked, Refused, Failed, Copied, Proceed, Loading, Loaded, Mishap, Goto, SetDoc, FlowTypes, OtherTypes, HoldersEdit, WritersWrite, Accounted, Undoing, Without, medium
  <2> QED BY <2>1, <2>2, <2>3
<1>7. ASSUME NEW o \in Offices, Truncate(o) PROVE Parts'
  <2>1. HoldersEdit'
    BY <1>0, <1>7 DEF Truncate, NotOverwritten, Granted, Refused, Failed, Proceed, Loading, Loaded, Mishap, Goto, SetDoc, FlowTypes, HoldersEdit, medium
  <2>2. WritersWrite'
    BY <1>0, <1>7 DEF Truncate, NotOverwritten, Granted, Refused, Failed, Proceed, Loading, Loaded, Mishap, Goto, SetDoc, FlowTypes, OtherTypes, WritersWrite, medium
  <2>3. Accounted'
    BY <1>0, <1>7 DEF Truncate, NotOverwritten, Granted, Refused, Failed, Proceed, Loading, Loaded, Mishap, Goto, SetDoc, FlowTypes, OtherTypes, HoldersEdit, WritersWrite, Accounted, Undoing, Without, medium
  <2> QED BY <2>1, <2>2, <2>3
<1>8. ASSUME NEW o \in Offices, WriteEntry(o) PROVE Parts'
  <2>1. HoldersEdit'
    BY <1>0, <1>8 DEF WriteEntry, NotOverwritten, Granted, Refused, Failed, Loading, Loaded, Mishap, Goto, SetDoc, FlowTypes, HoldersEdit, medium
  <2>2. WritersWrite'
    BY <1>0, <1>8 DEF WriteEntry, NotOverwritten, Granted, Refused, Failed, Loading, Loaded, Mishap, Goto, SetDoc, FlowTypes, OtherTypes, WritersWrite, medium
  <2>3. Accounted'
    BY <1>0, <1>8 DEF WriteEntry, NotOverwritten, Granted, Refused, Failed, Loading, Loaded, Mishap, Goto, SetDoc, FlowTypes, OtherTypes, HoldersEdit, WritersWrite, Accounted, Undoing, Without, medium
  <2> QED BY <2>1, <2>2, <2>3
<1>9. ASSUME NEW o \in Offices, SaveCompleted(o) PROVE Parts'
  <2>1. HoldersEdit'
    BY <1>0, <1>9 DEF SaveCompleted, Proceed, Goto, FlowTypes, HoldersEdit, medium
  <2>2. WritersWrite'
    BY <1>0, <1>9 DEF SaveCompleted, Proceed, Goto, FlowTypes, OtherTypes, WritersWrite, medium
  <2>3. Accounted'
    BY <1>0, <1>9 DEF SaveCompleted, Proceed, Goto, FlowTypes, OtherTypes, HoldersEdit, WritersWrite, Accounted, Undoing, Without, medium
  <2> QED BY <2>1, <2>2, <2>3
<1>10. ASSUME NEW o \in Offices, UnlockFile(o) PROVE Parts'
  <2>1. HoldersEdit'
    BY <1>0, <1>10 DEF UnlockFile, Unlocked, Goto, SetDoc, FlowTypes, HoldersEdit, medium
  <2>2. WritersWrite'
    BY <1>0, <1>10 DEF UnlockFile, Unlocked, Goto, SetDoc, FlowTypes, OtherTypes, WritersWrite, medium
  <2>3. Accounted'
    BY <1>0, <1>10 DEF UnlockFile, Unlocked, Goto, SetDoc, FlowTypes, OtherTypes, HoldersEdit, WritersWrite, Accounted, Undoing, Without, medium
  <2> QED BY <2>1, <2>2, <2>3
<1>11. ASSUME NEW o \in Offices, CheckOwner(o) PROVE Parts'
  <2>1. HoldersEdit'
    BY <1>0, <1>11 DEF CheckOwner, Unlocked, Mishap, Goto, SetDoc, FlowTypes, HoldersEdit, medium
  <2>2. WritersWrite'
    BY <1>0, <1>11 DEF CheckOwner, Unlocked, Mishap, Goto, SetDoc, FlowTypes, OtherTypes, WritersWrite, medium
  <2>3. Accounted'
    BY <1>0, <1>11 DEF CheckOwner, Unlocked, Mishap, Goto, SetDoc, FlowTypes, OtherTypes, HoldersEdit, WritersWrite, Accounted, Undoing, Without, medium
  <2> QED BY <2>1, <2>2, <2>3
<1>12. ASSUME NEW o \in Offices, DeleteFile(o) PROVE Parts'
  <2>1. HoldersEdit'
    BY <1>0, <1>12 DEF DeleteFile, Unlocked, Mishap, Goto, SetDoc, FlowTypes, HoldersEdit, medium
  <2>2. WritersWrite'
    BY <1>0, <1>12 DEF DeleteFile, Unlocked, Mishap, Goto, SetDoc, FlowTypes, OtherTypes, WritersWrite, medium
  <2>3. Accounted'
    BY <1>0, <1>12 DEF DeleteFile, Unlocked, Mishap, Goto, SetDoc, FlowTypes, OtherTypes, HoldersEdit, WritersWrite, Accounted, Undoing, Without, medium
  <2> QED BY <2>1, <2>2, <2>3
<1>13. ASSUME NEW o \in Offices, Crash(o) PROVE Parts'
  <2>1. HoldersEdit'
    BY <1>0, <1>13 DEF Crash, Ends, Mishap, Goto, SetDoc, FlowTypes, HoldersEdit, medium
  <2>2. WritersWrite'
    BY <1>0, <1>13 DEF Crash, Ends, Mishap, Goto, SetDoc, FlowTypes, OtherTypes, WritersWrite, medium
  <2>3. Accounted'
    BY <1>0, <1>13 DEF Crash, Ends, Mishap, Goto, SetDoc, FlowTypes, OtherTypes, HoldersEdit, WritersWrite, Accounted, Undoing, Without, medium
  <2> QED BY <2>1, <2>2, <2>3
<1>14. ASSUME NEW o \in Offices, EmergencySave(o) PROVE Parts'
  <2>1. HoldersEdit'
    BY <1>0, <1>14 DEF EmergencySave, Ends, Mishap, Goto, FlowTypes, HoldersEdit, medium
  <2>2. WritersWrite'
    BY <1>0, <1>14 DEF EmergencySave, Ends, Mishap, Goto, FlowTypes, OtherTypes, WritersWrite, medium
  <2>3. Accounted'
    BY <1>0, <1>14 DEF EmergencySave, Ends, Mishap, Goto, FlowTypes, OtherTypes, HoldersEdit, WritersWrite, Accounted, Undoing, Without, medium
  <2> QED BY <2>1, <2>2, <2>3
<1>15. ASSUME NEW o \in Offices, SaveFails(o) PROVE Parts'
  <2>1. HoldersEdit'
    BY <1>0, <1>15 DEF SaveFails, Failed, Loaded, Goto, FlowTypes, HoldersEdit, medium
  <2>2. WritersWrite'
    BY <1>0, <1>15 DEF SaveFails, Failed, Loaded, Goto, FlowTypes, OtherTypes, WritersWrite, medium
  <2>3. Accounted'
    BY <1>0, <1>15 DEF SaveFails, Failed, Loaded, Goto, FlowTypes, OtherTypes, HoldersEdit, WritersWrite, Accounted, Undoing, Without, medium
  <2> QED BY <2>1, <2>2, <2>3
<1>16. CASE UNCHANGED vars
  BY <1>0, <1>16 DEF HoldersEdit, WritersWrite, Accounted, Undoing, Without, vars, medium
<1> QED
  BY <1>1, <1>2, <1>3, <1>4, <1>5, <1>6, <1>7, <1>8, <1>9, <1>10, <1>11, <1>12, <1>13, <1>14, <1>15, <1>16 DEF Next, LockStep, UnlockStep

\* No lock file outlives the documents: when every office has closed the
\* document, or ended after an emergency save, DocumentLockFile::RemoveFile has
\* been called for the entry that came to stay, however the saves of the offices
\* overlapped, failed, overwrote and took over.
THEOREM NothingIsLeft == Spec => []LeavesNothing
<1>1. RemoveInv /\ [Next]_vars => RemoveInv'
  BY TypeKept, RemoveKept DEF RemoveInv
<1>2. RemoveInv => LeavesNothing
  <2> SUFFICES ASSUME RemoveInv, \A o \in Offices : doc[o] = "none" /\ pc[o] = "idle",
                      ~config.system, Without({"crash", "failed"})
               PROVE  file = NoFile
    BY DEF LeavesNothing
  <2>1. writers = {} /\ \A o \in Offices : ~locked[o]
    BY DEF RemoveInv, TypeOK, HoldersEdit, WritersWrite
  <2> QED
    BY <2>1 DEF RemoveInv, TypeOK, Accounted, Undoing
<1> QED BY <1>1, <1>2, InitRemove, PTL DEF Spec
=============================================================================
