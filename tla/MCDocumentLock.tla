--------------------------- MODULE MCDocumentLock ---------------------------
(***************************************************************************)
(* DocumentLock for TLC: two machines of one user and one of another.      *)
(***************************************************************************)
EXTENDS DocumentLock, TLC

CONSTANTS desk, laptop, colleague

MCOffices == {desk, laptop, colleague}
MCUserOf == [o \in MCOffices |-> IF o = colleague THEN "theirs" ELSE "mine"]
\* Every document and every setting: the defaults of NeoOffice, either kind of lock, both,
\* and none.  Where the document is makes a difference only with the system's lock
\* (UseSystemLock), and with that lock on a local document no lock file is asked for.
MCConfigs ==
    {c \in [local : BOOLEAN, system : BOOLEAN, lockFiles : BOOLEAN] : c.local => c.system /\ c.lockFiles}
Interchangeable == Permutations({desk, laptop})
=============================================================================
