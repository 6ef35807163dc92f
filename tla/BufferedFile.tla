----------------------------- MODULE BufferedFile -----------------------------
(***************************************************************************)
(* An open file of sal (sal/osl/unx/file.cxx, FileHandle_Impl): one page   *)
(* of the file is buffered; reads are served from it, writes go to it and  *)
(* reach the file when another page is needed.                             *)
(*                                                                         *)
(* A call holds m_mutex until it returns and is one action per turn of its *)
(* loop: Flush is syncFile, and the other steps of a call wait for it.     *)
(* Calls on one handle do not overlap here; osl_setFileSize alone takes no *)
(* mutex, and callers do not use a handle from two threads while they      *)
(* resize it.  A regular file only: the branches for pipes, for unbuffered *)
(* handles and for memory (Android) are left out.                          *)
(***************************************************************************)
EXTENDS Integers, Sequences

CONSTANTS
    Bytes, Zero, LF, CR,  \* the bytes told apart
    BufSiz,               \* m_bufsiz, a page
    Limit,                \* bound: no call goes beyond this offset
    Payloads,             \* the byte sequences that are written
    Counts,               \* how much is asked to be read
    MayFail,              \* whether I/O may fail
    MayReadDirtyLines     \* whether a line is read while the buffer is modified

ASSUME ByteAssumption == Zero \in Bytes
ASSUME SizeAssumption == BufSiz \in Nat \ {0} /\ Limit \in Nat
ASSUME PayloadAssumption == Payloads \subseteq Seq(Bytes) \ {<<>>}
ASSUME CountAssumption == Counts \subseteq Nat \ {0}
ASSUME SwitchAssumption == MayFail \in BOOLEAN /\ MayReadDirtyLines \in BOOLEAN

VARIABLES
    file,      \* what the file system has, Zero from length on
    length,    \* the size the file system has
    open,      \* whether the handle is open
    writeable, \* STATE_WRITEABLE
    modified,  \* STATE_MODIFIED
    m_size, m_fileptr, m_bufptr, m_buflen, m_buffer,
    call,      \* the call in progress: its locals
    answer     \* what the last call answered, Unanswered while one runs

disk == <<file, length>>
page == <<m_bufptr, m_buflen, m_buffer>>
vars == <<file, length, open, writeable, modified, m_size, m_fileptr,
          m_bufptr, m_buflen, m_buffer, call, answer>>

Offsets == 0..Limit - 1
Least(a, b) == IF a <= b THEN a ELSE b
Most(a, b) == IF a >= b THEN a ELSE b
Page(o) == (o \div BufSiz) * BufSiz

NoCall == [op |-> "none"]
Failure(op) == [op |-> op, at |-> 0, ok |-> FALSE, data |-> <<>>]
Unanswered == [op |-> "none", at |-> 0, ok |-> FALSE, data |-> <<>>]
Answer(op, o, data) == [op |-> op, at |-> o, ok |-> TRUE, data |-> data]
Fails == call' = NoCall /\ answer' = Failure(call.op)
Returns(op, o, data) == call' = NoCall /\ answer' = Answer(op, o, data)
-----------------------------------------------------------------------------
GetSize == Most(m_size, Most(0, m_bufptr) + m_buflen)

\* readAt of one page into m_buffer: what is not read keeps its old bytes.
PageLength(p) == IF p >= length THEN 0 ELSE Least(BufSiz, length - p)
LoadedPage(p) ==
    [i \in 0..BufSiz - 1 |-> IF i < PageLength(p) THEN file[p + i] ELSE m_buffer[i]]
LoadPage(p) ==
    /\ m_bufptr' = p
    /\ m_buflen' = PageLength(p)
    /\ m_buffer' = LoadedPage(p)
\* A slip: m_buflen is left.
DropPointerOnly == m_bufptr' = -1 /\ UNCHANGED <<m_buflen, m_buffer>>

\* The buffer holds no page any more.
DropPage == m_bufptr' = -1 /\ m_buflen' = 0 /\ UNCHANGED m_buffer

\* A slip: m_size is left.
WriteAtKeepsSize(o, b, n) ==
    /\ file' = [i \in Offsets |->
                   IF o <= i /\ i < o + n THEN b[i - o] ELSE file[i]]
    /\ length' = IF n = 0 THEN length ELSE Most(length, o + n)
    /\ UNCHANGED m_size

\* writeAt: pwrite of the first n of the bytes b at offset o.
WriteAt(o, b, n) ==
    /\ file' = [i \in Offsets |->
                   IF o <= i /\ i < o + n THEN b[i - o] ELSE file[i]]
    /\ length' = IF n = 0 THEN length ELSE Most(length, o + n)
    /\ m_size' = Most(m_size, o + n)

Misses == m_bufptr # Page(call.at)
\* A slip: a read does not flush the page it replaces.
FlushForWrites ==
    \/ call.op = "write" /\ call.left # <<>> /\ Misses
    \/ call.op = "line" /\ call.phase = "entry" /\ Misses
    \/ call.op \in {"size", "sync", "close"}

\* The call is at a place where syncFile comes first.
MustFlush ==
    \/ call.op = "read" /\ call.want > 0 /\ Misses
    \/ call.op = "write" /\ call.left # <<>> /\ Misses
    \/ call.op = "line" /\ call.phase = "entry" /\ Misses
    \/ call.op \in {"size", "sync", "close"}

\* syncFile: the modified page goes to the file, or a part of it, or nothing.
Flush ==
    /\ call.op # "none" /\ MustFlush /\ modified
    /\ \/ /\ WriteAt(m_bufptr, m_buffer, m_buflen)
          /\ modified' = FALSE
          /\ UNCHANGED <<open, call, answer>>
       \/ /\ MayFail
          /\ \/ \E n \in 1..m_buflen - 1 : WriteAt(m_bufptr, m_buffer, n)
             \/ UNCHANGED <<file, length, m_size>>
          /\ open' = (call.op # "close")
          /\ modified' = (modified /\ call.op # "close")
          /\ Fails
    /\ UNCHANGED <<writeable, m_fileptr, page>>

\* A step of the call that needs nothing flushed.
Goes(op) == call.op = op /\ ~(MustFlush /\ modified)
-----------------------------------------------------------------------------
Ready == open /\ call.op = "none"

\* osl_readFile (moves) and osl_readFileAt.
ReadFile(o, n, moves) ==
    /\ Ready
    /\ moves => o = m_fileptr
    /\ call' = [op |-> "read", from |-> o, asked |-> n, at |-> o, want |-> n, moves |-> moves,
                data |-> <<>>]
    /\ UNCHANGED <<disk, open, writeable, modified, m_size, m_fileptr, page>>
    /\ answer' = Unanswered

\* A page is loaded, or the bytes are read past the buffer.
ReadMiss ==
    /\ Goes("read") /\ call.want > 0 /\ Misses
    /\ \/ /\ call.want >= BufSiz
          /\ DropPage
          /\ LET n == IF call.at >= length THEN 0 ELSE Least(call.want, length - call.at)
             IN  call' = [call EXCEPT !.want = 0,
                             !.data = @ \o [i \in 1..n |-> file[call.at + i - 1]]]
          /\ UNCHANGED answer
       \/ /\ call.want < BufSiz
          /\ LoadPage(Page(call.at))
          /\ UNCHANGED <<call, answer>>
       \/ MayFail /\ DropPage /\ Fails
    /\ UNCHANGED <<disk, open, writeable, modified, m_size, m_fileptr>>

AtEnd == ~Misses /\ call.at - m_bufptr >= m_buflen

ReadHit ==
    /\ Goes("read") /\ call.want > 0 /\ ~Misses /\ ~AtEnd
    /\ LET bufpos == call.at - m_bufptr
           bytes == Least(m_buflen - bufpos, call.want)
       IN  call' = [call EXCEPT !.at = @ + bytes, !.want = @ - bytes,
                       !.data = @ \o [i \in 1..bytes |-> m_buffer[bufpos + i - 1]]]
    /\ UNCHANGED <<disk, open, writeable, modified, m_size, m_fileptr, page, answer>>

ReadReturns ==
    /\ Goes("read") /\ (call.want = 0 \/ AtEnd)
    /\ m_fileptr' = IF call.moves THEN m_fileptr + Len(call.data) ELSE m_fileptr
    /\ Returns("read", call.from, call.data)
    /\ UNCHANGED <<disk, open, writeable, modified, m_size, page>>
-----------------------------------------------------------------------------
\* osl_writeFile (moves) and osl_writeFileAt.
WriteFile(o, data, moves) ==
    /\ Ready
    /\ moves => o = m_fileptr
    /\ o + Len(data) <= Limit
    /\ IF writeable
       THEN /\ call' = [op |-> "write", at |-> o, left |-> data, moves |-> moves]
            /\ answer' = Unanswered
       ELSE answer' = Failure("write") /\ UNCHANGED call
    /\ UNCHANGED <<disk, open, writeable, modified, m_size, m_fileptr, page>>

\* What is left of the write once n bytes are stored.
Stored(n) == [call EXCEPT !.at = @ + n, !.left = SubSeq(@, n + 1, Len(@))]

\* A page is loaded, or the bytes are written past the buffer.
WriteMiss ==
    /\ Goes("write") /\ call.left # <<>> /\ Misses
    /\ LET n == Len(call.left)
           bytes == [i \in 0..n - 1 |-> call.left[i + 1]]
       IN  \/ /\ n >= BufSiz
              /\ DropPage
              /\ \/ WriteAt(call.at, bytes, n) /\ call' = Stored(n) /\ UNCHANGED answer
                 \/ \E k \in 1..n - 1 : MayFail /\ WriteAt(call.at, bytes, k) /\ Fails
           \/ /\ n < BufSiz
              /\ LoadPage(Page(call.at))
              /\ UNCHANGED <<disk, m_size, call, answer>>
           \/ MayFail /\ DropPage /\ Fails /\ UNCHANGED <<disk, m_size>>
    /\ UNCHANGED <<open, writeable, modified, m_fileptr>>

WriteHit ==
    /\ Goes("write") /\ call.left # <<>> /\ ~Misses
    /\ LET bufpos == call.at - m_bufptr
           bytes == Least(BufSiz - bufpos, Len(call.left))
       IN  /\ m_buffer' = [i \in 0..BufSiz - 1 |->
                              IF bufpos <= i /\ i < bufpos + bytes
                              THEN call.left[i - bufpos + 1] ELSE m_buffer[i]]
           /\ m_buflen' = Most(m_buflen, bufpos + bytes)
           /\ call' = Stored(bytes)
    /\ modified' = TRUE
    /\ UNCHANGED <<disk, open, writeable, m_size, m_fileptr, m_bufptr, answer>>

WriteReturns ==
    /\ call.op = "write" /\ call.left = <<>>
    /\ m_fileptr' = IF call.moves THEN call.at ELSE m_fileptr
    /\ Returns("write", call.at, <<>>)
    /\ UNCHANGED <<disk, open, writeable, modified, m_size, page>>
-----------------------------------------------------------------------------
\* osl_readLine at m_fileptr.
ReadLine ==
    /\ Ready
    /\ modified => MayReadDirtyLines
    /\ call' = [op |-> "line", from |-> m_fileptr, at |-> m_fileptr,
                phase |-> "entry", data |-> <<>>, count |-> 0]
    /\ UNCHANGED <<disk, open, writeable, modified, m_size, m_fileptr, page>>
    /\ answer' = Unanswered

LineEnters ==
    /\ Goes("line") /\ call.phase = "entry"
    /\ \/ /\ IF Misses THEN LoadPage(Page(call.at)) ELSE UNCHANGED page
          /\ call' = [call EXCEPT !.phase = "scan"]
          /\ UNCHANGED answer
       \/ MayFail /\ Misses /\ Fails /\ UNCHANGED page
    /\ UNCHANGED <<disk, open, writeable, modified, m_size, m_fileptr>>

\* The page after the one that was examined, which is not flushed first.
LineTurns ==
    /\ Goes("line") /\ call.phase # "entry" /\ Misses
    /\ \/ LoadPage(Page(call.at)) /\ UNCHANGED <<call, answer>>
       \/ MayFail /\ Fails /\ UNCHANGED page
    /\ UNCHANGED <<disk, open, writeable, modified, m_size, m_fileptr>>

LineReturns(data, count) ==
    /\ Returns("line", call.from, data)
    /\ m_fileptr' = m_fileptr + count

\* The buffer from bufpos on is examined.
LineScans ==
    /\ Goes("line") /\ call.phase = "scan" /\ ~Misses
    /\ LET bufpos == call.at - m_bufptr
           Bytes1(a, b) == [i \in 1..b - a |-> m_buffer[a + i - 1]]
           stops == {i \in bufpos..m_buflen - 1 : m_buffer[i] \in {LF, CR}}
           stop == CHOOSE i \in stops : \A j \in stops : i <= j
           skipped == m_buflen - bufpos
       IN  \/ /\ bufpos >= m_buflen        \* nothing more: a last line, or none
              /\ IF call.data # <<>> THEN LineReturns(call.data, call.count)
                                     ELSE Fails /\ UNCHANGED m_fileptr
           \/ /\ bufpos < m_buflen /\ stops = {}
              /\ call' = [call EXCEPT !.data = @ \o Bytes1(bufpos, m_buflen),
                             !.at = @ + skipped, !.count = @ + skipped]
              /\ UNCHANGED <<answer, m_fileptr>>
           \/ /\ stops # {} /\ (m_buffer[stop] = LF \/ stop + 1 < m_buflen)
              /\ LineReturns(call.data \o Bytes1(bufpos, stop),
                             call.count + stop + 1 - bufpos)
           \/ /\ stops # {} /\ m_buffer[stop] = CR /\ stop + 1 = m_buflen
              /\ call' = [call EXCEPT !.phase = "cr",
                             !.data = @ \o Bytes1(bufpos, stop) \o Bytes1(bufpos, m_buflen),
                             !.at = @ + 2 * skipped, !.count = @ + 2 * skipped]
              /\ UNCHANGED <<answer, m_fileptr>>
    /\ UNCHANGED <<disk, open, writeable, modified, m_size, page>>

\* After a CR at the end of the buffer: what follows it does not count.
LineEndsInCR ==
    /\ Goes("line") /\ call.phase = "cr" /\ ~Misses
    /\ LineReturns(call.data, call.count)
    /\ UNCHANGED <<disk, open, writeable, modified, m_size, page>>
-----------------------------------------------------------------------------
\* osl_setFileSize.
SetFileSize(n) ==
    /\ Ready
    /\ IF writeable
       THEN call' = [op |-> "size", size |-> n] /\ answer' = Unanswered
       ELSE answer' = Failure("size") /\ UNCHANGED call
    /\ UNCHANGED <<disk, open, writeable, modified, m_size, m_fileptr, page>>

\* ftruncate, or the byte written where a longer file ends, or neither.
SetSize ==
    /\ Goes("size")
    /\ DropPage
    /\ \/ /\ file' = [i \in Offsets |-> IF i < call.size THEN file[i] ELSE Zero]
          /\ length' = call.size
          /\ m_size' = call.size
          /\ Returns("size", call.size, <<>>)
       \/ MayFail /\ Fails /\ UNCHANGED <<disk, m_size>>
    /\ UNCHANGED <<open, writeable, modified, m_fileptr>>

\* osl_setFilePos from the beginning, from the position or from the end.
SetFilePos(how, o) ==
    LET base == CASE how = "absolut" -> 0 [] how = "current" -> m_fileptr
                  [] how = "end" -> GetSize
    IN  /\ Ready
        /\ base + o <= Limit
        /\ IF base + o < 0
           THEN answer' = Failure("pos") /\ UNCHANGED m_fileptr
           ELSE answer' = Answer("pos", base + o, <<>>) /\ m_fileptr' = base + o
        /\ UNCHANGED <<disk, open, writeable, modified, m_size, page, call>>

\* osl_syncFile and osl_closeFile.
SyncOrClose(op) ==
    /\ Ready
    /\ call' = [op |-> op]
    /\ UNCHANGED <<disk, open, writeable, modified, m_size, m_fileptr, page>>
    /\ answer' = Unanswered

Syncs ==
    /\ Goes("sync")
    /\ Returns("sync", 0, <<>>) \/ (MayFail /\ Fails)
    /\ UNCHANGED <<disk, open, writeable, modified, m_size, m_fileptr, page>>

Closes ==
    /\ Goes("close")
    /\ open' = FALSE
    /\ Returns("close", 0, <<>>) \/ (MayFail /\ Fails)
    /\ UNCHANGED <<disk, writeable, modified, m_size, m_fileptr, page>>

\* openFilePath of a file that exists.
OpenFile(w) ==
    /\ ~open
    /\ open' = TRUE /\ writeable' = w
    /\ m_size' = length /\ m_fileptr' = 0
    /\ m_bufptr' = -1 /\ m_buflen' = 0
    /\ m_buffer' = [i \in 0..BufSiz - 1 |-> Zero]
    /\ answer' = Answer("open", 0, <<>>)
    /\ UNCHANGED <<disk, modified, call>>
-----------------------------------------------------------------------------
Init ==
    /\ length \in 0..Limit
    /\ file \in [Offsets -> Bytes]
    /\ \A o \in Offsets : o >= length => file[o] = Zero
    /\ open = TRUE /\ writeable = TRUE /\ modified = FALSE
    /\ m_size = length /\ m_fileptr = 0
    /\ m_bufptr = -1 /\ m_buflen = 0
    /\ m_buffer = [i \in 0..BufSiz - 1 |-> Zero]
    /\ call = NoCall
    /\ answer = Answer("open", 0, <<>>)

Starts ==
    \/ \E o \in 0..Limit, n \in Counts, moves \in BOOLEAN : ReadFile(o, n, moves)
    \/ \E o \in 0..Limit, d \in Payloads, moves \in BOOLEAN : WriteFile(o, d, moves)
    \/ ReadLine
    \/ \E n \in 0..Limit : SetFileSize(n)
    \/ \E how \in {"absolut", "current", "end"}, o \in -1..Limit : SetFilePos(how, o)
    \/ \E op \in {"sync", "close"} : SyncOrClose(op)
    \/ \E w \in BOOLEAN : OpenFile(w)

Steps ==
    \/ Flush
    \/ ReadMiss \/ ReadHit \/ ReadReturns
    \/ WriteMiss \/ WriteHit \/ WriteReturns
    \/ LineEnters \/ LineTurns \/ LineScans \/ LineEndsInCR
    \/ SetSize \/ Syncs \/ Closes

Next == Starts \/ Steps

Spec == Init /\ [][Next]_vars
-----------------------------------------------------------------------------
TypeOK ==
    /\ length \in 0..Limit /\ file \in [Offsets -> Bytes]
    /\ open \in BOOLEAN /\ writeable \in BOOLEAN /\ modified \in BOOLEAN
    /\ m_size \in 0..Limit /\ m_fileptr \in Nat
    /\ m_bufptr = -1 \/ (m_bufptr \in Nat /\ m_bufptr = Page(m_bufptr))
    /\ m_buflen \in 0..BufSiz /\ m_buffer \in [0..BufSiz - 1 -> Bytes]
    /\ m_bufptr = -1 => m_buflen = 0
    /\ modified => open /\ writeable /\ m_buflen > 0
    /\ call.op \in {"none", "read", "write", "line", "size", "sync", "close"}
    /\ call.op # "none" => open

\* What the caller has written and not been told the loss of.
InBuffer(o) == modified /\ m_bufptr <= o /\ o < m_bufptr + m_buflen
Size == IF modified THEN Most(length, m_bufptr + m_buflen) ELSE length
Contents == [o \in Offsets |-> IF InBuffer(o) THEN m_buffer[o - m_bufptr] ELSE file[o]]
\* What the caller asked for and has not been told the end of.
Pending ==
    [op |-> call.op,
     at |-> CASE call.op \in {"read", "line"} -> call.from [] call.op = "write" -> call.at
              [] OTHER -> 0,
     count |-> CASE call.op = "read" -> call.asked [] call.op = "size" -> call.size
                 [] OTHER -> 0,
     left |-> IF call.op = "write" THEN call.left ELSE <<>>,
     moves |-> IF call.op \in {"read", "write"} THEN call.moves ELSE call.op = "line"]

\* The size that is answered, from which a seek from the end and the test for
\* the end of the file are computed, is the size of what was written, but for a
\* page beyond the end that an attempt to read has made the buffered one
\* (getSize, with writeAt, setSize and syncFile, which keep m_size).
SizeIsTold ==
    open /\ call.op = "none" =>
        GetSize = IF m_buflen = 0 THEN Most(Size, m_bufptr) ELSE Size

\* Reading a line changes no byte of what was written, also while the buffer
\* holds bytes that are not in the file yet (osl_readLine, readLineAt).
LinesChangeNothing ==
    [][call.op = "line" => Contents' = Contents /\ Size' = Size]_vars

Plain == INSTANCE PlainFile WITH
    content <- Contents, size <- Size, pos <- m_fileptr, pending <- Pending

\* The buffered file is a plain file: a read that does not fail returns all the
\* requested bytes that the file has, and a line the bytes up to its end, as
\* they were written last, in whatever pages, over failures and calls of every
\* kind; a call changes no byte it was not asked to (readFileAt, writeFileAt,
\* readLineAt, syncFile, osl_setFileSize, osl_closeFile).
IsPlainFile == Plain!Spec
=============================================================================
