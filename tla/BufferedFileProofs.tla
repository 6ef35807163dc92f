-------------------------- MODULE BufferedFileProofs --------------------------
(***************************************************************************)
(* Theorems about BufferedFile, for every size of a page, every set of     *)
(* bytes and every bound, as long as no line is read while the buffer is   *)
(* modified (MayReadDirtyLines): what its invariants say, and that it      *)
(* implements the plain file.                                              *)
(***************************************************************************)
EXTENDS BufferedFile, SequenceTheorems, WellFoundedInduction, TLAPS

ReadCalls == [op : {"read"}, from : 0..Limit, asked : Nat, at : Nat, want : Nat,
              moves : BOOLEAN, data : Seq(Bytes)]
WriteCalls == [op : {"write"}, at : Nat, left : Seq(Bytes), moves : BOOLEAN]
LineCalls == [op : {"line"}, from : Nat, at : Nat, phase : {"entry", "scan", "cr"},
              data : Seq(Bytes), count : Nat]
OtherCalls == {NoCall} \cup [op : {"size"}, size : 0..Limit] \cup [op : {"sync", "close"}]
Calls == ReadCalls \cup WriteCalls \cup LineCalls \cup OtherCalls

\* The types of the call in progress, and the bound of what a write reaches.
CallOK ==
    /\ call \in Calls
    /\ call.op = "write" => writeable /\ call.at + Len(call.left) <= Limit
    /\ call.op = "read" => (call.moves => call.from = m_fileptr)

\* The buffer against the file: a page that is not modified is what the file has
\* there, a modified one reaches as far as the file does, and a line is read
\* from a page that is not modified.
Coherent ==
    /\ m_size = length
    /\ \A o \in Offsets : o >= length => file[o] = Zero
    /\ m_buflen > 0 => m_bufptr + m_buflen <= Limit
    /\ open /\ ~modified /\ m_bufptr # -1 =>
          /\ m_buflen = PageLength(m_bufptr)
          /\ \A i \in 0..m_buflen - 1 : m_buffer[i] = file[m_bufptr + i]
    /\ modified => m_buflen >= PageLength(m_bufptr)
    /\ call.op = "line" => ~modified

IInv == TypeOK /\ CallOK /\ Coherent
-----------------------------------------------------------------------------
\* The page of an offset begins there or before, and is its own page.
LEMMA PageFacts ==
    ASSUME NEW o \in Nat
    PROVE  /\ Page(o) \in Nat /\ Page(o) <= o /\ o < Page(o) + BufSiz
           /\ Page(Page(o)) = Page(o)
<1> USE SizeAssumption
<1> DEFINE q == o \div BufSiz
<1>1. q \in Nat /\ q * BufSiz <= o /\ o < q * BufSiz + BufSiz
  OBVIOUS
<1>2. (q * BufSiz) \div BufSiz = q
  <2>1. q * BufSiz \in Nat
    BY <1>1
  <2> QED BY <1>1, <2>1
<1> QED BY <1>1, <1>2 DEF Page

\* A page ends with the file or has its full length.
LEMMA PageLengthFacts ==
    ASSUME NEW p \in Nat, length \in 0..Limit
    PROVE  /\ PageLength(p) \in 0..BufSiz
           /\ PageLength(p) > 0 => p + PageLength(p) <= length
           /\ PageLength(p) < BufSiz => length <= p + PageLength(p)
BY SizeAssumption DEF PageLength, Least

\* A set of natural numbers has a least element.
LEMMA LeastExists ==
    ASSUME NEW T, T \subseteq Nat, T # {}
    PROVE  \E x \in T : \A y \in T : x <= y
<1>1. PICK x \in T : \A y \in T : ~(<<y, x>> \in OpToRel(<, Nat))
  BY NatLessThanWellFounded, WFMin
<1>2. ASSUME NEW y \in T PROVE ~(y < x)
  <2>1. <<y, x>> \in Nat \X Nat
    OBVIOUS
  <2>2. ~(<<y, x>>[1] < <<y, x>>[2])
    BY <1>1, <2>1 DEF OpToRel
  <2> QED BY <2>2
<1>3. \A y \in T : x <= y
  BY <1>2
<1> QED BY <1>3

\* What is left of a sequence without its first n elements.
LEMMA RestFacts ==
    ASSUME NEW S, NEW s \in Seq(S), NEW n \in 0..Len(s)
    PROVE  /\ SubSeq(s, n + 1, Len(s)) \in Seq(S)
           /\ Len(SubSeq(s, n + 1, Len(s))) = Len(s) - n
           /\ \A i \in 1..Len(s) - n : SubSeq(s, n + 1, Len(s))[i] = s[n + i]
<1> DEFINE t == SubSeq(s, n + 1, Len(s))
<1>1. Len(s) \in Nat /\ n \in Int /\ n + 1 \in Int /\ n <= Len(s)
  BY LenProperties
<1>2. \A i \in n + 1..Len(s) : s[i] \in S
  BY <1>1, ElementOfSeq
<1>3. /\ t \in Seq(S)
      /\ Len(t) = IF n + 1 <= Len(s) THEN Len(s) - (n + 1) + 1 ELSE 0
      /\ \A i \in 1..Len(s) - (n + 1) + 1 : t[i] = s[(n + 1) + i - 1]
  BY <1>1, <1>2, SubSeqProperties
<1> HIDE DEF t
<1>4. Len(t) = Len(s) - n /\ \A i \in 1..Len(s) - n : t[i] = s[n + i]
  BY <1>1, <1>3
<1> QED BY <1>3, <1>4 DEF t

LEMMA InitHolds == Init => IInv
<1> SUFFICES ASSUME Init PROVE IInv
  OBVIOUS
<1> USE SizeAssumption, ByteAssumption DEF Init
<1>1. call.op = "none"
  BY DEF NoCall
<1>2. TypeOK
  BY <1>1 DEF TypeOK
<1>3. CallOK
  BY <1>1 DEF CallOK, Calls, OtherCalls
<1>4. Coherent
  BY <1>1 DEF Coherent
<1> QED BY <1>1, <1>2, <1>3, <1>4 DEF IInv

\* What op tells of the other fields.
LEMMA CallFields ==
    ASSUME CallOK
    PROVE  /\ call.op = "read" => call \in ReadCalls
           /\ call.op = "write" => call \in WriteCalls
           /\ call.op = "line" => call \in LineCalls
           /\ call.op = "size" => call \in [op : {"size"}, size : 0..Limit]
BY DEF CallOK, Calls, ReadCalls, WriteCalls, LineCalls, OtherCalls, NoCall

\* A write to the file.
LEMMA WriteAtFacts ==
    ASSUME TypeOK, Coherent, NEW o \in Nat, NEW n \in Nat \ {0}, NEW b, o + n <= Limit,
           \A i \in 0..n - 1 : b[i] \in Bytes,
           WriteAt(o, b, n)
    PROVE  /\ length' \in 0..Limit /\ length' = Most(length, o + n) /\ m_size' = length'
           /\ file' \in [Offsets -> Bytes]
           /\ \A i \in Offsets :
                 /\ i >= length' => file'[i] = Zero
                 /\ file'[i] = IF o <= i /\ i < o + n THEN b[i - o] ELSE file[i]
<1> USE SizeAssumption DEF WriteAt, TypeOK, Coherent, Offsets, Most
<1>1. length' \in 0..Limit /\ length' = Most(length, o + n) /\ m_size' = length'
  OBVIOUS
<1>2. file' \in [Offsets -> Bytes]
  OBVIOUS
<1> QED BY <1>1, <1>2

\* A page is loaded while the buffer is not modified.
LEMMA LoadFacts ==
    ASSUME TypeOK, Coherent, ~modified, NEW p \in Nat, p = Page(p), LoadPage(p)
    PROVE  /\ m_bufptr' \in Nat /\ m_bufptr' = p
           /\ m_buflen' \in 0..BufSiz /\ m_buflen' = PageLength(p)
           /\ m_buffer' \in [0..BufSiz - 1 -> Bytes]
           /\ m_buflen' > 0 => m_bufptr' + m_buflen' <= length
           /\ \A i \in 0..m_buflen' - 1 : m_buffer'[i] = file[m_bufptr' + i]
<1> USE SizeAssumption
<1>1. /\ PageLength(p) \in 0..BufSiz
      /\ PageLength(p) > 0 => p + PageLength(p) <= length
  BY PageLengthFacts DEF TypeOK
<1>2. \A i \in 0..BufSiz - 1 : i < PageLength(p) => p + i \in Offsets
  BY <1>1 DEF TypeOK, Offsets
<1>3. LoadedPage(p) \in [0..BufSiz - 1 -> Bytes]
  BY <1>1, <1>2 DEF LoadedPage, TypeOK
<1> QED BY <1>1, <1>3 DEF LoadPage, LoadedPage
-----------------------------------------------------------------------------
Ops == {"none", "read", "write", "line", "size", "sync", "close"}

PageOK ==
    /\ m_bufptr = -1 \/ (m_bufptr \in Nat /\ m_bufptr = Page(m_bufptr))
    /\ m_buflen \in 0..BufSiz /\ m_buffer \in [0..BufSiz - 1 -> Bytes]
    /\ m_bufptr = -1 => m_buflen = 0

RestOK ==
    /\ length \in 0..Limit /\ file \in [Offsets -> Bytes]
    /\ open \in BOOLEAN /\ writeable \in BOOLEAN /\ modified \in BOOLEAN
    /\ m_size \in 0..Limit /\ m_fileptr \in Nat
    /\ modified => open /\ writeable /\ m_buflen > 0
    /\ call.op \in Ops
    /\ call.op # "none" => open

LEMMA TypeParts == (TypeOK <=> PageOK /\ RestOK) /\ (TypeOK' <=> PageOK' /\ RestOK')
BY DEF TypeOK, PageOK, RestOK, Ops

\* The page stays.
LEMMA PageStays == ASSUME PageOK, UNCHANGED page PROVE PageOK'
BY DEF PageOK, page, Page

\* A step that changes neither the file nor the buffer.
LEMMA BufferStays ==
    ASSUME TypeOK, Coherent, UNCHANGED <<disk, open, writeable, modified, m_size, page>>,
           m_fileptr' \in Nat, call'.op \in Ops, call'.op # "none" => open,
           call'.op = "line" => ~modified
    PROVE  TypeOK' /\ Coherent'
<1>1. PageOK' /\ RestOK'
  BY TypeParts, PageStays DEF RestOK, disk, page
<1>2. Coherent'
  BY DEF Coherent, PageLength, disk, page
<1> QED BY <1>1, <1>2, TypeParts

\* A step that makes another page the buffered one.
LEMMA PageLoads ==
    ASSUME TypeOK, Coherent, ~modified, NEW p \in Nat, p = Page(p), LoadPage(p),
           UNCHANGED <<disk, open, writeable, modified, m_size>>,
           m_fileptr' \in Nat, call'.op \in Ops, call'.op # "none" => open
    PROVE  TypeOK' /\ Coherent'
<1>1. /\ m_bufptr' = p
      /\ m_buflen' \in 0..BufSiz /\ m_buflen' = PageLength(p)
      /\ m_buffer' \in [0..BufSiz - 1 -> Bytes]
      /\ m_buflen' > 0 => p + m_buflen' <= length
      /\ \A i \in 0..m_buflen' - 1 : m_buffer'[i] = file[p + i]
  BY LoadFacts
<1>2. PageOK'
  BY <1>1 DEF PageOK, Page
<1>3. RestOK'
  BY TypeParts DEF RestOK, disk
<1>4. PageLength(m_bufptr)' = PageLength(p)
  BY <1>1 DEF PageLength, disk
<1>5. m_buflen' > 0 => m_bufptr' + m_buflen' <= Limit
  BY <1>1, SizeAssumption DEF TypeOK
<1>6. Coherent'
  BY <1>1, <1>4, <1>5 DEF Coherent, disk
<1> QED BY <1>2, <1>3, <1>6, TypeParts

\* A step after which no page is buffered, in which the file may change.
LEMMA PageDrops ==
    ASSUME TypeOK, Coherent, ~modified, DropPage,
           UNCHANGED <<open, writeable, modified>>, m_size' = length',
           length' \in 0..Limit, file' \in [Offsets -> Bytes],
           \A o \in Offsets : o >= length' => file'[o] = Zero,
           m_fileptr' \in Nat, call'.op \in Ops, call'.op # "none" => open
    PROVE  TypeOK' /\ Coherent'
<1> USE SizeAssumption
<1>1. PageOK'
  BY TypeParts DEF PageOK, DropPage
<1>2. RestOK'
  BY TypeParts DEF RestOK
<1>3. Coherent'
  BY DEF Coherent, DropPage
<1> QED BY <1>1, <1>2, <1>3, TypeParts
-----------------------------------------------------------------------------
LEMMA FlushKeeps == ASSUME IInv, Flush PROVE IInv'
<1> USE SizeAssumption
<1>1. /\ TypeOK /\ CallOK /\ Coherent /\ modified /\ open /\ m_buflen \in 1..BufSiz
      /\ m_bufptr \in Nat /\ m_bufptr + m_buflen <= Limit
      /\ UNCHANGED <<writeable, m_fileptr, page>>
      /\ call.op \in Ops \ {"none", "line"}
  BY DEF IInv, TypeOK, Flush, Coherent, Ops
<1>2. PageOK'
  BY <1>1, TypeParts, PageStays
<1>3. ASSUME NEW n \in 1..m_buflen, WriteAt(m_bufptr, m_buffer, n),
             open' \in BOOLEAN, modified' \in BOOLEAN, modified' => open' /\ n < m_buflen,
             n < m_buflen /\ ~modified' => ~open',
             call'.op \in {"none", call.op}, call'.op # "none" => open'
      PROVE  TypeOK' /\ Coherent'
  <2>1. \A i \in 0..n - 1 : m_buffer[i] \in Bytes
    BY <1>1 DEF TypeOK
  <2>2. /\ length' \in 0..Limit /\ length' = Most(length, m_bufptr + n)
        /\ m_size' = length' /\ file' \in [Offsets -> Bytes]
        /\ \A i \in Offsets :
              /\ i >= length' => file'[i] = Zero
              /\ file'[i] = IF m_bufptr <= i /\ i < m_bufptr + n
                            THEN m_buffer[i - m_bufptr] ELSE file[i]
    BY <1>1, <1>3, <2>1, WriteAtFacts
  <2>3. RestOK'
    BY <1>1, <1>3, <2>2, TypeParts DEF RestOK, page, Ops
  <2>4. m_bufptr' = m_bufptr /\ m_buflen' = m_buflen /\ m_buffer' = m_buffer
    BY <1>1 DEF page
  <2>6. modified' => m_buflen' >= PageLength(m_bufptr)'
    BY <1>1, <1>3, <2>2, <2>4 DEF PageLength, Most, Least, TypeOK, Coherent
  <2>7. n = m_buflen => m_buflen' = PageLength(m_bufptr)'
    BY <1>1, <2>2, <2>4 DEF PageLength, Most, Least, TypeOK, Coherent
  <2>8. n = m_buflen => \A i \in 0..m_buflen - 1 : m_buffer[i] = file'[m_bufptr + i]
    <3> SUFFICES ASSUME n = m_buflen, NEW i \in 0..m_buflen - 1
                 PROVE  m_buffer[i] = file'[m_bufptr + i]
      OBVIOUS
    <3> DEFINE o == m_bufptr + i
    <3>1. o \in Offsets /\ o - m_bufptr = i /\ m_bufptr <= o /\ o < m_bufptr + n
      BY <1>1 DEF Offsets
    <3> QED BY <2>2, <3>1
  <2>9. Coherent'
    BY <1>1, <1>3, <2>2, <2>4, <2>6, <2>7, <2>8 DEF Coherent, Ops
  <2> QED BY <1>2, <2>3, <2>9, TypeParts
<1>4. CASE /\ WriteAt(m_bufptr, m_buffer, m_buflen)
           /\ modified' = FALSE
           /\ UNCHANGED <<open, call, answer>>
  <2>1. m_buflen \in 1..m_buflen /\ ~(m_buflen < m_buflen)
    BY <1>1
  <2>2. open' \in BOOLEAN /\ open' /\ call'.op \in {"none", call.op}
    BY <1>1, <1>4 DEF TypeOK
  <2>3. modified' \in BOOLEAN /\ ~modified'
    BY <1>4
  <2>4. TypeOK' /\ Coherent'
    BY <1>3, <1>4, <2>1, <2>2, <2>3
  <2>5. CallOK'
    BY <1>1, <1>4 DEF CallOK
  <2> QED BY <2>4, <2>5 DEF IInv
<1>5. CASE /\ UNCHANGED <<file, length, m_size>>
           /\ open' = (call.op # "close")
           /\ modified' = (modified /\ call.op # "close")
           /\ Fails
  <2>1. call' = NoCall /\ call'.op = "none"
    BY <1>5 DEF Fails, NoCall
  <2>2. RestOK'
    BY <1>1, <1>5, <2>1, TypeParts DEF RestOK, page, Ops
  <2>3. Coherent'
    BY <1>1, <1>5, <2>1 DEF Coherent, PageLength, page
  <2>4. CallOK'
    BY <2>1 DEF CallOK, Calls, OtherCalls
  <2> QED BY <1>2, <2>2, <2>3, <2>4, TypeParts DEF IInv
<1>6. CASE /\ \E n \in 1..m_buflen - 1 : WriteAt(m_bufptr, m_buffer, n)
           /\ open' = (call.op # "close")
           /\ modified' = (modified /\ call.op # "close")
           /\ Fails
  <2>1. call' = NoCall /\ call'.op = "none"
    BY <1>6 DEF Fails, NoCall
  <2>2. PICK n \in 1..m_buflen - 1 : WriteAt(m_bufptr, m_buffer, n)
    BY <1>6
  <2>3. TypeOK' /\ Coherent'
    BY <1>1, <1>3, <1>6, <2>1, <2>2
  <2>4. CallOK'
    BY <2>1 DEF CallOK, Calls, OtherCalls
  <2> QED BY <2>3, <2>4 DEF IInv
<1> QED BY <1>4, <1>5, <1>6 DEF Flush
-----------------------------------------------------------------------------
\* The steps that begin a call.
LEMMA ReadFileKeeps ==
    ASSUME IInv, NEW o \in 0..Limit, NEW n \in Counts, NEW moves \in BOOLEAN,
           ReadFile(o, n, moves)
    PROVE  IInv'
<1> USE SizeAssumption, CountAssumption DEF IInv, ReadFile, Ready
<1>1. call' \in ReadCalls /\ call'.op = "read"
  BY DEF ReadCalls
<1>2. TypeOK' /\ Coherent'
  BY <1>1, BufferStays DEF TypeOK, Ops
<1>3. CallOK'
  BY <1>1 DEF CallOK, Calls
<1> QED BY <1>2, <1>3

LEMMA WriteFileKeeps ==
    ASSUME IInv, NEW o \in 0..Limit, NEW d \in Payloads, NEW moves \in BOOLEAN,
           WriteFile(o, d, moves)
    PROVE  IInv'
<1> USE SizeAssumption, PayloadAssumption DEF IInv, WriteFile, Ready
<1>1. CASE writeable
  <2>1. call' \in WriteCalls /\ call'.op = "write" /\ call'.at = o /\ call'.left = d
    BY <1>1 DEF WriteCalls
  <2>2. TypeOK' /\ Coherent'
    BY <2>1, BufferStays DEF TypeOK, Ops
  <2>3. CallOK'
    BY <1>1, <2>1 DEF CallOK, Calls
  <2> QED BY <2>2, <2>3
<1>2. CASE ~writeable
  <2>1. TypeOK' /\ Coherent'
    BY <1>2, BufferStays DEF TypeOK, Ops
  <2>2. CallOK'
    BY <1>2 DEF CallOK
  <2> QED BY <2>1, <2>2
<1> QED BY <1>1, <1>2

LEMMA ReadLineKeeps == ASSUME IInv, ~MayReadDirtyLines, ReadLine PROVE IInv'
<1> USE DEF IInv, ReadLine, Ready
<1>1. call' \in LineCalls /\ call'.op = "line" /\ ~modified
  BY DEF LineCalls, TypeOK
<1>2. TypeOK' /\ Coherent'
  BY <1>1, BufferStays DEF TypeOK, Ops
<1>3. CallOK'
  BY <1>1 DEF CallOK, Calls
<1> QED BY <1>2, <1>3

LEMMA SetFileSizeKeeps == ASSUME IInv, NEW n \in 0..Limit, SetFileSize(n) PROVE IInv'
<1> USE DEF IInv, SetFileSize, Ready
<1>1. CASE writeable
  <2>1. call' \in OtherCalls /\ call'.op = "size"
    BY <1>1 DEF OtherCalls
  <2>2. TypeOK' /\ Coherent'
    BY <2>1, BufferStays DEF TypeOK, Ops
  <2>3. CallOK'
    BY <2>1 DEF CallOK, Calls
  <2> QED BY <2>2, <2>3
<1>2. CASE ~writeable
  <2>1. TypeOK' /\ Coherent'
    BY <1>2, BufferStays DEF TypeOK, Ops
  <2>2. CallOK'
    BY <1>2 DEF CallOK
  <2> QED BY <2>1, <2>2
<1> QED BY <1>1, <1>2

LEMMA SyncOrCloseKeeps ==
    ASSUME IInv, NEW op \in {"sync", "close"}, SyncOrClose(op) PROVE IInv'
<1> USE DEF IInv, SyncOrClose, Ready
<1>1. call' \in OtherCalls /\ call'.op \in {"sync", "close"}
  BY DEF OtherCalls
<1>2. TypeOK' /\ Coherent'
  BY <1>1, BufferStays DEF TypeOK, Ops
<1>3. CallOK'
  BY <1>1 DEF CallOK, Calls
<1> QED BY <1>2, <1>3

LEMMA SetFilePosKeeps ==
    ASSUME IInv, NEW how \in {"absolut", "current", "end"}, NEW o \in -1..Limit,
           SetFilePos(how, o)
    PROVE  IInv'
<1> USE SizeAssumption DEF IInv
<1>1. GetSize \in Nat
  BY DEF GetSize, Most, TypeOK
<1>2. m_fileptr' \in Nat /\ open /\ call.op = "none"
      /\ UNCHANGED <<disk, open, writeable, modified, m_size, page, call>>
  BY <1>1 DEF SetFilePos, Ready, TypeOK
<1>3. TypeOK' /\ Coherent'
  BY <1>2, BufferStays DEF TypeOK, Ops
<1>4. CallOK'
  BY <1>2 DEF CallOK
<1> QED BY <1>3, <1>4

LEMMA OpenFileKeeps == ASSUME IInv, NEW w \in BOOLEAN, OpenFile(w) PROVE IInv'
<1> USE SizeAssumption, ByteAssumption DEF IInv, OpenFile
<1>1. ~modified /\ call.op = "none"
  BY DEF TypeOK
<1>2. PageOK'
  BY DEF PageOK
<1>3. RestOK'
  BY <1>1, TypeParts DEF RestOK, disk
<1>4. Coherent'
  BY <1>1 DEF Coherent, disk
<1>5. CallOK'
  BY <1>1 DEF CallOK
<1> QED BY <1>2, <1>3, <1>4, <1>5, TypeParts
-----------------------------------------------------------------------------
\* Where a call is: the page it needs is known, and is buffered unless it misses.
LEMMA Place ==
    ASSUME IInv, call.op \in {"read", "write", "line"}
    PROVE  /\ call.at \in Nat
           /\ Page(call.at) \in Nat /\ Page(Page(call.at)) = Page(call.at)
           /\ Page(call.at) <= call.at /\ call.at < Page(call.at) + BufSiz
           /\ ~Misses => m_bufptr = Page(call.at)
<1>1. call.at \in Nat
  BY CallFields DEF IInv, ReadCalls, WriteCalls, LineCalls
<1> QED BY <1>1, PageFacts DEF Misses

\* A step after which no call is in progress.
LEMMA Idles == ASSUME call' = NoCall PROVE CallOK' /\ call'.op = "none"
BY DEF NoCall, CallOK, Calls, OtherCalls

LEMMA ReadMissKeeps == ASSUME IInv, ReadMiss PROVE IInv'
<1> USE SizeAssumption
<1>1. /\ TypeOK /\ CallOK /\ Coherent /\ call.op = "read" /\ Misses /\ ~modified /\ open
      /\ UNCHANGED <<disk, open, writeable, modified, m_size, m_fileptr>>
      /\ m_fileptr' \in Nat /\ call \in ReadCalls
  BY CallFields DEF IInv, ReadMiss, Goes, MustFlush, TypeOK
<1>2. ASSUME DropPage, call'.op \in Ops PROVE TypeOK' /\ Coherent'
  BY <1>1, <1>2, PageDrops DEF TypeOK, Coherent, disk
<1>3. CASE DropPage /\ Fails
  BY <1>2, <1>3, Idles DEF Fails, IInv, Ops
<1>4. CASE LoadPage(Page(call.at)) /\ UNCHANGED call
  <2>1. TypeOK' /\ Coherent'
    BY <1>1, <1>4, Place, PageLoads DEF Ops
  <2>2. CallOK'
    BY <1>1, <1>4 DEF CallOK
  <2> QED BY <2>1, <2>2 DEF IInv
<1>5. ASSUME DropPage, NEW n \in Nat, n = 0 \/ call.at + n <= length,
             call' = [call EXCEPT !.want = 0,
                         !.data = @ \o [i \in 1..n |-> file[call.at + i - 1]]]
      PROVE  IInv'
  <2>1. \A i \in 1..n : call.at + i - 1 \in Offsets
    <3>1. call.at \in Nat
      BY <1>1 DEF ReadCalls
    <3>2. n = 0 \/ call.at + n <= Limit
      BY <1>1, <1>5, <3>1 DEF TypeOK
    <3> QED BY <3>1, <3>2 DEF Offsets
  <2>2. [i \in 1..n |-> file[call.at + i - 1]] \in Seq(Bytes)
    <3>1. \A i \in 1..n : file[call.at + i - 1] \in Bytes
      BY <1>1, <2>1 DEF TypeOK
    <3> QED BY <3>1, <1>5, IsASeq
  <2>3. call' \in ReadCalls /\ call'.moves = call.moves /\ call'.from = call.from
    <3> DEFINE d == call.data \o [i \in 1..n |-> file[call.at + i - 1]]
    <3>1. d \in Seq(Bytes)
      BY <1>1, <2>2, ConcatProperties DEF ReadCalls
    <3>2. call' = [call EXCEPT !.want = 0, !.data = d]
      BY <1>5
    <3> HIDE DEF d
    <3> QED BY <1>1, <3>1, <3>2 DEF ReadCalls
  <2>4. CallOK'
    BY <1>1, <2>3 DEF CallOK, Calls, ReadCalls
  <2>5. TypeOK' /\ Coherent'
    BY <1>2, <1>5, <2>3 DEF ReadCalls, Ops
  <2> QED BY <2>4, <2>5 DEF IInv
<1>6. CASE /\ DropPage
           /\ LET n == IF call.at >= length THEN 0 ELSE Least(call.want, length - call.at)
              IN  call' = [call EXCEPT !.want = 0,
                              !.data = @ \o [i \in 1..n |-> file[call.at + i - 1]]]
  <2> DEFINE n == IF call.at >= length THEN 0 ELSE Least(call.want, length - call.at)
  <2>1. n \in Nat /\ (n = 0 \/ call.at + n <= length)
    BY <1>1 DEF Least, ReadCalls, TypeOK
  <2> QED BY <1>5, <1>6, <2>1
<1> QED BY <1>3, <1>4, <1>6 DEF ReadMiss

LEMMA ReadHitKeeps == ASSUME IInv, ReadHit PROVE IInv'
<1> USE SizeAssumption
<1> DEFINE bufpos == call.at - m_bufptr
           bytes == Least(m_buflen - bufpos, call.want)
           piece == [i \in 1..bytes |-> m_buffer[bufpos + i - 1]]
           d == call.data \o piece
<1>1. /\ TypeOK /\ CallOK /\ Coherent /\ call.op = "read" /\ open /\ call \in ReadCalls
      /\ UNCHANGED <<disk, open, writeable, modified, m_size, m_fileptr, page>>
      /\ m_bufptr = Page(call.at) /\ m_fileptr' \in Nat
      /\ bufpos \in Nat /\ bufpos < m_buflen /\ call.want > 0
  <2>1. /\ TypeOK /\ CallOK /\ Coherent /\ call.op = "read" /\ ~Misses /\ ~AtEnd
        /\ UNCHANGED <<disk, open, writeable, modified, m_size, m_fileptr, page>>
        /\ call.want > 0
    BY DEF IInv, ReadHit, Goes
  <2>2. /\ call \in ReadCalls /\ open /\ m_fileptr \in Nat /\ m_buflen \in Int
    BY <2>1, SizeAssumption, CallFields DEF TypeOK
  <2>3. /\ call.at \in Nat /\ m_bufptr = Page(call.at) /\ m_bufptr \in Nat
        /\ m_bufptr <= call.at
    BY <2>1, Place
  <2>4. bufpos \in Nat
    BY <2>3
  <2>5. bufpos < m_buflen
    BY <2>1, <2>2, <2>4 DEF AtEnd
  <2> QED BY <2>1, <2>2, <2>3, <2>4, <2>5
<1>2. bytes \in Nat /\ bytes <= call.want /\ bufpos + bytes <= m_buflen
  BY <1>1 DEF Least, ReadCalls, TypeOK
<1>3. piece \in Seq(Bytes)
  <2>1. \A i \in 1..bytes : m_buffer[bufpos + i - 1] \in Bytes
    BY <1>1, <1>2 DEF TypeOK
  <2> HIDE DEF bytes, bufpos
  <2> QED BY <1>2, <2>1, IsASeq
<1>4. d \in Seq(Bytes)
  <2> HIDE DEF piece
  <2> QED BY <1>1, <1>3, ConcatProperties DEF ReadCalls
<1>5. call' = [call EXCEPT !.at = @ + bytes, !.want = @ - bytes, !.data = d]
  BY DEF ReadHit
<1>6. call' \in ReadCalls /\ call'.moves = call.moves /\ call'.from = call.from
  <2> DEFINE at == call.at + bytes
             want == call.want - bytes
  <2>1. at \in Nat /\ want \in Nat
    BY <1>1, <1>2 DEF ReadCalls
  <2>2. call' = [call EXCEPT !.at = at, !.want = want, !.data = d]
    BY <1>1, <1>5 DEF ReadCalls
  <2> HIDE DEF d, at, want
  <2> QED BY <1>1, <1>4, <2>1, <2>2 DEF ReadCalls
<1>7. CallOK'
  BY <1>1, <1>6 DEF CallOK, Calls, ReadCalls
<1>8. TypeOK' /\ Coherent'
  BY <1>1, <1>6, BufferStays DEF ReadCalls, Ops
<1> QED BY <1>7, <1>8 DEF IInv

LEMMA ReadReturnsKeeps == ASSUME IInv, ReadReturns PROVE IInv'
<1>1. call \in ReadCalls /\ call.data \in Seq(Bytes)
  BY CallFields DEF IInv, ReadReturns, Goes, ReadCalls
<1>2. Len(call.data) \in Nat
  BY <1>1, LenProperties
<1>3. m_fileptr' \in Nat
  BY <1>2 DEF IInv, TypeOK, ReadReturns
<1> QED BY <1>3, Idles, BufferStays DEF IInv, ReadReturns, Returns, Ops
-----------------------------------------------------------------------------
\* What is left of a write once n bytes are stored.
LEMMA StoredFacts ==
    ASSUME IInv, call.op = "write", NEW n \in 0..Len(call.left)
    PROVE  /\ Stored(n) \in WriteCalls /\ Stored(n).op = "write"
           /\ Stored(n).at = call.at + n /\ Stored(n).moves = call.moves
           /\ Len(Stored(n).left) = Len(call.left) - n
           /\ \A i \in 1..Len(call.left) - n : Stored(n).left[i] = call.left[n + i]
<1> DEFINE rest == SubSeq(call.left, n + 1, Len(call.left))
<1>1. call \in WriteCalls /\ call.left \in Seq(Bytes) /\ Len(call.left) \in Nat /\ call.at \in Nat
  BY CallFields, LenProperties DEF IInv, WriteCalls
<1>3. /\ rest \in Seq(Bytes)
      /\ Len(rest) = Len(call.left) - n
      /\ \A i \in 1..Len(call.left) - n : rest[i] = call.left[n + i]
  BY <1>1, RestFacts
<1> DEFINE at == call.at + n
<1>4. Stored(n) = [call EXCEPT !.at = at, !.left = rest] /\ at \in Nat
  BY <1>1 DEF Stored, WriteCalls
<1> HIDE DEF rest
<1> QED BY <1>1, <1>3, <1>4 DEF WriteCalls

LEMMA WriteMissKeeps == ASSUME IInv, WriteMiss PROVE IInv'
<1> USE SizeAssumption
<1> DEFINE n == Len(call.left)
           bytes == [i \in 0..n - 1 |-> call.left[i + 1]]
<1>1. /\ TypeOK /\ CallOK /\ Coherent /\ call.op = "write" /\ Misses /\ ~modified /\ open
      /\ UNCHANGED <<open, writeable, modified, m_fileptr>> /\ writeable
      /\ m_fileptr' \in Nat /\ call \in WriteCalls /\ call.left # <<>>
      /\ call.at \in Nat /\ call.left \in Seq(Bytes)
  BY CallFields DEF IInv, WriteMiss, Goes, MustFlush, TypeOK, CallOK, WriteCalls
<1>2. n \in Nat \ {0} /\ call.at + n <= Limit
  BY <1>1, EmptySeq DEF CallOK
<1>3. \A i \in 0..n - 1 : bytes[i] \in Bytes
  BY <1>1, <1>2, ElementOfSeq
<1>4. ASSUME NEW k \in 1..n, DropPage, WriteAt(call.at, bytes, k), call'.op \in Ops
      PROVE  TypeOK' /\ Coherent'
  <2>1. /\ length' \in 0..Limit /\ m_size' = length'
        /\ file' \in [Offsets -> Bytes]
        /\ \A i \in Offsets : i >= length' => file'[i] = Zero
    <3>1. k \in Nat \ {0} /\ call.at + k <= Limit /\ \A i \in 0..k - 1 : bytes[i] \in Bytes
      BY <1>1, <1>2, <1>3
    <3> HIDE DEF bytes
    <3> QED BY <1>1, <1>4, <3>1, WriteAtFacts
  <2> QED BY <1>1, <1>4, <2>1, PageDrops
<1>5. CASE DropPage /\ WriteAt(call.at, bytes, n) /\ call' = Stored(n)
  <2>1. call' \in WriteCalls /\ call'.op = "write" /\ call'.at + Len(call'.left) <= Limit
    BY <1>1, <1>2, <1>5, StoredFacts DEF WriteCalls
  <2>2. CallOK'
    BY <1>1, <2>1 DEF CallOK, Calls
  <2>3. TypeOK' /\ Coherent'
    BY <1>2, <1>4, <1>5, <2>1 DEF Ops
  <2> QED BY <2>2, <2>3 DEF IInv
<1>6. CASE DropPage /\ Fails /\ \E k \in 1..n - 1 : WriteAt(call.at, bytes, k)
  <2>1. CallOK' /\ call'.op \in Ops
    BY <1>6, Idles DEF Fails, Ops
  <2>2. TypeOK' /\ Coherent'
    BY <1>2, <1>4, <1>6, <2>1
  <2> QED BY <2>1, <2>2 DEF IInv
<1>7. CASE LoadPage(Page(call.at)) /\ UNCHANGED <<disk, m_size, call>>
  <2>1. TypeOK' /\ Coherent'
    BY <1>1, <1>7, Place, PageLoads DEF Ops
  <2>2. CallOK'
    BY <1>1, <1>7 DEF CallOK
  <2> QED BY <2>1, <2>2 DEF IInv
<1>8. CASE DropPage /\ Fails /\ UNCHANGED <<disk, m_size>>
  <2>1. CallOK' /\ call'.op \in Ops
    BY <1>8, Idles DEF Fails, Ops
  <2>2. TypeOK' /\ Coherent'
    BY <1>1, <1>8, <2>1, PageDrops DEF TypeOK, Coherent, disk
  <2> QED BY <2>1, <2>2 DEF IInv
<1> QED BY <1>5, <1>6, <1>7, <1>8 DEF WriteMiss

LEMMA WriteHitKeeps == ASSUME IInv, WriteHit PROVE IInv'
<1> USE SizeAssumption
<1> DEFINE bufpos == call.at - m_bufptr
           bytes == Least(BufSiz - bufpos, Len(call.left))
<1>1. /\ TypeOK /\ CallOK /\ Coherent /\ call.op = "write" /\ open /\ writeable
      /\ UNCHANGED <<disk, open, writeable, m_size, m_fileptr, m_bufptr>>
      /\ call \in WriteCalls /\ call.left # <<>> /\ call.left \in Seq(Bytes)
      /\ m_bufptr = Page(call.at) /\ m_bufptr \in Nat /\ call.at \in Nat
      /\ bufpos \in 0..BufSiz - 1 /\ modified' = TRUE
  <2>1. /\ TypeOK /\ CallOK /\ Coherent /\ call.op = "write" /\ ~Misses /\ modified' = TRUE
        /\ UNCHANGED <<disk, open, writeable, m_size, m_fileptr, m_bufptr>>
        /\ call.left # <<>>
    BY DEF IInv, WriteHit, Goes
  <2>2. /\ call \in WriteCalls /\ open /\ writeable
    BY <2>1, CallFields DEF TypeOK, CallOK
  <2>3. /\ call.at \in Nat /\ m_bufptr = Page(call.at) /\ m_bufptr \in Nat
        /\ m_bufptr <= call.at /\ call.at < m_bufptr + BufSiz
    BY <2>1, Place
  <2>4. bufpos \in 0..BufSiz - 1
    BY <2>3
  <2> QED BY <2>1, <2>2, <2>3, <2>4 DEF WriteCalls
<1>2. Len(call.left) \in Nat \ {0} /\ call.at + Len(call.left) <= Limit
  BY <1>1, EmptySeq DEF CallOK
<1>3. /\ bytes \in 1..Len(call.left) /\ bufpos + bytes <= BufSiz
      /\ m_bufptr + (bufpos + bytes) <= Limit
  <2> DEFINE n == Len(call.left)
  <2>1. /\ n \in Nat \ {0} /\ call.at + n <= Limit /\ bufpos \in 0..BufSiz - 1
        /\ call.at \in Nat /\ m_bufptr \in Nat /\ m_bufptr + bufpos = call.at
        /\ bytes = Least(BufSiz - bufpos, n)
    BY <1>1, <1>2
  <2> HIDE DEF n, bufpos, bytes
  <2>2. bytes \in 1..n /\ bufpos + bytes <= BufSiz
    BY <2>1 DEF Least
  <2>3. m_bufptr + (bufpos + bytes) <= Limit
    BY <2>1, <2>2
  <2> QED BY <2>2, <2>3 DEF n
<1>4. /\ m_buffer' = [i \in 0..BufSiz - 1 |->
                         IF bufpos <= i /\ i < bufpos + bytes
                         THEN call.left[i - bufpos + 1] ELSE m_buffer[i]]
      /\ m_buflen' = Most(m_buflen, bufpos + bytes)
      /\ call' = Stored(bytes)
  BY DEF WriteHit
<1>a. bufpos + m_bufptr = call.at
  BY <1>1
<1> HIDE DEF bufpos, bytes
<1>5. m_buffer' \in [0..BufSiz - 1 -> Bytes]
  <2>1. ASSUME NEW i \in 0..BufSiz - 1, bufpos <= i, i < bufpos + bytes
        PROVE  call.left[i - bufpos + 1] \in Bytes
    <3>1. i - bufpos + 1 \in 1..Len(call.left)
      BY <1>1, <1>2, <1>3, <2>1
    <3> QED BY <1>1, <3>1, ElementOfSeq
  <2>2. \A i \in 0..BufSiz - 1 : m_buffer[i] \in Bytes
    BY <1>1 DEF TypeOK
  <2> QED BY <1>4, <2>1, <2>2
<1>6. /\ m_buflen' \in 1..BufSiz /\ m_bufptr + m_buflen' <= Limit
      /\ m_buflen' >= m_buflen
  BY <1>1, <1>3, <1>4 DEF Most, TypeOK, Coherent
<1>7. call' \in WriteCalls /\ call'.op = "write" /\ call'.at + Len(call'.left) <= Limit
  <2>1. bytes \in 0..Len(call.left)
    BY <1>2, <1>3
  <2>2. /\ call' \in WriteCalls /\ call'.op = "write"
        /\ call'.at = call.at + bytes /\ Len(call'.left) = Len(call.left) - bytes
    BY <1>1, <1>4, <2>1, StoredFacts
  <2> QED BY <1>1, <1>2, <2>1, <2>2
<1>8. CallOK'
  BY <1>1, <1>7 DEF CallOK, Calls
<1>9. PageOK'
  BY <1>1, <1>5, <1>6, TypeParts DEF PageOK, Page
<1>10. RestOK'
  BY <1>1, <1>6, <1>7, TypeParts DEF RestOK, disk, Ops
<1>11. PageLength(m_bufptr)' = PageLength(m_bufptr)
  BY <1>1 DEF PageLength, disk
<1>12. m_buflen' >= PageLength(m_bufptr)
  <2>1. m_buflen >= PageLength(m_bufptr)
    <3>1. CASE modified
      BY <1>1, <3>1 DEF Coherent
    <3>2. CASE ~modified
      BY <1>1, <3>2 DEF Coherent, TypeOK
    <3> QED BY <3>1, <3>2
  <2>2. PageLength(m_bufptr) \in Nat /\ m_buflen \in Nat
    BY <1>1, PageLengthFacts DEF TypeOK
  <2> QED BY <1>6, <2>1, <2>2
<1>13. Coherent'
  BY <1>1, <1>6, <1>7, <1>11, <1>12 DEF Coherent, disk
<1> QED BY <1>8, <1>9, <1>10, <1>13, TypeParts DEF IInv

LEMMA WriteReturnsKeeps == ASSUME IInv, WriteReturns PROVE IInv'
<1>1. call.at \in Nat
  BY CallFields DEF IInv, WriteReturns, WriteCalls
<1>2. m_fileptr' \in Nat
  BY <1>1 DEF IInv, TypeOK, WriteReturns
<1> QED BY <1>2, Idles, BufferStays DEF IInv, WriteReturns, Returns, Ops
-----------------------------------------------------------------------------
\* A step of a line that neither changes the page nor ends the call.
LEMMA LineGoesOn ==
    ASSUME IInv, call.op = "line", call' \in LineCalls,
           UNCHANGED <<disk, open, writeable, modified, m_size, m_fileptr>>,
           UNCHANGED page \/ LoadPage(Page(call.at))
    PROVE  IInv'
<1>1. TypeOK /\ CallOK /\ Coherent /\ ~modified /\ open /\ m_fileptr' \in Nat
      /\ call'.op = "line"
  BY DEF IInv, Coherent, TypeOK, LineCalls
<1>2. TypeOK' /\ Coherent'
  BY <1>1, Place, PageLoads, BufferStays DEF Ops
<1>3. CallOK'
  BY <1>1 DEF CallOK, Calls
<1> QED BY <1>2, <1>3 DEF IInv

\* A step that ends a line.
LEMMA LineEnds ==
    ASSUME IInv, call.op = "line", call' = NoCall,
           UNCHANGED <<disk, open, writeable, modified, m_size, page>>, m_fileptr' \in Nat
    PROVE  IInv'
BY Idles, BufferStays DEF IInv, Ops

LEMMA LineEntersKeeps == ASSUME IInv, LineEnters PROVE IInv'
<1> USE DEF LineEnters, Goes
<1>1. CASE Fails /\ UNCHANGED page
  BY <1>1, LineEnds DEF Fails, IInv, TypeOK
<1>2. CASE call' = [call EXCEPT !.phase = "scan"]
           /\ IF Misses THEN LoadPage(Page(call.at)) ELSE UNCHANGED page
  <2>1. call' \in LineCalls
    BY <1>2, CallFields DEF IInv, LineCalls
  <2> QED BY <1>2, <2>1, LineGoesOn
<1> QED BY <1>1, <1>2

LEMMA LineTurnsKeeps == ASSUME IInv, LineTurns PROVE IInv'
<1> USE DEF LineTurns, Goes
<1>1. CASE Fails /\ UNCHANGED page
  BY <1>1, LineEnds DEF Fails, IInv, TypeOK
<1>2. CASE LoadPage(Page(call.at)) /\ UNCHANGED call
  <2>1. call' \in LineCalls
    BY <1>2, CallFields DEF IInv
  <2> QED BY <1>2, <2>1, LineGoesOn
<1> QED BY <1>1, <1>2 DEF Fails

\* A piece of the buffer.
LEMMA PieceType ==
    ASSUME TypeOK, NEW a \in Nat, NEW b \in a..m_buflen
    PROVE  [i \in 1..b - a |-> m_buffer[a + i - 1]] \in Seq(Bytes)
<1>1. b - a \in Nat /\ \A i \in 1..b - a : m_buffer[a + i - 1] \in Bytes
  BY SizeAssumption DEF TypeOK
<1> QED BY <1>1, IsASeq

LEMMA LineScansKeeps == ASSUME IInv, LineScans PROVE IInv'
<1> USE SizeAssumption
<1> DEFINE bufpos == call.at - m_bufptr
           Bytes1(a, b) == [i \in 1..b - a |-> m_buffer[a + i - 1]]
           stops == {i \in bufpos..m_buflen - 1 : m_buffer[i] \in {LF, CR}}
           stop == CHOOSE i \in stops : \A j \in stops : i <= j
           skipped == m_buflen - bufpos
<1>1. /\ TypeOK /\ call.op = "line" /\ call \in LineCalls
      /\ call.data \in Seq(Bytes) /\ call.at \in Nat /\ call.count \in Nat
      /\ m_bufptr = Page(call.at) /\ m_bufptr \in Nat /\ bufpos \in Nat
      /\ UNCHANGED <<disk, open, writeable, modified, m_size, page>>
      /\ m_buflen \in Nat /\ m_fileptr \in Nat
  <2>1. call.op = "line" /\ ~Misses
        /\ UNCHANGED <<disk, open, writeable, modified, m_size, page>>
    BY DEF LineScans, Goes
  <2>2. call \in LineCalls /\ TypeOK
    BY <2>1, CallFields DEF IInv
  <2>3. m_bufptr = Page(call.at) /\ m_bufptr \in Nat /\ bufpos \in Nat
    BY <2>1, Place
  <2> QED BY <2>1, <2>2, <2>3 DEF LineCalls, TypeOK
<1> HIDE DEF bufpos
<1>2. CASE bufpos >= m_buflen
  <2>1. stops = {} /\ ~(bufpos < m_buflen)
    BY <1>1, <1>2
  <2>2. call' = NoCall /\ (m_fileptr' = m_fileptr \/ m_fileptr' = m_fileptr + call.count)
    BY <2>1 DEF LineScans, LineReturns, Returns, Fails, bufpos
  <2> QED BY <1>1, <2>2, LineEnds
<1>3. CASE /\ bufpos < m_buflen /\ stops = {}
           /\ call' = [call EXCEPT !.data = @ \o Bytes1(bufpos, m_buflen),
                          !.at = @ + skipped, !.count = @ + skipped]
           /\ UNCHANGED m_fileptr
  <2> DEFINE d == call.data \o Bytes1(bufpos, m_buflen)
  <2>1. d \in Seq(Bytes)
    <3>1. Bytes1(bufpos, m_buflen) \in Seq(Bytes)
      <4>1. m_buflen \in bufpos..m_buflen
        BY <1>1, <1>3
      <4> QED BY <1>1, <4>1, PieceType
    <3> HIDE DEF Bytes1
    <3> QED BY <1>1, <3>1, ConcatProperties
  <2>2. skipped \in Nat
    BY <1>1, <1>3
  <2>3. call' = [call EXCEPT !.data = d, !.at = @ + skipped, !.count = @ + skipped]
    BY <1>3
  <2>4. call' \in LineCalls
    <3> DEFINE at == call.at + skipped
               count == call.count + skipped
    <3>1. at \in Nat /\ count \in Nat
      BY <1>1, <2>2
    <3>2. call' = [call EXCEPT !.data = d, !.at = at, !.count = count]
      BY <1>1, <2>3 DEF LineCalls
    <3> HIDE DEF d, at, count
    <3> QED BY <1>1, <2>1, <3>1, <3>2 DEF LineCalls
  <2> QED BY <1>1, <1>3, <2>4, LineGoesOn
<1>4. ASSUME stops # {}
      PROVE  stop \in bufpos..m_buflen - 1
  <2>1. stops \subseteq Nat
    BY <1>1
  <2>2. \E i \in stops : \A j \in stops : i <= j
    BY <1>4, <2>1, LeastExists
  <2>3. stop \in stops
    BY <2>2
  <2> QED BY <2>3
<1> HIDE DEF stop
<1>5. CASE /\ stops # {}
           /\ LineReturns(call.data \o Bytes1(bufpos, stop), call.count + stop + 1 - bufpos)
  <2>1. call' = NoCall /\ m_fileptr' = m_fileptr + (call.count + stop + 1 - bufpos)
    BY <1>5 DEF LineReturns, Returns
  <2>2. m_fileptr' \in Nat
    <3>1. m_fileptr \in Nat /\ call.count \in Nat /\ bufpos \in Nat /\ m_buflen \in Nat
      BY <1>1
    <3>2. stop \in bufpos..m_buflen - 1
      BY <1>4, <1>5
    <3>3. m_fileptr + (call.count + stop + 1 - bufpos) \in Nat
      BY <3>1, <3>2
    <3> QED BY <2>1, <3>3
  <2> QED BY <1>1, <2>1, <2>2, LineEnds
<1>6. CASE /\ stops # {}
           /\ call' = [call EXCEPT !.phase = "cr",
                          !.data = @ \o Bytes1(bufpos, stop) \o Bytes1(bufpos, m_buflen),
                          !.at = @ + 2 * skipped, !.count = @ + 2 * skipped]
           /\ UNCHANGED m_fileptr
  <2> DEFINE d == call.data \o Bytes1(bufpos, stop) \o Bytes1(bufpos, m_buflen)
             at == call.at + 2 * skipped
             count == call.count + 2 * skipped
  <2>1. d \in Seq(Bytes)
    <3>1. stop \in bufpos..m_buflen /\ m_buflen \in bufpos..m_buflen
      BY <1>1, <1>4, <1>6
    <3>2. Bytes1(bufpos, m_buflen) \in Seq(Bytes) /\ Bytes1(bufpos, stop) \in Seq(Bytes)
      BY <1>1, <3>1, PieceType
    <3> HIDE DEF Bytes1
    <3> QED BY <1>1, <3>2, ConcatProperties
  <2>2. at \in Nat /\ count \in Nat
    <3>1. stop \in bufpos..m_buflen - 1
      BY <1>4, <1>6
    <3>2. skipped \in Nat
      BY <1>1, <3>1
    <3> HIDE DEF skipped
    <3> QED BY <1>1, <3>2
  <2>3. call' = [call EXCEPT !.phase = "cr", !.data = d, !.at = at, !.count = count]
    BY <1>1, <1>6 DEF LineCalls
  <2>4. call' \in LineCalls
    <3> HIDE DEF d, at, count
    <3> QED BY <1>1, <2>1, <2>2, <2>3 DEF LineCalls
  <2> QED BY <1>1, <1>6, <2>4, LineGoesOn
<1> QED BY <1>2, <1>3, <1>5, <1>6 DEF LineScans, bufpos, stop

LEMMA LineEndsInCRKeeps == ASSUME IInv, LineEndsInCR PROVE IInv'
<1>1. call \in LineCalls
  BY CallFields DEF IInv, LineEndsInCR, Goes
<1>2. call' = NoCall /\ m_fileptr' \in Nat
  BY <1>1 DEF LineEndsInCR, LineReturns, Returns, IInv, TypeOK, LineCalls
<1> QED BY <1>2, LineEnds DEF LineEndsInCR, Goes
-----------------------------------------------------------------------------
LEMMA SetSizeKeeps == ASSUME IInv, SetSize PROVE IInv'
<1> USE SizeAssumption, ByteAssumption
<1>1. /\ TypeOK /\ Coherent /\ call.op = "size" /\ ~modified /\ open /\ DropPage
      /\ UNCHANGED <<open, writeable, modified, m_fileptr>> /\ m_fileptr' \in Nat
      /\ call' = NoCall
  BY DEF IInv, SetSize, Goes, MustFlush, TypeOK, Fails, Returns
<1>2. call.size \in 0..Limit
  BY <1>1, CallFields DEF IInv
<1>3. CASE /\ file' = [i \in Offsets |-> IF i < call.size THEN file[i] ELSE Zero]
           /\ length' = call.size
           /\ m_size' = call.size
  <2>1. /\ file' \in [Offsets -> Bytes]
        /\ \A o \in Offsets : o >= length' => file'[o] = Zero
    BY <1>1, <1>2, <1>3 DEF TypeOK, Offsets
  <2> QED BY <1>1, <1>2, <1>3, <2>1, PageDrops, Idles DEF IInv, Ops
<1>4. CASE UNCHANGED <<disk, m_size>>
  BY <1>1, <1>4, PageDrops, Idles DEF IInv, Ops, TypeOK, Coherent, disk
<1> QED BY <1>3, <1>4 DEF SetSize

LEMMA SyncsKeeps == ASSUME IInv, Syncs PROVE IInv'
<1>1. call' = NoCall
  BY DEF Syncs, Returns, Fails
<1> QED BY <1>1, Idles, BufferStays DEF IInv, Syncs, TypeOK, Ops

LEMMA ClosesKeeps == ASSUME IInv, Closes PROVE IInv'
<1>1. call' = NoCall /\ ~modified /\ UNCHANGED <<disk, writeable, modified, m_size, m_fileptr, page>>
      /\ open' = FALSE
  BY DEF Closes, Returns, Fails, Goes, MustFlush
<1>2. PageOK'
  BY <1>1, TypeParts, PageStays DEF IInv
<1>3. CallOK' /\ call'.op = "none"
  BY <1>1, Idles
<1>4. RestOK'
  BY <1>1, <1>3, TypeParts DEF IInv, RestOK, disk, page, Ops
<1>5. Coherent'
  BY <1>1, <1>3 DEF IInv, Coherent, disk, page
<1> QED BY <1>2, <1>3, <1>4, <1>5, TypeParts DEF IInv
-----------------------------------------------------------------------------
\* Every step of the specification keeps the invariant.
LEMMA StepKeeps == ASSUME ~MayReadDirtyLines, IInv, [Next]_vars PROVE IInv'
<1>1. CASE UNCHANGED vars
  BY <1>1 DEF vars, IInv, TypeOK, Page, CallOK, Coherent, PageLength
<1>2. CASE Starts
  BY <1>2, ReadFileKeeps, WriteFileKeeps, ReadLineKeeps, SetFileSizeKeeps,
     SetFilePosKeeps, SyncOrCloseKeeps, OpenFileKeeps DEF Starts
<1>3. CASE Steps
  BY <1>3, FlushKeeps, ReadMissKeeps, ReadHitKeeps, ReadReturnsKeeps,
     WriteMissKeeps, WriteHitKeeps, WriteReturnsKeeps, LineEntersKeeps, LineTurnsKeeps,
     LineScansKeeps, LineEndsInCRKeeps, SetSizeKeeps, SyncsKeeps, ClosesKeeps DEF Steps
<1> QED BY <1>1, <1>2, <1>3 DEF Next

THEOREM Invariance == ASSUME ~MayReadDirtyLines PROVE Spec => []IInv
<1>1. Init => IInv
  BY InitHolds
<1>2. IInv /\ [Next]_vars => IInv'
  BY StepKeeps
<1> QED BY <1>1, <1>2, PTL DEF Spec

\* The sizes, positions and buffer of an open file have their types in every
\* state: a modified buffer holds bytes, and belongs to a file that is open and
\* may be written.
THEOREM TypeCorrect == ASSUME ~MayReadDirtyLines PROVE Spec => []TypeOK
<1>1. IInv => TypeOK
  BY DEF IInv
<1> QED BY <1>1, Invariance, PTL

\* Between two calls, getSize answers the size of what was written, whether or not
\* it has reached the file, but for a page beyond the end that was read.
THEOREM SizesAreTold == ASSUME ~MayReadDirtyLines PROVE Spec => []SizeIsTold
<1>1. IInv => SizeIsTold
  <2> SUFFICES ASSUME IInv, open, call.op = "none"
               PROVE  GetSize = IF m_buflen = 0 THEN Most(Size, m_bufptr) ELSE Size
    BY DEF SizeIsTold
  <2> USE SizeAssumption
  <2>1. TypeOK /\ m_size = length /\ length \in Nat /\ m_buflen \in Nat
        /\ (modified => m_buflen > 0) /\ modified \in BOOLEAN
    BY DEF IInv, TypeOK, Coherent
  <2>2. CASE m_bufptr = -1
    BY <2>1, <2>2 DEF TypeOK, GetSize, Size, Most
  <2>3. CASE m_bufptr \in Nat /\ modified
    BY <2>1, <2>3 DEF GetSize, Size, Most
  <2>4. CASE m_bufptr \in Nat /\ ~modified
    <3>1. m_buflen = PageLength(m_bufptr)
      BY <2>4 DEF IInv, Coherent
    <3>2. m_buflen > 0 => m_bufptr + m_buflen <= length
      BY <2>1, <2>4, <3>1, PageLengthFacts DEF TypeOK
    <3> QED BY <2>1, <2>4, <3>2 DEF GetSize, Size, Most
  <2> QED BY <2>1, <2>2, <2>3, <2>4 DEF TypeOK
<1> QED BY <1>1, Invariance, PTL

\* No step of a line changes a byte of what was written, or its size.
THEOREM LinesAreReadOnly == ASSUME ~MayReadDirtyLines PROVE Spec => LinesChangeNothing
<1>1. IInv /\ [Next]_vars => [call.op = "line" => Contents' = Contents /\ Size' = Size]_vars
  <2> SUFFICES ASSUME IInv, Next, call.op = "line" PROVE Contents' = Contents /\ Size' = Size
    OBVIOUS
  <2>1. ~modified /\ open
    BY DEF IInv, Coherent, TypeOK
  <2>2. ~Starts
    BY <2>1 DEF Starts, ReadFile, WriteFile, ReadLine, SetFileSize, SetFilePos, SyncOrClose,
       OpenFile, Ready
  <2>3. UNCHANGED <<disk, modified>>
    BY <2>1, <2>2 DEF Next, Steps, Flush, ReadMiss, ReadHit, ReadReturns, WriteMiss, WriteHit,
       WriteReturns, LineEnters, LineTurns, LineScans, LineEndsInCR, SetSize, Syncs, Closes, Goes
  <2> QED BY <2>1, <2>3 DEF Contents, InBuffer, Size, disk
<1> QED BY <1>1, Invariance, PTL DEF Spec, LinesChangeNothing

-----------------------------------------------------------------------------
(* The buffered file implements the plain file.                            *)

\* What a read has gathered is what the caller wrote there, and what it still
\* wants is the rest; it wants no more when it has all, or all that there is.
ReadGood ==
    call.op = "read" =>
        /\ call.want > 0 => /\ call.at = call.from + Len(call.data)
                            /\ call.asked = Len(call.data) + call.want
        /\ call.want = 0 => \/ Len(call.data) = call.asked
                            \/ /\ Len(call.data) <= call.asked
                               /\ call.from + Len(call.data) >= Size
        /\ call.data # <<>> => call.from + Len(call.data) <= Size
        /\ \A i \in 1..Len(call.data) : call.data[i] = Contents[call.from + i - 1]

\* What a line has gathered has no delimiter in it.
LineGood ==
    call.op = "line" =>
        /\ call.from = m_fileptr
        /\ call.phase = "entry" =>
              call.data = <<>> /\ call.at = call.from /\ call.count = 0
        /\ call.phase = "scan" =>
              /\ call.at = call.from + Len(call.data) /\ call.count = Len(call.data)
              /\ call.data # <<>> => call.at <= length
              /\ \A i \in 1..Len(call.data) :
                    call.data[i] = file[call.from + i - 1] /\ call.data[i] \notin {LF, CR}
        /\ call.phase = "cr" =>
              \E o \in call.from..length - 1 :
                  file[o] = CR /\ \A p \in call.from..o - 1 : file[p] # LF

JInv == IInv /\ ReadGood /\ LineGood
-----------------------------------------------------------------------------
\* What an unmodified buffer leaves to be seen is the file.
LEMMA FileShows ==
    ASSUME TypeOK, ~modified
    PROVE  Contents = file /\ Size = length
BY DEF Contents, InBuffer, Size, TypeOK

\* What is in the buffer is what the caller sees there.
LEMMA BufferShows ==
    ASSUME IInv, open, m_bufptr \in Nat, NEW i \in 0..m_buflen - 1
    PROVE  /\ m_bufptr + i \in Offsets /\ m_bufptr + i < Size
           /\ Contents[m_bufptr + i] = m_buffer[i]
<1> USE SizeAssumption
<1>1. TypeOK /\ m_buflen \in Nat /\ m_bufptr + m_buflen <= Limit /\ length \in Nat /\ Limit \in Nat
      /\ modified \in BOOLEAN
  BY DEF IInv, TypeOK, Coherent
<1>2. m_bufptr + i \in Offsets
  BY <1>1 DEF Offsets
<1>3. CASE modified
  <2>1. InBuffer(m_bufptr + i) /\ (m_bufptr + i) - m_bufptr = i
    BY <1>1, <1>3 DEF InBuffer
  <2>2. Contents[m_bufptr + i] = m_buffer[i]
    BY <1>2, <2>1 DEF Contents
  <2>3. m_bufptr + i < Size
    BY <1>1, <1>3 DEF Size, Most
  <2> QED BY <1>2, <2>2, <2>3
<1>4. CASE ~modified
  <2>1. m_buflen = PageLength(m_bufptr) /\ m_buffer[i] = file[m_bufptr + i]
    BY <1>1, <1>4 DEF IInv, Coherent
  <2>2. m_bufptr + m_buflen <= length
    BY <1>1, <2>1, PageLengthFacts DEF TypeOK
  <2> QED BY <1>1, <1>2, <1>4, <2>1, <2>2, FileShows
<1> QED BY <1>1, <1>3, <1>4

\* What the caller sees has the type of a file.
LEMMA ShownType == ASSUME IInv PROVE Contents \in [Offsets -> Bytes] /\ Size \in 0..Limit
<1> USE SizeAssumption
<1>1. Size \in 0..Limit
  BY DEF IInv, TypeOK, Coherent, Size, Most
<1>2. ASSUME NEW o \in Offsets, InBuffer(o) PROVE m_buffer[o - m_bufptr] \in Bytes
  <2>1. m_bufptr \in Nat /\ o - m_bufptr \in 0..BufSiz - 1
    BY <1>2 DEF InBuffer, IInv, TypeOK, Offsets
  <2> QED BY <2>1 DEF IInv, TypeOK
<1>3. Contents \in [Offsets -> Bytes]
  BY <1>2 DEF Contents, IInv, TypeOK
<1> QED BY <1>1, <1>3

Shown == Contents \in [Offsets -> Bytes] /\ Size \in 0..Limit

LEMMA ShownNext == IInv' => Contents' \in [Offsets -> Bytes] /\ Size' \in 0..Limit
<1>1. IInv => Shown
  BY ShownType DEF Shown
<1>2. IInv' => Shown'
  BY <1>1, PTL
<1> QED BY <1>2 DEF Shown

\* syncFile changes nothing that the caller sees, unless it fails to close.
LEMMA FlushShows ==
    ASSUME IInv, Flush, open'
    PROVE  Contents' = Contents /\ Size' = Size
<1> USE SizeAssumption
<1>1. /\ TypeOK /\ Coherent /\ modified /\ m_buflen \in 1..BufSiz
      /\ m_bufptr \in Nat /\ m_bufptr + m_buflen <= Limit /\ length \in 0..Limit
      /\ m_bufptr' = m_bufptr /\ m_buflen' = m_buflen /\ m_buffer' = m_buffer
  BY DEF IInv, TypeOK, Flush, Coherent, page
<1>2. ASSUME NEW n \in 1..m_buflen, WriteAt(m_bufptr, m_buffer, n),
             modified' \in BOOLEAN, ~modified' => n = m_buflen
      PROVE  Contents' = Contents /\ Size' = Size
  <2>1. \A i \in 0..n - 1 : m_buffer[i] \in Bytes
    BY <1>1 DEF TypeOK
  <2>2. /\ length' = Most(length, m_bufptr + n)
        /\ \A o \in Offsets :
              file'[o] = IF m_bufptr <= o /\ o < m_bufptr + n
                         THEN m_buffer[o - m_bufptr] ELSE file[o]
    BY <1>1, <1>2, <2>1, WriteAtFacts
  <2>3. Size' = Size
    BY <1>1, <1>2, <2>2 DEF Size, Most
  <2>4. ASSUME NEW o \in Offsets
        PROVE  (IF InBuffer(o) THEN m_buffer[o - m_bufptr] ELSE file[o])'
                 = IF InBuffer(o) THEN m_buffer[o - m_bufptr] ELSE file[o]
    BY <1>1, <1>2, <2>2, <2>4 DEF InBuffer, Offsets
  <2>5. Contents' = Contents
    BY <2>4 DEF Contents, Offsets
  <2> QED BY <2>3, <2>5
<1>3. CASE WriteAt(m_bufptr, m_buffer, m_buflen) /\ modified' = FALSE
  <2>1. m_buflen \in 1..m_buflen
    BY <1>1
  <2>2. modified' \in BOOLEAN
    BY <1>3
  <2> QED BY <1>2, <1>3, <2>1, <2>2
<1>4. CASE UNCHANGED <<file, length, m_size>> /\ modified' = modified
  BY <1>1, <1>4 DEF Contents, InBuffer, Size
<1>5. CASE modified' = modified /\ \E n \in 1..m_buflen - 1 : WriteAt(m_bufptr, m_buffer, n)
  <2>1. PICK n \in 1..m_buflen - 1 : WriteAt(m_bufptr, m_buffer, n)
    BY <1>5
  <2>2. n \in 1..m_buflen /\ modified' \in BOOLEAN /\ modified'
    BY <1>1, <1>5, <2>1 DEF TypeOK
  <2> QED BY <1>2, <2>1, <2>2
<1> QED BY <1>1, <1>3, <1>4, <1>5 DEF Flush
-----------------------------------------------------------------------------
LEMMA JInit == Init => JInv
BY InitHolds DEF Init, JInv, ReadGood, LineGood, NoCall

\* A piece appended to what a read has gathered.
LEMMA Gathers ==
    ASSUME IInv, ReadGood, call.op = "read", call.want > 0,
           NEW n \in Nat, NEW piece, piece \in [1..n -> Bytes],
           n > 0 => call.at + n <= Size,
           \A i \in 1..n : piece[i] = Contents[call.at + i - 1]
    PROVE  LET d == call.data \o piece IN
           /\ d \in Seq(Bytes) /\ Len(d) = Len(call.data) + n
           /\ d # <<>> => call.from + Len(d) <= Size
           /\ \A i \in 1..Len(d) : d[i] = Contents[call.from + i - 1]
<1> DEFINE d == call.data \o piece
<1>1. /\ call \in ReadCalls /\ call.data \in Seq(Bytes) /\ call.from \in Nat /\ call.at \in Nat
      /\ Len(call.data) \in Nat
  BY CallFields, LenProperties DEF IInv, ReadCalls
<1>2. piece \in Seq(Bytes) /\ Len(piece) = n
  OBVIOUS
<1>3. /\ d \in Seq(Bytes) /\ Len(d) = Len(call.data) + n
      /\ \A i \in 1..Len(call.data) + n :
            d[i] = IF i <= Len(call.data) THEN call.data[i] ELSE piece[i - Len(call.data)]
  <2>1. /\ d \in Seq(Bytes) /\ Len(d) = Len(call.data) + Len(piece)
        /\ \A i \in 1..Len(call.data) + Len(piece) :
              d[i] = IF i <= Len(call.data) THEN call.data[i] ELSE piece[i - Len(call.data)]
    BY <1>1, <1>2, ConcatProperties
  <2> QED BY <1>2, <2>1
<1> HIDE DEF d
<1>4. /\ call.at = call.from + Len(call.data)
      /\ call.data # <<>> => call.from + Len(call.data) <= Size
      /\ \A i \in 1..Len(call.data) : call.data[i] = Contents[call.from + i - 1]
  BY DEF ReadGood
<1>5. Size \in Nat
  BY ShownType, SizeAssumption
<1>6. d # <<>> => call.from + Len(d) <= Size
  <2>1. CASE n > 0
    <3>1. Len(call.data) \in Nat /\ call.from \in Nat /\ call.at = call.from + Len(call.data)
          /\ Len(d) = Len(call.data) + n /\ call.at + n <= Size
      BY <1>1, <1>3, <1>4, <2>1
    <3> QED BY <3>1
  <2>2. CASE n = 0
    <3>1. d # <<>> => call.data # <<>>
      BY <1>1, <1>3, <2>2, EmptySeq
    <3> QED BY <1>1, <1>3, <1>4, <2>2, <3>1
  <2> QED BY <2>1, <2>2
<1>7. ASSUME NEW i \in 1..Len(d) PROVE d[i] = Contents[call.from + i - 1]
  <2>1. CASE i <= Len(call.data)
    BY <1>1, <1>3, <1>4, <2>1
  <2>2. CASE i > Len(call.data)
    <3> DEFINE j == i - Len(call.data)
    <3>1. j \in 1..n /\ call.at + j - 1 = call.from + i - 1
      <4>1. Len(call.data) \in Nat /\ call.from \in Nat /\ call.at = call.from + Len(call.data)
            /\ i \in 1..Len(call.data) + n
        BY <1>1, <1>3, <1>4
      <4> QED BY <2>2, <4>1
    <3>2. d[i] = piece[j]
      BY <1>1, <1>3, <2>2
    <3> QED BY <3>1, <3>2
  <2> QED BY <1>1, <1>3, <2>1, <2>2
<1> QED BY <1>3, <1>6, <1>7 DEF d

LEMMA ReadMissGood == ASSUME JInv, ReadMiss PROVE ReadGood'
<1> USE SizeAssumption
<1>1. /\ IInv /\ ReadGood /\ TypeOK /\ call.op = "read" /\ ~modified /\ call \in ReadCalls
      /\ UNCHANGED <<disk, modified>> /\ call.want > 0
      /\ call.at \in Nat /\ call.want \in Nat /\ length \in 0..Limit
  BY CallFields DEF JInv, IInv, ReadMiss, Goes, MustFlush, TypeOK, ReadCalls
<1>2. Contents = file /\ Size = length /\ Contents' = Contents /\ Size' = Size
  BY <1>1 DEF TypeOK, Contents, InBuffer, Size, disk
<1>3. CASE Fails
  BY <1>3 DEF Fails, NoCall, ReadGood
<1>4. CASE UNCHANGED call
  BY <1>1, <1>2, <1>4 DEF ReadGood
<1>5. CASE LET n == IF call.at >= length THEN 0 ELSE Least(call.want, length - call.at)
           IN  call' = [call EXCEPT !.want = 0,
                           !.data = @ \o [i \in 1..n |-> file[call.at + i - 1]]]
  <2> DEFINE n == IF call.at >= length THEN 0 ELSE Least(call.want, length - call.at)
             piece == [i \in 1..n |-> file[call.at + i - 1]]
             d == call.data \o piece
  <2>1. n \in Nat /\ (n > 0 => call.at + n <= length)
    BY <1>1 DEF Least
  <2>2. call' = [call EXCEPT !.want = 0, !.data = d]
    BY <1>5
  <2> HIDE DEF n
  <2>3. \A i \in 1..n : call.at + i - 1 \in Offsets
    BY <1>1, <2>1 DEF Offsets
  <2>4. /\ piece \in [1..n -> Bytes]
        /\ \A i \in 1..n : piece[i] = Contents[call.at + i - 1]
    BY <1>1, <1>2, <2>3 DEF TypeOK
  <2> HIDE DEF piece
  <2>5. /\ d # <<>> => call.from + Len(d) <= Size
        /\ \A i \in 1..Len(d) : d[i] = Contents[call.from + i - 1]
    <3>1. IInv /\ ReadGood /\ call.op = "read" /\ call.want > 0
      BY <1>1
    <3>2. n > 0 => call.at + n <= Size
      BY <1>2, <2>1
    <3> QED BY <2>1, <2>4, <3>1, <3>2, Gathers
  <2>7. Len(d) = Len(call.data) + n
    <3>1. IInv /\ ReadGood /\ call.op = "read" /\ call.want > 0
      BY <1>1
    <3>2. n > 0 => call.at + n <= Size
      BY <1>2, <2>1
    <3> QED BY <2>1, <2>4, <3>1, <3>2, Gathers
  <2> HIDE DEF d
  <2>6. call'.data = d /\ call'.from = call.from /\ call'.want = 0 /\ call'.asked = call.asked
    BY <1>1, <2>2 DEF ReadCalls
  <2>8. /\ call.at = call.from + Len(call.data) /\ call.asked = Len(call.data) + call.want
        /\ call.from \in Nat /\ Len(call.data) \in Nat
    BY <1>1, LenProperties DEF ReadGood, ReadCalls
  <2>9. n = call.want \/ (n <= call.want /\ call.at + n >= length)
    BY <1>1 DEF n, Least
  <2>10. Len(d) = call.asked \/ (Len(d) <= call.asked /\ call.from + Len(d) >= length)
    BY <1>1, <2>1, <2>7, <2>8, <2>9
  <2>11. /\ (call'.data # <<>> => call'.from + Len(call'.data) <= Size')
         /\ \A i \in 1..Len(call'.data) : call'.data[i] = Contents'[call'.from + i - 1]
    BY <1>2, <2>5, <2>6
  <2>12. \/ Len(call'.data) = call'.asked
         \/ Len(call'.data) <= call'.asked /\ call'.from + Len(call'.data) >= Size'
    BY <1>2, <2>6, <2>10
  <2> QED BY <2>6, <2>11, <2>12 DEF ReadGood
<1> QED BY <1>3, <1>4, <1>5 DEF ReadMiss

LEMMA ReadHitGood == ASSUME JInv, ReadHit PROVE ReadGood'
<1> USE SizeAssumption
<1> DEFINE bufpos == call.at - m_bufptr
           bytes == Least(m_buflen - bufpos, call.want)
           piece == [i \in 1..bytes |-> m_buffer[bufpos + i - 1]]
           d == call.data \o piece
<1>1. /\ IInv /\ ReadGood /\ TypeOK /\ call.op = "read" /\ open /\ call \in ReadCalls
      /\ UNCHANGED <<disk, modified, page>>
      /\ m_bufptr \in Nat /\ call.at \in Nat /\ call.want \in Nat
      /\ bufpos \in Nat /\ bufpos < m_buflen /\ call.want > 0 /\ m_buflen \in Nat
  <2>1. /\ IInv /\ ReadGood /\ TypeOK /\ CallOK /\ call.op = "read" /\ ~Misses /\ ~AtEnd
        /\ UNCHANGED <<disk, modified, page>> /\ call.want > 0
    BY DEF JInv, IInv, ReadHit, Goes
  <2>2. /\ call \in ReadCalls /\ open /\ m_buflen \in Nat
    BY <2>1, SizeAssumption, CallFields DEF TypeOK
  <2>3. call.at \in Nat /\ m_bufptr \in Nat /\ m_bufptr <= call.at
    BY <2>1, Place
  <2>4. bufpos \in Nat
    BY <2>3
  <2>5. bufpos < m_buflen
    BY <2>1, <2>2, <2>4 DEF AtEnd
  <2> QED BY <2>1, <2>2, <2>3, <2>4, <2>5 DEF ReadCalls
<1>2. Contents' = Contents /\ Size' = Size
  BY <1>1 DEF Contents, InBuffer, Size, disk, page
<1>3. bytes \in Nat \ {0} /\ bytes <= call.want /\ bufpos + bytes <= m_buflen
  BY <1>1 DEF Least
<1>4. call' = [call EXCEPT !.at = @ + bytes, !.want = @ - bytes, !.data = d]
  BY DEF ReadHit
<1>5. m_bufptr + bufpos = call.at
  BY <1>1
<1> HIDE DEF bufpos, bytes
<1>6. \A i \in 1..bytes : /\ bufpos + i - 1 \in 0..m_buflen - 1
                          /\ m_bufptr + (bufpos + i - 1) = call.at + i - 1
  BY <1>1, <1>3, <1>5
<1>7. /\ piece \in [1..bytes -> Bytes]
      /\ \A i \in 1..bytes : piece[i] = Contents[call.at + i - 1]
  <2>1. \A i \in 1..bytes : /\ m_buffer[bufpos + i - 1] \in Bytes
                            /\ Contents[call.at + i - 1] = m_buffer[bufpos + i - 1]
    BY <1>1, <1>6, BufferShows DEF TypeOK
  <2> QED BY <2>1
<1>8. call.at + bytes <= Size
  <2>1. bufpos + bytes - 1 \in 0..m_buflen - 1
    BY <1>1, <1>3
  <2>2. m_bufptr + (bufpos + bytes - 1) < Size
    BY <1>1, <2>1, BufferShows
  <2> QED BY <1>1, <1>3, <1>5, <2>2, ShownType
<1> HIDE DEF piece
<1>9. /\ d \in Seq(Bytes) /\ Len(d) = Len(call.data) + bytes
      /\ d # <<>> => call.from + Len(d) <= Size
      /\ \A i \in 1..Len(d) : d[i] = Contents[call.from + i - 1]
  <2>1. IInv /\ ReadGood /\ call.op = "read" /\ call.want > 0 /\ bytes \in Nat
    BY <1>1, <1>3
  <2> QED BY <1>7, <1>8, <2>1, Gathers
<1>10. /\ call.at = call.from + Len(call.data) /\ call.from \in Nat /\ Len(call.data) \in Nat
       /\ call.asked = Len(call.data) + call.want
  BY <1>1, LenProperties DEF ReadGood, ReadCalls
<1> HIDE DEF d
<1>11. /\ call'.data = d /\ call'.from = call.from /\ call'.at = call.at + bytes
       /\ call'.asked = call.asked /\ call'.want = call.want - bytes
  BY <1>1, <1>4 DEF ReadCalls
<1>12. call'.at = call'.from + Len(call'.data)
  <2>1. Len(d) = Len(call.data) + bytes /\ bytes \in Nat
    BY <1>3, <1>9
  <2> QED BY <1>10, <1>11, <2>1
<1>13. call'.asked = Len(call'.data) + call'.want
  <2>1. Len(d) = Len(call.data) + bytes /\ bytes \in Nat /\ call.want \in Nat
    BY <1>1, <1>3, <1>9
  <2> QED BY <1>10, <1>11, <2>1
<1>14. call'.want = 0 => Len(call'.data) = call'.asked
  <2>1. Len(call'.data) \in Nat
    BY <1>9, <1>11, LenProperties
  <2> QED BY <1>13, <2>1
<1>15. /\ (call'.data # <<>> => call'.from + Len(call'.data) <= Size')
       /\ \A i \in 1..Len(call'.data) : call'.data[i] = Contents'[call'.from + i - 1]
  BY <1>2, <1>9, <1>11
<1> QED BY <1>12, <1>13, <1>14, <1>15 DEF ReadGood

\* What a read has gathered stays right when nothing that is seen changes.
LEMMA ReadGoodStays ==
    ASSUME ReadGood, call' = call, call.op = "read" => Contents' = Contents /\ Size' = Size
    PROVE  ReadGood'
BY DEF ReadGood

LEMMA LineGoodStays ==
    ASSUME LineGood, UNCHANGED <<call, file, length, m_fileptr>> PROVE LineGood'
BY DEF LineGood

\* A step after which neither is in progress.
LEMMA GoodOtherwise == ASSUME call'.op \notin {"read", "line"} PROVE ReadGood' /\ LineGood'
BY DEF ReadGood, LineGood

LEMMA FlushGood == ASSUME JInv, Flush PROVE ReadGood' /\ LineGood'
<1>1. call.op # "line" /\ open
  BY DEF JInv, IInv, Coherent, TypeOK, Flush
<1>2. CASE call'.op = "none"
  BY <1>2, GoodOtherwise
<1>3. CASE UNCHANGED <<open, call>>
  BY <1>1, <1>3, FlushShows, ReadGoodStays DEF JInv, LineGood
<1> QED BY <1>2, <1>3 DEF Flush, Fails, NoCall
-----------------------------------------------------------------------------
\* Where a line is, and what it is in.
LEMMA LinePlace ==
    ASSUME JInv, call.op = "line"
    PROVE  /\ TypeOK /\ ~modified /\ open /\ call \in LineCalls
           /\ call.from = m_fileptr /\ call.from \in Nat /\ call.at \in Nat
           /\ call.data \in Seq(Bytes) /\ Len(call.data) \in Nat
           /\ length \in 0..Limit /\ Limit \in Nat /\ m_buflen \in 0..BufSiz
           /\ Contents = file /\ Size = length
           /\ ~Misses => /\ m_bufptr = Page(call.at) /\ m_bufptr \in Nat
                         /\ m_bufptr <= call.at /\ call.at < m_bufptr + BufSiz
                         /\ m_buflen = PageLength(m_bufptr)
                         /\ m_buflen > 0 => m_bufptr + m_buflen <= length
                         /\ m_buflen < BufSiz => length <= m_bufptr + m_buflen
                         /\ \A i \in 0..m_buflen - 1 : m_buffer[i] = file[m_bufptr + i]
<1>1. /\ IInv /\ TypeOK /\ ~modified /\ open /\ call \in LineCalls /\ call.from = m_fileptr
      /\ length \in 0..Limit /\ Limit \in Nat /\ m_buflen \in 0..BufSiz
  BY CallFields, SizeAssumption DEF JInv, IInv, Coherent, TypeOK, LineGood
<1>2. /\ call.from \in Nat /\ call.at \in Nat /\ call.data \in Seq(Bytes)
      /\ Len(call.data) \in Nat
  BY <1>1, LenProperties DEF LineCalls
<1>3. ASSUME ~Misses
      PROVE  /\ m_bufptr = Page(call.at) /\ m_bufptr \in Nat
             /\ m_bufptr <= call.at /\ call.at < m_bufptr + BufSiz
             /\ m_buflen = PageLength(m_bufptr)
             /\ m_buflen > 0 => m_bufptr + m_buflen <= length
             /\ m_buflen < BufSiz => length <= m_bufptr + m_buflen
             /\ \A i \in 0..m_buflen - 1 : m_buffer[i] = file[m_bufptr + i]
  <2>1. /\ m_bufptr = Page(call.at) /\ m_bufptr \in Nat
        /\ m_bufptr <= call.at /\ call.at < m_bufptr + BufSiz
    BY <1>1, <1>3, Place
  <2>2. /\ m_buflen = PageLength(m_bufptr)
        /\ \A i \in 0..m_buflen - 1 : m_buffer[i] = file[m_bufptr + i]
    BY <1>1, <2>1 DEF IInv, Coherent
  <2> QED BY <1>1, <2>1, <2>2, PageLengthFacts
<1> QED BY <1>1, <1>2, <1>3, FileShows

LEMMA LineEntersGood == ASSUME JInv, LineEnters PROVE LineGood'
<1>1. /\ call.op = "line" /\ call.phase = "entry" /\ LineGood /\ call \in LineCalls
      /\ call.from \in Nat /\ call.data = <<>> /\ call.at = call.from /\ call.count = 0
      /\ UNCHANGED <<disk, m_fileptr>>
  BY LinePlace DEF JInv, LineEnters, Goes, LineGood
<1>2. CASE Fails
  BY <1>2, GoodOtherwise DEF Fails, NoCall
<1>3. CASE call' = [call EXCEPT !.phase = "scan"]
  <2>1. /\ call'.op = "line" /\ call'.phase = "scan" /\ call'.from = call.from
        /\ call'.at = call.at /\ call'.data = <<>> /\ call'.count = 0
    BY <1>1, <1>3 DEF LineCalls
  <2>2. Len(call'.data) = 0
    BY <2>1
  <2> QED BY <1>1, <2>1, <2>2 DEF LineGood, disk
<1> QED BY <1>2, <1>3 DEF LineEnters

LEMMA LineTurnsGood == ASSUME JInv, LineTurns PROVE LineGood'
<1>1. CASE Fails
  BY <1>1, GoodOtherwise DEF Fails, NoCall
<1>2. CASE UNCHANGED call
  BY <1>2, LineGoodStays DEF JInv, LineTurns, disk
<1> QED BY <1>1, <1>2 DEF LineTurns

\* The bytes that were examined up to place k of the buffer, with those that were
\* gathered before, are those of the file from the beginning of the line on.
LEMMA Scanned ==
    ASSUME JInv, call.op = "line", call.phase = "scan", ~Misses,
           NEW b \in Nat, m_bufptr + b = call.at, NEW k \in Nat, b <= k, k <= m_buflen,
           \A i \in b..k - 1 : m_buffer[i] \notin {LF, CR}
    PROVE  LET d == call.data \o [i \in 1..k - b |-> m_buffer[b + i - 1]] IN
           /\ d \in Seq(Bytes) /\ call.from + Len(d) = m_bufptr + k
           /\ Len(d) = Len(call.data) + (k - b)
           /\ \A i \in 1..Len(d) : d[i] = file[call.from + i - 1] /\ d[i] \notin {LF, CR}
<1> DEFINE piece == [i \in 1..k - b |-> m_buffer[b + i - 1]]
           d == call.data \o piece
           m == Len(call.data)
<1>1. /\ call.from \in Nat /\ call.at \in Nat /\ m_bufptr \in Nat /\ m_buflen \in Nat
      /\ call.data \in Seq(Bytes) /\ m \in Nat /\ TypeOK
      /\ m_buflen <= BufSiz /\ m_bufptr <= call.at
  BY LinePlace, SizeAssumption
<1>2. /\ call.at = call.from + m
      /\ \A i \in 1..m : call.data[i] = file[call.from + i - 1] /\ call.data[i] \notin {LF, CR}
  BY DEF JInv, LineGood
<1>3. b \in Nat /\ k \in Nat /\ b <= k /\ k <= m_buflen /\ m_bufptr + b = call.at
  OBVIOUS
<1>4. ASSUME NEW i \in 1..k - b
      PROVE  b + i - 1 \in b..k - 1 /\ b + i - 1 \in 0..m_buflen - 1
  <2>1. i \in Int /\ 1 <= i /\ i <= k - b /\ m_buflen \in Nat
    BY <1>1, <1>3
  <2> QED BY <1>3, <2>1
<1>5. \A i \in 0..m_buflen - 1 : m_buffer[i] \in Bytes /\ m_buffer[i] = file[m_bufptr + i]
  BY <1>1, LinePlace, SizeAssumption, SMTT(30) DEF TypeOK
<1>6. /\ piece \in [1..k - b -> Bytes]
      /\ \A i \in 1..k - b : /\ piece[i] = file[m_bufptr + (b + i - 1)]
                             /\ piece[i] \notin {LF, CR}
  BY <1>4, <1>5
<1>7. piece \in Seq(Bytes) /\ Len(piece) = k - b
  <2>1. k - b \in Nat
    BY <1>3
  <2> HIDE DEF piece
  <2> QED BY <1>6, <2>1
<1> HIDE DEF piece
<1>8. /\ d \in Seq(Bytes) /\ Len(d) = m + (k - b)
      /\ \A i \in 1..m + (k - b) : d[i] = IF i <= m THEN call.data[i] ELSE piece[i - m]
  <2>1. /\ d \in Seq(Bytes) /\ Len(d) = Len(call.data) + Len(piece)
        /\ \A i \in 1..Len(call.data) + Len(piece) :
              d[i] = IF i <= Len(call.data) THEN call.data[i] ELSE piece[i - Len(call.data)]
    <3>1. call.data \in Seq(Bytes) /\ piece \in Seq(Bytes)
      BY <1>1, <1>7
    <3> HIDE DEF m
    <3> QED BY <3>1, ConcatProperties
  <2> QED BY <1>7, <2>1
<1> HIDE DEF d, m
<1>a. /\ call.at \in Nat /\ m_buflen \in Nat /\ call.from \in Nat /\ m_bufptr \in Nat /\ m \in Nat /\ b \in Nat /\ k \in Nat /\ b <= k
      /\ m_bufptr + b = call.from + m
  BY <1>1, <1>2, <1>3
<1>b. Len(d) = m + (k - b)
  BY <1>8
<1>9. call.from + Len(d) = m_bufptr + k
  BY <1>a, <1>b
<1>10. ASSUME NEW i \in 1..Len(d) PROVE d[i] = file[call.from + i - 1] /\ d[i] \notin {LF, CR}
  <2>1. i \in 1..m + (k - b)
    BY <1>8
  <2>2. CASE i <= m
    <3>1. i \in 1..m
      BY <1>a, <2>1, <2>2
    <3>2. d[i] = call.data[i]
      BY <1>8, <2>1, <2>2
    <3> QED BY <1>2, <3>1, <3>2
  <2>3. CASE ~(i <= m)
    <3> DEFINE j == i - m
    <3>1. j \in 1..k - b /\ m_bufptr + (b + j - 1) = call.from + i - 1
      BY <1>a, <2>1, <2>3
    <3>2. d[i] = piece[j]
      BY <1>8, <2>1, <2>3
    <3> QED BY <1>6, <3>1, <3>2
  <2> QED BY <2>2, <2>3
<1> QED BY <1>8, <1>9, <1>10 DEF d, m, piece

LEMMA LineScansGood == ASSUME JInv, LineScans PROVE LineGood'
<1> DEFINE bufpos == call.at - m_bufptr
           Bytes1(a, b) == [i \in 1..b - a |-> m_buffer[a + i - 1]]
           stops == {i \in bufpos..m_buflen - 1 : m_buffer[i] \in {LF, CR}}
           stop == CHOOSE i \in stops : \A j \in stops : i <= j
           skipped == m_buflen - bufpos
<1>1. /\ call.op = "line" /\ call.phase = "scan" /\ ~Misses
      /\ UNCHANGED <<disk, open, writeable, modified, m_size, page>>
  BY DEF LineScans, Goes
<1>2. /\ call \in LineCalls /\ call.from = m_fileptr /\ call.from \in Nat
      /\ call.at \in Nat /\ call.data \in Seq(Bytes) /\ m_bufptr \in Nat /\ m_buflen \in Nat
      /\ bufpos \in Nat /\ m_bufptr + bufpos = call.at /\ length \in Nat
      /\ m_buflen > 0 => m_bufptr + m_buflen <= length
      /\ \A i \in 0..m_buflen - 1 : m_buffer[i] = file[m_bufptr + i]
  BY <1>1, LinePlace, SizeAssumption
<1>3. call.at = call.from + Len(call.data) /\ call.count = Len(call.data) /\ Len(call.data) \in Nat
  BY <1>1, <1>2, LenProperties DEF JInv, LineGood
<1> HIDE DEF bufpos
<1>4. CASE call' = NoCall
  BY <1>4, GoodOtherwise DEF NoCall
<1>5. CASE /\ bufpos < m_buflen /\ stops = {}
           /\ call' = [call EXCEPT !.data = @ \o Bytes1(bufpos, m_buflen),
                          !.at = @ + skipped, !.count = @ + skipped]
           /\ UNCHANGED m_fileptr
  <2> DEFINE d == call.data \o Bytes1(bufpos, m_buflen)
             at == call.at + skipped
             count == call.count + skipped
  <2>1. \A i \in bufpos..m_buflen - 1 : m_buffer[i] \notin {LF, CR}
    BY <1>5
  <2>2. bufpos <= m_buflen /\ m_buflen <= m_buflen
    BY <1>2, <1>5
  <2>3. /\ d \in Seq(Bytes) /\ call.from + Len(d) = m_bufptr + m_buflen
        /\ Len(d) = Len(call.data) + skipped
        /\ \A i \in 1..Len(d) : d[i] = file[call.from + i - 1] /\ d[i] \notin {LF, CR}
    BY <1>1, <1>2, <2>1, <2>2, Scanned, ZenonT(30)
  <2>4. at = call.from + Len(d) /\ count = Len(d) /\ at <= length
    <3> DEFINE n == Len(call.data)
               e == Len(d)
    <3>1. /\ call.from \in Nat /\ n \in Nat /\ m_bufptr \in Nat /\ m_buflen \in Nat
          /\ bufpos \in Nat /\ bufpos < m_buflen /\ length \in Nat
      BY <1>2, <1>3, <1>5
    <3>2. /\ call.at = call.from + n /\ call.count = n /\ e = n + skipped
          /\ call.from + e = m_bufptr + m_buflen
      BY <1>3, <2>3
    <3>3. m_buflen > 0 => m_bufptr + m_buflen <= length
      BY <1>2
    <3> HIDE DEF n, e, d
    <3>4. at = call.from + e /\ count = e
      BY <3>1, <3>2
    <3>5. at <= length
      BY <3>1, <3>2, <3>3, <3>4
    <3> QED BY <3>4, <3>5 DEF e
  <2>5. call' = [call EXCEPT !.data = d, !.at = at, !.count = count]
    BY <1>2, <1>5 DEF LineCalls
  <2> HIDE DEF d, at, count
  <2>6. /\ call'.op = "line" /\ call'.phase = "scan" /\ call'.from = call.from
        /\ call'.data = d /\ call'.at = at /\ call'.count = count
    BY <1>1, <1>2, <2>5 DEF LineCalls
  <2> QED BY <1>1, <1>2, <1>5, <2>3, <2>4, <2>6 DEF LineGood, disk
<1>6. CASE /\ stops # {} /\ m_buffer[stop] = CR
           /\ call' = [call EXCEPT !.phase = "cr",
                          !.data = @ \o Bytes1(bufpos, stop) \o Bytes1(bufpos, m_buflen),
                          !.at = @ + 2 * skipped, !.count = @ + 2 * skipped]
           /\ UNCHANGED m_fileptr
  <2>1. /\ stop \in bufpos..m_buflen - 1
        /\ \A i \in bufpos..stop - 1 : m_buffer[i] \notin {LF, CR}
    <3>1. stops \subseteq Nat /\ stops # {}
      <4>1. bufpos \in Nat /\ m_buflen \in Nat
        BY <1>2
      <4>2. bufpos..m_buflen - 1 \subseteq Nat
        BY <4>1
      <4> QED BY <1>6, <4>2
    <3>2. \E i \in stops : \A j \in stops : i <= j
      BY <3>1, LeastExists
    <3>3. stop \in stops /\ \A j \in stops : stop <= j
      BY <3>2
    <3> HIDE DEF stop
    <3>4. stop \in bufpos..m_buflen - 1
      BY <3>3
    <3>5. ASSUME NEW i \in bufpos..stop - 1 PROVE m_buffer[i] \notin {LF, CR}
      <4>1. i \in bufpos..m_buflen - 1 /\ ~(stop <= i)
        BY <1>2, <3>4, <3>5
      <4> QED BY <3>3, <4>1
    <3> QED BY <3>4, <3>5
  <2> HIDE DEF stop
  <2> DEFINE d == call.data \o Bytes1(bufpos, stop)
             o == m_bufptr + stop
  <2>2. stop \in Nat /\ bufpos <= stop /\ stop <= m_buflen /\ stop \in 0..m_buflen - 1
    BY <1>2, <2>1
  <2>3. /\ d \in Seq(Bytes) /\ call.from + Len(d) = m_bufptr + stop
        /\ \A i \in 1..Len(d) : d[i] = file[call.from + i - 1] /\ d[i] \notin {LF, CR}
    BY <1>1, <1>2, <2>1, <2>2, Scanned, ZenonT(30)
  <2>4. Len(d) \in Nat
    BY <2>3, LenProperties
  <2> HIDE DEF d
  <2>5. o \in call.from..length - 1 /\ file[o] = CR
    <3> DEFINE n == Len(d)
    <3>1. /\ call.from \in Nat /\ m_bufptr \in Nat /\ m_buflen \in Nat /\ length \in Nat
          /\ stop \in 0..m_buflen - 1 /\ n \in Nat /\ call.from + n = m_bufptr + stop
          /\ m_buflen > 0 => m_bufptr + m_buflen <= length
      BY <1>2, <2>2, <2>3, <2>4
    <3> HIDE DEF n
    <3>2. m_bufptr + stop \in call.from..length - 1
      BY <3>1
    <3>3. file[m_bufptr + stop] = CR
      BY <1>2, <1>6, <2>2
    <3> QED BY <3>2, <3>3
  <2>6. ASSUME NEW p \in call.from..o - 1 PROVE file[p] # LF
    <3> DEFINE i == p - call.from + 1
    <3>1. i \in 1..Len(d) /\ call.from + i - 1 = p
      <4> DEFINE n == Len(d)
      <4>1. /\ call.from \in Nat /\ n \in Nat /\ m_bufptr \in Nat /\ stop \in Nat
            /\ call.from + n = o /\ p \in call.from..o - 1
        BY <1>2, <2>2, <2>3, <2>4, <2>6
      <4> HIDE DEF n, o
      <4>2. i \in 1..n /\ call.from + i - 1 = p
        BY <4>1
      <4> QED BY <4>2 DEF n
    <3> QED BY <2>3, <3>1
  <2>7. call'.op = "line" /\ call'.phase = "cr" /\ call'.from = call.from
    BY <1>1, <1>2, <1>6 DEF LineCalls
  <2> HIDE DEF o
  <2> QED BY <1>1, <1>2, <1>6, <2>5, <2>6, <2>7 DEF LineGood, disk
<1> QED BY <1>4, <1>5, <1>6 DEF LineScans, LineReturns, Returns, Fails, bufpos
-----------------------------------------------------------------------------
\* Every step of the specification keeps the invariant.
LEMMA JStepKeeps == ASSUME ~MayReadDirtyLines, JInv, [Next]_vars PROVE JInv'
<1>1. IInv'
  BY StepKeeps DEF JInv
<1> SUFFICES ReadGood' /\ LineGood'
  BY <1>1 DEF JInv
<1>2. CASE UNCHANGED vars
  BY <1>2 DEF vars, JInv, ReadGood, LineGood, Contents, InBuffer, Size
<1>3. CASE Starts
  <2>1. ASSUME NEW o \in 0..Limit, NEW n \in Counts, NEW moves \in BOOLEAN,
               ReadFile(o, n, moves)
        PROVE  ReadGood' /\ LineGood'
    <3>1. /\ call'.op = "read" /\ call'.data = <<>> /\ call'.from = o /\ call'.at = o
          /\ call'.want = n /\ call'.asked = n
      BY <2>1 DEF ReadFile
    <3>2. o \in Nat /\ Len(<<>>) = 0 /\ n \in Nat /\ n > 0
      BY SizeAssumption, CountAssumption
    <3>3. LineGood'
      BY <3>1 DEF LineGood
    <3>4. Len(call'.data) = 0
      BY <3>1, <3>2
    <3>5. call'.at = call'.from + Len(call'.data) /\ call'.asked = Len(call'.data) + call'.want
      BY <3>1, <3>2, <3>4
    <3>6. ReadGood'
      BY <3>1, <3>2, <3>4, <3>5 DEF ReadGood
    <3> QED BY <3>3, <3>6
  <2>2. ASSUME ReadLine PROVE ReadGood' /\ LineGood'
    BY <2>2 DEF ReadLine, ReadGood, LineGood
  <2>3. ASSUME NEW w \in BOOLEAN, OpenFile(w) PROVE ReadGood' /\ LineGood'
    BY <2>3, GoodOtherwise DEF OpenFile, JInv, IInv, TypeOK
  <2>4. ASSUME NEW o \in 0..Limit, NEW d \in Payloads, NEW moves \in BOOLEAN,
               WriteFile(o, d, moves)
        PROVE  ReadGood' /\ LineGood'
    BY <2>4, GoodOtherwise DEF WriteFile, Ready
  <2>5. ASSUME NEW n \in 0..Limit, SetFileSize(n) PROVE ReadGood' /\ LineGood'
    BY <2>5, GoodOtherwise DEF SetFileSize, Ready
  <2>6. ASSUME NEW how \in {"absolut", "current", "end"}, NEW o \in -1..Limit,
               SetFilePos(how, o)
        PROVE  ReadGood' /\ LineGood'
    BY <2>6, GoodOtherwise DEF SetFilePos, Ready
  <2>7. ASSUME NEW op \in {"sync", "close"}, SyncOrClose(op) PROVE ReadGood' /\ LineGood'
    BY <2>7, GoodOtherwise DEF SyncOrClose
  <2> QED BY <1>3, <2>1, <2>2, <2>3, <2>4, <2>5, <2>6, <2>7 DEF Starts
<1>4. CASE Steps
  <2>1. CASE Flush
    BY <2>1, FlushGood
  <2>2. CASE ReadMiss
    <3>1. call \in ReadCalls /\ call.op = "read"
      BY <2>2, CallFields DEF ReadMiss, Goes, IInv, JInv
    <3>2. call'.op # "line"
      <4>1. call' = NoCall \/ call'.op = call.op
        BY <2>2, <3>1 DEF ReadMiss, Fails, ReadCalls
      <4> QED BY <3>1, <4>1 DEF NoCall
    <3> QED BY <2>2, <3>2, ReadMissGood DEF LineGood
  <2>3. CASE ReadHit
    BY <2>3, ReadHitGood DEF ReadHit, Goes, LineGood, IInv, JInv, ReadCalls
  <2>4. CASE ReadReturns \/ WriteReturns \/ LineEndsInCR \/ SetSize \/ Syncs \/ Closes
    BY <2>4, GoodOtherwise DEF ReadReturns, WriteReturns, LineEndsInCR, LineReturns, SetSize,
       Syncs, Closes, Returns, Fails, NoCall
  <2>5. CASE WriteMiss \/ WriteHit
    BY <2>5, GoodOtherwise DEF WriteMiss, WriteHit, Goes, Fails, NoCall, Stored
  <2>6. CASE LineEnters \/ LineTurns \/ LineScans
    <3>1. call \in LineCalls /\ call.op = "line"
      BY <2>6, LinePlace DEF LineEnters, LineTurns, LineScans, Goes
    <3>2. CASE LineEnters \/ LineTurns
      <4>1. call'.op # "read"
        BY <3>1, <3>2 DEF LineEnters, LineTurns, Fails, NoCall, LineCalls
      <4> QED BY <3>2, <4>1, LineEntersGood, LineTurnsGood DEF ReadGood
    <3>3. CASE LineScans
      <4>1. call' = NoCall \/ (DOMAIN call' = DOMAIN call /\ call'.op = call.op)
        BY <3>1, <3>3 DEF LineScans, LineReturns, Returns, Fails, LineCalls
      <4>2. call'.op # "read"
        BY <3>1, <4>1 DEF NoCall
      <4> QED BY <3>3, <4>2, LineScansGood DEF ReadGood
    <3> QED BY <2>6, <3>2, <3>3
  <2> QED BY <1>4, <2>1, <2>2, <2>3, <2>4, <2>5, <2>6 DEF Steps
<1> QED BY <1>2, <1>3, <1>4 DEF Next
-----------------------------------------------------------------------------
\* The steps of the plain file, one lemma for each step of the buffered one.
LEMMA PlainInit == Init => Plain!Init
<1> SUFFICES ASSUME Init PROVE Plain!Init
  OBVIOUS
<1>1. ~modified /\ call.op = "none"
  BY DEF Init, NoCall
<1>2. Contents = file /\ Size = length
  BY <1>1 DEF Init, Contents, InBuffer, Size
<1>3. Pending = Plain!Idle
  BY <1>1 DEF Pending, Plain!Idle
<1> QED BY <1>2, <1>3 DEF Init, Plain!Init, Plain!Offsets, Offsets, Answer, Plain!Answer

LEMMA Asked ==
    /\ call.op = "none" => Pending = Plain!Idle
    /\ call'.op = "none" => Pending' = Plain!Idle
    /\ Pending.op = call.op
BY DEF Pending, Plain!Idle

\* A step that nobody sees.
LEMMA PlainStutters ==
    ASSUME Contents' = Contents, Size' = Size, call' = call, UNCHANGED <<m_fileptr, answer>>
    PROVE  [Plain!Next]_Plain!vars
BY DEF Plain!vars, Pending

\* A step in which a read or a line goes on.
LEMMA PlainGoesOn ==
    ASSUME Contents' = Contents, Size' = Size, call.op \in {"read", "line"},
           call'.op = call.op, call'.from = call.from,
           call.op = "read" => call'.asked = call.asked /\ call'.moves = call.moves,
           UNCHANGED <<m_fileptr, answer>>
    PROVE  [Plain!Next]_Plain!vars
<1>1. Pending' = Pending
  BY DEF Pending
<1> QED BY <1>1 DEF Plain!vars

\* A call begins.
LEMMA PlainCalls ==
    ASSUME Contents' = Contents, Size' = Size, call.op = "none",
           Pending' \in Plain!Requests, Pending'.moves => Pending'.at = m_fileptr,
           UNCHANGED m_fileptr, answer' = Unanswered
    PROVE  [Plain!Next]_Plain!vars
<1>1. Pending = Plain!Idle
  BY Asked
<1>2. Plain!Call
  BY <1>1, Zenon DEF Plain!Call, Unanswered, Plain!Unanswered
<1> QED BY <1>2 DEF Plain!Next

\* A call is refused.
LEMMA PlainRefuses ==
    ASSUME Contents' = Contents, Size' = Size, call.op = "none", call' = call,
           UNCHANGED m_fileptr, NEW op \in {"write", "size", "pos"}, answer' = Failure(op)
    PROVE  [Plain!Next]_Plain!vars
<1>1. Pending = Plain!Idle /\ Pending' = Pending
  BY Asked
<1>2. Plain!Refuse
  BY <1>1 DEF Plain!Refuse, Failure, Plain!Failure
<1> QED BY <1>2 DEF Plain!Next

\* A call fails that is no write.
LEMMA PlainFails ==
    ASSUME Contents' = Contents, Size' = Size, UNCHANGED m_fileptr,
           call.op \in {"read", "line", "size", "sync", "close"}, call'.op = "none",
           answer' = Failure(call.op)
    PROVE  [Plain!Next]_Plain!vars
<1>1. Pending.op = call.op /\ Pending' = Plain!Idle
  BY Asked
<1>2. Plain!Fail
  BY <1>1 DEF Plain!Fail, Plain!Ends, Failure, Plain!Failure
<1> QED BY <1>2 DEF Plain!Next

\* A write fails after a piece, or after nothing.
LEMMA PlainWriteFails ==
    ASSUME IInv, Contents' = Contents, Size' = Size, call \in WriteCalls, Fails,
           UNCHANGED m_fileptr
    PROVE  [Plain!Next]_Plain!vars
<1>1. call.op = "write" /\ call'.op = "none" /\ Len(call.left) \in Nat /\ answer' = Failure("write")
  BY LenProperties DEF WriteCalls, Fails, NoCall
<1>2. /\ Pending.op = "write" /\ Pending.left = call.left /\ Pending.at = call.at
      /\ Pending' = Plain!Idle
  BY <1>1, Asked DEF Pending
<1>3. Plain!Stores(0)
  <2>1. Contents' \in [Offsets -> Bytes]
    BY ShownType
  <2>2. call.at \in Nat /\ Limit \in Nat
    BY SizeAssumption DEF WriteCalls
  <2> QED BY <1>2, <2>1, <2>2 DEF Plain!Stores, Plain!Offsets, Offsets
<1>4. Plain!FailWrite
  BY <1>1, <1>2, <1>3 DEF Plain!FailWrite, Plain!Ends, Failure, Plain!Failure
<1> QED BY <1>4 DEF Plain!Next
-----------------------------------------------------------------------------
LEMMA StartsRefine == ASSUME JInv, Starts PROVE [Plain!Next]_Plain!vars
<1> USE SizeAssumption
<1>1. IInv /\ TypeOK
  BY DEF JInv, IInv
<1>2. ASSUME UNCHANGED <<disk, modified, page>> PROVE Contents' = Contents /\ Size' = Size
  BY <1>2 DEF Contents, InBuffer, Size, disk, page
<1>3. ASSUME NEW o \in 0..Limit, NEW n \in Counts, NEW moves \in BOOLEAN, ReadFile(o, n, moves)
      PROVE  [Plain!Next]_Plain!vars
  <2>1. /\ call.op = "none" /\ answer' = Unanswered /\ UNCHANGED m_fileptr
        /\ Contents' = Contents /\ Size' = Size /\ (moves => o = m_fileptr)
    BY <1>2, <1>3 DEF ReadFile, Ready
  <2>2. Pending' = [op |-> "read", at |-> o, count |-> n, left |-> <<>>, moves |-> moves]
    BY <1>3 DEF ReadFile, Pending
  <2>3. Pending' \in Plain!Requests
    <3>1. o \in Nat /\ n \in Nat /\ <<>> \in Seq(Bytes)
      BY CountAssumption, EmptySeq
    <3> QED BY <2>2, <3>1 DEF Plain!Requests
  <2>4. Pending'.moves => Pending'.at = m_fileptr
    BY <2>1, <2>2
  <2> QED BY <2>1, <2>3, <2>4, PlainCalls
<1>4. ASSUME NEW o \in 0..Limit, NEW d \in Payloads, NEW moves \in BOOLEAN,
             WriteFile(o, d, moves)
      PROVE  [Plain!Next]_Plain!vars
  <2>1. /\ call.op = "none" /\ UNCHANGED m_fileptr /\ (moves => o = m_fileptr)
        /\ Contents' = Contents /\ Size' = Size
    BY <1>2, <1>4 DEF WriteFile, Ready
  <2>2. CASE writeable
    <3>1. Pending' = [op |-> "write", at |-> o, count |-> 0, left |-> d, moves |-> moves]
      BY <1>4, <2>2 DEF WriteFile, Pending
    <3>2. Pending' \in Plain!Requests
      <4>1. o \in Nat /\ d \in Seq(Bytes)
        BY PayloadAssumption
      <4> QED BY <3>1, <4>1 DEF Plain!Requests
    <3>3. Pending'.moves => Pending'.at = m_fileptr
      BY <2>1, <3>1
    <3>4. answer' = Unanswered
      BY <1>4, <2>2 DEF WriteFile
    <3> QED BY <2>1, <3>2, <3>3, <3>4, PlainCalls
  <2>3. CASE ~writeable
    BY <1>4, <2>1, <2>3, PlainRefuses DEF WriteFile
  <2> QED BY <2>2, <2>3
<1>5. CASE ReadLine
  <2>1. /\ call.op = "none" /\ answer' = Unanswered /\ UNCHANGED m_fileptr
        /\ Contents' = Contents /\ Size' = Size
    BY <1>2, <1>5 DEF ReadLine, Ready
  <2>2. Pending' = [op |-> "line", at |-> m_fileptr, count |-> 0, left |-> <<>>, moves |-> TRUE]
    BY <1>5 DEF ReadLine, Pending
  <2>3. Pending' \in Plain!Requests
    <3>1. m_fileptr \in Nat /\ <<>> \in Seq(Bytes)
      BY <1>1, EmptySeq DEF TypeOK
    <3> QED BY <2>2, <3>1 DEF Plain!Requests
  <2> QED BY <2>1, <2>2, <2>3, PlainCalls
<1>6. ASSUME NEW n \in 0..Limit, SetFileSize(n) PROVE [Plain!Next]_Plain!vars
  <2>1. /\ call.op = "none" /\ UNCHANGED m_fileptr /\ Contents' = Contents /\ Size' = Size
    BY <1>2, <1>6 DEF SetFileSize, Ready
  <2>2. CASE writeable
    <3>1. Pending' = [op |-> "size", at |-> 0, count |-> n, left |-> <<>>, moves |-> FALSE]
      <4>1. call' = [op |-> "size", size |-> n]
        BY <1>6, <2>2 DEF SetFileSize
      <4>2. call'.op = "size" /\ call'.size = n
        BY <4>1
      <4> QED BY <4>2 DEF Pending
    <3>2. Pending' \in Plain!Requests
      BY <3>1, EmptySeq DEF Plain!Requests
    <3>3. answer' = Unanswered
      BY <1>6, <2>2 DEF SetFileSize
    <3> QED BY <2>1, <3>1, <3>2, <3>3, PlainCalls
  <2>3. CASE ~writeable
    BY <1>6, <2>1, <2>3, PlainRefuses DEF SetFileSize
  <2> QED BY <2>2, <2>3
<1>7. ASSUME NEW how \in {"absolut", "current", "end"}, NEW o \in -1..Limit, SetFilePos(how, o)
      PROVE  [Plain!Next]_Plain!vars
  <2> DEFINE base == CASE how = "absolut" -> 0 [] how = "current" -> m_fileptr
                       [] how = "end" -> GetSize
  <2>1. base \in Nat
    BY <1>1 DEF TypeOK, GetSize, Most
  <2>2. /\ base + o <= Limit /\ call.op = "none" /\ call' = call
        /\ Contents' = Contents /\ Size' = Size
        /\ IF base + o < 0
           THEN answer' = Failure("pos") /\ UNCHANGED m_fileptr
           ELSE answer' = Answer("pos", base + o, <<>>) /\ m_fileptr' = base + o
    BY <1>2, <1>7 DEF SetFilePos, Ready
  <2> HIDE DEF base
  <2>3. CASE base + o < 0
    BY <2>2, <2>3, PlainRefuses
  <2>4. CASE ~(base + o < 0)
    <3>1. m_fileptr' \in 0..Limit
      BY <2>1, <2>2, <2>4
    <3>2. Plain!SetPos
      BY <2>2, <2>4, <3>1, Asked DEF Plain!SetPos, Answer, Plain!Answer
    <3> QED BY <3>2 DEF Plain!Next
  <2> QED BY <2>3, <2>4
<1>8. ASSUME NEW op \in {"sync", "close"}, SyncOrClose(op) PROVE [Plain!Next]_Plain!vars
  <2>1. /\ call.op = "none" /\ answer' = Unanswered /\ UNCHANGED m_fileptr
        /\ Contents' = Contents /\ Size' = Size
    BY <1>2, <1>8 DEF SyncOrClose, Ready
  <2>2. Pending' = [op |-> op, at |-> 0, count |-> 0, left |-> <<>>, moves |-> FALSE]
    BY <1>8 DEF SyncOrClose, Pending
  <2>3. Pending' \in Plain!Requests
    BY <2>2, EmptySeq DEF Plain!Requests
  <2> QED BY <2>1, <2>2, <2>3, PlainCalls
<1>9. ASSUME NEW w \in BOOLEAN, OpenFile(w) PROVE [Plain!Next]_Plain!vars
  <2>1. ~modified /\ ~modified' /\ call.op = "none" /\ UNCHANGED <<disk, call>>
    BY <1>1, <1>9 DEF OpenFile, TypeOK
  <2>2. Contents' = Contents /\ Size' = Size
    BY <2>1 DEF Contents, InBuffer, Size, disk
  <2>3. Plain!Open
    BY <1>9, <2>1, <2>2, Asked DEF OpenFile, Plain!Open, Answer, Plain!Answer
  <2> QED BY <2>3 DEF Plain!Next
<1> QED BY <1>3, <1>4, <1>5, <1>6, <1>7, <1>8, <1>9 DEF Starts

LEMMA FlushRefines == ASSUME JInv, IInv', Flush PROVE [Plain!Next]_Plain!vars
<1>1. /\ IInv /\ open /\ call.op \in Ops \ {"none", "line"} /\ UNCHANGED m_fileptr
      /\ (call.op = "write" => call \in WriteCalls)
  BY CallFields DEF JInv, IInv, TypeOK, Coherent, Flush, Ops
<1>2. CASE UNCHANGED <<open, call, answer>>
  BY <1>1, <1>2, FlushShows, PlainStutters
<1>3. CASE Fails /\ open' = (call.op # "close")
  <2>1. call'.op = "none" /\ answer' = Failure(call.op)
    BY <1>3 DEF Fails, NoCall
  <2>2. CASE call.op = "close"
    <3>1. Contents' \in [Offsets -> Bytes] /\ Size' \in 0..Limit
      BY ShownNext
    <3>2. Plain!LoseAll
      BY <1>1, <2>1, <2>2, <3>1, Asked
         DEF Plain!LoseAll, Plain!Ends, Plain!Offsets, Offsets, Failure, Plain!Failure
    <3> QED BY <3>2 DEF Plain!Next
  <2>3. CASE call.op = "write"
    BY <1>1, <1>3, <2>3, FlushShows, PlainWriteFails
  <2>4. CASE call.op \in {"read", "size", "sync"}
    BY <1>1, <1>3, <2>1, <2>4, FlushShows, PlainFails
  <2> QED BY <1>1, <2>2, <2>3, <2>4 DEF Ops
<1> QED BY <1>2, <1>3 DEF Flush

LEMMA ReadMissRefines == ASSUME JInv, ReadMiss PROVE [Plain!Next]_Plain!vars
<1>1. /\ IInv /\ TypeOK /\ call.op = "read" /\ ~modified /\ call \in ReadCalls
      /\ UNCHANGED <<disk, modified, m_fileptr>>
  BY CallFields DEF JInv, IInv, ReadMiss, Goes, MustFlush
<1>2. Contents' = Contents /\ Size' = Size
  BY <1>1 DEF TypeOK, Contents, InBuffer, Size, disk
<1>3. CASE Fails
  <2>1. call'.op = "none" /\ answer' = Failure("read")
    BY <1>1, <1>3 DEF Fails, NoCall
  <2> QED BY <1>1, <1>2, <2>1, PlainFails
<1>4. CASE UNCHANGED answer
  <2>1. CASE Fails
    BY <1>3, <2>1
  <2>2. CASE ~Fails
    <3>1. /\ call'.op = call.op /\ call'.from = call.from
          /\ call'.asked = call.asked /\ call'.moves = call.moves
      BY <1>1, <2>2 DEF ReadMiss, ReadCalls
    <3> QED BY <1>1, <1>2, <1>4, <3>1, PlainGoesOn
  <2> QED BY <2>1, <2>2
<1> QED BY <1>3, <1>4 DEF ReadMiss

LEMMA ReadHitRefines == ASSUME JInv, ReadHit PROVE [Plain!Next]_Plain!vars
<1>1. /\ call.op = "read" /\ call \in ReadCalls
      /\ UNCHANGED <<disk, modified, page, m_fileptr, answer>>
  BY CallFields DEF JInv, IInv, ReadHit, Goes
<1>2. Contents' = Contents /\ Size' = Size
  BY <1>1 DEF Contents, InBuffer, Size, disk, page
<1>3. /\ call'.op = call.op /\ call'.from = call.from
      /\ call'.asked = call.asked /\ call'.moves = call.moves
  BY <1>1 DEF ReadHit, ReadCalls
<1> QED BY <1>1, <1>2, <1>3, PlainGoesOn

\* What n bytes from o on are, as a sequence.
LEMMA SliceIs ==
    ASSUME IInv, NEW o \in Nat, NEW n \in Nat, NEW d \in Seq(Bytes),
           Len(d) = IF o >= Size THEN 0 ELSE IF o + n <= Size THEN n ELSE Size - o,
           \A i \in 1..Len(d) : d[i] = Contents[o + i - 1]
    PROVE  Plain!Slice(o, n) = d
<1>1. Len(d) \in Nat /\ d \in [1..Len(d) -> Bytes]
  BY LenProperties
<1> DEFINE count == IF o >= Size THEN 0 ELSE IF o + n <= Size THEN n ELSE Size - o
<1>2. Plain!Slice(o, n) = [i \in 1..count |-> Contents[o + i - 1]]
  BY DEF Plain!Slice
<1>3. count = Len(d)
  OBVIOUS
<1> HIDE DEF count
<1>4. [i \in 1..count |-> Contents[o + i - 1]] = d
  BY <1>1, <1>3
<1> QED BY <1>2, <1>4

\* A read whose next byte is not in its page has come to the end.
LEMMA EndIsReached ==
    ASSUME IInv, call.op = "read", call \in ReadCalls, AtEnd
    PROVE  call.at >= Size
<1> USE SizeAssumption
<1>1. /\ TypeOK /\ Coherent /\ open /\ call.at \in Nat /\ Page(call.at) \in Nat
      /\ m_bufptr = Page(call.at) /\ call.at - m_bufptr >= m_buflen
      /\ call.at < m_bufptr + BufSiz /\ length \in Nat /\ m_buflen \in Nat /\ m_bufptr \in Nat
  <2>1. TypeOK /\ Coherent /\ m_bufptr = Page(call.at) /\ call.at - m_bufptr >= m_buflen
    BY DEF IInv, AtEnd, Misses
  <2>2. open /\ call.at \in Nat /\ length \in Nat /\ m_buflen \in Nat
    BY <2>1 DEF TypeOK, ReadCalls
  <2>3. Page(call.at) \in Nat /\ call.at < Page(call.at) + BufSiz
    BY <2>2, PageFacts
  <2> QED BY <2>1, <2>2, <2>3
<1>2. m_buflen >= PageLength(m_bufptr)
  BY <1>1, PageLengthFacts DEF Coherent
<1>3. call.at >= length
  BY <1>1, <1>2 DEF PageLength, Least
<1> QED BY <1>1, <1>3 DEF Size, Most

LEMMA ReadReturnsRefines == ASSUME JInv, ReadReturns PROVE [Plain!Next]_Plain!vars
<1>1. /\ IInv /\ ReadGood /\ CallOK /\ call.op = "read" /\ call \in ReadCalls
      /\ UNCHANGED <<disk, modified, page>>
      /\ call.from \in 0..Limit /\ call.from \in Nat /\ call.data \in Seq(Bytes)
      /\ call.moves \in BOOLEAN /\ (call.moves => call.from = m_fileptr)
  BY CallFields, SizeAssumption DEF JInv, IInv, ReadReturns, Goes, ReadCalls, CallOK
<1>2. Contents' = Contents /\ Size' = Size
  BY <1>1 DEF Contents, InBuffer, Size, disk, page
<1>3. Plain!Slice(call.from, call.asked) = call.data
  <2>1. /\ Len(call.data) \in Nat /\ call.asked \in Nat /\ call.want \in Nat /\ Size \in Nat
        /\ (call.data = <<>> => Len(call.data) = 0)
    BY <1>1, ShownType, LenProperties DEF ReadCalls
  <2>2. call.want = 0 \/ AtEnd
    BY DEF ReadReturns
  <2>3. AtEnd => call.at >= Size
    BY <1>1, EndIsReached
  <2>4. Len(call.data) = IF call.from >= Size THEN 0
                         ELSE IF call.from + call.asked <= Size THEN call.asked
                         ELSE Size - call.from
    <3> DEFINE got == Len(call.data)
    <3>1. /\ got \in Nat /\ call.asked \in Nat /\ call.from \in Nat /\ Size \in Nat
          /\ (got > 0 => call.from + got <= Size)
      BY <1>1, <2>1 DEF ReadGood
    <3>2. got = call.asked \/ (got <= call.asked /\ call.from + got >= Size)
      <4>1. CASE call.want = 0
        BY <1>1, <4>1 DEF ReadGood
      <4>2. CASE call.want > 0 /\ AtEnd
        <5>1. call.at = call.from + got /\ call.asked = got + call.want /\ call.at >= Size
          BY <1>1, <2>3, <4>2 DEF ReadGood
        <5> QED BY <2>1, <3>1, <5>1
      <4> QED BY <2>1, <2>2, <4>1, <4>2
    <3> HIDE DEF got
    <3>3. got = IF call.from >= Size THEN 0
                ELSE IF call.from + call.asked <= Size THEN call.asked
                ELSE Size - call.from
      BY <3>1, <3>2
    <3> QED BY <3>3 DEF got
  <2> QED BY <1>1, <2>1, <2>4, SliceIs DEF ReadGood
<1>4. /\ answer' = Answer("read", call.from, call.data)
      /\ m_fileptr' = IF call.moves THEN m_fileptr + Len(call.data) ELSE m_fileptr
      /\ call'.op = "none"
  BY DEF ReadReturns, Returns, NoCall
<1>5. /\ Pending.op = "read" /\ Pending.at = call.from /\ Pending.count = call.asked
      /\ Pending.moves = call.moves /\ Pending' = Plain!Idle
  BY <1>1, <1>4, Asked DEF Pending
<1>6. answer' = Plain!Answer("read", call.from, call.data)
  BY <1>4 DEF Answer, Plain!Answer
<1>7. Plain!Read
  BY <1>2, <1>3, <1>4, <1>5, <1>6 DEF Plain!Read, Plain!Ends
<1> QED BY <1>7 DEF Plain!Next
-----------------------------------------------------------------------------
\* A piece of a write is stored.
LEMMA PlainPuts ==
    ASSUME IInv, call.op = "write", NEW n \in 1..Len(call.left), call' = Stored(n),
           Plain!Stores(n), UNCHANGED <<m_fileptr, answer>>
    PROVE  [Plain!Next]_Plain!vars
<1>1. call \in WriteCalls /\ call.left \in Seq(Bytes) /\ Len(call.left) \in Nat
  BY CallFields, LenProperties DEF IInv, WriteCalls
<1>2. call' = [call EXCEPT !.at = @ + n, !.left = SubSeq(@, n + 1, Len(@))]
  BY DEF Stored
<1>3. /\ call'.op = "write" /\ call'.at = call.at + n /\ call'.moves = call.moves
      /\ call'.left = SubSeq(call.left, n + 1, Len(call.left))
  BY <1>1, <1>2 DEF WriteCalls
<1>4. /\ Pending = [op |-> "write", at |-> call.at, count |-> 0, left |-> call.left,
                    moves |-> call.moves]
      /\ Pending' = [op |-> "write", at |-> call'.at, count |-> 0, left |-> call'.left,
                     moves |-> call'.moves]
  BY <1>3 DEF Pending
<1>5. Pending' = [Pending EXCEPT !.at = @ + n, !.left = SubSeq(@, n + 1, Len(@))]
  <2> DEFINE rest == SubSeq(call.left, n + 1, Len(call.left))
             Records == [op : {"write"}, at : Nat, count : Nat, left : Seq(Bytes),
                         moves : BOOLEAN]
  <2>1. rest \in Seq(Bytes) /\ call.at + n \in Nat /\ call.moves \in BOOLEAN
    BY <1>1 DEF WriteCalls
  <2>2. Pending \in Records /\ Pending' \in Records
    BY <1>1, <1>3, <1>4, <2>1 DEF WriteCalls
  <2>3. /\ Pending.at = call.at /\ Pending.left = call.left
        /\ Pending'.op = Pending.op /\ Pending'.at = call.at + n
        /\ Pending'.count = Pending.count /\ Pending'.left = rest
        /\ Pending'.moves = Pending.moves
    BY <1>3, <1>4
  <2> HIDE DEF rest
  <2>4. Pending' = [Pending EXCEPT !.at = call.at + n, !.left = rest]
    BY <2>1, <2>2, <2>3
  <2> QED BY <2>3, <2>4 DEF rest
<1>6. Plain!Put
  <2>1. Pending.op = "write" /\ Pending.left = call.left
    BY <1>4
  <2> QED BY <1>5, <2>1 DEF Plain!Put
<1> QED BY <1>6 DEF Plain!Next

\* Bytes written past the buffer.
LEMMA DirectStores ==
    ASSUME IInv, IInv', call.op = "write", ~modified, ~modified', NEW n \in 1..Len(call.left),
           NEW bytes, \A i \in 0..Len(call.left) - 1 : bytes[i] = call.left[i + 1],
           WriteAt(call.at, bytes, n)
    PROVE  Plain!Stores(n)
<1>1. /\ TypeOK /\ Coherent /\ call \in WriteCalls /\ call.left \in Seq(Bytes) /\ call.at \in Nat
      /\ Len(call.left) \in Nat /\ call.at + Len(call.left) <= Limit /\ Limit \in Nat
      /\ length \in 0..Limit
  BY CallFields, LenProperties, SizeAssumption DEF IInv, WriteCalls, CallOK, TypeOK
<1>2. n \in Nat \ {0} /\ call.at + n <= Limit /\ n <= Len(call.left)
  BY <1>1
<1>3. \A i \in 0..n - 1 : i + 1 \in 1..Len(call.left) /\ i \in 0..Len(call.left) - 1
  BY <1>1, <1>2
<1>4. \A i \in 0..n - 1 : bytes[i] \in Bytes
  BY <1>1, <1>3, ElementOfSeq
<1>5. /\ length' = Most(length, call.at + n)
      /\ \A o \in Offsets : file'[o] = IF call.at <= o /\ o < call.at + n
                                       THEN bytes[o - call.at] ELSE file[o]
  <2>1. TypeOK /\ Coherent /\ call.at \in Nat /\ n \in Nat \ {0} /\ call.at + n <= Limit
    BY <1>1, <1>2
  <2> QED BY <1>4, <2>1, WriteAtFacts
<1>6. Contents = file /\ Size = length /\ Contents' = file' /\ Size' = length'
      /\ Contents' \in [Offsets -> Bytes]
  BY <1>1, ShownNext, FileShows DEF Contents, InBuffer, Size, IInv, TypeOK
<1>7. Pending.at = call.at /\ Pending.left = call.left
  BY DEF Pending
<1>8. Size' = IF n > 0 /\ call.at + n > Size THEN call.at + n ELSE Size
  BY <1>1, <1>2, <1>5, <1>6 DEF Most
<1>9. ASSUME NEW o \in Offsets, call.at <= o, o < call.at + n
      PROVE  Contents'[o] = call.left[o - call.at + 1]
  <2>1. o - call.at \in 0..Len(call.left) - 1
    BY <1>1, <1>2, <1>9 DEF Offsets
  <2> QED BY <1>5, <1>6, <1>9, <2>1
<1>10. ASSUME NEW o \in Offsets, o < call.at \/ o >= call.at + n PROVE Contents'[o] = Contents[o]
  <2>1. ~(call.at <= o /\ o < call.at + n)
    BY <1>1, <1>2, <1>10 DEF Offsets
  <2> QED BY <1>5, <1>6, <2>1
<1> QED BY <1>2, <1>6, <1>7, <1>8, <1>9, <1>10 DEF Plain!Stores, Plain!Offsets, Offsets

LEMMA WriteMissRefines == ASSUME JInv, IInv', WriteMiss PROVE [Plain!Next]_Plain!vars
<1> DEFINE n == Len(call.left)
           bytes == [i \in 0..n - 1 |-> call.left[i + 1]]
<1>1. /\ IInv /\ TypeOK /\ call.op = "write" /\ ~modified /\ ~modified' /\ call \in WriteCalls
      /\ UNCHANGED <<m_fileptr>> /\ call.left # <<>> /\ call.left \in Seq(Bytes)
  BY CallFields DEF JInv, IInv, WriteMiss, Goes, MustFlush, WriteCalls
<1>2. n \in Nat \ {0} /\ \A i \in 0..n - 1 : bytes[i] = call.left[i + 1]
  BY <1>1, EmptySeq
<1>3. CASE WriteAt(call.at, bytes, n) /\ call' = Stored(n) /\ UNCHANGED answer
  <2>1. n \in 1..Len(call.left)
    BY <1>2
  <2>2. Plain!Stores(n)
    BY <1>1, <1>2, <1>3, <2>1, DirectStores
  <2> QED BY <1>1, <1>3, <2>1, <2>2, PlainPuts
<1>4. CASE Fails /\ \E k \in 1..n - 1 : WriteAt(call.at, bytes, k)
  <2>1. PICK k \in 1..n - 1 : WriteAt(call.at, bytes, k)
    BY <1>4
  <2>2. k \in 1..Len(call.left) /\ k \in 0..Len(call.left)
    BY <1>2
  <2>3. Plain!Stores(k)
    BY <1>1, <1>2, <2>1, <2>2, DirectStores
  <2>4. Pending.op = "write" /\ Pending.left = call.left /\ Pending' = Plain!Idle
    BY <1>1, <1>4, Asked DEF Pending, Fails, NoCall
  <2>5. answer' = Plain!Failure("write")
    BY <1>1, <1>4 DEF Fails, Failure, Plain!Failure
  <2>6. Plain!FailWrite
    BY <1>1, <2>2, <2>3, <2>4, <2>5 DEF Plain!FailWrite, Plain!Ends
  <2> QED BY <2>6 DEF Plain!Next
<1>5. CASE UNCHANGED <<disk, call, answer>>
  <2>1. Contents' = Contents /\ Size' = Size
    BY <1>1, <1>5 DEF TypeOK, Contents, InBuffer, Size, disk
  <2> QED BY <1>1, <1>5, <2>1, PlainStutters
<1>6. CASE Fails /\ UNCHANGED disk
  <2>1. Contents' = Contents /\ Size' = Size
    BY <1>1, <1>6 DEF TypeOK, Contents, InBuffer, Size, disk
  <2> QED BY <1>1, <1>6, <2>1, PlainWriteFails
<1> QED BY <1>3, <1>4, <1>5, <1>6 DEF WriteMiss

LEMMA WriteReturnsRefines == ASSUME JInv, WriteReturns PROVE [Plain!Next]_Plain!vars
<1>1. /\ call.op = "write" /\ call.left = <<>> /\ call \in WriteCalls
      /\ UNCHANGED <<disk, modified, page>>
  BY CallFields DEF JInv, IInv, WriteReturns
<1>2. Contents' = Contents /\ Size' = Size
  BY <1>1 DEF Contents, InBuffer, Size, disk, page
<1>3. /\ Pending.op = "write" /\ Pending.left = <<>> /\ Pending.at = call.at
      /\ Pending.moves = call.moves
  BY <1>1 DEF Pending
<1>4. /\ m_fileptr' = IF call.moves THEN call.at ELSE m_fileptr
      /\ answer' = Plain!Answer("write", call.at, <<>>)
      /\ Pending' = Plain!Idle
  BY Asked DEF WriteReturns, Returns, NoCall, Answer, Plain!Answer
<1>5. Plain!EndWrite
  BY <1>2, <1>3, <1>4 DEF Plain!EndWrite, Plain!Ends
<1> QED BY <1>5 DEF Plain!Next

LEMMA WriteHitRefines == ASSUME JInv, IInv', WriteHit PROVE [Plain!Next]_Plain!vars
<1> USE SizeAssumption
<1> DEFINE bufpos == call.at - m_bufptr
           bytes == Least(BufSiz - bufpos, Len(call.left))
           end == call.at + bytes
<1>1. /\ IInv /\ TypeOK /\ Coherent /\ call.op = "write" /\ open
      /\ UNCHANGED <<disk, m_fileptr, m_bufptr, answer>> /\ modified'
      /\ call \in WriteCalls /\ call.left # <<>> /\ call.left \in Seq(Bytes)
      /\ m_bufptr \in Nat /\ call.at \in Nat /\ bufpos \in 0..BufSiz - 1
      /\ m_buflen \in 0..BufSiz /\ length \in 0..Limit
      /\ Limit \in Nat /\ modified \in BOOLEAN /\ (m_buflen > 0 => m_bufptr + m_buflen <= Limit)
  <2>1. /\ IInv /\ TypeOK /\ Coherent /\ call.op = "write" /\ open /\ ~Misses /\ call.left # <<>>
        /\ UNCHANGED <<disk, m_fileptr, m_bufptr, answer>> /\ modified'
    BY DEF JInv, IInv, WriteHit, Goes, TypeOK
  <2>2. call \in WriteCalls /\ call.left \in Seq(Bytes)
    BY <2>1, CallFields DEF IInv, WriteCalls
  <2>3. m_bufptr \in Nat /\ call.at \in Nat /\ bufpos \in 0..BufSiz - 1
    BY <2>1, Place
  <2>4. /\ m_buflen \in 0..BufSiz /\ length \in 0..Limit
        /\ Limit \in Nat /\ modified \in BOOLEAN
        /\ (m_buflen > 0 => m_bufptr + m_buflen <= Limit)
    BY <2>1 DEF TypeOK, Coherent
  <2> QED BY <2>1, <2>2, <2>3, <2>4
<1>2. Len(call.left) \in Nat \ {0}
  BY <1>1, EmptySeq
<1>3. bytes \in 1..Len(call.left) /\ bytes \in Nat /\ bufpos + bytes <= BufSiz
  <2>1. bufpos \in 0..BufSiz - 1
    BY <1>1
  <2> HIDE DEF bufpos
  <2> QED BY <1>2, <2>1 DEF Least
<1>b. m_bufptr + bufpos = call.at
  BY <1>1
<1>4. /\ m_buffer' = [i \in 0..BufSiz - 1 |->
                         IF bufpos <= i /\ i < bufpos + bytes
                         THEN call.left[i - bufpos + 1] ELSE m_buffer[i]]
      /\ m_buflen' = Most(m_buflen, bufpos + bytes)
      /\ call' = Stored(bytes)
  BY DEF WriteHit
<1> HIDE DEF bufpos, bytes, end
<1>a. /\ m_bufptr \in Nat /\ bufpos \in Nat /\ bytes \in Nat /\ bytes > 0
      /\ m_buflen \in Nat /\ m_buflen <= BufSiz /\ length \in Nat /\ BufSiz \in Nat
      /\ call.at = m_bufptr + bufpos /\ end = m_bufptr + bufpos + bytes
      /\ bufpos + bytes <= BufSiz
  BY <1>1, <1>3, <1>b DEF end
<1>5. /\ m_buflen >= PageLength(m_bufptr) /\ PageLength(m_bufptr) \in Nat
      /\ ~modified => /\ m_buflen = PageLength(m_bufptr)
                      /\ \A i \in 0..m_buflen - 1 : m_buffer[i] = file[m_bufptr + i]
      /\ PageLength(m_bufptr) > 0 => m_bufptr + PageLength(m_bufptr) <= length
      /\ PageLength(m_bufptr) < BufSiz => length <= m_bufptr + PageLength(m_bufptr)
  <2>1. /\ PageLength(m_bufptr) \in Nat
        /\ PageLength(m_bufptr) > 0 => m_bufptr + PageLength(m_bufptr) <= length
        /\ PageLength(m_bufptr) < BufSiz => length <= m_bufptr + PageLength(m_bufptr)
    <3>1. m_bufptr \in Nat /\ length \in 0..Limit
      BY <1>1
    <3> QED BY <3>1, PageLengthFacts
  <2>2. CASE modified
    BY <1>1, <2>1, <2>2 DEF Coherent
  <2>3. CASE ~modified
    <3>1. /\ m_buflen = PageLength(m_bufptr)
          /\ \A i \in 0..m_buflen - 1 : m_buffer[i] = file[m_bufptr + i]
      BY <1>1, <2>3 DEF Coherent
    <3> QED BY <2>1, <2>3, <3>1
  <2> QED BY <2>2, <2>3
<1>c. PICK len \in Nat : len = m_buflen'
  BY <1>4, <1>a DEF Most
<1>6. /\ len >= m_buflen /\ len >= bufpos + bytes
      /\ len = m_buflen \/ len = bufpos + bytes
      /\ len <= BufSiz
  <2>1. len = Most(m_buflen, bufpos + bytes)
    BY <1>4, <1>c
  <2> QED BY <1>a, <2>1 DEF Most
<1>7. Pending.at = call.at /\ Pending.left = call.left
  BY <1>1 DEF Pending
<1>8. Size' = IF bytes > 0 /\ end > Size THEN end ELSE Size
  <2>1. Size' = Most(length, m_bufptr + len)
    BY <1>1, <1>c DEF Size, Most, disk
  <2>2. CASE modified
    <3>1. Size = Most(length, m_bufptr + m_buflen)
      BY <2>2 DEF Size
    <3> QED BY <1>6, <1>a, <2>1, <3>1 DEF Most
  <2>3. CASE ~modified
    <3>1. Size = length /\ (m_buflen > 0 => m_bufptr + m_buflen <= length)
      BY <1>5, <2>3 DEF Size
    <3> QED BY <1>6, <1>a, <2>1, <3>1 DEF Most
  <2> QED BY <1>1, <2>2, <2>3
<1>9. Contents' \in [Offsets -> Bytes]
  BY ShownNext
<1>10. ASSUME NEW o \in Offsets
       PROVE  /\ Contents'[o] = IF m_bufptr <= o /\ o < m_bufptr + len
                                THEN m_buffer'[o - m_bufptr] ELSE file[o]
              /\ Contents[o] = IF modified /\ m_bufptr <= o /\ o < m_bufptr + m_buflen
                               THEN m_buffer[o - m_bufptr] ELSE file[o]
  BY <1>1, <1>c DEF Contents, InBuffer, disk, Offsets
<1>11. ASSUME NEW o \in Offsets, call.at <= o, o < end
       PROVE  Contents'[o] = call.left[o - call.at + 1]
  <2> DEFINE i == o - m_bufptr
  <2>1. /\ i \in 0..BufSiz - 1 /\ bufpos <= i /\ i < bufpos + bytes
        /\ i - bufpos + 1 = o - call.at + 1
        /\ m_bufptr <= o /\ o < m_bufptr + len
    <3>1. o \in Nat
      BY <1>1 DEF Offsets
    <3> QED BY <1>6, <1>11, <1>a, <3>1
  <2>2. Contents'[o] = m_buffer'[i]
    BY <1>10, <2>1
  <2>3. m_buffer'[i] = call.left[i - bufpos + 1]
    BY <1>4, <2>1
  <2> QED BY <2>1, <2>2, <2>3
<1>12. ASSUME NEW o \in Offsets, (o < call.at /\ o < Size) \/ o >= end
       PROVE  Contents'[o] = Contents[o]
  <2>1. o \in Nat
    BY <1>1 DEF Offsets
  <2>2. CASE ~(m_bufptr <= o /\ o < m_bufptr + len)
    <3>1. ~(m_bufptr <= o /\ o < m_bufptr + m_buflen)
      BY <1>6, <1>a, <2>1, <2>2
    <3> QED BY <1>10, <2>2, <3>1
  <2>3. CASE m_bufptr <= o /\ o < m_bufptr + len
    <3> DEFINE i == o - m_bufptr
    <3>1. i \in 0..BufSiz - 1 /\ ~(bufpos <= i /\ i < bufpos + bytes)
      BY <1>6, <1>12, <1>a, <2>1, <2>3
    <3>2. Contents'[o] = m_buffer[i]
      BY <1>4, <1>10, <2>3, <3>1
    <3>3. i < m_buflen
      <4>1. CASE o >= end
        BY <1>6, <1>a, <2>1, <2>3, <4>1
      <4>2. CASE o < call.at /\ o < Size
        <5>1. o < length => i < m_buflen
          BY <1>5, <1>a, <2>1, <3>1
        <5>2. CASE modified
          <6>1. Size = Most(length, m_bufptr + m_buflen)
            BY <5>2 DEF Size
          <6> QED BY <1>a, <2>1, <4>2, <5>1, <6>1 DEF Most
        <5>3. CASE ~modified
          BY <4>2, <5>1, <5>3 DEF Size
        <5> QED BY <1>1, <5>2, <5>3
      <4> QED BY <1>12, <4>1, <4>2
    <3>4. m_bufptr + i = o /\ i \in 0..m_buflen - 1 /\ o < m_bufptr + m_buflen
      BY <1>a, <2>1, <3>1, <3>3
    <3>5. CASE modified
      BY <1>10, <2>3, <3>2, <3>4, <3>5
    <3>6. CASE ~modified
      BY <1>5, <1>10, <3>2, <3>4, <3>6
    <3> QED BY <1>1, <3>5, <3>6
  <2> QED BY <2>2, <2>3
<1>13. Plain!Stores(bytes)
  <2>1. bytes # 0
    BY <1>3
  <2> QED BY <1>7, <1>8, <1>9, <1>11, <1>12, <2>1 DEF Plain!Stores, Plain!Offsets, Offsets, end
<1> QED BY <1>1, <1>3, <1>4, <1>13, PlainPuts
-----------------------------------------------------------------------------
\* Where a line ends: at the first LF, or at the end.
LEMMA LineEndIs ==
    ASSUME NEW o \in Nat, Size \in Nat, NEW e \in o..Size, e = Size \/ Contents[e] = LF,
           \A p \in o..e - 1 : Contents[p] # LF
    PROVE  Plain!LineEnd(o) = e
<1> DEFINE ends == {x \in o..Size : x = Size \/ Contents[x] = LF}
           first == CHOOSE x \in ends : \A y \in ends : x <= y
<1>1. e \in ends
  OBVIOUS
<1>2. ASSUME NEW y \in ends PROVE e <= y
  <2>1. CASE y \in o..e - 1
    BY <2>1
  <2> QED BY <2>1
<1>3. first \in ends /\ \A y \in ends : first <= y
  BY <1>1, <1>2
<1> HIDE DEF first
<1>4. first = e
  BY <1>1, <1>2, <1>3
<1> QED BY <1>4 DEF first, Plain!LineEnd

LEMMA LineEndAfter ==
    ASSUME NEW o \in Nat, Size \in Nat, NEW q \in o..Size, \A p \in o..q - 1 : Contents[p] # LF
    PROVE  q <= Plain!LineEnd(o)
<1> DEFINE ends == {x \in o..Size : x = Size \/ Contents[x] = LF}
           first == CHOOSE x \in ends : \A y \in ends : x <= y
<1>1. Size \in ends /\ ends \subseteq Nat
  OBVIOUS
<1>2. \E x \in ends : \A y \in ends : x <= y
  BY <1>1, LeastExists
<1>3. first \in ends
  BY <1>2
<1> HIDE DEF first
<1>4. q <= first
  <2>1. first \notin o..q - 1
    BY <1>3
  <2> QED BY <1>3, <2>1
<1> QED BY <1>4 DEF first, Plain!LineEnd

\* A line is read up to its end, and the position is behind it.
LEMMA PlainReadsLine ==
    ASSUME JInv, call.op = "line", call' = NoCall, UNCHANGED <<disk, modified>>,
           NEW e \in call.from..length, e = length \/ file[e] = LF,
           call.from < length,
           NEW d \in Seq(Bytes), call.from + Len(d) = e,
           \A i \in 1..Len(d) : d[i] = file[call.from + i - 1] /\ d[i] \notin {LF, CR},
           answer' = Answer("line", call.from, d),
           m_fileptr' = IF e = length THEN e ELSE e + 1
    PROVE  [Plain!Next]_Plain!vars
<1>1. /\ IInv /\ Contents = file /\ Size = length /\ call.from = m_fileptr /\ call.from \in Nat
      /\ length \in Nat /\ Len(d) \in Nat /\ ~modified /\ TypeOK /\ Limit \in Nat
  BY LinePlace, LenProperties DEF JInv
<1>2. Contents' = Contents /\ Size' = Size
  BY <1>1 DEF Contents, InBuffer, Size, disk
<1>3. ASSUME NEW p \in call.from..e - 1 PROVE Contents[p] # LF
  <2> DEFINE i == p - call.from + 1
  <2>1. i \in 1..Len(d) /\ call.from + i - 1 = p
    BY <1>1
  <2> QED BY <1>1, <2>1
<1>4. Plain!LineEnd(m_fileptr) = e
  BY <1>1, <1>3, LineEndIs
<1>5. Plain!Slice(m_fileptr, Len(d)) = d
  <2>1. m_fileptr \in Nat /\ m_fileptr + Len(d) <= Size
        /\ \A i \in 1..Len(d) : d[i] = Contents[m_fileptr + i - 1]
    BY <1>1
  <2>2. Len(d) = IF m_fileptr >= Size THEN 0
                 ELSE IF m_fileptr + Len(d) <= Size THEN Len(d) ELSE Size - m_fileptr
    BY <1>1, <2>1
  <2> QED BY <1>1, <2>1, <2>2, SliceIs
<1>6. e - m_fileptr = Len(d)
  BY <1>1
<1>7. Plain!ReadLine
  <2>1. answer' = Plain!Answer("line", m_fileptr, Plain!Slice(m_fileptr, Plain!LineEnd(m_fileptr) - m_fileptr))
    BY <1>1, <1>4, <1>5, <1>6 DEF Answer, Plain!Answer
  <2>2. m_fileptr' = IF Plain!LineEnd(m_fileptr) = Size THEN Size ELSE Plain!LineEnd(m_fileptr) + 1
    BY <1>1, <1>4
  <2>3. Pending.op = "line" /\ Pending' = Plain!Idle
    BY Asked DEF NoCall
  <2>4. m_fileptr < Size
    BY <1>1
  <2> QED BY <1>2, <2>1, <2>2, <2>3, <2>4 DEF Plain!ReadLine, Plain!Ends
<1> QED BY <1>7 DEF Plain!Next

\* A line with a CR before its end.
LEMMA PlainReadsPastCR ==
    ASSUME JInv, call.op = "line", call' = NoCall, UNCHANGED <<disk, modified>>,
           NEW q \in call.from..length - 1, file[q] = CR,
           \A p \in call.from..q - 1 : file[p] # LF,
           answer'.op = "line"
    PROVE  [Plain!Next]_Plain!vars
<1>1. /\ Contents = file /\ Size = length /\ call.from = m_fileptr /\ call.from \in Nat
      /\ length \in Nat /\ ~modified /\ TypeOK
  BY LinePlace
<1>2. Contents' = Contents /\ Size' = Size
  BY <1>1 DEF Contents, InBuffer, Size, disk
<1>3. q <= Plain!LineEnd(m_fileptr)
  BY <1>1, LineEndAfter
<1>4. Plain!ReadPastCR
  BY <1>1, <1>2, <1>3, Asked DEF NoCall, Plain!ReadPastCR
<1> QED BY <1>4 DEF Plain!Next

LEMMA LineEntersRefines ==
    ASSUME JInv, LineEnters \/ LineTurns \/ LineEndsInCR
    PROVE  [Plain!Next]_Plain!vars
<1>1. /\ call.op = "line" /\ call \in LineCalls /\ ~modified /\ TypeOK /\ UNCHANGED <<disk, modified>>
      /\ LineGood /\ length \in Nat
  BY LinePlace, SizeAssumption DEF JInv, LineEnters, LineTurns, LineEndsInCR, Goes
<1>2. Contents' = Contents /\ Size' = Size
  BY <1>1 DEF TypeOK, Contents, InBuffer, Size, disk
<1>3. CASE LineEnters \/ LineTurns
  <2>1. UNCHANGED m_fileptr
    BY <1>3 DEF LineEnters, LineTurns
  <2>2. CASE Fails
    BY <1>1, <1>2, <2>1, <2>2, PlainFails DEF Fails, NoCall
  <2>3. CASE UNCHANGED answer
    <3>1. CASE ~Fails
      <4>1. call'.op = call.op /\ call'.from = call.from
        BY <1>1, <1>3, <3>1 DEF LineEnters, LineTurns, LineCalls
      <4> QED BY <1>1, <1>2, <2>1, <2>3, <4>1, PlainGoesOn
    <3> QED BY <2>2, <3>1
  <2> QED BY <1>3, <2>2, <2>3 DEF LineEnters, LineTurns
<1>4. CASE LineEndsInCR
  <2>1. call' = NoCall /\ answer'.op = "line" /\ call.phase = "cr"
    BY <1>4 DEF LineEndsInCR, LineReturns, Returns, Answer
  <2>2. PICK q \in call.from..length - 1 :
            file[q] = CR /\ \A p \in call.from..q - 1 : file[p] # LF
    BY <1>1, <2>1 DEF LineGood
  <2> QED BY <1>1, <2>1, <2>2, PlainReadsPastCR
<1> QED BY <1>3, <1>4

LEMMA LineScansRefines == ASSUME JInv, LineScans PROVE [Plain!Next]_Plain!vars
<1> DEFINE bufpos == call.at - m_bufptr
           Bytes1(a, b) == [i \in 1..b - a |-> m_buffer[a + i - 1]]
           stops == {i \in bufpos..m_buflen - 1 : m_buffer[i] \in {LF, CR}}
           stop == CHOOSE i \in stops : \A j \in stops : i <= j
           skipped == m_buflen - bufpos
<1>1. /\ call.op = "line" /\ call.phase = "scan" /\ ~Misses
      /\ UNCHANGED <<disk, open, writeable, modified, m_size, page>>
  BY DEF LineScans, Goes
<1>2. /\ call \in LineCalls /\ call.from = m_fileptr /\ call.from \in Nat
      /\ call.at \in Nat /\ call.data \in Seq(Bytes) /\ m_bufptr \in Nat /\ m_buflen \in Nat
      /\ bufpos \in Nat /\ m_bufptr + bufpos = call.at /\ length \in Nat
      /\ m_buflen > 0 => m_bufptr + m_buflen <= length
      /\ m_buflen < BufSiz => length <= m_bufptr + m_buflen
      /\ call.at < m_bufptr + BufSiz /\ BufSiz \in Nat
      /\ \A i \in 0..m_buflen - 1 : m_buffer[i] = file[m_bufptr + i]
      /\ ~modified /\ TypeOK
  BY <1>1, LinePlace, SizeAssumption
<1>3. /\ call.at = call.from + Len(call.data) /\ call.count = Len(call.data) /\ Len(call.data) \in Nat
      /\ call.data # <<>> => call.at <= length
      /\ \A i \in 1..Len(call.data) :
            call.data[i] = file[call.from + i - 1] /\ call.data[i] \notin {LF, CR}
  BY <1>1, <1>2, LenProperties DEF JInv, LineGood
<1>4. Contents' = Contents /\ Size' = Size
  BY <1>1, <1>2 DEF TypeOK, Contents, InBuffer, Size, disk
<1> HIDE DEF bufpos
<1>5. CASE /\ bufpos >= m_buflen
           /\ IF call.data # <<>> THEN LineReturns(call.data, call.count)
                                  ELSE Fails /\ UNCHANGED m_fileptr
  <2>1. CASE call.data = <<>>
    BY <1>1, <1>4, <1>5, <2>1, PlainFails DEF Fails, NoCall
  <2>2. CASE call.data # <<>>
    <3>1. Len(call.data) # 0
      BY <1>2, <2>2, EmptySeq
    <3>2. call.at = length
      BY <1>2, <1>3, <1>5, <2>2
    <3>3. length \in call.from..length /\ call.from < length /\ call.from + Len(call.data) = length
      BY <1>2, <1>3, <3>1, <3>2
    <3>4. /\ call' = NoCall /\ answer' = Answer("line", call.from, call.data)
          /\ m_fileptr' = m_fileptr + call.count
      BY <1>5, <2>2 DEF LineReturns, Returns
    <3>5. m_fileptr' = length
      BY <1>2, <1>3, <3>3, <3>4
    <3> QED BY <1>1, <1>2, <1>3, <3>3, <3>4, <3>5, PlainReadsLine
  <2> QED BY <2>1, <2>2
<1>6. CASE call' = [call EXCEPT !.data = @ \o Bytes1(bufpos, m_buflen),
                       !.at = @ + skipped, !.count = @ + skipped]
           /\ UNCHANGED <<answer, m_fileptr>>
  <2>1. call'.op = "line"
    BY <1>1, <1>2, <1>6 DEF LineCalls
  <2> QED BY <1>1, <1>4, <1>6, <2>1, PlainGoesOn
<1>7. ASSUME stops # {}
      PROVE  /\ stop \in bufpos..m_buflen - 1 /\ m_buffer[stop] \in {LF, CR}
             /\ \A i \in bufpos..stop - 1 : m_buffer[i] \notin {LF, CR}
  <2>1. stops \subseteq Nat
    BY <1>2
  <2>2. \E i \in stops : \A j \in stops : i <= j
    BY <1>7, <2>1, LeastExists
  <2>3. stop \in stops /\ \A j \in stops : stop <= j
    BY <2>2
  <2> HIDE DEF stop
  <2>4. stop \in bufpos..m_buflen - 1 /\ m_buffer[stop] \in {LF, CR}
    BY <2>3
  <2>5. ASSUME NEW i \in bufpos..stop - 1 PROVE m_buffer[i] \notin {LF, CR}
    <3>1. i \in bufpos..m_buflen - 1 /\ ~(stop <= i)
      BY <1>2, <2>4, <2>5
    <3> QED BY <2>3, <3>1
  <2> QED BY <2>4, <2>5
<1>8. CASE call' = [call EXCEPT !.phase = "cr",
                       !.data = @ \o Bytes1(bufpos, stop) \o Bytes1(bufpos, m_buflen),
                       !.at = @ + 2 * skipped, !.count = @ + 2 * skipped]
           /\ UNCHANGED <<answer, m_fileptr>>
  <2>1. call'.op = "line"
    BY <1>1, <1>2, <1>8 DEF LineCalls
  <2> QED BY <1>1, <1>4, <1>8, <2>1, PlainGoesOn
<1>9. CASE /\ stops # {}
           /\ LineReturns(call.data \o Bytes1(bufpos, stop), call.count + stop + 1 - bufpos)
  <2> DEFINE d == call.data \o Bytes1(bufpos, stop)
             e == m_bufptr + stop
  <2>1. /\ stop \in bufpos..m_buflen - 1 /\ m_buffer[stop] \in {LF, CR}
        /\ \A i \in bufpos..stop - 1 : m_buffer[i] \notin {LF, CR}
    BY <1>7, <1>9
  <2> HIDE DEF stop
  <2>2. stop \in Nat /\ bufpos <= stop /\ stop <= m_buflen /\ stop < m_buflen
    BY <1>2, <2>1
  <2>3. /\ d \in Seq(Bytes) /\ call.from + Len(d) = m_bufptr + stop
        /\ \A i \in 1..Len(d) : d[i] = file[call.from + i - 1] /\ d[i] \notin {LF, CR}
    BY <1>1, <1>2, <2>1, <2>2, Scanned, ZenonT(60)
  <2>4. /\ call' = NoCall /\ answer' = Answer("line", call.from, d)
        /\ m_fileptr' = m_fileptr + (call.count + stop + 1 - bufpos)
    BY <1>9 DEF LineReturns, Returns
  <2>5. Len(d) \in Nat
    BY <2>3, LenProperties
  <2> HIDE DEF d
  <2>6. e \in call.from..length /\ e < length /\ call.from < length /\ e # length
    <3> DEFINE n == Len(d)
    <3>1. /\ call.from \in Nat /\ m_bufptr \in Nat /\ m_buflen \in Nat /\ length \in Nat
          /\ stop \in Nat /\ stop < m_buflen /\ n \in Nat
          /\ call.from + n = m_bufptr + stop
          /\ m_buflen > 0 => m_bufptr + m_buflen <= length
      BY <1>2, <2>2, <2>3, <2>5
    <3> HIDE DEF n
    <3>2. /\ m_bufptr + stop \in Nat /\ m_bufptr + stop < length
          /\ call.from <= m_bufptr + stop
      BY <3>1
    <3> QED BY <3>1, <3>2
  <2>7. file[e] = m_buffer[stop]
    BY <1>2, <2>2
  <2>8. CASE m_buffer[stop] = LF
    <3>1. m_fileptr' = e + 1
      <4>1. m_fileptr + (call.count + stop + 1 - bufpos) = e + 1
        <5>1. /\ m_fileptr \in Nat /\ call.count \in Nat /\ stop \in Nat /\ bufpos \in Nat
              /\ m_bufptr \in Nat /\ m_bufptr + bufpos = m_fileptr + call.count
          BY <1>2, <1>3, <2>2
        <5> QED BY <5>1
      <4> QED BY <2>4, <4>1
    <3> HIDE DEF e
    <3>2. /\ file[e] = LF /\ m_fileptr' = (IF e = length THEN e ELSE e + 1)
          /\ call.from + Len(d) = e /\ UNCHANGED <<disk, modified>>
      BY <1>1, <2>3, <2>6, <2>7, <2>8, <3>1 DEF e
    <3> QED BY <1>1, <2>3, <2>4, <2>6, <3>2, PlainReadsLine
  <2>9. CASE m_buffer[stop] = CR
    <3>1. e \in call.from..length - 1
      BY <1>2, <2>2, <2>6
    <3>2. ASSUME NEW p \in call.from..e - 1 PROVE file[p] # LF
      <4> DEFINE i == p - call.from + 1
      <4>1. i \in 1..Len(d) /\ call.from + i - 1 = p
        BY <1>2, <2>2, <2>3, <2>5
      <4> QED BY <2>3, <4>1
    <3>3. answer'.op = "line"
      BY <2>4 DEF Answer
    <3> HIDE DEF e
    <3> QED BY <1>1, <2>4, <2>7, <2>9, <3>1, <3>2, <3>3, PlainReadsPastCR
  <2> QED BY <2>1, <2>8, <2>9
<1> QED BY <1>5, <1>6, <1>8, <1>9 DEF LineScans, bufpos, stop
-----------------------------------------------------------------------------
LEMMA SetSizeRefines == ASSUME JInv, SetSize PROVE [Plain!Next]_Plain!vars
<1>1. /\ IInv /\ TypeOK /\ Coherent /\ call.op = "size" /\ ~modified /\ UNCHANGED <<modified, m_fileptr>>
      /\ call.size \in 0..Limit /\ length \in 0..Limit /\ Limit \in Nat
  BY CallFields, SizeAssumption DEF JInv, IInv, SetSize, Goes, MustFlush, TypeOK
<1>2. Contents = file /\ Size = length /\ Contents' = file' /\ Size' = length'
  <2>1. ~modified' /\ file' \in [Offsets -> Bytes]
    BY <1>1, SetSizeKeeps DEF JInv, IInv, TypeOK
  <2>2. Contents' = file' /\ Size' = length'
    BY <2>1 DEF Contents, InBuffer, Size
  <2> QED BY <1>1, <2>2, FileShows
<1>3. CASE /\ file' = [i \in Offsets |-> IF i < call.size THEN file[i] ELSE Zero]
           /\ length' = call.size
           /\ Returns("size", call.size, <<>>)
  <2>1. file' = [o \in Offsets |-> IF o < call.size /\ o < length THEN file[o] ELSE Zero]
    <3>1. ASSUME NEW o \in Offsets, ~(o < length) PROVE file[o] = Zero
      BY <1>1, <3>1 DEF Coherent, Offsets
    <3> QED BY <1>1, <1>3, <3>1 DEF Offsets
  <2>2. Plain!SetSize
    <3>1. answer' = Plain!Answer("size", call.size, <<>>) /\ call'.op = "none"
      BY <1>3 DEF Returns, Answer, Plain!Answer, NoCall
    <3>2. Pending.op = "size" /\ Pending.count = call.size /\ Pending' = Plain!Idle
      BY <1>1, <3>1, Asked DEF Pending
    <3> QED BY <1>1, <1>2, <1>3, <2>1, <3>1, <3>2
            DEF Plain!SetSize, Plain!Ends, Plain!Offsets, Offsets
  <2> QED BY <2>2 DEF Plain!Next
<1>4. CASE Fails /\ UNCHANGED disk
  BY <1>1, <1>2, <1>4, PlainFails DEF Fails, NoCall, disk
<1> QED BY <1>3, <1>4 DEF SetSize

LEMMA DoneRefines == ASSUME JInv, Syncs \/ Closes PROVE [Plain!Next]_Plain!vars
<1>1. /\ call.op \in {"sync", "close"} /\ UNCHANGED <<disk, modified, page, m_fileptr>>
      /\ call' = NoCall
  BY DEF Syncs, Closes, Goes, Returns, Fails
<1>2. Contents' = Contents /\ Size' = Size
  BY <1>1 DEF Contents, InBuffer, Size, disk, page
<1>3. CASE Fails
  BY <1>1, <1>2, <1>3, PlainFails DEF Fails, NoCall
<1>4. CASE Returns(call.op, 0, <<>>)
  <2>1. answer' = Plain!Answer(call.op, 0, <<>>)
    BY <1>4 DEF Returns, Answer, Plain!Answer
  <2>2. Plain!Done
    BY <1>1, <1>2, <2>1, Asked DEF Plain!Done, Plain!Ends, NoCall
  <2> QED BY <2>2 DEF Plain!Next
<1> QED BY <1>3, <1>4 DEF Syncs, Closes, Goes

\* Every step of the buffered file is a step of the plain file, or none.
LEMMA StepRefines ==
    ASSUME ~MayReadDirtyLines, JInv, [Next]_vars
    PROVE  [Plain!Next]_Plain!vars
<1>1. IInv'
  BY StepKeeps DEF JInv
<1>2. CASE UNCHANGED vars
  BY <1>2, PlainStutters DEF vars, Contents, InBuffer, Size
<1>3. CASE Starts
  BY <1>3, StartsRefine
<1>4. CASE Steps
  BY <1>1, <1>4, FlushRefines, ReadMissRefines, ReadHitRefines, ReadReturnsRefines,
     WriteMissRefines, WriteHitRefines, WriteReturnsRefines, LineEntersRefines,
     LineScansRefines, SetSizeRefines, DoneRefines DEF Steps
<1> QED BY <1>2, <1>3, <1>4 DEF Next

\* The buffered file is a plain file: whatever was read, written, resized or synced
\* before, and whatever failed, a read answers all the requested bytes the file has
\* and a line those up to its end, as they were written last, and no call changes a
\* byte it was not asked to, for pages, files and requests of every size.
THEOREM ImplementsPlainFile == ASSUME ~MayReadDirtyLines PROVE Spec => IsPlainFile
<1>1. Init => JInv
  BY JInit
<1>2. JInv /\ [Next]_vars => JInv'
  BY JStepKeeps
<1>3. JInv /\ [Next]_vars => [Plain!Next]_Plain!vars
  BY StepRefines
<1>4. Init => Plain!Init
  BY PlainInit
<1> QED BY <1>1, <1>2, <1>3, <1>4, PTL DEF Spec, IsPlainFile, Plain!Spec
=============================================================================
