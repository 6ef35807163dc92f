------------------------------ MODULE PlainFile ------------------------------
(***************************************************************************)
(* What an open file promises its caller (osl_readFile, osl_writeFile,     *)
(* osl_readLine, osl_setFileSize, osl_setFilePos, osl_closeFile): the      *)
(* caller sees one array of bytes and one position, and no buffer.         *)
(*                                                                         *)
(* A call is asked for and answered, and what it answers is what was asked *)
(* for: a read has all the bytes the file has of those requested.  A read  *)
(* and a read of a line happen in one step.  A write stores its bytes in   *)
(* pieces, because it may fail after some of them.  The bytes between the  *)
(* old end and a write beyond it are not promised, and a close that fails  *)
(* promises nothing of what was written.                                   *)
(***************************************************************************)
EXTENDS Integers, Sequences

CONSTANTS Bytes, Zero, LF, CR, Limit

VARIABLES
    content,  \* the bytes, Zero from size on
    size,     \* how many of them there are
    pos,      \* the position of the handle
    pending,  \* what was asked for and not answered yet, or Idle
    answer    \* what the last call answered, Unanswered while one runs

vars == <<content, size, pos, pending, answer>>

Offsets == 0..Limit - 1
\* The operation, its offset, how many bytes are to be read or to be the size,
\* what is left to write, and whether the position follows.
Requests == [op : {"read", "line", "write", "size", "sync", "close"}, at : Nat, count : Nat,
             left : Seq(Bytes), moves : BOOLEAN]
Idle == [op |-> "none", at |-> 0, count |-> 0, left |-> <<>>, moves |-> FALSE]
Failure(op) == [op |-> op, at |-> 0, ok |-> FALSE, data |-> <<>>]
Unanswered == [op |-> "none", at |-> 0, ok |-> FALSE, data |-> <<>>]
Answer(op, o, data) == [op |-> op, at |-> o, ok |-> TRUE, data |-> data]

\* The bytes from offset o on, n of them or as many as there are.
Slice(o, n) ==
    LET count == IF o >= size THEN 0 ELSE IF o + n <= size THEN n ELSE size - o
    IN  [i \in 1..count |-> content[o + i - 1]]

\* The offset of the first line delimiter from o on, or the end.
LineEnd(o) ==
    LET ends == {e \in o..size : e = size \/ content[e] = LF}
    IN  CHOOSE e \in ends : \A other \in ends : e <= other

Init ==
    /\ content \in [Offsets -> Bytes]
    /\ size \in 0..Limit
    /\ \A o \in Offsets : o >= size => content[o] = Zero
    /\ pos = 0
    /\ pending = Idle
    /\ answer = Answer("open", 0, <<>>)

\* A call is made: osl_readFile and its like begin at the position.
Call ==
    /\ pending = Idle
    /\ pending' \in Requests
    /\ pending'.moves => pending'.at = pos
    /\ answer' = Unanswered
    /\ UNCHANGED <<content, size, pos>>

\* The call that was asked for returns.
Ends(result) == pending' = Idle /\ answer' = result

\* A call that the handle does not allow fails at once, and changes nothing.
Refuse ==
    /\ pending = Idle
    /\ \E op \in {"write", "size", "pos"} : answer' = Failure(op)
    /\ UNCHANGED <<content, size, pos, pending>>

\* Any call may fail, and changes nothing; a write and a close see below.
Fail ==
    /\ pending.op \in {"read", "line", "size", "sync", "close"}
    /\ Ends(Failure(pending.op))
    /\ UNCHANGED <<content, size, pos>>

Read ==
    /\ pending.op = "read"
    /\ LET data == Slice(pending.at, pending.count)
       IN  /\ Ends(Answer("read", pending.at, data))
           /\ pos' = IF pending.moves THEN pos + Len(data) ELSE pos
    /\ UNCHANGED <<content, size>>

ReadLine ==
    /\ pending.op = "line"
    /\ pos < size
    /\ Ends(Answer("line", pos, Slice(pos, LineEnd(pos) - pos)))
    /\ pos' = IF LineEnd(pos) = size THEN size ELSE LineEnd(pos) + 1
    /\ UNCHANGED <<content, size>>

\* With a CR before the end of the line nothing is promised but the contents.
ReadPastCR ==
    /\ pending.op = "line"
    /\ \E o \in pos..size - 1 : content[o] = CR /\ o <= LineEnd(pos)
    /\ pending' = Idle /\ answer'.op = "line"
    /\ UNCHANGED <<content, size>>

\* The first n bytes of what is left are stored; the others stay, but for a gap.
Stores(n) ==
    LET end == pending.at + n
    IN  /\ size' = IF n > 0 /\ end > size THEN end ELSE size
        /\ content' \in [Offsets -> Bytes]
        /\ \A o \in Offsets :
             /\ pending.at <= o /\ o < end
                   => content'[o] = pending.left[o - pending.at + 1]
             /\ (o < pending.at /\ o < size) \/ o >= end \/ n = 0
                   => content'[o] = content[o]

Put ==
    /\ pending.op = "write"
    /\ \E n \in 1..Len(pending.left) :
         /\ Stores(n)
         /\ pending' = [pending EXCEPT !.at = @ + n, !.left = SubSeq(@, n + 1, Len(@))]
    /\ UNCHANGED <<pos, answer>>

\* A write that fails may have stored a piece more.
FailWrite ==
    /\ pending.op = "write"
    /\ \E n \in 0..Len(pending.left) : Stores(n)
    /\ Ends(Failure("write"))
    /\ UNCHANGED pos

EndWrite ==
    /\ pending.op = "write" /\ pending.left = <<>>
    /\ Ends(Answer("write", pending.at, <<>>))
    /\ pos' = IF pending.moves THEN pending.at ELSE pos
    /\ UNCHANGED <<content, size>>

SetSize ==
    /\ pending.op = "size"
    /\ size' = pending.count
    /\ content' = [o \in Offsets |->
                      IF o < pending.count /\ o < size THEN content[o] ELSE Zero]
    /\ Ends(Answer("size", pending.count, <<>>))
    /\ UNCHANGED pos

\* A seek is asked for and answered at once.
SetPos ==
    /\ pending = Idle
    /\ pos' \in 0..Limit
    /\ answer' = Answer("pos", pos', <<>>)
    /\ UNCHANGED <<content, size, pending>>

Done ==
    /\ pending.op \in {"sync", "close"}
    /\ Ends(Answer(pending.op, 0, <<>>))
    /\ UNCHANGED <<content, size, pos>>

\* The close failed: the bytes since the last successful one are in doubt.
LoseAll ==
    /\ pending.op = "close"
    /\ size' \in 0..Limit
    /\ content' \in [Offsets -> Bytes]
    /\ Ends(Failure("close"))
    /\ UNCHANGED pos

Open ==
    /\ pending = Idle
    /\ pos' = 0
    /\ answer' = Answer("open", 0, <<>>)
    /\ UNCHANGED <<content, size, pending>>

Next ==
    \/ Call \/ Refuse \/ Fail \/ Read \/ ReadLine \/ ReadPastCR \/ Put \/ FailWrite \/ EndWrite
    \/ SetSize \/ SetPos \/ Done \/ LoseAll \/ Open

Spec == Init /\ [][Next]_vars
=============================================================================
